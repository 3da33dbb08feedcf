-------------------------- MODULE AlgorithmsProofs --------------------------
(***************************************************************************)
(* What matching, parsing, triage and calibration answer, for any          *)
(* catalogue, reading, page, routing table and review: the properties that *)
(* Algorithms states, for every input instead of the enumerated ones.      *)
(* Pricing is in PricingProofs.                                            *)
(***************************************************************************)
EXTENDS Algorithms, FunctionTheorems, FiniteSetTheorems, WellFoundedInduction, TLAPS

(***************************************************************************)
(* What is on record is what an algorithm makes of the question.           *)
(***************************************************************************)
Records(question, result) == asked = question /\ answer = result

AnswerPrice ==
  \E line \in Lines, sheets \in Sheets, on \in Days :
    Records([about |-> "price", line |-> line, on |-> on], PriceLine(line, sheets, on))

AnswerOverride ==
  \E line \in Lines, margin \in Margins, sheets \in Sheets, on \in Days :
    Records([about |-> "override", line |-> line, margin |-> margin, sheets |-> sheets, on |-> on],
            [before |-> PriceLine(Override(line, margin), sheets, on),
             after |-> PriceLine(Override(PriceLine(line, sheets, on), margin), sheets, on)])

AnswerAssemble ==
  \E quote \in Quotes, sheets \in Sheets, on \in Days, later \in Days :
    Records([about |-> "assemble", quote |-> quote, sheets |-> sheets, on |-> on],
            [once |-> Assembled(quote, sheets, on),
             again |-> Assembled(Assembled(quote, sheets, on), sheets, on),
             later |-> Assembled(Assembled(quote, sheets, on), sheets, later)])

AnswerMatch ==
  \E criteria \in Criteria, items \in Catalogues :
    Records([about |-> "match", criteria |-> criteria, items |-> items],
            [accepted |-> Accepted(criteria, items, TopN, Tolerance),
             status |-> Disposition(criteria, items, TopN, Cutoff, Tolerance)])

AnswerFireRating ==
  \E raw \in Readings.fire_rating :
    Records([about |-> "fire_rating", raw |-> raw], P!ParseFireRating(raw))

AnswerSize ==
  \E raw \in Readings.size : Records([about |-> "size", raw |-> raw], P!ParseSize(raw))

AnswerHanding ==
  \E raw \in Readings.handing : Records([about |-> "handing", raw |-> raw], P!ParseHanding(raw))

AnswerFinish ==
  \E raw \in Readings.finish, rows \in FinishTables :
    Records([about |-> "finish", raw |-> raw, rows |-> rows], P!ParseFinish(raw, rows))

AnswerWall ==
  \E raw \in Readings.wall, rows \in WallTables :
    Records([about |-> "wall", raw |-> raw, rows |-> rows], P!ParseThroatDepth(raw, rows))

AnswerTriage ==
  \E page \in Pages, table \in Tables :
    Records([about |-> "triage", page |-> page, table |-> table], Triaged(page, table))

AnswerCalibrate ==
  \E fields \in SUBSET ReviewedFields, target \in Targets :
    Records([about |-> "calibrate", fields |-> fields, target |-> target],
            Recommend(Samples(fields), target))

Answered ==
  \/ asked = NULL
  \/ AnswerPrice \/ AnswerOverride \/ AnswerAssemble \/ AnswerMatch
  \/ AnswerFireRating \/ AnswerSize \/ AnswerHanding \/ AnswerFinish \/ AnswerWall
  \/ AnswerTriage \/ AnswerCalibrate

LEMMA EveryAnswer == Spec => []Answered
<1>1. Init => Answered
  BY DEF Init, Answered
<1>2. Answered /\ [Next]_vars => Answered'
  <2> SUFFICES ASSUME Answered, [Next]_vars PROVE Answered'
    OBVIOUS
  <2>1. CASE AskPrice
    BY <2>1 DEF AskPrice, Ask, Answered, AnswerPrice, Records
  <2>2. CASE AskOverride
    BY <2>2 DEF AskOverride, Ask, Answered, AnswerOverride, Records
  <2>3. CASE AskAssemble
    BY <2>3 DEF AskAssemble, Ask, Answered, AnswerAssemble, Records
  <2>4. CASE AskMatch
    BY <2>4 DEF AskMatch, Ask, Answered, AnswerMatch, Records
  <2>5. CASE AskParse
    BY <2>5 DEF AskParse, Ask, Answered, AnswerFireRating, AnswerSize, AnswerHanding, Records
  <2>6. CASE AskLookup
    BY <2>6 DEF AskLookup, Ask, Answered, AnswerFinish, AnswerWall, Records
  <2>7. CASE AskTriage
    BY <2>7 DEF AskTriage, Ask, Answered, AnswerTriage, Records
  <2>8. CASE AskCalibrate
    BY <2>8 DEF AskCalibrate, Ask, Answered, AnswerCalibrate, Records
  <2>9. CASE Forget
    BY <2>9 DEF Forget, Answered
  <2>10. CASE UNCHANGED vars
    BY <2>10 DEF vars, Answered, AnswerPrice, AnswerOverride, AnswerAssemble, AnswerMatch,
                 AnswerFireRating, AnswerSize, AnswerHanding, AnswerFinish, AnswerWall,
                 AnswerTriage, AnswerCalibrate, Records
  <2>. QED BY <2>1, <2>2, <2>3, <2>4, <2>5, <2>6, <2>7, <2>8, <2>9, <2>10 DEF Next
<1>. QED BY <1>1, <1>2, PTL DEF Spec

(***************************************************************************)
(* Arithmetic.                                                             *)
(***************************************************************************)
LEMMA Division ==
  ASSUME NEW n \in Int, NEW d \in Int, d > 0
  PROVE  /\ n \div d \in Int /\ n % d \in 0..(d - 1)
         /\ n = d * (n \div d) + (n % d)
  OBVIOUS

\* A set of numbers that are bounded has a largest.
LEMMA HasLargest ==
  ASSUME NEW S \in SUBSET Int, NEW b \in Int, S # {}, \A x \in S : x <= b
  PROVE  \E x \in S : \A y \in S : y <= x
<1> DEFINE R == {pair \in Nat \X Nat : pair[1] < pair[2]}
           T == {b - x : x \in S}
<1>1. T \subseteq Nat /\ T # {}
  <2>1. \A x \in S : b - x \in Nat
    OBVIOUS
  <2>. QED BY <2>1
<1>2. IsWellFoundedOn(R, Nat)
  BY NatLessThanWellFounded DEF OpToRel
<1>3. \E t \in T : \A u \in T : ~(<<u, t>> \in R)
  <2> HIDE DEF R, T
  <2>. QED BY <1>1, <1>2, WFMin
<1>4. PICK t \in T : \A u \in T : t <= u
  <2>1. PICK t \in T : \A u \in T : ~(<<u, t>> \in R)
    BY <1>3
  <2>2. ASSUME NEW u \in T PROVE t <= u
    <3>1. u \in Nat /\ t \in Nat
      BY <1>1
    <3>2. ~(<<u, t>> \in R)
      BY <2>1
    <3>3. ~(u < t)
      BY <3>1, <3>2
    <3>. QED BY <3>1, <3>3
  <2> HIDE DEF T
  <2>. QED BY <2>2
<1>5. PICK x \in S : t = b - x
  BY <1>4
<1>6. ASSUME NEW y \in S PROVE y <= x
  <2>1. b - y \in T
    OBVIOUS
  <2>2. b - x <= b - y
    BY <1>4, <1>5, <2>1
  <2>3. x \in Int /\ y \in Int
    OBVIOUS
  <2>. QED BY <2>2, <2>3
<1>. QED BY <1>6


LEMMA Topics ==
  ASSUME Answered
  PROVE  /\ About("price") => AnswerPrice
         /\ About("override") => AnswerOverride
         /\ About("assemble") => AnswerAssemble
         /\ About("match") => AnswerMatch
         /\ About("fire_rating") => AnswerFireRating
         /\ About("size") => AnswerSize
         /\ About("handing") => AnswerHanding
         /\ About("finish") => AnswerFinish
         /\ About("wall") => AnswerWall
         /\ About("triage") => AnswerTriage
         /\ About("calibrate") => AnswerCalibrate
<1>1. AnswerPrice => asked.about = "price"
  BY DEF AnswerPrice, Records
<1>2. AnswerOverride => asked.about = "override"
  BY DEF AnswerOverride, Records
<1>3. AnswerAssemble => asked.about = "assemble"
  BY DEF AnswerAssemble, Records
<1>4. AnswerMatch => asked.about = "match"
  BY DEF AnswerMatch, Records
<1>5. AnswerFireRating => asked.about = "fire_rating"
  BY DEF AnswerFireRating, Records
<1>6. AnswerSize => asked.about = "size"
  BY DEF AnswerSize, Records
<1>7. AnswerHanding => asked.about = "handing"
  BY DEF AnswerHanding, Records
<1>8. AnswerFinish => asked.about = "finish"
  BY DEF AnswerFinish, Records
<1>9. AnswerWall => asked.about = "wall"
  BY DEF AnswerWall, Records
<1>10. AnswerTriage => asked.about = "triage"
  BY DEF AnswerTriage, Records
<1>11. AnswerCalibrate => asked.about = "calibrate"
  BY DEF AnswerCalibrate, Records
<1>. QED BY <1>1, <1>2, <1>3, <1>4, <1>5, <1>6, <1>7, <1>8, <1>9, <1>10, <1>11
         DEF Answered, About

(***************************************************************************)
(* Matching.                                                               *)
(***************************************************************************)
\* Scores are within ten-thousandths, and without a series or a size to meet, as for
\* a component, only the part the architect names reaches 9800.
LEMMA ConfidenceBounds ==
  ASSUME NEW c, NEW item, item.text \in 0..100
  PROVE  /\ Confidence(c, item, Tolerance) \in Nat /\ Confidence(c, item, Tolerance) <= 10000
         /\ c.series = NULL /\ c.size = NULL /\ ~Names(c, item) =>
              Confidence(c, item, Tolerance) < PART_NUMBER_CONFIDENCE
         /\ Names(c, item) /\ Eligible(c, item) =>
              Confidence(c, item, Tolerance) = PART_NUMBER_CONFIDENCE
<1>1. ScoreFinish(c, item) \in 0..100
  BY DEF ScoreFinish
<1>2. ScoreVendor(c, item) \in 0..100 /\ (c.series = NULL => ScoreVendor(c, item) <= 90)
  BY DEF ScoreVendor
<1>3. ScoreSize(c, item, Tolerance) \in 0..100
      /\ (c.size = NULL => ScoreSize(c, item, Tolerance) <= 50)
  BY DEF ScoreSize
<1>4. ScoreStock(item) \in 0..100
  BY DEF ScoreStock
<1>5. /\ WEIGHT.finish = 30 /\ WEIGHT.vendor = 25 /\ WEIGHT.size = 20
      /\ WEIGHT.text = 15 /\ WEIGHT.stock = 10
  BY DEF WEIGHT
<1> DEFINE finish == ScoreFinish(c, item)
           vendor == ScoreVendor(c, item)
           size == ScoreSize(c, item, Tolerance)
           stock == ScoreStock(item)
           score == finish * 30 + vendor * 25 + size * 20 + item.text * 15 + stock * 10
<1>6. Confidence(c, item, Tolerance) =
        IF ~Eligible(c, item) THEN 0
        ELSE IF Names(c, item) THEN PART_NUMBER_CONFIDENCE ELSE score
  BY <1>5 DEF Confidence, NamesThePart, Names
<1>7. score \in Nat /\ score <= 10000 /\ (c.series = NULL /\ c.size = NULL => score < 9800)
  <2>1. /\ finish \in 0..100 /\ vendor \in 0..100 /\ size \in 0..100 /\ stock \in 0..100
        /\ c.series = NULL => vendor <= 90
        /\ c.size = NULL => size <= 50
    BY <1>1, <1>2, <1>3, <1>4
  <2> HIDE DEF finish, vendor, size, stock
  <2>2. finish * 30 \in 0..3000 /\ vendor * 25 \in 0..2500 /\ size * 20 \in 0..2000
        /\ item.text * 15 \in 0..1500 /\ stock * 10 \in 0..1000
    BY <2>1
  <2>3. (c.series = NULL => vendor * 25 <= 2250) /\ (c.size = NULL => size * 20 <= 1000)
    BY <2>1
  <2> DEFINE f == finish * 30
             v == vendor * 25
             z == size * 20
             t == item.text * 15
             k == stock * 10
  <2> HIDE DEF f, v, z, t, k
  <2>4. score = f + v + z + t + k
    BY DEF f, v, z, t, k
  <2>5. /\ f \in 0..3000 /\ v \in 0..2500 /\ z \in 0..2000 /\ t \in 0..1500 /\ k \in 0..1000
        /\ c.series = NULL => v <= 2250
        /\ c.size = NULL => z <= 1000
    BY <2>2, <2>3 DEF f, v, z, t, k
  <2> HIDE DEF score
  <2>. QED BY <2>4, <2>5
<1> HIDE DEF score
<1>. QED BY <1>6, <1>7 DEF PART_NUMBER_CONFIDENCE

\* What goes before an item in the ranking.
Beats(c, i, j) ==
  \/ Confidence(c, i, Tolerance) > Confidence(c, j, Tolerance)
  \/ Confidence(c, i, Tolerance) = Confidence(c, j, Tolerance) /\ i.place < j.place

Fit(c, items) == {i \in items : Eligible(c, i)}
Betters(c, items, i) == {j \in Fit(c, items) : Beats(c, j, i)}

LEMMA AcceptedIsTop ==
  ASSUME NEW c \in Criteria, NEW items \in Catalogues
  PROVE  Accepted(c, items, TopN, Tolerance) =
           IF Unanswered(c) THEN {}
           ELSE {i \in Fit(c, items) : Cardinality(Betters(c, items, i)) < TopN}
<1>1. Fit(c, items) = {i \in CandidatesFor(c, items) : Eligible(c, i)}
  BY DEF Fit, CandidatesFor, Eligible
<1>. QED BY <1>1 DEF Accepted, Betters, Beats


LEMMA FitIsScored ==
  ASSUME NEW c, NEW items \in Catalogues
  PROVE  /\ IsFiniteSet(Fit(c, items))
         /\ \A i \in Fit(c, items) :
              /\ i.place \in Nat
              /\ Confidence(c, i, Tolerance) \in Nat /\ Confidence(c, i, Tolerance) <= 10000
<1>1. IsFiniteSet(items) /\ \A i \in items : i.text \in 0..100 /\ i.place \in Nat
  BY MatchingAssumption
<1>2. Fit(c, items) \in SUBSET items
  BY DEF Fit
<1>3. \A i \in items :
        Confidence(c, i, Tolerance) \in Nat /\ Confidence(c, i, Tolerance) <= 10000
  BY <1>1, ConfidenceBounds
<1>. QED BY <1>1, <1>2, <1>3, FS_Subset

\* The item at the head of the list: the best score, the first of equals.
LEMMA BestFit ==
  ASSUME NEW c, NEW items \in Catalogues, Fit(c, items) # {}
  PROVE  \E i \in Fit(c, items) :
           /\ Betters(c, items, i) = {}
           /\ \A j \in Fit(c, items) :
                Confidence(c, j, Tolerance) <= Confidence(c, i, Tolerance)
<1> DEFINE F == Fit(c, items)
           Score(i) == Confidence(c, i, Tolerance)
<1>1. \A i \in F : i.place \in Nat /\ Score(i) \in Nat /\ Score(i) <= 10000
  BY FitIsScored
<1>2. \E x \in F : \A y \in F : Score(y) <= Score(x)
  <2> DEFINE S == {Score(i) : i \in F}
  <2>1. \A i \in F : Score(i) \in Int /\ Score(i) <= 10000
    BY <1>1
  <2>2. S \in SUBSET Int /\ S # {} /\ \E b \in Int : \A x \in S : x <= b
    <3> HIDE DEF Score, F
    <3>1. S \in SUBSET Int /\ \A x \in S : x <= 10000
      BY <2>1
    <3>2. S # {}
      BY DEF F
    <3>3. 10000 \in Int
      OBVIOUS
    <3> HIDE DEF S
    <3>4. \E b \in Int : \A x \in S : x <= b
      <4> WITNESS 10000 \in Int
      <4>. QED BY <3>1
    <3>. QED BY <3>1, <3>2, <3>4
  <2>3. \E x \in S : \A y \in S : y <= x
    <3> HIDE DEF S
    <3>. QED BY <2>2, HasLargest
  <2>. QED BY <2>3
<1>3. PICK x \in F : \A y \in F : Score(y) <= Score(x)
  BY <1>2
<1> DEFINE E == {i \in F : Score(i) = Score(x)}
           N == {-(i.place) : i \in E}
<1>4. \E n \in N : \A m \in N : m <= n
  <2>1. N \in SUBSET Int /\ N # {} /\ 0 \in Int /\ \A m \in N : m <= 0
    <3>1. \A i \in E : i.place \in Nat
      BY <1>1
    <3>2. x \in E
      OBVIOUS
    <3> HIDE DEF E
    <3>. QED BY <3>1, <3>2
  <2> HIDE DEF N
  <2>. QED BY <2>1, HasLargest
<1>5. PICK i \in E : \A j \in E : i.place <= j.place
  <2>1. PICK n \in N : \A m \in N : m <= n
    BY <1>4
  <2>2. PICK i \in E : n = -(i.place)
    BY <2>1
  <2>3. ASSUME NEW j \in E PROVE i.place <= j.place
    <3>1. -(j.place) \in N
      OBVIOUS
    <3>2. -(j.place) <= -(i.place)
      BY <2>1, <2>2, <3>1
    <3>3. i.place \in Nat /\ j.place \in Nat
      BY <1>1
    <3>. QED BY <3>2, <3>3
  <2>. QED BY <2>3
<1>6. i \in F /\ Score(i) = Score(x)
  OBVIOUS
<1>7. \A j \in F : Score(j) <= Score(i)
  BY <1>3, <1>6
<1>8. ASSUME NEW j \in F, Beats(c, j, i) PROVE FALSE
  <2>1. Score(j) \in Int /\ Score(i) \in Int /\ i.place \in Int /\ j.place \in Int
    BY <1>1, <1>6
  <2>2. Score(j) <= Score(i)
    BY <1>7
  <2>3. Score(j) > Score(i) \/ (Score(j) = Score(i) /\ j.place < i.place)
    BY <1>8 DEF Beats
  <2> HIDE DEF Score
  <2>4. Score(j) = Score(i) /\ j.place < i.place
    BY <2>1, <2>2, <2>3
  <2>5. j \in E
    BY <1>6, <2>4
  <2>. QED BY <1>5, <2>1, <2>4, <2>5
<1>. QED BY <1>6, <1>7, <1>8 DEF Betters

\* Keeping only the best few decides nothing: something is proposed exactly when some
\* item that passes the hard constraints reaches the cut-off, and no item left out beats
\* one that was kept, for every catalogue, length of list and cut-off.
THEOREM ShortListIsFair == Spec => []ShortListLosesNothing
<1>1. ASSUME AnswerMatch PROVE ShortListLosesNothing
  <2>1. PICK c \in Criteria, items \in Catalogues :
          Records([about |-> "match", criteria |-> c, items |-> items],
                  [accepted |-> Accepted(c, items, TopN, Tolerance),
                   status |-> Disposition(c, items, TopN, Cutoff, Tolerance)])
    BY <1>1 DEF AnswerMatch
  <2> DEFINE F == Fit(c, items)
             Score(i) == Confidence(c, i, Tolerance)
             A == Accepted(c, items, TopN, Tolerance)
  <2>2. asked.criteria = c /\ asked.items = items /\ answer.accepted = A
        /\ answer.status = Disposition(c, items, TopN, Cutoff, Tolerance)
    BY <2>1 DEF Records
  <2>3. {i \in items : Eligible(c, i)} = F
    BY DEF Fit
  <2>4. A = IF Unanswered(c) THEN {} ELSE {i \in F : Cardinality(Betters(c, items, i)) < TopN}
    BY AcceptedIsTop
  <2>5. \A i \in F : Score(i) \in Int
    <3>1. \A i \in F : Score(i) \in Nat
      BY FitIsScored
    <3> HIDE DEF F, Score
    <3>. QED BY <3>1
  <2>6. Cutoff \in Int /\ TopN \in Nat \ {0}
    BY MatchingAssumption
  <2> HIDE DEF A, F, Score
  <2>7. (\E i \in A : Score(i) >= Cutoff) <=> (~Unanswered(c) /\ \E i \in F : Score(i) >= Cutoff)
    <3>1. ASSUME NEW i \in A, Score(i) >= Cutoff
          PROVE  ~Unanswered(c) /\ i \in F
      BY <2>4, <3>1
    <3>2. ASSUME ~Unanswered(c), NEW j \in F, Score(j) >= Cutoff
          PROVE  \E i \in A : Score(i) >= Cutoff
      <4>1. PICK i \in F : Betters(c, items, i) = {} /\ \A k \in F : Score(k) <= Score(i)
        BY BestFit DEF F, Score
      <4>2. i \in A
        BY <2>4, <2>6, <3>2, <4>1, FS_EmptySet
      <4>3. Score(i) >= Cutoff
        BY <2>5, <2>6, <3>2, <4>1
      <4>. QED BY <4>2, <4>3
    <3>. QED BY <3>1, <3>2
  <2>8. (answer.status = "PROPOSED") <=> (\E i \in A : Score(i) >= Cutoff)
    BY <2>2 DEF Disposition, A, Score
  <2>9. ASSUME NEW kept \in A, NEW i \in F \ A PROVE Score(i) <= Score(kept)
    <3>1. kept \in F /\ ~Unanswered(c) /\ Cardinality(Betters(c, items, kept)) < TopN
          /\ ~(Cardinality(Betters(c, items, i)) < TopN)
      BY <2>4, <2>9
    <3>2. ASSUME Score(i) > Score(kept) PROVE FALSE
      <4>1. Betters(c, items, i) \in SUBSET Betters(c, items, kept)
        <5>1. ASSUME NEW j \in F, Beats(c, j, i) PROVE Beats(c, j, kept)
          <6>1. Score(j) >= Score(i)
            BY <2>5, <2>9, <5>1 DEF Beats, Score
          <6>2. Score(j) > Score(kept)
            BY <2>5, <2>9, <3>1, <3>2, <6>1
          <6>. QED BY <6>2 DEF Beats, Score
        <5>. QED BY <5>1 DEF Betters, F
      <4>2. IsFiniteSet(Betters(c, items, kept))
        <5>1. Betters(c, items, kept) \in SUBSET Fit(c, items)
          BY DEF Betters
        <5>. QED BY <5>1, FitIsScored, FS_Subset
      <4>3. /\ Cardinality(Betters(c, items, i)) <= Cardinality(Betters(c, items, kept))
            /\ Cardinality(Betters(c, items, kept)) \in Nat
            /\ Cardinality(Betters(c, items, i)) \in Nat
        BY <4>1, <4>2, FS_Subset, FS_CardinalityType
      <4>. QED BY <2>6, <3>1, <4>3
    <3>. QED BY <2>5, <2>9, <3>1, <3>2
  <2>. QED BY <2>2, <2>3, <2>7, <2>8, <2>9 DEF ShortListLosesNothing, Score
<1>2. Answered => ShortListLosesNothing
  BY <1>1, Topics DEF ShortListLosesNothing
<1>. QED BY <1>2, EveryAnswer, PTL


\* The part an architect names heads the proposals for a component whenever its rating,
\* hand and division allow it, whatever else the catalogue offers: 9800 is out of reach
\* of everything that the soft constraints can add up to.
THEOREM NamedPartIsFirst == Spec => []NamedPartHeadsTheList
<1>1. ASSUME AnswerMatch, asked.criteria.series = NULL /\ asked.criteria.size = NULL
      PROVE  NamedPartHeadsTheList
  <2>1. PICK c \in Criteria, items \in Catalogues :
          Records([about |-> "match", criteria |-> c, items |-> items],
                  [accepted |-> Accepted(c, items, TopN, Tolerance),
                   status |-> Disposition(c, items, TopN, Cutoff, Tolerance)])
    BY <1>1 DEF AnswerMatch
  <2> DEFINE F == Fit(c, items)
             Score(i) == Confidence(c, i, Tolerance)
             A == Accepted(c, items, TopN, Tolerance)
             Named == {i \in items : Names(c, i)}
  <2>2. asked.criteria = c /\ asked.items = items /\ answer.accepted = A
    BY <2>1 DEF Records
  <2>3. c.series = NULL /\ c.size = NULL
    BY <1>1, <2>2
  <2>4. A = IF Unanswered(c) THEN {} ELSE {i \in F : Cardinality(Betters(c, items, i)) < TopN}
    BY AcceptedIsTop
  <2>5. ASSUME NEW i \in F
        PROVE  /\ Score(i) \in Nat /\ Score(i) <= 9800
               /\ Score(i) >= 9800 => Names(c, i)
    <3>1. i \in items /\ Eligible(c, i) /\ i.text \in 0..100
      BY MatchingAssumption DEF Fit
    <3>2. /\ Score(i) \in Nat
          /\ ~Names(c, i) => Score(i) < 9800
          /\ Names(c, i) => Score(i) = 9800
      BY <2>3, <3>1, ConfidenceBounds DEF PART_NUMBER_CONFIDENCE
    <3> HIDE DEF Score
    <3>. QED BY <3>2
  <2>6. IsFiniteSet(items)
    BY MatchingAssumption
  <2>7. ASSUME NEW item \in items, Names(c, item), Eligible(c, item), ~Unanswered(c),
               ~(Cardinality(Named) > TopN)
        PROVE  item \in A /\ \A other \in A : Score(other) <= Score(item)
    <3>1. item \in F
      BY <2>7 DEF Fit
    <3>2. Score(item) = 9800
      BY <2>7, MatchingAssumption, ConfidenceBounds DEF PART_NUMBER_CONFIDENCE
    <3> DEFINE B == Betters(c, items, item)
    <3>3. B \in SUBSET (Named \ {item})
      <4>1. ASSUME NEW j \in F, Beats(c, j, item) PROVE Names(c, j) /\ j # item
        <5>1. Score(j) > Score(item) \/ (Score(j) = Score(item) /\ j.place < item.place)
          BY <4>1 DEF Beats
        <5>2. Score(j) \in Nat /\ Score(j) <= 9800 /\ (Score(j) >= 9800 => Names(c, j))
          BY <2>5
        <5>3. item.place \in Nat
          BY MatchingAssumption
        <5> HIDE DEF Score, F
        <5>. QED BY <3>2, <5>1, <5>2, <5>3
      <4>. QED BY <4>1 DEF Betters, Fit
    <3>4. IsFiniteSet(Named) /\ Cardinality(Named) \in Nat /\ item \in Named
      <4>1. Named \in SUBSET items
        OBVIOUS
      <4>2. item \in Named
        BY <2>7
      <4> HIDE DEF Named
      <4>. QED BY <2>6, <4>1, <4>2, FS_Subset, FS_CardinalityType
    <3> HIDE DEF B, Named
    <3>5. /\ IsFiniteSet(Named \ {item})
          /\ Cardinality(Named \ {item}) = Cardinality(Named) - 1
      BY <3>4, FS_RemoveElement
    <3>6. Cardinality(B) <= Cardinality(Named) - 1 /\ Cardinality(B) \in Nat
      BY <3>3, <3>5, FS_Subset, FS_CardinalityType
    <3>7. Cardinality(B) < TopN
      BY <2>7, <3>4, <3>6, MatchingAssumption
    <3>8. item \in A
      BY <2>4, <2>7, <3>1, <3>7 DEF B
    <3>9. \A other \in A : Score(other) <= 9800
      BY <2>4, <2>5
    <3>. QED BY <3>2, <3>8, <3>9
  <2>. QED BY <2>2, <2>7 DEF NamedPartHeadsTheList
<1>2. Answered => NamedPartHeadsTheList
  BY <1>1, Topics DEF NamedPartHeadsTheList
<1>. QED BY <1>2, EveryAnswer, PTL


(***************************************************************************)
(* Parsing.                                                                *)
(***************************************************************************)
\* round() of a fraction is at most a half away from it.
LEMMA RoundedIsNear ==
  ASSUME NEW n \in Nat, NEW d \in Nat, d # 0
  PROVE  2 * Distance(P!Rounded(n, d) * d, n) <= d
<1> DEFINE q == n \div d
           r == n % d
<1>1. q \in Int /\ r \in 0..(d - 1) /\ n = d * q + r
  BY Division
<1>2. P!Rounded(n, d) = IF 2 * r > d \/ (2 * r = d /\ q % 2 = 1) THEN q + 1 ELSE q
  BY DEF P!Rounded
<1>3. \/ P!Rounded(n, d) = q /\ 2 * r <= d
      \/ P!Rounded(n, d) = q + 1 /\ 2 * r >= d
  <2> HIDE DEF q, r
  <2>. QED BY <1>1, <1>2
<1> DEFINE k == P!Rounded(n, d)
<1>4. CASE k = q /\ 2 * r <= d
  <2> HIDE DEF q, r, k
  <2>1. k * d - n = -r
    BY <1>1, <1>4
  <2>2. 2 * Distance(k * d, n) <= d
    BY <1>1, <1>4, <2>1 DEF Distance
  <2>. QED BY <2>2 DEF k
<1>5. CASE k = q + 1 /\ 2 * r >= d
  <2> HIDE DEF q, r, k
  <2>1. k * d - n = d - r
    BY <1>1, <1>5
  <2>2. 2 * Distance(k * d, n) <= d
    BY <1>1, <1>5, <2>1 DEF Distance
  <2>. QED BY <2>2 DEF k
<1>. QED BY <1>3, <1>4, <1>5

\* A reading says something, says that there is none, or is put before an estimator.
LEMMA Readings3 ==
  /\ P!Flagged.value = NULL /\ P!Flagged.absent = FALSE /\ P!Flagged.review = TRUE
  /\ P!SaysNone.value = NULL /\ P!SaysNone.absent = TRUE /\ P!SaysNone.review = FALSE
  /\ \A v : P!Read(v).value = v /\ P!Read(v).absent = FALSE /\ P!Read(v).review = FALSE
  BY DEF P!Flagged, P!SaysNone, P!Read

\* A rating is one of the minutes that its string states, and of a label the only one.
Stated(raw, reading) ==
  /\ reading.value # NULL =>
       /\ reading.value \in FIRE_RATING_MINUTES
       /\ reading.value \in StatedMinutes(raw)
       /\ raw[1] = "label" => StatedMinutes(raw) = {reading.value}
  /\ reading.absent => raw[1] = "none"
  /\ reading.review = (reading.value = NULL /\ ~reading.absent)

LEMMA NormalisedIsStated ==
  ASSUME NEW raw, NEW n,
         n \in {20, 45, 60, 90} => n \in StatedMinutes(raw),
         raw[1] = "label" => StatedMinutes(raw) = {n}
  PROVE  Stated(raw, P!Normalised(n))
<1>1. CASE n \in {20, 45, 60, 90}
  <2>1. P!Normalised(n) = P!Read(n) /\ n \in FIRE_RATING_MINUTES /\ n # NULL
    BY <1>1, ReadingsAssumption DEF P!Normalised, P!FIRE_RATING_MINUTES, FIRE_RATING_MINUTES
  <2> DEFINE reading == P!Normalised(n)
  <2>2. reading.value = n /\ reading.absent = FALSE /\ reading.review = FALSE
    BY <2>1, Readings3
  <2>3. n \in StatedMinutes(raw) /\ (raw[1] = "label" => StatedMinutes(raw) = {n})
    BY <1>1
  <2> HIDE DEF reading
  <2>4. Stated(raw, reading)
    BY <2>1, <2>2, <2>3 DEF Stated
  <2>. QED BY <2>4 DEF reading
<1>2. CASE n \notin {20, 45, 60, 90}
  <2>1. P!Normalised(n) = P!Flagged
    BY <1>2 DEF P!Normalised, P!FIRE_RATING_MINUTES
  <2>. QED BY <2>1, Readings3 DEF Stated
<1>. QED BY <1>1, <1>2

LEMMA FireRatingIsStated ==
  ASSUME NEW raw \in P!FireRatingReading
  PROVE  Stated(raw, P!ParseFireRating(raw))
<1> DEFINE reading == P!ParseFireRating(raw)
<1>1. Stated(raw, P!Flagged)
  BY Readings3 DEF Stated
<1>3. CASE raw \in {P!BLANK, <<"other">>}
  <2>1. reading = P!Flagged
    BY <1>3 DEF P!ParseFireRating, P!BLANK
  <2>. QED BY <1>1, <2>1
<1>4. CASE raw = <<"none">>
  <2>1. reading = P!SaysNone /\ raw[1] = "none"
    BY <1>4 DEF P!ParseFireRating
  <2>. QED BY <2>1, Readings3 DEF Stated
<1>5. CASE raw \in {"minutes"} \X Nat
  <2>1. raw[1] = "minutes" /\ reading = P!Normalised(raw[2])
    BY <1>5 DEF P!ParseFireRating
  <2>2. StatedMinutes(raw) = {raw[2]}
    BY <2>1 DEF StatedMinutes
  <2>. QED BY <2>1, <2>2, NormalisedIsStated
<1>6. CASE raw \in {"label"} \X {"A", "B", "C", "D", "E"}
  <2> DEFINE L == P!LetterLabels(raw[2])
  <2>1. raw[1] = "label" /\ raw[2] \in {"A", "B", "C", "D", "E"}
    BY <1>6
  <2>2. /\ reading = IF \E m \in L : L = {m} THEN P!Normalised(CHOOSE m \in L : TRUE) ELSE P!Flagged
        /\ StatedMinutes(raw) = L
    BY <2>1 DEF P!ParseFireRating, StatedMinutes
  <2> HIDE DEF L
  <2>3. CASE \E m \in L : L = {m}
    <3>1. PICK m \in L : L = {m}
      BY <2>3
    <3>2. reading = P!Normalised(m) /\ StatedMinutes(raw) = {m}
      BY <2>2, <3>1
    <3>. QED BY <3>2, NormalisedIsStated
  <2>4. CASE ~\E m \in L : L = {m}
    BY <1>1, <2>2, <2>4
  <2>. QED BY <2>3, <2>4
<1>7. CASE raw \in {"hours"} \X Nat \X Nat \X Nat
  <2> DEFINE n == 60 * (raw[2] * raw[4] + raw[3])
  <2>1. raw[1] = "hours" /\ raw[2] \in Nat /\ raw[3] \in Nat /\ raw[4] \in Nat
    BY <1>7
  <2>2. CASE raw[4] = 0
    BY <1>1, <2>1, <2>2 DEF P!ParseFireRating
  <2>3. CASE raw[4] # 0
    <3> DEFINE m == P!Rounded(n, raw[4])
    <3>1. reading = P!Normalised(m)
      BY <2>1, <2>3 DEF P!ParseFireRating
    <3>2. n \in Nat
      BY <2>1
    <3>3. 2 * Distance(m * raw[4], n) <= raw[4]
      <4> HIDE DEF n
      <4>. QED BY <2>1, <2>3, <3>2, RoundedIsNear
    <3>4. m \in {20, 45, 60, 90} => m \in StatedMinutes(raw)
      <4>1. StatedMinutes(raw) = {k \in 0..300 : 2 * Distance(k * raw[4], n) <= raw[4] /\ raw[4] # 0}
        BY <2>1 DEF StatedMinutes
      <4>2. \A k \in {20, 45, 60, 90} : k \in 0..300
        OBVIOUS
      <4> HIDE DEF m, n
      <4>. QED BY <2>3, <3>3, <4>1, <4>2
    <3> HIDE DEF m
    <3>. QED BY <2>1, <3>1, <3>4, NormalisedIsStated
  <2>. QED BY <2>2, <2>3
<1>. QED BY <1>3, <1>4, <1>5, <1>6, <1>7 DEF P!FireRatingReading


\* A hand is read only off a string that is one of its spellings.
LEMMA HandIsStated ==
  ASSUME NEW raw \in P!HandingReading, NEW reading, reading = P!ParseHanding(raw)
  PROVE  /\ reading.value # NULL => raw \in {<<"hand", w>> : w \in P!CANONICAL[reading.value]}
         /\ reading.absent => raw \in {<<"hand", w>> : w \in P!NOT_HANDED}
         /\ reading.review = (reading.value = NULL /\ ~reading.absent)
<1>1. raw # <<"hand", raw[2]>> => raw[1] # "hand"
  BY DEF P!HandingReading, P!BLANK
<1>2. CASE raw = P!BLANK
  <2>1. reading = P!Flagged
    BY <1>2 DEF P!ParseHanding, P!BLANK
  <2>. QED BY <2>1, Readings3
<1>6. \A h \in DOMAIN P!CANONICAL, w \in P!NOT_HANDED : w \notin P!CANONICAL[h]
  BY DEF P!CANONICAL, P!NOT_HANDED
<1>3. CASE raw # P!BLANK /\ raw[1] = "hand" /\ raw[2] \in P!NOT_HANDED
  <2>1. reading = P!SaysNone
    BY <1>3, <1>6 DEF P!ParseHanding
  <2>. QED BY <1>1, <1>3, <2>1, Readings3
<1> DEFINE Spells(h) == h \in DOMAIN P!CANONICAL /\ raw[2] \in P!CANONICAL[h]
<1>4. CASE raw # P!BLANK /\ raw[1] = "hand" /\ raw[2] \notin P!NOT_HANDED /\ \E h : Spells(h)
  <2> DEFINE hand == CHOOSE h \in DOMAIN P!CANONICAL : raw[2] \in P!CANONICAL[h]
  <2>1. reading = P!Read(hand)
    BY <1>4 DEF P!ParseHanding
  <2>2. hand \in DOMAIN P!CANONICAL /\ raw[2] \in P!CANONICAL[hand]
    BY <1>4
  <2>3. hand # NULL
    BY <2>2, ReadingsAssumption
  <2> HIDE DEF hand
  <2>. QED BY <1>1, <1>4, <2>1, <2>2, <2>3, Readings3
<1>5. CASE raw # P!BLANK /\ (raw[1] # "hand" \/ (raw[2] \notin P!NOT_HANDED /\ ~\E h : Spells(h)))
  <2>1. reading = P!Flagged
    BY <1>5 DEF P!ParseHanding
  <2>. QED BY <2>1, Readings3
<1>. QED BY <1>2, <1>3, <1>4, <1>5

LEMMA SizeIsTyped ==
  ASSUME NEW raw \in P!SizeReading
  PROVE  \/ P!ParseSize(raw) = P!Flagged
         \/ /\ P!ParseSize(raw) = P!Read(P!TwoSizes(raw))
            /\ raw[1] \in {"four", "explicit"} /\ raw = <<raw[1], raw[2], raw[3], raw[4], raw[5]>>
            /\ raw[2] \in Nat /\ raw[3] \in 0..11 /\ raw[4] \in Nat /\ raw[5] \in 0..11
<1>1. CASE raw \in {P!BLANK, <<"other">>}
  BY <1>1 DEF P!ParseSize, P!BLANK
<1>2. CASE raw \in {"four"} \X (0..9) \X (0..9) \X (0..9) \X (0..9)
  BY <1>2 DEF P!ParseSize
<1>3. CASE raw \in {"explicit"} \X Nat \X Nat \X Nat \X Nat
  BY <1>3 DEF P!ParseSize, P!MAX_INCHES
<1>. QED BY <1>1, <1>2, <1>3 DEF P!SizeReading

\* No safety claim is invented: a rating or a hand is read only off a string that states
\* it and nothing else, "there is none" only off one that says so, and what is left,
\* silence included, is put before an estimator; for every number of minutes or hours.
THEOREM ClaimsAreStated == Spec => []NothingIsInvented
<1>1. ASSUME AnswerFireRating PROVE Stated(asked.raw, answer) /\ asked.about = "fire_rating"
  BY <1>1, FireRatingIsStated, ReadingsAssumption DEF AnswerFireRating, Records
<1>2. ASSUME AnswerHanding
      PROVE  /\ answer.value # NULL =>
                  asked.raw \in {<<"hand", w>> : w \in P!CANONICAL[answer.value]}
             /\ answer.absent => asked.raw \in {<<"hand", w>> : w \in P!NOT_HANDED}
             /\ answer.review = (answer.value = NULL /\ ~answer.absent)
             /\ asked.about = "handing"
  BY <1>2, HandIsStated, ReadingsAssumption DEF AnswerHanding, Records
<1>3. ASSUME AnswerSize
      PROVE  /\ answer.review = (answer.value = NULL /\ ~answer.absent)
             /\ asked.about = "size"
  <2>1. PICK raw \in P!SizeReading : asked.raw = raw /\ answer = P!ParseSize(raw)
    BY <1>3, ReadingsAssumption DEF AnswerSize, Records
  <2>2. asked.about = "size"
    BY <1>3 DEF AnswerSize, Records
  <2>3. CASE answer = P!Flagged
    BY <2>2, <2>3, Readings3
  <2>4. CASE answer = P!Read(P!TwoSizes(raw)) /\ raw[2] \in Nat /\ raw[3] \in 0..11
             /\ raw[4] \in Nat /\ raw[5] \in 0..11
    <3>1. P!TwoSizes(raw) \in Nat \X Nat
      BY <2>4 DEF P!TwoSizes, P!Inches
    <3>. QED BY <2>2, <2>4, <3>1, ReadingsAssumption, Readings3
  <2>. QED BY <2>1, <2>3, <2>4, SizeIsTyped
<1>4. Answered => NothingIsInvented
  BY <1>1, <1>2, <1>3, Topics DEF NothingIsInvented, Stated, About
<1>. QED BY <1>4, EveryAnswer, PTL

\* A size says the same after parsing and printing, for every size with fewer than
\* twelve inches, which is every size that is read.
THEOREM SizesRoundTrip == Spec => []SizesPrintAsRead
<1>1. ASSUME AnswerSize, answer.value # NULL
      PROVE  Tail(P!FormatSize(answer.value)) = Tail(asked.raw)
  <2>1. PICK raw \in P!SizeReading : asked.raw = raw /\ answer = P!ParseSize(raw)
    BY <1>1, ReadingsAssumption DEF AnswerSize, Records
  <2>2. /\ answer = P!Read(P!TwoSizes(raw))
        /\ raw = <<raw[1], raw[2], raw[3], raw[4], raw[5]>>
        /\ raw[2] \in Nat /\ raw[3] \in 0..11 /\ raw[4] \in Nat /\ raw[5] \in 0..11
    BY <1>1, <2>1, SizeIsTyped, Readings3
  <2>3. \A f \in Nat, i \in 0..11 : (12 * f + i) \div 12 = f /\ (12 * f + i) % 12 = i
    OBVIOUS
  <2>4. answer.value = <<12 * raw[2] + raw[3], 12 * raw[4] + raw[5]>>
    BY <2>2, Readings3 DEF P!TwoSizes, P!Inches
  <2>5. P!FormatSize(answer.value) = <<"explicit", raw[2], raw[3], raw[4], raw[5]>>
    BY <2>2, <2>3, <2>4 DEF P!FormatSize
  <2>6. \A k, a, b, c, d : Tail(<<k, a, b, c, d>>) = <<a, b, c, d>>
    OBVIOUS
  <2>7. Tail(P!FormatSize(answer.value)) = <<raw[2], raw[3], raw[4], raw[5]>>
    BY <2>5, <2>6
  <2>8. Tail(raw) = <<raw[2], raw[3], raw[4], raw[5]>>
    <3> DEFINE same == <<raw[1], raw[2], raw[3], raw[4], raw[5]>>
    <3>1. Tail(same) = <<raw[2], raw[3], raw[4], raw[5]>>
      BY <2>6
    <3>2. raw = same
      BY <2>2
    <3> HIDE DEF same
    <3>. QED BY <3>1, <3>2
  <2>. QED BY <2>1, <2>7, <2>8
<1>2. Answered => SizesPrintAsRead
  BY <1>1, Topics DEF SizesPrintAsRead
<1>. QED BY <1>2, EveryAnswer, PTL


LEMMA LastOfOne ==
  ASSUME NEW rows, NEW i \in Nat
  PROVE  P!LastOf(rows, {i}).value = rows[i]
<1>1. P!Max({i}) = i
  BY DEF P!Max
<1>. QED BY <1>1, Readings3 DEF P!LastOf

\* A finish or a wall type that the table lists is its own row, in a table of any length
\* and order: two US codes that share a BHMA number, or a wall type that contains
\* another, never collapse.
THEOREM ListedNamesStayApart == Spec => []ListedNamesAreThemselves
<1>1. ASSUME AnswerFinish, NEW i \in DOMAIN asked.rows, asked.raw = <<"finish", asked.rows[i].us>>
      PROVE  answer.value = asked.rows[i]
  <2>1. PICK raw \in Readings.finish, rows \in FinishTables :
          asked.raw = raw /\ asked.rows = rows /\ answer = P!ParseFinish(raw, rows)
    BY <1>1 DEF AnswerFinish, Records
  <2>2. P!FinishTable(rows)
    BY ReadingsAssumption
  <2>3. raw[2] = rows[i].us /\ raw # P!BLANK
    BY <1>1, <2>1 DEF P!BLANK
  <2>4. {j \in DOMAIN rows : raw[2] \in {rows[j].us, rows[j].bhma}} = {i}
    BY <1>1, <2>1, <2>2, <2>3 DEF P!FinishTable
  <2>5. answer = P!LastOf(rows, {i})
    BY <2>1, <2>3, <2>4 DEF P!ParseFinish
  <2>6. i \in Nat
    BY <1>1, <2>1, <2>2 DEF P!FinishTable
  <2>. QED BY <2>1, <2>5, <2>6, LastOfOne
<1>2. ASSUME AnswerWall, NEW i \in DOMAIN asked.rows, asked.raw = <<"wall", asked.rows[i].wall>>
      PROVE  answer.value = asked.rows[i]
  <2>1. PICK raw \in Readings.wall, rows \in WallTables :
          asked.raw = raw /\ asked.rows = rows /\ answer = P!ParseThroatDepth(raw, rows)
    BY <1>2 DEF AnswerWall, Records
  <2>2. P!WallTable(rows)
    BY ReadingsAssumption
  <2>3. raw[1] = "wall" /\ raw[2] = rows[i].wall /\ raw # P!BLANK /\ i \in DOMAIN rows
    BY <1>2, <2>1 DEF P!BLANK
  <2>4. {j \in DOMAIN rows : rows[j].wall = raw[2]} = {i}
    BY <2>2, <2>3 DEF P!WallTable
  <2>5. answer = P!LastOf(rows, {i})
    BY <2>1, <2>3, <2>4 DEF P!ParseThroatDepth
  <2>6. i \in Nat
    BY <2>2, <2>3 DEF P!WallTable
  <2>. QED BY <2>1, <2>5, <2>6, LastOfOne
<1>3. Answered => ListedNamesAreThemselves
  BY <1>1, <1>2, Topics DEF ListedNamesAreThemselves
<1>. QED BY <1>3, EveryAnswer, PTL

(***************************************************************************)
(* Triage.                                                                 *)
(***************************************************************************)
\* Whatever the table says, an outlined page is never read natively, and a schedule keeps
\* the route its class was given, for its cells.
THEOREM RoutesAreReadable == Spec => []RoutesFitTheText
<1>1. ASSUME AnswerTriage PROVE RoutesFitTheText
  <2>1. PICK page \in Pages, table \in Tables :
          asked.table = table /\ answer = Triaged(page, table)
    BY <1>1 DEF AnswerTriage, Records
  <2> DEFINE class == answer.verdict.class
             entry == table.routes[class]
  <2>2. answer.route = Decide(class, answer.layer, table)
    BY <2>1 DEF Triaged
  <2> HIDE DEF class
  <2>3. answer.route = "NATIVE_TEXT" => answer.layer # "VECTOR_OUTLINED"
    BY <2>2 DEF Decide
  <2>4. class \in Schedules /\ entry # NULL => answer.route \in {entry.route, "TEXTRACT_TEXT"}
    BY <2>2 DEF Decide
  <2>. QED BY <2>1, <2>3, <2>4 DEF RoutesFitTheText, class
<1>2. Answered => RoutesFitTheText
  BY <1>1, Topics DEF RoutesFitTheText
<1>. QED BY <1>2, EveryAnswer, PTL

LEMMA MaxIsLargest ==
  ASSUME NEW S \in SUBSET Int, NEW b \in Int, S # {}, \A x \in S : x <= b
  PROVE  Max(S) \in S /\ \A x \in S : x <= Max(S)
<1>1. PICK m \in S : \A x \in S : x <= m
  BY HasLargest
<1>2. \A x \in S : m >= x
  BY <1>1
<1>3. Max(S) \in S /\ \A x \in S : Max(S) >= x
  BY <1>2 DEF Max
<1>. QED BY <1>3

\* An anchor never weighs more than a certainty.
LEMMA WeightBounds ==
  ASSUME NEW length \in Nat, NEW times \in Nat
  PROVE  AnchorWeight(length, times) \in Int /\ AnchorWeight(length, times) <= 10000
<1> DEFINE capped == IF times > 5 THEN 10 ELSE 5 + times
           letters == IF length > 12 THEN 12 ELSE length
           n == capped * 1000 * letters
           exact == n \div 12
<1>1. capped \in Nat /\ capped <= 10 /\ letters \in Nat /\ letters <= 12
  OBVIOUS
<1>2. n \in Int /\ n <= 120000
  <2> HIDE DEF capped, letters
  <2>1. capped * letters \in Int /\ capped * letters <= 10 * letters
    BY <1>1
  <2>2. n = 1000 * (capped * letters)
    BY <1>1
  <2>. QED BY <1>1, <2>1, <2>2
<1>3. exact \in Int /\ exact <= 10000
  <2> HIDE DEF n
  <2>1. n = 12 * (n \div 12) + (n % 12) /\ n \div 12 \in Int /\ n % 12 \in 0..11
    BY <1>2
  <2>. QED BY <1>2, <2>1
<1>4. AnchorWeight(length, times) = IF length = 11 /\ times = 1 THEN exact - 1 ELSE exact
  BY DEF AnchorWeight
<1> HIDE DEF exact
<1>. QED BY <1>3, <1>4

LEMMA ScoreOfClass ==
  ASSUME NEW page \in Pages, NEW class \in NamedClasses(page)
  PROVE  /\ AnchorScore(page, class) \in Int /\ AnchorScore(page, class) <= 10000
         /\ \A a \in page.anchors :
              a.class = class => AnchorWeight(a.length, a.times) <= AnchorScore(page, class)
<1> DEFINE weights == {AnchorWeight(a.length, a.times) : a \in {b \in page.anchors : b.class = class}}
<1>1. \A a \in page.anchors : AnchorWeight(a.length, a.times) \in Int
                              /\ AnchorWeight(a.length, a.times) <= 10000
  BY TriageAssumption, WeightBounds DEF AnchorFound
<1>2. weights \in SUBSET Int /\ weights # {} /\ \A w \in weights : w <= 10000
  BY <1>1 DEF NamedClasses
<1>3. PICK top \in Int : top = 10000
  OBVIOUS
<1>4. \A a \in page.anchors : a.class = class => AnchorWeight(a.length, a.times) \in weights
  OBVIOUS
<1>5. Max(weights) \in weights /\ Max(weights) \in Int /\ Max(weights) <= top
      /\ \A w \in weights : w <= Max(weights)
  <2>1. weights \in SUBSET Int /\ weights # {} /\ \A w \in weights : w <= top
    BY <1>2, <1>3
  <2> HIDE DEF weights
  <2>2. Max(weights) \in weights /\ \A w \in weights : w <= Max(weights)
    BY <2>1, MaxIsLargest
  <2>. QED BY <2>1, <2>2
<1>6. AnchorScore(page, class) = Max(weights)
  BY DEF AnchorScore
<1> HIDE DEF weights
<1>. QED BY <1>3, <1>4, <1>5, <1>6

\* The best of the classes that the text names: none scores higher.
LEMMA BestOfNamed ==
  ASSUME NEW page \in Pages, NamedClasses(page) # {}
  PROVE  /\ BestClass(page) \in NamedClasses(page)
         /\ \A d \in NamedClasses(page) : AnchorScore(page, d) <= AnchorScore(page, BestClass(page))
<1> DEFINE Score(c) == AnchorScore(page, c)
           Key(c) == 10 * Score(c) - AnchorOrder[c]
           named == NamedClasses(page)
           keys == {Key(c) : c \in named}
<1>1. \A c \in named : Score(c) \in Int /\ Score(c) <= 10000
  BY ScoreOfClass
<1>2. \A c \in named : AnchorOrder[c] \in Int /\ 1 <= AnchorOrder[c] /\ AnchorOrder[c] <= 7
  <2>1. \A c \in named : c \in DOMAIN AnchorOrder
    BY TriageAssumption DEF NamedClasses, AnchorFound
  <2>. QED BY <2>1 DEF AnchorOrder
<1> HIDE DEF Score, named
<1>3. \A c \in named : Key(c) \in Int /\ Key(c) <= 100000
  BY <1>1, <1>2
<1>4. keys \in SUBSET Int /\ keys # {} /\ \A k \in keys : k <= 100000
  BY <1>3 DEF named
<1>5. PICK top \in Int : top = 100000
  OBVIOUS
<1>6. PICK k \in keys : \A j \in keys : j <= k
  <2>1. keys \in SUBSET Int /\ keys # {} /\ \A k \in keys : k <= top
    BY <1>4, <1>5
  <2> HIDE DEF keys
  <2>. QED BY <2>1, HasLargest
<1>7. PICK c \in named : \A d \in named : Key(d) <= Key(c)
  BY <1>6
<1>8. \A d \in named : Score(c) > Score(d) \/ (Score(c) = Score(d) /\ AnchorOrder[c] <= AnchorOrder[d])
  BY <1>1, <1>2, <1>7
<1>9. BestClass(page) \in named
      /\ \A d \in named : \/ Score(BestClass(page)) > Score(d)
                          \/ Score(BestClass(page)) = Score(d)
                             /\ AnchorOrder[BestClass(page)] <= AnchorOrder[d]
  BY <1>8 DEF BestClass, named, Score
<1>. QED BY <1>1, <1>9 DEF named, Score

LEMMA IndexVerdict ==
  ASSUME NEW page \in Pages, "INDEX" \in NamedClasses(page)
  PROVE  Verdict("INDEX", Max({7000, AnchorScore(page, "INDEX")}), "KEYWORD") \in KeywordVerdict
<1> DEFINE index == AnchorScore(page, "INDEX")
<1>1. index \in Int /\ index <= 10000
  BY ScoreOfClass
<1> HIDE DEF index
<1>2. PICK top \in Int : top = 10000
  OBVIOUS
<1> DEFINE both == {7000, index}
<1>3. both \in SUBSET Int /\ both # {} /\ \A x \in both : x <= top
  BY <1>1, <1>2
<1>4. Max(both) \in Int
  <2> HIDE DEF both
  <2>. QED BY <1>3, MaxIsLargest
<1>5. "INDEX" \in DOMAIN AnchorOrder
  BY DEF AnchorOrder
<1>. QED BY <1>4, <1>5 DEF Verdict, KeywordVerdict, index

\* Text that announces a page beats whatever is drawn around it, for any anchors, weights
\* and table.
THEOREM AnnouncedPagesAreRead == Spec => []TextBeatsGeometry
<1>1. ASSUME AnswerTriage, answer.layer = "RICH", asked.page.bookmark = NULL,
             asked.page.block = NULL, NEW a \in asked.page.anchors,
             AnchorWeight(a.length, a.times) >= asked.table.min_keyword_confidence
      PROVE  answer.verdict.class \notin {"DRAWING", "UNKNOWN"}
  <2>1. PICK page \in Pages, table \in Tables :
          asked.page = page /\ asked.table = table /\ answer = Triaged(page, table)
    BY <1>1 DEF AnswerTriage, Records
  <2>2. answer.verdict = ClassifyPage(page, table) /\ TextLayer(page, table) = "RICH"
    BY <1>1, <2>1 DEF Triaged
  <2> DEFINE byKeyword == ClassifyByKeyword(page, table)
             score == AnchorScore(page, BestClass(page))
  <2>3. a \in page.anchors /\ a \in AnchorFound /\ a.class \in NamedClasses(page)
    BY <1>1, <2>1, TriageAssumption DEF NamedClasses
  <2>4. score >= table.min_keyword_confidence
    <3>1. /\ BestClass(page) \in NamedClasses(page)
          /\ AnchorScore(page, a.class) <= AnchorScore(page, BestClass(page))
      BY <2>3, BestOfNamed
    <3>2. /\ AnchorScore(page, a.class) \in Int /\ AnchorScore(page, BestClass(page)) \in Int
          /\ AnchorWeight(a.length, a.times) <= AnchorScore(page, a.class)
      BY <2>3, <3>1, ScoreOfClass
    <3>3. AnchorWeight(a.length, a.times) \in Int /\ table.min_keyword_confidence \in Int
      BY <2>3, TriageAssumption, WeightBounds DEF AnchorFound
    <3>4. AnchorWeight(a.length, a.times) >= table.min_keyword_confidence
      BY <1>1, <2>1
    <3> HIDE DEF score
    <3>. QED BY <3>1, <3>2, <3>3, <3>4 DEF score
  <2>5. byKeyword \in KeywordVerdict
    <3>1. CASE "INDEX" \in NamedClasses(page) /\ Cardinality(NamedClasses(page)) > 2
      BY <3>1, IndexVerdict DEF ClassifyByKeyword
    <3>2. CASE ~("INDEX" \in NamedClasses(page) /\ Cardinality(NamedClasses(page)) > 2)
      <4>1. byKeyword = Verdict(BestClass(page), score, "KEYWORD")
        BY <2>3, <2>4, <3>2 DEF ClassifyByKeyword
      <4>2. BestClass(page) \in NamedClasses(page)
        BY <2>3, BestOfNamed
      <4>3. BestClass(page) \in DOMAIN AnchorOrder
        BY <4>2, TriageAssumption DEF NamedClasses, AnchorFound
      <4>4. score \in Int
        BY <4>2, ScoreOfClass
      <4> HIDE DEF score, byKeyword
      <4>. QED BY <4>1, <4>3, <4>4 DEF Verdict, KeywordVerdict
    <3>. QED BY <3>1, <3>2
  <2> HIDE DEF byKeyword
  <2>6. byKeyword # NULL /\ byKeyword.class \notin {"DRAWING", "UNKNOWN"}
    BY <2>5, TriageAssumption DEF KeywordVerdict, AnchorOrder
  <2>7. ClassifyPage(page, table) = byKeyword
    <3>1. page.bookmark = NULL /\ page.block = NULL
      BY <1>1, <2>1
    <3>. QED BY <2>2, <2>6, <3>1 DEF ClassifyPage, byKeyword
  <2>. QED BY <2>2, <2>6, <2>7
<1>2. Answered => TextBeatsGeometry
  BY <1>1, Topics DEF TextBeatsGeometry
<1>. QED BY <1>2, EveryAnswer, PTL


\* A page whose text names a contents list and two other classes is never read as one of
\* the schedules it lists.
THEOREM ListsAreNotSchedules == Spec => []ContentsPagesAreNotSchedules
<1>1. ASSUME AnswerTriage, asked.page.bookmark = NULL, asked.page.block = NULL,
             "INDEX" \in NamedClasses(asked.page), Cardinality(NamedClasses(asked.page)) >= 3
      PROVE  answer.verdict.class \notin Schedules
  <2>1. PICK page \in Pages, table \in Tables :
          asked.page = page /\ asked.table = table /\ answer = Triaged(page, table)
    BY <1>1 DEF AnswerTriage, Records
  <2>2. answer.verdict = ClassifyPage(page, table) /\ page.bookmark = NULL /\ page.block = NULL
    BY <1>1, <2>1 DEF Triaged
  <2>3. Cardinality(NamedClasses(page)) > 2 /\ "INDEX" \in NamedClasses(page)
    <3>1. IsFiniteSet(NamedClasses(page))
      <4> DEFINE classOf == [a \in page.anchors |-> a.class]
      <4>1. classOf \in [page.anchors -> NamedClasses(page)]
            /\ \A c \in NamedClasses(page) : \E a \in page.anchors : classOf[a] = c
        BY DEF NamedClasses
      <4>2. classOf \in Surjection(page.anchors, NamedClasses(page))
        <5> HIDE DEF classOf
        <5>. QED BY <4>1, Fun_IsSurj
      <4>3. IsFiniteSet(page.anchors)
        BY TriageAssumption
      <4>. QED BY <4>2, <4>3, FS_Surjection
    <3>2. Cardinality(NamedClasses(page)) \in Nat
      BY <3>1, FS_CardinalityType
    <3>. QED BY <1>1, <2>1, <3>2
  <2> DEFINE byKeyword == ClassifyByKeyword(page, table)
             index == Verdict("INDEX", Max({7000, AnchorScore(page, "INDEX")}), "KEYWORD")
  <2>4. byKeyword = index /\ index \in KeywordVerdict /\ index.class = "INDEX"
    BY <2>3, IndexVerdict DEF ClassifyByKeyword, Verdict
  <2>5. byKeyword # NULL /\ byKeyword.class = "INDEX"
    <3> HIDE DEF byKeyword, index
    <3>. QED BY <2>4, TriageAssumption
  <2>6. ClassifyPage(page, table).class \in {"INDEX", "DRAWING", "UNKNOWN"}
    <3> HIDE DEF byKeyword
    <3>1. ClassifyPage(page, table) \in
            {byKeyword, Verdict("DRAWING", 7000, "TITLE_BLOCK"), Verdict("DRAWING", 5000, "KEYWORD"),
             Verdict("UNKNOWN", 0, NULL)}
      BY <2>2, <2>5 DEF ClassifyPage, byKeyword
    <3>. QED BY <2>5, <3>1 DEF Verdict
  <2>. QED BY <2>2, <2>6 DEF Schedules
<1>2. Answered => ContentsPagesAreNotSchedules
  BY <1>1, Topics DEF ContentsPagesAreNotSchedules
<1>. QED BY <1>2, EveryAnswer, PTL

(***************************************************************************)
(* Calibration.                                                            *)
(***************************************************************************)
LEMMA HasSmallest ==
  ASSUME NEW S \in SUBSET Nat, S # {}
  PROVE  /\ \E x \in S : \A y \in S : x <= y
         /\ Min(S) \in S /\ \A y \in S : Min(S) <= y
<1> DEFINE T == {-x : x \in S}
<1>1. T \in SUBSET Int /\ T # {} /\ \A t \in T : t <= 0
  <2>1. \A x \in S : x \in Int /\ -x \in Int /\ -x <= 0
    OBVIOUS
  <2>. QED BY <2>1
<1>2. PICK t \in T : \A u \in T : u <= t
  <2> HIDE DEF T
  <2>1. 0 \in Int
    OBVIOUS
  <2>. QED BY <1>1, <2>1, HasLargest
<1>3. PICK x \in S : t = -x
  BY <1>2
<1>4. ASSUME NEW y \in S PROVE x <= y
  <2>1. -y \in T
    OBVIOUS
  <2>2. -y <= -x
    BY <1>2, <1>3, <2>1
  <2>. QED BY <2>2
<1>5. \E z \in S : \A y \in S : z <= y
  BY <1>4
<1>6. Min(S) \in S /\ \A y \in S : Min(S) <= y
  BY <1>5 DEF Min
<1>. QED BY <1>5, <1>6

\* A composite confidence is a number, or was never measured.
LEMMA FinalIsMeasured ==
  ASSUME NEW evidence \in Evidence
  PROVE  Final(evidence) \in Nat \cup {NULL}
<1> DEFINE ocr == OcrConfidence(evidence.elements)
           known == {ocr, evidence.llm} \ {NULL}
           penalty == CompletenessPenalty(evidence.populated, evidence.expected)
<1>1. /\ evidence.elements \subseteq Nat \cup {NULL} /\ evidence.llm \in Nat \cup {NULL}
      /\ evidence.populated \in Nat /\ evidence.expected \in Nat
  BY DEF Evidence
<1>2. ocr \in Nat \cup {NULL}
  <2> DEFINE recognised == evidence.elements \ {NULL}
  <2>1. recognised \in SUBSET Nat
    BY <1>1
  <2>2. recognised # {} => Min(recognised) \in Nat
    <3> HIDE DEF recognised
    <3>. QED BY <2>1, HasSmallest
  <2>. QED BY <2>2 DEF OcrConfidence
<1>3. penalty \in Nat
  <2>1. CASE evidence.expected <= 0
    BY <2>1 DEF CompletenessPenalty
  <2>2. CASE ~(evidence.expected <= 0)
    <3> DEFINE share == (100 * evidence.populated) \div evidence.expected
               both == {100, share}
    <3>1. share \in Nat
      <4> DEFINE n == 100 * evidence.populated
                 d == evidence.expected
      <4>1. n \in Nat /\ d \in Nat /\ d > 0
        BY <1>1, <2>2
      <4>2. n \div d \in Nat
        <5> HIDE DEF n, d
        <5>. QED BY <4>1
      <4>. QED BY <4>2
    <3> HIDE DEF share
    <3>2. both \in SUBSET Nat /\ both # {}
      BY <3>1
    <3>3. Min(both) \in Nat
      <4> HIDE DEF both
      <4>. QED BY <3>2, HasSmallest
    <3>. QED BY <2>2, <3>3 DEF CompletenessPenalty, share
  <2>. QED BY <2>1, <2>2
<1> HIDE DEF ocr, penalty
<1>4. known \in SUBSET Nat
  BY <1>1, <1>2
<1>5. known # {} => Min(known) \in Nat
  <2> HIDE DEF known
  <2>. QED BY <1>4, HasSmallest
<1>6. known # {} => Min(known) * penalty \in Nat
  <2> HIDE DEF known
  <2>. QED BY <1>3, <1>5
<1>. QED BY <1>6 DEF Final, ocr, penalty

\* The wrong values that a floor lets pass, and those among them that were measured.
WrongOf(fields) == {f \in fields : f.wrong /\ Final(f.evidence) # NULL}
MissedOf(fields, floor) == {f \in WrongOf(fields) : ~IsFlagged(f.evidence, floor, FALSE)}
SampleOf(f) == [id |-> f.id, confidence |-> Final(f.evidence), wrong |-> f.wrong]

LEMMA SampledOnce ==
  ASSUME NEW fields \in SUBSET ReviewedFields, NEW members \in SUBSET fields
  PROVE  LET samples == {SampleOf(f) : f \in members}
         IN IsFiniteSet(samples) /\ Cardinality(samples) = Cardinality(members)
<1> DEFINE samples == {SampleOf(f) : f \in members}
           sampled == [f \in members |-> SampleOf(f)]
<1>1. IsFiniteSet(members)
  BY CalibrationAssumption, FS_Subset
<1>2. \A f, g \in members : SampleOf(f) = SampleOf(g) => f = g
  <2>1. \A f : SampleOf(f).id = f.id
    BY DEF SampleOf
  <2>. QED BY <2>1, CalibrationAssumption
<1>3. /\ sampled \in [members -> samples]
      /\ \A f, g \in members : sampled[f] = sampled[g] => f = g
      /\ \A s \in samples : \E f \in members : sampled[f] = s
  BY <1>2
<1>4. sampled \in Bijection(members, samples)
  <2> HIDE DEF sampled, samples
  <2>. QED BY <1>3, Fun_IsBij
<1> HIDE DEF sampled, samples
<1>5. ExistsBijection(members, samples)
  BY <1>4 DEF ExistsBijection
<1>6. IsFiniteSet(samples) /\ Cardinality(samples) = Cardinality(members)
  BY <1>1, <1>5, FS_Bijection
<1>. QED BY <1>6 DEF samples

\* What the curve counts as escaped are the wrong values that the floor lets pass.
LEMMA CurveCountsMissed ==
  ASSUME NEW fields \in SUBSET ReviewedFields, NEW floor \in Int, NEW target
  PROVE  LET samples == Samples(fields)
         IN /\ Cardinality(Escaped(samples, floor)) = Cardinality(MissedOf(fields, floor))
            /\ Cardinality(Errors(samples)) = Cardinality(WrongOf(fields))
<1>1. \A f \in fields : Final(f.evidence) \in Nat \cup {NULL} /\ f.wrong \in BOOLEAN
  BY CalibrationAssumption, FinalIsMeasured
<1>2. \A f : SampleOf(f).confidence = Final(f.evidence) /\ SampleOf(f).wrong = f.wrong
  BY DEF SampleOf
<1>3. Samples(fields) = {SampleOf(f) : f \in {g \in fields : Final(g.evidence) # NULL}}
  BY DEF Samples, SampleOf
<1>4. Errors(Samples(fields)) = {SampleOf(f) : f \in WrongOf(fields)}
  BY <1>2, <1>3 DEF Errors, WrongOf
<1>5. Escaped(Samples(fields), floor) = {SampleOf(f) : f \in MissedOf(fields, floor)}
  <2>1. \A f \in WrongOf(fields) : ~IsFlagged(f.evidence, floor, FALSE) <=> Final(f.evidence) >= floor
    <3>1. \A f \in WrongOf(fields) : Final(f.evidence) \in Nat
      BY <1>1 DEF WrongOf
    <3>. QED BY <3>1 DEF IsFlagged, WrongOf
  <2>. QED BY <1>2, <1>4, <2>1 DEF Escaped, MissedOf
<1>6. WrongOf(fields) \in SUBSET fields /\ MissedOf(fields, floor) \in SUBSET fields
  BY DEF WrongOf, MissedOf
<1>. QED BY <1>4, <1>5, <1>6, SampledOnce

LEMMA Ranked ==
  ASSUME NEW a \in Nat, NEW b \in Nat, NEW t \in Nat, NEW u \in Nat,
         t <= 10000, u <= 10000, 20000 * a + t <= 20000 * b + u
  PROVE  a < b \/ (a = b /\ t <= u)
<1>1. CASE a < b
  BY <1>1
<1>2. CASE a = b
  BY <1>2
<1>3. CASE a > b
  <2>1. 20000 * a >= 20000 * b + 20000
    BY <1>3
  <2>. QED BY <2>1
<1>. QED BY <1>1, <1>2, <1>3

\* The floor recommended is viable, and no viable one lies below it.
LEMMA LowestViable ==
  ASSUME NEW samples, IsFiniteSet(samples), NEW target, Recommend(samples, target) # NULL,
         \A s \in samples : s.confidence \in Nat
  PROVE  LET floor == Recommend(samples, target)
         IN /\ floor \in Thresholds /\ IsViable(samples, floor, target)
            /\ \A t \in Thresholds : t < floor => ~IsViable(samples, t, target)
<1> DEFINE viable == {t \in Thresholds : IsViable(samples, t, target)}
           Cost(t) == Cardinality(FlaggedBelow(samples, t))
           Key(t) == 20000 * Cost(t) + t
           keys == {Key(t) : t \in viable}
           floor == Recommend(samples, target)
<1>1. \A t \in Thresholds : t \in Nat /\ t <= 10000
  BY ThresholdsAssumption
<1>2. ASSUME NEW t PROVE IsFiniteSet(FlaggedBelow(samples, t)) /\ Cost(t) \in Nat
  <2>1. FlaggedBelow(samples, t) \in SUBSET samples
    BY DEF FlaggedBelow
  <2>2. IsFiniteSet(FlaggedBelow(samples, t))
    BY <2>1, FS_Subset
  <2>. QED BY <2>2, FS_CardinalityType
<1>3. viable # {}
  BY DEF Recommend
<1>4. \A t \in viable : t \in Thresholds
  OBVIOUS
<1>5. floor = CHOOSE t \in viable : \A u \in viable :
                Cost(t) < Cost(u) \/ (Cost(t) = Cost(u) /\ t <= u)
  BY <1>3 DEF Recommend
<1>6. \A t, u \in Thresholds : t <= u => Cost(t) <= Cost(u)
  <2> SUFFICES ASSUME NEW t \in Thresholds, NEW u \in Thresholds, t <= u
               PROVE  Cost(t) <= Cost(u)
    OBVIOUS
  <2>1. FlaggedBelow(samples, t) \in SUBSET FlaggedBelow(samples, u)
    BY <1>1 DEF FlaggedBelow
  <2>. QED BY <1>2, <2>1, FS_Subset
<1> HIDE DEF Cost, viable
<1>7. keys \in SUBSET Nat /\ keys # {}
  <2>1. \A t \in viable : Key(t) \in Nat
    BY <1>1, <1>2, <1>4
  <2>. QED BY <1>3, <2>1
<1>8. PICK k \in keys : \A j \in keys : k <= j
  <2> HIDE DEF keys
  <2>. QED BY <1>7, HasSmallest
<1>9. PICK t \in viable : \A u \in viable : Key(t) <= Key(u)
  BY <1>8
<1>10. \A u \in viable : Cost(t) < Cost(u) \/ (Cost(t) = Cost(u) /\ t <= u)
  <2> SUFFICES ASSUME NEW u \in viable
               PROVE  Cost(t) < Cost(u) \/ (Cost(t) = Cost(u) /\ t <= u)
    OBVIOUS
  <2>1. /\ t \in Nat /\ t <= 10000 /\ u \in Nat /\ u <= 10000
        /\ Cost(t) \in Nat /\ Cost(u) \in Nat
    BY <1>1, <1>2, <1>4
  <2>2. 20000 * Cost(t) + t <= 20000 * Cost(u) + u
    BY <1>9
  <2>. QED BY <2>1, <2>2, Ranked
<1>11. /\ floor \in viable
       /\ \A u \in viable : Cost(floor) < Cost(u) \/ (Cost(floor) = Cost(u) /\ floor <= u)
  BY <1>5, <1>10
<1>12. ASSUME NEW u \in Thresholds, u < floor, u \in viable PROVE FALSE
  <2>1. u \in Nat /\ floor \in Nat /\ floor \in Thresholds
    BY <1>1, <1>4, <1>11
  <2>2. Cost(u) \in Nat /\ Cost(floor) \in Nat
    BY <1>2
  <2>3. Cost(u) <= Cost(floor)
    BY <1>6, <1>12, <2>1
  <2>4. Cost(floor) < Cost(u) \/ (Cost(floor) = Cost(u) /\ floor <= u)
    BY <1>11, <1>12
  <2> HIDE DEF floor
  <2>. QED BY <1>12, <2>1, <2>2, <2>3, <2>4
<1>. QED BY <1>11, <1>12 DEF viable

\* For any reviewed fields, the floor that is recommended lets no more wrong values pass
\* in the pipeline than the target allows, and is the lowest of those swept that does.
THEOREM FloorsHoldInUse == Spec => []RecommendedFloorHolds
<1>1. ASSUME AnswerCalibrate, answer # NULL PROVE RecommendedFloorHolds
  <2>1. PICK fields \in SUBSET ReviewedFields, target \in Targets :
          /\ asked.fields = fields /\ asked.target = target
          /\ answer = Recommend(Samples(fields), target)
    BY <1>1 DEF AnswerCalibrate, Records
  <2> DEFINE samples == Samples(fields)
             measured == {f \in fields : Final(f.evidence) # NULL}
  <2>2. samples = {SampleOf(f) : f \in measured}
    BY DEF Samples, SampleOf
  <2>3. IsFiniteSet(samples)
    <3>1. measured \in SUBSET fields
      OBVIOUS
    <3> HIDE DEF samples, measured
    <3>. QED BY <2>2, <3>1, SampledOnce
  <2>4. \A s \in samples : s.confidence \in Nat
    <3>1. \A f \in measured : Final(f.evidence) \in Nat
      BY CalibrationAssumption, FinalIsMeasured
    <3>. QED BY <2>2, <3>1 DEF SampleOf
  <2> HIDE DEF samples, measured
  <2>5. /\ answer \in Thresholds /\ IsViable(samples, answer, target)
        /\ \A t \in Thresholds : t < answer => ~IsViable(samples, t, target)
    BY <1>1, <2>1, <2>3, <2>4, LowestViable DEF samples
  <2>6. \A t \in Thresholds :
          IsViable(samples, t, target) <=>
            100 * Cardinality(MissedOf(fields, t)) <= target * Cardinality(WrongOf(fields))
    <3>1. Thresholds \subseteq Int
      BY ThresholdsAssumption
    <3>. QED BY <3>1, CurveCountsMissed DEF IsViable, samples
  <2>7. \A t : MissedOf(fields, t) \in SUBSET WrongOf(fields)
    BY DEF MissedOf
  <2>8. Cardinality(WrongOf(fields)) \in Nat /\ target \in Int
        /\ \A t : Cardinality(MissedOf(fields, t)) \in Nat
    <3>1. IsFiniteSet(fields)
      BY CalibrationAssumption, FS_Subset
    <3>2. IsFiniteSet(WrongOf(fields))
      BY <3>1, FS_Subset DEF WrongOf
    <3>3. \A t : IsFiniteSet(MissedOf(fields, t))
      BY <2>7, <3>2, FS_Subset
    <3>. QED BY <3>2, <3>3, CalibrationAssumption, FS_CardinalityType
  <2>9. target * Cardinality(WrongOf(fields)) \in Int
    BY <2>8
  <2>10. 100 * Cardinality(MissedOf(fields, answer)) <= target * Cardinality(WrongOf(fields))
    BY <2>5, <2>6
  <2>11. \A t \in Thresholds : t < answer =>
           100 * Cardinality(MissedOf(fields, t)) > target * Cardinality(WrongOf(fields))
    BY <2>5, <2>6, <2>8, <2>9
  <2>12. asked.fields = fields /\ asked.target = target
    BY <2>1
  <2>. QED BY <2>10, <2>11, <2>12, Zenon DEF RecommendedFloorHolds, MissedOf, WrongOf
<1>2. Answered => RecommendedFloorHolds
  BY <1>1, Topics DEF RecommendedFloorHolds
<1>. QED BY <1>2, EveryAnswer, PTL
=============================================================================
