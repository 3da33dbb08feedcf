------------------------------ MODULE Matching ------------------------------
(***************************************************************************)
(* The matching engine: hard constraints filter, soft constraints score.   *)
(* Pure operators over a criteria record and a catalogue item.  NULL stands *)
(* for a column that has no value; scores are in ten-thousandths, as the   *)
(* code rounds them.  What text similarity scores is a column of the item. *)
(***************************************************************************)
EXTENDS Integers, FiniteSets

CONSTANT NULL

FIRE_RATING_MINUTES == {20, 45, 60, 90}

RatingIsUnresolved(c) == c.minutes = NULL /\ ~c.rating_absent
HandingIsUnresolved(c) == c.handing = NULL /\ ~c.handing_absent

(***************************************************************************)
(* Hard constraints.                                                       *)
(***************************************************************************)
RatingOk(required, offered) ==
  \/ required = NULL
  \/ (offered # NULL /\ offered >= required)

HandingOk(required, offered) ==
  offered = NULL \/ required = NULL \/ required = offered

DivisionOk(wanted, offered) ==
  wanted = NULL \/ offered = NULL \/ wanted = offered

Eligible(c, item) ==
  /\ RatingOk(c.minutes, item.minutes)
  /\ HandingOk(c.handing, item.handing)
  /\ DivisionOk(c.division, item.division)

(***************************************************************************)
(* Soft constraints.                                                       *)
(***************************************************************************)
WEIGHT == [finish |-> 30, vendor |-> 25, size |-> 20, text |-> 15, stock |-> 10]
\* (Variant, to test the checks: a named part is worth less.)
LESS_FOR_A_NAME == 8500
PART_NUMBER_CONFIDENCE == 9800

\* A finish is a code and the base metal it is on.
ScoreFinish(c, item) ==
  CASE c.finish = NULL -> 50
    [] c.finish # NULL /\ item.finish = NULL -> 30
    [] OTHER -> CASE item.finish.code = c.finish.code -> 100
                  [] /\ item.finish.code # c.finish.code
                     /\ c.finish.metal # NULL /\ item.finish.metal = c.finish.metal -> 40
                  [] OTHER -> 5

Distance(a, b) == IF a > b THEN a - b ELSE b - a

\* A size is a width and a height in inches.
ScoreSize(c, item, tolerance) ==
  CASE c.size = NULL \/ item.size = NULL -> 50
    [] OTHER -> CASE item.size = c.size -> 100
                  [] /\ item.size # c.size
                     /\ \A i \in 1..2 : Distance(item.size[i], c.size[i]) <= tolerance -> 60
                  [] OTHER -> 10

ScoreVendor(c, item) ==
  CASE c.vendor = NULL -> 50
    [] c.vendor # NULL /\ item.vendor # c.vendor -> 30
    [] OTHER -> CASE c.series = NULL \/ item.series = NULL -> 90
                  [] c.series # NULL /\ item.series = c.series -> 100
                  [] OTHER -> 60

ScoreStock(item) == IF item.is_stock THEN 100 ELSE 40

NamesThePart(c, item) == c.part # NULL /\ item.part = c.part

Confidence(c, item, tolerance) ==
  IF ~Eligible(c, item) THEN 0
  ELSE IF NamesThePart(c, item) THEN PART_NUMBER_CONFIDENCE
  ELSE ScoreFinish(c, item) * WEIGHT.finish + ScoreVendor(c, item) * WEIGHT.vendor
       + ScoreSize(c, item, tolerance) * WEIGHT.size
       + item.text * WEIGHT.text + ScoreStock(item) * WEIGHT.stock

(***************************************************************************)
(* match_criteria: the proposals for one opening or component.             *)
(***************************************************************************)
Unanswered(c) == RatingIsUnresolved(c) \/ HandingIsUnresolved(c)

CandidatesFor(c, items) == {i \in items : DivisionOk(c.division, i.division)}

\* (Variant, to test the checks: the first topN of them, then ranked.)
FirstFew(c, items, topN, tolerance) ==
  LET eligible == {i \in CandidatesFor(c, items) : Eligible(c, i)}
  IN IF Unanswered(c) THEN {}
     ELSE {i \in eligible : Cardinality({j \in eligible : j.place < i.place}) < topN}

\* The best topN of the eligible candidates; ties keep the catalogue's order.
Accepted(c, items, topN, tolerance) ==
  LET eligible == {i \in CandidatesFor(c, items) : Eligible(c, i)}
      Score(i) == Confidence(c, i, tolerance)
      Before(i, j) == Score(i) > Score(j) \/ (Score(i) = Score(j) /\ i.place < j.place)
  IN IF Unanswered(c) THEN {}
     ELSE {i \in eligible : Cardinality({j \in eligible : Before(j, i)}) < topN}

\* MANUAL when a zero-tolerance field is open, nothing fits, or nothing fits well.
Disposition(c, items, topN, cutoff, tolerance) ==
  IF \E i \in Accepted(c, items, topN, tolerance) : Confidence(c, i, tolerance) >= cutoff
  THEN "PROPOSED" ELSE "MANUAL"
=============================================================================
