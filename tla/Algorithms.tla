----------------------------- MODULE Algorithms -----------------------------
(***************************************************************************)
(* The deterministic algorithms under the pipeline, put to the question:   *)
(* each action asks one of them about one input and records what it        *)
(* answers; the invariants say what every answer must satisfy, in terms    *)
(* that do not repeat the algorithm.  The inputs are constants, so that an *)
(* instance enumerates as many as it can afford.                           *)
(***************************************************************************)
EXTENDS Integers, FiniteSets, Sequences

CONSTANTS
  NULL, Freshness, Thresholds,
  Sheets, Days, Lines, Margins, Quotes,     \* pricing
  Criteria, Catalogues, TopN, Cutoff, Tolerance,   \* matching
  Readings, FinishTables, WallTables,       \* parsing
  Pages, Tables,                            \* triage
  ReviewedFields, Targets                   \* calibration

ASSUME FreshnessAssumption == Freshness \in Nat
ASSUME ThresholdsAssumption == Thresholds \subseteq 0..10000
ASSUME MatchingAssumption ==
  /\ TopN \in Nat \ {0} /\ Cutoff \in 0..10000 /\ Tolerance \in Nat
  /\ \A items \in Catalogues :
       IsFiniteSet(items) /\ \A item \in items : item.text \in 0..100 /\ item.place \in Nat

INSTANCE Pricing
INSTANCE Matching
P == INSTANCE Parsing
INSTANCE Triage
INSTANCE Calibration

(***************************************************************************)
(* What the inputs are rows and readings of.                               *)
(***************************************************************************)
ASSUME PricingAssumption ==
  /\ Lines \subseteq QuoteLine /\ Quotes \subseteq Quote /\ Sheets \subseteq Sheet
  /\ Margins \subseteq Margin /\ Days \subseteq Int
  /\ NULL \notin Multiplier /\ NULL \notin MarginBand /\ NULL \notin TaxRate
  \* uniq_margin_band_effective: one row for a product and a date.
  /\ \A sheets \in Sheets : \A r, s \in sheets.bands :
       r.key = s.key /\ r.from = s.from => r = s

ASSUME ReadingsAssumption ==
  /\ Readings.fire_rating \subseteq P!FireRatingReading
  /\ Readings.size \subseteq P!SizeReading
  /\ Readings.handing \subseteq P!HandingReading
  /\ \A rows \in FinishTables : P!FinishTable(rows)
  /\ \A rows \in WallTables : P!WallTable(rows)
  /\ NULL \notin Nat /\ NULL \notin Nat \X Nat /\ NULL \notin DOMAIN P!CANONICAL

ASSUME TriageAssumption ==
  /\ \A page \in Pages : page.anchors \subseteq AnchorFound /\ IsFiniteSet(page.anchors)
  /\ \A table \in Tables : table.min_keyword_confidence \in Int
  /\ NULL \notin KeywordVerdict

ASSUME CalibrationAssumption ==
  /\ IsFiniteSet(ReviewedFields) /\ Targets \subseteq Int
  /\ \A f \in ReviewedFields : f.evidence \in Evidence /\ f.wrong \in BOOLEAN
  /\ \A f, g \in ReviewedFields : f.id = g.id => f = g

VARIABLES
  asked,    \* the question put, or NULL
  answer    \* what the algorithm made of it

vars == <<asked, answer>>

Init == asked = NULL /\ answer = NULL

Ask(question, result) == asked = NULL /\ asked' = question /\ answer' = result

(***************************************************************************)
(* One action per algorithm.                                               *)
(***************************************************************************)
\* A line is priced on its own, when it is created or edited.
AskPrice ==
  \E line \in Lines, sheets \in Sheets, on \in Days :
    Ask([about |-> "price", line |-> line, on |-> on], PriceLine(line, sheets, on))

\* An estimator overrides the margin of a line before or after it was first priced.
AskOverride ==
  \E line \in Lines, margin \in Margins, sheets \in Sheets, on \in Days :
    Ask([about |-> "override", line |-> line, margin |-> margin, sheets |-> sheets, on |-> on],
        [before |-> PriceLine(Override(line, margin), sheets, on),
         after |-> PriceLine(Override(PriceLine(line, sheets, on), margin), sheets, on)])

\* A quote is assembled, again at once, and again on a later day.
AskAssemble ==
  \E quote \in Quotes, sheets \in Sheets, on \in Days, later \in Days :
    /\ on <= later
    /\ LET once == Assembled(quote, sheets, on)
       IN Ask([about |-> "assemble", quote |-> quote, sheets |-> sheets, on |-> on],
              [once |-> once, again |-> Assembled(once, sheets, on),
               later |-> Assembled(once, sheets, later)])

\* An opening, or a component as it applies to one, is matched.
AskMatch ==
  \E criteria \in Criteria, items \in Catalogues :
    Ask([about |-> "match", criteria |-> criteria, items |-> items],
        [accepted |-> Accepted(criteria, items, TopN, Tolerance),
         status |-> Disposition(criteria, items, TopN, Cutoff, Tolerance)])

\* A string is parsed as the field it was read for.
AskParse ==
  \/ \E raw \in Readings.fire_rating :
       Ask([about |-> "fire_rating", raw |-> raw], P!ParseFireRating(raw))
  \/ \E raw \in Readings.size : Ask([about |-> "size", raw |-> raw], P!ParseSize(raw))
  \/ \E raw \in Readings.handing : Ask([about |-> "handing", raw |-> raw], P!ParseHanding(raw))

\* A name is looked up in its reference table.
AskLookup ==
  \/ \E raw \in Readings.finish, rows \in FinishTables :
       Ask([about |-> "finish", raw |-> raw, rows |-> rows], P!ParseFinish(raw, rows))
  \/ \E raw \in Readings.wall, rows \in WallTables :
       Ask([about |-> "wall", raw |-> raw, rows |-> rows], P!ParseThroatDepth(raw, rows))

\* A page is classified and routed.
AskTriage ==
  \E page \in Pages, table \in Tables :
    Ask([about |-> "triage", page |-> page, table |-> table], Triaged(page, table))

\* A floor is recommended from what the estimators corrected.
AskCalibrate ==
  \E fields \in SUBSET ReviewedFields, target \in Targets :
    Ask([about |-> "calibrate", fields |-> fields, target |-> target],
        Recommend(Samples(fields), target))

Forget == asked # NULL /\ asked' = NULL /\ answer' = NULL

Next ==
  \/ AskPrice \/ AskOverride \/ AskAssemble
  \/ AskMatch
  \/ AskParse \/ AskLookup
  \/ AskTriage
  \/ AskCalibrate
  \/ Forget

Spec == Init /\ [][Next]_vars

About(topic) == asked # NULL /\ asked.about = topic

(***************************************************************************)
(* Pricing.                                                                *)
(***************************************************************************)
\* The rows of the margin table that have begun to apply to a line's product.
BandRows(line, sheets, on) ==
  {r \in sheets.bands : line.item # NULL /\ r.key = line.item.band /\ r.from <= on}

\* What a line sells for earns exactly its margin: taking the margin off the price
\* leaves the cost and the adders, to within the rounding of one unit price.  A
\* markup, or a margin taken from the wrong figure, does not.
MarginIsEarned ==
  About("price") /\ asked.line.group # "FREIGHT" =>
    LET kept == answer.sale_each * (ONE - answer.margin)
        spent == (answer.cost + 100 * HalfUp(asked.line.adders, 100)) * ONE
    IN 2 * Distance(kept, spent) <= ONE - answer.margin

\* The flag of an overridden line is raised exactly when the estimator's margin lies
\* below a floor: that of the band the line was last priced from, or, when it has none,
\* of the one row in force for its product that day, which no later row supersedes.
\* Pricing a line first moves it to the row in force, unless its margin was already an
\* estimator's; so for a line never priced the order of pricing and override is all one.
FloorFlagIsExact ==
  About("override") /\ asked.line.group # "FREIGHT" =>
    LET line == asked.line
        current == {r \in BandRows(line, asked.sheets, asked.on) :
                      ~\E s \in BandRows(line, asked.sheets, asked.on) : s.from > r.from}
        held == {line.band} \ {NULL}
        own == IF held # {} THEN held ELSE current
        priced == IF current # {} /\ ~line.overridden THEN current ELSE own
        Below(bands) == \E r \in bands : r.floor # NULL /\ asked.margin < r.floor
    IN /\ answer.before.below_floor = Below(own)
       /\ answer.after.below_floor = Below(priced)

\* A quote adds up: what the lines other than freight extend to is its subtotal,
\* whichever section each falls in; the total is that, the freight of the quote
\* once, and the tax; the freight line itself carries no subtotal.
TotalsAddUp ==
  About("assemble") =>
    LET lines == answer.once.lines
        goods == {i \in DOMAIN lines : lines[i].group # "FREIGHT"}
        blocks == {[section |-> Section(lines[i]), subtotal |-> lines[i].subtotal] : i \in goods}
        freight == IF asked.quote.freight = NULL THEN 0 ELSE asked.quote.freight
    IN /\ Extended(lines, goods) = answer.once.subtotal_sale
       /\ SumFunctionOnSet([b \in blocks |-> b.subtotal], blocks) = answer.once.subtotal_sale
       /\ answer.once.total = answer.once.subtotal_sale + freight + answer.once.tax
       /\ \A i \in DOMAIN lines \ goods : lines[i].subtotal = 0

\* Only Ohio and Kentucky are taxed, however the code is spelled and whatever rows
\* the table holds, at a rate that no row in force on the day supersedes.
TaxedOnlyWhereDue ==
  About("assemble") =>
    LET code == Upper(asked.quote.jurisdiction)
        inForce == {r \in asked.sheets.tax : r.key = code /\ r.from <= asked.on}
    IN IF code \in {"OH", "KY"} /\ inForce # {}
       THEN \E r \in inForce : answer.once.rate = r.rate /\ ~\E s \in inForce : s.from > r.from
       ELSE answer.once.rate = NULL /\ answer.once.tax = 0

\* Recalculating is safe: on the same day it changes nothing at all, and on a later
\* one, with newer sheets in force, no cost that was found, no overridden margin, and
\* no price that follows from the two.  (A multiplier of nought finds no cost.)
RecalculationKeepsWhatWasEntered ==
  About("assemble") =>
    /\ answer.again = answer.once
    /\ \A i \in DOMAIN asked.quote.lines :
         LET was == answer.once.lines[i] now == answer.later.lines[i]
         IN /\ was.cost > 0 => now.cost = was.cost /\ now.source = was.source
            /\ was.overridden => now.margin = was.margin
            /\ was.overridden /\ was.cost > 0 => now.sale_each = was.sale_each

(***************************************************************************)
(* Matching.                                                               *)
(***************************************************************************)
Names(criteria, item) == criteria.part # NULL /\ item.part = criteria.part

\* The part an architect names heads the proposals for a component whenever its
\* rating, hand and division allow it, whatever else the catalogue offers.
NamedPartHeadsTheList ==
  (About("match") /\ asked.criteria.series = NULL /\ asked.criteria.size = NULL) =>
    \A item \in asked.items :
      (Names(asked.criteria, item) /\ Eligible(asked.criteria, item) /\ ~Unanswered(asked.criteria))
        => \/ Cardinality({i \in asked.items : Names(asked.criteria, i)}) > TopN
           \/ item \in answer.accepted /\
              \A other \in answer.accepted :
                Confidence(asked.criteria, other, Tolerance)
                  <= Confidence(asked.criteria, item, Tolerance)

\* Keeping only the best few decides nothing: an opening is proposed for exactly when
\* some item that passes the hard constraints reaches the cut-off, and no item left
\* out beats one that was kept.
ShortListLosesNothing ==
  About("match") =>
    LET fit == {i \in asked.items : Eligible(asked.criteria, i)}
        Score(i) == Confidence(asked.criteria, i, Tolerance)
    IN /\ (answer.status = "PROPOSED") <=>
            (~Unanswered(asked.criteria) /\ \E i \in fit : Score(i) >= Cutoff)
       /\ \A kept \in answer.accepted, i \in fit \ answer.accepted : Score(i) <= Score(kept)

(***************************************************************************)
(* Parsing.                                                                *)
(***************************************************************************)
\* The minutes a rating string can be said to state.
StatedMinutes(raw) ==
  CASE raw[1] = "minutes" -> {raw[2]}
    [] raw[1] = "label" -> P!LetterLabels(raw[2])
    [] raw[1] = "hours" -> {m \in 0..300 : 2 * Distance(m * raw[4], 60 * (raw[2] * raw[4] + raw[3]))
                                            <= raw[4] /\ raw[4] # 0}
    [] OTHER -> {}

\* No safety claim is invented: a rating or a hand is read only off a string that
\* states it and nothing else, "there is none" only off one that says so, and what is
\* left, silence included, is put before an estimator.
NothingIsInvented ==
  /\ About("fire_rating") =>
       /\ answer.value # NULL => /\ answer.value \in FIRE_RATING_MINUTES
                                 /\ answer.value \in StatedMinutes(asked.raw)
                                 /\ (asked.raw[1] = "label" => StatedMinutes(asked.raw) = {answer.value})
       /\ answer.absent => asked.raw[1] = "none"
  /\ About("handing") =>
       /\ answer.value # NULL => asked.raw \in {<<"hand", w>> : w \in P!CANONICAL[answer.value]}
       /\ answer.absent => asked.raw \in {<<"hand", w>> : w \in P!NOT_HANDED}
  /\ asked # NULL /\ asked.about \in {"fire_rating", "handing", "size"} =>
       answer.review = (answer.value = NULL /\ ~answer.absent)

\* A size says the same after parsing and printing: the feet and inches an estimator
\* is shown are those of the sheet.
SizesPrintAsRead ==
  About("size") /\ answer.value # NULL =>
    Tail(P!FormatSize(answer.value)) = Tail(asked.raw)

\* A finish or a wall type that the table lists is its own row: two US codes that
\* share a BHMA number, or a wall type that contains another, never collapse.
ListedNamesAreThemselves ==
  /\ About("finish") =>
       \A i \in DOMAIN asked.rows :
         asked.raw = <<"finish", asked.rows[i].us>> => answer.value = asked.rows[i]
  /\ About("wall") =>
       \A i \in DOMAIN asked.rows :
         asked.raw = <<"wall", asked.rows[i].wall>> => answer.value = asked.rows[i]

(***************************************************************************)
(* Triage.                                                                 *)
(***************************************************************************)
\* Whatever the table says, text that the file does not hold is not read from it: a
\* schedule keeps the route its class was given, for its cells, and an outlined page
\* is never read natively.
RoutesFitTheText ==
  About("triage") =>
    LET entry == asked.table.routes[answer.verdict.class]
    IN /\ answer.route = "NATIVE_TEXT" => answer.layer # "VECTOR_OUTLINED"
       /\ answer.verdict.class \in Schedules /\ entry # NULL =>
            answer.route \in {entry.route, "TEXTRACT_TEXT"}

\* A page whose text announces what it is, is not written off as a drawing for the
\* lines drawn around the text.
TextBeatsGeometry ==
  (About("triage") /\ answer.layer = "RICH" /\ asked.page.bookmark = NULL /\ asked.page.block = NULL) =>
    \A a \in asked.page.anchors :
      (AnchorWeight(a.length, a.times) >= asked.table.min_keyword_confidence) =>
        answer.verdict.class \notin {"DRAWING", "UNKNOWN"}

\* A contents page is not bought as the schedules it lists.
ContentsPagesAreNotSchedules ==
  (/\ About("triage") /\ asked.page.bookmark = NULL /\ asked.page.block = NULL
   /\ "INDEX" \in NamedClasses(asked.page) /\ Cardinality(NamedClasses(asked.page)) >= 3) =>
    answer.verdict.class \notin Schedules

(***************************************************************************)
(* Calibration.                                                            *)
(***************************************************************************)
\* The floor that calibration recommends does in the pipeline what the curve said of
\* it: of the wrong values, no more than the target goes unflagged, and no lower floor
\* that was swept would do.
RecommendedFloorHolds ==
  About("calibrate") /\ answer # NULL =>
    LET wrong == {f \in asked.fields : f.wrong /\ Final(f.evidence) # NULL}
        Missed(floor) == {f \in wrong : ~IsFlagged(f.evidence, floor, FALSE)}
    IN /\ 100 * Cardinality(Missed(answer)) <= asked.target * Cardinality(wrong)
       /\ \A t \in Thresholds : t < answer =>
            100 * Cardinality(Missed(t)) > asked.target * Cardinality(wrong)
=============================================================================
