--------------------------- MODULE PricingProofs ---------------------------
(***************************************************************************)
(* What the pricing engine answers, for any lines, sheets, quotes and      *)
(* days: a line earns its margin, whether an override is flagged does not  *)
(* depend on when it was made, only Ohio and Kentucky are taxed,           *)
(* recalculating is safe, and a quote adds up.                             *)
(***************************************************************************)
EXTENDS AlgorithmsProofs, SumProofs

LEMMA RoundedHalfUp ==
  ASSUME NEW n \in Int, NEW d \in Int, d > 0
  PROVE  /\ HalfUp(n, d) \in Int
         /\ 2 * (HalfUp(n, d) * d - n) <= d /\ 2 * (n - HalfUp(n, d) * d) <= d
<1>1. 2 * n + d \in Int /\ d - 2 * n \in Int /\ 2 * d \in Int /\ 2 * d > 0
  OBVIOUS
<1>2. CASE n >= 0
  <2> DEFINE q == (2 * n + d) \div (2 * d)
             r == (2 * n + d) % (2 * d)
  <2>1. q \in Int /\ r \in 0..(2 * d - 1) /\ 2 * n + d = (2 * d) * q + r
    BY <1>1, Division
  <2>2. HalfUp(n, d) = q
    BY <1>2 DEF HalfUp
  <2> HIDE DEF q, r
  <2>. QED BY <2>1, <2>2
<1>3. CASE n < 0
  <2> DEFINE q == (d - 2 * n) \div (2 * d)
             r == (d - 2 * n) % (2 * d)
  <2>1. q \in Int /\ r \in 0..(2 * d - 1) /\ d - 2 * n = (2 * d) * q + r
    BY <1>1, Division
  <2>2. HalfUp(n, d) = -q
    BY <1>3 DEF HalfUp
  <2> HIDE DEF q, r
  <2>. QED BY <2>1, <2>2
<1>. QED BY <1>2, <1>3

(***************************************************************************)
(* The sheets.                                                             *)
(***************************************************************************)
\* The row in force is one that applies, and none that applies is newer.
LEMMA NewestApplies ==
  ASSUME NEW rows, NEW on \in Int, rows # {},
         \A r \in rows : r.from \in Int /\ r.from <= on
  PROVE  Newest(rows) \in rows /\ \A s \in rows : s.from <= Newest(rows).from
<1> DEFINE dates == {r.from : r \in rows}
<1>1. dates \in SUBSET Int /\ dates # {} /\ \A d \in dates : d <= on
  OBVIOUS
<1>2. PICK d \in dates : \A e \in dates : e <= d
  <2> HIDE DEF dates
  <2>. QED BY <1>1, HasLargest
<1>3. \E r \in rows : \A s \in rows : s.from <= r.from
  BY <1>2
<1>. QED BY <1>3 DEF Newest

LEMMA BandInForce ==
  ASSUME NEW line, NEW sheets \in Sheet, NEW on \in Int, BandOf(line, sheets, on) # NULL
  PROVE  /\ BandOf(line, sheets, on) \in MarginBand
         /\ BandOf(line, sheets, on) \in sheets.bands
         /\ BandOf(line, sheets, on).key = line.item.band
         /\ BandOf(line, sheets, on).from <= on
<1> DEFINE rows == {r \in sheets.bands : r.key = line.item.band /\ r.from <= on}
<1>1. BandOf(line, sheets, on) = Newest(rows)
  BY DEF BandOf, InForce
<1>2. rows # {} /\ rows \subseteq MarginBand
  BY <1>1 DEF Newest, Sheet
<1>3. \A r \in rows : r.from \in Int /\ r.from <= on
  BY <1>2 DEF MarginBand
<1>4. Newest(rows) \in rows
  <2> HIDE DEF rows
  <2>. QED BY <1>2, <1>3, NewestApplies
<1>. QED BY <1>1, <1>2, <1>4

LEMMA MultiplierInForce ==
  ASSUME NEW key, NEW sheets \in Sheet, NEW on \in Int,
         InForce(sheets.multipliers, key, on) # NULL
  PROVE  InForce(sheets.multipliers, key, on).rate \in Int
<1> DEFINE rows == {r \in sheets.multipliers : r.key = key /\ r.from <= on}
<1>1. InForce(sheets.multipliers, key, on) = Newest(rows)
  BY DEF InForce
<1>2. rows # {} /\ rows \subseteq Multiplier
  BY <1>1 DEF Newest, Sheet
<1>3. \A r \in rows : r.from \in Int /\ r.from <= on
  BY <1>2 DEF Multiplier
<1>4. Newest(rows) \in rows
  <2> HIDE DEF rows
  <2>. QED BY <1>2, <1>3, NewestApplies
<1>. QED BY <1>1, <1>2, <1>4 DEF Multiplier

(***************************************************************************)
(* Lines.  What a line carries as its section's subtotal is written last   *)
(* and read by no step, so it may be anything in the lemmas.               *)
(***************************************************************************)
LineOver(X) ==
  [group : STRING, item : CatalogItem \cup {NULL}, cost : Int, quantity : Int,
   adders : Int, opening_division : STRING \cup {NULL}, source : CostSource,
   dated : Int \cup {NULL}, stale : BOOLEAN, margin : Margin, overridden : BOOLEAN,
   band : MarginBand \cup {NULL}, below_floor : BOOLEAN, sale_each : Int,
   extended : Int, subtotal : X, needs_review : BOOLEAN]

LEMMA LinesAreLines == QuoteLine = LineOver(Int)
  BY DEF QuoteLine, LineOver

\* What a step of pricing leaves alone on every line.
SameTerms(new, line) ==
  /\ new.group = line.group /\ new.item = line.item /\ new.quantity = line.quantity
  /\ new.adders = line.adders /\ new.opening_division = line.opening_division
  /\ new.dated = line.dated /\ new.overridden = line.overridden
  /\ new.subtotal = line.subtotal

\* A source and a cost written into a line, and a line put before the estimator.
Costed(line, source, cost) == [line EXCEPT !.source = source, !.cost = cost]
Doubted(line) == [line EXCEPT !.needs_review = TRUE]

LEMMA CostedLine ==
  ASSUME NEW X, NEW line \in LineOver(X), NEW source \in CostSource, NEW cost \in Int
  PROVE  LET new == Costed(line, source, cost)
         IN /\ new \in LineOver(X) /\ SameTerms(new, line)
            /\ new.margin = line.margin /\ new.band = line.band
            /\ new.cost = cost /\ new.source = source
  BY DEF LineOver, SameTerms, Costed

LEMMA DoubtedLine ==
  ASSUME NEW X, NEW line \in LineOver(X), NEW source \in CostSource, NEW cost \in Int
  PROVE  LET new == Doubted(Costed(line, source, cost))
         IN /\ new \in LineOver(X) /\ SameTerms(new, line)
            /\ new.margin = line.margin /\ new.band = line.band
            /\ new.cost = cost /\ new.source = source /\ new.needs_review = TRUE
  BY DEF LineOver, SameTerms, Costed, Doubted

ListCost(line, row) ==
  IF row = NULL THEN line.item.list * 100 ELSE HalfUp(line.item.list * row.rate, 100)
MultiplierOf(line, sheets, on) == InForce(sheets.multipliers, line.item.vendor, on)
Unlisted(line) == line.item = NULL \/ line.item.list = NULL

\* The rungs of the waterfall, one at a time.
LEMMA Rungs ==
  ASSUME NEW X, NEW line \in LineOver(X), NEW sheets, NEW on
  PROVE  LET row == MultiplierOf(line, sheets, on)
             new == Sourced(line, sheets, on)
         IN /\ line.cost > 0 => new = line
            /\ ~(line.cost > 0) /\ Unlisted(line) =>
                 new = Doubted(Costed(line, "MANUAL", line.cost))
            /\ ~(line.cost > 0) /\ ~Unlisted(line) /\ row = NULL =>
                 new = Doubted(Costed(line, "MFR_LIST", ListCost(line, row)))
            /\ ~(line.cost > 0) /\ ~Unlisted(line) /\ row # NULL =>
                 new = Costed(line, "MFR_LIST", ListCost(line, row))
<1> DEFINE row == MultiplierOf(line, sheets, on)
<1>1. line.cost > 0 <=> ~(line.cost <= 0)
  BY DEF LineOver
<1>2. CASE line.cost > 0
  BY <1>1, <1>2, Zenon DEF Sourced
<1>3. CASE ~(line.cost > 0) /\ Unlisted(line)
  <2>1. Sourced(line, sheets, on) = [line EXCEPT !.source = "MANUAL", !.needs_review = TRUE]
    BY <1>1, <1>3, Zenon DEF Sourced, Unlisted
  <2>2. [line EXCEPT !.source = "MANUAL", !.needs_review = TRUE]
          = Doubted(Costed(line, "MANUAL", line.cost))
    BY DEF Costed, Doubted, LineOver
  <2>. QED BY <1>3, <2>1, <2>2
<1>4. CASE ~(line.cost > 0) /\ ~Unlisted(line)
  <2>1. Sourced(line, sheets, on)
          = [line EXCEPT !.source = "MFR_LIST", !.cost = ListCost(line, row),
                         !.needs_review = line.needs_review \/ row = NULL]
    BY <1>1, <1>4, Zenon DEF Sourced, Unlisted, ListCost, MultiplierOf
  <2> DEFINE cost == ListCost(line, row)
  <2> HIDE DEF cost, row
  <2>2. ASSUME row = NULL
        PROVE  [line EXCEPT !.source = "MFR_LIST", !.cost = cost,
                            !.needs_review = line.needs_review \/ row = NULL]
                 = Doubted(Costed(line, "MFR_LIST", cost))
    BY <2>2 DEF Costed, Doubted, LineOver
  <2>3. ASSUME row # NULL
        PROVE  [line EXCEPT !.source = "MFR_LIST", !.cost = cost,
                            !.needs_review = line.needs_review \/ row = NULL]
                 = Costed(line, "MFR_LIST", cost)
    BY <2>3 DEF Costed, LineOver
  <2>. QED BY <1>4, <2>1, <2>2, <2>3, Zenon DEF cost, row
<1>. QED BY <1>2, <1>3, <1>4, Zenon

\* A line whose cost another run of the waterfall, on the same sheets, leaves alone.
CostSettled(line, sheets, on) ==
  \/ line.cost > 0
  \/ Unlisted(line) /\ line.source = "MANUAL" /\ line.needs_review = TRUE
  \/ /\ ~Unlisted(line)
     /\ line.source = "MFR_LIST" /\ line.cost = ListCost(line, MultiplierOf(line, sheets, on))
     /\ MultiplierOf(line, sheets, on) = NULL => line.needs_review = TRUE

LEMMA SourcedLine ==
  ASSUME NEW X, NEW line \in LineOver(X), NEW sheets \in Sheet, NEW on \in Int
  PROVE  LET new == Sourced(line, sheets, on)
         IN /\ new \in LineOver(X) /\ SameTerms(new, line)
            /\ new.margin = line.margin /\ new.band = line.band
            /\ line.cost > 0 => new.cost = line.cost /\ new.source = line.source
            /\ CostSettled(new, sheets, on)
<1>. line.cost \in Int /\ "MANUAL" \in CostSource /\ "MFR_LIST" \in CostSource
  BY DEF LineOver, CostSource
<1>1. CASE line.cost > 0
  <2>1. Sourced(line, sheets, on) = line
    BY <1>1, Rungs
  <2>. QED BY <1>1, <2>1 DEF SameTerms, CostSettled
<1>2. CASE ~(line.cost > 0) /\ Unlisted(line)
  <2> DEFINE new == Doubted(Costed(line, "MANUAL", line.cost))
  <2>1. /\ new \in LineOver(X) /\ SameTerms(new, line)
        /\ new.margin = line.margin /\ new.band = line.band
        /\ new.cost = line.cost /\ new.source = "MANUAL" /\ new.needs_review = TRUE
    BY DoubtedLine
  <2>2. Sourced(line, sheets, on) = new
    BY <1>2, Rungs
  <2> HIDE DEF new
  <2>3. Unlisted(new)
    BY <1>2, <2>1 DEF SameTerms, Unlisted
  <2>. QED BY <1>2, <2>1, <2>2, <2>3 DEF CostSettled
<1>3. CASE ~(line.cost > 0) /\ ~Unlisted(line)
  <2> DEFINE row == MultiplierOf(line, sheets, on)
             cost == ListCost(line, row)
             listed == Costed(line, "MFR_LIST", cost)
  <2>1. line.item.list \in Int
    BY <1>3 DEF LineOver, CatalogItem, Unlisted
  <2>2. cost \in Int
    <3>1. CASE row = NULL
      BY <2>1, <3>1 DEF ListCost
    <3>2. CASE row # NULL
      <4>1. row.rate \in Int
        BY <3>2, MultiplierInForce DEF MultiplierOf
      <4> HIDE DEF row
      <4>2. line.item.list * row.rate \in Int
        BY <2>1, <4>1
      <4>. QED BY <3>2, <4>2, RoundedHalfUp DEF ListCost
    <3>. QED BY <3>1, <3>2
  <2> HIDE DEF cost
  <2>3. ASSUME NEW new \in LineOver(X), SameTerms(new, line)
        PROVE  /\ ~Unlisted(new) /\ MultiplierOf(new, sheets, on) = row
               /\ ListCost(new, row) = cost
    <3>1. new.item = line.item
      BY <2>3 DEF SameTerms
    <3>. QED BY <1>3, <3>1 DEF Unlisted, MultiplierOf, ListCost, cost
  <2>4. CASE row = NULL
    <3> DEFINE new == Doubted(listed)
    <3>1. /\ new \in LineOver(X) /\ SameTerms(new, line)
          /\ new.margin = line.margin /\ new.band = line.band
          /\ new.cost = cost /\ new.source = "MFR_LIST" /\ new.needs_review = TRUE
      BY <2>2, DoubtedLine
    <3>2. Sourced(line, sheets, on) = new
      BY <1>3, <2>4, Rungs DEF cost
    <3> HIDE DEF new, row
    <3>. QED BY <1>3, <2>3, <2>4, <3>1, <3>2 DEF CostSettled
  <2>5. CASE row # NULL
    <3>1. /\ listed \in LineOver(X) /\ SameTerms(listed, line)
          /\ listed.margin = line.margin /\ listed.band = line.band
          /\ listed.cost = cost /\ listed.source = "MFR_LIST"
      BY <2>2, CostedLine
    <3>2. Sourced(line, sheets, on) = listed
      BY <1>3, <2>5, Rungs DEF cost
    <3> HIDE DEF listed, row
    <3>. QED BY <1>3, <2>3, <2>5, <3>1, <3>2 DEF CostSettled
  <2>. QED BY <2>4, <2>5
<1>. QED BY <1>1, <1>2, <1>3

LEMMA SettledCost ==
  ASSUME NEW X, NEW line \in LineOver(X), NEW sheets, NEW on, CostSettled(line, sheets, on)
  PROVE  Sourced(line, sheets, on) = line
<1>1. CASE line.cost > 0
  BY <1>1, Rungs
<1>2. Costed(line, line.source, line.cost) = line
  BY DEF LineOver, Costed
<1>3. line.needs_review = TRUE => Doubted(line) = line
  BY DEF LineOver, Doubted
<1>4. CASE ~(line.cost > 0) /\ Unlisted(line)
  BY <1>2, <1>3, <1>4, Rungs DEF CostSettled
<1>5. CASE ~(line.cost > 0) /\ ~Unlisted(line)
  BY <1>2, <1>3, <1>5, Rungs DEF CostSettled
<1>. QED BY <1>1, <1>4, <1>5

(***************************************************************************)
(* The later steps of pricing, and what they settle.                       *)
(***************************************************************************)
Old(line, on) == line.dated # NULL /\ line.dated < on - Freshness
AgeSettled(line, on) ==
  (Old(line, on) => line.stale = TRUE) /\ (~Old(line, on) => line.stale = FALSE)

MarginSettled(line, sheets, on) ==
  ~line.overridden /\ BandOf(line, sheets, on) # NULL =>
    line.band = BandOf(line, sheets, on) /\ line.margin = BandOf(line, sheets, on).rate

SaleSettled(line) ==
  line.sale_each = SaleEach(line) /\ line.extended = HalfUp(SaleEach(line) * line.quantity, ONE)

BandFor(line, sheets, on) ==
  IF line.band # NULL THEN line.band ELSE BandOf(line, sheets, on)
Below(line, sheets, on) ==
  LET band == BandFor(line, sheets, on)
  IN band # NULL /\ band.floor # NULL /\ line.margin < band.floor
FloorSettled(line, sheets, on) ==
  /\ Below(line, sheets, on) => line.below_floor = TRUE
  /\ ~Below(line, sheets, on) => line.below_floor = FALSE

SameCost(new, line) ==
  new.cost = line.cost /\ new.source = line.source /\ new.needs_review = line.needs_review

LEMMA AgedLine ==
  ASSUME NEW X, NEW line \in LineOver(X), NEW on
  PROVE  LET new == Aged(line, on)
         IN /\ new \in LineOver(X) /\ SameTerms(new, line) /\ SameCost(new, line)
            /\ new.margin = line.margin /\ new.band = line.band
            /\ AgeSettled(new, on)
            /\ AgeSettled(line, on) => new = line
<1> DEFINE old == [line EXCEPT !.stale = TRUE]
           fresh == [line EXCEPT !.stale = FALSE]
<1>1. /\ old \in LineOver(X) /\ SameTerms(old, line) /\ SameCost(old, line)
      /\ old.margin = line.margin /\ old.band = line.band /\ old.stale = TRUE
      /\ line.stale = TRUE => old = line
  BY DEF LineOver, SameTerms, SameCost
<1>2. /\ fresh \in LineOver(X) /\ SameTerms(fresh, line) /\ SameCost(fresh, line)
      /\ fresh.margin = line.margin /\ fresh.band = line.band /\ fresh.stale = FALSE
      /\ line.stale = FALSE => fresh = line
  BY DEF LineOver, SameTerms, SameCost
<1>3. Old(line, on) => Aged(line, on) = old
  <2>1. Aged(line, on) = [line EXCEPT !.stale = Old(line, on)]
    BY Zenon DEF Aged, Old
  <2>. QED BY <2>1
<1>4. ~Old(line, on) => Aged(line, on) = fresh
  <2>1. Aged(line, on) = [line EXCEPT !.stale = Old(line, on)]
    BY Zenon DEF Aged, Old
  <2>2. ASSUME ~Old(line, on) PROVE Old(line, on) = FALSE
    BY <2>2, Zenon DEF Old
  <2>. QED BY <2>1, <2>2, Zenon
<1>5. \A new : SameTerms(new, line) => Old(new, on) = Old(line, on)
  BY DEF SameTerms, Old
<1> HIDE DEF old, fresh
<1>6. CASE Old(line, on)
  BY <1>1, <1>3, <1>5, <1>6 DEF AgeSettled
<1>7. CASE ~Old(line, on)
  BY <1>2, <1>4, <1>5, <1>7 DEF AgeSettled
<1>. QED BY <1>6, <1>7

LEMMA MarginedLine ==
  ASSUME NEW X, NEW line \in LineOver(X), NEW sheets \in Sheet, NEW on \in Int
  PROVE  LET new == Margined(line, sheets, on)
         IN /\ new \in LineOver(X) /\ SameTerms(new, line) /\ SameCost(new, line)
            /\ new.stale = line.stale
            /\ line.overridden => new.margin = line.margin /\ new.band = line.band
            /\ BandOf(line, sheets, on) = NULL => new.band = line.band
            /\ MarginSettled(new, sheets, on)
            /\ MarginSettled(line, sheets, on) => new = line
<1>1. CASE line.overridden \/ BandOf(line, sheets, on) = NULL
  <2>1. Margined(line, sheets, on) = line
    BY <1>1 DEF Margined
  <2>. QED BY <1>1, <2>1 DEF SameTerms, SameCost, MarginSettled
<1>2. CASE ~(line.overridden \/ BandOf(line, sheets, on) = NULL)
  <2> DEFINE band == BandOf(line, sheets, on)
             rate == band.rate
             new == [line EXCEPT !.band = band, !.margin = rate]
  <2>1. Margined(line, sheets, on) = new
    BY <1>2 DEF Margined
  <2>2. band \in MarginBand
    BY <1>2, BandInForce
  <2>3. rate \in Margin
    BY <2>2 DEF MarginBand
  <2> HIDE DEF rate
  <2>4. /\ new \in LineOver(X) /\ SameTerms(new, line) /\ SameCost(new, line)
        /\ new.stale = line.stale /\ new.band = band /\ new.margin = rate
        /\ line.band = band /\ line.margin = rate => new = line
    <3> HIDE DEF band
    <3>. QED BY <2>2, <2>3 DEF LineOver, SameTerms, SameCost
  <2> HIDE DEF new
  <2>5. BandOf(new, sheets, on) = band
    BY <2>4 DEF SameTerms, BandOf
  <2>6. MarginSettled(new, sheets, on)
    BY <2>4, <2>5 DEF MarginSettled, rate
  <2>7. MarginSettled(line, sheets, on) => new = line
    BY <1>2, <2>4 DEF MarginSettled, rate
  <2>. QED BY <1>2, <2>1, <2>4, <2>6, <2>7
<1>. QED BY <1>1, <1>2

LEMMA OneIsPositive == ONE \in Int /\ ONE > 0
  BY DEF ONE

LEMMA SaleIsInt ==
  ASSUME NEW X, NEW line \in LineOver(X)
  PROVE  /\ Base(line) \in Int /\ SaleEach(line) \in Int
         /\ HalfUp(SaleEach(line) * line.quantity, ONE) \in Int
         /\ ONE - line.margin \in Int /\ ONE - line.margin > 0
<1>1. line.cost \in Int /\ line.adders \in Int /\ line.quantity \in Int
      /\ line.margin \in Int /\ line.margin < ONE /\ ONE \in Int /\ ONE > 0
  <2>1. line.margin \in Margin /\ line.cost \in Int /\ line.adders \in Int
        /\ line.quantity \in Int
    BY DEF LineOver
  <2>2. \A m \in Margin : m \in Int /\ m < ONE
    BY DEF Margin
  <2>. QED BY <2>1, <2>2, OneIsPositive
<1>2. Base(line) \in Int
  <2>1. HalfUp(line.adders, 100) \in Int
    <3>1. 100 \in Int /\ 100 > 0
      OBVIOUS
    <3>. QED BY <1>1, <3>1, RoundedHalfUp
  <2>. QED BY <1>1, <2>1 DEF Base
<1>3. ONE - line.margin \in Int /\ ONE - line.margin > 0 /\ Base(line) * ONE \in Int
  BY <1>1, <1>2
<1>4. SaleEach(line) \in Int
  BY <1>3, RoundedHalfUp DEF SaleEach
<1>5. SaleEach(line) * line.quantity \in Int
  BY <1>1, <1>4
<1>. QED BY <1>1, <1>2, <1>3, <1>4, <1>5, RoundedHalfUp

Sold(line) == [line EXCEPT !.sale_each = SaleEach(line),
                           !.extended = HalfUp(SaleEach(line) * line.quantity, ONE)]

LEMMA SoldLine ==
  ASSUME NEW X, NEW line \in LineOver(X)
  PROVE  LET new == Sold(line)
         IN /\ new \in LineOver(X) /\ SameTerms(new, line) /\ SameCost(new, line)
            /\ new.stale = line.stale /\ new.band = line.band /\ new.margin = line.margin
            /\ SaleSettled(new)
            /\ SaleSettled(line) => new = line
<1> DEFINE each == SaleEach(line)
           total == HalfUp(SaleEach(line) * line.quantity, ONE)
           new == [line EXCEPT !.sale_each = each, !.extended = total]
<1>1. Sold(line) = new
  BY DEF Sold
<1>2. each \in Int /\ total \in Int
  BY SaleIsInt
<1> HIDE DEF each, total
<1>3. /\ new \in LineOver(X) /\ SameTerms(new, line) /\ SameCost(new, line)
      /\ new.stale = line.stale /\ new.band = line.band /\ new.margin = line.margin
      /\ new.sale_each = each /\ new.extended = total
      /\ line.sale_each = each /\ line.extended = total => new = line
  BY <1>2 DEF LineOver, SameTerms, SameCost
<1> HIDE DEF new
<1>4. SaleEach(new) = each
  BY <1>3 DEF SaleEach, Base, SameTerms, SameCost, each
<1>5. HalfUp(SaleEach(new) * new.quantity, ONE) = total
  BY <1>3, <1>4 DEF SameTerms, each, total
<1>6. SaleSettled(new)
  BY <1>3, <1>4, <1>5 DEF SaleSettled
<1>7. SaleSettled(line) => new = line
  BY <1>3 DEF SaleSettled, each, total
<1>. QED BY <1>1, <1>3, <1>6, <1>7

LEMMA FloorCheckedLine ==
  ASSUME NEW X, NEW line \in LineOver(X), NEW sheets, NEW on
  PROVE  LET new == FloorChecked(line, sheets, on)
         IN /\ new \in LineOver(X) /\ SameTerms(new, line) /\ SameCost(new, line)
            /\ new.stale = line.stale /\ new.band = line.band /\ new.margin = line.margin
            /\ new.sale_each = line.sale_each /\ new.extended = line.extended
            /\ FloorSettled(new, sheets, on)
            /\ FloorSettled(line, sheets, on) => new = line
<1> DEFINE low == [line EXCEPT !.below_floor = TRUE]
           fair == [line EXCEPT !.below_floor = FALSE]
           Rest(new) == /\ SameTerms(new, line) /\ SameCost(new, line)
                        /\ new.stale = line.stale /\ new.band = line.band
                        /\ new.margin = line.margin
                        /\ new.sale_each = line.sale_each /\ new.extended = line.extended
<1>1. /\ low \in LineOver(X) /\ Rest(low) /\ low.below_floor = TRUE
      /\ line.below_floor = TRUE => low = line
  BY DEF LineOver, SameTerms, SameCost
<1>2. /\ fair \in LineOver(X) /\ Rest(fair) /\ fair.below_floor = FALSE
      /\ line.below_floor = FALSE => fair = line
  BY DEF LineOver, SameTerms, SameCost
<1>3. FloorChecked(line, sheets, on) = [line EXCEPT !.below_floor = Below(line, sheets, on)]
  BY Zenon DEF FloorChecked, Below, BandFor
<1>4. Below(line, sheets, on) => FloorChecked(line, sheets, on) = low
  <2>1. ASSUME Below(line, sheets, on) PROVE Below(line, sheets, on) = TRUE
    BY <2>1, Zenon DEF Below
  <2>. QED BY <1>3, <2>1, Zenon
<1>5. ~Below(line, sheets, on) => FloorChecked(line, sheets, on) = fair
  <2>1. ASSUME ~Below(line, sheets, on) PROVE Below(line, sheets, on) = FALSE
    BY <2>1, Zenon DEF Below
  <2>. QED BY <1>3, <2>1, Zenon
<1>6. \A new : Rest(new) => (Below(new, sheets, on) <=> Below(line, sheets, on))
  BY DEF SameTerms, Below, BandFor, BandOf
<1> HIDE DEF low, fair
<1>7. CASE Below(line, sheets, on)
  BY <1>1, <1>4, <1>6, <1>7 DEF FloorSettled
<1>8. CASE ~Below(line, sheets, on)
  BY <1>2, <1>5, <1>6, <1>8 DEF FloorSettled
<1>. QED BY <1>7, <1>8

(***************************************************************************)
(* A line, priced.                                                         *)
(***************************************************************************)
\* What one more pricing, on the same sheets and day, leaves alone.
Settled(line, sheets, on) ==
  IF IsFreight(line)
  THEN /\ line.sale_each = line.cost
       /\ line.extended = HalfUp(line.cost * (IF line.quantity = 0 THEN 100 ELSE line.quantity), ONE)
  ELSE /\ CostSettled(line, sheets, on) /\ AgeSettled(line, on)
       /\ MarginSettled(line, sheets, on) /\ SaleSettled(line) /\ FloorSettled(line, sheets, on)

LEMMA PricedInSteps ==
  ASSUME NEW line, NEW sheets, NEW on, ~IsFreight(line)
  PROVE  PriceLine(line, sheets, on)
           = FloorChecked(Sold(Margined(Aged(Sourced(line, sheets, on), on), sheets, on)),
                          sheets, on)
<1> DEFINE costed == Margined(Aged(Sourced(line, sheets, on), on), sheets, on)
<1>1. PriceLine(line, sheets, on)
        = FloorChecked([costed EXCEPT !.sale_each = SaleEach(costed),
                                      !.extended = HalfUp(SaleEach(costed) * costed.quantity, ONE)],
                       sheets, on)
  BY DEF PriceLine
<1>. QED BY <1>1 DEF Sold

LEMMA PricedFreight ==
  ASSUME NEW X, NEW line \in LineOver(X), NEW sheets, NEW on, IsFreight(line)
  PROVE  LET new == PriceLine(line, sheets, on)
         IN /\ new \in LineOver(X) /\ SameTerms(new, line) /\ SameCost(new, line)
            /\ new.margin = line.margin /\ new.band = line.band
            /\ Settled(new, sheets, on)
            /\ Settled(line, sheets, on) => new = line
<1> DEFINE total == HalfUp(line.cost * (IF line.quantity = 0 THEN 100 ELSE line.quantity), ONE)
           new == [line EXCEPT !.sale_each = line.cost, !.extended = total]
<1>1. PriceLine(line, sheets, on) = new
  BY DEF PriceLine
<1>2. total \in Int
  <2>1. line.cost \in Int /\ line.quantity \in Int
    BY DEF LineOver
  <2> DEFINE n == line.cost * (IF line.quantity = 0 THEN 100 ELSE line.quantity)
  <2>2. n \in Int
    BY <2>1
  <2> HIDE DEF n
  <2>3. HalfUp(n, ONE) \in Int
    BY <2>2, OneIsPositive, RoundedHalfUp
  <2>. QED BY <2>3 DEF n
<1> HIDE DEF total
<1>3. /\ new \in LineOver(X) /\ SameTerms(new, line) /\ SameCost(new, line)
      /\ new.margin = line.margin /\ new.band = line.band
      /\ new.sale_each = line.cost /\ new.extended = total
      /\ line.sale_each = line.cost /\ line.extended = total => new = line
  BY <1>2 DEF LineOver, SameTerms, SameCost
<1> HIDE DEF new
<1>4. Settled(new, sheets, on)
  BY <1>3 DEF Settled, IsFreight, SameTerms, SameCost, total
<1>5. Settled(line, sheets, on) => new = line
  BY <1>3 DEF Settled, total
<1>. QED BY <1>1, <1>3, <1>4, <1>5

\* Pricing a line settles it, and keeps what was entered: a cost with its source, and an
\* overridden margin.
LEMMA PricedLine ==
  ASSUME NEW X, NEW line \in LineOver(X), NEW sheets \in Sheet, NEW on \in Int
  PROVE  LET new == PriceLine(line, sheets, on)
         IN /\ new \in LineOver(X) /\ SameTerms(new, line)
            /\ line.cost > 0 => new.cost = line.cost /\ new.source = line.source
            /\ line.overridden => new.margin = line.margin /\ new.band = line.band
            /\ BandOf(line, sheets, on) = NULL => new.band = line.band
            /\ Settled(new, sheets, on)
<1>1. CASE IsFreight(line)
  BY <1>1, PricedFreight DEF SameCost
<1>2. CASE ~IsFreight(line)
  <2> DEFINE l1 == Sourced(line, sheets, on)
             l2 == Aged(l1, on)
             l3 == Margined(l2, sheets, on)
             l4 == Sold(l3)
             l5 == FloorChecked(l4, sheets, on)
  <2>1. PriceLine(line, sheets, on) = l5
    BY <1>2, PricedInSteps
  <2>2. /\ l1 \in LineOver(X) /\ SameTerms(l1, line)
        /\ l1.margin = line.margin /\ l1.band = line.band
        /\ line.cost > 0 => l1.cost = line.cost /\ l1.source = line.source
        /\ CostSettled(l1, sheets, on)
    BY SourcedLine
  <2> HIDE DEF l1
  <2>3. /\ l2 \in LineOver(X) /\ SameTerms(l2, l1) /\ SameCost(l2, l1)
        /\ l2.margin = l1.margin /\ l2.band = l1.band /\ AgeSettled(l2, on)
    BY <2>2, AgedLine
  <2> HIDE DEF l2
  <2>4. /\ l3 \in LineOver(X) /\ SameTerms(l3, l2) /\ SameCost(l3, l2) /\ l3.stale = l2.stale
        /\ l2.overridden => l3.margin = l2.margin /\ l3.band = l2.band
        /\ BandOf(l2, sheets, on) = NULL => l3.band = l2.band
        /\ MarginSettled(l3, sheets, on)
    BY <2>3, MarginedLine
  <2> HIDE DEF l3
  <2>5. /\ l4 \in LineOver(X) /\ SameTerms(l4, l3) /\ SameCost(l4, l3) /\ l4.stale = l3.stale
        /\ l4.band = l3.band /\ l4.margin = l3.margin /\ SaleSettled(l4)
    BY <2>4, SoldLine
  <2> HIDE DEF l4
  <2>6. /\ l5 \in LineOver(X) /\ SameTerms(l5, l4) /\ SameCost(l5, l4) /\ l5.stale = l4.stale
        /\ l5.band = l4.band /\ l5.margin = l4.margin
        /\ l5.sale_each = l4.sale_each /\ l5.extended = l4.extended
        /\ FloorSettled(l5, sheets, on)
    BY <2>5, FloorCheckedLine
  <2> HIDE DEF l5
  <2>7. SameTerms(l5, line) /\ SameTerms(l2, line)
    BY <2>2, <2>3, <2>4, <2>5, <2>6 DEF SameTerms
  <2>8. SameCost(l5, l1)
    BY <2>3, <2>4, <2>5, <2>6 DEF SameCost
  <2>9. CostSettled(l5, sheets, on)
    <3>1. l5.item = l1.item
      BY <2>2, <2>7 DEF SameTerms
    <3>. QED BY <2>2, <2>8, <3>1
          DEF CostSettled, SameCost, Unlisted, MultiplierOf, ListCost
  <2>10. AgeSettled(l5, on)
    BY <2>3, <2>4, <2>5, <2>6, <2>7 DEF AgeSettled, Old, SameTerms
  <2>11. MarginSettled(l5, sheets, on)
    <3>1. l5.item = l3.item /\ l5.overridden = l3.overridden
          /\ l5.band = l3.band /\ l5.margin = l3.margin
      BY <2>5, <2>6 DEF SameTerms
    <3>. QED BY <2>4, <3>1 DEF MarginSettled, BandOf
  <2>12. SaleSettled(l5)
    <3>1. SaleEach(l5) = SaleEach(l4) /\ l5.quantity = l4.quantity
      BY <2>6 DEF SaleEach, Base, SameTerms, SameCost
    <3>. QED BY <2>5, <2>6, <3>1 DEF SaleSettled
  <2>13. ~IsFreight(l5)
    BY <1>2, <2>7 DEF IsFreight, SameTerms
  <2>14. Settled(l5, sheets, on)
    BY <2>6, <2>9, <2>10, <2>11, <2>12, <2>13 DEF Settled
  <2>15. BandOf(l2, sheets, on) = BandOf(line, sheets, on) /\ l2.overridden = line.overridden
    BY <2>7 DEF BandOf, SameTerms
  <2>16. line.cost > 0 => l5.cost = line.cost /\ l5.source = line.source
    BY <2>2, <2>8 DEF SameCost
  <2>17. l5.band = l3.band /\ l5.margin = l3.margin /\ l2.band = line.band /\ l2.margin = line.margin
    BY <2>2, <2>3, <2>5, <2>6
  <2>. QED BY <2>1, <2>4, <2>6, <2>7, <2>14, <2>15, <2>16, <2>17
<1>. QED BY <1>1, <1>2

\* Pricing a settled line changes nothing.
LEMMA SettledLine ==
  ASSUME NEW X, NEW line \in LineOver(X), NEW sheets \in Sheet, NEW on \in Int,
         Settled(line, sheets, on)
  PROVE  PriceLine(line, sheets, on) = line
<1>1. CASE IsFreight(line)
  BY <1>1, PricedFreight
<1>2. CASE ~IsFreight(line)
  <2>1. Sourced(line, sheets, on) = line
    BY <1>2, SettledCost DEF Settled
  <2>2. Aged(line, on) = line
    BY <1>2, AgedLine DEF Settled
  <2>3. Margined(line, sheets, on) = line
    BY <1>2, MarginedLine DEF Settled
  <2>4. Sold(line) = line
    BY <1>2, SoldLine DEF Settled
  <2>5. FloorChecked(line, sheets, on) = line
    BY <1>2, FloorCheckedLine DEF Settled
  <2>. QED BY <1>2, <2>1, <2>2, <2>3, <2>4, <2>5, PricedInSteps
<1>. QED BY <1>1, <1>2

(***************************************************************************)
(* A quote, assembled.                                                     *)
(***************************************************************************)
Priced(lines, sheets, on) == [i \in DOMAIN lines |-> PriceLine(lines[i], sheets, on)]
Subtotal(lines, i) == IF IsFreight(lines[i]) THEN 0 ELSE SectionTotal(lines, Section(lines[i]))
Written(line, subtotal) == [line EXCEPT !.subtotal = subtotal]
Totalled(lines) == [i \in DOMAIN lines |-> Written(lines[i], Subtotal(lines, i))]
Subtotals(lines) == {lines[i].subtotal : i \in DOMAIN lines}
Sale(lines) == Extended(lines, Goods(lines))
Taxable(quote, lines) == Sale(lines) + (IF quote.freight = NULL THEN 0 ELSE quote.freight)
Rate(quote, sheets, on) ==
  LET row == TaxRow(sheets, quote.jurisdiction, on) IN IF row = NULL THEN NULL ELSE row.rate
TaxOf(quote, lines, sheets, on) ==
  LET row == TaxRow(sheets, quote.jurisdiction, on)
  IN IF row = NULL THEN 0 ELSE HalfUp(Taxable(quote, lines) * row.rate, ONE)
Summed(quote, lines, sale, rate, tax, total) ==
  [quote EXCEPT !.lines = lines, !.subtotal_sale = sale, !.rate = rate, !.tax = tax,
                !.total = total]

LEMMA AssembledInSteps ==
  ASSUME NEW quote, NEW sheets, NEW on
  PROVE  LET lines == Totalled(Priced(quote.lines, sheets, on))
         IN Assembled(quote, sheets, on)
              = Summed(quote, lines, Sale(lines), Rate(quote, sheets, on),
                       TaxOf(quote, lines, sheets, on),
                       Taxable(quote, lines) + TaxOf(quote, lines, sheets, on))
  BY Zenon DEF Assembled, Summed, Totalled, Written, Subtotal, Priced, Sale, Rate, TaxOf, Taxable

LEMMA SummedQuote ==
  ASSUME NEW quote \in Quote, NEW lines, NEW sale, NEW rate, NEW tax, NEW total
  PROVE  LET new == Summed(quote, lines, sale, rate, tax, total)
         IN /\ new.lines = lines /\ new.subtotal_sale = sale /\ new.rate = rate
            /\ new.tax = tax /\ new.total = total
            /\ new.freight = quote.freight /\ new.jurisdiction = quote.jurisdiction
            /\ Summed(new, lines, sale, rate, tax, total) = new
  BY DEF Quote, Summed

\* Every term of a line, its subtotal left aside, that another step or a property reads.
SameBut(new, line) ==
  /\ new.group = line.group /\ new.item = line.item /\ new.adders = line.adders
  /\ new.opening_division = line.opening_division
  /\ new.overridden = line.overridden /\ SameCost(new, line)
  /\ new.margin = line.margin /\ new.sale_each = line.sale_each
  /\ new.extended = line.extended

\* The subtotals written into a line change nothing that pricing looks at.
LEMMA TotalledLine ==
  ASSUME NEW X, NEW line \in LineOver(X), NEW subtotal,
         NEW sheets, NEW on, Settled(line, sheets, on)
  PROVE  LET new == Written(line, subtotal)
         IN /\ new \in LineOver({subtotal}) /\ new.subtotal = subtotal
            /\ SameBut(new, line) /\ Settled(new, sheets, on)
<1> DEFINE new == Written(line, subtotal)
<1>1. /\ new \in LineOver({subtotal}) /\ new.subtotal = subtotal
      /\ new.group = line.group /\ new.item = line.item /\ new.adders = line.adders
      /\ new.opening_division = line.opening_division
      /\ new.overridden = line.overridden /\ SameCost(new, line)
      /\ new.quantity = line.quantity /\ new.dated = line.dated /\ new.stale = line.stale
      /\ new.band = line.band /\ new.below_floor = line.below_floor
      /\ new.margin = line.margin /\ new.sale_each = line.sale_each
      /\ new.extended = line.extended
  BY DEF LineOver, SameCost, Written
<1> HIDE DEF new
<1>2. ASSUME IsFreight(line) PROVE Settled(new, sheets, on)
  BY <1>1, <1>2 DEF Settled, IsFreight, SameCost
<1>3. ASSUME ~IsFreight(line) PROVE Settled(new, sheets, on)
  <2>1. ~IsFreight(new)
    BY <1>1, <1>3 DEF IsFreight
  <2>2. CostSettled(new, sheets, on)
    BY <1>1, <1>3 DEF Settled, CostSettled, SameCost, Unlisted, MultiplierOf, ListCost
  <2>3. AgeSettled(new, on)
    BY <1>1, <1>3 DEF Settled, AgeSettled, Old
  <2>4. MarginSettled(new, sheets, on)
    BY <1>1, <1>3 DEF Settled, MarginSettled, BandOf
  <2>5. SaleSettled(new)
    BY <1>1, <1>3 DEF Settled, SaleSettled, SaleEach, Base, SameCost
  <2>6. FloorSettled(new, sheets, on)
    BY <1>1, <1>3 DEF Settled, FloorSettled, Below, BandFor, BandOf
  <2>. QED BY <2>1, <2>2, <2>3, <2>4, <2>5, <2>6 DEF Settled
<1>. QED BY <1>1, <1>2, <1>3 DEF new, SameBut

\* Writing the subtotals leaves every sum as it was.
LEMMA SameSums ==
  ASSUME NEW X, NEW lines, lines = [i \in DOMAIN lines |-> lines[i]],
         \A i \in DOMAIN lines : lines[i] \in LineOver(X)
  PROVE  LET new == Totalled(lines)
         IN /\ DOMAIN new = DOMAIN lines
            /\ \A i \in DOMAIN lines : Subtotal(new, i) = Subtotal(lines, i)
<1> DEFINE new == Totalled(lines)
<1>1. DOMAIN new = DOMAIN lines
  BY DEF Totalled
<1>2. ASSUME NEW i \in DOMAIN lines
      PROVE  /\ new[i].group = lines[i].group /\ new[i].item = lines[i].item
             /\ new[i].opening_division = lines[i].opening_division
             /\ new[i].extended = lines[i].extended
  <2> DEFINE sub == Subtotal(lines, i)
  <2>1. new[i] = Written(lines[i], sub)
    BY DEF Totalled
  <2> HIDE DEF sub, new
  <2>2. lines[i] \in LineOver(X)
    OBVIOUS
  <2>. QED BY <2>1, <2>2 DEF LineOver, Written
<1> HIDE DEF new
<1>3. \A i \in DOMAIN lines : IsFreight(new[i]) = IsFreight(lines[i])
                             /\ Section(new[i]) = Section(lines[i])
  BY <1>2 DEF IsFreight, Section
<1>4. Goods(new) = Goods(lines)
  BY <1>1, <1>3 DEF Goods
<1>5. \A members : Extended(new, members) = Extended(lines, members)
  <2>1. [i \in DOMAIN new |-> new[i].extended] = [i \in DOMAIN lines |-> lines[i].extended]
    BY <1>1, <1>2
  <2>. QED BY <2>1 DEF Extended
<1>6. \A section : SectionTotal(new, section) = SectionTotal(lines, section)
  <2>1. ASSUME NEW section
        PROVE  {i \in Goods(new) : Section(new[i]) = section}
                 = {i \in Goods(lines) : Section(lines[i]) = section}
    BY <1>3, <1>4 DEF Goods
  <2>. QED BY <2>1, <1>5 DEF SectionTotal
<1>7. \A i \in DOMAIN lines : Subtotal(new, i) = Subtotal(lines, i)
  BY <1>3, <1>6 DEF Subtotal
<1>. QED BY <1>1, <1>7 DEF new

\* What assembling makes of the lines: each is settled and keeps what was entered.
LEMMA AssembledLines ==
  ASSUME NEW X, NEW lines, \A i \in DOMAIN lines : lines[i] \in LineOver(X),
         NEW sheets \in Sheet, NEW on \in Int
  PROVE  LET new == Totalled(Priced(lines, sheets, on))
         IN /\ DOMAIN new = DOMAIN lines
            /\ Totalled(new) = new
            /\ \A i \in DOMAIN lines :
                 /\ new[i] \in LineOver(Subtotals(new))
                 /\ Settled(new[i], sheets, on)
                 /\ new[i].group = lines[i].group /\ new[i].adders = lines[i].adders
                 /\ new[i].overridden = lines[i].overridden
                 /\ lines[i].cost > 0 => new[i].cost = lines[i].cost /\ new[i].source = lines[i].source
                 /\ lines[i].overridden => new[i].margin = lines[i].margin
<1> DEFINE priced == Priced(lines, sheets, on)
           new == Totalled(priced)
<1>1. DOMAIN priced = DOMAIN lines /\ DOMAIN new = DOMAIN lines
      /\ priced = [i \in DOMAIN priced |-> priced[i]]
  BY DEF Priced, Totalled
<1>2. ASSUME NEW i \in DOMAIN lines
      PROVE  /\ priced[i] \in LineOver(X) /\ SameTerms(priced[i], lines[i])
             /\ lines[i].cost > 0 =>
                  priced[i].cost = lines[i].cost /\ priced[i].source = lines[i].source
             /\ lines[i].overridden => priced[i].margin = lines[i].margin
             /\ Settled(priced[i], sheets, on)
  <2>1. priced[i] = PriceLine(lines[i], sheets, on)
    BY DEF Priced
  <2>. QED BY <2>1, PricedLine
<1> HIDE DEF priced
<1>3. ASSUME NEW i \in DOMAIN lines
      PROVE  /\ new[i] \in LineOver({Subtotal(priced, i)}) /\ new[i].subtotal = Subtotal(priced, i)
             /\ SameBut(new[i], priced[i]) /\ Settled(new[i], sheets, on)
  <2> DEFINE sub == Subtotal(priced, i)
             line == priced[i]
  <2>1. new[i] = Written(line, sub)
    BY <1>1 DEF Totalled
  <2>2. line \in LineOver(X) /\ Settled(line, sheets, on)
    BY <1>2
  <2> HIDE DEF sub, new, line
  <2>3. /\ Written(line, sub) \in LineOver({sub}) /\ Written(line, sub).subtotal = sub
        /\ SameBut(Written(line, sub), line) /\ Settled(Written(line, sub), sheets, on)
    BY <2>2, TotalledLine
  <2>. QED BY <2>1, <2>3 DEF sub, line
<1>4. ASSUME NEW i \in DOMAIN lines
      PROVE  new[i] \in LineOver(Subtotals(new))
  <2> HIDE DEF new
  <2>1. new[i].subtotal \in Subtotals(new)
    BY <1>1 DEF Subtotals
  <2> DEFINE Y == Subtotals(new)
  <2>2. new[i].subtotal \in Y
    BY <2>1
  <2> HIDE DEF Y
  <2>3. new[i] \in LineOver(Y)
    BY <1>3, <2>2 DEF LineOver
  <2>. QED BY <2>3 DEF Y
<1>5. \A i \in DOMAIN lines : Subtotal(new, i) = Subtotal(priced, i)
  BY <1>1, <1>2, SameSums
<1>6. Totalled(new) = new
  <2>1. ASSUME NEW i \in DOMAIN new
        PROVE  Written(new[i], Subtotal(new, i)) = new[i]
    <3> DEFINE line == new[i]
               sub == Subtotal(new, i)
    <3>1. line \in LineOver({sub}) /\ line.subtotal = sub
      BY <1>1, <1>3, <1>5
    <3> HIDE DEF line, sub
    <3>2. Written(line, sub) = line
      BY <3>1 DEF LineOver, Written
    <3>. QED BY <3>2 DEF line, sub
  <2>2. new = [i \in DOMAIN new |-> new[i]]
    BY DEF Totalled
  <2> HIDE DEF new
  <2>. QED BY <2>1, <2>2 DEF Totalled
<1> HIDE DEF new
<1>7. ASSUME NEW i \in DOMAIN lines
      PROVE  /\ new[i].group = lines[i].group /\ new[i].adders = lines[i].adders
             /\ new[i].overridden = lines[i].overridden
             /\ lines[i].cost > 0 => new[i].cost = lines[i].cost /\ new[i].source = lines[i].source
             /\ lines[i].overridden => new[i].margin = lines[i].margin
  BY <1>2, <1>3 DEF SameTerms, SameCost, SameBut
<1>. QED BY <1>1, <1>3, <1>4, <1>6, <1>7 DEF new, priced

\* Assembling an assembled quote again on the same day changes nothing at all; on any
\* later day the lines keep their costs, and where the margin is the estimator's the
\* price too.
THEOREM RecalculatingIsSafe == Spec => []RecalculationKeepsWhatWasEntered
<1>1. ASSUME AnswerAssemble PROVE RecalculationKeepsWhatWasEntered
  <2>1. PICK quote \in Quotes, sheets \in Sheets, on \in Days, later \in Days :
          /\ asked.quote = quote
          /\ answer.once = Assembled(quote, sheets, on)
          /\ answer.again = Assembled(Assembled(quote, sheets, on), sheets, on)
          /\ answer.later = Assembled(Assembled(quote, sheets, on), sheets, later)
    BY <1>1 DEF AnswerAssemble, Records
  <2>2. /\ quote \in Quote /\ sheets \in Sheet /\ on \in Int /\ later \in Int
        /\ \A i \in DOMAIN quote.lines : quote.lines[i] \in LineOver(Int)
    <3>1. quote \in Quote /\ sheets \in Sheet /\ on \in Int /\ later \in Int
      BY PricingAssumption
    <3>2. quote.lines \in Seq(QuoteLine)
      BY <3>1 DEF Quote
    <3>. QED BY <3>1, <3>2, LinesAreLines
  <2> DEFINE lines == Totalled(Priced(quote.lines, sheets, on))
             once == Assembled(quote, sheets, on)
             again == Assembled(once, sheets, on)
             after == Totalled(Priced(lines, sheets, later))
             last == Assembled(once, sheets, later)
             X == Subtotals(lines)
  <2>3. /\ DOMAIN lines = DOMAIN quote.lines /\ Totalled(lines) = lines
        /\ \A i \in DOMAIN quote.lines : lines[i] \in LineOver(X) /\ Settled(lines[i], sheets, on)
    <3> HIDE DEF lines
    <3>. QED BY <2>2, AssembledLines DEF lines
  <2>4. lines = [i \in DOMAIN lines |-> lines[i]]
    BY DEF Totalled
  <2>5. once.lines = lines /\ last.lines = after /\ again = once
    <3> DEFINE sale == Sale(lines)
               rate == Rate(quote, sheets, on)
               tax == TaxOf(quote, lines, sheets, on)
               total == Taxable(quote, lines) + TaxOf(quote, lines, sheets, on)
    <3>1. once = Summed(quote, lines, sale, rate, tax, total)
      BY AssembledInSteps
    <3> HIDE DEF lines, sale, rate, tax, total, once
    <3>2. /\ once.lines = lines /\ once.freight = quote.freight
          /\ once.jurisdiction = quote.jurisdiction
          /\ Summed(once, lines, sale, rate, tax, total) = once
      BY <2>2, <3>1, SummedQuote
    <3>3. Priced(lines, sheets, on) = lines
      <4>1. ASSUME NEW i \in DOMAIN lines PROVE PriceLine(lines[i], sheets, on) = lines[i]
        <5> HIDE DEF X
        <5>. QED BY <2>2, <2>3, SettledLine
      <4>. QED BY <2>4, <4>1 DEF Priced
    <3>4. again = Summed(once, lines, Sale(lines), Rate(once, sheets, on),
                         TaxOf(once, lines, sheets, on),
                         Taxable(once, lines) + TaxOf(once, lines, sheets, on))
      BY <2>3, <3>2, <3>3, AssembledInSteps, Zenon
    <3>5. Rate(once, sheets, on) = rate /\ TaxOf(once, lines, sheets, on) = tax
          /\ Taxable(once, lines) + TaxOf(once, lines, sheets, on) = total
      BY <3>2, Zenon DEF Rate, TaxOf, Taxable, rate, tax, total
    <3>6. again = once
      BY <3>2, <3>4, <3>5, Zenon DEF sale
    <3>7. last.lines = after
      <4>1. last = Summed(once, after, Sale(after), Rate(once, sheets, later),
                          TaxOf(once, after, sheets, later),
                          Taxable(once, after) + TaxOf(once, after, sheets, later))
        BY <3>2, AssembledInSteps, Zenon
      <4>2. once = [once EXCEPT !.lines = lines]  /\ DOMAIN once = DOMAIN quote
        BY <2>2, <3>1 DEF Summed, Quote
      <4>3. "lines" \in DOMAIN once
        BY <2>2, <4>2 DEF Quote
      <4> HIDE DEF after
      <4>. QED BY <4>1, <4>3 DEF Summed
    <3>. QED BY <3>2, <3>6, <3>7
  <2>6. \A i \in DOMAIN lines :
          /\ Settled(after[i], sheets, later)
          /\ after[i].group = lines[i].group /\ after[i].adders = lines[i].adders
          /\ after[i].overridden = lines[i].overridden
          /\ lines[i].cost > 0 => after[i].cost = lines[i].cost /\ after[i].source = lines[i].source
          /\ lines[i].overridden => after[i].margin = lines[i].margin
    <3>1. \A i \in DOMAIN lines : lines[i] \in LineOver(X)
      BY <2>3
    <3> HIDE DEF lines, X
    <3>. QED BY <2>2, <3>1, AssembledLines
  <2> HIDE DEF once, again, last, lines, after, X
  <2>7. ASSUME NEW i \in DOMAIN lines, lines[i].overridden, lines[i].cost > 0
        PROVE  after[i].sale_each = lines[i].sale_each
    <3>1. /\ after[i].cost = lines[i].cost /\ after[i].margin = lines[i].margin
          /\ after[i].adders = lines[i].adders /\ after[i].group = lines[i].group
          /\ Settled(after[i], sheets, later) /\ Settled(lines[i], sheets, on)
      BY <2>3, <2>6, <2>7
    <3>2. CASE IsFreight(lines[i])
      BY <3>1, <3>2 DEF Settled, IsFreight
    <3>3. CASE ~IsFreight(lines[i])
      <4>1. SaleEach(after[i]) = SaleEach(lines[i])
        BY <3>1 DEF SaleEach, Base
      <4>2. after[i].sale_each = SaleEach(after[i]) /\ lines[i].sale_each = SaleEach(lines[i])
        BY <3>1, <3>3 DEF Settled, IsFreight, SaleSettled
      <4>. QED BY <4>1, <4>2
    <3>. QED BY <3>2, <3>3
  <2>8. /\ answer.again = answer.once /\ answer.once.lines = lines
        /\ answer.later.lines = after /\ DOMAIN asked.quote.lines = DOMAIN lines
    BY <2>1, <2>3, <2>5 DEF once, again, last
  <2>. QED BY <2>6, <2>7, <2>8 DEF RecalculationKeepsWhatWasEntered
<1>2. Answered => RecalculationKeepsWhatWasEntered
  BY <1>1, Topics DEF RecalculationKeepsWhatWasEntered
<1>. QED BY <1>2, EveryAnswer, PTL

(***************************************************************************)
(* What a line sells for.                                                  *)
(***************************************************************************)
\* A line that is not freight sells for the cost and adders it was priced on, divided by
\* what its margin leaves, to within the rounding of one unit price.
THEOREM MarginsAreEarned == Spec => []MarginIsEarned
<1>1. ASSUME AnswerPrice, asked.line.group # "FREIGHT"
      PROVE  LET kept == answer.sale_each * (ONE - answer.margin)
                 spent == (answer.cost + 100 * HalfUp(asked.line.adders, 100)) * ONE
             IN 2 * Distance(kept, spent) <= ONE - answer.margin
  <2>1. PICK line \in Lines, sheets \in Sheets, on \in Days :
          asked.line = line /\ answer = PriceLine(line, sheets, on)
    BY <1>1 DEF AnswerPrice, Records
  <2>2. line \in LineOver(Int) /\ sheets \in Sheet /\ on \in Int /\ ~IsFreight(line)
    BY <1>1, <2>1, PricingAssumption, LinesAreLines DEF IsFreight
  <2>3. answer \in LineOver(Int) /\ SameTerms(answer, line) /\ Settled(answer, sheets, on)
    BY <2>1, <2>2, PricedLine
  <2>4. answer.adders = asked.line.adders /\ ~IsFreight(answer)
    BY <2>1, <2>2, <2>3 DEF SameTerms, IsFreight
  <2>5. answer.sale_each = SaleEach(answer)
    BY <2>3, <2>4 DEF Settled, SaleSettled
  <2> DEFINE left == ONE - answer.margin
             spent == Base(answer) * ONE
             each == SaleEach(answer)
  <2>6. left \in Int /\ left > 0 /\ spent \in Int /\ each = HalfUp(spent, left)
    BY <2>3, SaleIsInt, OneIsPositive DEF SaleEach
  <2>7. spent = (answer.cost + 100 * HalfUp(asked.line.adders, 100)) * ONE
    BY <2>4 DEF Base
  <2>8. answer.sale_each * (ONE - answer.margin) = each * left
    BY <2>5
  <2> HIDE DEF left, spent, each
  <2>9. 2 * (each * left - spent) <= left /\ 2 * (spent - each * left) <= left
        /\ each * left \in Int
    BY <2>6, RoundedHalfUp
  <2> DEFINE kept == each * left
  <2>10. 2 * Distance(kept, spent) <= left
    <3>1. kept \in Int /\ 2 * (kept - spent) <= left /\ 2 * (spent - kept) <= left
      BY <2>9
    <3> HIDE DEF kept
    <3>. QED BY <2>6, <3>1 DEF Distance
  <2>. QED BY <2>7, <2>8, <2>10 DEF left
<1>2. Answered => MarginIsEarned
  BY <1>1, Topics DEF MarginIsEarned
<1>. QED BY <1>2, EveryAnswer, PTL

LEMMA OverriddenLine ==
  ASSUME NEW X, NEW line \in LineOver(X), NEW margin \in Margin
  PROVE  LET new == Override(line, margin)
         IN /\ new \in LineOver(X) /\ new.overridden = TRUE /\ new.margin = margin
            /\ new.group = line.group /\ new.item = line.item /\ new.band = line.band
  BY DEF LineOver, Override

UnderFloor(margin, band) == band # NULL /\ band.floor # NULL /\ margin < band.floor

\* A line that is overridden and priced is flagged exactly when its margin is below the
\* floor of the band it was priced from, or else of the one in force.
LEMMA FlaggedLine ==
  ASSUME NEW line \in LineOver(Int), NEW margin \in Margin, NEW sheets \in Sheet, NEW on \in Int,
         ~IsFreight(line)
  PROVE  LET new == PriceLine(Override(line, margin), sheets, on)
             band == BandFor(line, sheets, on)
         IN /\ UnderFloor(margin, band) => new.below_floor = TRUE
            /\ ~UnderFloor(margin, band) => new.below_floor = FALSE
<1> DEFINE given == Override(line, margin)
           new == PriceLine(given, sheets, on)
           band == BandFor(line, sheets, on)
<1>1. /\ given \in LineOver(Int) /\ given.overridden = TRUE /\ given.margin = margin
      /\ given.group = line.group /\ given.item = line.item /\ given.band = line.band
  BY OverriddenLine
<1> HIDE DEF given
<1>2. /\ SameTerms(new, given) /\ new.margin = margin /\ new.band = line.band
      /\ Settled(new, sheets, on)
  BY <1>1, PricedLine
<1> HIDE DEF new
<1>3. ~IsFreight(new) /\ BandOf(new, sheets, on) = BandOf(line, sheets, on)
  BY <1>1, <1>2 DEF IsFreight, SameTerms, BandOf
<1>4. BandFor(new, sheets, on) = band
  BY <1>2, <1>3 DEF BandFor
<1> HIDE DEF band
<1>5. Below(new, sheets, on) <=> UnderFloor(margin, band)
  BY <1>2, <1>4 DEF Below, UnderFloor
<1>. QED BY <1>2, <1>3, <1>5 DEF Settled, FloorSettled, new, given, band

Current(line, sheets, on) ==
  {r \in BandRows(line, sheets, on) : ~\E s \in BandRows(line, sheets, on) : s.from > r.from}

\* The rows in force that no other supersedes are the one the engine looks up, or none.
LEMMA CurrentBand ==
  ASSUME NEW line, NEW sheets \in Sheets, NEW on \in Int
  PROVE  LET band == BandOf(line, sheets, on)
         IN Current(line, sheets, on) = IF band = NULL THEN {} ELSE {band}
<1> DEFINE rows == BandRows(line, sheets, on)
           band == BandOf(line, sheets, on)
<1>1. rows \subseteq sheets.bands /\ sheets.bands \subseteq MarginBand
  BY PricingAssumption DEF Sheet, BandRows
<1>2. \A r \in rows : r \in MarginBand /\ r.from \in Int /\ r.from <= on /\ r.key = line.item.band
  BY <1>1 DEF MarginBand, BandRows
<1>3. line.item = NULL => rows = {} /\ band = NULL
  BY DEF BandRows, BandOf
<1>4. line.item # NULL => band = Newest(rows)
  BY DEF BandRows, BandOf, InForce
<1>5. CASE rows = {}
  BY <1>3, <1>4, <1>5 DEF Newest, Current
<1>6. CASE rows # {}
  <2>1. band = Newest(rows)
    BY <1>3, <1>4, <1>6
  <2>2. \A r, s \in rows : r.from = s.from => r = s
    <3>1. \A r, s \in sheets.bands : r.key = s.key /\ r.from = s.from => r = s
      BY PricingAssumption
    <3>. QED BY <1>1, <1>2, <3>1
  <2>3. Current(line, sheets, on) = {r \in rows : ~\E s \in rows : s.from > r.from}
    BY DEF Current
  <2> HIDE DEF rows, band
  <2>4. band \in rows /\ \A s \in rows : s.from <= band.from
    BY <1>2, <1>6, <2>1, NewestApplies
  <2>5. band # NULL
    BY <1>2, <2>4, PricingAssumption
  <2>6. \A r \in rows : (~\E s \in rows : s.from > r.from) <=> r = band
    BY <1>2, <2>2, <2>4
  <2>7. Current(line, sheets, on) = {band}
    BY <2>3, <2>4, <2>6
  <2>. QED BY <2>5, <2>7 DEF band
<1>. QED BY <1>5, <1>6

\* A margin lies below the floor of the engine's band exactly when it lies below one of
\* the bands that band stands for.
LEMMA OneBandCounts ==
  ASSUME NEW margin, NEW bands, NEW band, bands = IF band = NULL THEN {} ELSE {band}
  PROVE  (\E r \in bands : r.floor # NULL /\ margin < r.floor) <=> UnderFloor(margin, band)
BY DEF UnderFloor

\* Overridden before or after it is priced, a line's flag is raised exactly when its
\* margin lies below the floor of the band that counts for it.
THEOREM FloorsAreChecked == Spec => []FloorFlagIsExact
<1>1. ASSUME AnswerOverride, asked.line.group # "FREIGHT"
      PROVE  FloorFlagIsExact
  <2>1. PICK line \in Lines, margin \in Margins, sheets \in Sheets, on \in Days :
          /\ asked.line = line /\ asked.margin = margin /\ asked.sheets = sheets /\ asked.on = on
          /\ answer.before = PriceLine(Override(line, margin), sheets, on)
          /\ answer.after = PriceLine(Override(PriceLine(line, sheets, on), margin), sheets, on)
    BY <1>1 DEF AnswerOverride, Records
  <2>2. /\ line \in LineOver(Int) /\ sheets \in Sheet /\ on \in Int /\ ~IsFreight(line)
        /\ margin \in Margin
    BY <1>1, <2>1, PricingAssumption, LinesAreLines DEF IsFreight
  <2> DEFINE first == PriceLine(line, sheets, on)
             band == BandOf(line, sheets, on)
             current == Current(line, sheets, on)
             held == {line.band} \ {NULL}
             own == IF held # {} THEN held ELSE current
             priced == IF current # {} /\ ~line.overridden THEN current ELSE own
             Lower(bands) == \E r \in bands : r.floor # NULL /\ margin < r.floor
  <2>3. /\ first \in LineOver(Int) /\ SameTerms(first, line) /\ Settled(first, sheets, on)
        /\ line.overridden => first.band = line.band
        /\ band = NULL => first.band = line.band
    BY <2>2, PricedLine
  <2> HIDE DEF first
  <2>4. ~IsFreight(first) /\ BandOf(first, sheets, on) = band
        /\ first.overridden = line.overridden
    BY <2>2, <2>3 DEF IsFreight, SameTerms, BandOf
  <2> HIDE DEF band
  <2>5. ~line.overridden /\ band # NULL => first.band = band
    BY <2>3, <2>4 DEF Settled, MarginSettled
  <2>6. current = IF band = NULL THEN {} ELSE {band}
    BY <2>1, <2>2, CurrentBand DEF band
  <2> HIDE DEF current
  <2>7. own = IF BandFor(line, sheets, on) = NULL THEN {} ELSE {BandFor(line, sheets, on)}
    BY <2>6 DEF BandFor, band
  <2>8. priced = IF BandFor(first, sheets, on) = NULL THEN {} ELSE {BandFor(first, sheets, on)}
    <3>1. BandFor(first, sheets, on) = IF first.band # NULL THEN first.band ELSE band
      BY <2>4 DEF BandFor
    <3>. QED BY <2>3, <2>5, <2>6, <3>1
  <2> HIDE DEF own, priced
  <2>9. /\ Lower(own) => answer.before.below_floor = TRUE
        /\ ~Lower(own) => answer.before.below_floor = FALSE
    <3>1. Lower(own) <=> UnderFloor(margin, BandFor(line, sheets, on))
      BY <2>7, OneBandCounts
    <3>. QED BY <2>1, <2>2, <3>1, FlaggedLine
  <2>10. /\ Lower(priced) => answer.after.below_floor = TRUE
         /\ ~Lower(priced) => answer.after.below_floor = FALSE
    <3>1. Lower(priced) <=> UnderFloor(margin, BandFor(first, sheets, on))
      BY <2>8, OneBandCounts
    <3>2. answer.after = PriceLine(Override(first, margin), sheets, on)
      BY <2>1 DEF first
    <3>. QED BY <2>2, <2>3, <2>4, <3>1, <3>2, FlaggedLine
  <2>11. answer.before.below_floor = Lower(own) /\ answer.after.below_floor = Lower(priced)
    BY Zenon, <2>9, <2>10
  <2>. QED BY <2>1, <2>11 DEF FloorFlagIsExact, Current, current, held, own, priced
<1>2. Answered => FloorFlagIsExact
  BY <1>1, Topics DEF FloorFlagIsExact
<1>. QED BY <1>2, EveryAnswer, PTL

(***************************************************************************)
(* The tax.                                                                *)
(***************************************************************************)
\* Whatever the table holds, only Ohio and Kentucky are taxed, at a rate in force that
\* none in force supersedes.
THEOREM OnlyTheTwoAreTaxed == Spec => []TaxedOnlyWhereDue
<1>1. ASSUME AnswerAssemble PROVE TaxedOnlyWhereDue
  <2>1. PICK quote \in Quotes, sheets \in Sheets, on \in Days :
          /\ asked.quote = quote /\ asked.sheets = sheets /\ asked.on = on
          /\ answer.once = Assembled(quote, sheets, on)
    BY <1>1 DEF AnswerAssemble, Records
  <2>2. quote \in Quote /\ sheets \in Sheet /\ on \in Int
    BY PricingAssumption
  <2> DEFINE code == Upper(quote.jurisdiction)
             inForce == {r \in sheets.tax : r.key = code /\ r.from <= on}
             row == TaxRow(sheets, quote.jurisdiction, on)
             lines == Totalled(Priced(quote.lines, sheets, on))
  <2>3. /\ answer.once.rate = Rate(quote, sheets, on)
        /\ answer.once.tax = TaxOf(quote, lines, sheets, on)
    <3> DEFINE sale == Sale(lines)
               rate == Rate(quote, sheets, on)
               tax == TaxOf(quote, lines, sheets, on)
               total == Taxable(quote, lines) + TaxOf(quote, lines, sheets, on)
    <3>1. answer.once = Summed(quote, lines, sale, rate, tax, total)
      BY <2>1, AssembledInSteps
    <3> HIDE DEF lines, sale, rate, tax, total
    <3>2. answer.once.rate = rate /\ answer.once.tax = tax
      BY <2>2, <3>1, SummedQuote
    <3>. QED BY <3>2 DEF rate, tax
  <2>4. CASE code \in {"OH", "KY"} /\ inForce # {}
    <3>1. row = Newest(inForce)
      BY <2>4 DEF TaxRow, InForce, TAXABLE_JURISDICTIONS
    <3>2. inForce \subseteq TaxRate /\ \A r \in inForce : r.from \in Int /\ r.from <= on
      BY <2>2 DEF Sheet, TaxRate
    <3>3. row \in inForce /\ \A s \in inForce : s.from <= row.from
      <4> HIDE DEF inForce, row
      <4>. QED BY <2>2, <2>4, <3>1, <3>2, NewestApplies
    <3>4. row # NULL
      <4> HIDE DEF inForce, row
      <4>. QED BY <3>2, <3>3, PricingAssumption
    <3>5. answer.once.rate = row.rate
      BY <2>3, <3>4 DEF Rate
    <3>6. ~\E s \in inForce : s.from > row.from
      <4> HIDE DEF inForce, row
      <4>. QED BY <3>2, <3>3
    <3> HIDE DEF row
    <3>. QED BY <2>1, <2>4, <3>3, <3>5, <3>6 DEF TaxedOnlyWhereDue
  <2>5. CASE ~(code \in {"OH", "KY"} /\ inForce # {})
    <3>1. row = NULL
      BY <2>5 DEF TaxRow, InForce, TAXABLE_JURISDICTIONS, Newest
    <3>2. answer.once.rate = NULL /\ answer.once.tax = 0
      BY <2>3, <3>1 DEF Rate, TaxOf
    <3>. QED BY <2>1, <2>5, <3>2 DEF TaxedOnlyWhereDue
  <2>. QED BY <2>4, <2>5
<1>2. Answered => TaxedOnlyWhereDue
  BY <1>1, Topics DEF TaxedOnlyWhereDue
<1>. QED BY <1>2, EveryAnswer, PTL


(***************************************************************************)
(* The sums.                                                               *)
(***************************************************************************)
\* Lines that carry their sections' totals add up, block by block, to the sale.
LEMMA BlocksAddUp ==
  ASSUME NEW X, NEW lines, IsFiniteSet(DOMAIN lines),
         \A i \in DOMAIN lines : lines[i] \in LineOver(X) /\ lines[i].subtotal = Subtotal(lines, i)
  PROVE  LET blocks == {[section |-> Section(lines[i]), subtotal |-> lines[i].subtotal]
                         : i \in Goods(lines)}
         IN SumFunctionOnSet([b \in blocks |-> b.subtotal], blocks) = Sale(lines)
<1> DEFINE f == [i \in DOMAIN lines |-> lines[i].extended]
           S == Goods(lines)
           block == [i \in S |-> [section |-> Section(lines[i]), subtotal |-> lines[i].subtotal]]
           blocks == {[section |-> Section(lines[i]), subtotal |-> lines[i].subtotal]
                        : i \in Goods(lines)}
           total == [b \in blocks |-> b.subtotal]
<1>1. IsFiniteSet(S) /\ S \subseteq DOMAIN lines
  <2>1. S \in SUBSET (DOMAIN lines)
    BY DEF Goods
  <2> HIDE DEF S
  <2>. QED BY <2>1, FS_Subset
<1>2. Totals(f, S)
  <2>1. \A i \in DOMAIN lines : lines[i].extended \in Int
    BY DEF LineOver
  <2>. QED BY <1>1, <2>1 DEF Totals
<1>3. blocks = {block[i] : i \in S} /\ S \subseteq DOMAIN block /\ blocks \subseteq DOMAIN total
  OBVIOUS
<1>4. ASSUME NEW b \in blocks
      PROVE  total[b] = SumFunctionOnSet(f, {i \in S : block[i] = b})
  <2>1. PICK j \in S : b = [section |-> Section(lines[j]), subtotal |-> lines[j].subtotal]
    OBVIOUS
  <2>2. \A i \in S : lines[i].subtotal = SectionTotal(lines, Section(lines[i]))
    BY <1>1 DEF Subtotal, Goods
  <2>3. \A i \in S : block[i] = b <=> Section(lines[i]) = Section(lines[j])
    BY <2>1, <2>2
  <2>4. {i \in S : block[i] = b} = {i \in Goods(lines) : Section(lines[i]) = Section(lines[j])}
    BY <2>3
  <2>5. total[b] = SectionTotal(lines, Section(lines[j]))
    BY <2>1, <2>2
  <2> HIDE DEF block, blocks, total
  <2>. QED BY <2>4, <2>5 DEF SectionTotal, Extended
<1> HIDE DEF f, S, block, blocks, total
<1>5. SumFunctionOnSet(total, blocks) = SumFunctionOnSet(f, S)
  BY <1>1, <1>2, <1>3, <1>4, SumOfBlocks
<1>. QED BY <1>5 DEF f, S, blocks, total, Sale, Extended

\* For every quote, of any length and sections: the subtotals of its blocks, and its lines
\* other than freight, add up to its subtotal, and that, its freight and its tax to its
\* total (assemble_quote).
THEOREM QuotesAddUp == Spec => []TotalsAddUp
<1>1. ASSUME AnswerAssemble PROVE TotalsAddUp
  <2>1. PICK quote \in Quotes, sheets \in Sheets, on \in Days :
          asked.quote = quote /\ answer.once = Assembled(quote, sheets, on)
    BY <1>1 DEF AnswerAssemble, Records
  <2>2. /\ quote \in Quote /\ sheets \in Sheet /\ on \in Int /\ IsFiniteSet(DOMAIN quote.lines)
        /\ \A i \in DOMAIN quote.lines : quote.lines[i] \in LineOver(Int)
    <3>1. quote \in Quote /\ sheets \in Sheet /\ on \in Int
      BY PricingAssumption
    <3>2. quote.lines \in Seq(QuoteLine)
      BY <3>1 DEF Quote
    <3>3. DOMAIN quote.lines = 1..Len(quote.lines) /\ Len(quote.lines) \in Nat
      <4>1. \A S : \A s \in Seq(S) : DOMAIN s = 1..Len(s) /\ Len(s) \in Nat
        OBVIOUS
      <4>. QED BY <3>2, <4>1
    <3>4. IsFiniteSet(1..Len(quote.lines))
      <4>1. \A n \in Nat : IsFiniteSet(1..n)
        BY FS_Interval
      <4>. QED BY <3>3, <4>1
    <3>5. \A i \in DOMAIN quote.lines : quote.lines[i] \in QuoteLine
      BY <3>2
    <3>. QED BY <3>1, <3>3, <3>4, <3>5, LinesAreLines
  <2> DEFINE lines == Totalled(Priced(quote.lines, sheets, on))
             X == Subtotals(lines)
             sale == Sale(lines)
             rate == Rate(quote, sheets, on)
             tax == TaxOf(quote, lines, sheets, on)
             total == Taxable(quote, lines) + tax
             freight == IF quote.freight = NULL THEN 0 ELSE quote.freight
             blocks == {[section |-> Section(lines[i]), subtotal |-> lines[i].subtotal]
                          : i \in Goods(lines)}
  <2>3. /\ DOMAIN lines = DOMAIN quote.lines /\ Totalled(lines) = lines
        /\ \A i \in DOMAIN quote.lines : lines[i] \in LineOver(X)
    <3> HIDE DEF lines
    <3>. QED BY <2>2, AssembledLines DEF lines
  <2>4. /\ answer.once.lines = lines /\ answer.once.subtotal_sale = sale
        /\ answer.once.tax = tax /\ answer.once.total = total
    <3>1. answer.once = Summed(quote, lines, sale, rate, tax, total)
      BY <2>1, AssembledInSteps
    <3> HIDE DEF lines, sale, rate, tax, total
    <3>. QED BY <2>2, <3>1, SummedQuote
  <2>5. total = sale + freight + tax
    <3> HIDE DEF lines, tax
    <3>. QED BY DEF Taxable
  <2> HIDE DEF lines
  <2>6. \A i \in DOMAIN lines : lines[i].subtotal = Subtotal(lines, i)
    <3>1. ASSUME NEW i \in DOMAIN lines PROVE lines[i].subtotal = Subtotal(lines, i)
      <4>1. lines[i] = Written(lines[i], Subtotal(lines, i))
        BY <2>3 DEF Totalled
      <4>2. lines[i] \in LineOver(X)
        BY <2>3
      <4> HIDE DEF X
      <4>3. "subtotal" \in DOMAIN lines[i]
        BY <4>2 DEF LineOver
      <4>. QED BY <4>1, <4>3 DEF Written
    <3>. QED BY <3>1
  <2>7. SumFunctionOnSet([b \in blocks |-> b.subtotal], blocks) = sale
    <3>1. IsFiniteSet(DOMAIN lines) /\ \A i \in DOMAIN lines : lines[i] \in LineOver(X)
      BY <2>2, <2>3
    <3> HIDE DEF X
    <3>. QED BY <2>6, <3>1, BlocksAddUp
  <2>8. Goods(lines) = {i \in DOMAIN lines : lines[i].group # "FREIGHT"}
    BY DEF Goods, IsFreight
  <2>9. \A i \in DOMAIN lines \ Goods(lines) : lines[i].subtotal = 0
    BY <2>6 DEF Goods, Subtotal
  <2>10. Extended(lines, Goods(lines)) = sale
    BY DEF Sale
  <2> HIDE DEF sale, tax, total, blocks
  <2>. QED BY <2>1, <2>4, <2>5, <2>7, <2>8, <2>9, <2>10 DEF TotalsAddUp, blocks
<1>2. Answered => TotalsAddUp
  BY <1>1, Topics DEF TotalsAddUp
<1>. QED BY <1>2, EveryAnswer, PTL
=============================================================================
