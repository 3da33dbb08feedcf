------------------------------ MODULE Pricing ------------------------------
(***************************************************************************)
(* The pricing engine: what a line costs, what it sells for, and what a    *)
(* quote adds up to.  Pure operators over lines, a quote and the           *)
(* effective-dated sheets.  Unit prices and rates are in ten-thousandths,  *)
(* money is in cents, quantities in hundredths, days are numbers.          *)
(***************************************************************************)
EXTENDS Integers, Sequences, FiniteSetsExt

CONSTANTS
  NULL,
  Freshness    \* days a cost stays fresh (COST_FRESHNESS_MONTHS * 30)

ONE == 10000

(***************************************************************************)
(* The rows.  A margin divides, so the database keeps it below one.        *)
(***************************************************************************)
Margin == {m \in Int : m < ONE}

Multiplier == [key : STRING, from : Int, rate : Int]
MarginBand == [key : STRING, from : Int, rate : Margin, floor : Int \cup {NULL}]
TaxRate == [key : STRING, from : Int, rate : Int]
Sheet == [multipliers : SUBSET Multiplier, bands : SUBSET MarginBand, tax : SUBSET TaxRate]

CostSource == {"P21_LAST_PO", "DISTRIBUTOR_SHEET", "MFR_LIST", "VENDOR_RFQ", "MANUAL"}

CatalogItem == [vendor : STRING, list : Int \cup {NULL}, band : STRING,
                division : STRING \cup {NULL}]

QuoteLine == [group : STRING, item : CatalogItem \cup {NULL}, cost : Int, quantity : Int,
              adders : Int, opening_division : STRING \cup {NULL}, source : CostSource,
              dated : Int \cup {NULL}, stale : BOOLEAN, margin : Margin, overridden : BOOLEAN,
              band : MarginBand \cup {NULL}, below_floor : BOOLEAN, sale_each : Int,
              extended : Int, subtotal : Int, needs_review : BOOLEAN]

Quote == [lines : Seq(QuoteLine), freight : Int \cup {NULL},
          jurisdiction : STRING \cup {NULL}, subtotal_sale : Int,
          rate : Int \cup {NULL}, tax : Int, total : Int]

\* quantize(..., ROUND_HALF_UP): to the nearest, a tie away from zero.
HalfUp(n, d) == IF n >= 0 THEN (2 * n + d) \div (2 * d) ELSE -((d - 2 * n) \div (2 * d))

(***************************************************************************)
(* The sheets: rows of a key, a date and what is in force from that date.  *)
(***************************************************************************)
\* (Variant, to test the checks: the oldest row in force.)
Oldest(rows) ==
  IF rows = {} THEN NULL ELSE CHOOSE r \in rows : \A s \in rows : r.from <= s.from

Newest(rows) ==
  IF rows = {} THEN NULL ELSE CHOOSE r \in rows : \A s \in rows : s.from <= r.from

InForce(sheet, key, on) == Newest({r \in sheet : r.key = key /\ r.from <= on})

TAXABLE_JURISDICTIONS == {"OH", "KY"}
Upper(j) == CASE j = "oh" -> "OH" [] j = "ky" -> "KY" [] OTHER -> j

TaxRow(sheets, jurisdiction, on) ==
  IF Upper(jurisdiction) \notin TAXABLE_JURISDICTIONS THEN NULL
  ELSE InForce(sheets.tax, Upper(jurisdiction), on)

(***************************************************************************)
(* One line.                                                               *)
(***************************************************************************)
\* (Variant, to test the checks: every pricing runs the waterfall again.)
Resourced(line, sheets, on) ==
  IF line.item = NULL \/ line.item.list = NULL
  THEN [line EXCEPT !.source = "MANUAL", !.needs_review = TRUE]
  ELSE LET row == InForce(sheets.multipliers, line.item.vendor, on)
       IN [line EXCEPT !.source = "MFR_LIST",
                       !.cost = IF row = NULL THEN line.item.list * 100
                                ELSE HalfUp(line.item.list * row.rate, 100),
                       !.needs_review = @ \/ row = NULL]

\* The waterfall: a cost on the line stays; else list times multiplier, else bare
\* list price with a flag, else the estimator.  The lookup in P21 finds nothing.
Sourced(line, sheets, on) ==
  CASE line.cost > 0 -> line
    [] line.cost <= 0 /\ (line.item = NULL \/ line.item.list = NULL) ->
         [line EXCEPT !.source = "MANUAL", !.needs_review = TRUE]
    [] OTHER ->
         LET row == InForce(sheets.multipliers, line.item.vendor, on)
         IN [line EXCEPT !.source = "MFR_LIST",
                         !.cost = IF row = NULL THEN line.item.list * 100
                                  ELSE HalfUp(line.item.list * row.rate, 100),
                         !.needs_review = @ \/ row = NULL]

Aged(line, on) ==
  [line EXCEPT !.stale = line.dated # NULL /\ line.dated < on - Freshness]

BandOf(line, sheets, on) ==
  IF line.item = NULL THEN NULL ELSE InForce(sheets.bands, line.item.band, on)

Margined(line, sheets, on) ==
  IF line.overridden \/ BandOf(line, sheets, on) = NULL THEN line
  ELSE [line EXCEPT !.band = BandOf(line, sheets, on), !.margin = BandOf(line, sheets, on).rate]

\* Adders are operator-entered amounts; their total is rounded to cents.
Base(line) == line.cost + 100 * HalfUp(line.adders, 100)

\* (Variant, to test the checks: the margin is added on top of the cost.)
MarkedUp(line) == HalfUp(Base(line) * (ONE + line.margin), ONE)

\* The margin is a divisor, not a markup.  The database keeps it below one, so the
\* refusal of a margin of 100 % is never met.
SaleEach(line) == HalfUp(Base(line) * ONE, ONE - line.margin)

\* (Variant, to test the checks: only the band a line was priced from counts.)
OwnBand(line, sheets, on) ==
  [line EXCEPT !.below_floor = line.band # NULL /\ line.band.floor # NULL
                               /\ line.margin < line.band.floor]

FloorChecked(line, sheets, on) ==
  LET band == IF line.band # NULL THEN line.band ELSE BandOf(line, sheets, on)
  IN [line EXCEPT !.below_floor = band # NULL /\ band.floor # NULL /\ line.margin < band.floor]

\* An estimator's margin, which pricing then leaves alone.
Override(line, margin) == [line EXCEPT !.margin = margin, !.overridden = TRUE]

IsFreight(line) == line.group = "FREIGHT"

\* price_line.  Freight is carried, never computed; a quantity of zero reads as one.
PriceLine(line, sheets, on) ==
  IF IsFreight(line)
  THEN [line EXCEPT !.sale_each = line.cost,
                    !.extended = HalfUp(line.cost * (IF line.quantity = 0 THEN 100 ELSE line.quantity), ONE)]
  ELSE LET costed == Margined(Aged(Sourced(line, sheets, on), on), sheets, on)
           sold == [costed EXCEPT !.sale_each = SaleEach(costed),
                                  !.extended = HalfUp(SaleEach(costed) * costed.quantity, ONE)]
       IN FloorChecked(sold, sheets, on)

(***************************************************************************)
(* The quote.                                                              *)
(***************************************************************************)
\* The block a line subtotals under: the catalogue's section, else the opening's,
\* else its own group.
Section(line) ==
  CASE line.item # NULL /\ line.item.division # NULL -> line.item.division
    [] (line.item = NULL \/ line.item.division = NULL) /\ line.opening_division # NULL ->
         line.opening_division
    [] OTHER -> line.group

\* (Variant, to test the checks: the freight line is one of the goods.)
EveryLine(lines) == DOMAIN lines

Goods(lines) == {i \in DOMAIN lines : ~IsFreight(lines[i])}

Extended(lines, members) ==
  SumFunctionOnSet([i \in DOMAIN lines |-> lines[i].extended], members)

SectionTotal(lines, section) ==
  Extended(lines, {i \in Goods(lines) : Section(lines[i]) = section})

\* assemble_quote: every line is priced, sections subtotalled, tax and total derived.
Assembled(quote, sheets, on) ==
  LET priced == [i \in DOMAIN quote.lines |-> PriceLine(quote.lines[i], sheets, on)]
      lines == [i \in DOMAIN priced |->
                  [priced[i] EXCEPT !.subtotal = IF IsFreight(priced[i]) THEN 0
                                                 ELSE SectionTotal(priced, Section(priced[i]))]]
      sale == Extended(lines, Goods(lines))
      taxable == sale + (IF quote.freight = NULL THEN 0 ELSE quote.freight)
      row == TaxRow(sheets, quote.jurisdiction, on)
      tax == IF row = NULL THEN 0 ELSE HalfUp(taxable * row.rate, ONE)
  IN [quote EXCEPT !.lines = lines, !.subtotal_sale = sale,
                   !.rate = IF row = NULL THEN NULL ELSE row.rate,
                   !.tax = tax, !.total = taxable + tax]
=============================================================================
