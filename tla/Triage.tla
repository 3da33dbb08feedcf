------------------------------- MODULE Triage -------------------------------
(***************************************************************************)
(* Page triage: what a page is, by the tiers cheapest first, and the route *)
(* the table gives it.  Pure operators.  A page is its word and path       *)
(* counts, the class its bookmark and its title block name (NULL for       *)
(* none), and the anchors its native text repeats.  Scores are in          *)
(* ten-thousandths.                                                        *)
(***************************************************************************)
EXTENDS Integers, FiniteSetsExt

CONSTANT NULL

Schedules == {"DOOR_SCHEDULE", "HARDWARE_SCHEDULE", "FRAME_SCHEDULE", "FINISH_SCHEDULE"}
PageClass == Schedules \cup {"SPEC_TEXT", "DRAWING", "TITLE", "INDEX", "UNKNOWN"}

(***************************************************************************)
(* The routing table as shipped.                                           *)
(***************************************************************************)
Shipped ==
  [vector_outlined_max_words |-> 20, vector_outlined_min_paths |-> 500,
   rich_text_min_words |-> 50, drawing_min_vector_paths |-> 500,
   min_keyword_confidence |-> 5500,
   routes |-> [c \in PageClass |->
     CASE c \in Schedules -> [route |-> "TEXTRACT_TABLES", native |-> NULL]
       [] c = "SPEC_TEXT" -> [route |-> "TEXTRACT_TEXT", native |-> "NATIVE_TEXT"]
       [] OTHER -> [route |-> "SKIP", native |-> NULL]]]

(***************************************************************************)
(* Probing.                                                                *)
(***************************************************************************)
TextLayer(page, table) ==
  CASE /\ page.words < table.vector_outlined_max_words
       /\ page.paths > table.vector_outlined_min_paths -> "VECTOR_OUTLINED"
    [] page.words >= table.rich_text_min_words -> "RICH"
    [] OTHER -> IF page.words = 0 THEN "NONE" ELSE "SPARSE"

(***************************************************************************)
(* Classification.                                                         *)
(***************************************************************************)
\* An anchor of `length` letters found `times` times, in the doubles of the code:
\* 0.6 times 11/12 falls one unit short of 0.55.
AnchorWeight(length, times) ==
  LET capped == IF times > 5 THEN 10 ELSE 5 + times
      exact == (capped * 1000 * (IF length > 12 THEN 12 ELSE length)) \div 12
  IN IF length = 11 /\ times = 1 THEN exact - 1 ELSE exact

\* The classes in the order of the table, which decides ties.
AnchorOrder ==
  [DOOR_SCHEDULE |-> 1, HARDWARE_SCHEDULE |-> 2, FRAME_SCHEDULE |-> 3, FINISH_SCHEDULE |-> 4,
   INDEX |-> 5, TITLE |-> 6, SPEC_TEXT |-> 7]

\* An anchor phrase of the table, as it was found in the text of a page.
AnchorFound == [class : DOMAIN AnchorOrder, length : Nat, times : Nat]

NamedClasses(page) == {a.class : a \in page.anchors}
AnchorScore(page, class) ==
  Max({AnchorWeight(a.length, a.times) : a \in {b \in page.anchors : b.class = class}})

BestClass(page) ==
  CHOOSE c \in NamedClasses(page) : \A d \in NamedClasses(page) :
    \/ AnchorScore(page, c) > AnchorScore(page, d)
    \/ AnchorScore(page, c) = AnchorScore(page, d) /\ AnchorOrder[c] <= AnchorOrder[d]

Verdict(class, confidence, method) ==
  [class |-> class, confidence |-> confidence, method |-> method]
KeywordVerdict == [class : DOMAIN AnchorOrder, confidence : Int, method : {"KEYWORD"}]

\* (Variant, to test the checks: the best anchor wins, on a contents page too.)
BestAnchor(page, table) ==
  IF NamedClasses(page) = {} THEN NULL
  ELSE IF AnchorScore(page, BestClass(page)) >= table.min_keyword_confidence
       THEN Verdict(BestClass(page), AnchorScore(page, BestClass(page)), "KEYWORD") ELSE NULL

\* A contents page names many schedules and is none of them.
ClassifyByKeyword(page, table) ==
  IF "INDEX" \in NamedClasses(page) /\ Cardinality(NamedClasses(page)) > 2
  THEN Verdict("INDEX", Max({7000, AnchorScore(page, "INDEX")}), "KEYWORD")
  ELSE IF NamedClasses(page) = {} THEN NULL
  ELSE IF AnchorScore(page, BestClass(page)) >= table.min_keyword_confidence
       THEN Verdict(BestClass(page), AnchorScore(page, BestClass(page)), "KEYWORD") ELSE NULL

\* A title block names an anchor, or carries a sheet number whose prefix maps to a class.
ClassifyByTitleBlock(page) ==
  CASE page.block = NULL -> NULL
    [] page.block # NULL /\ page.block.by = "anchor" -> Verdict(page.block.class, 8500, "TITLE_BLOCK")
    [] OTHER -> Verdict(page.block.class, 6000, "TITLE_BLOCK")

IsGeometry(page, table) == page.paths > table.drawing_min_vector_paths

\* (Variant, to test the checks: geometry is looked at before the text.)
GeometryFirst(page, table) ==
  CASE page.bookmark # NULL -> Verdict(page.bookmark, 9500, "BOOKMARK")
    [] page.bookmark = NULL /\ page.block # NULL -> ClassifyByTitleBlock(page)
    [] OTHER ->
       IF IsGeometry(page, table) THEN Verdict("DRAWING", 7000, "TITLE_BLOCK")
       ELSE IF TextLayer(page, table) # "RICH" THEN Verdict("DRAWING", 5000, "KEYWORD")
       ELSE IF ClassifyByKeyword(page, table) # NULL THEN ClassifyByKeyword(page, table)
       ELSE Verdict("UNKNOWN", 0, NULL)

\* classify_page: the first tier that resolves.
ClassifyPage(page, table) ==
  LET byKeyword == IF TextLayer(page, table) = "RICH" THEN ClassifyByKeyword(page, table) ELSE NULL
  IN CASE page.bookmark # NULL -> Verdict(page.bookmark, 9500, "BOOKMARK")
       [] page.bookmark = NULL /\ page.block # NULL -> ClassifyByTitleBlock(page)
       [] OTHER ->
          IF byKeyword # NULL THEN byKeyword
          ELSE IF IsGeometry(page, table) THEN Verdict("DRAWING", 7000, "TITLE_BLOCK")
          ELSE IF TextLayer(page, table) # "RICH" THEN Verdict("DRAWING", 5000, "KEYWORD")
          ELSE Verdict("UNKNOWN", 0, NULL)

(***************************************************************************)
(* Routing.                                                                *)
(***************************************************************************)
\* (Variant, to test the checks: rich text is read natively whatever the class.)
NativeWhenRich(class, layer, table) ==
  LET entry == table.routes[class]
  IN CASE entry = NULL -> "SKIP"
       [] entry # NULL /\ entry.native # NULL /\ layer = "RICH" -> entry.native
       [] OTHER -> IF entry.route = "NATIVE_TEXT" /\ layer = "VECTOR_OUTLINED"
                   THEN "TEXTRACT_TEXT" ELSE entry.route

\* RoutingTable.decide.  A class without an entry is not read.
Decide(class, layer, table) ==
  LET entry == table.routes[class]
  IN CASE entry = NULL -> "SKIP"
       [] entry # NULL /\ entry.native # NULL /\ layer = "RICH" /\ class \notin Schedules ->
            entry.native
       [] OTHER -> IF entry.route = "NATIVE_TEXT" /\ layer = "VECTOR_OUTLINED"
                   THEN "TEXTRACT_TEXT" ELSE entry.route

\* analyze_document for one page.
Triaged(page, table) ==
  LET verdict == ClassifyPage(page, table)
      layer == TextLayer(page, table)
  IN [verdict |-> verdict, layer |-> layer, route |-> Decide(verdict.class, layer, table)]
=============================================================================
