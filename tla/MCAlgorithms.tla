--------------------------- MODULE MCAlgorithms ---------------------------
(***************************************************************************)
(* The inputs Algorithms is asked about by TLC.                            *)
(***************************************************************************)
EXTENDS Algorithms

(***************************************************************************)
(* Pricing: sheets that change on day 10, and a library without any.       *)
(***************************************************************************)
Row(key, from, rate) == [key |-> key, from |-> from, rate |-> rate]
Band(key, from, rate, floor) == [key |-> key, from |-> from, rate |-> rate, floor |-> floor]

TwoLibraries ==
  {[multipliers |-> {Row("Hager", 1, 2900), Row("Hager", 10, 3133),
                    Row("Rockwood", 1, 0), Row("Rockwood", 10, 4000)},
    bands |-> {Band("COMMODITY", 1, 2700, 2000), Band("COMMODITY", 10, 3000, 2500)},
    tax |-> {Row("OH", 1, 800), Row("OH", 10, 725), Row("KY", 10, 650), Row("CA", 1, 900)}],
   [multipliers |-> {}, bands |-> {Band("SPECIALTY", 1, 4000, NULL)}, tax |-> {}]}

SomeDays == {5, 20, 400}
SomeMargins == {0, 2200, 9500}

Item(vendor, list, band, division) ==
  [vendor |-> vendor, list |-> list, band |-> band, division |-> division]
Door == Item("Hager", 599, "COMMODITY", "08")
GrabBar == Item("Bobrick", 450, "SPECIALTY", "10")
Pull == Item("Rockwood", 300, "COMMODITY", NULL)
Unlisted == Item("Hager", NULL, "COMMODITY", NULL)

NewLine(group, item, cost, quantity, adders) ==
  [group |-> group, item |-> item, cost |-> cost, quantity |-> quantity, adders |-> adders,
   opening_division |-> IF group = "DOOR" THEN "08" ELSE NULL,
   source |-> "MANUAL", dated |-> IF cost > 0 THEN 10 ELSE NULL, stale |-> FALSE,
   margin |-> 1500, overridden |-> FALSE, band |-> NULL, below_floor |-> FALSE,
   sale_each |-> 0, extended |-> 0, subtotal |-> 0, needs_review |-> FALSE]

\* Lines priced before: on day 1 by the engine, and by an estimator on top of it.
Older == Band("COMMODITY", 1, 2700, 2000)
PricedLines ==
  {[NewLine("DOOR", item, 12345, 100, 0) EXCEPT !.band = band, !.margin = 2700, !.overridden = own] :
     item \in {NULL, Door, GrabBar}, band \in {Older, [Older EXCEPT !.floor = NULL]}, own \in BOOLEAN}

SomeLines ==
  PricedLines \cup
  {NewLine(group, item, cost, quantity, adders) :
     group \in {"DOOR", "FREIGHT"}, item \in {NULL, Door, GrabBar, Unlisted},
     cost \in {0, 12345}, quantity \in {0, 100, 250}, adders \in {-250, 0, 155}}

QuoteLines ==
  {NewLine("DOOR", Door, 0, 200, 155), NewLine("DOOR", NULL, 12345, 100, 0),
   NewLine("ACCESSORIES", GrabBar, 0, 250, 0), NewLine("FREIGHT", NULL, 50000, 100, 0),
   Override(NewLine("HARDWARE", Door, 9999, 100, 0), 1000),
   Override(NewLine("HARDWARE", Pull, 0, 100, 0), 1000)}

SomeQuotes ==
  {[lines |-> lines, freight |-> terms[1], jurisdiction |-> terms[2],
    subtotal_sale |-> 0, rate |-> NULL, tax |-> 0, total |-> 0] :
     lines \in [1..3 -> QuoteLines],
     terms \in {<<NULL, "OH">>, <<12500, "ky">>, <<12500, "CA">>, <<NULL, NULL>>}}

(***************************************************************************)
(* Matching: a component of an HW-3 on some opening, and the opening.      *)
(***************************************************************************)
Satin == [code |-> "US26D", metal |-> "brass"]
Stainless == [code |-> "US32D", metal |-> "stainless"]

SomeCriteria ==
  {[minutes |-> rating.minutes, rating_absent |-> rating.absent, handing |-> hand.of,
    handing_absent |-> hand.absent, division |-> "08", finish |-> finish, vendor |-> vendor,
    series |-> IF door THEN "BB" ELSE NULL, part |-> IF door THEN NULL ELSE part,
    size |-> IF door THEN <<36, 84>> ELSE NULL] :
     rating \in {[minutes |-> 60, absent |-> FALSE], [minutes |-> NULL, absent |-> TRUE],
                 [minutes |-> NULL, absent |-> FALSE]},
     hand \in {[of |-> "LH", absent |-> FALSE], [of |-> NULL, absent |-> TRUE]},
     finish \in {NULL, Satin}, vendor \in {NULL, "Hager"}, door \in BOOLEAN,
     part \in {NULL, "BB1279"}}

CatalogueItem(place, minutes, hand, finish, vendor, part, stock) ==
  [place |-> place, minutes |-> minutes, handing |-> hand, division |-> "08", finish |-> finish,
   size |-> IF part = NULL THEN <<36, 84>> ELSE NULL, vendor |-> vendor,
   series |-> NULL, part |-> part, is_stock |-> stock, text |-> IF stock THEN 100 ELSE 20]

Library ==
  {CatalogueItem(1, NULL, NULL, NULL, "Rockwood", NULL, FALSE),
   CatalogueItem(2, 90, NULL, Satin, "Hager", NULL, TRUE),
   CatalogueItem(3, 60, "LH", Stainless, "Hager", "BB1279", FALSE),
   CatalogueItem(4, 90, "RH", Satin, "Hager", "BB1279", TRUE),
   CatalogueItem(5, 60, "LH", Satin, "Hager", "BB1168", TRUE)}

SomeCatalogues == SUBSET Library

(***************************************************************************)
(* Parsing.                                                                *)
(***************************************************************************)
SomeReadings ==
  [fire_rating |->
     {<<"blank">>, <<"other">>, <<"none">>} \cup ({"minutes"} \X {0, 20, 30, 45, 60, 89, 90, 180})
       \cup ({"label"} \X {"A", "B", "C", "D", "E"}) \cup ({"hours"} \X (0..2) \X (0..3) \X (0..4)),
   size |->
     {<<"blank">>, <<"other">>} \cup ({"four"} \X {0, 3, 7, 9} \X {0, 6, 9} \X {0, 7} \X {0, 4, 9})
       \cup ({"explicit"} \X {0, 3, 12} \X {0, 6, 11, 12, 14} \X {0, 7} \X {0, 11, 12}),
   handing |->
     {<<"blank">>, <<"other">>}
       \cup ({"hand"} \X {"LH", "L", "LEFTHAND", "RIGHT", "LHRB", "RHR", "PAIR", "NA", "--", "LHX"}),
   finish |-> {<<"blank">>} \cup ({"finish"} \X {"US26D", "US15", "US32D", "626", "619", "630", "US99"}),
   wall |-> {<<"blank">>, <<"wall", <<>>>>, <<"wall", <<"STUD">>>>, <<"wall", <<"METAL", "STUD">>>>,
             <<"wall", <<"6", "METAL", "STUD">>>>, <<"wall", <<"CMU">>>>, <<"wall", <<"ICF">>>>}]

Finish(us, bhma) == [us |-> us, bhma |-> bhma]
Wall(words, depth) == [wall |-> words, depth |-> depth]
Orders(rows) == {s \in [1..Cardinality(rows) -> rows] : \A r \in rows : \E i \in DOMAIN s : s[i] = r}

SomeFinishTables == Orders({Finish("US26D", "626"), Finish("US15", "626"), Finish("US32D", "630")})
SomeWallTables ==
  Orders({Wall(<<"METAL", "STUD">>, 5), Wall(<<"6", "METAL", "STUD">>, 7), Wall(<<"CMU">>, 8)})

(***************************************************************************)
(* Triage.                                                                 *)
(***************************************************************************)
Anchor(class, length, times) == [class |-> class, length |-> length, times |-> times]
SomeAnchors ==
  {Anchor("DOOR_SCHEDULE", 12, 1), Anchor("HARDWARE_SCHEDULE", 11, 1), Anchor("INDEX", 10, 2),
   Anchor("SPEC_TEXT", 13, 3), Anchor("FRAME_SCHEDULE", 13, 1)}

SomePages ==
  {p \in [words : {0, 10, 30, 60}, paths : {0, 501}, bookmark : {NULL, "DOOR_SCHEDULE", "SPEC_TEXT"},
          block : {NULL, [by |-> "anchor", class |-> "DOOR_SCHEDULE"], [by |-> "prefix", class |-> "INDEX"]},
          anchors : SUBSET SomeAnchors] :
     p.words = 0 => p.anchors = {} /\ p.block = NULL}

Rerouted(class, entry) == [Shipped EXCEPT !.routes[class] = entry]
SomeTables ==
  {Shipped, Rerouted("SPEC_TEXT", NULL),
   Rerouted("SPEC_TEXT", [route |-> "NATIVE_TEXT", native |-> NULL]),
   Rerouted("DOOR_SCHEDULE", [route |-> "TEXTRACT_TABLES", native |-> "NATIVE_TEXT"])}

(***************************************************************************)
(* Calibration.                                                            *)
(***************************************************************************)
Field(id, elements, llm, populated, wrong) ==
  [id |-> id, wrong |-> wrong,
   evidence |-> [elements |-> elements, llm |-> llm, populated |-> populated, expected |-> 4]]

SomeFields ==
  {Field(1, {95, 60}, 90, 4, TRUE), Field(2, {95}, 90, 4, TRUE), Field(3, {NULL}, 99, 4, FALSE),
   Field(4, {NULL, 80}, 99, 3, TRUE), Field(5, {}, NULL, 4, TRUE), Field(6, {72}, NULL, 4, FALSE),
   Field(7, {55}, 80, 4, FALSE)}

EveryFloor == {100 * t : t \in 50..99}
SomeTargets == {0, 10, 50}
=============================================================================
