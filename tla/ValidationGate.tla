--------------------------- MODULE ValidationGate ---------------------------
(***************************************************************************)
(* What one answer of the model becomes: the citation and grounding gate,  *)
(* the verdict on each field of an opening, and the typed columns that the *)
(* deterministic parsers derive from what was accepted.  Pure operators.   *)
(* An element id is the number of the normalisation that minted it; 0 is   *)
(* an id the model was not shown.  Of the seven fields three stand for     *)
(* all: two that tolerate no error, and one that is passed on as written.  *)
(***************************************************************************)
EXTENDS Naturals

CONSTANTS
  NULL,
  Groups,    \* hardware-set callouts a schedule may carry
  Hands      \* hands a schedule may carry

OpeningFields == {"fire_rating", "handing", "hardware_group"}
ZeroTolerance == {"fire_rating", "handing"}
ParsedFields == {"fire_rating", "handing"}

Ratings == {20, 45, 60, 90}

\* A string read off the sheet: one that a parser types, one that says there is
\* none, or one that no parser recognises.
Text(f) == CASE f = "fire_rating" -> {<<f, r>> : r \in Ratings}
             [] f = "handing" -> {<<f, h>> : h \in Hands}
             [] OTHER -> {<<f, g>> : g \in Groups}
NotThere == <<"says", "none">>
Garbled == <<"says", "garbled">>
Texts == {NotThere, Garbled} \cup UNION {Text(f) : f \in OpeningFields}

\* One field as the model returned it: its text, whether it cites an element it
\* was shown, whether the cited text holds the value, and whether the composite
\* confidence reaches the floor of the field.
Emission == [value : Texts \cup {NULL}, cites : {"none", "shown", "invented"},
             grounded : BOOLEAN, sure : BOOLEAN]

\* One opening record; a field may be left out altogether, and so may the mark.
NoMark == ""
Record == [door : STRING, fields : [OpeningFields -> Emission \cup {NULL}], doubt : BOOLEAN]

ReviewState == {"AUTO", "FLAGGED", "CONFIRMED", "CORRECTED", "REJECTED"}
RejectionCode == {"UNKNOWN_ELEMENT", "NULL_WITH_CITATION", "VALUE_WITHOUT_CITATION",
                  "NOT_GROUNDED"}

\* The ids a field cites when the answer was given in normalisation `at`.
SourceIds(e, at) == CASE e.cites = "none" -> {}
                      [] e.cites = "shown" -> {at}
                      [] e.cites = "invented" -> {0}

\* The gate: the citation first, then the value against the cited text.
Verdict(e, ids, supplied) ==
  CASE ~(ids \subseteq supplied) -> "UNKNOWN_ELEMENT"
    [] ids \subseteq supplied /\ e.value = NULL /\ ids # {} -> "NULL_WITH_CITATION"
    [] e.value = NULL /\ ids = {} -> "ACCEPT_NULL"
    [] e.value # NULL /\ ids = {} -> "VALUE_WITHOUT_CITATION"
    [] OTHER -> IF e.grounded THEN "ACCEPT" ELSE "NOT_GROUNDED"

\* A FieldProvenance row with its citations.
Linked == [value : Texts \cup {NULL}, cites : SUBSET Nat, state : ReviewState,
           reason : RejectionCode \cup {NULL}, named : SUBSET Nat]

Flag(doubtful) == IF doubtful THEN "FLAGGED" ELSE "AUTO"

\* link_fields for one field.  A refused field keeps its value and names the ids
\* it cited in its reason; only an accepted one gets citations.
LinkField(f, e, at, supplied) ==
  IF e = NULL
  THEN [value |-> NULL, cites |-> {}, state |-> "FLAGGED", reason |-> NULL, named |-> {}]
  ELSE LET ids == SourceIds(e, at)
           verdict == Verdict(e, ids, supplied)
       IN IF verdict \in RejectionCode
          THEN [value |-> e.value, cites |-> {}, state |-> "REJECTED",
                reason |-> verdict, named |-> ids]
          ELSE [value |-> e.value, cites |-> ids, reason |-> NULL, named |-> {},
                state |-> Flag(IF verdict = "ACCEPT_NULL" THEN f \in ZeroTolerance ELSE ~e.sure)]

LinkOpening(record, at, supplied) ==
  [f \in OpeningFields |-> LinkField(f, record.fields[f], at, supplied)]

\* (Variant, to test the checks: a refused value is used all the same.)
RawOfAny(linked) == linked.value

\* What a refused field contributes to the opening: nothing.
Raw(linked) == IF linked.state = "REJECTED" THEN NULL ELSE linked.value

\* The typed column of a parsed field: a reading, Absent when the sheet says so,
\* and Unresolved for silence and for what no rule recognises.
Absent == <<"typed", "absent">>
Unresolved == <<"typed", "unresolved">>
Typed(f, raw) ==
  IF f \notin ParsedFields THEN raw
  ELSE CASE raw \in Text(f) -> raw
         [] raw = NotThere -> Absent
         [] OTHER -> Unresolved

\* (Variant, to test the checks: a field the parsers cannot read is not flagged.)
NeedsReviewUnparsed(record, linked) ==
  record.doubt \/ \E f \in OpeningFields : linked[f].state = "REJECTED"

NeedsReview(record, linked) ==
  \/ record.doubt
  \/ \E f \in OpeningFields : linked[f].state \in {"REJECTED", "FLAGGED"}
  \/ \E f \in ParsedFields : Typed(f, Raw(linked[f])) = Unresolved
=============================================================================
