----------------------------- MODULE MCTakeoff -----------------------------
(***************************************************************************)
(* Small instances of Takeoff for TLC: what the model may answer, and the  *)
(* catalogue.                                                              *)
(***************************************************************************)
EXTENDS Takeoff, TLC

Shown(v) == [value |-> v, cites |-> "shown", grounded |-> TRUE, sure |-> TRUE]
Nothing == [value |-> NULL, cites |-> "none", grounded |-> FALSE, sure |-> FALSE]

Opening(mark, rating, hand, group) ==
  [door |-> mark, doubt |-> FALSE,
   fields |-> [f \in OpeningFields |-> CASE f = "fire_rating" -> rating
                                         [] f = "handing" -> hand
                                         [] OTHER -> group]]

Rated == Shown(<<"fire_rating", 60>>)
LeftHand == Shown(<<"handing", "LH">>)
Callout == Shown(<<"hardware_group", "HW1">>)

Clean == Opening("101", Rated, LeftHand, Callout)
Invented == Opening("102", [Rated EXCEPT !.cites = "invented"], Shown(NotThere), Callout)
Ungrounded == Opening("102", Shown(NotThere), [LeftHand EXCEPT !.grounded = FALSE], Callout)
Silent == Opening("102", Nothing, NULL, Nothing)
Nameless == Opening(NoMark, Rated, LeftHand, Callout)
Unsure == Opening("102", [Rated EXCEPT !.sure = FALSE], Shown(Garbled), Nothing)

SomeAnswers == {{Silent, Nameless}, {Clean, Invented}, {Unsure, Ungrounded}}
HonestAnswers == {{Clean}, {Silent}}

Typing == [f \in OpeningFields |-> CASE f = "fire_rating" -> {<<f, 90>>}
                                     [] f = "handing" -> {<<f, "LH">>, NULL}
                                     [] OTHER -> {<<f, "HW1">>}]

Unrated == [minutes |-> NULL, handing |-> NULL]
NinetyMinutes == [minutes |-> 90, handing |-> "LH"]
TwoItems == {Unrated, NinetyMinutes}

\* The tables differ in nothing: a run may exchange them.
AlikeTables == Permutations(Tables)

OneDocument == [t \in Tables |-> CHOOSE d \in Documents : TRUE]
AllFaults == {"worker", "api", "bedrock"}
=============================================================================
