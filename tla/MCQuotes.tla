------------------------------ MODULE MCQuotes ------------------------------
(***************************************************************************)
(* Small instances of QuoteLifecycle for TLC.                              *)
(***************************************************************************)
EXTENDS QuoteLifecycle, TLC

NoughtTimesList == [cost |-> 0, firm |-> TRUE]
ListTimesMultiplier == [cost |-> 1, firm |-> TRUE]
SomeSources == {NothingFound, NoughtTimesList, ListTimesMultiplier}

\* A free-form line, with or without a catalogue item, and the generator's kind.
FreeForm == [opening |-> FALSE, freight |-> FALSE, item |-> NULL]
FromCatalogue == {[FreeForm EXCEPT !.item = i] : i \in Items}
FreeOrTied == {FreeForm} \cup {Generated(i) : i \in Items}
Rows == Permutations(Lines) \cup Permutations(Quotes)
=============================================================================
