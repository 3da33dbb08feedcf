------------------------------- MODULE Review -------------------------------
(***************************************************************************)
(* The estimators' API over the takeoff: the ledger's edits, the override  *)
(* of one field, the verdict on a match, each with its feedback row.       *)
(* update, keep-one and keep-both save the whole row as they read it; the  *)
(* other writes name their columns, so reading first changes nothing.      *)
(***************************************************************************)
EXTENDS TakeoffState

takeoffUnchanged == UNCHANGED <<pipelineRows, request>>

\* A request that writes; their number is the bound of this module.
OneMore ==
  /\ reviews < MaxReviews
  /\ reviews' = reviews + 1

Live == {o \in Rows : opening[o] # NULL}
Touch(o) == touched' = touched \cup {o}
Log(o) == feedback' = feedback \cup {o}

\* A log that is written after the row, outside its transaction.
LogUnlessApiDies(o) ==
  \/ Log(o)
  \/ "api" \in Faults /\ UNCHANGED feedback

\* (perform_create) An item the drawings did not carry, with no provenance.
AddOpening(e) ==
  LET o == created + 1
  IN /\ o \in Rows
     /\ \E g \in Entered["hardware_group"], notes \in Notes \cup {{}} :
          opening' = [opening EXCEPT ![o] =
            [run |-> NULL, door |-> NULL, review |-> "CORRECTED", notes |-> notes,
             value |-> [f \in OpeningFields |-> IF f = "hardware_group" THEN g ELSE Unresolved]]]
     /\ created' = o
     /\ LogUnlessApiDies(o)
     /\ Touch(o)
     /\ UNCHANGED <<prov, match, edited>> /\ takeoffUnchanged

\* (Variant, to test the checks: the row is deleted before it is logged.)
RemoveThenLog(e) ==
  \E o \in Live :
    /\ Delete(o)
    /\ LogUnlessApiDies(o) /\ Touch(o)
    /\ edited' = edited \cup {o}
    /\ UNCHANGED created /\ takeoffUnchanged

\* (perform_destroy, bulk_remove) The log and the cascade, in one transaction.
RemoveOpening(e) ==
  \E o \in Live :
    /\ Delete(o)
    /\ Log(o) /\ Touch(o)
    /\ edited' = edited \cup {o}
    /\ UNCHANGED created /\ takeoffUnchanged

\* (confirm; confirm-all and bulk-confirm do it for several rows at once)
Confirm(e) ==
  \E o \in Live :
    /\ opening' = [opening EXCEPT ![o].review = "CONFIRMED"]
    /\ LogUnlessApiDies(o) /\ Touch(o)
    /\ UNCHANGED <<prov, match, created, edited>> /\ takeoffUnchanged

\* The row an update, keep-one or keep-both works on, as it is read.
BeginSave(e) ==
  /\ request[e].pc = "idle" /\ reviews < MaxReviews
  /\ \E o \in Live, pc \in {"update", "keepOne", "keepBoth"} :
       request' = [request EXCEPT ![e] = [pc |-> pc, row |-> o, copy |-> opening[o]]]
  /\ UNCHANGED <<pipelineRows, opening, prov, match, created, reviews, feedback, edited, touched>>

\* save() of every column: it updates the row, or inserts it again.
SaveRow(e, copy) ==
  /\ opening' = [opening EXCEPT ![request[e].row] = copy]
  /\ request' = [request EXCEPT ![e] = IdleRequest]
  /\ Touch(request[e].row)
  /\ UNCHANGED <<pipelineRows, prov, match, created>>

\* (perform_update) The serializer writes the callout, the review state and the notes;
\* a callout that changed is logged in the same transaction.
FinishUpdate(e) ==
  LET old == request[e].copy
      o == request[e].row
  IN /\ request[e].pc = "update"
     /\ \E g \in Entered["hardware_group"], review \in {old.review, "FLAGGED", "AUTO"},
           notes \in Notes \cup {old.notes} :
          /\ SaveRow(e, [old EXCEPT !.value["hardware_group"] = g, !.review = review,
                                     !.notes = notes])
          /\ IF g # old.value["hardware_group"]
             THEN Log(o) /\ edited' = edited \cup {o}
             ELSE UNCHANGED <<feedback, edited>>

\* Without a twin, keep-one clears the flags and logs nothing.
FinishKeepOne(e) ==
  /\ request[e].pc = "keepOne"
  /\ SaveRow(e, [request[e].copy EXCEPT !.review = "CONFIRMED"])
  /\ UNCHANGED <<feedback, edited>>

FinishKeepBoth(e) ==
  /\ request[e].pc = "keepBoth"
  /\ SaveRow(e, [request[e].copy EXCEPT !.review = "CONFIRMED"])
  /\ Log(request[e].row)
  /\ UNCHANGED edited

\* The fields whose name is also a column of the opening.
Mirrors(f) == f \in {"handing", "hardware_group"}

\* ck_handing_absent_excludes_value refuses a hand on a row that says it has none.
Refused(o, f, after) ==
  f = "handing" /\ opening[o].value[f] = Absent /\ after # NULL

Mirrored(old, f, after) ==
  CASE f \in ParsedFields /\ after = NULL -> IF old = Absent THEN Absent ELSE Unresolved
    [] OTHER -> after

\* (FieldProvenanceViewSet.override) The provenance takes the estimator's value;
\* the opening does only when it has a column of the field's name.
Override(e) ==
  \E o \in Live, f \in OpeningFields, state \in Verdicts :
    /\ prov[o] # NULL
    /\ \E after \in Entered[f] :
         /\ ~(Mirrors(f) /\ Refused(o, f, after))
         /\ prov' = [prov EXCEPT ![o][f].value = after, ![o][f].state = state]
         /\ opening' = IF ~Mirrors(f) THEN opening
                       ELSE [opening EXCEPT ![o].value[f] = Mirrored(@, f, after),
                                            ![o].review = "CORRECTED"]
    /\ Log(o) /\ Touch(o)
    /\ edited' = edited \cup {o}
    /\ UNCHANGED <<match, created>> /\ takeoffUnchanged

\* (MatchViewSet._set_status)
Judge(e) ==
  \E m \in match, status \in {"ACCEPTED", "REJECTED"} :
    /\ match' = (match \ {m}) \cup {[m EXCEPT !.status = status]}
    /\ Log(m.opening)
    /\ UNCHANGED <<opening, prov, created, edited, touched>> /\ takeoffUnchanged

ReviewStep(e) ==
  \/ BeginSave(e)
  \/ OneMore /\ (FinishUpdate(e) \/ FinishKeepOne(e) \/ FinishKeepBoth(e))
  \/ /\ request[e].pc = "idle" /\ OneMore
     /\ AddOpening(e) \/ RemoveOpening(e) \/ Confirm(e) \/ Override(e) \/ Judge(e)
=============================================================================
