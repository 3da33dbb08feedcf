------------------------------- MODULE Takeoff -------------------------------
(***************************************************************************)
(* The takeoff of one project: the worker reads its documents, again and   *)
(* again when completions are redelivered, while estimators review.        *)
(***************************************************************************)
EXTENDS Extraction, Review

TakeoffNext ==
  \/ WorkerStep
  \/ \E e \in Estimators : ReviewStep(e)

TakeoffSpec == TakeoffInit /\ [][TakeoffNext]_vars

(***************************************************************************)
(* Properties.                                                             *)
(***************************************************************************)
\* "Show me the source" is a join that never comes back empty: whatever is
\* normalised again, a citation stands on an element that exists.
CitationsResolve ==
  /\ \A o \in Rows : prov[o] # NULL =>
       \A f \in OpeningFields : prov[o][f].cites \subseteq {generation[documentOf[opening[o].run]]}
  /\ \A c \in component : c.cites \subseteq {generation[documentOf[c.run]]}

\* Until an estimator acts on it, a zero-tolerance column has a value only if the
\* gate accepted the field that it was read from (NFR-2).
OnlyAcceptedValuesAreUsed ==
  \A o \in Rows \ touched : opening[o] # NULL =>
    \A f \in ZeroTolerance :
      opening[o].value[f] # Unresolved =>
        /\ prov[o][f].state \in {"AUTO", "FLAGGED"}
        /\ prov[o][f].cites # {}

\* Doubt reaches the row: until an estimator acts on it, an opening with a field
\* that was refused, left out, uncertain or unreadable says it needs review.
DoubtIsShown ==
  \A o \in Rows \ touched : opening[o] # NULL =>
    \/ opening[o].review = "FLAGGED"
    \/ \A f \in OpeningFields : /\ prov[o][f].state = "AUTO"
                                /\ opening[o].value[f] # Unresolved

\* Whatever is re-read, edited and matched again, no item is on offer for an
\* opening whose rating it does not meet or whose rating is not known.
NoUnderRatedMatch ==
  \A m \in match :
    LET rating == opening[m.opening].value["fire_rating"]
    IN /\ rating # Unresolved
       /\ rating # Absent => m.item.minutes # NULL /\ m.item.minutes >= Minutes(rating)

\* B8: an answer that was remembered is never bought again, whichever deliveries,
\* failures and crashes follow.
PaidAnswersAreReused ==
  [][\A t \in Tables : cache[t] # NULL => asked'[t] = asked[t]]_vars

\* A run is COMPLETED only when every table it located was read to the last record
\* with a mark, and every callout of its openings has a row or a refused definition.
CompletedRunsReadEverything ==
  [][\A r \in Runs : run[r] # "COMPLETED" /\ run'[r] = "COMPLETED" =>
       /\ \A t \in worker.chosen : cache[t] # NULL
            /\ \A record \in cache[t].answer : record.door # NoMark => <<r, record.door>> \in doors
       /\ worker.definitions = {} =>
            \A o \in OpeningsOf(r) \ touched :
              LET callout == opening[o].value["hardware_group"]
              IN callout # NULL => \E c \in component : c.run = r /\ c.group = callout]_vars

\* A re-extraction never clobbers what was read or reviewed: whatever the worker does
\* to an opening that exists, from a copy of it however old, it removes none, leaves its
\* provenance, values and review state as they are, and changes its notes only so that
\* they say why the opening is matched by hand.
ReadingsAreKept ==
  [][\A o \in Rows : opening[o] # NULL /\ ~UNCHANGED pipelineRows =>
       /\ opening'[o] # NULL /\ prov'[o] = prov[o]
       /\ opening'[o] = [opening[o] EXCEPT !.notes = opening'[o].notes]
       /\ opening'[o].notes # opening[o].notes => "reason" \in opening'[o].notes]_vars

\* Every value an estimator changed, and every row one removed, is in the feedback
\* that the extraction learns from, wherever the API dies (FR-13).
EditsAreOnRecord == edited \subseteq feedback

\* extract.py: with stable element paths "a citation recorded here survives a
\* re-run".  (The code: an answer from the cache cites ids of an earlier
\* normalisation, and the gate refuses its fields as inventions.)
CitationsSurviveAReRun ==
  \A o \in Rows : prov[o] # NULL =>
    \A f \in OpeningFields : prov[o][f].reason = "UNKNOWN_ELEMENT" => 0 \in prov[o][f].named
=============================================================================
