---------------------------- MODULE TakeoffState ----------------------------
(***************************************************************************)
(* The rows of a project's takeoff: elements, cached answers, extraction   *)
(* runs, openings with their provenance, hardware sets and matches.  They  *)
(* are written by the worker (Extraction) and by estimators (Review).      *)
(* Left out: the texts of notes and reasons, geometry, token counts, the   *)
(* notes of a component, which nobody but the worker writes, and           *)
(* source_kind, which only decides how the ledger shows a row; nothing in  *)
(* the program writes duplicate_of, so no opening has a twin.              *)
(***************************************************************************)
EXTENDS ValidationGate, FiniteSets

CONSTANTS
  Documents,      \* documents of one project
  Tables,         \* schedule tables on their pages
  DocumentOf,     \* [Tables -> Documents]
  Items,          \* catalogue: records with minutes and handing, NULL if none
  Answers,        \* what the model may answer for a table: sets of Records
  MaxDeliveries,  \* bound: completions delivered per document
  MaxRows,        \* bound: openings ever written
  MaxTables,      \* MAX_EXTRACT_TABLES_PER_DOCUMENT
  Estimators,     \* API requests in progress at the same time
  MaxReviews,     \* bound: requests that write anything
  Entered,        \* [OpeningFields -> what an estimator may type for it]
  Notes,          \* what an estimator may make of an opening's notes: subset of SUBSET Note
  Verdicts,       \* the review states an override may carry
  Faults          \* subset of {"worker", "api", "bedrock"}

Rows == 1..MaxRows
Runs == 1..(MaxDeliveries * Cardinality(Documents))
Generations == 0..MaxDeliveries

Value == Texts \cup {Absent, Unresolved, NULL}

\* What the review notes of an opening hold beside what linking wrote there: the
\* reason why it is matched by hand, and an estimator's note.
Note == {"reason", "note"}

\* An opening; run is NULL for one that an estimator typed in, and so is its mark,
\* which only has to be unique within a run.
OpeningRow == [run : Runs \cup {NULL}, door : STRING \cup {NULL}, value : [OpeningFields -> Value],
               review : ReviewState, notes : SUBSET Note]

\* An ExtractionRun row, as far as anything depends on it.
RunStatus == {"STARTED", "COMPLETED", "FAILED"}

\* A TableExtraction row: the answer and the normalisation whose ids it cites.
CachedAnswer == [answer : Answers, at : Generations]

\* A HardwareSetComponent row; cites the normalisation it was read in.
Component == [run : Runs, group : Value, resolved : BOOLEAN, cites : SUBSET Generations]

\* A match proposes an item for the door itself (part NULL) or for a component.
MatchStatus == {"PROPOSED", "ACCEPTED", "REJECTED", "MANUAL"}
MatchRow == [opening : Rows, part : Component \cup {NULL}, item : Items, status : MatchStatus]

ASSUME TakeoffAssumption ==
  /\ MaxDeliveries \in Nat \ {0} /\ MaxRows \in Nat /\ MaxTables \in Nat
  /\ IsFiniteSet(Documents) /\ DocumentOf \in [Tables -> Documents]
  /\ Answers \subseteq SUBSET Record
  /\ MaxReviews \in Nat /\ Verdicts \subseteq ReviewState /\ Notes \subseteq SUBSET Note
  /\ \A f \in OpeningFields : Entered[f] \subseteq Text(f) \cup {NULL}
  /\ Faults \subseteq {"worker", "api", "bedrock"}
  /\ NULL \notin Texts /\ NULL # Absent /\ NULL # Unresolved /\ NULL \notin Ratings
  /\ NULL \notin Runs /\ NULL \notin RunStatus
  /\ NULL \notin OpeningRow /\ NULL \notin CachedAnswer

VARIABLES
  generation,  \* [Documents -> Generations], how often its elements were written
  delivered,   \* [Documents -> 0..MaxDeliveries]
  cache,       \* [Tables -> CachedAnswer], NULL before the table was answered
  asked,       \* [Tables -> Nat], answers bought (history)
  run,         \* [Runs -> status], NULL before it is created
  documentOf,  \* [Runs -> Documents]
  opening,     \* [Rows -> OpeningRow], NULL before creation and after deletion
  prov,        \* [Rows -> [OpeningFields -> Linked]], NULL without provenance
  component,   \* set of Component rows
  match,       \* set of MatchRow rows
  created,     \* how many openings were ever written: the next takes the next number
  worker,      \* what the worker holds
  request,     \* [Estimators -> what an API request holds]
  reviews,     \* how many requests wrote anything
  feedback,    \* openings with a feedback row
  edited,      \* history: openings whose values an estimator changed or removed
  touched,     \* history: openings an estimator acted on
  doors        \* history: <<run, door>> of every opening a run wrote

pipelineRows == <<generation, delivered, cache, asked, run, documentOf, component, worker, doors>>
reviewRows == <<request, reviews, feedback, edited, touched>>
vars == <<pipelineRows, opening, prov, match, created, reviewRows>>

WorkerPc == {"idle", "start", "locate", "extract", "remember", "link", "callouts",
             "hardware", "complete", "match", "price"}

\* The locals of run(): tables still to extract, an answer not yet remembered,
\* the tables it sent to the model, the definitions the locate pass found, records
\* still to link, callouts still to persist, the openings as MATCH read them, and
\* which of them it still has to match, for the door itself (NULL) or a component.
Worker == [pc : WorkerPc, run : Runs \cup {NULL}, doc : Documents \cup {NULL},
           todo : SUBSET Tables, answer : (Tables \X Answers) \cup {NULL},
           chosen : SUBSET Tables, definitions : SUBSET Tables,
           records : SUBSET [record : Record, table : Tables, at : Generations],
           sets : SUBSET Component, rows : [Rows -> OpeningRow \cup {NULL}],
           parts : SUBSET (Rows \X (Component \cup {NULL}))]

NoRows == [r \in Rows |-> NULL]
IdleWorker == [pc |-> "idle", run |-> NULL, doc |-> NULL, todo |-> {}, answer |-> NULL,
               chosen |-> {}, definitions |-> {}, records |-> {}, sets |-> {}, rows |-> NoRows,
               parts |-> {}]

IdleRequest == [pc |-> "idle", row |-> 0, copy |-> NULL]

\* Records are finite but range over strings, so membership is stated part by part.
IsOpening(o) ==
  /\ o.run \in Runs \cup {NULL} /\ o.review \in ReviewState /\ o.notes \subseteq Note
  /\ \A f \in OpeningFields : o.value[f] \in Value

TakeoffTypeOK ==
  /\ generation \in [Documents -> Generations]
  /\ delivered \in [Documents -> 0..MaxDeliveries]
  /\ \A t \in Tables : cache[t] # NULL => cache[t].answer \in Answers /\ cache[t].at \in Generations
  /\ asked \in [Tables -> Nat]
  /\ run \in [Runs -> RunStatus \cup {NULL}]
  /\ documentOf \in [Runs -> Documents \cup {NULL}]
  /\ \A r \in Rows : opening[r] # NULL => IsOpening(opening[r]) /\ r <= created
  /\ \A r \in Rows : prov[r] # NULL => opening[r] # NULL /\ opening[r].run # NULL
  /\ \A m \in match : opening[m.opening] # NULL /\ m.item \in Items /\ m.status \in MatchStatus
  /\ \A c \in component : run[c.run] # NULL
  /\ created \in 0..MaxRows
  /\ worker.pc \in WorkerPc
  /\ reviews \in 0..MaxReviews
  /\ feedback \cup edited \cup touched \subseteq Rows

TakeoffInit ==
  /\ generation = [d \in Documents |-> 0]
  /\ delivered = [d \in Documents |-> 0]
  /\ cache = [t \in Tables |-> NULL]
  /\ asked = [t \in Tables |-> 0]
  /\ run = [r \in Runs |-> NULL]
  /\ documentOf = [r \in Runs |-> NULL]
  /\ opening = NoRows /\ prov = NoRows
  /\ component = {} /\ match = {} /\ created = 0
  /\ worker = IdleWorker
  /\ request = [e \in Estimators |-> IdleRequest]
  /\ reviews = 0 /\ feedback = {} /\ edited = {} /\ touched = {} /\ doors = {}

(***************************************************************************)
(* Queries.                                                                *)
(***************************************************************************)
OpeningsOf(r) == {o \in Rows : opening[o] # NULL /\ opening[o].run = r}
TablesOf(d) == {t \in Tables : DocumentOf[t] = d}

\* Citations that stand on elements of the document: ON DELETE RESTRICT.
Cited(d) ==
  \/ \E o \in Rows : /\ prov[o] # NULL /\ documentOf[opening[o].run] = d
                     /\ \E f \in OpeningFields : prov[o][f].cites # {}
  \/ \E c \in component : documentOf[c.run] = d /\ c.cites # {}

\* (Variant, to test the checks: the matches do not go with the opening.)
DeleteRowOnly(o) ==
  /\ opening' = [opening EXCEPT ![o] = NULL]
  /\ prov' = [prov EXCEPT ![o] = NULL]
  /\ UNCHANGED match

\* Deleting an opening cascades to its provenance, citations and matches.
Delete(o) ==
  /\ opening' = [opening EXCEPT ![o] = NULL]
  /\ prov' = [prov EXCEPT ![o] = NULL]
  /\ match' = {m \in match : m.opening # o}
=============================================================================
