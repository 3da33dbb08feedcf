----------------------------- MODULE Extraction -----------------------------
(***************************************************************************)
(* The worker: normalise, then run() - locate, extract table by table with *)
(* the answer cache, link and persist record by record, resolve hardware   *)
(* sets, match the project.  One transaction or model call per action; the *)
(* job rows and the document's status are in CompletionHandler.            *)
(***************************************************************************)
EXTENDS TakeoffState, Sequences

Rules == INSTANCE Matching

At(pc) == worker.pc = pc
Step(local) == worker' = local
catalogued == <<cache, asked>>
written == <<opening, prov, created, doors>>

\* The except branch of run(): the run row says FAILED and the worker raises.
RunFails ==
  /\ run' = [run EXCEPT ![worker.run] = "FAILED"]
  /\ Step(IdleWorker)

(***************************************************************************)
(* NORMALIZE and the run row.                                              *)
(***************************************************************************)
\* (Variant, to test the checks: the delete ignores the citations.)
NormaliseAnyway(d) ==
  /\ At("idle") /\ delivered[d] < MaxDeliveries
  /\ delivered' = [delivered EXCEPT ![d] = @ + 1]
  /\ generation' = [generation EXCEPT ![d] = @ + 1]
  /\ Step([IdleWorker EXCEPT !.pc = "start", !.doc = d])
  /\ UNCHANGED <<catalogued, run, documentOf, component, written, match, reviewRows>>

\* Every normalisation deletes the elements and writes them with new ids; while
\* one is cited the delete is refused and the delivery fails.
Normalise(d) ==
  /\ At("idle") /\ delivered[d] < MaxDeliveries
  /\ delivered' = [delivered EXCEPT ![d] = @ + 1]
  /\ IF Cited(d) THEN UNCHANGED <<generation, worker>>
     ELSE /\ generation' = [generation EXCEPT ![d] = @ + 1]
          /\ Step([IdleWorker EXCEPT !.pc = "start", !.doc = d])
  /\ UNCHANGED <<catalogued, run, documentOf, component, written, match, reviewRows>>

NextRun == Cardinality({r \in Runs : run[r] # NULL}) + 1

StartRun ==
  LET nothing == TablesOf(worker.doc) = {}
  IN /\ At("start")
     /\ run' = [run EXCEPT ![NextRun] = IF nothing THEN "COMPLETED" ELSE "STARTED"]
     /\ documentOf' = [documentOf EXCEPT ![NextRun] = worker.doc]
     /\ Step(IF nothing THEN IdleWorker
             ELSE [worker EXCEPT !.pc = "locate", !.run = NextRun])
     /\ UNCHANGED <<generation, delivered, catalogued, component, written, match, reviewRows>>

(***************************************************************************)
(* EXTRACT.                                                                *)
(***************************************************************************)
\* What pass A may say of the tables: those to extract and those that define
\* hardware sets.  What it forgets, and everything when it fails, is extracted.
Classifications(tables) ==
  {c \in [extract : SUBSET tables, define : SUBSET tables] : c.extract \cap c.define = {}}

\* (Variant, to test the checks: over the guard, the first tables are read.)
LocateSome ==
  /\ At("locate")
  /\ \E c \in Classifications(TablesOf(worker.doc)) :
       \E some \in SUBSET c.extract :
         /\ Cardinality(some) <= MaxTables
         /\ Cardinality(c.extract) > MaxTables \/ some = c.extract
         /\ Step([worker EXCEPT !.pc = "extract", !.todo = some, !.chosen = c.extract,
                                !.definitions = c.define])
  /\ UNCHANGED <<generation, delivered, catalogued, run, documentOf, component, written,
                 match, reviewRows>>

Locate ==
  /\ At("locate")
  /\ \E c \in Classifications(TablesOf(worker.doc)) :
       IF Cardinality(c.extract) > MaxTables THEN RunFails
       ELSE /\ Step([worker EXCEPT !.pc = "extract", !.todo = c.extract, !.chosen = c.extract,
                                   !.definitions = c.define])
            /\ UNCHANGED run
  /\ UNCHANGED <<generation, delivered, catalogued, documentOf, component, written,
                 match, reviewRows>>

Linkable(t, answer, at) == {[record |-> r, table |-> t, at |-> at] : r \in answer}

\* (Variant, to test the checks: the cache is written and never read.)
NotCached(t) == TRUE

Uncached(t) == cache[t] = NULL

\* One paid call; a throttle, a refusal or prose twice ends the run.
AskModel(t) ==
  /\ At("extract") /\ t \in worker.todo /\ Uncached(t)
  /\ \/ /\ \E answer \in Answers : Step([worker EXCEPT !.pc = "remember", !.answer = <<t, answer>>])
        /\ asked' = [asked EXCEPT ![t] = @ + 1]
        /\ UNCHANGED run
     \/ "bedrock" \in Faults /\ RunFails /\ UNCHANGED asked
  /\ UNCHANGED <<generation, delivered, cache, documentOf, component, written, match, reviewRows>>

Remember ==
  LET t == worker.answer[1]
      fresh == [answer |-> worker.answer[2], at |-> generation[worker.doc]]
  IN /\ At("remember")
     /\ cache' = [cache EXCEPT ![t] = fresh]
     /\ Step([worker EXCEPT !.pc = "extract", !.answer = NULL, !.todo = @ \ {t},
                            !.records = @ \cup Linkable(t, fresh.answer, fresh.at)])
     /\ UNCHANGED <<generation, delivered, asked, run, documentOf, component, written, match, reviewRows>>

Reuse(t) ==
  /\ At("extract") /\ t \in worker.todo /\ ~Uncached(t)
  /\ Step([worker EXCEPT !.todo = @ \ {t},
                         !.records = @ \cup Linkable(t, cache[t].answer, cache[t].at)])
  /\ UNCHANGED <<generation, delivered, catalogued, run, documentOf, component, written, match, reviewRows>>

StartLink ==
  /\ At("extract") /\ worker.todo = {}
  /\ Step([worker EXCEPT !.pc = "link"])
  /\ UNCHANGED <<generation, delivered, catalogued, run, documentOf, component, written, match, reviewRows>>

(***************************************************************************)
(* LINK.                                                                   *)
(***************************************************************************)
SameMark(r, door) == \E o \in OpeningsOf(r) : opening[o].door = door

\* One record, in one transaction; one without a mark is skipped.  A second
\* reading of a mark in the same run breaks uniq_opening_per_run and ends the run.
LinkRecord ==
  /\ At("link")
  /\ \E linkable \in worker.records :
       LET record == linkable.record
           linked == LinkOpening(record, linkable.at, {generation[worker.doc]})
           row == created + 1
       IN CASE record.door = NoMark ->
                 /\ Step([worker EXCEPT !.records = @ \ {linkable}])
                 /\ UNCHANGED <<written, run>>
            [] SameMark(worker.run, record.door) -> RunFails /\ UNCHANGED written
            [] OTHER ->
               /\ row <= MaxRows
               /\ opening' = [opening EXCEPT ![row] =
                    [run |-> worker.run, door |-> record.door,
                     value |-> [f \in OpeningFields |-> Typed(f, Raw(linked[f]))],
                     review |-> Flag(NeedsReview(record, linked)), notes |-> {}]]
               /\ prov' = [prov EXCEPT ![row] = linked]
               /\ created' = row
               /\ doors' = doors \cup {<<worker.run, record.door>>}
               /\ Step([worker EXCEPT !.records = @ \ {linkable}])
               /\ UNCHANGED run
  /\ UNCHANGED <<generation, delivered, catalogued, documentOf, component, match, reviewRows>>

Callouts(r) == {opening[o].value["hardware_group"] : o \in OpeningsOf(r)} \ {NULL}

Unfound(g) == [run |-> worker.run, group |-> g, resolved |-> FALSE, cites |-> {}]
Found(g) == [run |-> worker.run, group |-> g, resolved |-> TRUE,
             cites |-> {generation[worker.doc]}]

\* The sets written: those the model names, each found in the definitions or not,
\* whether an opening calls for it or not, and every callout that it forgot, as not
\* found.  A found set whose every description the gate refuses writes no row at all.
Nameable(callouts) == callouts \cup Text("hardware_group")
PersistedSets(callouts) ==
  {{Found(g) : g \in found} \cup {Unfound(g) : g \in (callouts \cup named) \ (found \cup refused)} :
     found, named, refused \in SUBSET Nameable(callouts)}

\* The callouts of this run's openings, as the rows stand now.
ReadCallouts ==
  LET callouts == Callouts(worker.run)
  IN /\ At("link") /\ worker.records = {}
     /\ \/ /\ callouts = {} \/ worker.definitions = {}
           /\ Step([worker EXCEPT !.pc = "hardware", !.sets = {Unfound(g) : g \in callouts}])
           /\ UNCHANGED run
        \/ /\ callouts # {} /\ worker.definitions # {}
           /\ \/ /\ \E sets \in PersistedSets(callouts) :
                      Step([worker EXCEPT !.pc = "hardware", !.sets = sets])
                 /\ UNCHANGED run
              \/ "bedrock" \in Faults /\ RunFails
     /\ UNCHANGED <<generation, delivered, catalogued, documentOf, component, written, match, reviewRows>>

\* One hardware set, in one transaction.
PersistSet ==
  /\ At("hardware")
  /\ \E set \in worker.sets :
       /\ component' = component \cup {set}
       /\ Step([worker EXCEPT !.sets = @ \ {set}])
  /\ UNCHANGED <<generation, delivered, catalogued, run, documentOf, written, match, reviewRows>>

(***************************************************************************)
(* MATCH: every opening of the project, as it was read.                    *)
(***************************************************************************)
Minutes(v) == IF v \in Text("fire_rating") THEN v[2] ELSE NULL
Hand(v) == IF v \in Text("handing") THEN v[2] ELSE NULL

\* (Variant, to test the checks: an open rating is matched around.)
FitsAround(value, item) ==
  /\ Rules!RatingOk(Minutes(value["fire_rating"]), item.minutes)
  /\ Rules!HandingOk(Hand(value["handing"]), item.handing)

\* A component has the hard constraints of the opening that calls for it.
Fits(value, item) ==
  /\ value["fire_rating"] # Unresolved /\ value["handing"] # Unresolved
  /\ Rules!RatingOk(Minutes(value["fire_rating"]), item.minutes)
  /\ Rules!HandingOk(Hand(value["handing"]), item.handing)

\* What an opening is matched for: the door itself and each component it calls for.
Parts(value) == {NULL} \cup {c \in component : c.resolved /\ c.group = value["hardware_group"]}
PartsToMatch ==
  UNION {{o} \X Parts(opening[o].value) : o \in {r \in Rows : opening[r] # NULL}}

CompleteRun ==
  /\ At("hardware") /\ worker.sets = {}
  /\ run' = [run EXCEPT ![worker.run] = "COMPLETED"]
  /\ Step([worker EXCEPT !.pc = "match", !.rows = opening, !.parts = PartsToMatch])
  /\ UNCHANGED <<generation, delivered, catalogued, documentOf, component, written, match, reviewRows>>

Proposals(o, part, value, status) ==
  {[opening |-> o, part |-> part, item |-> i, status |-> status] :
     i \in {item \in Items : Fits(value, item)}}

\* The openings are matched one by one, each before the components it calls for.
Begun == {o \in Rows : <<o, NULL>> \notin worker.parts /\ \E c \in component : <<o, c>> \in worker.parts}
Due(o, part) == IF Begun = {} THEN part = NULL ELSE o \in Begun

\* (Variant, to test the checks: the opening is saved whole, as it was read.)
SavedWhole(o, copy) == [copy EXCEPT !.notes = @ \cup {"reason"}]

\* The reason is added to the notes as they were read; only they are saved.
Annotated(o, copy) == [opening[o] EXCEPT !.notes = copy.notes \cup {"reason"}]

\* (persist_matches) The matches of an opening, or of a component for it, are replaced
\* in one transaction.  Without a match to offer, or with none above the cut-off, it is
\* left to be matched by hand, and an opening says why.  Writing for an opening that is
\* gone ends the run: a match breaks its foreign key and the save finds no row.
MatchPart ==
  /\ At("match")
  /\ \E x \in worker.parts, status \in {"PROPOSED", "MANUAL"} :
       LET o == x[1]
           part == x[2]
           left == worker.parts \ {x}
           found == Proposals(o, part, worker.rows[o].value, status)
       IN /\ Due(o, part)
          /\ found = {} => status = "MANUAL"
          /\ IF opening[o] = NULL /\ (part = NULL \/ found # {})
             THEN RunFails /\ UNCHANGED <<opening, match>>
             ELSE /\ match' = {m \in match : m.opening # o \/ m.part # part} \cup found
                  /\ opening' = IF part = NULL /\ status = "MANUAL"
                                THEN [opening EXCEPT ![o] = Annotated(o, worker.rows[o])]
                                ELSE opening
                  /\ Step([worker EXCEPT !.parts = left,
                            !.rows[o] = IF \E y \in left : y[1] = o THEN @ ELSE NULL])
                  /\ UNCHANGED run
  /\ UNCHANGED <<generation, delivered, catalogued, documentOf, component, prov, created,
                 doors, reviewRows>>

\* What PRICE does is in QuoteLifecycle; when it raises the run says FAILED.
Price ==
  /\ At("match") /\ worker.parts = {}
  /\ \/ Step(IdleWorker) /\ UNCHANGED run
     \/ RunFails
  /\ UNCHANGED <<generation, delivered, catalogued, documentOf, component, written, match, reviewRows>>

WorkerDies ==
  /\ ~At("idle") /\ "worker" \in Faults
  /\ Step(IdleWorker)
  /\ UNCHANGED <<generation, delivered, catalogued, run, documentOf, component, written, match, reviewRows>>

WorkerStep ==
  \/ \E d \in Documents : Normalise(d)
  \/ StartRun \/ Locate
  \/ \E t \in Tables : AskModel(t) \/ Reuse(t)
  \/ Remember \/ StartLink \/ LinkRecord \/ ReadCallouts \/ PersistSet \/ CompleteRun
  \/ MatchPart \/ Price \/ WorkerDies
=============================================================================
