---------------------------- MODULE TakeoffProofs ----------------------------
(***************************************************************************)
(* Theorems about Takeoff, for any number of documents, tables, rows,      *)
(* deliveries, estimators and reviews, any answers and any catalogue.      *)
(*                                                                         *)
(* An opening is held in several places at once: in its row, in what the   *)
(* MATCH stage read before it started to write, and in every request that  *)
(* will save the whole row.  TInv says what these copies have in common,   *)
(* whoever writes first and whichever of them is gone: a copy of an        *)
(* opening has the run and the fire rating that the opening was written    *)
(* with.  The rest of TInv says what the worker holds at each step.        *)
(***************************************************************************)
EXTENDS Takeoff, FiniteSetTheorems, TLAPS

Request == [pc : {"idle", "update", "keepOne", "keepBoth"}, row : Rows \cup {0},
            copy : OpeningRow \cup {NULL}]

\* The completions delivered, as a set of numbered deliveries.
Deliveries == {x \in Documents \X (1..MaxDeliveries) : x[2] <= delivered[x[1]]}
Waiting == IF worker.pc = "start" THEN 1 ELSE 0

\* Each run answers to a delivery, and they are numbered without a gap.
RunsOK ==
  \E k \in Nat : /\ {r \in Runs : run[r] # NULL} = 1..k
                 /\ k + Waiting <= Cardinality(Deliveries)

CountersOK ==
  /\ generation \in [Documents -> Generations]
  /\ delivered \in [Documents -> 0..MaxDeliveries]
  /\ \A d \in Documents : generation[d] <= delivered[d]
  /\ cache \in [Tables -> CachedAnswer \cup {NULL}]
  /\ asked \in [Tables -> Nat]
  /\ run \in [Runs -> RunStatus \cup {NULL}]
  /\ documentOf \in [Runs -> Documents \cup {NULL}]
  /\ \A r \in Runs : run[r] # NULL => documentOf[r] \in Documents

\* The row of an opening and whatever is held of it elsewhere.
Copies(o) ==
  ({opening[o], worker.rows[o]} \cup {request[e].copy : e \in {x \in Estimators : request[x].row = o}})
    \ {NULL}

RatingValue == Text("fire_rating") \cup {Absent, Unresolved}

CopyOK(c, status) ==
  /\ c \in OpeningRow
  /\ c.run # NULL => status[c.run] # NULL
  /\ c.value["fire_rating"] \in RatingValue

Alike(a, b) == a.run = b.run /\ a.value["fire_rating"] = b.value["fire_rating"]

RowCopiesOK(o) ==
  /\ \A c \in Copies(o) : o <= created /\ CopyOK(c, run)
  /\ \A a, b \in Copies(o) : Alike(a, b)

CopiesOK == \A o \in Rows : RowCopiesOK(o)

RowsOK ==
  /\ opening \in [Rows -> OpeningRow \cup {NULL}]
  /\ prov \in [Rows -> [OpeningFields -> Linked] \cup {NULL}]
  /\ \A o \in Rows : prov[o] # NULL => opening[o] # NULL /\ opening[o].run # NULL
  /\ component \subseteq Component
  /\ \A c \in component : run[c.run] # NULL
  /\ match \subseteq MatchRow
  /\ \A m \in match : opening[m.opening] # NULL

\* What a worker w holds, given the runs, their documents and the normalisations.
Holds(w, status, docs, current) ==
  /\ w.pc # "idle" => w.doc \in Documents
  /\ w.pc \notin {"idle", "start"} =>
       w.run \in Runs /\ status[w.run] # NULL /\ docs[w.run] = w.doc
  /\ w.pc = "remember" => w.answer \in Tables \X Answers
  /\ w.pc # "hardware" => w.sets = {}
  /\ w.pc # "match" => w.parts = {}
  /\ \A x \in w.parts : w.rows[x[1]] # NULL
  /\ \A c \in w.sets : c.run = w.run /\ c.cites \subseteq {current[w.doc]}

WorkerOK == worker \in Worker /\ Holds(worker, run, documentOf, generation)

RequestOK ==
  /\ request \in [Estimators -> Request]
  /\ \A e \in Estimators : request[e].pc # "idle" =>
       request[e].row \in Rows /\ request[e].copy # NULL

LedgerOK ==
  /\ created \in 0..MaxRows
  /\ reviews \in 0..MaxReviews
  /\ feedback \cup edited \cup touched \subseteq Rows

TInv ==
  /\ CountersOK /\ RunsOK /\ CopiesOK /\ RowsOK /\ WorkerOK /\ RequestOK /\ LedgerOK

(***************************************************************************)
(* The gate and the typed columns.                                         *)
(***************************************************************************)
\* The texts a sheet carries are none of the marks that the columns use.
LEMMA TextsOK ==
  /\ \A f \in OpeningFields : Text(f) \subseteq Texts
  /\ Unresolved \notin Texts /\ Absent \notin Texts /\ Absent # Unresolved
  /\ NotThere \in Texts /\ NotThere # Absent /\ NotThere # Unresolved
  /\ NULL \notin RatingValue
  /\ \A v \in Text("fire_rating") : v[2] \in Ratings
<1>1. \A f \in OpeningFields : Text(f) \subseteq Texts
  BY DEF Texts
<1>2. /\ Text("fire_rating") = {<<"fire_rating", r>> : r \in Ratings}
      /\ Text("handing") = {<<"handing", h>> : h \in Hands}
      /\ Text("hardware_group") = {<<"hardware_group", g>> : g \in Groups}
  BY DEF Text
<1>3. ASSUME NEW x \in Texts PROVE x # Unresolved /\ x # Absent
  <2>1. x \in {NotThere, Garbled} \/ \E f \in OpeningFields : x \in Text(f)
    BY DEF Texts
  <2>2. CASE x \in {NotThere, Garbled}
    BY <2>2 DEF NotThere, Garbled, Unresolved, Absent
  <2>3. CASE \E f \in OpeningFields : x \in Text(f)
    BY <1>2, <2>3 DEF OpeningFields, Unresolved, Absent
  <2>. QED BY <2>1, <2>2, <2>3
<1>4. Absent # Unresolved /\ NotThere # Absent /\ NotThere # Unresolved
  BY DEF Absent, Unresolved, NotThere
<1>5. NotThere \in Texts
  BY DEF Texts
<1>6. NULL \notin RatingValue
  BY <1>1, TakeoffAssumption DEF RatingValue, OpeningFields
<1>7. \A v \in Text("fire_rating") : v[2] \in Ratings
  BY <1>2
<1>. QED BY <1>1, <1>3, <1>4, <1>5, <1>6, <1>7

\* One field: what is refused cites nothing, what a zero-tolerance column takes
\* over was accepted against an element, and an open column is seen on the row.
LEMMA LinkFieldOK ==
  ASSUME NEW f \in OpeningFields, NEW e \in Emission \cup {NULL}, NEW at \in Nat,
         NEW supplied \in SUBSET Nat
  PROVE  LET l == LinkField(f, e, at, supplied)
         IN /\ l \in Linked
            /\ l.cites \subseteq supplied
            /\ l.state \in {"AUTO", "FLAGGED", "REJECTED"}
            /\ Typed(f, Raw(l)) \in Value
            /\ f = "fire_rating" => Typed(f, Raw(l)) \in RatingValue
            /\ f \in ZeroTolerance /\ Typed(f, Raw(l)) # Unresolved =>
                 l.state # "REJECTED" /\ l.cites # {}
            /\ f \notin ParsedFields => Typed(f, Raw(l)) # Unresolved
<1> DEFINE l == LinkField(f, e, at, supplied)
<1>1. CASE e = NULL
  <2>1. l = [value |-> NULL, cites |-> {}, state |-> "FLAGGED", reason |-> NULL, named |-> {}]
    BY <1>1 DEF LinkField
  <2> HIDE DEF l
  <2>2. /\ l \in Linked /\ l.cites = {} /\ l.state = "FLAGGED" /\ Raw(l) = NULL
    BY <2>1 DEF Linked, ReviewState, Raw
  <2>3. f \in ParsedFields => Typed(f, NULL) = Unresolved
    BY TextsOK, TakeoffAssumption DEF Typed
  <2>4. f \notin ParsedFields => Typed(f, NULL) = NULL
    BY DEF Typed
  <2>5. Unresolved # NULL
    BY TakeoffAssumption
  <2>. QED BY <2>2, <2>3, <2>4, <2>5
       DEF l, Value, RatingValue, ZeroTolerance, ParsedFields, OpeningFields
<1>2. CASE e # NULL
  <2> DEFINE ids == SourceIds(e, at)
             verdict == Verdict(e, ids, supplied)
             state == Flag(IF verdict = "ACCEPT_NULL" THEN f \in ZeroTolerance ELSE ~e.sure)
  <2>1. e \in Emission /\ e.value \in Texts \cup {NULL} /\ e.cites \in {"none", "shown", "invented"}
    BY <1>2 DEF Emission
  <2>2. ids \in SUBSET Nat
    BY <2>1 DEF SourceIds
  <2>3. state \in {"AUTO", "FLAGGED"} /\ state \in ReviewState
    BY DEF Flag, ReviewState
  <2>4. CASE verdict \in RejectionCode
    <3>1. l = [value |-> e.value, cites |-> {}, state |-> "REJECTED",
               reason |-> verdict, named |-> ids]
      BY <1>2, <2>4 DEF LinkField
    <3> HIDE DEF l, ids, verdict, state
    <3>2. l \in Linked /\ l.cites = {} /\ l.state = "REJECTED" /\ Raw(l) = NULL
      BY <2>1, <2>2, <2>4, <3>1 DEF Linked, ReviewState, Raw
    <3>3. f \in ParsedFields => Typed(f, NULL) = Unresolved
      BY TextsOK, TakeoffAssumption DEF Typed
    <3>4. f \notin ParsedFields => Typed(f, NULL) = NULL
      BY DEF Typed
    <3>5. Unresolved # NULL
      BY TakeoffAssumption
    <3>. QED BY <3>2, <3>3, <3>4, <3>5
         DEF l, Value, RatingValue, ZeroTolerance, ParsedFields, OpeningFields
  <2>5. CASE verdict \notin RejectionCode
    <3>1. l = [value |-> e.value, cites |-> ids, reason |-> NULL, named |-> {}, state |-> state]
      BY <1>2, <2>5 DEF LinkField
    <3>2. ids \subseteq supplied /\ (e.value # NULL => ids # {})
      BY <2>5 DEF Verdict, RejectionCode
    <3> HIDE DEF l, ids, verdict, state
    <3>3. l \in Linked /\ l.cites = ids /\ l.state = state /\ Raw(l) = e.value
      BY <2>1, <2>2, <2>3, <3>1 DEF Linked, Raw
    <3>4. Typed(f, e.value) \in Value
      BY <2>1, TextsOK DEF Typed, Value
    <3>5. f = "fire_rating" => Typed(f, e.value) \in RatingValue
      BY <2>1 DEF Typed, RatingValue, ParsedFields
    <3>6. f \in ZeroTolerance /\ Typed(f, e.value) # Unresolved => e.value # NULL
      BY TextsOK, TakeoffAssumption DEF Typed, ZeroTolerance, ParsedFields, OpeningFields
    <3>7. f \notin ParsedFields => Typed(f, e.value) # Unresolved
      BY <2>1, TextsOK, TakeoffAssumption DEF Typed
    <3>8. state # "REJECTED"
      BY <2>3
    <3>. QED BY <2>3, <3>2, <3>3, <3>4, <3>5, <3>6, <3>7, <3>8 DEF l
  <2>. QED BY <2>4, <2>5
<1>. QED BY <1>1, <1>2

\* The record of an opening, linked: the same for each of its fields.
LEMMA LinkOpeningOK ==
  ASSUME NEW record \in Record, NEW at \in Nat, NEW supplied \in SUBSET Nat
  PROVE  LET linked == LinkOpening(record, at, supplied)
         IN /\ linked \in [OpeningFields -> Linked]
            /\ \A f \in OpeningFields :
                 /\ linked[f].cites \subseteq supplied
                 /\ linked[f].state \in {"AUTO", "FLAGGED", "REJECTED"}
                 /\ Typed(f, Raw(linked[f])) \in Value
                 /\ f = "fire_rating" => Typed(f, Raw(linked[f])) \in RatingValue
                 /\ f \in ZeroTolerance /\ Typed(f, Raw(linked[f])) # Unresolved =>
                      linked[f].state # "REJECTED" /\ linked[f].cites # {}
                 /\ f \notin ParsedFields => Typed(f, Raw(linked[f])) # Unresolved
<1> DEFINE linked == LinkOpening(record, at, supplied)
<1>1. record.fields \in [OpeningFields -> Emission \cup {NULL}]
  BY DEF Record
<1>2. \A f \in OpeningFields : linked[f] = LinkField(f, record.fields[f], at, supplied)
  BY DEF LinkOpening
<1>3. \A f \in OpeningFields : record.fields[f] \in Emission \cup {NULL}
  BY <1>1
<1>4. ASSUME NEW f \in OpeningFields
      PROVE  /\ linked[f] \in Linked
             /\ linked[f].cites \subseteq supplied
             /\ linked[f].state \in {"AUTO", "FLAGGED", "REJECTED"}
             /\ Typed(f, Raw(linked[f])) \in Value
             /\ f = "fire_rating" => Typed(f, Raw(linked[f])) \in RatingValue
             /\ f \in ZeroTolerance /\ Typed(f, Raw(linked[f])) # Unresolved =>
                  linked[f].state # "REJECTED" /\ linked[f].cites # {}
             /\ f \notin ParsedFields => Typed(f, Raw(linked[f])) # Unresolved
  <2> DEFINE e == record.fields[f]
  <2>1. e \in Emission \cup {NULL} /\ linked[f] = LinkField(f, e, at, supplied)
    BY <1>2, <1>3
  <2> HIDE DEF e, linked
  <2>. QED BY <2>1, LinkFieldOK
<1>5. linked \in [OpeningFields -> Linked]
  <2>1. linked = [f \in OpeningFields |-> linked[f]]
    BY DEF LinkOpening
  <2> HIDE DEF linked
  <2>. QED BY <1>4, <2>1
<1> HIDE DEF linked
<1>6. /\ linked \in [OpeningFields -> Linked]
      /\ \A f \in OpeningFields :
           /\ linked[f].cites \subseteq supplied
           /\ linked[f].state \in {"AUTO", "FLAGGED", "REJECTED"}
           /\ Typed(f, Raw(linked[f])) \in Value
           /\ f = "fire_rating" => Typed(f, Raw(linked[f])) \in RatingValue
           /\ f \in ZeroTolerance /\ Typed(f, Raw(linked[f])) # Unresolved =>
                linked[f].state # "REJECTED" /\ linked[f].cites # {}
           /\ f \notin ParsedFields => Typed(f, Raw(linked[f])) # Unresolved
  BY <1>4, <1>5
<1>. QED BY <1>6 DEF linked

(***************************************************************************)
(* What a step must respect to keep TInv.                                  *)
(***************************************************************************)
\* A row keeps its copies alike when every copy is alike one there was.
LEMMA AlikeStep ==
  ASSUME TInv, NEW o \in Rows, LedgerOK', created <= created',
         \A c \in Copies(o)' : CopyOK(c, run') /\ \E b \in Copies(o) : Alike(c, b)
  PROVE  RowCopiesOK(o)'
<1>1. RowCopiesOK(o)
  BY DEF TInv, CopiesOK
<1>2. created \in Nat /\ created' \in Nat /\ o \in Nat
  BY TakeoffAssumption DEF TInv, LedgerOK, Rows
<1>3. ASSUME NEW c \in Copies(o)' PROVE o <= created'
  <2>1. o <= created
    BY <1>1 DEF RowCopiesOK
  <2>. QED BY <1>2, <2>1
<1>4. ASSUME NEW a \in Copies(o)', NEW b \in Copies(o)' PROVE Alike(a, b)
  <2>1. PICK x \in Copies(o) : Alike(a, x)
    OBVIOUS
  <2>2. PICK y \in Copies(o) : Alike(b, y)
    OBVIOUS
  <2>3. Alike(x, y)
    BY <1>1 DEF RowCopiesOK
  <2>. QED BY <2>1, <2>2, <2>3 DEF Alike
<1>. QED BY <1>3, <1>4 DEF RowCopiesOK

\* A row that is written for the first time has one copy.
LEMMA FreshCopy ==
  ASSUME NEW o \in Rows, NEW c, Copies(o)' \subseteq {c}, CopyOK(c, run'), o <= created'
  PROVE  RowCopiesOK(o)'
BY DEF RowCopiesOK, Alike

\* Nobody holds a row that was not written yet.
LEMMA NobodyHolds ==
  ASSUME TInv, NEW o \in Rows, o > created
  PROVE  /\ opening[o] = NULL /\ worker.rows[o] = NULL /\ prov[o] = NULL
         /\ \A e \in Estimators : request[e].row = o => request[e].copy = NULL
         /\ \A m \in match : m.opening # o
<1>1. created \in Nat /\ o \in Nat
  BY TakeoffAssumption DEF TInv, LedgerOK, Rows
<1>2. Copies(o) = {}
  <2>1. RowCopiesOK(o)
    BY DEF TInv, CopiesOK
  <2>. QED BY <1>1, <2>1 DEF RowCopiesOK
<1>3. /\ opening[o] = NULL /\ worker.rows[o] = NULL
      /\ \A e \in Estimators : request[e].row = o => request[e].copy = NULL
  BY <1>2 DEF Copies
<1>. QED BY <1>3 DEF TInv, RowsOK

\* The copies in a row and in a worker's memory.
LEMMA CopyFacts ==
  ASSUME TInv, NEW o \in Rows
  PROVE  /\ \A c \in Copies(o) : c # NULL /\ CopyOK(c, run) /\ c \in OpeningRow /\ o <= created
         /\ opening[o] # NULL => opening[o] \in Copies(o)
         /\ worker.rows[o] # NULL => worker.rows[o] \in Copies(o)
         /\ \A e \in Estimators : request[e].row = o /\ request[e].copy # NULL =>
              request[e].copy \in Copies(o)
         /\ \A a, b \in Copies(o) : Alike(a, b)
<1>1. RowCopiesOK(o)
  BY DEF TInv, CopiesOK
<1>. QED BY <1>1 DEF RowCopiesOK, Copies, CopyOK

\* A run that was created stays created.
LEMMA CopyStays ==
  ASSUME TInv, NEW c, CopyOK(c, run), \A r \in Runs : run[r] # NULL => run'[r] # NULL
  PROVE  CopyOK(c, run')
<1>1. c.run \in Runs \cup {NULL}
  BY DEF CopyOK, OpeningRow
<1>. QED BY <1>1 DEF CopyOK

\* There are finitely many deliveries, so they can be counted.
LEMMA DeliveriesFinite ==
  ASSUME CountersOK
  PROVE  /\ IsFiniteSet(Deliveries) /\ Cardinality(Deliveries) \in Nat
         /\ Cardinality(Deliveries) <= MaxDeliveries * Cardinality(Documents)
<1> DEFINE all == Documents \X (1..MaxDeliveries)
<1>1. /\ IsFiniteSet(1..MaxDeliveries) /\ Cardinality(1..MaxDeliveries) = MaxDeliveries
  BY FS_Interval, TakeoffAssumption
<1>2. IsFiniteSet(all) /\ Cardinality(all) = Cardinality(Documents) * MaxDeliveries
  BY <1>1, FS_Product, TakeoffAssumption
<1>3. Deliveries \in SUBSET all
  BY DEF Deliveries
<1> HIDE DEF all
<1>4. IsFiniteSet(Deliveries) /\ Cardinality(Deliveries) <= Cardinality(all)
  BY <1>2, <1>3, FS_Subset
<1>5. Cardinality(Deliveries) \in Nat /\ Cardinality(Documents) \in Nat
  BY <1>4, FS_CardinalityType, TakeoffAssumption
<1>6. Cardinality(Documents) * MaxDeliveries = MaxDeliveries * Cardinality(Documents)
  BY <1>5, TakeoffAssumption
<1>. QED BY <1>2, <1>4, <1>5, <1>6

\* Steps of the worker that write no row of the takeoff but its run's and the cache's.
LEMMA WorkerFrame ==
  ASSUME TInv, NEW s \in Worker, Step(s),
         UNCHANGED <<generation, delivered, documentOf, component, opening, prov, created,
                     match, reviewRows>>,
         cache' \in [Tables -> CachedAnswer \cup {NULL}],
         asked' \in [Tables -> Nat],
         run' \in [Runs -> RunStatus \cup {NULL}],
         \A r \in Runs : run'[r] = NULL <=> run[r] = NULL,
         s.pc # "start",
         \A o \in Rows : s.rows[o] \in {NULL, opening[o], worker.rows[o]},
         Holds(s, run, documentOf, generation)
  PROVE  TInv'
<1>1. UNCHANGED <<generation, delivered, documentOf, component, opening, prov, created, match,
                  request, reviews, feedback, edited, touched>> /\ worker' = s
  BY DEF reviewRows, Step
<1>2. CountersOK' /\ LedgerOK' /\ RequestOK'
  BY <1>1 DEF TInv, CountersOK, LedgerOK, RequestOK
<1>3. RunsOK'
  <2>1. PICK k \in Nat : /\ {r \in Runs : run[r] # NULL} = 1..k
                         /\ k + Waiting <= Cardinality(Deliveries)
    BY DEF TInv, RunsOK
  <2>2. {r \in Runs : run'[r] # NULL} = {r \in Runs : run[r] # NULL}
    OBVIOUS
  <2>3. Deliveries' = Deliveries
    BY <1>1 DEF Deliveries
  <2>4. Waiting' = 0 /\ Waiting \in {0, 1}
    BY <1>1 DEF Waiting
  <2>5. Cardinality(Deliveries) \in Nat
    BY DeliveriesFinite DEF TInv
  <2>6. k + Waiting' <= Cardinality(Deliveries')
    BY <2>1, <2>3, <2>4, <2>5
  <2>. QED BY <2>1, <2>2, <2>6 DEF RunsOK
<1>4. CopiesOK'
  <2>1. ASSUME NEW o \in Rows PROVE RowCopiesOK(o)'
    <3>1. Copies(o)' \subseteq Copies(o)
      BY <1>1 DEF Copies
    <3>2. ASSUME NEW c \in Copies(o)' PROVE CopyOK(c, run') /\ \E b \in Copies(o) : Alike(c, b)
      <4>1. c \in Copies(o) /\ CopyOK(c, run)
        BY <3>1, CopyFacts
      <4>. QED BY <4>1, CopyStays DEF Alike
    <3>3. created <= created'
      BY <1>1, TakeoffAssumption DEF TInv, LedgerOK
    <3>. QED BY <1>2, <3>2, <3>3, AlikeStep
  <2>. QED BY <2>1 DEF CopiesOK
<1>5. RowsOK'
  <2>1. \A c \in component : c.run \in Runs
    BY DEF TInv, RowsOK, Component
  <2>. QED BY <1>1, <2>1 DEF TInv, RowsOK
<1>6. WorkerOK'
  <2>1. Holds(s, run', documentOf', generation')
    BY <1>1 DEF Holds
  <2>. QED BY <1>1, <2>1 DEF WorkerOK
<1>. QED BY <1>2, <1>3, <1>4, <1>5, <1>6 DEF TInv

(***************************************************************************)
(* The worker's steps, up to the link stage.                               *)
(***************************************************************************)
LEMMA IdleWorkerOK ==
  /\ IdleWorker \in Worker /\ IdleWorker.pc = "idle" /\ IdleWorker.sets = {} /\ IdleWorker.parts = {}
  /\ \A o \in Rows : IdleWorker.rows[o] = NULL
  /\ \A status, docs, current : Holds(IdleWorker, status, docs, current)
<1>1. NoRows \in [Rows -> OpeningRow \cup {NULL}] /\ \A o \in Rows : NoRows[o] = NULL
  BY DEF NoRows
<1> HIDE DEF NoRows
<1>2. /\ IdleWorker \in Worker /\ IdleWorker.pc = "idle" /\ IdleWorker.sets = {} /\ IdleWorker.parts = {}
      /\ IdleWorker.rows = NoRows
  BY <1>1 DEF IdleWorker, Worker, WorkerPc
<1>. QED BY <1>1, <1>2 DEF Holds

LEMMA TInvInit ==
  TakeoffInit => TInv
<1> SUFFICES ASSUME TakeoffInit PROVE TInv
  OBVIOUS
<1> USE DEF TakeoffInit
<1>1. CountersOK
  BY TakeoffAssumption DEF CountersOK, Generations
<1>2. RunsOK
  <2>1. {r \in Runs : run[r] # NULL} = 1..0
    OBVIOUS
  <2>2. Waiting = 0
    BY DEF Waiting, IdleWorker
  <2>3. Cardinality(Deliveries) \in Nat
    BY <1>1, DeliveriesFinite
  <2>4. 0 + Waiting <= Cardinality(Deliveries)
    BY <2>2, <2>3
  <2>. QED BY <2>1, <2>4 DEF RunsOK
<1>3. CopiesOK
  <2>1. ASSUME NEW o \in Rows PROVE Copies(o) = {}
    <3>1. worker.rows[o] = NULL /\ opening[o] = NULL
      BY IdleWorkerOK DEF NoRows
    <3>2. \A e \in Estimators : request[e].copy = NULL
      BY DEF IdleRequest
    <3>. QED BY <3>1, <3>2 DEF Copies
  <2>. QED BY <2>1 DEF CopiesOK, RowCopiesOK
<1>4. RowsOK
  BY DEF RowsOK, NoRows
<1>5. WorkerOK
  BY IdleWorkerOK DEF WorkerOK
<1>6. RequestOK
  <2>1. IdleRequest \in Request /\ IdleRequest.pc = "idle"
    BY DEF IdleRequest, Request
  <2>. QED BY <2>1 DEF RequestOK
<1>7. LedgerOK
  BY TakeoffAssumption DEF LedgerOK
<1>. QED BY <1>1, <1>2, <1>3, <1>4, <1>5, <1>6, <1>7 DEF TInv

LEMMA RunFailsOK ==
  ASSUME TInv, worker.pc \notin {"idle", "start"}, RunFails,
         UNCHANGED <<generation, delivered, catalogued, documentOf, component, opening, prov,
                     created, match, reviewRows>>
  PROVE  TInv'
<1>1. worker.run \in Runs /\ run[worker.run] # NULL
  BY DEF TInv, WorkerOK, Holds
<1>2. /\ cache' \in [Tables -> CachedAnswer \cup {NULL}]
      /\ asked' \in [Tables -> Nat]
      /\ run \in [Runs -> RunStatus \cup {NULL}]
  BY DEF catalogued, TInv, CountersOK
<1>3. /\ run' \in [Runs -> RunStatus \cup {NULL}]
      /\ \A r \in Runs : run'[r] = NULL <=> run[r] = NULL
  BY <1>1, <1>2, TakeoffAssumption DEF RunFails, RunStatus
<1>4. Step(IdleWorker)
  BY DEF RunFails
<1>5. /\ IdleWorker \in Worker /\ IdleWorker.pc # "start"
      /\ \A o \in Rows : IdleWorker.rows[o] \in {NULL, opening[o], worker.rows[o]}
      /\ Holds(IdleWorker, run, documentOf, generation)
  BY IdleWorkerOK
<1>. QED BY <1>2, <1>3, <1>4, <1>5, WorkerFrame

\* Steps of the worker that change nothing but its memory.
LEMMA MemoryFrame ==
  ASSUME TInv, NEW s \in Worker, Step(s), s.pc # "start",
         UNCHANGED <<generation, delivered, catalogued, run, documentOf, component, opening, prov,
                     created, match, reviewRows>>,
         \A o \in Rows : s.rows[o] \in {NULL, opening[o], worker.rows[o]},
         Holds(s, run, documentOf, generation)
  PROVE  TInv'
<1>1. /\ cache' \in [Tables -> CachedAnswer \cup {NULL}]
      /\ asked' \in [Tables -> Nat]
      /\ run' \in [Runs -> RunStatus \cup {NULL}]
      /\ \A r \in Runs : run'[r] = NULL <=> run[r] = NULL
  BY DEF catalogued, TInv, CountersOK
<1>. QED BY <1>1, WorkerFrame

\* What the worker holds while it reads a document.
LEMMA AtWork ==
  ASSUME TInv, worker.pc \notin {"idle", "start"}
  PROVE  /\ worker \in Worker /\ worker.doc \in Documents /\ worker.run \in Runs
         /\ run[worker.run] # NULL /\ documentOf[worker.run] = worker.doc
         /\ generation[worker.doc] \in Generations /\ generation[worker.doc] \in Nat
         /\ worker.pc = "remember" => worker.answer \in Tables \X Answers
         /\ worker.pc # "hardware" => worker.sets = {}
         /\ worker.pc # "match" => worker.parts = {}
         /\ worker.parts \subseteq Rows \X (Component \cup {NULL})
         /\ \A x \in worker.parts : worker.rows[x[1]] # NULL
         /\ \A c \in worker.sets : c.run = worker.run /\ c.cites \subseteq {generation[worker.doc]}
         /\ worker.records \subseteq [record : Record, table : Tables, at : Generations]
         /\ worker.todo \subseteq Tables /\ worker.sets \subseteq Component
         /\ worker.rows \in [Rows -> OpeningRow \cup {NULL}]
<1>1. worker \in Worker /\ Holds(worker, run, documentOf, generation)
  BY DEF TInv, WorkerOK
<1>2. worker.doc \in Documents /\ generation \in [Documents -> Generations]
  BY <1>1 DEF TInv, CountersOK, Holds
<1>3. generation[worker.doc] \in Generations /\ generation[worker.doc] \in Nat
  BY <1>2, TakeoffAssumption DEF Generations
<1>4. /\ worker.records \subseteq [record : Record, table : Tables, at : Generations]
      /\ worker.todo \subseteq Tables /\ worker.sets \subseteq Component
      /\ worker.rows \in [Rows -> OpeningRow \cup {NULL}]
      /\ worker.parts \subseteq Rows \X (Component \cup {NULL})
  BY <1>1 DEF Worker
<1>. QED BY <1>1, <1>2, <1>3, <1>4 DEF Holds

LEMMA LocateStep ==
  ASSUME TInv, Locate
  PROVE  TInv'
<1>1. worker.pc = "locate" /\ worker.pc \notin {"idle", "start"}
  BY DEF Locate, At
<1>2. PICK c \in Classifications(TablesOf(worker.doc)) :
        IF Cardinality(c.extract) > MaxTables THEN RunFails
        ELSE /\ Step([worker EXCEPT !.pc = "extract", !.todo = c.extract, !.chosen = c.extract,
                                    !.definitions = c.define])
             /\ UNCHANGED run
  BY DEF Locate
<1>3. UNCHANGED <<generation, delivered, catalogued, documentOf, component, opening, prov,
                  created, match, reviewRows>>
  BY DEF Locate, written
<1>4. CASE RunFails
  BY <1>1, <1>3, <1>4, RunFailsOK
<1>5. CASE ~RunFails
  <2> DEFINE s == [worker EXCEPT !.pc = "extract", !.todo = c.extract, !.chosen = c.extract,
                                 !.definitions = c.define]
  <2>1. Step(s) /\ UNCHANGED run
    BY <1>2, <1>5
  <2>2. c.extract \in SUBSET Tables /\ c.define \in SUBSET Tables
    BY DEF Classifications, TablesOf
  <2>3. /\ s \in Worker /\ s.pc = "extract" /\ s.doc = worker.doc /\ s.run = worker.run
        /\ s.sets = worker.sets /\ s.rows = worker.rows /\ s.parts = worker.parts
    BY <1>1, <2>2, AtWork DEF Worker, WorkerPc
  <2> HIDE DEF s
  <2>4. Holds(s, run, documentOf, generation)
    BY <1>1, <2>3, AtWork DEF Holds
  <2>. QED BY <1>3, <2>1, <2>3, <2>4, MemoryFrame
<1>. QED BY <1>4, <1>5

LEMMA AskModelStep ==
  ASSUME TInv, NEW t \in Tables, AskModel(t)
  PROVE  TInv'
<1>1. worker.pc = "extract" /\ worker.pc \notin {"idle", "start"}
  BY DEF AskModel, At
<1>2. UNCHANGED <<generation, delivered, cache, documentOf, component, opening, prov,
                  created, match, reviewRows>>
  BY DEF AskModel, written
<1>3. CASE RunFails /\ UNCHANGED asked
  BY <1>1, <1>2, <1>3, RunFailsOK DEF catalogued
<1>4. CASE /\ \E answer \in Answers : Step([worker EXCEPT !.pc = "remember", !.answer = <<t, answer>>])
           /\ asked' = [asked EXCEPT ![t] = @ + 1]
           /\ UNCHANGED run
  <2>1. PICK answer \in Answers :
          Step([worker EXCEPT !.pc = "remember", !.answer = <<t, answer>>])
    BY <1>4
  <2> DEFINE pair == <<t, answer>>
             s == [worker EXCEPT !.pc = "remember", !.answer = pair]
  <2>2. pair \in Tables \X Answers
    OBVIOUS
  <2>3. Step(s)
    BY <2>1
  <2> HIDE DEF pair
  <2>4. /\ s \in Worker /\ s.pc = "remember" /\ s.doc = worker.doc /\ s.run = worker.run
        /\ s.sets = worker.sets /\ s.rows = worker.rows /\ s.parts = worker.parts /\ s.answer = pair
    BY <1>1, <2>2, AtWork DEF Worker, WorkerPc
  <2> HIDE DEF s
  <2>5. Holds(s, run, documentOf, generation)
    BY <1>1, <2>2, <2>4, AtWork DEF Holds
  <2>6. /\ cache' \in [Tables -> CachedAnswer \cup {NULL}]
        /\ asked' \in [Tables -> Nat]
        /\ run' \in [Runs -> RunStatus \cup {NULL}]
        /\ \A r \in Runs : run'[r] = NULL <=> run[r] = NULL
    BY <1>2, <1>4 DEF TInv, CountersOK
  <2>. QED BY <1>2, <2>3, <2>4, <2>5, <2>6, WorkerFrame
<1>. QED BY <1>3, <1>4 DEF AskModel

\* The records of an answer, as the worker collects them.
LEMMA LinkableOK ==
  ASSUME NEW t \in Tables, NEW answer \in Answers, NEW at \in Generations
  PROVE  Linkable(t, answer, at) \subseteq [record : Record, table : Tables, at : Generations]
<1>1. answer \subseteq Record
  BY TakeoffAssumption
<1>. QED BY <1>1 DEF Linkable

LEMMA RememberStep ==
  ASSUME TInv, Remember
  PROVE  TInv'
<1> DEFINE t == worker.answer[1]
           at == generation[worker.doc]
           fresh == [answer |-> worker.answer[2], at |-> at]
           new == Linkable(t, fresh.answer, fresh.at)
           s == [worker EXCEPT !.pc = "extract", !.answer = NULL, !.todo = @ \ {t},
                               !.records = @ \cup new]
<1>1. worker.pc = "remember" /\ worker.pc \notin {"idle", "start"}
  BY DEF Remember, At
<1>2. UNCHANGED <<generation, delivered, asked, run, documentOf, component, opening, prov,
                  created, match, reviewRows>>
  BY DEF Remember, written
<1>3. Step(s) /\ cache' = [cache EXCEPT ![t] = fresh]
  BY DEF Remember
<1>4. t \in Tables /\ worker.answer[2] \in Answers /\ at \in Generations
  BY <1>1, AtWork
<1>5. fresh \in CachedAnswer
  BY <1>4 DEF CachedAnswer
<1>6. new \subseteq [record : Record, table : Tables, at : Generations]
  BY <1>4, LinkableOK
<1>7. /\ cache' \in [Tables -> CachedAnswer \cup {NULL}]
      /\ asked' \in [Tables -> Nat]
      /\ run' \in [Runs -> RunStatus \cup {NULL}]
      /\ \A r \in Runs : run'[r] = NULL <=> run[r] = NULL
  BY <1>2, <1>3, <1>5 DEF TInv, CountersOK
<1> HIDE DEF fresh, new, at, t
<1>8. /\ s \in Worker /\ s.pc = "extract" /\ s.doc = worker.doc /\ s.run = worker.run
      /\ s.sets = worker.sets /\ s.rows = worker.rows /\ s.parts = worker.parts
  BY <1>1, <1>6, AtWork DEF Worker, WorkerPc
<1> HIDE DEF s
<1>9. Holds(s, run, documentOf, generation)
  BY <1>1, <1>8, AtWork DEF Holds
<1>. QED BY <1>2, <1>3, <1>7, <1>8, <1>9, WorkerFrame

LEMMA ReuseStep ==
  ASSUME TInv, NEW t \in Tables, Reuse(t)
  PROVE  TInv'
<1> DEFINE new == Linkable(t, cache[t].answer, cache[t].at)
           s == [worker EXCEPT !.todo = @ \ {t}, !.records = @ \cup new]
<1>1. worker.pc = "extract" /\ worker.pc \notin {"idle", "start"}
  BY DEF Reuse, At
<1>2. UNCHANGED <<generation, delivered, catalogued, run, documentOf, component, opening, prov,
                  created, match, reviewRows>>
  BY DEF Reuse, written
<1>3. Step(s)
  BY DEF Reuse
<1>4. cache[t] \in CachedAnswer
  BY DEF Reuse, Uncached, TInv, CountersOK
<1>5. cache[t].answer \in Answers /\ cache[t].at \in Generations
  BY <1>4 DEF CachedAnswer
<1>6. new \subseteq [record : Record, table : Tables, at : Generations]
  BY <1>5, LinkableOK
<1> HIDE DEF new
<1>7. /\ s \in Worker /\ s.pc = "extract" /\ s.doc = worker.doc /\ s.run = worker.run
      /\ s.sets = worker.sets /\ s.rows = worker.rows /\ s.parts = worker.parts
  BY <1>1, <1>6, AtWork DEF Worker, WorkerPc
<1> HIDE DEF s
<1>8. Holds(s, run, documentOf, generation)
  BY <1>1, <1>7, AtWork DEF Holds
<1>. QED BY <1>2, <1>3, <1>7, <1>8, MemoryFrame

LEMMA StartLinkStep ==
  ASSUME TInv, StartLink
  PROVE  TInv'
<1> DEFINE s == [worker EXCEPT !.pc = "link"]
<1>1. worker.pc = "extract" /\ worker.pc \notin {"idle", "start"}
  BY DEF StartLink, At
<1>2. UNCHANGED <<generation, delivered, catalogued, run, documentOf, component, opening, prov,
                  created, match, reviewRows>>
  BY DEF StartLink, written
<1>3. Step(s)
  BY DEF StartLink
<1>4. /\ s \in Worker /\ s.pc = "link" /\ s.doc = worker.doc /\ s.run = worker.run
      /\ s.sets = worker.sets /\ s.rows = worker.rows /\ s.parts = worker.parts
  BY <1>1, AtWork DEF Worker, WorkerPc
<1> HIDE DEF s
<1>5. Holds(s, run, documentOf, generation)
  BY <1>1, <1>4, AtWork DEF Holds
<1>. QED BY <1>2, <1>3, <1>4, <1>5, MemoryFrame

\* The worker may die, or end with nothing left to do.
LEMMA IdleStep ==
  ASSUME TInv, Step(IdleWorker),
         UNCHANGED <<generation, delivered, catalogued, run, documentOf, component, opening, prov,
                     created, match, reviewRows>>
  PROVE  TInv'
<1>1. /\ IdleWorker \in Worker /\ IdleWorker.pc # "start"
      /\ \A o \in Rows : IdleWorker.rows[o] \in {NULL, opening[o], worker.rows[o]}
      /\ Holds(IdleWorker, run, documentOf, generation)
  BY IdleWorkerOK
<1>. QED BY <1>1, MemoryFrame

(***************************************************************************)
(* A delivery is normalised, and its run starts.                           *)
(***************************************************************************)
\* One delivery more.
LEMMA OneMoreDelivery ==
  ASSUME CountersOK, CountersOK', NEW d \in Documents,
         delivered' = [delivered EXCEPT ![d] = @ + 1]
  PROVE  Cardinality(Deliveries') = Cardinality(Deliveries) + 1
<1> DEFINE x == <<d, delivered[d] + 1>>
<1>1. \A e \in Documents : delivered[e] \in Nat /\ delivered[e] <= MaxDeliveries
  BY TakeoffAssumption DEF CountersOK
<1>2. delivered'[d] = delivered[d] + 1 /\ \A e \in Documents : e # d => delivered'[e] = delivered[e]
  BY DEF CountersOK
<1>3. delivered'[d] <= MaxDeliveries
  BY TakeoffAssumption DEF CountersOK
<1>4. Deliveries' = {y \in Documents \X (1..MaxDeliveries) : y[2] <= delivered'[y[1]]}
  BY DEF Deliveries
<1>5. x \in Deliveries' /\ x \notin Deliveries
  BY <1>1, <1>2, <1>3, <1>4 DEF Deliveries
<1>6. ASSUME NEW y \in Documents \X (1..MaxDeliveries), y # x
      PROVE  y[2] <= delivered'[y[1]] <=> y[2] <= delivered[y[1]]
  <2>1. y = <<y[1], y[2]>> /\ y[1] \in Documents /\ y[2] \in Nat
    BY TakeoffAssumption
  <2>2. CASE y[1] # d
    BY <1>2, <2>1, <2>2
  <2>3. CASE y[1] = d
    <3>1. y[2] # delivered[d] + 1
      BY <1>6, <2>1, <2>3
    <3>. QED BY <1>1, <1>2, <2>1, <2>3, <3>1
  <2>. QED BY <2>2, <2>3
<1> HIDE DEF x
<1>7. Deliveries' = Deliveries \cup {x}
  BY <1>4, <1>5, <1>6 DEF Deliveries
<1>. QED BY <1>5, <1>7, DeliveriesFinite, FS_AddElement

\* Copies are kept when rows, requests and the runs that exist are.
LEMMA SameCopies ==
  ASSUME TInv, LedgerOK', UNCHANGED <<opening, request, created>>,
         \A r \in Runs : run[r] # NULL => run'[r] # NULL,
         \A o \in Rows : worker'.rows[o] \in {NULL, worker.rows[o]}
  PROVE  CopiesOK'
<1>1. ASSUME NEW o \in Rows PROVE RowCopiesOK(o)'
  <2>1. Copies(o)' \subseteq Copies(o)
    BY DEF Copies
  <2>2. ASSUME NEW c \in Copies(o)' PROVE CopyOK(c, run') /\ \E b \in Copies(o) : Alike(c, b)
    <3>1. c \in Copies(o) /\ CopyOK(c, run)
      BY <2>1, CopyFacts
    <3>. QED BY <3>1, CopyStays DEF Alike
  <2>3. created <= created'
    BY TakeoffAssumption DEF TInv, LedgerOK
  <2>. QED BY <2>2, <2>3, AlikeStep
<1>. QED BY <1>1 DEF CopiesOK

LEMMA NormaliseStep ==
  ASSUME TInv, NEW d \in Documents, Normalise(d)
  PROVE  TInv'
<1>1. /\ worker.pc = "idle" /\ delivered[d] < MaxDeliveries
      /\ delivered' = [delivered EXCEPT ![d] = @ + 1]
      /\ UNCHANGED <<cache, asked, run, documentOf, component, opening, prov, created, doors, match,
                     request, reviews, feedback, edited, touched>>
  BY DEF Normalise, At, catalogued, written, reviewRows
<1>2. LedgerOK' /\ RequestOK' /\ RowsOK'
  BY <1>1 DEF TInv, LedgerOK, RequestOK, RowsOK
<1>3. PICK k \in Nat : /\ {r \in Runs : run[r] # NULL} = 1..k
                       /\ k + Waiting <= Cardinality(Deliveries)
  BY DEF TInv, RunsOK
<1>4. k <= Cardinality(Deliveries) /\ Cardinality(Deliveries) \in Nat
  <2>1. Waiting = 0
    BY <1>1 DEF Waiting
  <2>2. Cardinality(Deliveries) \in Nat
    BY DeliveriesFinite DEF TInv
  <2>. QED BY <1>3, <2>1, <2>2
<1>5. \A e \in Documents : generation[e] \in Nat /\ delivered[e] \in Nat /\ generation[e] <= delivered[e]
  BY TakeoffAssumption DEF TInv, CountersOK, Generations
<1>6. CASE Cited(d)
  <2>1. UNCHANGED <<generation, worker>>
    BY <1>6 DEF Normalise
  <2>2. CountersOK'
    BY <1>1, <1>5, <2>1, TakeoffAssumption DEF TInv, CountersOK
  <2>3. k + Waiting' <= Cardinality(Deliveries')
    <3>1. Waiting' = 0
      BY <1>1, <2>1 DEF Waiting
    <3>2. Cardinality(Deliveries') = Cardinality(Deliveries) + 1
      BY <1>1, <2>2, OneMoreDelivery DEF TInv
    <3>. QED BY <1>4, <3>1, <3>2
  <2>4. RunsOK'
    BY <1>1, <1>3, <2>3 DEF RunsOK
  <2>5. WorkerOK'
    BY <1>1, <2>1 DEF TInv, WorkerOK
  <2>6. CopiesOK'
    BY <1>1, <1>2, <2>1, SameCopies
  <2>. QED BY <1>2, <2>2, <2>4, <2>5, <2>6 DEF TInv
<1>7. CASE ~Cited(d)
  <2> DEFINE s == [IdleWorker EXCEPT !.pc = "start", !.doc = d]
  <2>1. worker' = s /\ generation' = [generation EXCEPT ![d] = @ + 1]
    BY <1>7 DEF Normalise, Step
  <2>2. CountersOK'
    BY <1>1, <1>5, <2>1, TakeoffAssumption DEF TInv, CountersOK, Generations
  <2>3. /\ s \in Worker /\ s.pc = "start" /\ s.doc = d /\ s.sets = {} /\ s.parts = {}
        /\ \A o \in Rows : s.rows[o] = NULL
    BY IdleWorkerOK DEF Worker, WorkerPc
  <2> HIDE DEF s
  <2>4. k + Waiting' <= Cardinality(Deliveries')
    <3>1. Waiting' = 1
      BY <2>1, <2>3 DEF Waiting
    <3>2. Cardinality(Deliveries') = Cardinality(Deliveries) + 1
      BY <1>1, <2>2, OneMoreDelivery DEF TInv
    <3>. QED BY <1>4, <3>1, <3>2
  <2>5. RunsOK'
    BY <1>1, <1>3, <2>4 DEF RunsOK
  <2>6. WorkerOK'
    BY <2>1, <2>3 DEF WorkerOK, Holds
  <2>7. CopiesOK'
    BY <1>1, <1>2, <2>1, <2>3, SameCopies
  <2>. QED BY <1>2, <2>2, <2>5, <2>6, <2>7 DEF TInv
<1>. QED BY <1>6, <1>7

\* The next run's number is free, and there is room for it.
LEMMA NextRunOK ==
  ASSUME TInv, worker.pc = "start"
  PROVE  /\ NextRun \in Runs /\ run[NextRun] = NULL
         /\ \E k \in Nat : /\ NextRun = k + 1 /\ {r \in Runs : run[r] # NULL} = 1..k
                           /\ k + 1 <= Cardinality(Deliveries)
<1>1. PICK k \in Nat : /\ {r \in Runs : run[r] # NULL} = 1..k
                       /\ k + Waiting <= Cardinality(Deliveries)
  BY DEF TInv, RunsOK
<1>2. NextRun = k + 1
  <2>1. Cardinality(1..k) = k
    BY FS_Interval
  <2>. QED BY <1>1, <2>1 DEF NextRun
<1>3. k + 1 <= Cardinality(Deliveries)
  BY <1>1 DEF Waiting
<1>4. /\ Cardinality(Deliveries) \in Nat
      /\ Cardinality(Deliveries) <= MaxDeliveries * Cardinality(Documents)
  BY DeliveriesFinite DEF TInv
<1>5. Cardinality(Documents) \in Nat /\ MaxDeliveries * Cardinality(Documents) \in Nat
  BY FS_CardinalityType, TakeoffAssumption
<1>6. k + 1 \in Runs
  BY <1>3, <1>4, <1>5 DEF Runs
<1>7. run[k + 1] = NULL
  BY <1>1, <1>6
<1>. QED BY <1>1, <1>2, <1>3, <1>6, <1>7

LEMMA StartRunStep ==
  ASSUME TInv, StartRun
  PROVE  TInv'
<1> DEFINE nothing == TablesOf(worker.doc) = {}
           n == NextRun
           s == IF nothing THEN IdleWorker ELSE [worker EXCEPT !.pc = "locate", !.run = n]
<1>1. worker.pc = "start"
  BY DEF StartRun, At
<1>2. /\ run' = [run EXCEPT ![n] = IF nothing THEN "COMPLETED" ELSE "STARTED"]
      /\ documentOf' = [documentOf EXCEPT ![n] = worker.doc]
      /\ worker' = s
      /\ UNCHANGED <<generation, delivered, cache, asked, component, opening, prov, created, doors,
                     match, request, reviews, feedback, edited, touched>>
  BY DEF StartRun, Step, catalogued, written, reviewRows
<1>3. PICK k \in Nat : /\ n = k + 1 /\ {r \in Runs : run[r] # NULL} = 1..k
                       /\ k + 1 <= Cardinality(Deliveries)
  BY <1>1, NextRunOK
<1>4. n \in Runs /\ run[n] = NULL
  BY <1>1, NextRunOK
<1>5. worker \in Worker /\ worker.doc \in Documents
  BY <1>1 DEF TInv, WorkerOK, Holds
<1> HIDE DEF n
<1>6. CountersOK'
  BY <1>2, <1>4, <1>5 DEF TInv, CountersOK, RunStatus
<1>7. /\ run'[n] # NULL /\ documentOf'[n] = worker.doc
      /\ \A r \in Runs : r # n => run'[r] = run[r] /\ documentOf'[r] = documentOf[r]
  BY <1>2, <1>4, TakeoffAssumption DEF TInv, CountersOK, RunStatus
<1>8. LedgerOK' /\ RequestOK'
  BY <1>2 DEF TInv, LedgerOK, RequestOK
<1>9. RowsOK'
  <2>1. \A c \in component : c.run \in Runs
    BY DEF TInv, RowsOK, Component
  <2>. QED BY <1>2, <1>7, <2>1 DEF TInv, RowsOK
<1>10. /\ s \in Worker /\ s.pc # "start" /\ s.sets = {} /\ s.parts = {}
       /\ \A o \in Rows : s.rows[o] \in {NULL, worker.rows[o]}
       /\ s.pc # "idle" => s.pc = "locate" /\ s.run = n /\ s.doc = worker.doc
  <2>1. CASE nothing
    BY <2>1, IdleWorkerOK
  <2>2. CASE ~nothing
    <3>1. worker.sets = {} /\ worker.parts = {}
      BY <1>1 DEF TInv, WorkerOK, Holds
    <3>. QED BY <1>4, <1>5, <2>2, <3>1 DEF Worker, WorkerPc
  <2>. QED BY <2>1, <2>2
<1> HIDE DEF s, nothing
<1>11. RunsOK'
  <2>1. {r \in Runs : run'[r] # NULL} = {r \in Runs : run[r] # NULL} \cup {n}
    BY <1>4, <1>7
  <2>2. 1..(k + 1) = (1..k) \cup {k + 1}
    OBVIOUS
  <2>3. Waiting' = 0
    BY <1>2, <1>10 DEF Waiting
  <2>4. Deliveries' = Deliveries
    BY <1>2 DEF Deliveries
  <2>5. Cardinality(Deliveries) \in Nat
    BY DeliveriesFinite DEF TInv
  <2>6. (k + 1) + Waiting' <= Cardinality(Deliveries')
    BY <1>3, <2>3, <2>4, <2>5
  <2>7. {r \in Runs : run'[r] # NULL} = 1..(k + 1)
    BY <1>3, <2>1, <2>2
  <2>. QED BY <2>6, <2>7 DEF RunsOK
<1>12. WorkerOK'
  BY <1>2, <1>4, <1>5, <1>7, <1>10 DEF WorkerOK, Holds
<1>13. CopiesOK'
  BY <1>2, <1>4, <1>7, <1>8, <1>10, SameCopies
<1>. QED BY <1>6, <1>8, <1>9, <1>11, <1>12, <1>13 DEF TInv

(***************************************************************************)
(* The link, hardware and match stages.                                    *)
(***************************************************************************)
\* The row that a record is written to, whole.
LEMMA LinkedRowOK ==
  ASSUME TInv, worker.pc = "link", NEW linkable \in worker.records
  PROVE  LET record == linkable.record
             linked == LinkOpening(record, linkable.at, {generation[worker.doc]})
             row == [run |-> worker.run, door |-> record.door,
                     value |-> [f \in OpeningFields |-> Typed(f, Raw(linked[f]))],
                     review |-> Flag(NeedsReview(record, linked)), notes |-> {}]
         IN /\ row \in OpeningRow /\ CopyOK(row, run)
            /\ row # NULL /\ row.run = worker.run /\ row.run # NULL
            /\ linked \in [OpeningFields -> Linked]
            /\ \A f \in OpeningFields : linked[f].cites \subseteq {generation[worker.doc]}
            /\ \A f \in ZeroTolerance : row.value[f] # Unresolved =>
                 linked[f].state \in {"AUTO", "FLAGGED"} /\ linked[f].cites # {}
            /\ \/ row.review = "FLAGGED"
               \/ \A f \in OpeningFields : linked[f].state = "AUTO" /\ row.value[f] # Unresolved
<1> DEFINE record == linkable.record
           supplied == {generation[worker.doc]}
           at == linkable.at
           linked == LinkOpening(record, at, supplied)
           value == [f \in OpeningFields |-> Typed(f, Raw(linked[f]))]
           review == Flag(NeedsReview(record, linked))
           row == [run |-> worker.run, door |-> record.door, value |-> value, review |-> review, notes |-> {}]
<1>1. /\ worker.run \in Runs /\ run[worker.run] # NULL /\ supplied \in SUBSET Nat
      /\ linkable \in [record : Record, table : Tables, at : Generations]
  BY AtWork
<1>2. record \in Record /\ at \in Nat /\ record.door \in STRING
  <2>1. record \in Record /\ at \in Generations
    BY <1>1
  <2>. QED BY <2>1, TakeoffAssumption DEF Generations, Record
<1> HIDE DEF record, supplied, at
<1>3. /\ linked \in [OpeningFields -> Linked]
      /\ \A f \in OpeningFields :
           /\ linked[f].cites \subseteq supplied
           /\ linked[f].state \in {"AUTO", "FLAGGED", "REJECTED"}
           /\ Typed(f, Raw(linked[f])) \in Value
           /\ f = "fire_rating" => Typed(f, Raw(linked[f])) \in RatingValue
           /\ f \in ZeroTolerance /\ Typed(f, Raw(linked[f])) # Unresolved =>
                linked[f].state # "REJECTED" /\ linked[f].cites # {}
           /\ f \notin ParsedFields => Typed(f, Raw(linked[f])) # Unresolved
  BY <1>1, <1>2, LinkOpeningOK
<1> HIDE DEF linked
<1>4. value \in [OpeningFields -> Value] /\ value["fire_rating"] \in RatingValue
  BY <1>3 DEF OpeningFields
<1>5. review \in {"AUTO", "FLAGGED"} /\ (NeedsReview(record, linked) => review = "FLAGGED")
  BY DEF Flag
<1>6. ASSUME ~NeedsReview(record, linked), NEW f \in OpeningFields
      PROVE  linked[f].state = "AUTO" /\ value[f] # Unresolved
  BY <1>3, <1>6 DEF NeedsReview
<1>7. \A f \in ZeroTolerance : value[f] # Unresolved =>
        linked[f].state \in {"AUTO", "FLAGGED"} /\ linked[f].cites # {}
  BY <1>3 DEF ZeroTolerance, OpeningFields
<1> HIDE DEF value, review
<1>9. /\ row \in OpeningRow /\ row.run = worker.run
      /\ row.value = value /\ row.review = review
  BY <1>1, <1>2, <1>4, <1>5 DEF OpeningRow, ReviewState
<1> HIDE DEF row
<1>10. row # NULL /\ row.run # NULL /\ CopyOK(row, run)
  BY <1>1, <1>4, <1>9, TakeoffAssumption DEF CopyOK
<1>11. /\ \A f \in OpeningFields : linked[f].cites \subseteq supplied
       /\ \A f \in ZeroTolerance : row.value[f] # Unresolved =>
            linked[f].state \in {"AUTO", "FLAGGED"} /\ linked[f].cites # {}
       /\ \/ row.review = "FLAGGED"
          \/ \A f \in OpeningFields : linked[f].state = "AUTO" /\ row.value[f] # Unresolved
  BY <1>3, <1>5, <1>6, <1>7, <1>9
<1>. QED BY <1>3, <1>9, <1>10, <1>11 DEF row, value, review, linked, at, supplied, record

LEMMA LinkRecordStep ==
  ASSUME TInv, LinkRecord
  PROVE  TInv'
<1>1. worker.pc = "link" /\ worker.pc \notin {"idle", "start"}
  BY DEF LinkRecord, At
<1>2. UNCHANGED <<generation, delivered, cache, asked, documentOf, component, match,
                  request, reviews, feedback, edited, touched>>
  BY DEF LinkRecord, catalogued, reviewRows
<1>3. PICK linkable \in worker.records :
        LET record == linkable.record
            linked == LinkOpening(record, linkable.at, {generation[worker.doc]})
            row == created + 1
        IN CASE record.door = NoMark ->
                  /\ Step([worker EXCEPT !.records = @ \ {linkable}])
                  /\ UNCHANGED <<written, run>>
             [] SameMark(worker.run, record.door) -> RunFails /\ UNCHANGED written
             [] OTHER ->
                /\ row <= MaxRows
                /\ opening' = [opening EXCEPT ![row] =
                     [run |-> worker.run, door |-> record.door,
                      value |-> [f \in OpeningFields |-> Typed(f, Raw(linked[f]))],
                      review |-> Flag(NeedsReview(record, linked)), notes |-> {}]]
                /\ prov' = [prov EXCEPT ![row] = linked]
                /\ created' = row
                /\ doors' = doors \cup {<<worker.run, record.door>>}
                /\ Step([worker EXCEPT !.records = @ \ {linkable}])
                /\ UNCHANGED run
  BY DEF LinkRecord
<1> DEFINE record == linkable.record
           linked == LinkOpening(record, linkable.at, {generation[worker.doc]})
           row == [run |-> worker.run, door |-> record.door,
                   value |-> [f \in OpeningFields |-> Typed(f, Raw(linked[f]))],
                   review |-> Flag(NeedsReview(record, linked)), notes |-> {}]
           o == created + 1
           s == [worker EXCEPT !.records = @ \ {linkable}]
<1>4. /\ s \in Worker /\ s.pc = "link" /\ s.doc = worker.doc /\ s.run = worker.run
      /\ s.sets = worker.sets /\ s.rows = worker.rows /\ s.parts = worker.parts
  BY <1>1, AtWork DEF Worker
<1>5. \/ Step(s) /\ UNCHANGED <<opening, prov, created, run>>
      \/ RunFails /\ UNCHANGED <<opening, prov, created>>
      \/ /\ o <= MaxRows
         /\ opening' = [opening EXCEPT ![o] = row]
         /\ prov' = [prov EXCEPT ![o] = linked]
         /\ created' = o
         /\ Step(s) /\ UNCHANGED run
  BY <1>3 DEF written
<1>6. /\ row \in OpeningRow /\ CopyOK(row, run) /\ row # NULL /\ row.run # NULL
      /\ linked \in [OpeningFields -> Linked]
  BY <1>1, LinkedRowOK
<1> HIDE DEF s, row, linked
<1>7. Holds(s, run, documentOf, generation)
  BY <1>1, <1>4, AtWork DEF Holds
<1>8. CASE Step(s) /\ UNCHANGED <<opening, prov, created, run>>
  BY <1>2, <1>4, <1>7, <1>8, MemoryFrame DEF catalogued, reviewRows
<1>9. CASE RunFails /\ UNCHANGED <<opening, prov, created>>
  BY <1>1, <1>2, <1>9, RunFailsOK DEF catalogued, reviewRows
<1>10. CASE /\ o <= MaxRows
            /\ opening' = [opening EXCEPT ![o] = row]
            /\ prov' = [prov EXCEPT ![o] = linked]
            /\ created' = o
            /\ Step(s) /\ UNCHANGED run
  <2>1. created \in Nat /\ o \in Rows /\ created' = o
    BY <1>10, TakeoffAssumption DEF TInv, LedgerOK, Rows
  <2>2. CountersOK' /\ RequestOK'
    BY <1>2, <1>10 DEF TInv, CountersOK, RequestOK
  <2>3. LedgerOK'
    BY <1>2, <1>10, <2>1, TakeoffAssumption DEF TInv, LedgerOK, Rows
  <2>4. /\ worker' = s
        /\ opening[o] = NULL /\ worker.rows[o] = NULL
        /\ \A e \in Estimators : request[e].row = o => request[e].copy = NULL
    BY <1>10, <2>1, NobodyHolds DEF Step
  <2>5. RowsOK'
    BY <1>2, <1>6, <1>10, <2>1, <2>4 DEF TInv, RowsOK
  <2>6. WorkerOK'
    BY <1>2, <1>4, <1>7, <1>10, <2>4 DEF WorkerOK
  <2>7. RunsOK'
    <3>1. Waiting' = Waiting /\ Deliveries' = Deliveries
      BY <1>1, <1>2, <1>4, <2>4 DEF Waiting, Deliveries
    <3>. QED BY <1>10, <3>1 DEF TInv, RunsOK
  <2>8. CopiesOK'
    <3>1. ASSUME NEW x \in Rows PROVE RowCopiesOK(x)'
      <4>1. CASE x = o
        <5>1. opening'[x] = row
          BY <1>10, <4>1 DEF TInv, RowsOK
        <5>2. Copies(x)' \subseteq {row}
          BY <1>2, <1>4, <2>4, <4>1, <5>1 DEF Copies
        <5>3. CopyOK(row, run') /\ x <= created'
          BY <1>6, <1>10, <2>1, <4>1
        <5>. QED BY <5>2, <5>3, FreshCopy
      <4>2. CASE x # o
        <5>1. opening'[x] = opening[x]
          BY <1>10, <4>2 DEF TInv, RowsOK
        <5>2. Copies(x)' = Copies(x)
          BY <1>2, <1>4, <2>4, <5>1 DEF Copies
        <5>3. \A c \in Copies(x)' : CopyOK(c, run') /\ \E b \in Copies(x) : Alike(c, b)
          BY <1>10, <5>2, CopyFacts DEF Alike
        <5>4. created <= created'
          BY <2>1
        <5>. QED BY <2>3, <5>3, <5>4, AlikeStep
      <4>. QED BY <4>1, <4>2
    <3>. QED BY <3>1 DEF CopiesOK
  <2>. QED BY <2>2, <2>3, <2>5, <2>6, <2>7, <2>8 DEF TInv
<1>. QED BY <1>5, <1>8, <1>9, <1>10

\* The groups that may be named in a run, and the sets made of them.
LEMMA SetsOK ==
  ASSUME TInv, worker.pc \notin {"idle", "start"}, NEW callouts, callouts \subseteq Value
  PROVE  /\ callouts \subseteq Nameable(callouts)
         /\ \A g \in Nameable(callouts) :
              /\ Unfound(g) \in Component /\ Found(g) \in Component
              /\ Unfound(g).run = worker.run /\ Found(g).run = worker.run
              /\ Unfound(g).group = g /\ Found(g).group = g
              /\ Unfound(g).cites \subseteq {generation[worker.doc]}
              /\ Found(g).cites \subseteq {generation[worker.doc]}
         /\ \A sets \in PersistedSets(callouts) : \A c \in sets :
              \E g \in Nameable(callouts) : c = Unfound(g) \/ c = Found(g)
<1>1. worker.run \in Runs /\ generation[worker.doc] \in Generations
  BY AtWork
<1>2. callouts \subseteq Nameable(callouts) /\ Nameable(callouts) \subseteq Value
  BY TextsOK DEF Nameable, Value, OpeningFields
<1>3. ASSUME NEW g \in Nameable(callouts)
      PROVE  /\ Unfound(g) \in Component /\ Found(g) \in Component
             /\ Unfound(g).run = worker.run /\ Found(g).run = worker.run
             /\ Unfound(g).group = g /\ Found(g).group = g
             /\ Unfound(g).cites \subseteq {generation[worker.doc]}
             /\ Found(g).cites \subseteq {generation[worker.doc]}
  BY <1>1, <1>2 DEF Unfound, Found, Component
<1>4. \A sets \in PersistedSets(callouts) : \A c \in sets :
        \E g \in Nameable(callouts) : c = Unfound(g) \/ c = Found(g)
  BY <1>2 DEF PersistedSets
<1>. QED BY <1>2, <1>3, <1>4

LEMMA ReadCalloutsStep ==
  ASSUME TInv, ReadCallouts
  PROVE  TInv'
<1> DEFINE callouts == Callouts(worker.run)
<1>1. worker.pc = "link" /\ worker.pc \notin {"idle", "start"}
  BY DEF ReadCallouts, At
<1>2. UNCHANGED <<generation, delivered, catalogued, documentOf, component, opening, prov,
                  created, match, reviewRows>>
  BY DEF ReadCallouts, written
<1>3. callouts \subseteq Value
  BY DEF Callouts, OpeningsOf, TInv, RowsOK, OpeningRow, OpeningFields
<1>4. \/ RunFails
      \/ \E sets : /\ sets = {Unfound(g) : g \in callouts} \/ sets \in PersistedSets(callouts)
                   /\ Step([worker EXCEPT !.pc = "hardware", !.sets = sets])
                   /\ UNCHANGED run
  BY DEF ReadCallouts
<1>5. CASE RunFails
  BY <1>1, <1>2, <1>5, RunFailsOK
<1>6. CASE ~RunFails
  <2>1. PICK sets : /\ sets = {Unfound(g) : g \in callouts} \/ sets \in PersistedSets(callouts)
                    /\ Step([worker EXCEPT !.pc = "hardware", !.sets = sets])
                    /\ UNCHANGED run
    BY <1>4, <1>6
  <2> HIDE DEF callouts
  <2>2. \A c \in sets : \E g \in Nameable(callouts) : c = Unfound(g) \/ c = Found(g)
    BY <1>1, <1>3, <2>1, SetsOK
  <2>3. sets \subseteq Component
        /\ \A c \in sets : c.run = worker.run /\ c.cites \subseteq {generation[worker.doc]}
    BY <1>1, <1>3, <2>2, SetsOK
  <2> DEFINE s == [worker EXCEPT !.pc = "hardware", !.sets = sets]
  <2>4. /\ s \in Worker /\ s.pc = "hardware" /\ s.doc = worker.doc /\ s.run = worker.run
        /\ s.sets = sets /\ s.rows = worker.rows /\ s.parts = worker.parts
    BY <1>1, <2>3, AtWork DEF Worker, WorkerPc
  <2>5. Step(s) /\ UNCHANGED run
    BY <2>1
  <2> HIDE DEF s
  <2>6. Holds(s, run, documentOf, generation)
    BY <1>1, <2>3, <2>4, AtWork DEF Holds
  <2>. QED BY <1>2, <2>4, <2>5, <2>6, MemoryFrame
<1>. QED BY <1>5, <1>6

LEMMA PersistSetStep ==
  ASSUME TInv, PersistSet
  PROVE  TInv'
<1>1. worker.pc = "hardware" /\ worker.pc \notin {"idle", "start"}
  BY DEF PersistSet, At
<1>2. PICK set \in worker.sets : /\ component' = component \cup {set}
                                 /\ Step([worker EXCEPT !.sets = @ \ {set}])
  BY DEF PersistSet
<1>3. UNCHANGED <<generation, delivered, cache, asked, run, documentOf, opening, prov, created,
                  match, request, reviews, feedback, edited, touched>>
  BY DEF PersistSet, catalogued, written, reviewRows
<1> DEFINE s == [worker EXCEPT !.sets = @ \ {set}]
<1>4. /\ s \in Worker /\ s.pc = "hardware" /\ s.doc = worker.doc /\ s.run = worker.run
      /\ s.sets = worker.sets \ {set} /\ s.rows = worker.rows /\ s.parts = worker.parts
  BY <1>1, AtWork DEF Worker
<1>5. worker' = s
  BY <1>2 DEF Step
<1> HIDE DEF s
<1>6. CountersOK' /\ RequestOK' /\ LedgerOK'
  BY <1>3 DEF TInv, CountersOK, RequestOK, LedgerOK
<1>7. RunsOK'
  <2>1. Waiting' = Waiting /\ Deliveries' = Deliveries
    BY <1>1, <1>3, <1>4, <1>5 DEF Waiting, Deliveries
  <2>. QED BY <1>3, <2>1 DEF TInv, RunsOK
<1>8. CopiesOK'
  BY <1>3, <1>4, <1>5, <1>6, SameCopies
<1>9. RowsOK'
  <2>1. set \in Component /\ run[set.run] # NULL
    BY <1>1, AtWork
  <2>. QED BY <1>2, <1>3, <2>1 DEF TInv, RowsOK
<1>10. WorkerOK'
  BY <1>1, <1>3, <1>4, <1>5, AtWork DEF WorkerOK, Holds
<1>. QED BY <1>6, <1>7, <1>8, <1>9, <1>10 DEF TInv

\* What is matched belongs to an opening that is there.
LEMMA PartsToMatchOK ==
  ASSUME TInv
  PROVE  /\ PartsToMatch \subseteq Rows \X (Component \cup {NULL})
         /\ \A x \in PartsToMatch : opening[x[1]] # NULL
<1>1. \A value : Parts(value) \subseteq Component \cup {NULL}
  BY DEF Parts, TInv, RowsOK
<1>2. ASSUME NEW x \in PartsToMatch
      PROVE  x \in Rows \X (Component \cup {NULL}) /\ opening[x[1]] # NULL
  <2>1. PICK o \in Rows : opening[o] # NULL /\ x \in {o} \X Parts(opening[o].value)
    BY <1>2 DEF PartsToMatch
  <2>2. x[1] = o /\ x[2] \in Parts(opening[o].value) /\ x = <<x[1], x[2]>>
    BY <2>1
  <2>. QED BY <1>1, <2>1, <2>2
<1>. QED BY <1>2

LEMMA CompleteRunStep ==
  ASSUME TInv, CompleteRun
  PROVE  TInv'
<1> DEFINE s == [worker EXCEPT !.pc = "match", !.rows = opening, !.parts = PartsToMatch]
<1>1. worker.pc = "hardware" /\ worker.pc \notin {"idle", "start"} /\ worker.sets = {}
  BY DEF CompleteRun, At
<1>2. /\ run' = [run EXCEPT ![worker.run] = "COMPLETED"] /\ Step(s)
      /\ UNCHANGED <<generation, delivered, catalogued, documentOf, component, opening, prov,
                     created, match, reviewRows>>
  BY DEF CompleteRun, written
<1>3. /\ s \in Worker /\ s.pc = "match" /\ s.doc = worker.doc /\ s.run = worker.run
      /\ s.sets = worker.sets /\ s.rows = opening /\ s.parts = PartsToMatch
  BY <1>1, AtWork, PartsToMatchOK DEF Worker, WorkerPc, TInv, RowsOK
<1> HIDE DEF s
<1>4. Holds(s, run, documentOf, generation)
  BY <1>1, <1>3, AtWork, PartsToMatchOK DEF Holds
<1>5. /\ cache' \in [Tables -> CachedAnswer \cup {NULL}]
      /\ asked' \in [Tables -> Nat]
  BY <1>2 DEF catalogued, TInv, CountersOK
<1>6. /\ run' \in [Runs -> RunStatus \cup {NULL}]
      /\ \A r \in Runs : run'[r] = NULL <=> run[r] = NULL
  BY <1>1, <1>2, AtWork, TakeoffAssumption DEF TInv, CountersOK, RunStatus
<1>. QED BY <1>2, <1>3, <1>4, <1>5, <1>6, WorkerFrame

\* The matches that a step adds are for the opening it works on, and fit it.
LEMMA NewMatches ==
  ASSUME NEW o \in Rows, NEW part \in Component \cup {NULL}, NEW value,
         NEW status \in {"PROPOSED", "MANUAL"}
  PROVE  \A m \in Proposals(o, part, value, status) :
           m \in MatchRow /\ m.opening = o /\ Fits(value, m.item)
<1>1. ASSUME NEW m \in Proposals(o, part, value, status)
      PROVE  m \in MatchRow /\ m.opening = o /\ Fits(value, m.item)
  <2>1. PICK i \in {item \in Items : Fits(value, item)} :
          m = [opening |-> o, part |-> part, item |-> i, status |-> status]
    BY <1>1 DEF Proposals
  <2>2. status \in MatchStatus /\ i \in Items
    BY DEF MatchStatus
  <2>3. m \in MatchRow /\ m.opening = o /\ m.item = i
    BY <2>1, <2>2 DEF MatchRow
  <2>. QED BY <2>3
<1>. QED BY <1>1

\* A reason that is added to a row changes nothing but its notes.
LEMMA AnnotatedOK ==
  ASSUME TInv, NEW o \in Rows, opening[o] # NULL, worker.rows[o] # NULL
  PROVE  LET row == Annotated(o, worker.rows[o])
         IN /\ row \in OpeningRow /\ row # NULL /\ CopyOK(row, run) /\ Alike(row, opening[o])
            /\ row.run = opening[o].run /\ row.value = opening[o].value
            /\ row.review = opening[o].review /\ "reason" \in row.notes
            /\ row = [opening[o] EXCEPT !.notes = row.notes]
<1> DEFINE old == opening[o]
           notes == worker.rows[o].notes \cup {"reason"}
           row == [old EXCEPT !.notes = notes]
<1>1. old \in OpeningRow /\ CopyOK(old, run) /\ worker.rows[o] \in OpeningRow
  BY CopyFacts
<1>2. notes \in SUBSET Note /\ "reason" \in notes
  BY <1>1 DEF OpeningRow, Note
<1>3. Annotated(o, worker.rows[o]) = row
  BY DEF Annotated
<1> HIDE DEF old, notes
<1>4. /\ row \in OpeningRow /\ row.run = old.run /\ row.value = old.value
      /\ row.review = old.review /\ row.notes = notes
  BY <1>1, <1>2 DEF OpeningRow
<1>5. row = [old EXCEPT !.notes = row.notes]
  BY <1>4
<1> HIDE DEF row
<1>6. row # NULL /\ CopyOK(row, run) /\ Alike(row, old)
  BY <1>1, <1>4, TakeoffAssumption DEF CopyOK, Alike
<1>. QED BY <1>2, <1>3, <1>4, <1>5, <1>6 DEF old

\* What matching a part of an opening writes: its matches, the opening's notes, and what
\* the worker still has to match.
Matched(o, part, status, rows, left) ==
  LET new == Proposals(o, part, worker.rows[o].value, status)
  IN /\ worker.rows[o] # NULL /\ (opening[o] # NULL \/ new = {})
     /\ match' = {m \in match : m.opening # o \/ m.part # part} \cup new
     /\ \/ UNCHANGED opening
        \/ /\ opening[o] # NULL
           /\ opening' = [opening EXCEPT ![o] = Annotated(o, worker.rows[o])]
     /\ \A x \in Rows : rows[x] \in {NULL, worker.rows[x]}
     /\ \A x \in left : rows[x[1]] # NULL
     /\ Step([worker EXCEPT !.rows = rows, !.parts = left])
     /\ UNCHANGED run

LEMMA MatchPartWrites ==
  ASSUME TInv, MatchPart
  PROVE  /\ UNCHANGED <<generation, delivered, cache, asked, documentOf, component, prov, created,
                        doors, request, reviews, feedback, edited, touched>>
         /\ \/ RunFails /\ UNCHANGED <<opening, match>>
            \/ \E o \in Rows, part \in Component \cup {NULL}, status \in {"PROPOSED", "MANUAL"},
                  rows \in [Rows -> OpeningRow \cup {NULL}],
                  left \in SUBSET (Rows \X (Component \cup {NULL})) :
                 Matched(o, part, status, rows, left)
<1>1. worker.pc \notin {"idle", "start"}
  BY DEF MatchPart, At
<1>2. UNCHANGED <<generation, delivered, cache, asked, documentOf, component, prov, created,
                  doors, request, reviews, feedback, edited, touched>>
  BY DEF MatchPart, catalogued, reviewRows
<1>3. PICK x \in worker.parts, status \in {"PROPOSED", "MANUAL"} :
       LET o == x[1]
           part == x[2]
           left == worker.parts \ {x}
           found == Proposals(o, part, worker.rows[o].value, status)
       IN /\ Due(o, part)
          /\ found = {} => status = "MANUAL"
          /\ IF opening[o] = NULL /\ (part = NULL \/ found # {})
             THEN RunFails /\ UNCHANGED <<opening, match>>
             ELSE /\ match' = {m \in match : m.opening # o \/ m.part # part} \cup found
                  /\ opening' = IF part = NULL /\ status = "MANUAL"
                                THEN [opening EXCEPT ![o] = Annotated(o, worker.rows[o])]
                                ELSE opening
                  /\ Step([worker EXCEPT !.parts = left,
                            !.rows[o] = IF \E y \in left : y[1] = o THEN @ ELSE NULL])
                  /\ UNCHANGED run
  BY DEF MatchPart
<1>4. x[1] \in Rows /\ x[2] \in Component \cup {NULL} /\ worker.rows[x[1]] # NULL
  BY <1>1, AtWork
<1> DEFINE o == x[1]
           part == x[2]
           left == worker.parts \ {x}
           new == Proposals(o, part, worker.rows[o].value, status)
           kept == IF \E y \in left : y[1] = o THEN worker.rows[o] ELSE NULL
           rows == [worker.rows EXCEPT ![o] = kept]
<1>5. CASE opening[o] = NULL /\ (part = NULL \/ new # {})
  BY <1>2, <1>3, <1>5
<1>6. CASE ~(opening[o] = NULL /\ (part = NULL \/ new # {}))
  <2>1. /\ match' = {m \in match : m.opening # o \/ m.part # part} \cup new
        /\ opening' = IF part = NULL /\ status = "MANUAL"
                      THEN [opening EXCEPT ![o] = Annotated(o, worker.rows[o])]
                      ELSE opening
        /\ Step([worker EXCEPT !.rows = rows, !.parts = left])
        /\ UNCHANGED run
    BY <1>3, <1>6
  <2>2. opening[o] # NULL \/ new = {}
    BY <1>6
  <2>3. UNCHANGED opening \/ (opening[o] # NULL
                              /\ opening' = [opening EXCEPT ![o] = Annotated(o, worker.rows[o])])
    BY <1>6, <2>1
  <2> HIDE DEF new
  <2>4. kept \in {NULL, worker.rows[o]} /\ ((\E y \in left : y[1] = o) => kept # NULL)
    BY <1>4
  <2> HIDE DEF kept
  <2>5. /\ rows \in [Rows -> OpeningRow \cup {NULL}]
        /\ \A y \in Rows : rows[y] = IF y = o THEN kept ELSE worker.rows[y]
    BY <1>1, <1>4, <2>4, AtWork
  <2> HIDE DEF rows
  <2>6. left \in SUBSET (Rows \X (Component \cup {NULL}))
        /\ \A y \in left : y[1] \in Rows /\ rows[y[1]] # NULL
    BY <1>1, <2>4, <2>5, AtWork
  <2>7. \A y \in Rows : rows[y] \in {NULL, worker.rows[y]}
    BY <2>4, <2>5
  <2>8. Matched(o, part, status, rows, left)
    BY <1>4, <2>1, <2>2, <2>3, <2>6, <2>7 DEF Matched, new
  <2> HIDE DEF left
  <2>. QED BY <1>2, <1>4, <2>5, <2>6, <2>8
<1>. QED BY <1>5, <1>6

LEMMA MatchPartStep ==
  ASSUME TInv, MatchPart
  PROVE  TInv'
<1>1. worker.pc = "match" /\ worker.pc \notin {"idle", "start"}
  BY DEF MatchPart, At
<1>2. UNCHANGED <<generation, delivered, cache, asked, documentOf, component, prov,
                  created, request, reviews, feedback, edited, touched>>
  BY MatchPartWrites
<1>3. CASE RunFails /\ UNCHANGED <<opening, match>>
  BY <1>1, <1>2, <1>3, RunFailsOK DEF catalogued, reviewRows
<1>4. ASSUME NEW o \in Rows, NEW part \in Component \cup {NULL}, NEW status \in {"PROPOSED", "MANUAL"},
             NEW rows \in [Rows -> OpeningRow \cup {NULL}],
             NEW left \in SUBSET (Rows \X (Component \cup {NULL})),
             Matched(o, part, status, rows, left)
      PROVE  TInv'
  <2> DEFINE new == Proposals(o, part, worker.rows[o].value, status)
  <2>1. /\ worker.rows[o] # NULL /\ (opening[o] # NULL \/ new = {})
        /\ match' = {m \in match : m.opening # o \/ m.part # part} \cup new
        /\ \/ UNCHANGED opening
           \/ /\ opening[o] # NULL
              /\ opening' = [opening EXCEPT ![o] = Annotated(o, worker.rows[o])]
        /\ \A x \in Rows : rows[x] \in {NULL, worker.rows[x]}
        /\ \A x \in left : rows[x[1]] # NULL
        /\ Step([worker EXCEPT !.rows = rows, !.parts = left])
        /\ UNCHANGED run
    BY <1>4 DEF Matched
  <2> DEFINE s == [worker EXCEPT !.rows = rows, !.parts = left]
  <2>2. /\ s \in Worker /\ s.pc = "match" /\ s.doc = worker.doc /\ s.run = worker.run
        /\ s.sets = worker.sets /\ s.rows = rows /\ s.parts = left
    BY <1>1, <2>1, AtWork DEF Worker
  <2>3. worker' = s
    BY <2>1 DEF Step
  <2> HIDE DEF s
  <2>4. CountersOK' /\ RequestOK' /\ LedgerOK'
    BY <1>2, <2>1 DEF TInv, CountersOK, RequestOK, LedgerOK
  <2>5. RunsOK'
    <3>1. Waiting' = Waiting /\ Deliveries' = Deliveries
      BY <1>1, <1>2, <2>2, <2>3 DEF Waiting, Deliveries
    <3>. QED BY <2>1, <3>1 DEF TInv, RunsOK
  <2>6. /\ opening' \in [Rows -> OpeningRow \cup {NULL}]
        /\ \A x \in Rows : opening[x] = NULL => opening'[x] = NULL
        /\ \A x \in Rows : opening[x] # NULL =>
             opening'[x] # NULL /\ CopyOK(opening'[x], run) /\ Alike(opening'[x], opening[x])
    <3>1. CASE UNCHANGED opening
      BY <3>1, CopyFacts DEF TInv, RowsOK, Alike
    <3>2. CASE opening[o] # NULL /\ opening' = [opening EXCEPT ![o] = Annotated(o, worker.rows[o])]
      <4> DEFINE row == Annotated(o, worker.rows[o])
      <4>1. row \in OpeningRow /\ row # NULL /\ CopyOK(row, run) /\ Alike(row, opening[o])
        BY <2>1, <3>2, AnnotatedOK
      <4>2. opening' = [opening EXCEPT ![o] = row]
        BY <3>2
      <4> HIDE DEF row
      <4>3. /\ opening' \in [Rows -> OpeningRow \cup {NULL}] /\ opening'[o] = row
            /\ \A x \in Rows : x # o => opening'[x] = opening[x]
        BY <4>1, <4>2 DEF TInv, RowsOK
      <4>. QED BY <3>2, <4>1, <4>3, CopyFacts DEF Alike
    <3>. QED BY <2>1, <3>1, <3>2
  <2>7. CopiesOK'
    <3>1. ASSUME NEW x \in Rows PROVE RowCopiesOK(x)'
      <4>1. ASSUME NEW c \in Copies(x)' PROVE CopyOK(c, run') /\ \E b \in Copies(x) : Alike(c, b)
        <5>1. \/ c = opening'[x] /\ opening[x] # NULL
              \/ c \in Copies(x)
          BY <1>2, <2>1, <2>2, <2>3, <2>6 DEF Copies
        <5>. QED BY <2>1, <2>6, <5>1, CopyFacts DEF Alike
      <4>2. created <= created'
        BY <1>2, TakeoffAssumption DEF TInv, LedgerOK
      <4>. QED BY <2>4, <4>1, <4>2, AlikeStep
    <3>. QED BY <3>1 DEF CopiesOK
  <2>8. \A m \in new : m \in MatchRow /\ m.opening = o
    BY NewMatches
  <2> HIDE DEF new
  <2>9. RowsOK'
    <3>1. \A x \in Rows : prov'[x] # NULL => opening'[x] # NULL /\ opening'[x].run # NULL
      BY <1>2, <2>6 DEF TInv, RowsOK, Alike
    <3>2. match' \subseteq MatchRow /\ \A m \in match' : opening'[m.opening] # NULL
      BY <2>1, <2>6, <2>8 DEF TInv, RowsOK, MatchRow
    <3>. QED BY <1>2, <2>1, <2>6, <3>1, <3>2 DEF TInv, RowsOK
  <2>10. WorkerOK'
    BY <1>1, <1>2, <2>1, <2>2, <2>3, AtWork DEF WorkerOK, Holds
  <2>. QED BY <2>4, <2>5, <2>7, <2>9, <2>10 DEF TInv
<1>. QED BY <1>3, <1>4, MatchPartWrites

LEMMA PriceStep ==
  ASSUME TInv, Price
  PROVE  TInv'
<1>1. worker.pc = "match" /\ worker.pc \notin {"idle", "start"}
  BY DEF Price, At
<1>2. UNCHANGED <<generation, delivered, catalogued, documentOf, component, opening, prov, created,
                  match, reviewRows>>
  BY DEF Price, written
<1>3. (Step(IdleWorker) /\ UNCHANGED run) \/ RunFails
  BY DEF Price
<1>. QED BY <1>1, <1>2, <1>3, RunFailsOK, IdleStep

LEMMA WorkerStepOK ==
  ASSUME TInv, WorkerStep
  PROVE  TInv'
<1>1. CASE \E d \in Documents : Normalise(d)
  BY <1>1, NormaliseStep
<1>2. CASE StartRun
  BY <1>2, StartRunStep
<1>3. CASE Locate
  BY <1>3, LocateStep
<1>4. CASE \E t \in Tables : AskModel(t) \/ Reuse(t)
  BY <1>4, AskModelStep, ReuseStep
<1>5. CASE Remember
  BY <1>5, RememberStep
<1>6. CASE StartLink
  BY <1>6, StartLinkStep
<1>7. CASE LinkRecord
  BY <1>7, LinkRecordStep
<1>8. CASE ReadCallouts
  BY <1>8, ReadCalloutsStep
<1>9. CASE PersistSet
  BY <1>9, PersistSetStep
<1>10. CASE CompleteRun
  BY <1>10, CompleteRunStep
<1>11. CASE MatchPart
  BY <1>11, MatchPartStep
<1>12. CASE Price
  BY <1>12, PriceStep
<1>13. CASE WorkerDies
  BY <1>13, IdleStep DEF WorkerDies, written
<1>. QED BY <1>1, <1>2, <1>3, <1>4, <1>5, <1>6, <1>7, <1>8, <1>9, <1>10, <1>11, <1>12, <1>13
     DEF WorkerStep

(***************************************************************************)
(* The estimators' steps.                                                  *)
(***************************************************************************)
LEMMA ReviewFrame ==
  ASSUME TInv, UNCHANGED pipelineRows, RequestOK', LedgerOK', CopiesOK',
         opening' \in [Rows -> OpeningRow \cup {NULL}],
         prov' \in [Rows -> [OpeningFields -> Linked] \cup {NULL}],
         \A o \in Rows : prov'[o] # NULL => opening'[o] # NULL /\ opening'[o].run # NULL,
         \A m \in match' : m \in MatchRow /\ opening'[m.opening] # NULL
  PROVE  TInv'
<1>1. UNCHANGED <<generation, delivered, cache, asked, run, documentOf, component, worker, doors>>
  BY DEF pipelineRows
<1>2. CountersOK' /\ WorkerOK'
  BY <1>1 DEF TInv, CountersOK, WorkerOK
<1>3. RunsOK'
  <2>1. Waiting' = Waiting /\ Deliveries' = Deliveries
    BY <1>1 DEF Waiting, Deliveries
  <2>. QED BY <1>1, <2>1 DEF TInv, RunsOK
<1>4. RowsOK'
  BY <1>1 DEF TInv, RowsOK
<1>. QED BY <1>2, <1>3, <1>4 DEF TInv

\* An estimator's step keeps the copies alike if what it writes to a row is alike
\* a copy of that row, and if what it reads is the row.
LEMMA ReviewCopies ==
  ASSUME TInv, UNCHANGED pipelineRows, LedgerOK', created <= created',
         NEW o \in Rows,
         opening'[o] # NULL =>
           CopyOK(opening'[o], run) /\ \E b \in Copies(o) : Alike(opening'[o], b),
         \A e \in Estimators : request'[e].row = o /\ request'[e].copy # NULL =>
           request'[e] = request[e] \/ request'[e].copy = opening[o]
  PROVE  RowCopiesOK(o)'
<1>1. UNCHANGED <<run, worker>>
  BY DEF pipelineRows
<1>2. ASSUME NEW c \in Copies(o)'
      PROVE  CopyOK(c, run') /\ \E b \in Copies(o) : Alike(c, b)
  <2>1. c # NULL /\ \/ c = opening'[o] \/ c = worker.rows[o]
                    \/ \E e \in Estimators : request'[e].row = o /\ c = request'[e].copy
    BY <1>1, <1>2 DEF Copies
  <2>2. CASE c = opening'[o]
    BY <1>1, <2>1, <2>2
  <2>3. CASE c \in Copies(o)
    BY <1>1, <2>3, CopyFacts DEF Alike
  <2>4. CASE c = worker.rows[o]
    BY <2>1, <2>3, <2>4, CopyFacts
  <2>5. CASE \E e \in Estimators : request'[e].row = o /\ c = request'[e].copy
    <3>1. c = opening[o] \/ \E e \in Estimators : request[e].row = o /\ request[e].copy = c
      BY <2>1, <2>5
    <3>. QED BY <2>1, <2>3, <3>1, CopyFacts
  <2>. QED BY <2>1, <2>2, <2>4, <2>5
<1>. QED BY <1>2, AlikeStep

\* The steps on one row that leave the requests alone.
LEMMA RowEdit ==
  ASSUME TInv, UNCHANGED pipelineRows, UNCHANGED request, LedgerOK', UNCHANGED created,
         NEW o \in Rows, NEW row,
         opening' = [opening EXCEPT ![o] = row],
         row = NULL \/ (CopyOK(row, run) /\ \E b \in Copies(o) : Alike(row, b)),
         prov' \in [Rows -> [OpeningFields -> Linked] \cup {NULL}],
         \A x \in Rows : prov'[x] # NULL => prov[x] # NULL,
         row = NULL => prov'[o] = NULL,
         \A m \in match' : m \in match /\ (row # NULL \/ m.opening # o)
  PROVE  TInv'
<1>1. opening \in [Rows -> OpeningRow \cup {NULL}] /\ (row = NULL \/ row \in OpeningRow)
  BY DEF TInv, RowsOK, CopyOK
<1>2. /\ opening' \in [Rows -> OpeningRow \cup {NULL}] /\ opening'[o] = row
      /\ \A x \in Rows : x # o => opening'[x] = opening[x]
  BY <1>1
<1>3. created <= created'
  BY TakeoffAssumption DEF TInv, LedgerOK
<1>4. CopiesOK'
  <2>1. ASSUME NEW x \in Rows PROVE RowCopiesOK(x)'
    <3>1. opening'[x] # NULL =>
            CopyOK(opening'[x], run) /\ \E b \in Copies(x) : Alike(opening'[x], b)
      BY <1>2, CopyFacts DEF Alike
    <3>. QED BY <1>3, <3>1, ReviewCopies
  <2>. QED BY <2>1 DEF CopiesOK
<1>5. RequestOK'
  BY DEF TInv, RequestOK
<1>6. ASSUME NEW x \in Rows, prov'[x] # NULL
      PROVE  opening'[x] # NULL /\ opening'[x].run # NULL
  <2>1. prov[x] # NULL /\ opening[x] # NULL /\ opening[x].run # NULL
    BY <1>6 DEF TInv, RowsOK
  <2>2. CASE x = o
    <3>1. row # NULL
      BY <1>6, <2>2
    <3>2. PICK b \in Copies(o) : Alike(row, b)
      BY <3>1
    <3>3. Alike(opening[o], b)
      BY <2>1, <2>2, CopyFacts
    <3>. QED BY <1>2, <2>1, <2>2, <3>1, <3>2, <3>3 DEF Alike
  <2>. QED BY <1>2, <2>1, <2>2
<1>7. \A m \in match' : m \in MatchRow /\ opening'[m.opening] # NULL
  BY <1>2 DEF TInv, RowsOK, MatchRow
<1>. QED BY <1>2, <1>4, <1>5, <1>6, <1>7, ReviewFrame

LEMMA LedgerStep ==
  ASSUME TInv, reviews' = reviews \/ OneMore, NEW o \in Rows,
         created' = created \/ (created' = created + 1 /\ created' \in Rows),
         feedback' \in {feedback, feedback \cup {o}}, edited' \in {edited, edited \cup {o}},
         touched' \in {touched, touched \cup {o}}
  PROVE  LedgerOK'
<1>1. reviews' \in 0..MaxReviews
  BY TakeoffAssumption DEF OneMore, TInv, LedgerOK
<1>2. created' \in 0..MaxRows
  BY TakeoffAssumption DEF Rows, TInv, LedgerOK
<1>. QED BY <1>1, <1>2 DEF TInv, LedgerOK

LEMMA AddOpeningStep ==
  ASSUME TInv, NEW e \in Estimators, OneMore, AddOpening(e)
  PROVE  TInv'
<1>1. created + 1 \in Rows
  BY DEF AddOpening
<1>2. PICK o \in Rows : o = created + 1
  BY <1>1
<1>3. PICK g \in Entered["hardware_group"], notes \in Notes \cup {{}} :
          opening' = [opening EXCEPT ![o] =
            [run |-> NULL, door |-> NULL, review |-> "CORRECTED", notes |-> notes,
             value |-> [f \in OpeningFields |-> IF f = "hardware_group" THEN g ELSE Unresolved]]]
  BY <1>2 DEF AddOpening
<1>4. /\ created' = o /\ UNCHANGED <<prov, match, edited>>
      /\ UNCHANGED pipelineRows /\ UNCHANGED request
      /\ feedback' \in {feedback, feedback \cup {o}} /\ touched' = touched \cup {o}
  BY <1>2 DEF AddOpening, takeoffUnchanged, LogUnlessApiDies, Log, Touch
<1> DEFINE value == [f \in OpeningFields |-> IF f = "hardware_group" THEN g ELSE Unresolved]
           row == [run |-> NULL, door |-> NULL, review |-> "CORRECTED", notes |-> notes,
                   value |-> value]
<1>5. g \in Value /\ notes \in SUBSET Note
  BY TextsOK, TakeoffAssumption DEF Value, OpeningFields
<1>6. value \in [OpeningFields -> Value] /\ value["fire_rating"] \in RatingValue
  BY <1>5 DEF Value, OpeningFields, RatingValue
<1>7. opening' = [opening EXCEPT ![o] = row]
  BY <1>3
<1> HIDE DEF value
<1>8. row \in OpeningRow /\ row.run = NULL /\ row.value = value
  BY <1>5, <1>6 DEF OpeningRow, ReviewState
<1> HIDE DEF row
<1>9. row # NULL /\ CopyOK(row, run)
  BY <1>6, <1>8, TakeoffAssumption DEF CopyOK
<1>10. LedgerOK'
  BY <1>2, <1>4, LedgerStep
<1>11. o > created /\ created <= created'
  BY <1>2, <1>4, TakeoffAssumption DEF TInv, LedgerOK
<1>12. /\ opening[o] = NULL /\ worker.rows[o] = NULL /\ prov[o] = NULL
       /\ \A x \in Estimators : request[x].row = o => request[x].copy = NULL
       /\ \A m \in match : m.opening # o
  BY <1>11, NobodyHolds
<1>13. /\ opening' \in [Rows -> OpeningRow \cup {NULL}] /\ opening'[o] = row
       /\ \A x \in Rows : x # o => opening'[x] = opening[x]
  BY <1>7, <1>8 DEF TInv, RowsOK
<1>14. UNCHANGED <<run, worker>>
  BY <1>4 DEF pipelineRows
<1>15. CopiesOK'
  <2>1. ASSUME NEW x \in Rows PROVE RowCopiesOK(x)'
    <3>1. CASE x = o
      <4>1. Copies(x)' \subseteq {row}
        BY <1>4, <1>12, <1>13, <1>14, <3>1 DEF Copies
      <4>2. x <= created' /\ CopyOK(row, run')
        BY <1>4, <1>9, <1>14, <3>1 DEF Rows
      <4>. QED BY <4>1, <4>2, FreshCopy
    <3>2. CASE x # o
      <4>1. opening'[x] # NULL =>
              CopyOK(opening'[x], run) /\ \E b \in Copies(x) : Alike(opening'[x], b)
        BY <1>13, <3>2, CopyFacts DEF Alike
      <4>. QED BY <1>4, <1>10, <1>11, <4>1, ReviewCopies
    <3>. QED BY <3>1, <3>2
  <2>. QED BY <2>1 DEF CopiesOK
<1>16. RequestOK'
  BY <1>4 DEF TInv, RequestOK
<1>17. \A x \in Rows : prov'[x] # NULL => opening'[x] # NULL /\ opening'[x].run # NULL
  BY <1>4, <1>12, <1>13 DEF TInv, RowsOK
<1>18. \A m \in match' : m \in MatchRow /\ opening'[m.opening] # NULL
  BY <1>4, <1>12, <1>13 DEF TInv, RowsOK, MatchRow
<1>19. prov' \in [Rows -> [OpeningFields -> Linked] \cup {NULL}]
  BY <1>4 DEF TInv, RowsOK
<1>. QED BY <1>4, <1>10, <1>13, <1>15, <1>16, <1>17, <1>18, <1>19, ReviewFrame

LEMMA RemoveOpeningStep ==
  ASSUME TInv, NEW e \in Estimators, OneMore, RemoveOpening(e)
  PROVE  TInv'
<1>1. PICK o \in Live : /\ Delete(o) /\ Log(o) /\ Touch(o)
                        /\ edited' = edited \cup {o}
                        /\ UNCHANGED created /\ takeoffUnchanged
  BY DEF RemoveOpening
<1>2. o \in Rows
  BY DEF Live
<1>3. LedgerOK'
  BY <1>1, <1>2, LedgerStep DEF Log, Touch
<1>4. /\ opening' = [opening EXCEPT ![o] = NULL]
      /\ prov' = [prov EXCEPT ![o] = NULL]
      /\ match' = {m \in match : m.opening # o}
      /\ UNCHANGED pipelineRows /\ UNCHANGED request
  BY <1>1 DEF Delete, takeoffUnchanged
<1>5. /\ prov' \in [Rows -> [OpeningFields -> Linked] \cup {NULL}]
      /\ \A x \in Rows : prov'[x] # NULL => prov[x] # NULL
      /\ prov'[o] = NULL
  BY <1>2, <1>4 DEF TInv, RowsOK
<1>. QED BY <1>1, <1>2, <1>3, <1>4, <1>5, RowEdit

LEMMA ConfirmStep ==
  ASSUME TInv, NEW e \in Estimators, OneMore, Confirm(e)
  PROVE  TInv'
<1>1. PICK o \in Live : /\ opening' = [opening EXCEPT ![o].review = "CONFIRMED"]
                        /\ LogUnlessApiDies(o) /\ Touch(o)
                        /\ UNCHANGED <<prov, match, created, edited>> /\ takeoffUnchanged
  BY DEF Confirm
<1>2. o \in Rows /\ opening[o] # NULL
  BY DEF Live
<1>3. LedgerOK'
  BY <1>1, <1>2, LedgerStep DEF LogUnlessApiDies, Log, Touch
<1> DEFINE old == opening[o]
           row == [old EXCEPT !.review = "CONFIRMED"]
<1>4. old \in Copies(o) /\ old \in OpeningRow /\ CopyOK(old, run)
  BY <1>2, CopyFacts
<1>5. opening' = [opening EXCEPT ![o] = row]
  BY <1>1
<1> HIDE DEF old
<1>6. row \in OpeningRow /\ row.run = old.run /\ row.value = old.value
  BY <1>4 DEF OpeningRow, ReviewState
<1> HIDE DEF row
<1>7. CopyOK(row, run) /\ Alike(row, old) /\ row # NULL
  BY <1>4, <1>6, TakeoffAssumption DEF CopyOK, Alike
<1>8. UNCHANGED pipelineRows /\ UNCHANGED request
  BY <1>1 DEF takeoffUnchanged
<1>9. prov' \in [Rows -> [OpeningFields -> Linked] \cup {NULL}]
  BY <1>1 DEF TInv, RowsOK
<1>. QED BY <1>1, <1>2, <1>3, <1>4, <1>5, <1>7, <1>8, <1>9, RowEdit

\* What an override makes of a field of the row.
LEMMA MirroredOK ==
  ASSUME NEW f \in OpeningFields, NEW after \in Entered[f], NEW old
  PROVE  Mirrored(old, f, after) \in Value /\ after \in Texts \cup {NULL}
<1>1. after \in Texts \cup {NULL}
  BY TextsOK, TakeoffAssumption
<1>2. CASE f \in ParsedFields /\ after = NULL
  BY <1>2 DEF Mirrored, Value
<1>3. CASE ~(f \in ParsedFields /\ after = NULL)
  BY <1>1, <1>3 DEF Mirrored, Value
<1>. QED BY <1>1, <1>2, <1>3

LEMMA OverrideStep ==
  ASSUME TInv, NEW e \in Estimators, OneMore, Override(e)
  PROVE  TInv'
<1>1. PICK o \in Live, f \in OpeningFields, state \in Verdicts :
        /\ prov[o] # NULL
        /\ \E after \in Entered[f] :
             /\ ~(Mirrors(f) /\ Refused(o, f, after))
             /\ prov' = [prov EXCEPT ![o][f].value = after, ![o][f].state = state]
             /\ opening' = IF ~Mirrors(f) THEN opening
                           ELSE [opening EXCEPT ![o].value[f] = Mirrored(@, f, after),
                                                ![o].review = "CORRECTED"]
        /\ Log(o) /\ Touch(o)
        /\ edited' = edited \cup {o}
        /\ UNCHANGED <<match, created>> /\ takeoffUnchanged
  BY DEF Override
<1>2. PICK after \in Entered[f] :
         /\ prov' = [prov EXCEPT ![o][f].value = after, ![o][f].state = state]
         /\ opening' = IF ~Mirrors(f) THEN opening
                       ELSE [opening EXCEPT ![o].value[f] = Mirrored(@, f, after),
                                            ![o].review = "CORRECTED"]
  BY <1>1
<1>3. o \in Rows /\ opening[o] # NULL
  BY DEF Live
<1>4. LedgerOK'
  BY <1>1, <1>3, LedgerStep DEF Log, Touch
<1>5. UNCHANGED pipelineRows /\ UNCHANGED request /\ UNCHANGED <<match, created>>
  BY <1>1 DEF takeoffUnchanged
<1>6. /\ prov' \in [Rows -> [OpeningFields -> Linked] \cup {NULL}]
      /\ \A x \in Rows : prov'[x] # NULL => prov[x] # NULL
  <2> DEFINE linked == prov[o]
             field == linked[f]
             new == [field EXCEPT !.value = after, !.state = state]
             all == [linked EXCEPT ![f] = new]
  <2>1. linked \in [OpeningFields -> Linked] /\ field \in Linked
    BY <1>1, <1>3 DEF TInv, RowsOK
  <2>2. prov' = [prov EXCEPT ![o] = all]
    BY <1>2
  <2> HIDE DEF linked, field
  <2>3. new \in Linked
    <3>1. after \in Texts \cup {NULL} /\ state \in ReviewState
      BY MirroredOK, TakeoffAssumption
    <3>. QED BY <2>1, <3>1 DEF Linked
  <2> HIDE DEF new
  <2>4. all \in [OpeningFields -> Linked]
    BY <2>1, <2>3
  <2> HIDE DEF all
  <2>. QED BY <1>1, <1>3, <2>2, <2>4 DEF TInv, RowsOK
<1> DEFINE old == opening[o]
<1>7. old \in Copies(o) /\ old \in OpeningRow /\ CopyOK(old, run)
  BY <1>3, CopyFacts
<1>8. CASE ~Mirrors(f)
  <2>1. opening' = [opening EXCEPT ![o] = old]
    BY <1>2, <1>8 DEF TInv, RowsOK
  <2>2. Alike(old, old)
    BY DEF Alike
  <2>. QED BY <1>3, <1>4, <1>5, <1>6, <1>7, <2>1, <2>2, RowEdit
<1>9. CASE Mirrors(f)
  <2> DEFINE value == [old.value EXCEPT ![f] = Mirrored(@, f, after)]
             row == [old EXCEPT !.value = value, !.review = "CORRECTED"]
  <2>1. opening' = [opening EXCEPT ![o] = row]
    BY <1>2, <1>9
  <2>2. f # "fire_rating"
    BY <1>9 DEF Mirrors
  <2>3. old.value \in [OpeningFields -> Value]
    BY <1>7 DEF OpeningRow
  <2>4. /\ value \in [OpeningFields -> Value]
        /\ value["fire_rating"] = old.value["fire_rating"]
    BY <2>2, <2>3, MirroredOK DEF OpeningFields
  <2> HIDE DEF value, old
  <2>5. row \in OpeningRow /\ row.run = old.run /\ row.value = value
    BY <1>7, <2>4 DEF OpeningRow, ReviewState
  <2> HIDE DEF row
  <2>6. CopyOK(row, run) /\ Alike(row, old) /\ row # NULL
    BY <1>7, <2>4, <2>5, TakeoffAssumption DEF CopyOK, Alike
  <2>. QED BY <1>3, <1>4, <1>5, <1>6, <1>7, <2>1, <2>6, RowEdit
<1>. QED BY <1>8, <1>9

LEMMA JudgeStep ==
  ASSUME TInv, NEW e \in Estimators, OneMore, Judge(e)
  PROVE  TInv'
<1>1. PICK m \in match, status \in {"ACCEPTED", "REJECTED"} :
        /\ match' = (match \ {m}) \cup {[m EXCEPT !.status = status]}
        /\ Log(m.opening)
        /\ UNCHANGED <<opening, prov, created, edited, touched>> /\ takeoffUnchanged
  BY DEF Judge
<1> DEFINE new == [m EXCEPT !.status = status]
<1>2. m \in MatchRow /\ opening[m.opening] # NULL
  BY DEF TInv, RowsOK
<1>3. new \in MatchRow /\ new.opening = m.opening /\ m.opening \in Rows
  BY <1>2 DEF MatchRow, MatchStatus
<1>4. match' = (match \ {m}) \cup {new}
  BY <1>1
<1> HIDE DEF new
<1>5. LedgerOK'
  BY <1>1, <1>3, LedgerStep DEF Log
<1>6. UNCHANGED pipelineRows /\ UNCHANGED request
  BY <1>1 DEF takeoffUnchanged
<1>7. RequestOK' /\ CopiesOK'
  BY <1>1, <1>5, <1>6, SameCopies DEF pipelineRows, TInv, RequestOK
<1>8. \A x \in match' : x \in MatchRow /\ opening'[x.opening] # NULL
  BY <1>1, <1>2, <1>3, <1>4 DEF TInv, RowsOK
<1>9. /\ opening' \in [Rows -> OpeningRow \cup {NULL}]
      /\ prov' \in [Rows -> [OpeningFields -> Linked] \cup {NULL}]
      /\ \A x \in Rows : prov'[x] # NULL => opening'[x] # NULL /\ opening'[x].run # NULL
  BY <1>1 DEF TInv, RowsOK
<1>. QED BY <1>5, <1>6, <1>7, <1>8, <1>9, ReviewFrame

LEMMA BeginSaveStep ==
  ASSUME TInv, NEW e \in Estimators, BeginSave(e)
  PROVE  TInv'
<1>1. PICK o \in Live, pc \in {"update", "keepOne", "keepBoth"} :
        request' = [request EXCEPT ![e] = [pc |-> pc, row |-> o, copy |-> opening[o]]]
  BY DEF BeginSave
<1>2. UNCHANGED pipelineRows
      /\ UNCHANGED <<opening, prov, match, created, reviews, feedback, edited, touched>>
  BY DEF BeginSave
<1>3. o \in Rows /\ opening[o] # NULL /\ opening[o] \in OpeningRow
  BY DEF Live, TInv, RowsOK
<1> DEFINE new == [pc |-> pc, row |-> o, copy |-> opening[o]]
<1>4. new \in Request /\ new.row = o /\ new.copy = opening[o]
  BY <1>3 DEF Request
<1>5. request' = [request EXCEPT ![e] = new]
  BY <1>1
<1> HIDE DEF new
<1>6. RequestOK' /\ LedgerOK'
  BY <1>2, <1>3, <1>4, <1>5 DEF TInv, RequestOK, LedgerOK
<1>7. CopiesOK'
  <2>1. ASSUME NEW x \in Rows PROVE RowCopiesOK(x)'
    <3>1. \A y \in Estimators : request'[y] = request[y] \/ request'[y].copy = opening[request'[y].row]
      BY <1>4, <1>5 DEF TInv, RequestOK
    <3>2. opening'[x] # NULL =>
            CopyOK(opening'[x], run) /\ \E b \in Copies(x) : Alike(opening'[x], b)
      BY <1>2, CopyFacts DEF Alike
    <3>3. created <= created'
      BY <1>2, TakeoffAssumption DEF TInv, LedgerOK
    <3>. QED BY <1>2, <1>6, <3>1, <3>2, <3>3, ReviewCopies
  <2>. QED BY <2>1 DEF CopiesOK
<1>8. /\ opening' \in [Rows -> OpeningRow \cup {NULL}]
      /\ prov' \in [Rows -> [OpeningFields -> Linked] \cup {NULL}]
      /\ \A x \in Rows : prov'[x] # NULL => opening'[x] # NULL /\ opening'[x].run # NULL
      /\ \A m \in match' : m \in MatchRow /\ opening'[m.opening] # NULL
  BY <1>2 DEF TInv, RowsOK
<1>. QED BY <1>2, <1>6, <1>7, <1>8, ReviewFrame

\* A row written back from the copy that a request held.
LEMMA SaveRowStep ==
  ASSUME TInv, NEW e \in Estimators, request[e].pc # "idle", OneMore, NEW row, SaveRow(e, row),
         row \in OpeningRow, Alike(row, request[e].copy),
         feedback' \in {feedback, feedback \cup {request[e].row}},
         edited' \in {edited, edited \cup {request[e].row}}
  PROVE  TInv'
<1>1. PICK o \in Rows : o = request[e].row /\ request[e].copy # NULL
  BY DEF TInv, RequestOK
<1>2. /\ opening' = [opening EXCEPT ![o] = row]
      /\ request' = [request EXCEPT ![e] = IdleRequest]
      /\ touched' = touched \cup {o}
      /\ UNCHANGED pipelineRows /\ UNCHANGED <<prov, match, created>>
  BY <1>1 DEF SaveRow, Touch
<1>3. LedgerOK'
  BY <1>1, <1>2, LedgerStep
<1>4. IdleRequest \in Request /\ IdleRequest.pc = "idle" /\ IdleRequest.copy = NULL
  BY DEF IdleRequest, Request
<1>5. RequestOK'
  BY <1>2, <1>4 DEF TInv, RequestOK
<1>6. request[e].copy \in Copies(o) /\ CopyOK(request[e].copy, run)
  BY <1>1, CopyFacts
<1>7. CopyOK(row, run) /\ row # NULL
  BY <1>6, TakeoffAssumption DEF CopyOK, Alike
<1>8. /\ opening' \in [Rows -> OpeningRow \cup {NULL}] /\ opening'[o] = row
      /\ \A x \in Rows : x # o => opening'[x] = opening[x]
  BY <1>2 DEF TInv, RowsOK
<1>9. CopiesOK'
  <2>1. ASSUME NEW x \in Rows PROVE RowCopiesOK(x)'
    <3>1. opening'[x] # NULL =>
            CopyOK(opening'[x], run) /\ \E b \in Copies(x) : Alike(opening'[x], b)
      BY <1>6, <1>7, <1>8, CopyFacts DEF Alike
    <3>2. \A y \in Estimators : request'[y] = request[y] \/ request'[y].copy = NULL
      BY <1>2, <1>4 DEF TInv, RequestOK
    <3>3. created <= created'
      BY <1>2, TakeoffAssumption DEF TInv, LedgerOK
    <3>. QED BY <1>2, <1>3, <3>1, <3>2, <3>3, ReviewCopies
  <2>. QED BY <2>1 DEF CopiesOK
<1>10. ASSUME NEW x \in Rows, prov'[x] # NULL
       PROVE  opening'[x] # NULL /\ opening'[x].run # NULL
  <2>1. opening[x] # NULL /\ opening[x].run # NULL
    BY <1>2, <1>10 DEF TInv, RowsOK
  <2>2. CASE x = o
    <3>1. Alike(opening[o], request[e].copy)
      BY <1>6, <2>1, <2>2, CopyFacts
    <3>. QED BY <1>7, <1>8, <2>1, <2>2, <3>1 DEF Alike
  <2>. QED BY <1>8, <2>1, <2>2
<1>11. \A m \in match' : m \in MatchRow /\ opening'[m.opening] # NULL
  BY <1>2, <1>7, <1>8 DEF TInv, RowsOK, MatchRow
<1>12. prov' \in [Rows -> [OpeningFields -> Linked] \cup {NULL}]
  BY <1>2 DEF TInv, RowsOK
<1>. QED BY <1>2, <1>3, <1>5, <1>8, <1>9, <1>10, <1>11, <1>12, ReviewFrame

\* The row that a request saves is its copy with another callout, review state and notes.
LEMMA SavedRowOK ==
  ASSUME TInv, NEW e \in Estimators, request[e].pc # "idle",
         NEW g \in Value, NEW review \in ReviewState, NEW notes \in SUBSET Note
  PROVE  LET old == request[e].copy
             row == [old EXCEPT !.value["hardware_group"] = g, !.review = review, !.notes = notes]
             checked == [old EXCEPT !.review = "CONFIRMED"]
         IN /\ row \in OpeningRow /\ Alike(row, old)
            /\ checked \in OpeningRow /\ Alike(checked, old)
            /\ old.review \in ReviewState /\ old.notes \in SUBSET Note
<1> DEFINE old == request[e].copy
           value == [old.value EXCEPT !["hardware_group"] = g]
           row == [old EXCEPT !.value = value, !.review = review, !.notes = notes]
           checked == [old EXCEPT !.review = "CONFIRMED"]
<1>1. /\ old \in OpeningRow /\ old.value \in [OpeningFields -> Value]
      /\ old.review \in ReviewState /\ old.notes \in SUBSET Note
  <2>1. old \in OpeningRow
    BY DEF TInv, RequestOK, Request
  <2>. QED BY <2>1 DEF OpeningRow
<1>2. row = [old EXCEPT !.value["hardware_group"] = g, !.review = review, !.notes = notes]
  OBVIOUS
<1>3. /\ value \in [OpeningFields -> Value]
      /\ value["fire_rating"] = old.value["fire_rating"]
  BY <1>1 DEF OpeningFields
<1> HIDE DEF value, old
<1>4. row \in OpeningRow /\ row.run = old.run /\ row.value = value
  BY <1>1, <1>3 DEF OpeningRow
<1>5. checked \in OpeningRow /\ checked.run = old.run /\ checked.value = old.value
  BY <1>1 DEF OpeningRow, ReviewState
<1>6. row \in OpeningRow /\ Alike(row, old) /\ checked \in OpeningRow /\ Alike(checked, old)
  BY <1>3, <1>4, <1>5 DEF Alike
<1>. QED BY <1>1, <1>2, <1>6 DEF old

LEMMA FinishUpdateStep ==
  ASSUME TInv, NEW e \in Estimators, OneMore, FinishUpdate(e)
  PROVE  TInv'
<1> DEFINE old == request[e].copy
           o == request[e].row
<1>1. request[e].pc # "idle"
  BY DEF FinishUpdate
<1>2. PICK g \in Entered["hardware_group"], review \in {old.review, "FLAGGED", "AUTO"},
           notes \in Notes \cup {old.notes} :
          /\ SaveRow(e, [old EXCEPT !.value["hardware_group"] = g, !.review = review,
                                     !.notes = notes])
          /\ IF g # old.value["hardware_group"]
             THEN Log(o) /\ edited' = edited \cup {o}
             ELSE UNCHANGED <<feedback, edited>>
  BY DEF FinishUpdate
<1>3. g \in Value
  BY TextsOK, TakeoffAssumption DEF Value, OpeningFields
<1>4. review \in ReviewState /\ notes \in SUBSET Note
  <2>1. NULL \in Value /\ "AUTO" \in ReviewState /\ {} \in SUBSET Note
    BY DEF Value, ReviewState
  <2>2. old.review \in ReviewState /\ old.notes \in SUBSET Note
    BY <1>1, <2>1, SavedRowOK
  <2>. QED BY <2>2, TakeoffAssumption DEF ReviewState
<1> DEFINE row == [old EXCEPT !.value["hardware_group"] = g, !.review = review, !.notes = notes]
<1>5. row \in OpeningRow /\ Alike(row, request[e].copy)
  BY <1>1, <1>3, <1>4, SavedRowOK
<1>6. SaveRow(e, row)
  BY <1>2
<1>7. /\ feedback' \in {feedback, feedback \cup {request[e].row}}
      /\ edited' \in {edited, edited \cup {request[e].row}}
  BY <1>2 DEF Log
<1> HIDE DEF row
<1>. QED BY <1>1, <1>5, <1>6, <1>7, SaveRowStep

LEMMA FinishKeepStep ==
  ASSUME TInv, NEW e \in Estimators, OneMore, FinishKeepOne(e) \/ FinishKeepBoth(e)
  PROVE  TInv'
<1> DEFINE row == [request[e].copy EXCEPT !.review = "CONFIRMED"]
<1>1. request[e].pc # "idle" /\ SaveRow(e, row)
  BY DEF FinishKeepOne, FinishKeepBoth
<1>2. /\ feedback' \in {feedback, feedback \cup {request[e].row}}
      /\ edited' \in {edited, edited \cup {request[e].row}}
  BY DEF FinishKeepOne, FinishKeepBoth, Log
<1>3. NULL \in Value /\ "AUTO" \in ReviewState /\ {} \in SUBSET Note
  BY DEF Value, ReviewState
<1>4. row \in OpeningRow /\ Alike(row, request[e].copy)
  BY <1>1, <1>3, SavedRowOK
<1> HIDE DEF row
<1>. QED BY <1>1, <1>2, <1>4, SaveRowStep

LEMMA ReviewStepOK ==
  ASSUME TInv, NEW e \in Estimators, ReviewStep(e)
  PROVE  TInv'
BY BeginSaveStep, FinishUpdateStep, FinishKeepStep, AddOpeningStep, RemoveOpeningStep,
   ConfirmStep, OverrideStep, JudgeStep DEF ReviewStep

(***************************************************************************)
(* The invariant.                                                          *)
(***************************************************************************)
LEMMA TInvStep ==
  TInv /\ [TakeoffNext]_vars => TInv'
<1> SUFFICES ASSUME TInv, [TakeoffNext]_vars PROVE TInv'
  OBVIOUS
<1>1. CASE WorkerStep
  BY <1>1, WorkerStepOK
<1>2. CASE \E e \in Estimators : ReviewStep(e)
  BY <1>2, ReviewStepOK
<1>3. CASE UNCHANGED vars
  <2>1. UNCHANGED pipelineRows /\ UNCHANGED <<opening, prov, match, created, request, reviews, feedback, edited, touched>>
    BY <1>3 DEF vars, reviewRows
  <2>2. RequestOK' /\ LedgerOK'
    BY <2>1 DEF TInv, RequestOK, LedgerOK
  <2>3. CopiesOK'
    BY <2>1, <2>2, SameCopies DEF pipelineRows
  <2>. QED BY <2>1, <2>2, <2>3, ReviewFrame DEF TInv, RowsOK
<1>. QED BY <1>1, <1>2, <1>3 DEF TakeoffNext

\* What the worker, the rows and the requests have in common holds in every state.
THEOREM TakeoffInvariance ==
  TakeoffSpec => []TInv
<1>. QED BY TInvInit, TInvStep, PTL DEF TakeoffSpec

\* The typed rows of a takeoff stay well-formed: no provenance, match or component
\* is left behind by the row it belongs to (the foreign keys of openings/models.py).
THEOREM TakeoffTypeCorrect ==
  TakeoffSpec => []TakeoffTypeOK
<1>1. TInv => TakeoffTypeOK
  <2> SUFFICES ASSUME TInv PROVE TakeoffTypeOK
    OBVIOUS
  <2>1. ASSUME NEW t \in Tables, cache[t] # NULL
        PROVE  cache[t].answer \in Answers /\ cache[t].at \in Generations
    BY <2>1 DEF TInv, CountersOK, CachedAnswer
  <2>2. ASSUME NEW o \in Rows, opening[o] # NULL PROVE IsOpening(opening[o]) /\ o <= created
    <3>1. opening[o] \in OpeningRow /\ o <= created
      BY <2>2, CopyFacts
    <3>. QED BY <3>1 DEF IsOpening, OpeningRow
  <2>3. ASSUME NEW m \in match
        PROVE  opening[m.opening] # NULL /\ m.item \in Items /\ m.status \in MatchStatus
    BY DEF TInv, RowsOK, MatchRow
  <2>4. worker.pc \in WorkerPc
    BY DEF TInv, WorkerOK, Worker
  <2>. QED BY <2>1, <2>2, <2>3, <2>4 DEF TakeoffTypeOK, TInv, CountersOK, RowsOK, LedgerOK
<1>. QED BY <1>1, TakeoffInvariance, PTL

(***************************************************************************)
(* What the steps leave alone.                                             *)
(***************************************************************************)
LEMMA WorkerLeaves ==
  ASSUME WorkerStep
  PROVE  /\ UNCHANGED <<request, reviews, feedback, edited, touched>>
         /\ UNCHANGED <<prov, created, doors>> \/ LinkRecord
         /\ UNCHANGED opening \/ LinkRecord \/ MatchPart
         /\ UNCHANGED match \/ MatchPart
         /\ UNCHANGED component \/ PersistSet
         /\ UNCHANGED documentOf \/ StartRun
         /\ UNCHANGED generation \/ \E d \in Documents : Normalise(d)
         /\ UNCHANGED asked \/ \E t \in Tables : AskModel(t)
         /\ UNCHANGED cache \/ Remember
         /\ UNCHANGED run \/ StartRun \/ CompleteRun \/ RunFails
BY DEF WorkerStep, Normalise, StartRun, Locate, AskModel, Reuse, Remember, StartLink, LinkRecord,
       ReadCallouts, PersistSet, CompleteRun, MatchPart, Price, WorkerDies, reviewRows,
       written, catalogued

\* The row of an opening and its provenance, as the link stage leaves them.
AsLinked(row, linked) ==
  /\ \A f \in ZeroTolerance : row.value[f] # Unresolved =>
       linked[f].state \in {"AUTO", "FLAGGED"} /\ linked[f].cites # {}
  /\ \/ row.review = "FLAGGED"
     \/ \A f \in OpeningFields : linked[f].state = "AUTO" /\ row.value[f] # Unresolved

\* A record that is linked takes a row nobody has, or changes no row at all.
LEMMA LinkRecordWrites ==
  ASSUME TInv, LinkRecord
  PROVE  \/ UNCHANGED <<opening, prov, created>>
         \/ \E o \in Rows : \E row \in OpeningRow : \E linked \in [OpeningFields -> Linked] :
              /\ opening[o] = NULL /\ prov[o] = NULL /\ o > created
              /\ opening' = [opening EXCEPT ![o] = row] /\ prov' = [prov EXCEPT ![o] = linked]
              /\ row # NULL /\ row.run = worker.run
              /\ \A f \in OpeningFields : linked[f].cites \subseteq {generation[worker.doc]}
              /\ AsLinked(row, linked)
<1>1. worker.pc = "link"
  BY DEF LinkRecord, At
<1>2. PICK linkable \in worker.records :
        LET record == linkable.record
            linked == LinkOpening(record, linkable.at, {generation[worker.doc]})
            row == created + 1
        IN CASE record.door = NoMark ->
                  /\ Step([worker EXCEPT !.records = @ \ {linkable}])
                  /\ UNCHANGED <<written, run>>
             [] SameMark(worker.run, record.door) -> RunFails /\ UNCHANGED written
             [] OTHER ->
                /\ row <= MaxRows
                /\ opening' = [opening EXCEPT ![row] =
                     [run |-> worker.run, door |-> record.door,
                      value |-> [f \in OpeningFields |-> Typed(f, Raw(linked[f]))],
                      review |-> Flag(NeedsReview(record, linked)), notes |-> {}]]
                /\ prov' = [prov EXCEPT ![row] = linked]
                /\ created' = row
                /\ doors' = doors \cup {<<worker.run, record.door>>}
                /\ Step([worker EXCEPT !.records = @ \ {linkable}])
                /\ UNCHANGED run
  BY DEF LinkRecord
<1> DEFINE record == linkable.record
           linked == LinkOpening(record, linkable.at, {generation[worker.doc]})
           row == [run |-> worker.run, door |-> record.door,
                   value |-> [f \in OpeningFields |-> Typed(f, Raw(linked[f]))],
                   review |-> Flag(NeedsReview(record, linked)), notes |-> {}]
<1>3. \/ UNCHANGED <<opening, prov, created>>
      \/ /\ created + 1 <= MaxRows
         /\ opening' = [opening EXCEPT ![created + 1] = row]
         /\ prov' = [prov EXCEPT ![created + 1] = linked]
  BY <1>2 DEF written
<1>4. /\ row \in OpeningRow /\ linked \in [OpeningFields -> Linked]
      /\ row # NULL /\ row.run = worker.run
      /\ \A f \in OpeningFields : linked[f].cites \subseteq {generation[worker.doc]}
      /\ AsLinked(row, linked)
  BY <1>1, LinkedRowOK DEF AsLinked
<1> HIDE DEF row, linked
<1>5. CASE /\ created + 1 <= MaxRows
           /\ opening' = [opening EXCEPT ![created + 1] = row]
           /\ prov' = [prov EXCEPT ![created + 1] = linked]
  <2>1. created + 1 \in Rows /\ created + 1 > created
    BY <1>5, TakeoffAssumption DEF TInv, LedgerOK, Rows
  <2>2. PICK o \in Rows : o = created + 1
    BY <2>1
  <2>3. opening[o] = NULL /\ prov[o] = NULL /\ o > created
    BY <2>1, <2>2, NobodyHolds
  <2>4. opening' = [opening EXCEPT ![o] = row] /\ prov' = [prov EXCEPT ![o] = linked]
    BY <1>5, <2>2
  <2>. QED BY <1>4, <2>3, <2>4
<1>. QED BY <1>3, <1>5

\* What matching keeps of a row: all but its notes, and those it only writes with the
\* reason; where there is no opening it makes none.
LEMMA MatchPartLeaves ==
  ASSUME TInv, MatchPart
  PROVE  \A o \in Rows :
           /\ opening[o] = NULL => opening'[o] = NULL
           /\ opening[o] # NULL =>
                /\ opening'[o] # NULL /\ opening'[o].run = opening[o].run
                /\ opening'[o].value = opening[o].value /\ opening'[o].review = opening[o].review
                /\ opening'[o] = [opening[o] EXCEPT !.notes = opening'[o].notes]
                /\ opening'[o].notes # opening[o].notes => "reason" \in opening'[o].notes
<1>1. ASSUME NEW o \in Rows, opening[o] # NULL
      PROVE  opening[o] = [opening[o] EXCEPT !.notes = opening[o].notes]
  <2>1. opening[o] \in OpeningRow
    BY <1>1 DEF TInv, RowsOK
  <2>. QED BY <2>1 DEF OpeningRow
<1>2. CASE UNCHANGED opening
  BY <1>1, <1>2
<1>3. ASSUME NEW o \in Rows, opening[o] # NULL, worker.rows[o] # NULL,
             opening' = [opening EXCEPT ![o] = Annotated(o, worker.rows[o])]
      PROVE  /\ opening'[o] = Annotated(o, worker.rows[o])
             /\ \A x \in Rows : x # o => opening'[x] = opening[x]
  BY <1>3 DEF TInv, RowsOK
<1>4. ASSUME NEW o \in Rows, opening[o] # NULL, worker.rows[o] # NULL
      PROVE  LET row == Annotated(o, worker.rows[o])
             IN /\ row # NULL /\ row.run = opening[o].run /\ row.value = opening[o].value
                /\ row.review = opening[o].review /\ "reason" \in row.notes
                /\ row = [opening[o] EXCEPT !.notes = row.notes]
  BY <1>4, AnnotatedOK
<1>5. \/ UNCHANGED opening
      \/ \E o \in Rows : /\ opening[o] # NULL /\ worker.rows[o] # NULL
                         /\ opening' = [opening EXCEPT ![o] = Annotated(o, worker.rows[o])]
  BY MatchPartWrites DEF Matched
<1>6. CASE \E o \in Rows : /\ opening[o] # NULL /\ worker.rows[o] # NULL
                          /\ opening' = [opening EXCEPT ![o] = Annotated(o, worker.rows[o])]
  <2>1. PICK o \in Rows : /\ opening[o] # NULL /\ worker.rows[o] # NULL
                          /\ opening' = [opening EXCEPT ![o] = Annotated(o, worker.rows[o])]
    BY <1>6
  <2> DEFINE row == Annotated(o, worker.rows[o])
  <2>2. opening'[o] = row /\ \A x \in Rows : x # o => opening'[x] = opening[x]
    BY <1>3, <2>1
  <2>3. /\ row # NULL /\ row.run = opening[o].run /\ row.value = opening[o].value
        /\ row.review = opening[o].review /\ "reason" \in row.notes
        /\ row = [opening[o] EXCEPT !.notes = row.notes]
    BY <1>4, <2>1
  <2> HIDE DEF row
  <2>. QED BY <1>1, <2>1, <2>2, <2>3
<1>. QED BY <1>2, <1>5, <1>6

\* What the estimators' requests keep of a row: its run and its rating, and the
\* citations of its fields; a row that none of them acted on they do not change.
LEMMA ReviewLeaves ==
  ASSUME TInv, NEW e \in Estimators, ReviewStep(e)
  PROVE  /\ UNCHANGED pipelineRows
         /\ touched \subseteq touched'
         /\ \A o \in Rows : opening[o] # NULL /\ opening'[o] # NULL => Alike(opening'[o], opening[o])
         /\ \A o \in Rows : prov'[o] # NULL =>
              prov[o] # NULL /\ \A f \in OpeningFields : prov'[o][f].cites = prov[o][f].cites
         /\ \A o \in Rows \ touched' : opening'[o] = opening[o] /\ prov'[o] = prov[o]
         /\ \A m \in match' : \E n \in match : m.opening = n.opening /\ m.item = n.item
         /\ edited \subseteq feedback => edited' \subseteq feedback'
<1> DEFINE Kept ==
      /\ UNCHANGED pipelineRows
      /\ touched \subseteq touched'
      /\ \A o \in Rows : opening[o] # NULL /\ opening'[o] # NULL => Alike(opening'[o], opening[o])
      /\ \A o \in Rows : prov'[o] # NULL =>
           prov[o] # NULL /\ \A f \in OpeningFields : prov'[o][f].cites = prov[o][f].cites
      /\ \A o \in Rows \ touched' : opening'[o] = opening[o] /\ prov'[o] = prov[o]
      /\ \A m \in match' : \E n \in match : m.opening = n.opening /\ m.item = n.item
      /\ edited \subseteq feedback => edited' \subseteq feedback'
<1>1. CASE BeginSave(e)
  BY <1>1 DEF BeginSave, Alike
<1>2. ASSUME request[e].pc # "idle", NEW row, SaveRow(e, row), Alike(row, request[e].copy),
             edited \subseteq feedback => edited' \subseteq feedback'
      PROVE  Kept
  <2>1. request[e].row \in Rows /\ request[e].copy # NULL
    BY <1>2 DEF TInv, RequestOK
  <2>2. opening' = [opening EXCEPT ![request[e].row] = row] /\ touched' = touched \cup {request[e].row}
        /\ UNCHANGED <<prov, match>> /\ UNCHANGED pipelineRows
    BY <1>2 DEF SaveRow, Touch
  <2>3. ASSUME NEW o \in Rows, opening[o] # NULL, opening'[o] # NULL
        PROVE  Alike(opening'[o], opening[o])
    <3>1. CASE o = request[e].row
      <4>1. Alike(request[e].copy, opening[o])
        BY <2>1, <2>3, <3>1, CopyFacts
      <4>2. opening'[o] = row
        BY <2>2, <3>1 DEF TInv, RowsOK
      <4>. QED BY <1>2, <4>1, <4>2 DEF Alike
    <3>2. CASE o # request[e].row
      BY <2>2, <3>2 DEF TInv, RowsOK, Alike
    <3>. QED BY <3>1, <3>2
  <2>4. \A o \in Rows \ touched' : opening'[o] = opening[o]
    BY <2>2 DEF TInv, RowsOK
  <2>. QED BY <1>2, <2>2, <2>3, <2>4
<1>3. CASE FinishUpdate(e)
  <2> DEFINE old == request[e].copy
  <2>1. PICK g \in Entered["hardware_group"], review \in {old.review, "FLAGGED", "AUTO"},
             notes \in Notes \cup {old.notes} :
            /\ SaveRow(e, [old EXCEPT !.value["hardware_group"] = g, !.review = review,
                                       !.notes = notes])
            /\ IF g # old.value["hardware_group"]
               THEN Log(request[e].row) /\ edited' = edited \cup {request[e].row}
               ELSE UNCHANGED <<feedback, edited>>
    BY <1>3 DEF FinishUpdate
  <2>2. request[e].pc # "idle"
    BY <1>3 DEF FinishUpdate
  <2> DEFINE row == [old EXCEPT !.value["hardware_group"] = g, !.review = review, !.notes = notes]
  <2>3. SaveRow(e, row) /\ (edited \subseteq feedback => edited' \subseteq feedback')
    BY <2>1 DEF Log
  <2>4. g \in Value
    BY TextsOK, TakeoffAssumption DEF Value, OpeningFields
  <2>5. review \in ReviewState /\ notes \in SUBSET Note
    <3>1. NULL \in Value /\ "AUTO" \in ReviewState /\ {} \in SUBSET Note
      BY DEF Value, ReviewState
    <3>2. old.review \in ReviewState /\ old.notes \in SUBSET Note
      BY <2>2, <3>1, SavedRowOK
    <3>. QED BY <3>2, TakeoffAssumption DEF ReviewState
  <2>6. Alike(row, request[e].copy)
    BY <2>2, <2>4, <2>5, SavedRowOK
  <2> HIDE DEF row
  <2>. QED BY <1>2, <2>2, <2>3, <2>6
<1>4. CASE FinishKeepOne(e) \/ FinishKeepBoth(e)
  <2> DEFINE row == [request[e].copy EXCEPT !.review = "CONFIRMED"]
  <2>1. request[e].pc # "idle" /\ SaveRow(e, row)
        /\ (edited \subseteq feedback => edited' \subseteq feedback')
    BY <1>4 DEF FinishKeepOne, FinishKeepBoth, Log
  <2>2. NULL \in Value /\ "AUTO" \in ReviewState /\ {} \in SUBSET Note
    BY DEF Value, ReviewState
  <2>3. Alike(row, request[e].copy)
    BY <2>1, <2>2, SavedRowOK
  <2> HIDE DEF row
  <2>. QED BY <1>2, <2>1, <2>3
<1>5. CASE AddOpening(e)
  <2>1. created + 1 \in Rows /\ created + 1 > created
    BY <1>5, TakeoffAssumption DEF AddOpening, TInv, LedgerOK
  <2>2. PICK o \in Rows : o = created + 1
    BY <2>1
  <2>3. opening[o] = NULL
    BY <2>1, <2>2, NobodyHolds
  <2>4. \E row : opening' = [opening EXCEPT ![o] = row]
    BY <1>5, <2>2 DEF AddOpening
  <2>5. /\ UNCHANGED <<prov, match, edited>> /\ UNCHANGED pipelineRows
        /\ touched' = touched \cup {o} /\ feedback \subseteq feedback'
    BY <1>5, <2>2 DEF AddOpening, Touch, LogUnlessApiDies, Log, takeoffUnchanged
  <2>6. \A x \in Rows : x # o => opening'[x] = opening[x]
    BY <2>4 DEF TInv, RowsOK
  <2>. QED BY <2>3, <2>5, <2>6 DEF Alike
<1>6. CASE RemoveOpening(e)
  <2>1. PICK o \in Live : /\ Delete(o) /\ Log(o) /\ Touch(o)
                          /\ edited' = edited \cup {o}
                          /\ UNCHANGED created /\ takeoffUnchanged
    BY <1>6 DEF RemoveOpening
  <2>2. /\ o \in Rows /\ opening' = [opening EXCEPT ![o] = NULL]
        /\ prov' = [prov EXCEPT ![o] = NULL]
        /\ match' = {m \in match : m.opening # o}
        /\ UNCHANGED pipelineRows
        /\ touched' = touched \cup {o} /\ feedback' = feedback \cup {o}
        /\ edited' = edited \cup {o}
    BY <2>1 DEF Delete, takeoffUnchanged, Live, Touch, Log
  <2>3. /\ opening'[o] = NULL /\ prov'[o] = NULL
        /\ \A x \in Rows : x # o => opening'[x] = opening[x] /\ prov'[x] = prov[x]
    BY <2>2 DEF TInv, RowsOK
  <2>. QED BY <2>2, <2>3 DEF Alike
<1>7. CASE Confirm(e)
  <2>1. PICK o \in Live : /\ opening' = [opening EXCEPT ![o].review = "CONFIRMED"]
                          /\ LogUnlessApiDies(o) /\ Touch(o)
                          /\ UNCHANGED <<prov, match, created, edited>> /\ takeoffUnchanged
    BY <1>7 DEF Confirm
  <2> DEFINE old == opening[o]
             row == [old EXCEPT !.review = "CONFIRMED"]
  <2>2. o \in Rows /\ old \in OpeningRow
    BY DEF Live, TInv, RowsOK
  <2>3. opening' = [opening EXCEPT ![o] = row]
    BY <2>1
  <2> HIDE DEF old
  <2>4. row.run = old.run /\ row.value = old.value
    BY <2>2 DEF OpeningRow
  <2> HIDE DEF row
  <2>5. opening'[o] = row /\ \A x \in Rows : x # o => opening'[x] = opening[x]
    BY <2>2, <2>3 DEF TInv, RowsOK
  <2>6. UNCHANGED <<prov, match, edited>> /\ UNCHANGED pipelineRows
        /\ touched' = touched \cup {o} /\ feedback \subseteq feedback'
    BY <2>1 DEF Touch, LogUnlessApiDies, Log, takeoffUnchanged
  <2>. QED BY <2>2, <2>4, <2>5, <2>6 DEF Alike, old
<1>8. CASE Override(e)
  <2>1. PICK o \in Live, f \in OpeningFields, state \in Verdicts :
          /\ prov[o] # NULL
          /\ \E after \in Entered[f] :
               /\ ~(Mirrors(f) /\ Refused(o, f, after))
               /\ prov' = [prov EXCEPT ![o][f].value = after, ![o][f].state = state]
               /\ opening' = IF ~Mirrors(f) THEN opening
                             ELSE [opening EXCEPT ![o].value[f] = Mirrored(@, f, after),
                                                  ![o].review = "CORRECTED"]
          /\ Log(o) /\ Touch(o)
          /\ edited' = edited \cup {o}
          /\ UNCHANGED <<match, created>> /\ takeoffUnchanged
    BY <1>8 DEF Override
  <2>2. PICK after \in Entered[f] :
           /\ prov' = [prov EXCEPT ![o][f].value = after, ![o][f].state = state]
           /\ opening' = IF ~Mirrors(f) THEN opening
                         ELSE [opening EXCEPT ![o].value[f] = Mirrored(@, f, after),
                                              ![o].review = "CORRECTED"]
    BY <2>1
  <2>3. o \in Rows /\ opening[o] \in OpeningRow /\ prov[o] \in [OpeningFields -> Linked]
    BY <2>1 DEF Live, TInv, RowsOK
  <2>4. /\ UNCHANGED match /\ UNCHANGED pipelineRows
        /\ touched' = touched \cup {o} /\ feedback' = feedback \cup {o}
        /\ edited' = edited \cup {o}
    BY <2>1 DEF Touch, Log, takeoffUnchanged
  <2>5. /\ \A g \in OpeningFields : prov'[o][g].cites = prov[o][g].cites
        /\ \A x \in Rows : x # o => prov'[x] = prov[x]
    <3> DEFINE linked == prov[o]
               field == linked[f]
               new == [field EXCEPT !.value = after, !.state = state]
               all == [linked EXCEPT ![f] = new]
    <3>1. prov' = [prov EXCEPT ![o] = all]
      BY <2>2
    <3>2. linked \in [OpeningFields -> Linked] /\ field \in Linked
      BY <2>3
    <3> HIDE DEF linked, field
    <3>3. new.cites = field.cites
      BY <3>2 DEF Linked
    <3> HIDE DEF new
    <3>4. \A g \in OpeningFields : all[g].cites = linked[g].cites
      BY <3>2, <3>3 DEF field
    <3> HIDE DEF all
    <3>. QED BY <2>3, <3>1, <3>4 DEF linked, TInv, RowsOK
  <2>6. /\ Alike(opening'[o], opening[o])
        /\ \A x \in Rows : x # o => opening'[x] = opening[x]
    <3>1. CASE ~Mirrors(f)
      BY <2>2, <3>1 DEF Alike
    <3>2. CASE Mirrors(f)
      <4> DEFINE old == opening[o]
                 value == [old.value EXCEPT ![f] = Mirrored(@, f, after)]
                 row == [old EXCEPT !.value = value, !.review = "CORRECTED"]
      <4>1. opening' = [opening EXCEPT ![o] = row]
        BY <2>2, <3>2
      <4>2. old \in OpeningRow /\ old.value \in [OpeningFields -> Value] /\ f # "fire_rating"
        BY <2>3, <3>2 DEF OpeningRow, Mirrors
      <4> HIDE DEF old
      <4>3. value["fire_rating"] = old.value["fire_rating"]
        BY <4>2 DEF OpeningFields
      <4> HIDE DEF value
      <4>4. row.run = old.run /\ row.value = value
        BY <4>2 DEF OpeningRow
      <4> HIDE DEF row
      <4>. QED BY <2>3, <4>1, <4>3, <4>4 DEF old, Alike, TInv, RowsOK
    <3>. QED BY <3>1, <3>2
  <2>. QED BY <2>1, <2>4, <2>5, <2>6 DEF Alike
<1>9. CASE Judge(e)
  <2>1. PICK m \in match, status \in {"ACCEPTED", "REJECTED"} :
          /\ match' = (match \ {m}) \cup {[m EXCEPT !.status = status]}
          /\ Log(m.opening)
          /\ UNCHANGED <<opening, prov, created, edited, touched>> /\ takeoffUnchanged
    BY <1>9 DEF Judge
  <2> DEFINE new == [m EXCEPT !.status = status]
  <2>2. new.opening = m.opening /\ new.item = m.item
    BY DEF TInv, RowsOK, MatchRow
  <2>3. match' = (match \ {m}) \cup {new}
    BY <2>1
  <2> HIDE DEF new
  <2>4. \A x \in match' : \E n \in match : x.opening = n.opening /\ x.item = n.item
    BY <2>2, <2>3
  <2>. QED BY <2>1, <2>4 DEF Log, takeoffUnchanged, Alike
<1>. QED BY <1>1, <1>3, <1>4, <1>5, <1>6, <1>7, <1>8, <1>9 DEF ReviewStep

(***************************************************************************)
(* Citations.                                                              *)
(***************************************************************************)
LEMMA CitationsByWorker ==
  ASSUME TInv, CitationsResolve, WorkerStep
  PROVE  CitationsResolve'
<1>1. \/ \E d \in Documents : Normalise(d)
      \/ StartRun \/ LinkRecord \/ PersistSet \/ MatchPart
      \/ UNCHANGED <<generation, documentOf, opening, prov, component>>
  BY DEF WorkerStep, Normalise, StartRun, Locate, AskModel, Reuse, Remember, StartLink, LinkRecord,
         ReadCallouts, PersistSet, CompleteRun, MatchPart, Price, WorkerDies, written
<1>2. \A o \in Rows : prov[o] # NULL =>
        /\ opening[o].run \in Runs /\ run[opening[o].run] # NULL
        /\ documentOf[opening[o].run] \in Documents
  <2> SUFFICES ASSUME NEW o \in Rows, prov[o] # NULL
               PROVE  /\ opening[o].run \in Runs /\ run[opening[o].run] # NULL
                      /\ documentOf[opening[o].run] \in Documents
    OBVIOUS
  <2>1. opening[o] # NULL /\ opening[o].run # NULL
    BY DEF TInv, RowsOK
  <2>2. opening[o] \in OpeningRow /\ run[opening[o].run] # NULL
    BY <2>1, CopyFacts DEF CopyOK
  <2>3. opening[o].run \in Runs
    BY <2>1, <2>2 DEF OpeningRow
  <2>. QED BY <2>2, <2>3 DEF TInv, CountersOK
<1>3. \A c \in component : c.run \in Runs /\ run[c.run] # NULL /\ documentOf[c.run] \in Documents
  BY DEF TInv, RowsOK, CountersOK, Component
<1>4. CASE \E d \in Documents : Normalise(d)
  <2>1. PICK d \in Documents : Normalise(d)
    BY <1>4
  <2>2. UNCHANGED <<documentOf, opening, prov, component>>
    BY <2>1 DEF Normalise, written
  <2>3. CASE UNCHANGED generation
    BY <2>2, <2>3 DEF CitationsResolve
  <2>4. CASE ~Cited(d) /\ generation' = [generation EXCEPT ![d] = @ + 1]
    <3>1. \A x \in Documents : x # d => generation'[x] = generation[x]
      BY <2>4 DEF TInv, CountersOK
    <3>2. ASSUME NEW o \in Rows, prov[o] # NULL, NEW f \in OpeningFields
          PROVE  prov[o][f].cites \subseteq {generation'[documentOf[opening[o].run]]}
      <4>1. CASE documentOf[opening[o].run] = d
        BY <2>4, <3>2, <4>1 DEF Cited
      <4>2. CASE documentOf[opening[o].run] # d
        BY <1>2, <3>1, <3>2, <4>2 DEF CitationsResolve
      <4>. QED BY <4>1, <4>2
    <3>3. ASSUME NEW c \in component PROVE c.cites \subseteq {generation'[documentOf[c.run]]}
      <4>1. CASE documentOf[c.run] = d
        BY <2>4, <4>1 DEF Cited
      <4>2. CASE documentOf[c.run] # d
        BY <1>3, <3>1, <4>2 DEF CitationsResolve
      <4>. QED BY <4>1, <4>2
    <3>. QED BY <2>2, <3>2, <3>3 DEF CitationsResolve
  <2>. QED BY <2>1, <2>3, <2>4 DEF Normalise
<1>5. CASE StartRun
  <2>1. /\ documentOf' = [documentOf EXCEPT ![NextRun] = worker.doc]
        /\ UNCHANGED <<generation, opening, prov, component>> /\ worker.pc = "start"
    BY <1>5 DEF StartRun, written, At
  <2>2. NextRun \in Runs /\ run[NextRun] = NULL
    BY <2>1, NextRunOK
  <2>3. \A r \in Runs : run[r] # NULL => documentOf'[r] = documentOf[r]
    BY <2>1, <2>2 DEF TInv, CountersOK
  <2>. QED BY <1>2, <1>3, <2>1, <2>3 DEF CitationsResolve
<1>6. CASE LinkRecord
  <2>1. UNCHANGED <<generation, documentOf, component>> /\ worker.pc = "link"
    BY <1>6 DEF LinkRecord, At
  <2>2. CASE UNCHANGED <<opening, prov>>
    BY <2>1, <2>2 DEF CitationsResolve
  <2>3. ASSUME NEW o \in Rows, NEW row \in OpeningRow, NEW linked \in [OpeningFields -> Linked],
               opening' = [opening EXCEPT ![o] = row], prov' = [prov EXCEPT ![o] = linked],
               row.run = worker.run,
               \A f \in OpeningFields : linked[f].cites \subseteq {generation[worker.doc]}
        PROVE  CitationsResolve'
    <3>1. documentOf[worker.run] = worker.doc
      BY <2>1, AtWork
    <3>2. /\ opening'[o] = row /\ prov'[o] = linked
          /\ \A x \in Rows : x # o => opening'[x] = opening[x] /\ prov'[x] = prov[x]
      BY <2>3 DEF TInv, RowsOK
    <3>. QED BY <2>1, <2>3, <3>1, <3>2 DEF CitationsResolve
  <2>. QED BY <1>6, <2>2, <2>3, LinkRecordWrites
<1>7. CASE PersistSet
  <2>1. UNCHANGED <<generation, documentOf, opening, prov>> /\ worker.pc = "hardware"
    BY <1>7 DEF PersistSet, At, written
  <2>2. PICK set \in worker.sets : component' = component \cup {set}
    BY <1>7 DEF PersistSet
  <2>3. set.cites \subseteq {generation[documentOf[set.run]]}
    BY <2>1, <2>2, AtWork
  <2>. QED BY <2>1, <2>2, <2>3 DEF CitationsResolve
<1>8. CASE UNCHANGED <<generation, documentOf, opening, prov, component>>
  BY <1>8 DEF CitationsResolve
<1>9. CASE MatchPart
  <2>1. UNCHANGED <<generation, documentOf, prov, component>>
    BY <1>9, MatchPartWrites
  <2>2. \A o \in Rows : opening[o] # NULL => opening'[o].run = opening[o].run
    BY <1>9, MatchPartLeaves
  <2>3. \A o \in Rows : prov[o] # NULL => opening[o] # NULL
    BY DEF TInv, RowsOK
  <2>. QED BY <2>1, <2>2, <2>3 DEF CitationsResolve
<1>. QED BY <1>1, <1>4, <1>5, <1>6, <1>7, <1>8, <1>9

LEMMA CitationsByReview ==
  ASSUME TInv, TInv', CitationsResolve, NEW e \in Estimators, ReviewStep(e)
  PROVE  CitationsResolve'
<1>1. /\ UNCHANGED <<generation, documentOf, component>>
      /\ \A o \in Rows : opening[o] # NULL /\ opening'[o] # NULL => Alike(opening'[o], opening[o])
      /\ \A o \in Rows : prov'[o] # NULL =>
           prov[o] # NULL /\ \A f \in OpeningFields : prov'[o][f].cites = prov[o][f].cites
  BY ReviewLeaves DEF pipelineRows
<1>2. ASSUME NEW o \in Rows, prov'[o] # NULL, NEW f \in OpeningFields
      PROVE  prov'[o][f].cites \subseteq {generation[documentOf[opening'[o].run]]}
  <2>1. prov[o] # NULL /\ opening[o] # NULL /\ opening'[o] # NULL
    BY <1>1, <1>2 DEF TInv, RowsOK
  <2>2. opening'[o].run = opening[o].run /\ prov'[o][f].cites = prov[o][f].cites
    BY <1>1, <1>2, <2>1 DEF Alike
  <2>. QED BY <2>1, <2>2 DEF CitationsResolve
<1>. QED BY <1>1, <1>2 DEF CitationsResolve

\* A citation always stands on an element that exists: normalising a document again
\* is refused while anything cites it (ON DELETE RESTRICT), a run writes the ids of
\* the normalisation it was started for, and no save moves a row to another run.
THEOREM CitationsAlwaysResolve ==
  TakeoffSpec => []CitationsResolve
<1>1. TakeoffInit => CitationsResolve
  BY DEF TakeoffInit, CitationsResolve, NoRows
<1>2. TInv /\ TInv' /\ CitationsResolve /\ [TakeoffNext]_vars => CitationsResolve'
  <2> SUFFICES ASSUME TInv, TInv', CitationsResolve, [TakeoffNext]_vars PROVE CitationsResolve'
    OBVIOUS
  <2>1. CASE UNCHANGED vars
    BY <2>1 DEF vars, pipelineRows, CitationsResolve
  <2>. QED BY <2>1, CitationsByWorker, CitationsByReview DEF TakeoffNext
<1>. QED BY <1>1, <1>2, TakeoffInvariance, PTL DEF TakeoffSpec

(***************************************************************************)
(* What an opening shows before an estimator acts on it.                   *)
(***************************************************************************)
Untouched == \A o \in Rows \ touched : opening[o] # NULL => AsLinked(opening[o], prov[o])

LEMMA UntouchedStep ==
  ASSUME TInv, Untouched, [TakeoffNext]_vars
  PROVE  Untouched'
<1>1. CASE UNCHANGED <<opening, prov, touched>>
  BY <1>1 DEF Untouched
<1>2. CASE LinkRecord
  <2>1. UNCHANGED touched
    BY <1>2 DEF LinkRecord, reviewRows
  <2>2. ASSUME NEW o \in Rows, NEW row \in OpeningRow, NEW linked \in [OpeningFields -> Linked],
               opening' = [opening EXCEPT ![o] = row], prov' = [prov EXCEPT ![o] = linked],
               AsLinked(row, linked)
        PROVE  Untouched'
    <3>1. /\ opening'[o] = row /\ prov'[o] = linked
          /\ \A x \in Rows : x # o => opening'[x] = opening[x] /\ prov'[x] = prov[x]
      BY <2>2 DEF TInv, RowsOK
    <3>. QED BY <2>1, <2>2, <3>1 DEF Untouched
  <2>3. CASE UNCHANGED <<opening, prov>>
    BY <1>1, <2>1, <2>3
  <2>. QED BY <1>2, <2>2, <2>3, LinkRecordWrites
<1>3. CASE MatchPart
  <2>1. UNCHANGED <<prov, touched>>
    BY <1>3, MatchPartWrites
  <2>2. ASSUME NEW o \in Rows \ touched, opening'[o] # NULL
        PROVE  AsLinked(opening'[o], prov[o])
    BY <1>3, <2>2, MatchPartLeaves DEF Untouched, AsLinked
  <2>. QED BY <2>1, <2>2 DEF Untouched
<1>4. CASE WorkerStep
  BY <1>1, <1>2, <1>3, <1>4, WorkerLeaves
<1>5. CASE \E e \in Estimators : ReviewStep(e)
  <2>1. touched \subseteq touched'
        /\ \A o \in Rows \ touched' : opening'[o] = opening[o] /\ prov'[o] = prov[o]
    BY <1>5, ReviewLeaves
  <2>. QED BY <2>1 DEF Untouched
<1>6. CASE UNCHANGED vars
  BY <1>1, <1>6 DEF vars, reviewRows
<1>. QED BY <1>4, <1>5, <1>6 DEF TakeoffNext

LEMMA UntouchedHolds ==
  TakeoffSpec => []Untouched
<1>1. TakeoffInit => Untouched
  BY DEF TakeoffInit, Untouched, NoRows
<1>. QED BY <1>1, UntouchedStep, TakeoffInvariance, PTL DEF TakeoffSpec

\* No invention reaches a zero-tolerance column (NFR-2): what the gate refused, and
\* what the model gave without an element, leaves the column open, and no later run,
\* cached answer or re-reading fills it in; only an estimator does.
THEOREM InventionsAreKeptOut ==
  TakeoffSpec => []OnlyAcceptedValuesAreUsed
<1>1. Untouched => OnlyAcceptedValuesAreUsed
  BY DEF Untouched, AsLinked, OnlyAcceptedValuesAreUsed
<1>. QED BY <1>1, UntouchedHolds, PTL

\* An opening with a refused, missing, uncertain or unreadable field stays flagged
\* until an estimator acts on that very opening.
THEOREM DoubtStaysShown ==
  TakeoffSpec => []DoubtIsShown
<1>1. Untouched => DoubtIsShown
  BY DEF Untouched, AsLinked, DoubtIsShown
<1>. QED BY <1>1, UntouchedHolds, PTL

(***************************************************************************)
(* Matches.                                                                *)
(***************************************************************************)
\* What the hard constraints require of an item, for the rating of a value.
MeetsRating(rating, item) ==
  /\ rating # Unresolved
  /\ rating # Absent => item.minutes # NULL /\ item.minutes >= Minutes(rating)

LEMMA FitsMeetsRating ==
  ASSUME NEW value, value["fire_rating"] \in RatingValue, NEW item, Fits(value, item)
  PROVE  MeetsRating(value["fire_rating"], item)
<1> DEFINE rating == value["fire_rating"]
<1>1. rating # Unresolved /\ Rules!RatingOk(Minutes(rating), item.minutes)
  BY DEF Fits
<1>2. ASSUME rating # Absent PROVE item.minutes # NULL /\ item.minutes >= Minutes(rating)
  <2>1. rating \in Text("fire_rating")
    BY <1>1, <1>2 DEF RatingValue
  <2>2. Minutes(rating) = rating[2]
    BY <2>1 DEF Minutes
  <2>3. Minutes(rating) # NULL
    BY <2>1, <2>2, TextsOK, TakeoffAssumption
  <2>. QED BY <1>1, <2>3 DEF Rules!RatingOk
<1>. QED BY <1>1, <1>2 DEF MeetsRating

LEMMA MatchesStep ==
  ASSUME TInv, TInv', NoUnderRatedMatch, [TakeoffNext]_vars
  PROVE  NoUnderRatedMatch'
<1>1. NoUnderRatedMatch <=>
        \A m \in match : MeetsRating(opening[m.opening].value["fire_rating"], m.item)
  BY DEF NoUnderRatedMatch, MeetsRating
<1>2. NoUnderRatedMatch' <=>
        \A m \in match' : MeetsRating(opening'[m.opening].value["fire_rating"], m.item)
  BY DEF NoUnderRatedMatch, MeetsRating, Minutes
<1>3. \A m \in match : m.opening \in Rows /\ opening[m.opening] # NULL
  BY DEF TInv, RowsOK, MatchRow
<1>4. CASE UNCHANGED <<opening, match>>
  BY <1>1, <1>2, <1>4
<1>5. CASE LinkRecord
  <2>1. UNCHANGED match
    BY <1>5 DEF LinkRecord
  <2>2. \A o \in Rows : opening[o] # NULL => opening'[o] = opening[o]
    BY <1>5, LinkRecordWrites DEF TInv, RowsOK
  <2>. QED BY <1>1, <1>2, <1>3, <2>1, <2>2
<1>6. CASE MatchPart
  <2>1. \A o \in Rows : opening[o] # NULL => opening'[o].value = opening[o].value
    BY <1>6, MatchPartLeaves
  <2>2. CASE UNCHANGED match
    BY <1>1, <1>2, <1>3, <2>1, <2>2
  <2>3. ASSUME NEW o \in Rows, NEW part \in Component \cup {NULL}, NEW status \in {"PROPOSED", "MANUAL"},
               NEW rows, NEW left, Matched(o, part, status, rows, left)
        PROVE  NoUnderRatedMatch'
    <3> DEFINE new == Proposals(o, part, worker.rows[o].value, status)
    <3>1. /\ worker.rows[o] # NULL /\ (opening[o] # NULL \/ new = {})
          /\ match' = {m \in match : m.opening # o \/ m.part # part} \cup new
      BY <2>3 DEF Matched
    <3> DEFINE value == worker.rows[o].value
    <3>2. \A m \in new : m.opening = o /\ Fits(value, m.item) /\ opening[o] # NULL
      BY <3>1, NewMatches
    <3>3. opening[o] # NULL => Alike(worker.rows[o], opening[o]) /\ CopyOK(worker.rows[o], run)
      BY <3>1, CopyFacts
    <3>4. opening[o] # NULL => /\ value["fire_rating"] = opening[o].value["fire_rating"]
                               /\ value["fire_rating"] \in RatingValue
      BY <3>3 DEF Alike, CopyOK
    <3> HIDE DEF value
    <3>5. \A m \in new : MeetsRating(opening[m.opening].value["fire_rating"], m.item)
      BY <3>2, <3>4, FitsMeetsRating
    <3> HIDE DEF new
    <3>. QED BY <1>1, <1>2, <1>3, <2>1, <3>1, <3>2, <3>5
  <2>. QED BY <1>6, <2>2, <2>3, MatchPartWrites
<1>7. CASE WorkerStep
  BY <1>4, <1>5, <1>6, <1>7, WorkerLeaves DEF LinkRecord
<1>8. CASE \E e \in Estimators : ReviewStep(e)
  <2>1. /\ \A o \in Rows : opening[o] # NULL /\ opening'[o] # NULL => Alike(opening'[o], opening[o])
        /\ \A m \in match' : \E n \in match : m.opening = n.opening /\ m.item = n.item
    BY <1>8, ReviewLeaves
  <2>2. ASSUME NEW m \in match'
        PROVE  MeetsRating(opening'[m.opening].value["fire_rating"], m.item)
    <3>1. PICK n \in match : m.opening = n.opening /\ m.item = n.item
      BY <2>1
    <3>2. opening'[m.opening] # NULL
      BY DEF TInv, RowsOK
    <3>3. opening'[m.opening].value["fire_rating"] = opening[n.opening].value["fire_rating"]
      BY <1>3, <2>1, <3>1, <3>2 DEF Alike
    <3>. QED BY <1>1, <3>1, <3>3
  <2>. QED BY <1>2, <2>2
<1>9. CASE UNCHANGED vars
  BY <1>4, <1>9 DEF vars
<1>. QED BY <1>7, <1>8, <1>9 DEF TakeoffNext

\* Whatever is re-read, edited, deleted, saved again from an old copy and matched
\* from what the worker read earlier, no item is on offer for an opening whose fire
\* rating it does not meet or whose rating is not known.
THEOREM MatchesMeetTheRating ==
  TakeoffSpec => []NoUnderRatedMatch
<1>1. TakeoffInit => NoUnderRatedMatch
  BY DEF TakeoffInit, NoUnderRatedMatch
<1>. QED BY <1>1, MatchesStep, TakeoffInvariance, PTL DEF TakeoffSpec

(***************************************************************************)
(* Edits, re-readings and paid answers.                                    *)
(***************************************************************************)
\* Every value an estimator changed and every row one removed has its feedback row,
\* wherever the API dies (FR-13).
THEOREM EditsAreRecorded ==
  TakeoffSpec => []EditsAreOnRecord
<1>1. TakeoffInit => EditsAreOnRecord
  BY DEF TakeoffInit, EditsAreOnRecord
<1>2. TInv /\ EditsAreOnRecord /\ [TakeoffNext]_vars => EditsAreOnRecord'
  <2> SUFFICES ASSUME TInv, EditsAreOnRecord, [TakeoffNext]_vars PROVE EditsAreOnRecord'
    OBVIOUS
  <2>1. CASE WorkerStep
    BY <2>1, WorkerLeaves DEF EditsAreOnRecord
  <2>2. CASE \E e \in Estimators : ReviewStep(e)
    BY <2>2, ReviewLeaves DEF EditsAreOnRecord
  <2>3. CASE UNCHANGED vars
    BY <2>3 DEF vars, reviewRows, EditsAreOnRecord
  <2>. QED BY <2>1, <2>2, <2>3 DEF TakeoffNext
<1>. QED BY <1>1, <1>2, TakeoffInvariance, PTL DEF TakeoffSpec

\* A re-extraction adds its openings under new numbers.  To one that exists the worker
\* adds the reason why it is matched by hand, and from a copy of it however old it leaves
\* its values, its review state and its provenance as the estimators left them.
THEOREM ReadingsAreNeverClobbered ==
  TakeoffSpec => ReadingsAreKept
<1>1. TInv /\ [TakeoffNext]_vars =>
        [\A o \in Rows : opening[o] # NULL /\ ~UNCHANGED pipelineRows =>
           /\ opening'[o] # NULL /\ prov'[o] = prov[o]
           /\ opening'[o] = [opening[o] EXCEPT !.notes = opening'[o].notes]
           /\ opening'[o].notes # opening[o].notes => "reason" \in opening'[o].notes]_vars
  <2> SUFFICES ASSUME TInv, [TakeoffNext]_vars, NEW o \in Rows,
                      opening[o] # NULL, ~UNCHANGED pipelineRows
               PROVE  /\ opening'[o] # NULL /\ prov'[o] = prov[o]
                      /\ opening'[o] = [opening[o] EXCEPT !.notes = opening'[o].notes]
                      /\ opening'[o].notes # opening[o].notes => "reason" \in opening'[o].notes
    OBVIOUS
  <2>1. WorkerStep
    BY ReviewLeaves DEF TakeoffNext, vars
  <2>2. opening[o] = [opening[o] EXCEPT !.notes = opening[o].notes]
    <3>1. opening[o] \in OpeningRow
      BY DEF TInv, RowsOK
    <3>. QED BY <3>1 DEF OpeningRow
  <2>3. CASE LinkRecord
    <3>1. opening'[o] = opening[o] /\ prov'[o] = prov[o]
      BY <2>3, LinkRecordWrites DEF TInv, RowsOK
    <3>. QED BY <2>2, <3>1
  <2>4. CASE MatchPart
    <3>1. UNCHANGED prov
      BY <2>4, MatchPartWrites
    <3>. QED BY <2>4, <3>1, MatchPartLeaves
  <2>5. CASE UNCHANGED <<opening, prov>>
    BY <2>2, <2>5
  <2>. QED BY <2>1, <2>3, <2>4, <2>5, WorkerLeaves
<1>. QED BY <1>1, TakeoffInvariance, PTL DEF TakeoffSpec, ReadingsAreKept

\* An answer that was remembered is never bought again (B8): whoever reads the table
\* next finds it in the cache, in this run or in any later one.
THEOREM AnswersAreReused ==
  TakeoffSpec => PaidAnswersAreReused
<1>1. TInv /\ [TakeoffNext]_vars =>
        [\A t \in Tables : cache[t] # NULL => asked'[t] = asked[t]]_vars
  <2> SUFFICES ASSUME TInv, [TakeoffNext]_vars, NEW t \in Tables, cache[t] # NULL
               PROVE  asked'[t] = asked[t]
    OBVIOUS
  <2>1. CASE UNCHANGED asked
    BY <2>1
  <2>2. ASSUME NEW u \in Tables, AskModel(u)
        PROVE  asked'[t] = asked[t]
    <3>1. cache[u] = NULL
      BY <2>2 DEF AskModel, Uncached
    <3>2. asked' = [asked EXCEPT ![u] = @ + 1] \/ asked' = asked
      BY <2>2 DEF AskModel
    <3>. QED BY <3>1, <3>2 DEF TInv, CountersOK
  <2>3. CASE WorkerStep
    BY <2>1, <2>2, <2>3, WorkerLeaves
  <2>4. CASE \E e \in Estimators : ReviewStep(e)
    BY <2>1, <2>4, ReviewLeaves DEF pipelineRows
  <2>5. CASE UNCHANGED vars
    BY <2>1, <2>5 DEF vars, pipelineRows
  <2>. QED BY <2>3, <2>4, <2>5 DEF TakeoffNext
<1>. QED BY <1>1, TakeoffInvariance, PTL DEF TakeoffSpec, PaidAnswersAreReused

(***************************************************************************)
(* Completed runs.                                                         *)
(***************************************************************************)
\* What a worker w has read of the tables it chose, given the answers and the doors.
AllRead(w, answers, seen) ==
  \A t \in w.chosen \ w.todo :
    /\ answers[t] # NULL
    /\ \A record \in answers[t].answer : record.door # NoMark =>
         <<w.run, record.door>> \in seen \/ \E l \in w.records : l.record = record

\* The callouts of a worker's openings that have a component, or a set still to persist.
AllCalled ==
  \A o \in OpeningsOf(worker.run) \ touched :
    LET callout == opening[o].value["hardware_group"]
    IN callout # NULL => \E c \in component \cup worker.sets : c.run = worker.run /\ c.group = callout

Reading(pc) == pc \in {"extract", "remember", "link", "hardware"}

ReadInv ==
  /\ worker.pc = "start" => worker.chosen = {}
  /\ worker.pc = "remember" => worker.answer[1] \in worker.todo
  /\ worker.pc \in {"link", "hardware"} => worker.todo = {}
  /\ worker.pc = "hardware" => worker.records = {}
  /\ Reading(worker.pc) => AllRead(worker, cache, doors)
  /\ worker.pc = "hardware" /\ worker.definitions = {} => AllCalled

\* A worker that reads nothing keeps ReadInv.
LEMMA NotReading ==
  ASSUME worker'.pc \notin {"start"}, ~Reading(worker'.pc)
  PROVE  ReadInv'
BY DEF ReadInv, Reading

LEMMA FailedReads ==
  ASSUME Step(IdleWorker)
  PROVE  ReadInv'
BY IdleWorkerOK, NotReading DEF Step, Reading

LEMMA LinkableHas ==
  ASSUME NEW t, NEW answer, NEW at, NEW record \in answer
  PROVE  \E l \in Linkable(t, answer, at) : l.record = record
<1> DEFINE l == [record |-> record, table |-> t, at |-> at]
<1>1. l \in Linkable(t, answer, at)
  BY DEF Linkable
<1>2. l.record = record
  OBVIOUS
<1>. QED BY <1>1, <1>2

LEMMA ReadInvByRemember ==
  ASSUME TInv, ReadInv, Remember
  PROVE  ReadInv'
<1> DEFINE t == worker.answer[1]
           fresh == [answer |-> worker.answer[2], at |-> generation[worker.doc]]
           new == Linkable(t, fresh.answer, fresh.at)
           s == [worker EXCEPT !.pc = "extract", !.answer = NULL, !.todo = @ \ {t},
                               !.records = @ \cup new]
<1>1. worker.pc = "remember" /\ Step(s) /\ cache' = [cache EXCEPT ![t] = fresh]
      /\ UNCHANGED doors
  BY DEF Remember, At, written
<1>2. t \in Tables /\ t \in worker.todo /\ AllRead(worker, cache, doors)
  BY <1>1, AtWork DEF ReadInv, Reading
<1>3. cache'[t] = fresh /\ \A u \in Tables : u # t => cache'[u] = cache[u]
  BY <1>1, <1>2 DEF TInv, CountersOK
<1>4. fresh \in CachedAnswer /\ fresh # NULL
  BY <1>1, AtWork, TakeoffAssumption DEF CachedAnswer
<1>5. \A record \in fresh.answer : \E l \in new : l.record = record
  BY LinkableHas
<1> HIDE DEF fresh, new, t
<1>6. /\ s.pc = "extract" /\ s.chosen = worker.chosen /\ s.todo = worker.todo \ {t}
      /\ s.run = worker.run /\ s.records = worker.records \cup new
      /\ worker.chosen \subseteq Tables
  BY <1>1, AtWork DEF Worker
<1>7. worker' = s
  BY <1>1 DEF Step
<1> HIDE DEF s
<1>8. AllRead(s, cache', doors')
  <2> SUFFICES ASSUME NEW u \in worker.chosen \ (worker.todo \ {t})
               PROVE  /\ cache'[u] # NULL
                      /\ \A record \in cache'[u].answer : record.door # NoMark =>
                           \/ <<worker.run, record.door>> \in doors
                           \/ \E l \in worker.records \cup new : l.record = record
    BY <1>1, <1>6 DEF AllRead
  <2>1. CASE u = t
    BY <1>3, <1>4, <1>5, <2>1
  <2>2. CASE u # t
    BY <1>2, <1>3, <1>6, <2>2 DEF AllRead
  <2>. QED BY <2>1, <2>2
<1>. QED BY <1>6, <1>7, <1>8 DEF ReadInv, Reading

LEMMA ReadInvByReuse ==
  ASSUME TInv, ReadInv, NEW t \in Tables, Reuse(t)
  PROVE  ReadInv'
<1> DEFINE new == Linkable(t, cache[t].answer, cache[t].at)
           s == [worker EXCEPT !.todo = @ \ {t}, !.records = @ \cup new]
<1>1. worker.pc = "extract" /\ Step(s) /\ cache[t] # NULL
      /\ UNCHANGED <<cache, doors>>
  BY DEF Reuse, At, written, catalogued, Uncached
<1>2. AllRead(worker, cache, doors)
  BY <1>1 DEF ReadInv, Reading
<1>3. \A record \in cache[t].answer : \E l \in new : l.record = record
  BY LinkableHas
<1> HIDE DEF new
<1>4. /\ s.pc = "extract" /\ s.chosen = worker.chosen /\ s.todo = worker.todo \ {t}
      /\ s.run = worker.run /\ s.records = worker.records \cup new
  BY <1>1, AtWork DEF Worker
<1>5. worker' = s
  BY <1>1 DEF Step
<1> HIDE DEF s
<1>6. AllRead(s, cache', doors')
  <2> SUFFICES ASSUME NEW u \in worker.chosen \ (worker.todo \ {t})
               PROVE  /\ cache[u] # NULL
                      /\ \A record \in cache[u].answer : record.door # NoMark =>
                           \/ <<worker.run, record.door>> \in doors
                           \/ \E l \in worker.records \cup new : l.record = record
    BY <1>1, <1>4 DEF AllRead
  <2>1. CASE u = t
    BY <1>1, <1>3, <2>1
  <2>2. CASE u # t
    BY <1>2, <2>2 DEF AllRead
  <2>. QED BY <2>1, <2>2
<1>. QED BY <1>4, <1>5, <1>6 DEF ReadInv, Reading

LEMMA ReadInvByLinkRecord ==
  ASSUME TInv, ReadInv, LinkRecord
  PROVE  ReadInv'
<1>1. worker.pc = "link" /\ UNCHANGED cache
  BY DEF LinkRecord, At, catalogued
<1>2. PICK linkable \in worker.records :
        LET record == linkable.record
            linked == LinkOpening(record, linkable.at, {generation[worker.doc]})
            row == created + 1
        IN CASE record.door = NoMark ->
                  /\ Step([worker EXCEPT !.records = @ \ {linkable}])
                  /\ UNCHANGED <<written, run>>
             [] SameMark(worker.run, record.door) -> RunFails /\ UNCHANGED written
             [] OTHER ->
                /\ row <= MaxRows
                /\ opening' = [opening EXCEPT ![row] =
                     [run |-> worker.run, door |-> record.door,
                      value |-> [f \in OpeningFields |-> Typed(f, Raw(linked[f]))],
                      review |-> Flag(NeedsReview(record, linked)), notes |-> {}]]
                /\ prov' = [prov EXCEPT ![row] = linked]
                /\ created' = row
                /\ doors' = doors \cup {<<worker.run, record.door>>}
                /\ Step([worker EXCEPT !.records = @ \ {linkable}])
                /\ UNCHANGED run
  BY DEF LinkRecord
<1> DEFINE record == linkable.record
           s == [worker EXCEPT !.records = @ \ {linkable}]
<1>3. \/ Step(s) /\ doors \subseteq doors'
         /\ (record.door = NoMark \/ <<worker.run, record.door>> \in doors')
      \/ RunFails
  BY <1>2 DEF written
<1>4. CASE RunFails
  BY <1>4, FailedReads DEF RunFails
<1>5. CASE Step(s) /\ doors \subseteq doors'
           /\ (record.door = NoMark \/ <<worker.run, record.door>> \in doors')
  <2>1. /\ s.pc = "link" /\ s.chosen = worker.chosen /\ s.todo = worker.todo
        /\ s.run = worker.run /\ s.records = worker.records \ {linkable}
    BY <1>1, AtWork DEF Worker
  <2>2. worker' = s
    BY <1>5 DEF Step
  <2> HIDE DEF s
  <2>3. AllRead(worker, cache, doors) /\ worker.todo = {}
    BY <1>1 DEF ReadInv, Reading
  <2>4. AllRead(s, cache', doors')
    BY <1>1, <1>5, <2>1, <2>3 DEF AllRead
  <2>. QED BY <2>1, <2>2, <2>3, <2>4 DEF ReadInv, Reading
<1>. QED BY <1>3, <1>4, <1>5

LEMMA ReadInvByReadCallouts ==
  ASSUME TInv, ReadInv, ReadCallouts
  PROVE  ReadInv'
<1> DEFINE callouts == Callouts(worker.run)
<1>1. worker.pc = "link" /\ worker.records = {}
      /\ UNCHANGED <<cache, doors, opening, component, touched>>
  BY DEF ReadCallouts, At, written, catalogued, reviewRows
<1>2. \/ RunFails
      \/ \E sets : /\ worker.definitions = {} => sets = {Unfound(g) : g \in callouts}
                   /\ sets = {Unfound(g) : g \in callouts} \/ sets \in PersistedSets(callouts)
                   /\ Step([worker EXCEPT !.pc = "hardware", !.sets = sets])
  BY DEF ReadCallouts
<1>3. CASE RunFails
  BY <1>3, FailedReads DEF RunFails
<1>4. CASE ~RunFails
  <2>1. PICK sets : /\ worker.definitions = {} => sets = {Unfound(g) : g \in callouts}
                    /\ Step([worker EXCEPT !.pc = "hardware", !.sets = sets])
    BY <1>2, <1>4
  <2> DEFINE s == [worker EXCEPT !.pc = "hardware", !.sets = sets]
  <2>2. /\ s.pc = "hardware" /\ s.chosen = worker.chosen /\ s.todo = worker.todo
        /\ s.run = worker.run /\ s.records = worker.records
        /\ s.definitions = worker.definitions /\ s.sets = sets
    BY <1>1, AtWork DEF Worker
  <2>3. worker' = s
    BY <2>1 DEF Step
  <2> HIDE DEF s
  <2>4. AllRead(worker, cache, doors) /\ worker.todo = {}
    BY <1>1 DEF ReadInv, Reading
  <2>5. AllRead(s, cache', doors')
    BY <1>1, <2>2, <2>4 DEF AllRead
  <2>6. ASSUME worker'.definitions = {} PROVE AllCalled'
    <3> SUFFICES ASSUME NEW o \in OpeningsOf(worker.run),
                        opening[o].value["hardware_group"] # NULL
                 PROVE  \E c \in sets : /\ c.run = worker.run
                                        /\ c.group = opening[o].value["hardware_group"]
      BY <1>1, <2>2, <2>3 DEF AllCalled, OpeningsOf
    <3> DEFINE g == opening[o].value["hardware_group"]
    <3>1. g \in callouts
      BY DEF Callouts
    <3>2. Unfound(g) \in sets
      BY <2>1, <2>2, <2>3, <2>6, <3>1
    <3>3. Unfound(g).run = worker.run /\ Unfound(g).group = g
      BY DEF Unfound
    <3>. QED BY <3>2, <3>3
  <2>. QED BY <1>1, <2>2, <2>3, <2>4, <2>5, <2>6 DEF ReadInv, Reading
<1>. QED BY <1>3, <1>4

LEMMA ReadInvByPersistSet ==
  ASSUME TInv, ReadInv, PersistSet
  PROVE  ReadInv'
<1>1. worker.pc = "hardware" /\ UNCHANGED <<cache, doors, opening, touched>>
  BY DEF PersistSet, At, written, catalogued, reviewRows
<1>2. PICK set \in worker.sets : /\ component' = component \cup {set}
                                 /\ Step([worker EXCEPT !.sets = @ \ {set}])
  BY DEF PersistSet
<1> DEFINE s == [worker EXCEPT !.sets = @ \ {set}]
<1>3. /\ s.pc = "hardware" /\ s.chosen = worker.chosen /\ s.todo = worker.todo
      /\ s.run = worker.run /\ s.records = worker.records
      /\ s.definitions = worker.definitions /\ s.sets = worker.sets \ {set}
  BY <1>1, AtWork DEF Worker
<1>4. worker' = s
  BY <1>2 DEF Step
<1> HIDE DEF s
<1>5. AllRead(worker, cache, doors) /\ worker.todo = {} /\ worker.records = {}
      /\ (worker.definitions = {} => AllCalled)
  BY <1>1 DEF ReadInv, Reading
<1>6. AllRead(s, cache', doors')
  BY <1>1, <1>3, <1>5 DEF AllRead
<1>7. component' \cup s.sets = component \cup worker.sets
  BY <1>2, <1>3
<1>8. AllCalled => AllCalled'
  BY <1>1, <1>3, <1>4, <1>7 DEF AllCalled, OpeningsOf
<1>. QED BY <1>3, <1>4, <1>5, <1>6, <1>8 DEF ReadInv, Reading

LEMMA ReadInvByWorker ==
  ASSUME TInv, ReadInv, WorkerStep
  PROVE  ReadInv'
<1>1. ASSUME NEW d \in Documents, Normalise(d) PROVE ReadInv'
  <2>1. worker.pc = "idle" /\ (worker' = worker \/ worker' = [IdleWorker EXCEPT !.pc = "start", !.doc = d])
    BY <1>1 DEF Normalise, At, Step
  <2> DEFINE s == [IdleWorker EXCEPT !.pc = "start", !.doc = d]
  <2>2. s.pc = "start" /\ s.chosen = {}
    BY IdleWorkerOK DEF IdleWorker
  <2> HIDE DEF s
  <2>. QED BY <2>1, <2>2 DEF ReadInv, Reading, s
<1>2. CASE StartRun
  <2>1. worker.pc = "start" /\ (Step(IdleWorker) \/ Step([worker EXCEPT !.pc = "locate", !.run = NextRun]))
    BY <1>2 DEF StartRun, At
  <2>2. worker \in Worker
    BY DEF TInv, WorkerOK
  <2>3. [worker EXCEPT !.pc = "locate", !.run = NextRun].pc = "locate"
    BY <2>2 DEF Worker
  <2>. QED BY <2>1, <2>3, FailedReads, NotReading DEF Step, Reading
<1>3. CASE Locate
  <2>1. \/ RunFails
        \/ \E extract, define : Step([worker EXCEPT !.pc = "extract", !.todo = extract,
                                        !.chosen = extract, !.definitions = define])
    BY <1>3 DEF Locate
  <2>2. ASSUME NEW extract, NEW define,
               Step([worker EXCEPT !.pc = "extract", !.todo = extract,
                                   !.chosen = extract, !.definitions = define])
        PROVE  ReadInv'
    <3> DEFINE s == [worker EXCEPT !.pc = "extract", !.todo = extract,
                                   !.chosen = extract, !.definitions = define]
    <3>1. worker \in Worker
      BY DEF TInv, WorkerOK
    <3>2. s.pc = "extract" /\ s.todo = extract /\ s.chosen = extract
      BY <3>1 DEF Worker
    <3>3. worker' = s
      BY <2>2 DEF Step
    <3> HIDE DEF s
    <3>. QED BY <3>2, <3>3 DEF ReadInv, Reading, AllRead
  <2>. QED BY <2>1, <2>2, FailedReads DEF RunFails
<1>4. ASSUME NEW t \in Tables, AskModel(t) PROVE ReadInv'
  <2>1. worker.pc = "extract" /\ t \in worker.todo /\ UNCHANGED <<cache, doors>>
    BY <1>4 DEF AskModel, At, written
  <2>2. CASE RunFails
    BY <2>2, FailedReads DEF RunFails
  <2>3. CASE \E answer \in Answers : Step([worker EXCEPT !.pc = "remember", !.answer = <<t, answer>>])
    <3>1. PICK answer \in Answers :
            Step([worker EXCEPT !.pc = "remember", !.answer = <<t, answer>>])
      BY <2>3
    <3> DEFINE s == [worker EXCEPT !.pc = "remember", !.answer = <<t, answer>>]
    <3>2. /\ s.pc = "remember" /\ s.todo = worker.todo /\ s.chosen = worker.chosen
          /\ s.run = worker.run /\ s.records = worker.records /\ s.answer[1] = t
      BY <2>1, AtWork DEF Worker
    <3>3. worker' = s
      BY <3>1 DEF Step
    <3> HIDE DEF s
    <3>. QED BY <2>1, <3>2, <3>3 DEF ReadInv, Reading, AllRead
  <2>. QED BY <1>4, <2>2, <2>3 DEF AskModel
<1>5. CASE StartLink
  <2>1. worker.pc = "extract" /\ worker.todo = {} /\ UNCHANGED <<cache, doors>>
        /\ Step([worker EXCEPT !.pc = "link"])
    BY <1>5 DEF StartLink, At, written, catalogued
  <2> DEFINE s == [worker EXCEPT !.pc = "link"]
  <2>2. /\ s.pc = "link" /\ s.todo = worker.todo /\ s.chosen = worker.chosen
        /\ s.run = worker.run /\ s.records = worker.records
    BY <2>1, AtWork DEF Worker
  <2>3. worker' = s
    BY <2>1 DEF Step
  <2> HIDE DEF s
  <2>. QED BY <2>1, <2>2, <2>3 DEF ReadInv, Reading, AllRead
<1>6. CASE CompleteRun \/ MatchPart
  <2>1. \/ Step(IdleWorker)
        \/ \E rows, left : Step([worker EXCEPT !.pc = "match", !.rows = rows, !.parts = left])
        \/ /\ worker.pc = "match"
           /\ \E rows, left : Step([worker EXCEPT !.rows = rows, !.parts = left])
    <3>1. CASE CompleteRun
      BY <3>1 DEF CompleteRun
    <3>2. CASE MatchPart
      <4>1. worker.pc = "match"
        BY <3>2 DEF MatchPart, At
      <4>. QED BY <3>2, <4>1, MatchPartWrites DEF RunFails, Matched
    <3>. QED BY <1>6, <3>1, <3>2
  <2>2. worker \in Worker
    BY DEF TInv, WorkerOK
  <2>3. ASSUME NEW rows, NEW left,
               Step([worker EXCEPT !.pc = "match", !.rows = rows, !.parts = left])
        PROVE  worker'.pc = "match"
    BY <2>2, <2>3 DEF Worker, Step
  <2>4. ASSUME NEW rows, NEW left, Step([worker EXCEPT !.rows = rows, !.parts = left])
        PROVE  worker'.pc = worker.pc
    BY <2>2, <2>4 DEF Worker, Step
  <2>5. Step(IdleWorker) \/ worker'.pc = "match"
    BY <2>1, <2>3, <2>4
  <2>. QED BY <2>5, FailedReads, NotReading DEF Reading
<1>7. CASE Price \/ WorkerDies
  BY <1>7, FailedReads DEF Price, WorkerDies, RunFails
<1>. QED BY <1>1, <1>2, <1>3, <1>4, <1>5, <1>6, <1>7, ReadInvByRemember, ReadInvByReuse,
         ReadInvByLinkRecord, ReadInvByReadCallouts, ReadInvByPersistSet DEF WorkerStep

LEMMA ReadInvHolds ==
  TakeoffSpec => []ReadInv
<1>1. TakeoffInit => ReadInv
  BY IdleWorkerOK DEF TakeoffInit, ReadInv, Reading
<1>2. TInv /\ ReadInv /\ [TakeoffNext]_vars => ReadInv'
  <2> SUFFICES ASSUME TInv, ReadInv, [TakeoffNext]_vars PROVE ReadInv'
    OBVIOUS
  <2>1. ASSUME UNCHANGED <<worker, cache, doors, component>>, touched \subseteq touched',
               \A o \in Rows \ touched' : opening'[o] = opening[o]
        PROVE  ReadInv'
    <3>1. AllCalled => AllCalled'
      BY <2>1 DEF AllCalled, OpeningsOf
    <3>. QED BY <2>1, <3>1 DEF ReadInv, Reading, AllRead
  <2>2. CASE WorkerStep
    BY <2>2, ReadInvByWorker
  <2>3. CASE \E e \in Estimators : ReviewStep(e)
    BY <2>1, <2>3, ReviewLeaves DEF pipelineRows
  <2>4. CASE UNCHANGED vars
    BY <2>1, <2>4 DEF vars, pipelineRows, reviewRows
  <2>. QED BY <2>2, <2>3, <2>4 DEF TakeoffNext
<1>. QED BY <1>1, <1>2, TakeoffInvariance, PTL DEF TakeoffSpec

\* A run says COMPLETED only when every record with a mark, of every table it chose,
\* was written by this very run, from a new answer or a remembered one, and when every
\* callout of its untouched openings has a row if no definition was found.
THEOREM CompletedMeansRead ==
  TakeoffSpec => CompletedRunsReadEverything
<1>1. TInv /\ ReadInv /\ [TakeoffNext]_vars =>
        [\A r \in Runs : run[r] # "COMPLETED" /\ run'[r] = "COMPLETED" =>
           /\ \A t \in worker.chosen : cache[t] # NULL
                /\ \A record \in cache[t].answer : record.door # NoMark => <<r, record.door>> \in doors
           /\ worker.definitions = {} =>
                \A o \in OpeningsOf(r) \ touched :
                  LET callout == opening[o].value["hardware_group"]
                  IN callout # NULL => \E c \in component : c.run = r /\ c.group = callout]_vars
  <2> SUFFICES ASSUME TInv, ReadInv, [TakeoffNext]_vars, NEW r \in Runs,
                      run[r] # "COMPLETED", run'[r] = "COMPLETED"
               PROVE  /\ \A t \in worker.chosen : cache[t] # NULL
                           /\ \A record \in cache[t].answer :
                                record.door # NoMark => <<r, record.door>> \in doors
                      /\ worker.definitions = {} =>
                           \A o \in OpeningsOf(r) \ touched :
                             LET callout == opening[o].value["hardware_group"]
                             IN callout # NULL => \E c \in component : c.run = r /\ c.group = callout
    OBVIOUS
  <2>1. ~UNCHANGED run
    OBVIOUS
  <2>2. WorkerStep
    BY <2>1, ReviewLeaves DEF TakeoffNext, vars, pipelineRows
  <2>3. ~RunFails
    BY DEF RunFails, TInv, CountersOK
  <2>4. CASE StartRun
    <3>1. worker.pc = "start" /\ \E status : run' = [run EXCEPT ![NextRun] = status]
      BY <2>4 DEF StartRun, At
    <3>2. r = NextRun
      BY <3>1 DEF TInv, CountersOK
    <3>3. worker.chosen = {}
      BY <3>1 DEF ReadInv
    <3>4. run[r] = NULL
      BY <3>1, <3>2, NextRunOK
    <3>5. OpeningsOf(r) = {}
      <4>1. ASSUME NEW o \in Rows, opening[o] # NULL, opening[o].run = r PROVE FALSE
        <5>1. run[r] # NULL
          BY <4>1, CopyFacts, TakeoffAssumption DEF CopyOK
        <5>. QED BY <3>4, <5>1
      <4>. QED BY <4>1 DEF OpeningsOf
    <3>. QED BY <3>3, <3>5
  <2>5. CASE CompleteRun
    <3>1. worker.pc = "hardware" /\ worker.sets = {} /\ run' = [run EXCEPT ![worker.run] = "COMPLETED"]
      BY <2>5 DEF CompleteRun, At
    <3>2. r = worker.run
      BY <3>1 DEF TInv, CountersOK
    <3>3. /\ worker.todo = {} /\ worker.records = {} /\ AllRead(worker, cache, doors)
          /\ worker.definitions = {} => AllCalled
      BY <3>1 DEF ReadInv, Reading
    <3>. QED BY <3>1, <3>2, <3>3 DEF AllRead, AllCalled
  <2>. QED BY <2>1, <2>2, <2>3, <2>4, <2>5, WorkerLeaves
<1>. QED BY <1>1, TakeoffInvariance, ReadInvHolds, PTL DEF TakeoffSpec, CompletedRunsReadEverything
=============================================================================
