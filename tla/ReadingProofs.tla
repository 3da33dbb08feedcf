--------------------------- MODULE ReadingProofs ---------------------------
(***************************************************************************)
(* What one worker process promises about one reading of a document: an    *)
(* acknowledged message leaves its outcome in the rows, a settled document *)
(* is not reopened, a citation opens the page it was read from, and a      *)
(* PROCESSED document has the elements of every page that was bought.  For *)
(* any number of documents, pages, messages and consumers of ocr-complete, *)
(* any overrides and any faults.                                           *)
(*                                                                         *)
(* Two consumers of document-ready break all four (one may be between      *)
(* PREPROCESS COMPLETED and the PROCESSING it writes next while the other  *)
(* goes on), and so does a re-read, whose jobs answer for an earlier       *)
(* epoch.  Reading therefore relates each step of each handler to how far  *)
(* the rows of its document are; UnpreparedOK is what makes the ready      *)
(* handler alone with its document until preprocessing is COMPLETED.       *)
(***************************************************************************)
EXTENDS RedeliveryProofs

(***************************************************************************)
(* The deployment these theorems are about: one consume_forever loop on    *)
(* document-ready, as pipeline/main.py starts it, and no re-read.           *)
(***************************************************************************)
OneReader ==
  /\ MaxReprocess = 0
  /\ \A a, b \in ReadyConsumers : a = b

\* The pages that triage sends to Textract.
TextPages(file) == PagesRouted(file.triage, TextractRoutes)

\* An estimator cannot empty the pages of an offline reading under way.
NonEmpty(pages, fake) == pages # {} \/ (fake /\ Overrides # {})

\* Everything that was bought, or synthesised, for the document was written.
ReadOK(row, jobs, fake) ==
  /\ NonEmpty(row.elements, fake)
  /\ \A n \in DOMAIN jobs : {pair[2] : pair \in row.elements} = jobs[n].pages

RecordedOK(row) ==
  \/ row.jobs["PREPROCESS"] = "QUARANTINED"
  \/ /\ row.jobs["PREPROCESS"] = "COMPLETED"
     /\ row.jobs["OCR"] \in Terminal \/ row.ext # NoJob

\* Before preprocessing is COMPLETED nothing is read, and only a refusal settles.
UnpreparedOK(file, row, jobs) ==
  row.jobs["PREPROCESS"] # "COMPLETED" =>
    /\ jobs = << >> /\ row.elements = {}
    /\ row.status \in Settled => row.status = "QUARANTINED" /\ Refused(file)

\* A document has at most one job, with its key and with pages.
BoughtOK(row, jobs, fake) ==
  /\ \A n \in DOMAIN jobs : n = 1 /\ jobs[n].token.features = row.key /\ jobs[n].pages # {}
  /\ fake => jobs = << >>
  /\ ~fake /\ jobs = << >> => row.elements = {}

\* Nobody forced a page: the routes are triage's, in the rows, the jobs, the citations.
UnforcedOK(file, row, jobs) ==
  row.forced = {} =>
    /\ row.manifest # NULL => row.manifest = file.triage
    /\ \A n \in DOMAIN jobs : jobs[n].pages = TextPages(file)
    /\ \A pair \in row.elements : pair[1] = pair[2]

DocumentOK(file, row, jobs, fake) ==
  /\ UnpreparedOK(file, row, jobs)
  /\ BoughtOK(row, jobs, fake)
  /\ UnforcedOK(file, row, jobs)
  /\ Overrides = {} => row.forced = {}
  /\ row.status = "PROCESSED" => ReadOK(row, jobs, fake)

PreparingPc == {"startPreprocess", "preprocess", "replaceManifest", "completePreprocess",
                "failPreprocess", "refusePreprocess"}

\* Where the submitted pages are in the handler's memory, and where they must be written.
PagesPc == {"submit", "fakeResult", "fakeRecord", "completeOcr", "startNormalize",
            "writeElements"}
UnwrittenPc == {"completeOcr", "startNormalize", "writeElements"}
OcrOnlyPc == {"lookupCompleted", "quarantineOcr", "failDocument", "fetch"}
WrittenPc == CompletionPc \ (OcrOnlyPc \cup UnwrittenPc \cup {"failNormalize"})

\* Who handles what: the offline loop completes in the ready handler.
KindOK(c, s, row, fake) ==
  /\ c \in ReadyConsumers =>
       /\ s.cur.msg.kind = "ready" /\ s.pc \notin OcrOnlyPc
       /\ s.pc \in CompletionPc => fake /\ row.ext # NoJob
  /\ c \in OcrConsumers => s.cur.msg.kind = "completed" /\ s.pc \in CompletionPc \cup {"delete"}

\* How far the document's rows are at each step of a handler.
ProgressOK(s, file, row, jobs) ==
  /\ s.pc \in PreparingPc => row.jobs["PREPROCESS"] # "COMPLETED"
  /\ s.pc = "refusePreprocess" => Refused(file)
  /\ s.pc = "markProcessing" => jobs = << >> /\ row.status \notin Settled
  /\ s.pc = "quarantineDocument" =>
       /\ RecordedOK(row)
       /\ row.jobs["PREPROCESS"] # "COMPLETED" => Refused(file)
  /\ s.pc \in Pc \ (PreparingPc \cup {"lookupPreprocess", "quarantineDocument", "delete", "idle"})
       => row.jobs["PREPROCESS"] = "COMPLETED"
  /\ s.pc = "settle" => s.verdict # NULL
  /\ s.pc = "delete" => IF s.cur.msg.kind = "ready" THEN RecordedOK(row) ELSE row.status \in Settled

\* What the handler has in memory is what the document needs.
MemoryOK(s, file, row, jobs, fake) ==
  /\ s.pc = "replaceManifest" /\ Overrides = {} => \A p \in Pages : s.kept[p] = NULL
  /\ s.pc = "startOcr" /\ Overrides = {} => TextPages(file) # {}
  /\ s.pc \in PagesPc /\ row.forced = {} => s.pages = TextPages(file)
  /\ s.pc \in PagesPc \ {"submit"} => NonEmpty(s.pages, fake)
  /\ s.pc \in UnwrittenPc => \A n \in DOMAIN jobs : s.pages = jobs[n].pages
  /\ s.pc \in WrittenPc => ReadOK(row, jobs, fake)

HeldOK(c, s, file, row, jobs, fake) ==
  s.pc # "idle" =>
    KindOK(c, s, row, fake) /\ ProgressOK(s, file, row, jobs) /\ MemoryOK(s, file, row, jobs, fake)

\* Each consumer has a message once, in its hands or in its batch.
BatchOK(c, s) ==
  /\ \A x \in s.batch : ListensTo(c, x.msg)
  /\ \A x, y \in s.batch : x.msg = y.msg => x = y
  /\ s.pc # "idle" => \A x \in s.batch : x.msg # s.cur.msg

NotWith(s, m) ==
  /\ s.pc # "idle" => s.cur.msg # m
  /\ \A x \in s.batch : x.msg # m

AcknowledgedOK(m, entry, row) ==
  entry.at = "deleted" =>
    IF m.kind = "ready" THEN RecordedOK(row) ELSE row.status \in Settled

Document(d) == DocumentOK(content[d], db[d], textract[d], settings.fake_ocr)
Held(c) == HeldOK(c, consumer[c], content[Doc(c)], db[Doc(c)], textract[Doc(c)],
                  settings.fake_ocr)

ReadingInv ==
  /\ \A d \in Docs : Document(d)
  /\ \A c \in Consumers : Held(c) /\ BatchOK(c, consumer[c])
  /\ \A m \in Messages :
       /\ AcknowledgedOK(m, queue[m], db[m.doc])
       /\ m.kind = "ready" /\ queue[m].at = "deleted" =>
            \A c \in Consumers : NotWith(consumer[c], m)
  /\ \A r \in Requests : request[r].pc # "reprocess"

(***************************************************************************)
(* The places of pages in a subset of them.                                *)
(***************************************************************************)

LEMMA PagesFinite ==
  ASSUME NEW S \in SUBSET Pages
  PROVE  IsFiniteSet(S) /\ Cardinality(S) \in Nat
<1>1. IsFiniteSet(Pages)
  <2>1. 1 \in Int /\ NumPages \in Int
    BY StateAssumption
  <2>. QED BY <2>1, FS_Interval DEF Pages
<1>2. IsFiniteSet(S)
  BY <1>1, FS_Subset
<1>. QED BY <1>2, FS_CardinalityType

LEMMA RankType ==
  ASSUME NEW S \in SUBSET Pages, NEW p \in S
  PROVE  Rank(p, S) \in 1..Cardinality(S) /\ IsFiniteSet(S) /\ Cardinality(S) \in Nat
<1> DEFINE below == {q \in S : q <= p}
<1>1. IsFiniteSet(S)
  BY PagesFinite
<1>2. IsFiniteSet(below) /\ Cardinality(below) <= Cardinality(S)
  BY <1>1, FS_Subset
<1>3. Cardinality(below) \in Nat /\ Cardinality(S) \in Nat
  BY <1>1, <1>2, FS_CardinalityType
<1>4. p \in below
  BY DEF Pages
<1>5. Cardinality(below) # 0
  BY <1>2, <1>4, FS_EmptySet
<1>6. Rank(p, S) = Cardinality(below)
  BY DEF Rank
<1> HIDE DEF below
<1>. QED BY <1>1, <1>2, <1>3, <1>5, <1>6

\* A page has a place of its own.
LEMMA RankInjective ==
  ASSUME NEW S \in SUBSET Pages, NEW p \in S, NEW q \in S, Rank(p, S) = Rank(q, S)
  PROVE  p = q
<1>1. IsFiniteSet(S)
  BY RankType
<1>2. ASSUME NEW a \in S, NEW b \in S, a < b, Rank(a, S) = Rank(b, S) PROVE FALSE
  <2> DEFINE low == {x \in S : x <= a}
             high == {x \in S : x <= b}
  <2>0. a \in Int /\ b \in Int /\ \A x \in S : x \in Int
    BY StateAssumption DEF Pages
  <2>1. low \subseteq high /\ b \in high /\ b \notin low
    <3>1. \A x \in S : x <= a => x <= b
      BY <1>2, <2>0
    <3>2. b <= b /\ ~(b <= a)
      BY <1>2, <2>0
    <3>. QED BY <1>2, <3>1, <3>2, Zenon
  <2>2. IsFiniteSet(high)
    BY <1>1, FS_Subset
  <2>3. Cardinality(high) = Cardinality(low)
    BY <1>2 DEF Rank
  <2> HIDE DEF low, high
  <2>4. low \in SUBSET high
    BY <2>1
  <2>5. high = low
    BY <2>2, <2>3, <2>4, FS_Subset
  <2>. QED BY <2>1, <2>5
<1>3. p \in Int /\ q \in Int
  BY StateAssumption DEF Pages
<1>. QED BY <1>2, <1>3

\* Every place up to the number of pages is taken.
LEMMA RankOnto ==
  ASSUME NEW S \in SUBSET Pages, NEW k \in 1..Cardinality(S)
  PROVE  \E p \in S : Rank(p, S) = k
<1> DEFINE T == 1..Cardinality(S)
           rank == [p \in S |-> Rank(p, S)]
<1>1. IsFiniteSet(S)
  BY PagesFinite
<1>2. Cardinality(S) \in Nat
  BY <1>1, FS_CardinalityType
<1>3. IsFiniteSet(T) /\ Cardinality(T) = Cardinality(S)
  BY <1>2, FS_Interval
<1>4. rank \in Injection(S, T)
  <2>1. rank \in [S -> T]
    BY RankType
  <2>2. \A p, q \in S : rank[p] = rank[q] => p = q
    BY RankInjective
  <2> HIDE DEF rank, T
  <2>. QED BY <2>1, <2>2 DEF Injection, IsInjective
<1>5. rank \in Surjection(S, T)
  BY <1>3, <1>4, FS_Injection
<1>6. PICK p \in S : rank[p] = k
  BY <1>5 DEF Surjection
<1>. QED BY <1>6

\* parse_blocks' page_map: with the routes of the submission it is the identity.
LEMMA PageMapIdentity ==
  ASSUME NEW S \in SUBSET Pages
  PROVE  \A pair \in PageMap(S, S) : pair[1] = pair[2]
<1> SUFFICES ASSUME NEW pair \in PageMap(S, S) PROVE pair[1] = pair[2]
  OBVIOUS
<1>1. CASE S = {}
  BY <1>1 DEF PageMap
<1>2. CASE S # {}
  <2>1. pair \in S \X S /\ Rank(pair[1], S) = Rank(pair[2], S)
    BY <1>2 DEF PageMap
  <2>. QED BY <2>1, RankInjective
<1>. QED BY <1>1, <1>2

\* Whatever the routes are by now, a map that is long enough drops no page.
LEMMA PageMapWhole ==
  ASSUME NEW submitted \in SUBSET Pages, NEW routed \in SUBSET Pages,
         ~OutOfRange(submitted, routed)
  PROVE  /\ {pair[2] : pair \in PageMap(submitted, routed)} = submitted
         /\ submitted # {} => PageMap(submitted, routed) # {}
<1>1. \A pair \in PageMap(submitted, routed) : pair[2] \in submitted
  BY DEF PageMap
<1>2. ASSUME NEW p \in submitted
      PROVE  \E pair \in PageMap(submitted, routed) : pair[2] = p
  <2>1. CASE routed = {}
    <3>1. <<Rank(p, submitted), p>> \in PageMap(submitted, routed)
      BY <2>1 DEF PageMap
    <3>. QED BY <3>1
  <2>2. CASE routed # {}
    <3>1. Cardinality(submitted) <= Cardinality(routed)
      <4>1. PICK q \in routed : TRUE
        BY <2>2
      <4>2. Cardinality(submitted) \in Nat /\ Cardinality(routed) \in Nat
        BY RankType
      <4>. QED BY <2>2, <4>2 DEF OutOfRange
    <3>2. Rank(p, submitted) \in 1..Cardinality(routed)
      <4>1. PICK q \in routed : TRUE
        BY <2>2
      <4>2. Cardinality(submitted) \in Nat /\ Cardinality(routed) \in Nat
        BY RankType
      <4>. QED BY <3>1, <4>2, RankType
    <3>3. PICK q \in routed : Rank(q, routed) = Rank(p, submitted)
      BY <3>2, RankOnto
    <3>4. <<q, p>> \in PageMap(submitted, routed)
      BY <2>2, <3>3 DEF PageMap
    <3>. QED BY <3>4
  <2>. QED BY <2>1, <2>2
<1>. QED BY <1>1, <1>2

(***************************************************************************)
(* What a step of one handler may do to a document that another one is     *)
(* handling.                                                               *)
(***************************************************************************)
Later(old, new, jobs, fake) ==
  /\ new.jobs["PREPROCESS"] = "COMPLETED" <=> old.jobs["PREPROCESS"] = "COMPLETED"
  /\ old.ext # NoJob => new.ext # NoJob
  /\ old.status \in Settled => new.status \in Settled
  /\ new.forced = {} => old.forced = {}
  /\ ReadOK(old, jobs, fake) => ReadOK(new, jobs, fake)

LEMMA HeldLater ==
  ASSUME NEW c \in Consumers, NEW s, NEW file, NEW old, NEW new, NEW jobs, NEW fake,
         HeldOK(c, s, file, old, jobs, fake), Later(old, new, jobs, fake),
         s.pc = "markProcessing" => new.status \notin Settled,
         c \in ReadyConsumers /\ RecordedOK(old) => RecordedOK(new)
  PROVE  HeldOK(c, s, file, new, jobs, fake)
<1>1. KindOK(c, s, old, fake) => KindOK(c, s, new, fake)
  BY DEF KindOK, Later
<1>2. KindOK(c, s, old, fake) /\ ProgressOK(s, file, old, jobs) => ProgressOK(s, file, new, jobs)
  <2>1. CASE c \in ReadyConsumers
    BY <2>1 DEF ProgressOK, Later
  <2>2. CASE c \in OcrConsumers
    BY <2>2 DEF ProgressOK, KindOK, Later, CompletionPc
  <2>. QED BY <2>1, <2>2 DEF Consumers
<1>3. MemoryOK(s, file, old, jobs, fake) => MemoryOK(s, file, new, jobs, fake)
  BY DEF MemoryOK, Later
<1>. QED BY <1>1, <1>2, <1>3 DEF HeldOK

\* A handler of ocr-complete has a job to answer for.
LEMMA CompletionsHaveJobs ==
  ASSUME Inv, ReadingInv, NEW c \in OcrConsumers, consumer[c].pc # "idle"
  PROVE  textract[Doc(c)] # << >> /\ consumer[c].cur.msg.n \in DOMAIN textract[Doc(c)]
<1>1. c \in Consumers
  BY DEF Consumers
<1>2. consumer[c].cur.msg \in Messages /\ StateOK(consumer[c], content, queue, db)
      /\ Doc(c) \in Docs
  BY <1>1, Handling
<1>3. consumer[c].cur.msg.kind = "completed"
  BY <1>1 DEF ReadingInv, Held, HeldOK, KindOK
<1>4. consumer[c].cur.msg.n \in DOMAIN textract[Doc(c)]
  BY <1>2, <1>3 DEF Inv, EntryOK, StateOK, Doc
<1>5. DOMAIN << >> = {}
  OBVIOUS
<1>. QED BY <1>4, <1>5

\* Two handlers of one document: one of them, at least, answers for a job.
LEMMA HandlersApart ==
  ASSUME OneReader, Inv, ReadingInv, NEW c \in Consumers, NEW e \in Consumers, e # c,
         consumer[c].pc # "idle", consumer[e].pc # "idle", Doc(e) = Doc(c)
  PROVE  /\ textract[Doc(c)] # << >> /\ consumer[e].pc # "markProcessing"
         /\ e \in ReadyConsumers => c \in OcrConsumers
<1>1. c \in OcrConsumers \/ e \in OcrConsumers
  BY DEF OneReader, Consumers
<1>2. textract[Doc(c)] # << >>
  BY <1>1, CompletionsHaveJobs
<1>3. Held(e)
  BY DEF ReadingInv
<1>. QED BY <1>1, <1>2, <1>3, StateAssumption DEF Held, HeldOK, ProgressOK

StaySettled == \A d \in Docs : db[d].status \in Settled => db'[d].status \in Settled

LEMMA HandlerReading ==
  ASSUME OneReader, Inv, ReadingInv, NEW c \in Consumers, consumer[c].pc # "idle",
         NEW s, consumer' = [consumer EXCEPT ![c] = s],
         s.batch = consumer[c].batch, s.pc # "idle" => s.cur = consumer[c].cur,
         NEW row, db' = [db EXCEPT ![Doc(c)] = row],
         UNCHANGED <<fixed, queue, textract, request>>,
         DocumentOK(content[Doc(c)], row, textract[Doc(c)], settings.fake_ocr),
         HeldOK(c, s, content[Doc(c)], row, textract[Doc(c)], settings.fake_ocr),
         textract[Doc(c)] # << >> =>
           Later(db[Doc(c)], row, textract[Doc(c)], settings.fake_ocr),
         c \in OcrConsumers /\ RecordedOK(db[Doc(c)]) => RecordedOK(row),
         db[Doc(c)].status \in Settled => row.status \in Settled
  PROVE  ReadingInv' /\ StaySettled
<1> DEFINE d == Doc(c)
<1>1. /\ d \in Docs /\ UNCHANGED <<content, settings>>
      /\ consumer[c].cur.msg \in Messages /\ StateOK(consumer[c], content, queue, db)
  BY Handling DEF fixed
<1>2. db'[d] = row /\ \A e \in Docs : e # d => db'[e] = db[e]
  BY <1>1 DEF Inv, TypeOK
<1>3. consumer'[c] = s /\ \A e \in Consumers : e # c => consumer'[e] = consumer[e]
  BY DEF Inv, TypeOK
<1>4. ASSUME NEW e \in Docs PROVE Document(e)'
  <2>1. CASE e = d
    BY <1>1, <1>2, <2>1 DEF Document
  <2>2. CASE e # d
    BY <1>1, <1>2, <2>2 DEF Document, ReadingInv
  <2>. QED BY <2>1, <2>2
<1>5. ASSUME NEW e \in Consumers PROVE Held(e)' /\ BatchOK(e, consumer[e])'
  <2>1. CASE e = c
    <3>1. s.pc # "idle" => Doc(c)' = d
      BY <1>3 DEF Doc
    <3>2. Held(c)'
      BY <1>1, <1>2, <1>3, <3>1 DEF Held, HeldOK
    <3>3. BatchOK(c, s)
      BY DEF ReadingInv, BatchOK
    <3>. QED BY <1>3, <2>1, <3>2, <3>3
  <2>2. CASE e # c
    <3>1. consumer'[e] = consumer[e] /\ Doc(e)' = Doc(e) /\ Held(e) /\ BatchOK(e, consumer[e])
      BY <1>3, <2>2 DEF Doc, ReadingInv
    <3>2. Held(e)'
      <4>1. CASE consumer[e].pc = "idle"
        BY <3>1, <4>1 DEF Held, HeldOK
      <4>2. CASE consumer[e].pc # "idle" /\ Doc(e) # d
        <5>1. Doc(e) \in Docs
          BY <4>2, Handling
        <5>. QED BY <1>1, <1>2, <3>1, <4>2, <5>1 DEF Held
      <4>3. CASE consumer[e].pc # "idle" /\ Doc(e) = d
        <5>1. /\ textract[d] # << >> /\ consumer[e].pc # "markProcessing"
              /\ e \in ReadyConsumers => c \in OcrConsumers
          BY <2>2, <4>3, HandlersApart
        <5>2. HeldOK(e, consumer[e], content[d], row, textract[d], settings.fake_ocr)
          BY <3>1, <4>3, <5>1, HeldLater DEF Held
        <5>. QED BY <1>1, <1>2, <3>1, <4>3, <5>2 DEF Held
      <4>. QED BY <4>1, <4>2, <4>3
    <3>. QED BY <3>1, <3>2
  <2>. QED BY <2>1, <2>2
<1>6. ASSUME NEW m \in Messages, m.kind = "ready", queue'[m].at = "deleted",
             NEW e \in Consumers
      PROVE  NotWith(consumer'[e], m)
  <2>1. NotWith(consumer[e], m)
    BY <1>6 DEF ReadingInv
  <2>. QED BY <1>3, <2>1 DEF NotWith
<1>7. ASSUME NEW m \in Messages PROVE AcknowledgedOK(m, queue'[m], db'[m.doc])
  <2>1. AcknowledgedOK(m, queue[m], db[m.doc]) /\ m.doc \in Docs
    BY DEF ReadingInv, Messages
  <2>2. CASE m.doc # d
    BY <1>2, <2>1, <2>2
  <2>3. CASE m.doc = d /\ m.kind = "completed"
    BY <1>2, <2>1, <2>3 DEF AcknowledgedOK
  <2>4. CASE m.doc = d /\ m.kind = "ready" /\ queue[m].at = "deleted"
    <3>1. NotWith(consumer[c], m)
      BY <2>4 DEF ReadingInv
    <3>2. ~(consumer[c].cur.msg.kind = "ready")
      <4> SUFFICES ASSUME consumer[c].cur.msg.kind = "ready" PROVE FALSE
        OBVIOUS
      <4>1. consumer[c].cur.msg = m
        <5>1. 1..MaxPublish = {1}
          BY DEF MaxPublish, OneReader
        <5>2. \A x \in Messages : x.kind = "ready" =>
                 x = [kind |-> "ready", doc |-> x.doc, n |-> 1]
          BY <5>1 DEF Messages
        <5>3. consumer[c].cur.msg.doc = m.doc
          BY <2>4 DEF Doc
        <5>. QED BY <1>1, <2>4, <5>2, <5>3
      <4>. QED BY <3>1, <4>1 DEF NotWith
    <3>3. c \in OcrConsumers
      BY <3>2 DEF ReadingInv, Held, HeldOK, KindOK, Consumers
    <3>. QED BY <1>2, <2>1, <2>4, <3>3 DEF AcknowledgedOK
  <2>5. CASE queue[m].at # "deleted"
    BY <2>5 DEF AcknowledgedOK
  <2>6. m.kind \in {"ready", "completed"}
    BY DEF Messages
  <2>. QED BY <2>2, <2>3, <2>4, <2>5, <2>6
<1>8. \A r \in Requests : request'[r].pc # "reprocess"
  BY DEF ReadingInv
<1>9. StaySettled
  BY <1>2 DEF StaySettled
<1>. QED BY <1>4, <1>5, <1>6, <1>7, <1>8, <1>9 DEF ReadingInv

(***************************************************************************)
(* The steps of the handlers.                                              *)
(***************************************************************************)

\* What a handler knows, and that the job rows it holds are there to save.
LEMMA Knowing ==
  ASSUME OneReader, Inv, ReadingInv, NEW c \in Consumers, consumer[c].pc # "idle"
  PROVE  LET d == Doc(c) IN
         /\ d \in Docs /\ consumer[c] \in ConsumerState /\ db[d] \in DocumentRow
         /\ KindOK(c, consumer[c], db[d], settings.fake_ocr)
         /\ ProgressOK(consumer[c], content[d], db[d], textract[d])
         /\ MemoryOK(consumer[c], content[d], db[d], textract[d], settings.fake_ocr)
         /\ DocumentOK(content[d], db[d], textract[d], settings.fake_ocr)
         /\ RowAlive(c) /\ consumer[c].sub = db[d].epoch
<1>1. Doc(c) \in Docs /\ consumer[c] \in ConsumerState /\ db[Doc(c)] \in DocumentRow
  BY Handling
<1>2. Held(c) /\ Document(Doc(c))
  BY <1>1 DEF ReadingInv
<1>3. consumer[c].row = 0 /\ consumer[c].sub = 0 /\ db[Doc(c)].epoch = 0
  BY <1>1 DEF OneReader, ConsumerState, DocumentRow
<1>. QED BY <1>1, <1>2, <1>3 DEF Held, HeldOK, Document, RowAlive

\* A write of a column that no reader of a document looks at.
SameReading(old, new) ==
  /\ new.status = old.status /\ new.manifest = old.manifest /\ new.forced = old.forced
  /\ new.key = old.key /\ new.ext = old.ext /\ new.elements = old.elements
  /\ new.jobs["PREPROCESS"] = old.jobs["PREPROCESS"] /\ new.jobs["OCR"] = old.jobs["OCR"]

LEMMA SameReadingOK ==
  ASSUME NEW file, NEW old, NEW new, NEW jobs, NEW fake, SameReading(old, new)
  PROVE  /\ DocumentOK(file, old, jobs, fake) => DocumentOK(file, new, jobs, fake)
         /\ Later(old, new, jobs, fake)
         /\ RecordedOK(old) => RecordedOK(new)
         /\ \A c, s : HeldOK(c, s, file, old, jobs, fake) => HeldOK(c, s, file, new, jobs, fake)
<1>1. RecordedOK(old) <=> RecordedOK(new)
  BY DEF SameReading, RecordedOK
<1>2. ReadOK(old, jobs, fake) <=> ReadOK(new, jobs, fake)
  BY DEF SameReading, ReadOK, NonEmpty
<1>3. DocumentOK(file, old, jobs, fake) => DocumentOK(file, new, jobs, fake)
  BY <1>2 DEF SameReading, DocumentOK, UnpreparedOK, BoughtOK, UnforcedOK
<1>4. Later(old, new, jobs, fake)
  BY <1>2 DEF SameReading, Later
<1>5. ASSUME NEW c, NEW s, HeldOK(c, s, file, old, jobs, fake)
      PROVE  HeldOK(c, s, file, new, jobs, fake)
  <2>1. KindOK(c, s, old, fake) => KindOK(c, s, new, fake)
    BY DEF SameReading, KindOK
  <2>2. ProgressOK(s, file, old, jobs) => ProgressOK(s, file, new, jobs)
    BY <1>1 DEF SameReading, ProgressOK
  <2>3. MemoryOK(s, file, old, jobs, fake) => MemoryOK(s, file, new, jobs, fake)
    BY <1>2 DEF SameReading, MemoryOK
  <2>. QED BY <1>5, <2>1, <2>2, <2>3 DEF HeldOK
<1>. QED BY <1>1, <1>3, <1>4, <1>5

\* From one step to the next with nothing more to know there than here.
Onward(pc, next) ==
  /\ {pc, next} \subseteq {"submit", "recordJob", "failOcr", "refuseOcr", "fakeResult",
                           "fakeRecord"} \cup CompletionPc
  /\ pc \in CompletionPc <=> next \in CompletionPc
  /\ next \in OcrOnlyPc => pc \in OcrOnlyPc
  /\ next \in PagesPc => pc \in PagesPc \ {"submit"}
  /\ next \in UnwrittenPc => pc \in UnwrittenPc
  /\ next \in WrittenPc => pc \in WrittenPc

LEMMA HeldOnward ==
  ASSUME NEW c, NEW s, NEW t, NEW file, NEW row, NEW jobs, NEW fake,
         HeldOK(c, s, file, row, jobs, fake), s.pc # "idle",
         Onward(s.pc, t.pc), t.cur = s.cur, t.pages = s.pages,
         t.pc = "settle" => t.verdict # NULL
  PROVE  HeldOK(c, t, file, row, jobs, fake)
<1>1. s.pc \in Pc \ (PreparingPc \cup {"lookupPreprocess", "markProcessing", "quarantineDocument",
                                       "delete", "idle", "startOcr"})
      /\ t.pc \in Pc \ (PreparingPc \cup {"lookupPreprocess", "markProcessing",
                                          "quarantineDocument", "delete", "idle", "startOcr"})
  BY DEF Onward, Pc, ReadyPc, CompletionPc, PreparingPc
<1>2. KindOK(c, s, row, fake) => KindOK(c, t, row, fake)
  BY <1>1 DEF KindOK, Onward
<1>3. ProgressOK(s, file, row, jobs) => ProgressOK(t, file, row, jobs)
  BY <1>1 DEF ProgressOK, PreparingPc
<1>4. MemoryOK(s, file, row, jobs, fake) => MemoryOK(t, file, row, jobs, fake)
  BY <1>1 DEF MemoryOK, Onward, PreparingPc, PagesPc
<1>. QED BY <1>2, <1>3, <1>4 DEF HeldOK

LEMMA OnwardReading ==
  ASSUME OneReader, Inv, ReadingInv, NEW c \in Consumers, consumer[c].pc # "idle",
         NEW s, consumer' = [consumer EXCEPT ![c] = s],
         Onward(consumer[c].pc, s.pc), s.cur = consumer[c].cur, s.batch = consumer[c].batch,
         s.pages = consumer[c].pages, s.pc = "settle" => s.verdict # NULL,
         NEW row, db' = [db EXCEPT ![Doc(c)] = row], SameReading(db[Doc(c)], row),
         UNCHANGED <<fixed, queue, textract, request>>
  PROVE  ReadingInv' /\ StaySettled
<1> DEFINE d == Doc(c)
<1>1. DocumentOK(content[d], db[d], textract[d], settings.fake_ocr)
  BY Knowing
<1>2. HeldOK(c, consumer[c], content[d], db[d], textract[d], settings.fake_ocr)
  BY DEF ReadingInv, Held
<1>3. HeldOK(c, s, content[d], db[d], textract[d], settings.fake_ocr)
  BY <1>2, HeldOnward
<1>4. HeldOK(c, s, content[d], row, textract[d], settings.fake_ocr)
      /\ DocumentOK(content[d], row, textract[d], settings.fake_ocr)
      /\ Later(db[d], row, textract[d], settings.fake_ocr)
      /\ (RecordedOK(db[d]) => RecordedOK(row))
  BY <1>1, <1>3, SameReadingOK
<1>5. db[d].status \in Settled => row.status \in Settled
  BY DEF SameReading
<1>. QED BY <1>4, <1>5, HandlerReading

LEMMA SameReadingSame ==
  ASSUME NEW row
  PROVE  SameReading(row, row)
  BY DEF SameReading

LEMMA OnlyOnwardReading ==
  ASSUME OneReader, Inv, ReadingInv, NEW c \in Consumers, consumer[c].pc # "idle",
         NEW s, consumer' = [consumer EXCEPT ![c] = s],
         Onward(consumer[c].pc, s.pc), s.cur = consumer[c].cur, s.batch = consumer[c].batch,
         s.pages = consumer[c].pages, s.pc = "settle" => s.verdict # NULL,
         UNCHANGED <<fixed, db, queue, textract, request>>
  PROVE  ReadingInv' /\ StaySettled
<1>1. db' = [db EXCEPT ![Doc(c)] = db[Doc(c)]]
  BY Handling, SameRow
<1>. QED BY <1>1, SameReadingSame, OnwardReading

\* What a save of a job row leaves alone.
LEMMA WithStage ==
  ASSUME NEW row \in DocumentRow, NEW stage \in PipelineStage, NEW status
  PROVE  LET new == [row EXCEPT !.jobs[stage] = status] IN
         /\ new.status = row.status /\ new.manifest = row.manifest /\ new.forced = row.forced
         /\ new.key = row.key /\ new.ext = row.ext /\ new.elements = row.elements
         /\ new.jobs[stage] = status
         /\ stage # "PREPROCESS" => new.jobs["PREPROCESS"] = row.jobs["PREPROCESS"]
         /\ stage # "OCR" => new.jobs["OCR"] = row.jobs["OCR"]
         /\ stage \notin {"PREPROCESS", "OCR"} => SameReading(row, new)
<1> DEFINE new == [row EXCEPT !.jobs[stage] = status]
<1>1. /\ new.status = row.status /\ new.manifest = row.manifest /\ new.forced = row.forced
      /\ new.key = row.key /\ new.ext = row.ext /\ new.elements = row.elements
      /\ new.jobs = [row.jobs EXCEPT ![stage] = status]
  BY DEF DocumentRow
<1>2. row.jobs \in [PipelineStage -> PipelineJobStatus \cup {NULL}]
  BY DEF DocumentRow
<1>3. "PREPROCESS" \in PipelineStage /\ "OCR" \in PipelineStage
  BY DEF PipelineStage
<1> HIDE DEF new
<1>4. /\ new.jobs[stage] = status
      /\ stage # "PREPROCESS" => new.jobs["PREPROCESS"] = row.jobs["PREPROCESS"]
      /\ stage # "OCR" => new.jobs["OCR"] = row.jobs["OCR"]
  BY <1>1, <1>2, <1>3
<1>. QED BY <1>1, <1>4 DEF new, SameReading

\* The row of one stage is saved with a status.
SavedOcr(old, new, status) ==
  /\ new.status = old.status /\ new.manifest = old.manifest /\ new.forced = old.forced
  /\ new.key = old.key /\ new.ext = old.ext /\ new.elements = old.elements
  /\ new.jobs["PREPROCESS"] = old.jobs["PREPROCESS"] /\ new.jobs["OCR"] = status

SavedPreprocess(old, new, status) ==
  /\ new.status = old.status /\ new.manifest = old.manifest /\ new.forced = old.forced
  /\ new.key = old.key /\ new.ext = old.ext /\ new.elements = old.elements
  /\ new.jobs["PREPROCESS"] = status /\ new.jobs["OCR"] = old.jobs["OCR"]

LEMMA WithOcr ==
  ASSUME NEW row \in DocumentRow, NEW status
  PROVE  SavedOcr(row, [row EXCEPT !.jobs["OCR"] = status], status)
<1> DEFINE new == [row EXCEPT !.jobs["OCR"] = status]
<1>1. "OCR" \in PipelineStage /\ "PREPROCESS" \in PipelineStage
  BY DEF PipelineStage
<1>2. /\ new.status = row.status /\ new.manifest = row.manifest /\ new.forced = row.forced
      /\ new.key = row.key /\ new.ext = row.ext /\ new.elements = row.elements
      /\ new.jobs = [row.jobs EXCEPT !["OCR"] = status]
      /\ row.jobs \in [PipelineStage -> PipelineJobStatus \cup {NULL}]
  BY DEF DocumentRow
<1> HIDE DEF new
<1>3. SavedOcr(row, new, status)
  BY <1>1, <1>2 DEF SavedOcr
<1>. QED BY <1>3 DEF new

LEMMA WithPreprocess ==
  ASSUME NEW row \in DocumentRow, NEW status
  PROVE  SavedPreprocess(row, [row EXCEPT !.jobs["PREPROCESS"] = status], status)
<1> DEFINE new == [row EXCEPT !.jobs["PREPROCESS"] = status]
<1>1. "PREPROCESS" \in PipelineStage /\ "OCR" \in PipelineStage
  BY DEF PipelineStage
<1>2. /\ new.status = row.status /\ new.manifest = row.manifest /\ new.forced = row.forced
      /\ new.key = row.key /\ new.ext = row.ext /\ new.elements = row.elements
      /\ new.jobs = [row.jobs EXCEPT !["PREPROCESS"] = status]
      /\ row.jobs \in [PipelineStage -> PipelineJobStatus \cup {NULL}]
  BY DEF DocumentRow
<1> HIDE DEF new
<1>3. SavedPreprocess(row, new, status)
  BY <1>1, <1>2 DEF SavedPreprocess
<1>. QED BY <1>3 DEF new

\* Continuing elsewhere with the same memory.
LEMMA MovedTo ==
  ASSUME NEW s \in ConsumerState, NEW next
  PROVE  LET t == [s EXCEPT !.pc = next] IN
         /\ t.pc = next /\ t.cur = s.cur /\ t.batch = s.batch /\ t.pages = s.pages
         /\ t.verdict = s.verdict /\ t.kept = s.kept /\ t.ext = s.ext
  BY DEF ConsumerState

LEMMA GotoReading ==
  ASSUME OneReader, Inv, ReadingInv, NEW c \in Consumers, consumer[c].pc # "idle",
         NEW next, Goto(c, next), NEW row, db' = [db EXCEPT ![Doc(c)] = row],
         UNCHANGED <<fixed, queue, textract, request>>,
         DocumentOK(content[Doc(c)], row, textract[Doc(c)], settings.fake_ocr),
         \A s : /\ s.pc = next /\ s.cur = consumer[c].cur /\ s.pages = consumer[c].pages
                /\ s.verdict = consumer[c].verdict /\ s.kept = consumer[c].kept
                => HeldOK(c, s, content[Doc(c)], row, textract[Doc(c)], settings.fake_ocr),
         textract[Doc(c)] # << >> =>
           Later(db[Doc(c)], row, textract[Doc(c)], settings.fake_ocr),
         c \in OcrConsumers /\ RecordedOK(db[Doc(c)]) => RecordedOK(row),
         db[Doc(c)].status \in Settled => row.status \in Settled
  PROVE  ReadingInv' /\ StaySettled
<1> DEFINE s == [consumer[c] EXCEPT !.pc = next]
<1>1. consumer[c] \in ConsumerState
  BY Knowing
<1>2. /\ s.pc = next /\ s.cur = consumer[c].cur /\ s.batch = consumer[c].batch
      /\ s.pages = consumer[c].pages /\ s.verdict = consumer[c].verdict
      /\ s.kept = consumer[c].kept
  BY <1>1, MovedTo
<1>3. consumer' = [consumer EXCEPT ![c] = s]
  BY DEF Goto
<1> HIDE DEF s
<1>. QED BY <1>2, <1>3, HandlerReading

\* The handler raises, after a save or without one.
LEMMA RaiseReading ==
  ASSUME OneReader, Inv, ReadingInv, NEW c \in Consumers, consumer[c].pc # "idle",
         Raise(c), NEW row, db' = [db EXCEPT ![Doc(c)] = row],
         UNCHANGED <<fixed, queue, textract, request>>,
         DocumentOK(content[Doc(c)], row, textract[Doc(c)], settings.fake_ocr),
         textract[Doc(c)] # << >> =>
           Later(db[Doc(c)], row, textract[Doc(c)], settings.fake_ocr),
         c \in OcrConsumers /\ RecordedOK(db[Doc(c)]) => RecordedOK(row),
         db[Doc(c)].status \in Settled => row.status \in Settled
  PROVE  ReadingInv' /\ StaySettled
<1> DEFINE s == Idle(consumer[c].batch)
<1>1. s.pc = "idle" /\ s.batch = consumer[c].batch
  BY DEF Idle
<1>2. consumer' = [consumer EXCEPT ![c] = s]
  BY DEF Raise
<1> HIDE DEF s
<1>3. HeldOK(c, s, content[Doc(c)], row, textract[Doc(c)], settings.fake_ocr)
  BY <1>1 DEF HeldOK
<1>. QED BY <1>1, <1>2, <1>3, HandlerReading

LEMMA RaiseSameReading ==
  ASSUME OneReader, Inv, ReadingInv, NEW c \in Consumers, consumer[c].pc # "idle",
         Raise(c), NEW row, db' = [db EXCEPT ![Doc(c)] = row], SameReading(db[Doc(c)], row),
         UNCHANGED <<fixed, queue, textract, request>>
  PROVE  ReadingInv' /\ StaySettled
<1>1. DocumentOK(content[Doc(c)], db[Doc(c)], textract[Doc(c)], settings.fake_ocr)
  BY Knowing
<1>2. row.status = db[Doc(c)].status
  BY DEF SameReading
<1>. QED BY <1>1, <1>2, SameReadingOK, RaiseReading

LEMMA OnlyRaiseReading ==
  ASSUME OneReader, Inv, ReadingInv, NEW c \in Consumers, consumer[c].pc # "idle",
         Raise(c), UNCHANGED <<fixed, db, queue, textract, request>>
  PROVE  ReadingInv' /\ StaySettled
<1>1. db' = [db EXCEPT ![Doc(c)] = db[Doc(c)]]
  BY Handling, SameRow
<1>. QED BY <1>1, SameReadingSame, RaiseSameReading

\* The saves of the stages after OCR.
LEMMA StageSaves ==
  ASSUME OneReader, Inv, ReadingInv, NEW c \in Consumers, consumer[c].pc # "idle",
         NEW stage \in PipelineStage \ {"PREPROCESS", "OCR"}, NEW status, NEW next,
         Onward(consumer[c].pc, next),
         next = "settle" => consumer[c].verdict # NULL,
         SaveJob(c, stage, status, next) \/ StartStage(c, stage, next)
           \/ SaveStage(c, stage, status, next) \/ SaveFailureAndRaise(c, stage)
  PROVE  ReadingInv' /\ StaySettled
<1> DEFINE d == Doc(c)
           row == [db[d] EXCEPT !.jobs[stage] = status]
           started == [db[d] EXCEPT !.jobs[stage] = "STARTED"]
           failed == [db[d] EXCEPT !.jobs[stage] = "FAILED"]
           s == [consumer[c] EXCEPT !.pc = next]
           t == [consumer[c] EXCEPT !.sub = db[d].epoch, !.pc = next]
<1>1. /\ d \in Docs /\ consumer[c] \in ConsumerState /\ db[d] \in DocumentRow
      /\ RowAlive(c) /\ consumer[c].sub = db[d].epoch
  BY Knowing
<1>2. SameReading(db[d], row) /\ SameReading(db[d], started) /\ SameReading(db[d], failed)
  BY <1>1, WithStage
<1>3. /\ s.pc = next /\ s.cur = consumer[c].cur /\ s.batch = consumer[c].batch
      /\ s.pages = consumer[c].pages /\ s.verdict = consumer[c].verdict
  BY <1>1, MovedTo
<1>4. /\ t.pc = next /\ t.cur = consumer[c].cur /\ t.batch = consumer[c].batch
      /\ t.pages = consumer[c].pages /\ t.verdict = consumer[c].verdict
  BY <1>1 DEF ConsumerState
<1>5. CASE SaveJob(c, stage, status, next) \/ SaveStage(c, stage, status, next)
  <2>1. consumer' = [consumer EXCEPT ![c] = s] /\ db' = [db EXCEPT ![d] = row]
        /\ UNCHANGED <<fixed, queue, textract, request>>
    BY <1>1, <1>5 DEF SaveJob, SaveStage, Goto
  <2> HIDE DEF s, row
  <2>. QED BY <1>2, <1>3, <2>1, OnwardReading
<1>6. CASE StartStage(c, stage, next)
  <2>1. consumer' = [consumer EXCEPT ![c] = t] /\ db' = [db EXCEPT ![d] = started]
        /\ UNCHANGED <<fixed, queue, textract, request>>
    BY <1>6 DEF StartStage
  <2> HIDE DEF t, started
  <2>. QED BY <1>2, <1>4, <2>1, OnwardReading
<1>7. CASE SaveFailureAndRaise(c, stage)
  <2>1. Raise(c) /\ db' = [db EXCEPT ![d] = failed]
        /\ UNCHANGED <<fixed, queue, textract, request>>
    BY <1>1, <1>7 DEF SaveFailureAndRaise
  <2> HIDE DEF failed
  <2>. QED BY <1>2, <2>1, RaiseSameReading
<1>. QED BY <1>5, <1>6, <1>7

(***************************************************************************)
(* From NORMALIZE on: what was read stays read.                            *)
(***************************************************************************)
LEMMA WrittenSteps ==
  /\ WrittenPc = {"completeNormalize", "extract", "tables", "startLink", "link", "completeLink",
                  "completeExtract", "startMatch", "match", "startPrice", "price", "failMatch",
                  "failPrice", "failRun", "mark", "settle"}
  /\ \A pc, next \in WrittenPc : Onward(pc, next)
<1>1. WrittenPc = {"completeNormalize", "extract", "tables", "startLink", "link", "completeLink",
                   "completeExtract", "startMatch", "match", "startPrice", "price", "failMatch",
                   "failPrice", "failRun", "mark", "settle"}
  BY DEF WrittenPc, CompletionPc, OcrOnlyPc, UnwrittenPc
<1>2. WrittenPc \cap PagesPc = {} /\ WrittenPc \cap UnwrittenPc = {}
      /\ WrittenPc \cap OcrOnlyPc = {} /\ WrittenPc \subseteq CompletionPc
  BY <1>1 DEF PagesPc, UnwrittenPc, OcrOnlyPc, CompletionPc
<1>. QED BY <1>1, <1>2 DEF Onward

LEMMA WrittenSaves ==
  ASSUME OneReader, Inv, ReadingInv, NEW c \in Consumers,
         \/ CompleteNormalize(c) \/ StartLink(c) \/ CompleteLink(c) \/ CompleteExtract(c)
         \/ StartMatch(c) \/ Match(c) \/ StartPrice(c) \/ FailRun(c)
  PROVE  ReadingInv' /\ StaySettled
<1>1. consumer[c].pc \in WrittenPc /\ consumer[c].pc # "idle"
  BY WrittenSteps DEF CompleteNormalize, StartLink, CompleteLink, CompleteExtract, StartMatch,
                      Match, StartPrice, FailRun, At
<1>2. {"NORMALIZE", "EXTRACT", "LINK", "MATCH", "PRICE"}
        \subseteq PipelineStage \ {"PREPROCESS", "OCR"}
  BY DEF PipelineStage
<1>3. \A next \in WrittenPc : Onward(consumer[c].pc, next)
  BY <1>1, WrittenSteps
<1>4. {"extract", "link", "completeExtract", "startMatch", "settle", "match", "startPrice",
       "failRun", "price", "mark"} \subseteq WrittenPc
  BY WrittenSteps
<1>5. CASE CompleteNormalize(c)
  BY <1>1, <1>2, <1>3, <1>4, <1>5, StageSaves DEF CompleteNormalize
<1>6. CASE StartLink(c) \/ StartMatch(c) \/ StartPrice(c)
  BY <1>1, <1>2, <1>3, <1>4, <1>6, StageSaves DEF StartLink, StartMatch, StartPrice
<1>7. CASE CompleteLink(c) \/ Match(c)
  BY <1>1, <1>2, <1>3, <1>4, <1>7, StageSaves DEF CompleteLink, Match
<1>8. CASE CompleteExtract(c)
  <2>1. PICK next \in {"startMatch", "settle"} :
          /\ SaveJob(c, "EXTRACT", "COMPLETED", next)
          /\ next = "settle" => consumer[c].verdict # NULL
    BY <1>8 DEF CompleteExtract
  <2>. QED BY <1>1, <1>2, <1>3, <1>4, <2>1, StageSaves
<1>9. CASE FailRun(c)
  BY <1>1, <1>2, <1>3, <1>4, <1>9, StageSaves DEF FailRun
<1>. QED BY <1>5, <1>6, <1>7, <1>8, <1>9

\* mark writes the rows of EXTRACT and LINK.
LEMMA MarkedReading ==
  ASSUME NEW row \in DocumentRow, NEW status
  PROVE  SameReading(row, [row EXCEPT !.jobs = Marked(@, status)])
<1> DEFINE jobs == Marked(row.jobs, status)
           new == [row EXCEPT !.jobs = jobs]
<1>1. jobs["PREPROCESS"] = row.jobs["PREPROCESS"] /\ jobs["OCR"] = row.jobs["OCR"]
  BY DEF Marked, PipelineStage
<1> HIDE DEF jobs
<1>2. SameReading(row, new)
  BY <1>1 DEF SameReading, DocumentRow
<1>. QED BY <1>2 DEF jobs

LEMMA WrittenMoves ==
  ASSUME OneReader, Inv, ReadingInv, NEW c \in Consumers,
         Extract(c) \/ Tables(c) \/ Link(c) \/ Price(c) \/ Mark(c)
  PROVE  ReadingInv' /\ StaySettled
<1>1. consumer[c].pc \in WrittenPc /\ consumer[c].pc # "idle"
  BY WrittenSteps DEF Extract, Tables, Link, Price, Mark, At
<1>2. /\ consumer[c] \in ConsumerState /\ db[Doc(c)] \in DocumentRow /\ Doc(c) \in Docs
      /\ consumer[c].sub = db[Doc(c)].epoch
  BY <1>1, Knowing
<1>3. "EXTRACT" \in PipelineStage \ {"PREPROCESS", "OCR"}
      /\ "PRICE" \in PipelineStage \ {"PREPROCESS", "OCR"}
  BY DEF PipelineStage
<1>4. \A next \in WrittenPc : Onward(consumer[c].pc, next)
  BY <1>1, WrittenSteps
<1>5. {"settle", "tables", "completeExtract", "failRun", "startLink", "completeLink"}
        \subseteq WrittenPc
  BY WrittenSteps
<1>6. "PROCESSED" # NULL
  BY StateAssumption DEF DocumentStatus
<1>7. ASSUME NEW next \in WrittenPc, NEW verdict, next = "settle" => verdict # NULL,
             NEW row, db' = [db EXCEPT ![Doc(c)] = row], SameReading(db[Doc(c)], row),
             consumer' = [consumer EXCEPT ![c].verdict = verdict, ![c].pc = next],
             UNCHANGED <<fixed, queue, textract, request>>
      PROVE  ReadingInv' /\ StaySettled
  <2> DEFINE s == [consumer[c] EXCEPT !.verdict = verdict, !.pc = next]
  <2>1. /\ s.pc = next /\ s.cur = consumer[c].cur /\ s.batch = consumer[c].batch
        /\ s.pages = consumer[c].pages /\ s.verdict = verdict
    BY <1>2 DEF ConsumerState
  <2>2. consumer' = [consumer EXCEPT ![c] = s]
    BY <1>7
  <2> HIDE DEF s
  <2>. QED BY <1>1, <1>4, <1>7, <2>1, <2>2, OnwardReading
<1>8. ASSUME NEW next \in WrittenPc \ {"settle"}, Goto(c, next),
             NEW row, db' = [db EXCEPT ![Doc(c)] = row], SameReading(db[Doc(c)], row),
             UNCHANGED <<fixed, queue, textract, request>>
      PROVE  ReadingInv' /\ StaySettled
  <2> DEFINE s == [consumer[c] EXCEPT !.pc = next]
  <2>1. /\ s.pc = next /\ s.cur = consumer[c].cur /\ s.batch = consumer[c].batch
        /\ s.pages = consumer[c].pages
    BY <1>2, MovedTo
  <2>2. consumer' = [consumer EXCEPT ![c] = s]
    BY <1>8 DEF Goto
  <2> HIDE DEF s
  <2>. QED BY <1>1, <1>4, <1>8, <2>1, <2>2, OnwardReading
<1>9. CASE Extract(c)
  <2>1. CASE ~settings.model_pinned
    <3> DEFINE row == [db[Doc(c)] EXCEPT !.jobs = Marked(@, "SKIPPED")]
    <3>1. db' = [db EXCEPT ![Doc(c)] = row] /\ UNCHANGED <<fixed, queue, textract, request>>
          /\ consumer' = [consumer EXCEPT ![c].verdict = "PROCESSED", ![c].pc = "settle"]
      BY <1>9, <2>1 DEF Extract
    <3>2. SameReading(db[Doc(c)], row)
      BY <1>2, MarkedReading
    <3> HIDE DEF row
    <3>. QED BY <1>5, <1>6, <1>7, <3>1, <3>2
  <2>2. CASE settings.model_pinned
    <3> DEFINE row == [db[Doc(c)] EXCEPT !.jobs["EXTRACT"] = "STARTED"]
               s == [consumer[c] EXCEPT !.row = db[Doc(c)].epoch, !.pc = "tables"]
    <3>1. db' = [db EXCEPT ![Doc(c)] = row] /\ UNCHANGED <<fixed, queue, textract, request>>
          /\ consumer' = [consumer EXCEPT ![c] = s]
      BY <1>9, <2>2 DEF Extract
    <3>2. SameReading(db[Doc(c)], row)
      BY <1>2, <1>3, WithStage
    <3>3. /\ s.pc = "tables" /\ s.cur = consumer[c].cur /\ s.batch = consumer[c].batch
          /\ s.pages = consumer[c].pages
      BY <1>2 DEF ConsumerState
    <3> HIDE DEF row, s
    <3>. QED BY <1>1, <1>4, <1>5, <3>1, <3>2, <3>3, OnwardReading
  <2>. QED BY <2>1, <2>2
<1>10. CASE Tables(c)
  <2>1. db' = [db EXCEPT ![Doc(c)] = db[Doc(c)]] /\ SameReading(db[Doc(c)], db[Doc(c)])
        /\ UNCHANGED <<fixed, queue, textract, request>>
    BY <1>2, <1>10, SameRow, SameReadingSame DEF Tables
  <2>2. CASE Goto(c, "startLink")
    BY <1>5, <1>8, <2>1, <2>2
  <2>3. CASE RunRaises(c, "EXTRACT", "failRun")
    <3>1. PICK verdict : consumer' = [consumer EXCEPT ![c].verdict = verdict, ![c].pc = "failRun"]
      BY <2>3 DEF RunRaises
    <3>. QED BY <1>5, <1>7, <2>1, <3>1
  <2>4. CASE consumer' = [consumer EXCEPT ![c].verdict = "PROCESSED", ![c].pc = "completeExtract"]
    BY <1>5, <1>7, <2>1, <2>4
  <2>. QED BY <1>10, <2>2, <2>3, <2>4 DEF Tables
<1>11. CASE Link(c)
  <2>1. PICK cites \in BOOLEAN : db' = [db EXCEPT ![Doc(c)].cited = @ \/ cites]
    BY <1>11 DEF Link
  <2> DEFINE cited == db[Doc(c)].cited \/ cites
             row == [db[Doc(c)] EXCEPT !.cited = cited]
  <2>2. db' = [db EXCEPT ![Doc(c)] = row] /\ UNCHANGED <<fixed, queue, textract, request>>
    BY <1>11, <2>1, Zenon DEF Link
  <2> HIDE DEF cited
  <2>3. SameReading(db[Doc(c)], row)
    BY <1>2 DEF SameReading, DocumentRow
  <2> HIDE DEF row
  <2>4. CASE Goto(c, "completeLink")
    BY <1>5, <1>8, <2>2, <2>3, <2>4
  <2>5. CASE RunRaises(c, "LINK", "failRun")
    <3>1. PICK verdict : consumer' = [consumer EXCEPT ![c].verdict = verdict, ![c].pc = "failRun"]
      BY <2>5 DEF RunRaises
    <3>. QED BY <1>5, <1>7, <2>2, <2>3, <3>1
  <2>. QED BY <1>11, <2>4, <2>5 DEF Link
<1>12. CASE Price(c)
  <2> DEFINE row == [db[Doc(c)] EXCEPT !.jobs["PRICE"] = "COMPLETED"]
  <2>1. CASE SaveStage(c, "PRICE", "FAILED", "failRun")
    BY <1>1, <1>3, <1>4, <1>5, <2>1, StageSaves
  <2>2. CASE /\ db' = [db EXCEPT ![Doc(c)] = row] /\ UNCHANGED <<fixed, queue, textract, request>>
             /\ consumer' = [consumer EXCEPT ![c].verdict = "PROCESSED", ![c].pc = "settle"]
    <3>1. SameReading(db[Doc(c)], row)
      BY <1>2, <1>3, WithStage
    <3> HIDE DEF row
    <3>. QED BY <1>5, <1>6, <1>7, <2>2, <3>1
  <2>. QED BY <1>12, <2>1, <2>2 DEF Price
<1>13. CASE Mark(c)
  <2> DEFINE row == [db[Doc(c)] EXCEPT !.jobs = Marked(@, consumer[c].verdict)]
             s == [consumer[c] EXCEPT !.pc = "settle"]
  <2>1. db' = [db EXCEPT ![Doc(c)] = row] /\ UNCHANGED <<fixed, queue, textract, request>>
        /\ consumer' = [consumer EXCEPT ![c] = s]
    BY <1>13 DEF Mark, Goto
  <2>2. SameReading(db[Doc(c)], row)
    BY <1>2, MarkedReading
  <2>3. /\ s.pc = "settle" /\ s.cur = consumer[c].cur /\ s.batch = consumer[c].batch
        /\ s.pages = consumer[c].pages /\ s.verdict = consumer[c].verdict
    BY <1>2, MovedTo
  <2>4. consumer[c].verdict # NULL
    <3>1. consumer[c].verdict \in {"FAILED", "QUARANTINED"}
      BY <1>1, <1>13, Handling DEF Mark, At, StateOK
    <3>. QED BY <3>1, StateAssumption DEF DocumentStatus
  <2> HIDE DEF row, s
  <2>. QED BY <1>1, <1>4, <1>5, <2>1, <2>2, <2>3, <2>4, OnwardReading
<1>. QED BY <1>9, <1>10, <1>11, <1>12, <1>13

\* The document settles as the handler's verdict says.
LEMMA SettleReading ==
  ASSUME OneReader, Inv, ReadingInv, NEW c \in Consumers, Settle(c)
  PROVE  ReadingInv' /\ StaySettled
<1> DEFINE d == Doc(c)
           v == consumer[c].verdict
           row == [db[d] EXCEPT !.status = v]
<1>1. /\ consumer[c].pc = "settle" /\ consumer[c].pc # "idle" /\ Goto(c, "delete")
      /\ db' = [db EXCEPT ![d] = row] /\ UNCHANGED <<fixed, queue, textract, request>>
  BY DEF Settle, At, SaveStatus
<1>2. /\ consumer[c] \in ConsumerState /\ db[d] \in DocumentRow
      /\ KindOK(c, consumer[c], db[d], settings.fake_ocr)
      /\ ProgressOK(consumer[c], content[d], db[d], textract[d])
      /\ MemoryOK(consumer[c], content[d], db[d], textract[d], settings.fake_ocr)
      /\ DocumentOK(content[d], db[d], textract[d], settings.fake_ocr)
  BY <1>1, Knowing
<1>3. /\ row.status = v /\ row.manifest = db[d].manifest /\ row.forced = db[d].forced
      /\ row.key = db[d].key /\ row.ext = db[d].ext /\ row.elements = db[d].elements
      /\ row.jobs = db[d].jobs
  BY <1>2 DEF DocumentRow
<1>4. v \in Settled
  BY <1>1, <1>2 DEF ProgressOK, ConsumerState, Settled
<1> HIDE DEF row
<1>5. "settle" \in WrittenPc /\ "settle" \in CompletionPc
      /\ "settle" \in Pc \ (PreparingPc \cup {"lookupPreprocess", "quarantineDocument", "delete", "idle"})
  BY WrittenSteps DEF CompletionPc, Pc, PreparingPc
<1>6. db[d].jobs["PREPROCESS"] = "COMPLETED"
  BY <1>1, <1>2, <1>5 DEF ProgressOK
<1>7. ReadOK(db[d], textract[d], settings.fake_ocr)
  BY <1>1, <1>2, <1>5 DEF MemoryOK
<1>8. ReadOK(row, textract[d], settings.fake_ocr) /\ (RecordedOK(db[d]) => RecordedOK(row))
  BY <1>3, <1>7 DEF ReadOK, NonEmpty, RecordedOK
<1>9. DocumentOK(content[d], row, textract[d], settings.fake_ocr)
  BY <1>2, <1>3, <1>6, <1>8 DEF DocumentOK, UnpreparedOK, BoughtOK, UnforcedOK
<1>10. Later(db[d], row, textract[d], settings.fake_ocr)
  BY <1>3, <1>4, <1>8 DEF Later
<1>11. c \in ReadyConsumers => RecordedOK(row)
  BY <1>1, <1>2, <1>3, <1>5, <1>6 DEF KindOK, RecordedOK
<1>12. ASSUME NEW s, s.pc = "delete", s.cur = consumer[c].cur
       PROVE  HeldOK(c, s, content[d], row, textract[d], settings.fake_ocr)
  <2>1. KindOK(c, s, row, settings.fake_ocr)
    BY <1>2, <1>12 DEF KindOK, OcrOnlyPc, CompletionPc
  <2>2. ProgressOK(s, content[d], row, textract[d])
    BY <1>2, <1>3, <1>4, <1>11, <1>12 DEF ProgressOK, KindOK, PreparingPc, Consumers
  <2>3. MemoryOK(s, content[d], row, textract[d], settings.fake_ocr)
    BY <1>12, WrittenSteps DEF MemoryOK, PagesPc, UnwrittenPc
  <2>. QED BY <2>1, <2>2, <2>3 DEF HeldOK
<1>. QED BY <1>1, <1>3, <1>4, <1>8, <1>9, <1>10, <1>12, GotoReading

(***************************************************************************)
(* Submitted pages on their way to the elements.                           *)
(***************************************************************************)
LEMMA NormalizeMoves ==
  ASSUME OneReader, Inv, ReadingInv, NEW c \in Consumers, StartNormalize(c) \/ FailNormalize(c)
  PROVE  ReadingInv' /\ StaySettled
<1> DEFINE row == [db[Doc(c)] EXCEPT !.jobs["NORMALIZE"] = "STARTED"]
           s == [consumer[c] EXCEPT !.row = db[Doc(c)].epoch, !.pc = "writeElements"]
<1>1. consumer[c].pc \in {"startNormalize", "failNormalize"} /\ consumer[c].pc # "idle"
  BY DEF StartNormalize, FailNormalize, At
<1>2. consumer[c] \in ConsumerState /\ db[Doc(c)] \in DocumentRow
  BY <1>1, Knowing
<1>3. "NORMALIZE" \in PipelineStage \ {"PREPROCESS", "OCR"}
  BY DEF PipelineStage
<1>4. Onward("startNormalize", "writeElements") /\ Onward("failNormalize", "failNormalize")
  BY DEF Onward, CompletionPc, OcrOnlyPc, PagesPc, UnwrittenPc, WrittenPc
<1>5. CASE StartNormalize(c)
  <2>1. /\ consumer' = [consumer EXCEPT ![c] = s] /\ db' = [db EXCEPT ![Doc(c)] = row]
        /\ UNCHANGED <<fixed, queue, textract, request>> /\ consumer[c].pc = "startNormalize"
    BY <1>5 DEF StartNormalize, At
  <2>2. SameReading(db[Doc(c)], row)
    BY <1>2, <1>3, WithStage
  <2>3. /\ s.pc = "writeElements" /\ s.cur = consumer[c].cur /\ s.batch = consumer[c].batch
        /\ s.pages = consumer[c].pages
    BY <1>2 DEF ConsumerState
  <2> HIDE DEF s, row
  <2>. QED BY <1>1, <1>4, <2>1, <2>2, <2>3, OnwardReading
<1>6. CASE FailNormalize(c)
  <2>1. SaveFailureAndRaise(c, "NORMALIZE") /\ consumer[c].pc = "failNormalize"
    BY <1>6 DEF FailNormalize, At
  <2>. QED BY <1>1, <1>3, <1>4, <2>1, StageSaves
<1>. QED BY <1>5, <1>6

\* complete_job(OCR).
LEMMA CompleteOcrReading ==
  ASSUME OneReader, Inv, ReadingInv, NEW c \in Consumers, CompleteOcr(c)
  PROVE  ReadingInv' /\ StaySettled
<1> DEFINE d == Doc(c)
           row == [db[d] EXCEPT !.jobs["OCR"] = "COMPLETED"]
<1>1. consumer[c].pc = "completeOcr" /\ consumer[c].pc # "idle"
  BY DEF CompleteOcr, At
<1>2. /\ consumer[c] \in ConsumerState /\ db[d] \in DocumentRow /\ RowAlive(c)
      /\ ProgressOK(consumer[c], content[d], db[d], textract[d])
      /\ DocumentOK(content[d], db[d], textract[d], settings.fake_ocr)
      /\ HeldOK(c, consumer[c], content[d], db[d], textract[d], settings.fake_ocr)
  BY <1>1, Knowing DEF HeldOK
<1>3. /\ Goto(c, "startNormalize") /\ db' = [db EXCEPT ![d] = row]
      /\ UNCHANGED <<fixed, queue, textract, request>>
  BY <1>2 DEF CompleteOcr, SaveJob
<1>4. SavedOcr(db[d], row, "COMPLETED")
  BY <1>2, WithOcr
<1> HIDE DEF row
<1>5. /\ row.status = db[d].status /\ row.manifest = db[d].manifest /\ row.forced = db[d].forced
      /\ row.key = db[d].key /\ row.ext = db[d].ext /\ row.elements = db[d].elements
      /\ row.jobs["PREPROCESS"] = db[d].jobs["PREPROCESS"] /\ row.jobs["OCR"] = "COMPLETED"
  BY <1>4 DEF SavedOcr
<1>6. "completeOcr" \in Pc \ (PreparingPc \cup {"lookupPreprocess", "quarantineDocument", "delete", "idle"})
  BY DEF CompletionPc, Pc, PreparingPc
<1>7. db[d].jobs["PREPROCESS"] = "COMPLETED"
  BY <1>1, <1>2, <1>6 DEF ProgressOK
<1>8. RecordedOK(row)
  BY <1>5, <1>7 DEF RecordedOK, Terminal
<1>9. ReadOK(db[d], textract[d], settings.fake_ocr) => ReadOK(row, textract[d], settings.fake_ocr)
  BY <1>5 DEF ReadOK, NonEmpty
<1>10. DocumentOK(content[d], row, textract[d], settings.fake_ocr)
       /\ Later(db[d], row, textract[d], settings.fake_ocr)
  BY <1>2, <1>5, <1>9 DEF DocumentOK, UnpreparedOK, BoughtOK, UnforcedOK, Later
<1>11. HeldOK(c, consumer[c], content[d], row, textract[d], settings.fake_ocr)
  BY <1>1, <1>2, <1>8, <1>10, HeldLater
<1>12. Onward("completeOcr", "startNormalize")
  BY DEF Onward, CompletionPc, OcrOnlyPc, PagesPc, UnwrittenPc, WrittenPc
<1>13. ASSUME NEW s, s.pc = "startNormalize", s.cur = consumer[c].cur,
              s.pages = consumer[c].pages
       PROVE  HeldOK(c, s, content[d], row, textract[d], settings.fake_ocr)
  BY <1>1, <1>11, <1>12, <1>13, HeldOnward
<1>. QED BY <1>1, <1>3, <1>5, <1>8, <1>10, <1>13, GotoReading

\* Writing the OCR row: only its status is a column that matters, and only to a
\* message acknowledged before.
LEMMA OcrColumn ==
  ASSUME NEW file, NEW old, NEW jobs, NEW fake, NEW status, NEW new,
         SavedOcr(old, new, status), DocumentOK(file, old, jobs, fake)
  PROVE  /\ DocumentOK(file, new, jobs, fake)
         /\ Later(old, new, jobs, fake)
         /\ new.status = old.status /\ new.ext = old.ext
         /\ new.jobs["PREPROCESS"] = old.jobs["PREPROCESS"] /\ new.jobs["OCR"] = status
         /\ old.jobs["PREPROCESS"] = "COMPLETED" /\ status \in Terminal => RecordedOK(new)
<1>1. ReadOK(old, jobs, fake) => ReadOK(new, jobs, fake)
  BY DEF SavedOcr, ReadOK, NonEmpty
<1>2. DocumentOK(file, new, jobs, fake) /\ Later(old, new, jobs, fake)
  BY <1>1 DEF SavedOcr, DocumentOK, UnpreparedOK, BoughtOK, UnforcedOK, Later
<1>. QED BY <1>2 DEF SavedOcr, RecordedOK

\* The completion's own steps: its message names the document's only job.
LEMMA Completing ==
  ASSUME OneReader, Inv, ReadingInv, NEW c \in Consumers, consumer[c].pc \in OcrOnlyPc
  PROVE  /\ consumer[c].pc # "idle" /\ c \in OcrConsumers /\ c \notin ReadyConsumers
         /\ consumer[c].cur.msg.kind = "completed"
         /\ db[Doc(c)].jobs["PREPROCESS"] = "COMPLETED"
         /\ textract[Doc(c)] # << >> /\ DOMAIN textract[Doc(c)] = {1}
         /\ consumer[c].cur.msg.n = 1
<1>1. consumer[c].pc # "idle"
      /\ consumer[c].pc \in Pc \ (PreparingPc \cup {"lookupPreprocess", "quarantineDocument", "delete", "idle"})
  BY DEF OcrOnlyPc, Pc, CompletionPc, PreparingPc
<1>2. /\ KindOK(c, consumer[c], db[Doc(c)], settings.fake_ocr)
      /\ ProgressOK(consumer[c], content[Doc(c)], db[Doc(c)], textract[Doc(c)])
      /\ DocumentOK(content[Doc(c)], db[Doc(c)], textract[Doc(c)], settings.fake_ocr)
  BY <1>1, Knowing
<1>3. c \in OcrConsumers /\ c \notin ReadyConsumers /\ consumer[c].cur.msg.kind = "completed"
  BY <1>2 DEF KindOK, Consumers
<1>4. textract[Doc(c)] # << >> /\ consumer[c].cur.msg.n \in DOMAIN textract[Doc(c)]
  BY <1>1, <1>3, CompletionsHaveJobs
<1>5. \A n \in DOMAIN textract[Doc(c)] : n = 1
  BY <1>2 DEF DocumentOK, BoughtOK
<1>. QED BY <1>1, <1>2, <1>3, <1>4, <1>5 DEF ProgressOK

\* A step of the completion to another of its steps before the result is collected.
LEMMA OcrOnlyHeld ==
  ASSUME NEW c, NEW s, NEW t, NEW file, NEW row, NEW jobs, NEW fake,
         HeldOK(c, s, file, row, jobs, fake), c \notin ReadyConsumers, s.pc # "idle",
         t.cur = s.cur, t.pc \in OcrOnlyPc, row.jobs["PREPROCESS"] = "COMPLETED"
  PROVE  HeldOK(c, t, file, row, jobs, fake)
<1>1. t.pc \notin PreparingPc \cup {"refusePreprocess", "markProcessing", "quarantineDocument",
                                    "settle", "delete", "startOcr", "replaceManifest"}
      /\ t.pc \in CompletionPc
  BY DEF OcrOnlyPc, CompletionPc, PreparingPc
<1>2. t.pc \notin PagesPc /\ t.pc \notin UnwrittenPc /\ t.pc \notin WrittenPc
  BY DEF OcrOnlyPc, PagesPc, UnwrittenPc, WrittenPc
<1>3. KindOK(c, t, row, fake)
  BY <1>1 DEF HeldOK, KindOK
<1>4. ProgressOK(t, file, row, jobs)
  BY <1>1 DEF HeldOK, ProgressOK
<1>5. MemoryOK(t, file, row, jobs, fake)
  BY <1>1, <1>2 DEF HeldOK, MemoryOK
<1>. QED BY <1>3, <1>4, <1>5 DEF HeldOK

LEMMA LookupCompletedReading ==
  ASSUME OneReader, Inv, ReadingInv, NEW c \in Consumers,
         LookupCompleted(c) \/ QuarantineOcr(c)
  PROVE  ReadingInv' /\ StaySettled
<1> DEFINE d == Doc(c)
           Saved(status) == [db[d] EXCEPT !.jobs["OCR"] = status]
           Moved(next) == [consumer[c] EXCEPT !.row = db[d].epoch, !.pc = next]
<1>1. consumer[c].pc \in {"lookupCompleted", "quarantineOcr"} /\ consumer[c].pc \in OcrOnlyPc
  BY DEF LookupCompleted, QuarantineOcr, At, OcrOnlyPc
<1>2. /\ c \in OcrConsumers /\ c \notin ReadyConsumers /\ consumer[c].pc # "idle"
      /\ db[d].jobs["PREPROCESS"] = "COMPLETED"
  BY <1>1, Completing
<1>3. /\ consumer[c] \in ConsumerState /\ db[d] \in DocumentRow
      /\ DocumentOK(content[d], db[d], textract[d], settings.fake_ocr) /\ RowAlive(c)
      /\ HeldOK(c, consumer[c], content[d], db[d], textract[d], settings.fake_ocr)
  BY <1>2, Knowing DEF HeldOK
<1>4. ASSUME NEW next \in OcrOnlyPc, NEW status,
             db[d].jobs["OCR"] \in Terminal => status \in Terminal,
             consumer' = [consumer EXCEPT ![c] = Moved(next)],
             db' = [db EXCEPT ![d] = Saved(status)],
             UNCHANGED <<fixed, queue, textract, request>>
      PROVE  ReadingInv' /\ StaySettled
  <2> DEFINE row == Saved(status)
             s == Moved(next)
  <2>1. SavedOcr(db[d], row, status)
    BY <1>3, WithOcr
  <2>2. s.pc = next /\ s.cur = consumer[c].cur /\ s.batch = consumer[c].batch
    BY <1>3 DEF ConsumerState
  <2>3. consumer' = [consumer EXCEPT ![c] = s] /\ db' = [db EXCEPT ![d] = row]
    BY <1>4
  <2> HIDE DEF Saved, Moved
  <2>4. DocumentOK(content[d], db[d], textract[d], settings.fake_ocr)
    BY <1>3
  <2>5. /\ DocumentOK(content[d], row, textract[d], settings.fake_ocr)
        /\ Later(db[d], row, textract[d], settings.fake_ocr)
        /\ row.status = db[d].status /\ row.ext = db[d].ext
        /\ row.jobs["PREPROCESS"] = db[d].jobs["PREPROCESS"] /\ row.jobs["OCR"] = status
        /\ db[d].jobs["PREPROCESS"] = "COMPLETED" /\ status \in Terminal => RecordedOK(row)
    BY <2>1, <2>4, OcrColumn
  <2>6. RecordedOK(db[d]) => RecordedOK(row)
    BY <1>2, <1>4, <2>5 DEF RecordedOK
  <2>7. consumer[c].pc # "markProcessing"
    BY <1>1
  <2>8. HeldOK(c, consumer[c], content[d], row, textract[d], settings.fake_ocr)
    BY <1>2, <1>3, <2>5, <2>7, HeldLater
  <2>9. HeldOK(c, s, content[d], row, textract[d], settings.fake_ocr)
    BY <1>2, <1>4, <2>2, <2>5, <2>8, OcrOnlyHeld
  <2>. QED BY <1>2, <1>4, <2>2, <2>3, <2>5, <2>6, <2>9, HandlerReading
<1>5. {"fetch", "quarantineOcr", "failDocument"} \subseteq OcrOnlyPc /\ "QUARANTINED" \in Terminal
      /\ NULL \notin Terminal
  BY StateAssumption DEF OcrOnlyPc, Terminal, PipelineJobStatus
<1>6. CASE QuarantineOcr(c)
  <2>1. Moved("failDocument") = [consumer[c] EXCEPT !.pc = "failDocument"]
    BY <1>3 DEF RowAlive, ConsumerState
  <2>2. /\ consumer' = [consumer EXCEPT ![c] = Moved("failDocument")]
        /\ db' = [db EXCEPT ![d] = Saved("QUARANTINED")]
        /\ UNCHANGED <<fixed, queue, textract, request>>
    BY <1>3, <1>6, <2>1 DEF QuarantineOcr, SaveJob, Goto
  <2> HIDE DEF Saved, Moved
  <2>. QED BY <1>4, <1>5, <2>2
<1>7. CASE LookupCompleted(c)
  <2> DEFINE status == IF db[d].jobs["OCR"] = NULL THEN "PENDING" ELSE db[d].jobs["OCR"]
             next == IF Job(c).state = "SUCCEEDED" THEN "fetch" ELSE "quarantineOcr"
  <2>1. /\ consumer' = [consumer EXCEPT ![c] = Moved(next)]
        /\ db' = [db EXCEPT ![d] = Saved(status)]
        /\ UNCHANGED <<fixed, queue, textract, request>>
    BY <1>7 DEF LookupCompleted
  <2>2. next \in OcrOnlyPc /\ (db[d].jobs["OCR"] \in Terminal => status \in Terminal)
    BY <1>5
  <2> HIDE DEF Saved, Moved, status, next
  <2>. QED BY <1>4, <2>1, <2>2
<1>. QED BY <1>6, <1>7

LEMMA FailDocumentReading ==
  ASSUME OneReader, Inv, ReadingInv, NEW c \in Consumers, FailDocument(c)
  PROVE  ReadingInv' /\ StaySettled
<1> DEFINE d == Doc(c)
           row == [db[d] EXCEPT !.status = "FAILED"]
<1>1. /\ consumer[c].pc \in OcrOnlyPc /\ Goto(c, "delete") /\ db' = [db EXCEPT ![d] = row]
      /\ UNCHANGED <<fixed, queue, textract, request>>
  BY DEF FailDocument, At, SaveStatus, OcrOnlyPc
<1>2. /\ c \in OcrConsumers /\ c \notin ReadyConsumers /\ consumer[c].pc # "idle"
      /\ db[d].jobs["PREPROCESS"] = "COMPLETED" /\ consumer[c].cur.msg.kind = "completed"
  BY <1>1, Completing
<1>3. db[d] \in DocumentRow /\ DocumentOK(content[d], db[d], textract[d], settings.fake_ocr)
  BY <1>2, Knowing
<1>4. /\ row.status = "FAILED" /\ row.manifest = db[d].manifest /\ row.forced = db[d].forced
      /\ row.key = db[d].key /\ row.ext = db[d].ext /\ row.elements = db[d].elements
      /\ row.jobs = db[d].jobs
  BY <1>3 DEF DocumentRow
<1> HIDE DEF row
<1>5. row.status \in Settled
  BY <1>4 DEF Settled
<1>6. /\ ReadOK(db[d], textract[d], settings.fake_ocr) => ReadOK(row, textract[d], settings.fake_ocr)
      /\ RecordedOK(db[d]) => RecordedOK(row)
  BY <1>4 DEF ReadOK, NonEmpty, RecordedOK
<1>7. /\ DocumentOK(content[d], row, textract[d], settings.fake_ocr)
      /\ Later(db[d], row, textract[d], settings.fake_ocr)
  BY <1>2, <1>3, <1>4, <1>5, <1>6
     DEF DocumentOK, UnpreparedOK, BoughtOK, UnforcedOK, Later
<1>8. ASSUME NEW s, s.pc = "delete", s.cur = consumer[c].cur
      PROVE  HeldOK(c, s, content[d], row, textract[d], settings.fake_ocr)
  <2>1. KindOK(c, s, row, settings.fake_ocr)
    BY <1>2, <1>8 DEF KindOK
  <2>2. ProgressOK(s, content[d], row, textract[d])
    BY <1>2, <1>5, <1>8 DEF ProgressOK, PreparingPc
  <2>3. MemoryOK(s, content[d], row, textract[d], settings.fake_ocr)
    BY <1>8, WrittenSteps DEF MemoryOK, PagesPc, UnwrittenPc
  <2>. QED BY <2>1, <2>2, <2>3 DEF HeldOK
<1>. QED BY <1>1, <1>2, <1>5, <1>6, <1>7, <1>8, GotoReading

\* The result collected is that of the pages that were bought.
LEMMA FetchReading ==
  ASSUME OneReader, Inv, ReadingInv, NEW c \in Consumers, Fetch(c)
  PROVE  ReadingInv' /\ StaySettled
<1> DEFINE d == Doc(c)
           row == [db[d] EXCEPT !.result = consumer[c].cur.msg.n]
           s == [consumer[c] EXCEPT !.pages = Job(c).pages, !.pc = "completeOcr"]
<1>1. consumer[c].pc \in OcrOnlyPc
  BY DEF Fetch, At, OcrOnlyPc
<1>2. /\ c \in OcrConsumers /\ c \notin ReadyConsumers /\ consumer[c].pc # "idle"
      /\ db[d].jobs["PREPROCESS"] = "COMPLETED" /\ consumer[c].cur.msg.kind = "completed"
      /\ DOMAIN textract[d] = {1} /\ consumer[c].cur.msg.n = 1
  BY <1>1, Completing
<1>3. /\ consumer[c] \in ConsumerState /\ db[d] \in DocumentRow
      /\ DocumentOK(content[d], db[d], textract[d], settings.fake_ocr)
      /\ MemoryOK(consumer[c], content[d], db[d], textract[d], settings.fake_ocr)
  BY <1>2, Knowing
<1>4. CASE Raise(c) /\ UNCHANGED db
  BY <1>2, <1>4, OnlyRaiseReading DEF Fetch
<1>5. CASE ~(Raise(c) /\ UNCHANGED db)
  <2>1. /\ consumer' = [consumer EXCEPT ![c] = s] /\ db' = [db EXCEPT ![d] = row]
        /\ UNCHANGED <<fixed, queue, textract, request>>
    BY <1>5 DEF Fetch
  <2>2. SameReading(db[d], row)
    BY <1>3 DEF SameReading, DocumentRow
  <2>3. /\ s.pc = "completeOcr" /\ s.cur = consumer[c].cur /\ s.batch = consumer[c].batch
        /\ s.pages = textract[d][1].pages
    BY <1>2, <1>3 DEF ConsumerState, Job
  <2> HIDE DEF s, row, d
  <2>4. KindOK(c, s, db[d], settings.fake_ocr)
    BY <1>2, <2>3 DEF KindOK, CompletionPc
  <2>5. ProgressOK(s, content[d], db[d], textract[d])
    BY <1>2, <2>3 DEF ProgressOK, PreparingPc
  <2>6. s.pages # {} /\ (db[d].forced = {} => s.pages = TextPages(content[d]))
    BY <1>2, <1>3, <2>3 DEF DocumentOK, BoughtOK, UnforcedOK
  <2>7. MemoryOK(s, content[d], db[d], textract[d], settings.fake_ocr)
    BY <1>2, <2>3, <2>6, WrittenSteps DEF MemoryOK, NonEmpty
  <2>8. HeldOK(c, s, content[d], row, textract[d], settings.fake_ocr)
        /\ DocumentOK(content[d], row, textract[d], settings.fake_ocr)
        /\ Later(db[d], row, textract[d], settings.fake_ocr)
        /\ (RecordedOK(db[d]) => RecordedOK(row))
    BY <1>3, <2>2, <2>4, <2>5, <2>7, SameReadingOK DEF HeldOK
  <2>9. db[d].status \in Settled => row.status \in Settled
    BY <2>2 DEF SameReading
  <2>. QED BY <1>2, <2>1, <2>3, <2>8, <2>9, HandlerReading DEF d
<1>. QED BY <1>4, <1>5

\* The elements are of the pages that were submitted, each cited as itself unless
\* an estimator changed a route meanwhile.
LEMMA WriteElementsReading ==
  ASSUME OneReader, Inv, ReadingInv, NEW c \in Consumers, WriteElements(c)
  PROVE  ReadingInv' /\ StaySettled
<1> DEFINE d == Doc(c)
           pages == consumer[c].pages
           routed == PagesRouted(db[d].manifest, TextractRoutes)
           map == PageMap(pages, routed)
           row == [db[d] EXCEPT !.elements = map]
<1>1. consumer[c].pc = "writeElements" /\ consumer[c].pc # "idle"
  BY DEF WriteElements, At
<1>2. /\ consumer[c] \in ConsumerState /\ db[d] \in DocumentRow
      /\ KindOK(c, consumer[c], db[d], settings.fake_ocr)
      /\ ProgressOK(consumer[c], content[d], db[d], textract[d])
      /\ DocumentOK(content[d], db[d], textract[d], settings.fake_ocr)
      /\ MemoryOK(consumer[c], content[d], db[d], textract[d], settings.fake_ocr)
      /\ RowOK(content[d], db[d])
      /\ HeldOK(c, consumer[c], content[d], db[d], textract[d], settings.fake_ocr)
  BY <1>1, Knowing, Handling DEF HeldOK
<1>3. "writeElements" \in Pc \ (PreparingPc \cup {"lookupPreprocess", "quarantineDocument", "delete", "idle"})
      /\ "writeElements" \in PagesPc \ {"submit"} /\ "writeElements" \in UnwrittenPc
      /\ "writeElements" \in CompletionPc
  BY DEF CompletionPc, Pc, PreparingPc, PagesPc, UnwrittenPc
<1>4. db[d].jobs["PREPROCESS"] = "COMPLETED"
  BY <1>1, <1>2, <1>3 DEF ProgressOK
<1>5. CASE Goto(c, "failNormalize") /\ UNCHANGED db
  <2>1. db' = [db EXCEPT ![d] = db[d]] /\ UNCHANGED <<fixed, queue, textract, request>>
    BY <1>1, <1>5, Handling, SameRow DEF WriteElements
  <2>2. SameReading(db[d], db[d])
    BY SameReadingSame
  <2>3. Onward("writeElements", "failNormalize")
    BY DEF Onward, CompletionPc, OcrOnlyPc, PagesPc, UnwrittenPc, WrittenPc
  <2> DEFINE s == [consumer[c] EXCEPT !.pc = "failNormalize"]
  <2>4. /\ s.pc = "failNormalize" /\ s.cur = consumer[c].cur /\ s.batch = consumer[c].batch
        /\ s.pages = consumer[c].pages
    BY <1>2, MovedTo
  <2>5. consumer' = [consumer EXCEPT ![c] = s]
    BY <1>5 DEF Goto
  <2> HIDE DEF s
  <2>. QED BY <1>1, <2>1, <2>2, <2>3, <2>4, <2>5, OnwardReading
<1>6. CASE ~(Goto(c, "failNormalize") /\ UNCHANGED db)
  <2>1. /\ Goto(c, "completeNormalize") /\ db' = [db EXCEPT ![d] = row]
        /\ UNCHANGED <<fixed, queue, textract, request>> /\ ~OutOfRange(pages, routed)
    BY <1>6 DEF WriteElements
  <2>2. /\ row.status = db[d].status /\ row.manifest = db[d].manifest /\ row.forced = db[d].forced
        /\ row.key = db[d].key /\ row.ext = db[d].ext /\ row.elements = map
        /\ row.jobs = db[d].jobs
    BY <1>2 DEF DocumentRow
  <2>3. pages \in SUBSET Pages /\ routed \in SUBSET Pages
    BY <1>2 DEF ConsumerState, PagesRouted
  <2>4. /\ {pair[2] : pair \in map} = pages
        /\ pages # {} => map # {}
    BY <2>1, <2>3, PageMapWhole
  <2>5. db[d].forced = {} => \A pair \in map : pair[1] = pair[2]
    <3>1. SUFFICES ASSUME db[d].forced = {} PROVE \A pair \in map : pair[1] = pair[2]
      OBVIOUS
    <3>2. pages = TextPages(content[d])
      BY <1>1, <1>2, <1>3, <3>1 DEF MemoryOK
    <3>3. routed = TextPages(content[d])
      BY <1>2, <1>4, <3>1 DEF DocumentOK, UnforcedOK, RowOK, TextPages
    <3>. QED BY <2>3, <3>2, <3>3, PageMapIdentity
  <2> HIDE DEF row, map, routed
  <2>6. ReadOK(row, textract[d], settings.fake_ocr)
    <3>1. NonEmpty(pages, settings.fake_ocr)
      BY <1>1, <1>2, <1>3 DEF MemoryOK
    <3>2. \A n \in DOMAIN textract[d] : pages = textract[d][n].pages
      BY <1>1, <1>2, <1>3 DEF MemoryOK
    <3>. QED BY <2>2, <2>4, <3>1, <3>2 DEF ReadOK, NonEmpty
  <2>7. ~settings.fake_ocr => textract[d] # << >>
    <3>1. c \in ReadyConsumers => settings.fake_ocr
      BY <1>1, <1>2, <1>3 DEF KindOK
    <3>2. c \in OcrConsumers => textract[d] # << >>
      BY <1>1, CompletionsHaveJobs
    <3>. QED BY <3>1, <3>2 DEF Consumers
  <2>8. /\ DocumentOK(content[d], row, textract[d], settings.fake_ocr)
        /\ Later(db[d], row, textract[d], settings.fake_ocr)
        /\ (RecordedOK(db[d]) => RecordedOK(row))
    BY <1>2, <1>4, <2>2, <2>5, <2>6, <2>7
       DEF DocumentOK, UnpreparedOK, BoughtOK, UnforcedOK, Later, RecordedOK
  <2>9. ASSUME NEW s, s.pc = "completeNormalize", s.cur = consumer[c].cur
        PROVE  HeldOK(c, s, content[d], row, textract[d], settings.fake_ocr)
    <3>1. KindOK(c, s, row, settings.fake_ocr)
      BY <1>1, <1>2, <1>3, <2>2, <2>9 DEF KindOK, CompletionPc, OcrOnlyPc
    <3>2. ProgressOK(s, content[d], row, textract[d])
      BY <1>4, <2>2, <2>9 DEF ProgressOK, PreparingPc
    <3>3. MemoryOK(s, content[d], row, textract[d], settings.fake_ocr)
      BY <2>6, <2>9 DEF MemoryOK, PagesPc, UnwrittenPc
    <3>. QED BY <3>1, <3>2, <3>3 DEF HeldOK
  <2>. QED BY <1>1, <2>1, <2>2, <2>8, <2>9, GotoReading
<1>. QED BY <1>5, <1>6

(***************************************************************************)
(* Preprocessing: the ready handler is alone with its document.            *)
(***************************************************************************)

\* Where only the handler of document-ready goes, before the offline loop.
ReadyOnlyPc == Pc \ (CompletionPc \cup {"idle", "delete"})

LEMMA ReadyOnly ==
  ASSUME OneReader, Inv, ReadingInv, NEW c \in Consumers, consumer[c].pc \in ReadyOnlyPc
  PROVE  /\ consumer[c].pc # "idle" /\ c \in ReadyConsumers /\ c \notin OcrConsumers
         /\ consumer[c].cur.msg.kind = "ready"
<1>1. consumer[c].pc # "idle" /\ consumer[c].pc \notin CompletionPc \cup {"delete"}
  BY DEF ReadyOnlyPc
<1>2. KindOK(c, consumer[c], db[Doc(c)], settings.fake_ocr)
  BY <1>1, Knowing
<1>. QED BY <1>1, <1>2 DEF KindOK, Consumers

LEMMA Preparing ==
  ASSUME OneReader, Inv, ReadingInv, NEW c \in Consumers, consumer[c].pc \in PreparingPc
  PROVE  /\ consumer[c].pc \in ReadyOnlyPc /\ consumer[c].pc # "idle"
         /\ c \in ReadyConsumers /\ c \notin OcrConsumers
         /\ consumer[c].cur.msg.kind = "ready"
         /\ db[Doc(c)].jobs["PREPROCESS"] # "COMPLETED"
         /\ textract[Doc(c)] = << >> /\ db[Doc(c)].elements = {}
         /\ db[Doc(c)].status \in Settled =>
              db[Doc(c)].status = "QUARANTINED" /\ Refused(content[Doc(c)])
<1>1. consumer[c].pc \in ReadyOnlyPc /\ consumer[c].pc # "idle"
  BY DEF PreparingPc, ReadyOnlyPc, Pc, ReadyPc, CompletionPc
<1>2. /\ ProgressOK(consumer[c], content[Doc(c)], db[Doc(c)], textract[Doc(c)])
      /\ DocumentOK(content[Doc(c)], db[Doc(c)], textract[Doc(c)], settings.fake_ocr)
  BY <1>1, Knowing
<1>3. db[Doc(c)].jobs["PREPROCESS"] # "COMPLETED"
  BY <1>2 DEF ProgressOK
<1>. QED BY <1>1, <1>2, <1>3, ReadyOnly DEF DocumentOK, UnpreparedOK

\* What a step of the ready handler needs no pages and no verdict for.
LEMMA PreparingHeld ==
  ASSUME NEW c, NEW t, NEW file, NEW row, NEW jobs, NEW fake,
         c \in ReadyConsumers, c \notin OcrConsumers, t.cur.msg.kind = "ready",
         t.pc \in PreparingPc, row.jobs["PREPROCESS"] # "COMPLETED",
         t.pc = "refusePreprocess" => Refused(file),
         t.pc = "replaceManifest" /\ Overrides = {} => \A p \in Pages : t.kept[p] = NULL
  PROVE  HeldOK(c, t, file, row, jobs, fake)
<1>1. t.pc \notin CompletionPc /\ t.pc \notin OcrOnlyPc /\ t.pc \notin PagesPc
      /\ t.pc \notin UnwrittenPc /\ t.pc \notin WrittenPc
      /\ t.pc \notin {"markProcessing", "quarantineDocument", "settle", "delete", "startOcr"}
  BY WrittenSteps DEF PreparingPc, CompletionPc, OcrOnlyPc, PagesPc, UnwrittenPc
<1>2. KindOK(c, t, row, fake)
  BY <1>1 DEF KindOK
<1>3. ProgressOK(t, file, row, jobs)
  BY <1>1 DEF ProgressOK
<1>4. MemoryOK(t, file, row, jobs, fake)
  BY <1>1 DEF MemoryOK
<1>. QED BY <1>2, <1>3, <1>4 DEF HeldOK

\* Writing the PREPROCESS row of a document of which nothing was read.
LEMMA PreprocessColumn ==
  ASSUME NEW file, NEW old, NEW jobs, NEW fake, NEW status, NEW new,
         SavedPreprocess(old, new, status), DocumentOK(file, old, jobs, fake),
         old.jobs["PREPROCESS"] # "COMPLETED"
  PROVE  /\ DocumentOK(file, new, jobs, fake)
         /\ new.status = old.status /\ new.jobs["PREPROCESS"] = status
         /\ status = "QUARANTINED" => RecordedOK(new)
<1>1. jobs = << >> /\ old.elements = {}
      /\ (old.status \in Settled => old.status = "QUARANTINED" /\ Refused(file))
  BY DEF DocumentOK, UnpreparedOK
<1>2. DocumentOK(file, new, jobs, fake)
  BY <1>1 DEF SavedPreprocess, DocumentOK, UnpreparedOK, BoughtOK, UnforcedOK, Settled
<1>. QED BY <1>2 DEF SavedPreprocess, RecordedOK

LEMMA PreparingSaves ==
  ASSUME OneReader, Inv, ReadingInv, NEW c \in Consumers,
         StartPreprocess(c) \/ RefusePreprocess(c) \/ FailPreprocess(c)
  PROVE  ReadingInv' /\ StaySettled
<1> DEFINE d == Doc(c)
           Saved(status) == [db[d] EXCEPT !.jobs["PREPROCESS"] = status]
<1>1. consumer[c].pc \in PreparingPc
  BY DEF StartPreprocess, RefusePreprocess, FailPreprocess, At, PreparingPc
<1>2. /\ consumer[c].pc # "idle" /\ c \in ReadyConsumers /\ c \notin OcrConsumers
      /\ consumer[c].cur.msg.kind = "ready" /\ db[d].jobs["PREPROCESS"] # "COMPLETED"
      /\ textract[d] = << >>
  BY <1>1, Preparing
<1>3. /\ db[d] \in DocumentRow /\ RowAlive(c)
      /\ ProgressOK(consumer[c], content[d], db[d], textract[d])
      /\ DocumentOK(content[d], db[d], textract[d], settings.fake_ocr)
  BY <1>2, Knowing
<1>4. ASSUME NEW status
      PROVE  /\ DocumentOK(content[d], Saved(status), textract[d], settings.fake_ocr)
                  \/ status = "COMPLETED"
             /\ Saved(status).status = db[d].status /\ Saved(status).jobs["PREPROCESS"] = status
             /\ status = "QUARANTINED" => RecordedOK(Saved(status))
  <2>1. SavedPreprocess(db[d], Saved(status), status)
    BY <1>3, WithPreprocess
  <2>2. DocumentOK(content[d], db[d], textract[d], settings.fake_ocr)
        /\ db[d].jobs["PREPROCESS"] # "COMPLETED"
    BY <1>2, <1>3
  <2> HIDE DEF Saved
  <2>. QED BY <2>1, <2>2, PreprocessColumn
<1>5. CASE StartPreprocess(c)
  <2> DEFINE row == Saved("STARTED")
  <2>1. Goto(c, "preprocess") /\ db' = [db EXCEPT ![d] = row]
        /\ UNCHANGED <<fixed, queue, textract, request>>
    BY <1>3, <1>5 DEF StartPreprocess, SaveJob
  <2>2. /\ DocumentOK(content[d], row, textract[d], settings.fake_ocr)
        /\ row.status = db[d].status /\ row.jobs["PREPROCESS"] = "STARTED"
    BY <1>4
  <2> HIDE DEF Saved
  <2>3. "preprocess" \in PreparingPc
    BY DEF PreparingPc
  <2>4. ASSUME NEW s, s.pc = "preprocess", s.cur = consumer[c].cur
        PROVE  HeldOK(c, s, content[d], row, textract[d], settings.fake_ocr)
    BY <1>2, <2>2, <2>3, <2>4, PreparingHeld
  <2>. QED BY <1>2, <2>1, <2>2, <2>4, GotoReading
<1>6. CASE RefusePreprocess(c)
  <2> DEFINE row == Saved("QUARANTINED")
  <2>1. Goto(c, "quarantineDocument") /\ db' = [db EXCEPT ![d] = row]
        /\ UNCHANGED <<fixed, queue, textract, request>>
    BY <1>3, <1>6 DEF RefusePreprocess, SaveJob
  <2>2. /\ DocumentOK(content[d], row, textract[d], settings.fake_ocr)
        /\ row.status = db[d].status /\ RecordedOK(row)
    BY <1>4
  <2>3. Refused(content[d])
    BY <1>3, <1>6 DEF ProgressOK, RefusePreprocess, At
  <2> HIDE DEF Saved
  <2>4. ASSUME NEW s, s.pc = "quarantineDocument", s.cur = consumer[c].cur
        PROVE  HeldOK(c, s, content[d], row, textract[d], settings.fake_ocr)
    <3>1. KindOK(c, s, row, settings.fake_ocr)
      BY <1>2, <2>4 DEF KindOK, OcrOnlyPc, CompletionPc
    <3>2. ProgressOK(s, content[d], row, textract[d])
      BY <2>2, <2>3, <2>4 DEF ProgressOK, PreparingPc
    <3>3. MemoryOK(s, content[d], row, textract[d], settings.fake_ocr)
      BY <2>4, WrittenSteps DEF MemoryOK, PagesPc, UnwrittenPc
    <3>. QED BY <3>1, <3>2, <3>3 DEF HeldOK
  <2>. QED BY <1>2, <2>1, <2>2, <2>4, GotoReading
<1>7. CASE FailPreprocess(c)
  <2> DEFINE row == Saved("FAILED")
  <2>1. Raise(c) /\ db' = [db EXCEPT ![d] = row]
        /\ UNCHANGED <<fixed, queue, textract, request>>
    BY <1>3, <1>7 DEF FailPreprocess, SaveFailureAndRaise
  <2>2. /\ DocumentOK(content[d], row, textract[d], settings.fake_ocr)
        /\ row.status = db[d].status
    BY <1>4
  <2> HIDE DEF Saved
  <2>. QED BY <1>2, <2>1, <2>2, RaiseReading
<1>. QED BY <1>5, <1>6, <1>7

LEMMA LookupPreprocessReading ==
  ASSUME OneReader, Inv, ReadingInv, NEW c \in Consumers, LookupPreprocess(c)
  PROVE  ReadingInv' /\ StaySettled
<1> DEFINE d == Doc(c)
           old == db[d].jobs["PREPROCESS"]
           status == IF old = NULL THEN "PENDING" ELSE old
           next == IF old = "COMPLETED" THEN "lookupOcr" ELSE "startPreprocess"
           row == [db[d] EXCEPT !.jobs["PREPROCESS"] = status]
           s == [consumer[c] EXCEPT !.row = db[d].epoch, !.pc = next]
<1>1. consumer[c].pc \in ReadyOnlyPc /\ consumer[c].pc = "lookupPreprocess"
  BY DEF LookupPreprocess, At, ReadyOnlyPc, Pc, ReadyPc, CompletionPc
<1>2. /\ consumer[c].pc # "idle" /\ c \in ReadyConsumers /\ c \notin OcrConsumers
      /\ consumer[c].cur.msg.kind = "ready"
  BY <1>1, ReadyOnly
<1>3. /\ consumer[c] \in ConsumerState /\ db[d] \in DocumentRow
      /\ DocumentOK(content[d], db[d], textract[d], settings.fake_ocr)
  BY <1>2, Knowing
<1>4. /\ consumer' = [consumer EXCEPT ![c] = s] /\ db' = [db EXCEPT ![d] = row]
      /\ UNCHANGED <<fixed, queue, textract, request>>
  BY DEF LookupPreprocess
<1>5. /\ s.pc = next /\ s.cur = consumer[c].cur /\ s.batch = consumer[c].batch
      /\ s.pages = consumer[c].pages
  BY <1>3 DEF ConsumerState
<1>6. SavedPreprocess(db[d], row, status)
  BY <1>3, WithPreprocess
<1>7. NULL # "COMPLETED" /\ "PENDING" # "COMPLETED"
  BY StateAssumption DEF PipelineJobStatus
<1> HIDE DEF row, s
<1>8. CASE old # "COMPLETED"
  <2>1. status # "COMPLETED" /\ next = "startPreprocess"
    BY <1>7, <1>8
  <2> HIDE DEF status, next
  <2>2. textract[d] = << >>
    BY <1>3, <1>8 DEF DocumentOK, UnpreparedOK
  <2>3. /\ DocumentOK(content[d], row, textract[d], settings.fake_ocr)
        /\ row.status = db[d].status /\ row.jobs["PREPROCESS"] = status
    BY <1>3, <1>6, <1>8, PreprocessColumn
  <2>4. "startPreprocess" \in PreparingPc
    BY DEF PreparingPc
  <2>5. HeldOK(c, s, content[d], row, textract[d], settings.fake_ocr)
    BY <1>2, <1>5, <2>1, <2>3, <2>4, PreparingHeld
  <2>. QED BY <1>2, <1>4, <1>5, <2>2, <2>3, <2>5, HandlerReading
<1>9. CASE old = "COMPLETED"
  <2>1. status = old /\ next = "lookupOcr"
    BY <1>7, <1>9
  <2> HIDE DEF status, next
  <2>2. SameReading(db[d], row) /\ row.jobs["PREPROCESS"] = "COMPLETED"
    BY <1>6, <1>9, <2>1 DEF SameReading, SavedPreprocess
  <2>3. /\ DocumentOK(content[d], row, textract[d], settings.fake_ocr)
        /\ Later(db[d], row, textract[d], settings.fake_ocr)
        /\ row.status = db[d].status
    BY <1>3, <2>2, SameReadingOK DEF SameReading
  <2>4. KindOK(c, s, row, settings.fake_ocr)
    BY <1>2, <1>5, <2>1 DEF KindOK, OcrOnlyPc, CompletionPc
  <2>5. ProgressOK(s, content[d], row, textract[d])
    BY <1>5, <2>1, <2>2 DEF ProgressOK, PreparingPc
  <2>6. MemoryOK(s, content[d], row, textract[d], settings.fake_ocr)
    BY <1>5, <2>1, WrittenSteps DEF MemoryOK, PagesPc, UnwrittenPc
  <2>7. HeldOK(c, s, content[d], row, textract[d], settings.fake_ocr)
    BY <2>4, <2>5, <2>6 DEF HeldOK
  <2>. QED BY <1>2, <1>4, <1>5, <2>3, <2>7, HandlerReading
<1>. QED BY <1>8, <1>9

\* write_manifest reads what an estimator forced; without overrides that is nothing.
LEMMA PreprocessReading ==
  ASSUME OneReader, Inv, ReadingInv, NEW c \in Consumers, Preprocess(c)
  PROVE  ReadingInv' /\ StaySettled
<1> DEFINE d == Doc(c)
           kept == [p \in Pages |-> IF p \in db[d].forced THEN db[d].manifest[p] ELSE NULL]
<1>1. consumer[c].pc \in PreparingPc
  BY DEF Preprocess, At, PreparingPc
<1>2. /\ consumer[c].pc # "idle" /\ c \in ReadyConsumers /\ c \notin OcrConsumers
      /\ consumer[c].cur.msg.kind = "ready" /\ db[d].jobs["PREPROCESS"] # "COMPLETED"
      /\ textract[d] = << >>
  BY <1>1, Preparing
<1>3. /\ consumer[c] \in ConsumerState /\ d \in Docs
      /\ DocumentOK(content[d], db[d], textract[d], settings.fake_ocr)
  BY <1>2, Knowing
<1>4. db' = [db EXCEPT ![d] = db[d]] /\ UNCHANGED <<fixed, queue, textract, request>>
  BY <1>3, SameRow DEF Preprocess
<1>5. {"failPreprocess", "refusePreprocess", "replaceManifest"} \subseteq PreparingPc
  BY DEF PreparingPc
<1>6. ASSUME NEW s, consumer' = [consumer EXCEPT ![c] = s],
             s.cur = consumer[c].cur, s.batch = consumer[c].batch, s.pc \in PreparingPc,
             s.pc = "refusePreprocess" => Refused(content[d]),
             s.pc = "replaceManifest" /\ Overrides = {} => \A p \in Pages : s.kept[p] = NULL
      PROVE  ReadingInv' /\ StaySettled
  <2>1. HeldOK(c, s, content[d], db[d], textract[d], settings.fake_ocr)
    BY <1>2, <1>6, PreparingHeld
  <2>. QED BY <1>2, <1>3, <1>4, <1>6, <2>1, HandlerReading
<1>7. ASSUME NEW next \in PreparingPc, Goto(c, next), next # "replaceManifest",
             next = "refusePreprocess" => Refused(content[d])
      PROVE  ReadingInv' /\ StaySettled
  <2> DEFINE s == [consumer[c] EXCEPT !.pc = next]
  <2>1. s.pc = next /\ s.cur = consumer[c].cur /\ s.batch = consumer[c].batch
    BY <1>3, MovedTo
  <2>2. consumer' = [consumer EXCEPT ![c] = s]
    BY <1>7 DEF Goto
  <2> HIDE DEF s
  <2>. QED BY <1>6, <1>7, <2>1, <2>2
<1>8. CASE Goto(c, "failPreprocess")
  BY <1>5, <1>7, <1>8
<1>9. CASE Refused(content[d]) /\ Goto(c, "refusePreprocess")
  BY <1>5, <1>7, <1>9
<1>10. CASE consumer' = [consumer EXCEPT ![c].kept = kept, ![c].pc = "replaceManifest"]
  <2> DEFINE s == [consumer[c] EXCEPT !.kept = kept, !.pc = "replaceManifest"]
  <2>1. Overrides = {} => \A p \in Pages : kept[p] = NULL
    BY <1>3 DEF DocumentOK
  <2> HIDE DEF kept
  <2>2. s.pc = "replaceManifest" /\ s.cur = consumer[c].cur /\ s.batch = consumer[c].batch
        /\ s.kept = kept
    BY <1>3 DEF ConsumerState
  <2>3. consumer' = [consumer EXCEPT ![c] = s]
    BY <1>10
  <2> HIDE DEF s
  <2>. QED BY <1>5, <1>6, <2>1, <2>2, <2>3
<1>. QED BY <1>8, <1>9, <1>10 DEF Preprocess

LEMMA ReplaceManifestReading ==
  ASSUME OneReader, Inv, ReadingInv, NEW c \in Consumers, ReplaceManifest(c)
  PROVE  ReadingInv' /\ StaySettled
<1> DEFINE d == Doc(c)
           kept == consumer[c].kept
           manifest == [p \in Pages |-> IF kept[p] = NULL THEN content[d].triage[p] ELSE kept[p]]
           forced == {p \in Pages : kept[p] # NULL}
           row == [db[d] EXCEPT !.manifest = manifest, !.forced = forced,
                                !.manifestComplete = TRUE]
<1>1. /\ consumer[c].pc \in PreparingPc /\ consumer[c].pc = "replaceManifest"
      /\ Goto(c, "completePreprocess") /\ db' = [db EXCEPT ![d] = row]
      /\ UNCHANGED <<fixed, queue, textract, request>>
  BY DEF ReplaceManifest, At, PreparingPc
<1>2. /\ consumer[c].pc # "idle" /\ c \in ReadyConsumers /\ c \notin OcrConsumers
      /\ consumer[c].cur.msg.kind = "ready" /\ db[d].jobs["PREPROCESS"] # "COMPLETED"
      /\ textract[d] = << >> /\ db[d].elements = {}
      /\ db[d].status \in Settled => db[d].status = "QUARANTINED" /\ Refused(content[d])
  BY <1>1, Preparing
<1>3. /\ db[d] \in DocumentRow /\ content[d] \in FileContent
      /\ DocumentOK(content[d], db[d], textract[d], settings.fake_ocr)
      /\ MemoryOK(consumer[c], content[d], db[d], textract[d], settings.fake_ocr)
  BY <1>2, Knowing, Handling
<1>4. content[d].triage \in [Pages -> Routes]
  BY <1>3 DEF FileContent
<1>5. forced = {} => manifest = content[d].triage
  <2>1. SUFFICES ASSUME forced = {} PROVE manifest = content[d].triage
    OBVIOUS
  <2>2. \A p \in Pages : kept[p] = NULL
    BY <2>1
  <2>. QED BY <1>4, <2>2
<1>6. Overrides = {} => forced = {}
  BY <1>1, <1>3 DEF MemoryOK
<1> HIDE DEF manifest, forced
<1>7. /\ row.status = db[d].status /\ row.manifest = manifest /\ row.forced = forced
      /\ row.key = db[d].key /\ row.ext = db[d].ext /\ row.elements = db[d].elements
      /\ row.jobs = db[d].jobs
  BY <1>3 DEF DocumentRow
<1> HIDE DEF row
<1>8. DocumentOK(content[d], row, textract[d], settings.fake_ocr)
  BY <1>2, <1>3, <1>5, <1>6, <1>7 DEF DocumentOK, UnpreparedOK, BoughtOK, UnforcedOK, Settled
<1>9. "completePreprocess" \in PreparingPc
  BY DEF PreparingPc
<1>10. ASSUME NEW s, s.pc = "completePreprocess", s.cur = consumer[c].cur
       PROVE  HeldOK(c, s, content[d], row, textract[d], settings.fake_ocr)
  BY <1>2, <1>7, <1>9, <1>10, PreparingHeld
<1>. QED BY <1>1, <1>2, <1>7, <1>8, <1>10, GotoReading

\* Where the ready handler goes on once preprocessing is COMPLETED.
LEMMA ReadyOnlyHeld ==
  ASSUME NEW c, NEW t, NEW file, NEW row, NEW jobs, NEW fake,
         c \in ReadyConsumers, c \notin OcrConsumers, t.cur.msg.kind = "ready",
         t.pc \in {"markProcessing", "lookupOcr", "skipOcr", "recordJob", "failOcr", "refuseOcr",
                   "quarantineDocument", "delete"},
         IF t.pc \in {"quarantineDocument", "delete"}
           THEN /\ RecordedOK(row)
                /\ row.jobs["PREPROCESS"] # "COMPLETED" => t.pc = "delete" \/ Refused(file)
           ELSE row.jobs["PREPROCESS"] = "COMPLETED",
         t.pc = "markProcessing" => jobs = << >> /\ row.status \notin Settled
  PROVE  HeldOK(c, t, file, row, jobs, fake)
<1>1. t.pc \notin CompletionPc /\ t.pc \notin OcrOnlyPc /\ t.pc \notin PagesPc
      /\ t.pc \notin UnwrittenPc /\ t.pc \notin WrittenPc /\ t.pc \notin PreparingPc
      /\ t.pc \notin {"settle", "startOcr", "replaceManifest", "refusePreprocess"}
  BY WrittenSteps DEF PreparingPc, CompletionPc, OcrOnlyPc, PagesPc, UnwrittenPc
<1>2. KindOK(c, t, row, fake)
  BY <1>1 DEF KindOK
<1>3. ProgressOK(t, file, row, jobs)
  BY <1>1 DEF ProgressOK
<1>4. MemoryOK(t, file, row, jobs, fake)
  BY <1>1 DEF MemoryOK
<1>. QED BY <1>2, <1>3, <1>4 DEF HeldOK

LEMMA CompletePreprocessReading ==
  ASSUME OneReader, Inv, ReadingInv, NEW c \in Consumers, CompletePreprocess(c)
  PROVE  ReadingInv' /\ StaySettled
<1> DEFINE d == Doc(c)
           row == [db[d] EXCEPT !.jobs["PREPROCESS"] = "COMPLETED"]
<1>1. consumer[c].pc \in PreparingPc /\ consumer[c].pc = "completePreprocess"
  BY DEF CompletePreprocess, At, PreparingPc
<1>2. /\ consumer[c].pc # "idle" /\ c \in ReadyConsumers /\ c \notin OcrConsumers
      /\ consumer[c].cur.msg.kind = "ready" /\ db[d].jobs["PREPROCESS"] # "COMPLETED"
      /\ textract[d] = << >> /\ db[d].elements = {}
      /\ db[d].status \in Settled => db[d].status = "QUARANTINED" /\ Refused(content[d])
  BY <1>1, Preparing
<1>3. /\ db[d] \in DocumentRow /\ RowAlive(c)
      /\ DocumentOK(content[d], db[d], textract[d], settings.fake_ocr)
      /\ RowOK(content[d], db[d]) /\ StateOK(consumer[c], content, queue, db)
  BY <1>2, Knowing, Handling
<1>4. Goto(c, "markProcessing") /\ db' = [db EXCEPT ![d] = row]
      /\ UNCHANGED <<fixed, queue, textract, request>>
  BY <1>3 DEF CompletePreprocess, SaveJob
<1>5. SavedPreprocess(db[d], row, "COMPLETED")
  BY <1>3, WithPreprocess
<1> HIDE DEF row
<1>6. ~Refused(content[d])
  BY <1>1, <1>3 DEF StateOK, DecidedPc, RowOK, Readable, Doc
<1>7. db[d].status \notin Settled
  BY <1>2, <1>6
<1>8. DocumentOK(content[d], row, textract[d], settings.fake_ocr)
  BY <1>2, <1>3, <1>5, <1>7
     DEF SavedPreprocess, DocumentOK, UnpreparedOK, BoughtOK, UnforcedOK, Settled
<1>9. ASSUME NEW s, s.pc = "markProcessing", s.cur = consumer[c].cur
      PROVE  HeldOK(c, s, content[d], row, textract[d], settings.fake_ocr)
  BY <1>2, <1>5, <1>7, <1>9, ReadyOnlyHeld DEF SavedPreprocess
<1>. QED BY <1>2, <1>4, <1>7, <1>8, <1>9, GotoReading

\* Nothing was bought yet, so no completion can have settled the document.
LEMMA MarkProcessingReading ==
  ASSUME OneReader, Inv, ReadingInv, NEW c \in Consumers, MarkProcessing(c)
  PROVE  ReadingInv' /\ StaySettled
<1> DEFINE d == Doc(c)
           row == [db[d] EXCEPT !.status = "PROCESSING"]
<1>1. /\ consumer[c].pc = "markProcessing" /\ consumer[c].pc \in ReadyOnlyPc
      /\ Goto(c, "lookupOcr") /\ db' = [db EXCEPT ![d] = row]
      /\ UNCHANGED <<fixed, queue, textract, request>>
  BY DEF MarkProcessing, At, SaveStatus, ReadyOnlyPc, Pc, ReadyPc, CompletionPc
<1>2. /\ consumer[c].pc # "idle" /\ c \in ReadyConsumers /\ c \notin OcrConsumers
      /\ consumer[c].cur.msg.kind = "ready"
  BY <1>1, ReadyOnly
<1>3. /\ db[d] \in DocumentRow
      /\ ProgressOK(consumer[c], content[d], db[d], textract[d])
      /\ DocumentOK(content[d], db[d], textract[d], settings.fake_ocr)
  BY <1>2, Knowing
<1>4. "markProcessing" \in Pc \ (PreparingPc \cup {"lookupPreprocess", "quarantineDocument", "delete", "idle"})
  BY DEF Pc, ReadyPc, PreparingPc
<1>5. textract[d] = << >> /\ db[d].status \notin Settled /\ db[d].jobs["PREPROCESS"] = "COMPLETED"
  BY <1>1, <1>3, <1>4 DEF ProgressOK
<1>6. /\ row.status = "PROCESSING" /\ row.manifest = db[d].manifest /\ row.forced = db[d].forced
      /\ row.key = db[d].key /\ row.ext = db[d].ext /\ row.elements = db[d].elements
      /\ row.jobs = db[d].jobs
  BY <1>3 DEF DocumentRow
<1> HIDE DEF row
<1>7. DocumentOK(content[d], row, textract[d], settings.fake_ocr)
  BY <1>3, <1>5, <1>6 DEF DocumentOK, UnpreparedOK, BoughtOK, UnforcedOK
<1>8. ASSUME NEW s, s.pc = "lookupOcr", s.cur = consumer[c].cur
      PROVE  HeldOK(c, s, content[d], row, textract[d], settings.fake_ocr)
  BY <1>2, <1>5, <1>6, <1>8, ReadyOnlyHeld
<1>. QED BY <1>1, <1>2, <1>5, <1>7, <1>8, GotoReading

LEMMA QuarantineDocumentReading ==
  ASSUME OneReader, Inv, ReadingInv, NEW c \in Consumers, QuarantineDocument(c)
  PROVE  ReadingInv' /\ StaySettled
<1> DEFINE d == Doc(c)
           row == [db[d] EXCEPT !.status = "QUARANTINED"]
<1>1. /\ consumer[c].pc = "quarantineDocument" /\ consumer[c].pc \in ReadyOnlyPc
      /\ Goto(c, "delete") /\ db' = [db EXCEPT ![d] = row]
      /\ UNCHANGED <<fixed, queue, textract, request>>
  BY DEF QuarantineDocument, At, SaveStatus, ReadyOnlyPc, Pc, ReadyPc, CompletionPc
<1>2. /\ consumer[c].pc # "idle" /\ c \in ReadyConsumers /\ c \notin OcrConsumers
      /\ consumer[c].cur.msg.kind = "ready"
  BY <1>1, ReadyOnly
<1>3. /\ db[d] \in DocumentRow
      /\ ProgressOK(consumer[c], content[d], db[d], textract[d])
      /\ DocumentOK(content[d], db[d], textract[d], settings.fake_ocr)
  BY <1>2, Knowing
<1>4. RecordedOK(db[d]) /\ (db[d].jobs["PREPROCESS"] # "COMPLETED" => Refused(content[d]))
  BY <1>1, <1>3 DEF ProgressOK
<1>5. /\ row.status = "QUARANTINED" /\ row.manifest = db[d].manifest /\ row.forced = db[d].forced
      /\ row.key = db[d].key /\ row.ext = db[d].ext /\ row.elements = db[d].elements
      /\ row.jobs = db[d].jobs
  BY <1>3 DEF DocumentRow
<1> HIDE DEF row
<1>6. RecordedOK(row) /\ row.status \in Settled
      /\ (ReadOK(db[d], textract[d], settings.fake_ocr) => ReadOK(row, textract[d], settings.fake_ocr))
  BY <1>4, <1>5 DEF RecordedOK, Settled, ReadOK, NonEmpty
<1>7. DocumentOK(content[d], row, textract[d], settings.fake_ocr)
  BY <1>3, <1>4, <1>5 DEF DocumentOK, UnpreparedOK, BoughtOK, UnforcedOK
<1>8. Later(db[d], row, textract[d], settings.fake_ocr)
  BY <1>5, <1>6 DEF Later
<1>9. ASSUME NEW s, s.pc = "delete", s.cur = consumer[c].cur
      PROVE  HeldOK(c, s, content[d], row, textract[d], settings.fake_ocr)
  BY <1>2, <1>6, <1>9, ReadyOnlyHeld
<1>. QED BY <1>1, <1>2, <1>6, <1>7, <1>8, <1>9, GotoReading

(***************************************************************************)
(* Submission.                                                             *)
(***************************************************************************)
LEMMA RouteHasPages ==
  ASSUME NEW manifest, RouteOf(manifest) # NULL
  PROVE  PagesRouted(manifest, TextractRoutes) # {}
<1>1. PICK p \in Pages : manifest[p] \in {"TEXTRACT_TABLES", "TEXTRACT_TEXT"}
  BY DEF RouteOf, PagesRouted
<1>. QED BY <1>1 DEF PagesRouted, TextractRoutes

\* What is known at every step of a submission.
LEMMA Submission ==
  ASSUME OneReader, Inv, ReadingInv, NEW c \in Consumers,
         consumer[c].pc \in {"lookupOcr", "skipOcr", "startOcr", "submit", "recordJob", "failOcr",
                             "refuseOcr", "fakeResult", "fakeRecord"}
  PROVE  /\ consumer[c].pc # "idle" /\ c \in ReadyConsumers /\ c \notin OcrConsumers
         /\ consumer[c].cur.msg.kind = "ready"
         /\ db[Doc(c)].jobs["PREPROCESS"] = "COMPLETED" /\ db[Doc(c)].manifest # NULL
         /\ consumer[c] \in ConsumerState /\ db[Doc(c)] \in DocumentRow /\ RowAlive(c)
         /\ DocumentOK(content[Doc(c)], db[Doc(c)], textract[Doc(c)], settings.fake_ocr)
<1>1. consumer[c].pc \in ReadyOnlyPc /\ consumer[c].pc # "idle"
      /\ consumer[c].pc \in Pc \ (PreparingPc \cup {"lookupPreprocess", "quarantineDocument", "delete", "idle"})
  BY DEF ReadyOnlyPc, Pc, ReadyPc, CompletionPc, PreparingPc
<1>2. ProgressOK(consumer[c], content[Doc(c)], db[Doc(c)], textract[Doc(c)])
  BY <1>1, Knowing
<1>3. db[Doc(c)].jobs["PREPROCESS"] = "COMPLETED"
  BY <1>1, <1>2 DEF ProgressOK
<1>4. db[Doc(c)].manifest # NULL
  BY <1>1, <1>3, Handling DEF RowOK
<1>. QED BY <1>1, <1>3, <1>4, Knowing, ReadyOnly

LEMMA LookupOcrReading ==
  ASSUME OneReader, Inv, ReadingInv, NEW c \in Consumers, LookupOcr(c)
  PROVE  ReadingInv' /\ StaySettled
<1> DEFINE d == Doc(c)
           route == RouteOf(db[d].manifest)
           key == IF db[d].key = NULL THEN OcrKey(route) ELSE db[d].key
           old == db[d].jobs["OCR"]
           status == IF old = NULL THEN "PENDING" ELSE old
           row == [db[d] EXCEPT !.jobs["OCR"] = status, !.key = key]
           next == IF old \in {"COMPLETED", "SKIPPED"} THEN "delete"
                   ELSE IF route = NULL THEN "skipOcr" ELSE "startOcr"
           s == [consumer[c] EXCEPT !.row = db[d].epoch, !.route = route, !.key = key,
                                    !.ext = db[d].ext, !.pc = next]
<1>1. consumer[c].pc = "lookupOcr"
  BY DEF LookupOcr, At
<1>2. /\ consumer[c].pc # "idle" /\ c \in ReadyConsumers /\ c \notin OcrConsumers
      /\ consumer[c].cur.msg.kind = "ready"
      /\ db[d].jobs["PREPROCESS"] = "COMPLETED" /\ db[d].manifest # NULL
      /\ consumer[c] \in ConsumerState /\ db[d] \in DocumentRow
      /\ DocumentOK(content[d], db[d], textract[d], settings.fake_ocr)
  BY <1>1, Submission
<1>3. /\ consumer' = [consumer EXCEPT ![c] = s] /\ db' = [db EXCEPT ![d] = row]
      /\ UNCHANGED <<fixed, queue, textract, request>>
  BY DEF LookupOcr
<1>4. s.pc = next /\ s.cur = consumer[c].cur /\ s.batch = consumer[c].batch
  BY <1>2 DEF ConsumerState
<1>5. row.key = key /\ row.status = db[d].status
      /\ row.manifest = db[d].manifest /\ row.forced = db[d].forced
      /\ row.ext = db[d].ext /\ row.elements = db[d].elements
      /\ row.jobs = [db[d].jobs EXCEPT !["OCR"] = status]
  BY <1>2 DEF DocumentRow
<1>6. /\ row.jobs["PREPROCESS"] = "COMPLETED" /\ row.jobs["OCR"] = status
  <2>1. db[d].jobs \in [PipelineStage -> PipelineJobStatus \cup {NULL}]
        /\ "OCR" \in PipelineStage /\ "PREPROCESS" \in PipelineStage
    BY <1>2 DEF DocumentRow, PipelineStage
  <2> HIDE DEF row, status, s
  <2>. QED BY <1>2, <1>5, <2>1
<1>7. \A n \in DOMAIN textract[d] : key = textract[d][n].token.features
  <2>1. JobsOK(textract[d], db[d])
    BY <1>1, Handling DEF Inv
  <2>2. \A n \in DOMAIN textract[d] :
          textract[d][n].token.features = db[d].key /\ textract[d][n].token.features # NULL
    BY <1>2, <2>1, StateAssumption DEF JobsOK, DocumentOK, BoughtOK
  <2>. QED BY <2>2
<1>8. route # NULL /\ Overrides = {} => TextPages(content[d]) # {}
  <2>1. Overrides = {} => db[d].manifest = content[d].triage
    BY <1>2 DEF DocumentOK, UnforcedOK
  <2>. QED BY <2>1, RouteHasPages DEF TextPages
<1>9. old \in Terminal => status \in Terminal
  BY StateAssumption DEF Terminal, PipelineJobStatus
<1>10. /\ next = "delete" => old \in Terminal
       /\ next = "startOcr" => route # NULL
       /\ next \in {"delete", "skipOcr", "startOcr"}
  BY DEF Terminal
<1> HIDE DEF row, s, next, status, key
<1>11. ReadOK(db[d], textract[d], settings.fake_ocr) => ReadOK(row, textract[d], settings.fake_ocr)
  BY <1>5 DEF ReadOK, NonEmpty
<1>12. DocumentOK(content[d], row, textract[d], settings.fake_ocr)
       /\ Later(db[d], row, textract[d], settings.fake_ocr)
  BY <1>2, <1>5, <1>6, <1>7, <1>11 DEF DocumentOK, UnpreparedOK, BoughtOK, UnforcedOK, Later
<1>13. next = "delete" => RecordedOK(row)
  BY <1>5, <1>6, <1>9, <1>10 DEF RecordedOK
<1>14. HeldOK(c, s, content[d], row, textract[d], settings.fake_ocr)
  <2>1. CASE next \in {"delete", "skipOcr"}
    BY <1>2, <1>4, <1>6, <1>13, <2>1, ReadyOnlyHeld
  <2>2. CASE next = "startOcr"
    <3>1. KindOK(c, s, row, settings.fake_ocr)
      BY <1>2, <1>4, <2>2 DEF KindOK, CompletionPc, OcrOnlyPc
    <3>2. ProgressOK(s, content[d], row, textract[d])
      BY <1>4, <1>6, <2>2 DEF ProgressOK, PreparingPc
    <3>3. MemoryOK(s, content[d], row, textract[d], settings.fake_ocr)
      BY <1>4, <1>8, <1>10, <2>2, WrittenSteps DEF MemoryOK, PagesPc, UnwrittenPc
    <3>. QED BY <3>1, <3>2, <3>3 DEF HeldOK
  <2>. QED BY <1>10, <2>1, <2>2
<1>. QED BY <1>2, <1>3, <1>4, <1>5, <1>12, <1>14, HandlerReading

LEMMA OcrSaves ==
  ASSUME OneReader, Inv, ReadingInv, NEW c \in Consumers,
         SkipOcr(c) \/ FailOcr(c) \/ RefuseOcr(c)
  PROVE  ReadingInv' /\ StaySettled
<1> DEFINE d == Doc(c)
           Saved(status) == [db[d] EXCEPT !.jobs["OCR"] = status]
<1>1. consumer[c].pc \in {"lookupOcr", "skipOcr", "startOcr", "submit", "recordJob", "failOcr",
                          "refuseOcr", "fakeResult", "fakeRecord"}
  BY DEF SkipOcr, FailOcr, RefuseOcr, At
<1>2. /\ consumer[c].pc # "idle" /\ c \in ReadyConsumers /\ c \notin OcrConsumers
      /\ consumer[c].cur.msg.kind = "ready"
      /\ db[d].jobs["PREPROCESS"] = "COMPLETED" /\ db[d] \in DocumentRow /\ RowAlive(c)
      /\ DocumentOK(content[d], db[d], textract[d], settings.fake_ocr)
  BY <1>1, Submission
<1>3. ASSUME NEW status
      PROVE  /\ DocumentOK(content[d], Saved(status), textract[d], settings.fake_ocr)
             /\ Later(db[d], Saved(status), textract[d], settings.fake_ocr)
             /\ Saved(status).status = db[d].status
             /\ Saved(status).jobs["PREPROCESS"] = "COMPLETED"
             /\ status \in Terminal => RecordedOK(Saved(status))
  <2> DEFINE row == Saved(status)
  <2>1. SavedOcr(db[d], row, status)
    BY <1>2, WithOcr
  <2>2. DocumentOK(content[d], db[d], textract[d], settings.fake_ocr)
    BY <1>2
  <2>3. db[d].jobs["PREPROCESS"] = "COMPLETED"
    BY <1>2
  <2> HIDE DEF row
  <2>4. /\ DocumentOK(content[d], row, textract[d], settings.fake_ocr)
        /\ Later(db[d], row, textract[d], settings.fake_ocr)
        /\ row.status = db[d].status /\ row.ext = db[d].ext
        /\ row.jobs["PREPROCESS"] = db[d].jobs["PREPROCESS"] /\ row.jobs["OCR"] = status
        /\ db[d].jobs["PREPROCESS"] = "COMPLETED" /\ status \in Terminal => RecordedOK(row)
    BY <2>1, <2>2, OcrColumn
  <2>. QED BY <2>3, <2>4 DEF row
<1>4. ASSUME NEW status \in Terminal, NEW next \in {"delete", "quarantineDocument"},
             Goto(c, next), db' = [db EXCEPT ![d] = Saved(status)],
             UNCHANGED <<fixed, queue, textract, request>>
      PROVE  ReadingInv' /\ StaySettled
  <2> DEFINE row == Saved(status)
  <2>1. /\ DocumentOK(content[d], row, textract[d], settings.fake_ocr)
        /\ Later(db[d], row, textract[d], settings.fake_ocr)
        /\ row.status = db[d].status /\ row.jobs["PREPROCESS"] = "COMPLETED" /\ RecordedOK(row)
    BY <1>3, <1>4
  <2>2. db' = [db EXCEPT ![d] = row]
    BY <1>4
  <2> HIDE DEF Saved
  <2>3. ASSUME NEW s, s.pc = next, s.cur = consumer[c].cur
        PROVE  HeldOK(c, s, content[d], row, textract[d], settings.fake_ocr)
    BY <1>2, <1>4, <2>1, <2>3, ReadyOnlyHeld
  <2>. QED BY <1>2, <1>4, <2>1, <2>2, <2>3, GotoReading
<1>5. "SKIPPED" \in Terminal /\ "QUARANTINED" \in Terminal
  BY DEF Terminal
<1>6. CASE SkipOcr(c)
  <2>1. Goto(c, "delete") /\ db' = [db EXCEPT ![d] = Saved("SKIPPED")]
        /\ UNCHANGED <<fixed, queue, textract, request>>
    BY <1>2, <1>6 DEF SkipOcr, SaveJob
  <2> HIDE DEF Saved
  <2>. QED BY <1>4, <1>5, <2>1
<1>7. CASE RefuseOcr(c)
  <2>1. Goto(c, "quarantineDocument") /\ db' = [db EXCEPT ![d] = Saved("QUARANTINED")]
        /\ UNCHANGED <<fixed, queue, textract, request>>
    BY <1>2, <1>7 DEF RefuseOcr, SaveJob
  <2> HIDE DEF Saved
  <2>. QED BY <1>4, <1>5, <2>1
<1>8. CASE FailOcr(c)
  <2> DEFINE row == Saved("FAILED")
  <2>1. Raise(c) /\ db' = [db EXCEPT ![d] = row] /\ UNCHANGED <<fixed, queue, textract, request>>
    BY <1>2, <1>8 DEF FailOcr, SaveFailureAndRaise
  <2>2. /\ DocumentOK(content[d], row, textract[d], settings.fake_ocr)
        /\ Later(db[d], row, textract[d], settings.fake_ocr) /\ row.status = db[d].status
    BY <1>3
  <2> HIDE DEF Saved
  <2>. QED BY <1>2, <2>1, <2>2, RaiseReading
<1>. QED BY <1>6, <1>7, <1>8

\* The pages are those routed now, which are triage's when no page is forced.
LEMMA StartOcrReading ==
  ASSUME OneReader, Inv, ReadingInv, NEW c \in Consumers, StartOcr(c)
  PROVE  ReadingInv' /\ StaySettled
<1> DEFINE d == Doc(c)
           pages == PagesRouted(db[d].manifest, TextractRoutes)
           next == IF settings.fake_ocr THEN "fakeResult" ELSE "submit"
           row == [db[d] EXCEPT !.jobs["OCR"] = "STARTED"]
           s == [consumer[c] EXCEPT !.pages = pages, !.pc = next]
<1>1. consumer[c].pc = "startOcr"
  BY DEF StartOcr, At
<1>2. /\ consumer[c].pc # "idle" /\ c \in ReadyConsumers /\ c \notin OcrConsumers
      /\ consumer[c].cur.msg.kind = "ready" /\ RowAlive(c)
      /\ db[d].jobs["PREPROCESS"] = "COMPLETED" /\ db[d].manifest # NULL
      /\ consumer[c] \in ConsumerState /\ db[d] \in DocumentRow
      /\ DocumentOK(content[d], db[d], textract[d], settings.fake_ocr)
  BY <1>1, Submission
<1>3. /\ consumer' = [consumer EXCEPT ![c] = s] /\ db' = [db EXCEPT ![d] = row]
      /\ UNCHANGED <<fixed, queue, textract, request>>
  BY <1>2 DEF StartOcr
<1>4. s.pc = next /\ s.cur = consumer[c].cur /\ s.batch = consumer[c].batch /\ s.pages = pages
  BY <1>2 DEF ConsumerState
<1>5. SavedOcr(db[d], row, "STARTED")
  BY <1>2, WithOcr
<1>6. DocumentOK(content[d], db[d], textract[d], settings.fake_ocr)
  BY <1>2
<1>7. db[d].forced = {} => pages = TextPages(content[d])
  BY <1>2 DEF DocumentOK, UnforcedOK, TextPages
<1>8. Overrides = {} => pages # {}
  BY <1>1, <1>2, <1>7, Knowing DEF MemoryOK, DocumentOK
<1>9. next \in {"fakeResult", "submit"} /\ (next = "fakeResult" => settings.fake_ocr)
  BY DEF next
<1> HIDE DEF row, s, next, pages
<1>10. /\ DocumentOK(content[d], row, textract[d], settings.fake_ocr)
       /\ Later(db[d], row, textract[d], settings.fake_ocr)
       /\ row.status = db[d].status /\ row.ext = db[d].ext
       /\ row.jobs["PREPROCESS"] = db[d].jobs["PREPROCESS"] /\ row.jobs["OCR"] = "STARTED"
       /\ db[d].jobs["PREPROCESS"] = "COMPLETED" /\ "STARTED" \in Terminal => RecordedOK(row)
  BY <1>5, <1>6, OcrColumn
<1>11. row.forced = db[d].forced
  BY <1>5 DEF SavedOcr
<1>12. KindOK(c, s, row, settings.fake_ocr)
  BY <1>2, <1>4, <1>9 DEF KindOK, CompletionPc, OcrOnlyPc
<1>13. ProgressOK(s, content[d], row, textract[d])
  BY <1>2, <1>4, <1>9, <1>10 DEF ProgressOK, PreparingPc
<1>14. MemoryOK(s, content[d], row, textract[d], settings.fake_ocr)
  <2>1. s.pc \notin UnwrittenPc /\ s.pc \notin WrittenPc /\ s.pc \notin {"startOcr", "replaceManifest"}
    BY <1>4, <1>9, WrittenSteps DEF UnwrittenPc
  <2>2. s.pc \in PagesPc \ {"submit"} => NonEmpty(s.pages, settings.fake_ocr)
    BY <1>4, <1>8, <1>9 DEF NonEmpty
  <2>3. row.forced = {} => s.pages = TextPages(content[d])
    BY <1>4, <1>7, <1>11
  <2>. QED BY <2>1, <2>2, <2>3 DEF MemoryOK
<1>15. HeldOK(c, s, content[d], row, textract[d], settings.fake_ocr)
  BY <1>12, <1>13, <1>14 DEF HeldOK
<1>. QED BY <1>2, <1>3, <1>4, <1>10, <1>15, HandlerReading

\* The steps of a submission that write nothing.
LEMMA SubmitReading ==
  ASSUME OneReader, Inv, ReadingInv, NEW c \in Consumers,
         ResumeJob(c) \/ SubmitRaises(c) \/ SubmitTooLarge(c)
  PROVE  ReadingInv' /\ StaySettled
<1>1. ASSUME NEW next \in {"recordJob", "failOcr", "refuseOcr"}, Goto(c, next),
             UNCHANGED <<fixed, db, queue, textract, request>>
      PROVE  ReadingInv' /\ StaySettled
  <2> DEFINE s == [consumer[c] EXCEPT !.pc = next]
  <2>1. consumer[c].pc = "submit" /\ consumer[c].pc # "idle"
    BY DEF ResumeJob, SubmitRaises, SubmitTooLarge, At
  <2>2. consumer[c] \in ConsumerState
    BY <2>1, Knowing
  <2>3. /\ s.pc = next /\ s.cur = consumer[c].cur /\ s.batch = consumer[c].batch
        /\ s.pages = consumer[c].pages
    BY <2>2, MovedTo
  <2>4. consumer' = [consumer EXCEPT ![c] = s]
    BY <1>1 DEF Goto
  <2>5. Onward("submit", next) /\ next # "settle"
    BY WrittenSteps DEF Onward, CompletionPc, OcrOnlyPc, PagesPc, UnwrittenPc
  <2> HIDE DEF s
  <2>. QED BY <1>1, <2>1, <2>3, <2>4, <2>5, OnlyOnwardReading
<1>. QED BY <1>1 DEF ResumeJob, SubmitRaises, SubmitTooLarge

\* record_external_job_id leaves the outcome in the rows before the message goes.
LEMMA RecordJobReading ==
  ASSUME OneReader, Inv, Recording, ReadingInv, NEW c \in Consumers, RecordJob(c)
  PROVE  ReadingInv' /\ StaySettled
<1> DEFINE d == Doc(c)
           row == [db[d] EXCEPT !.ext = consumer[c].ext]
<1>1. consumer[c].pc = "recordJob"
  BY DEF RecordJob, At
<1>2. /\ consumer[c].pc # "idle" /\ c \in ReadyConsumers /\ c \notin OcrConsumers
      /\ consumer[c].cur.msg.kind = "ready" /\ RowAlive(c)
      /\ db[d].jobs["PREPROCESS"] = "COMPLETED" /\ db[d] \in DocumentRow
      /\ DocumentOK(content[d], db[d], textract[d], settings.fake_ocr)
  BY <1>1, Submission
<1>3. consumer[c].ext # NoJob
  BY <1>1, <1>2, Holding DEF HolderOK
<1>4. /\ Goto(c, "delete") /\ db' = [db EXCEPT ![d] = row]
      /\ UNCHANGED <<fixed, queue, textract, request>>
  BY <1>2 DEF RecordJob
<1>5. /\ row.status = db[d].status /\ row.manifest = db[d].manifest /\ row.forced = db[d].forced
      /\ row.key = db[d].key /\ row.ext = consumer[c].ext /\ row.elements = db[d].elements
      /\ row.jobs = db[d].jobs
  BY <1>2 DEF DocumentRow
<1> HIDE DEF row
<1>6. ReadOK(db[d], textract[d], settings.fake_ocr) => ReadOK(row, textract[d], settings.fake_ocr)
  BY <1>5 DEF ReadOK, NonEmpty
<1>7. /\ DocumentOK(content[d], row, textract[d], settings.fake_ocr)
      /\ Later(db[d], row, textract[d], settings.fake_ocr) /\ RecordedOK(row)
  BY <1>2, <1>3, <1>5, <1>6
     DEF DocumentOK, UnpreparedOK, BoughtOK, UnforcedOK, Later, RecordedOK
<1>8. ASSUME NEW s, s.pc = "delete", s.cur = consumer[c].cur
      PROVE  HeldOK(c, s, content[d], row, textract[d], settings.fake_ocr)
  BY <1>2, <1>5, <1>7, <1>8, ReadyOnlyHeld
<1>. QED BY <1>2, <1>4, <1>5, <1>7, <1>8, GotoReading

LEMMA FakeResultReading ==
  ASSUME OneReader, Inv, ReadingInv, NEW c \in Consumers, FakeResult(c)
  PROVE  ReadingInv' /\ StaySettled
<1> DEFINE d == Doc(c)
           row == [db[d] EXCEPT !.result = FakeJob]
           s == [consumer[c] EXCEPT !.pc = "fakeRecord"]
<1>1. consumer[c].pc = "fakeResult" /\ consumer[c].pc # "idle"
  BY DEF FakeResult, At
<1>2. consumer[c] \in ConsumerState /\ db[d] \in DocumentRow
  BY <1>1, Knowing
<1>3. consumer' = [consumer EXCEPT ![c] = s] /\ db' = [db EXCEPT ![d] = row]
      /\ UNCHANGED <<fixed, queue, textract, request>>
  BY DEF FakeResult, Goto
<1>4. /\ s.pc = "fakeRecord" /\ s.cur = consumer[c].cur /\ s.batch = consumer[c].batch
      /\ s.pages = consumer[c].pages
  BY <1>2, MovedTo
<1>5. SameReading(db[d], row)
  BY <1>2 DEF DocumentRow, SameReading
<1>6. Onward("fakeResult", "fakeRecord")
  BY WrittenSteps DEF Onward, CompletionPc, OcrOnlyPc, PagesPc, UnwrittenPc
<1> HIDE DEF row, s
<1>. QED BY <1>1, <1>3, <1>4, <1>5, <1>6, OnwardReading

LEMMA FakeRecordReading ==
  ASSUME OneReader, Inv, Recording, ReadingInv, NEW c \in Consumers, FakeRecord(c)
  PROVE  ReadingInv' /\ StaySettled
<1> DEFINE d == Doc(c)
           row == [db[d] EXCEPT !.ext = FakeJob]
<1>1. consumer[c].pc = "fakeRecord"
  BY DEF FakeRecord, At
<1>2. /\ consumer[c].pc # "idle" /\ c \in ReadyConsumers /\ c \notin OcrConsumers
      /\ consumer[c].cur.msg.kind = "ready" /\ RowAlive(c)
      /\ db[d].jobs["PREPROCESS"] = "COMPLETED" /\ db[d] \in DocumentRow
      /\ DocumentOK(content[d], db[d], textract[d], settings.fake_ocr)
  BY <1>1, Submission
<1>3. settings.fake_ocr /\ textract[d] = << >>
  BY <1>1, <1>2, Holding DEF HolderOK, DocumentOK, BoughtOK
<1>4. /\ Goto(c, "completeOcr") /\ db' = [db EXCEPT ![d] = row]
      /\ UNCHANGED <<fixed, queue, textract, request>>
  BY <1>2 DEF FakeRecord
<1>5. /\ row.status = db[d].status /\ row.manifest = db[d].manifest /\ row.forced = db[d].forced
      /\ row.key = db[d].key /\ row.ext = FakeJob /\ row.elements = db[d].elements
      /\ row.jobs = db[d].jobs
  BY <1>2 DEF DocumentRow
<1> HIDE DEF row
<1>6. FakeJob # NoJob
  BY StateAssumption DEF FakeJob, NoJob
<1>7. ReadOK(db[d], textract[d], settings.fake_ocr) => ReadOK(row, textract[d], settings.fake_ocr)
  BY <1>5 DEF ReadOK, NonEmpty
<1>8. DocumentOK(content[d], row, textract[d], settings.fake_ocr)
  BY <1>2, <1>5, <1>7 DEF DocumentOK, UnpreparedOK, BoughtOK, UnforcedOK
<1>9. MemoryOK(consumer[c], content[d], db[d], textract[d], settings.fake_ocr)
  BY <1>2, Knowing
<1>10. ASSUME NEW s, s.pc = "completeOcr", s.cur = consumer[c].cur, s.pages = consumer[c].pages
       PROVE  HeldOK(c, s, content[d], row, textract[d], settings.fake_ocr)
  <2>1. KindOK(c, s, row, settings.fake_ocr)
    BY <1>2, <1>3, <1>5, <1>6, <1>10 DEF KindOK, OcrOnlyPc
  <2>2. ProgressOK(s, content[d], row, textract[d])
    BY <1>2, <1>5, <1>10 DEF ProgressOK, PreparingPc
  <2>3. s.pc \in PagesPc \ {"submit"} /\ s.pc \notin WrittenPc
        /\ consumer[c].pc \in PagesPc \ {"submit"}
    BY <1>1, <1>10, WrittenSteps DEF PagesPc
  <2>4. \A n \in DOMAIN textract[d] : s.pages = textract[d][n].pages
    BY <1>3
  <2>5. MemoryOK(s, content[d], row, textract[d], settings.fake_ocr)
    BY <1>5, <1>9, <1>10, <2>3, <2>4 DEF MemoryOK
  <2>. QED BY <2>1, <2>2, <2>5 DEF HeldOK
<1>. QED BY <1>2, <1>3, <1>4, <1>5, <1>8, <1>10, GotoReading

\* What a submission buys for a document that has no job.
FirstJob(c, jobs) ==
  /\ textract[Doc(c)] = << >> /\ DOMAIN jobs = {1} /\ jobs # << >>
  /\ jobs[1].token.features = consumer[c].key
  /\ jobs[1].pages = consumer[c].pages /\ consumer[c].pages # {}

\* The handler goes on with the reply, or with its loss.
Answered(c, s) ==
  /\ s.pc \in {"recordJob", "failOcr"}
  /\ s.cur = consumer[c].cur /\ s.batch = consumer[c].batch

\* Nobody else handles the document then, and nothing was read.
LEMMA FirstJobReading ==
  ASSUME OneReader, Inv, Recording, ReadingInv, NEW c \in Consumers, consumer[c].pc = "submit",
         NEW jobs, FirstJob(c, jobs),
         textract' = [textract EXCEPT ![Doc(c)] = jobs],
         NEW s, Answered(c, s), consumer' = [consumer EXCEPT ![c] = s],
         UNCHANGED <<fixed, db, queue, request>>
  PROVE  ReadingInv' /\ StaySettled
<1> DEFINE d == Doc(c)
<1>0. /\ textract[d] = << >> /\ DOMAIN jobs = {1} /\ jobs # << >>
      /\ jobs[1].token.features = consumer[c].key
      /\ jobs[1].pages = consumer[c].pages /\ consumer[c].pages # {}
      /\ s.pc \in {"recordJob", "failOcr"}
      /\ s.cur = consumer[c].cur /\ s.batch = consumer[c].batch
  BY DEF FirstJob, Answered
<1>1. /\ consumer[c].pc # "idle" /\ c \in ReadyConsumers /\ c \notin OcrConsumers
      /\ consumer[c].cur.msg.kind = "ready" /\ RowAlive(c)
      /\ db[d].jobs["PREPROCESS"] = "COMPLETED"
      /\ DocumentOK(content[d], db[d], textract[d], settings.fake_ocr)
  BY Submission
<1>2. d \in Docs /\ UNCHANGED <<content, settings>>
      /\ MemoryOK(consumer[c], content[d], db[d], textract[d], settings.fake_ocr)
  BY <1>1, Knowing DEF fixed
<1>3. ~settings.fake_ocr /\ db[d].key = consumer[c].key
  BY <1>1, Holding DEF HolderOK, HoldingPc, RowAlive
<1>4. textract'[d] = jobs /\ \A e \in Docs : e # d => textract'[e] = textract[e]
  BY <1>2 DEF Inv, TypeOK
<1>5. consumer'[c] = s /\ \A e \in Consumers : e # c => consumer'[e] = consumer[e]
  BY DEF Inv, TypeOK
<1>7. DocumentOK(content[d], db[d], jobs, settings.fake_ocr)
  <2>1. db[d].elements = {}
    BY <1>0, <1>1, <1>3 DEF DocumentOK, BoughtOK
  <2>2. db[d].status # "PROCESSED"
    BY <1>1, <1>3, <2>1 DEF DocumentOK, ReadOK, NonEmpty
  <2>3. UnpreparedOK(content[d], db[d], jobs)
    BY <1>1 DEF UnpreparedOK
  <2>4. BoughtOK(db[d], jobs, settings.fake_ocr)
    BY <1>0, <1>3 DEF BoughtOK
  <2>5. db[d].forced = {} => jobs[1].pages = TextPages(content[d])
    BY <1>0, <1>2 DEF MemoryOK, PagesPc
  <2>6. UnforcedOK(content[d], db[d], jobs)
    BY <1>0, <1>1, <2>5 DEF DocumentOK, UnforcedOK
  <2>. QED BY <1>1, <2>2, <2>3, <2>4, <2>6 DEF DocumentOK
<1>8. ASSUME NEW e \in Docs PROVE Document(e)'
  <2>1. CASE e = d
    BY <1>2, <1>4, <1>7, <2>1 DEF Document
  <2>2. CASE e # d
    BY <1>2, <1>4, <2>2 DEF Document, ReadingInv
  <2>. QED BY <2>1, <2>2
<1>9. ASSUME NEW e \in Consumers PROVE Held(e)' /\ BatchOK(e, consumer[e])'
  <2>1. CASE e = c
    <3>1. HeldOK(c, s, content[d], db[d], jobs, settings.fake_ocr)
      BY <1>0, <1>1, ReadyOnlyHeld
    <3>2. Held(c)'
      BY <1>0, <1>2, <1>4, <1>5, <3>1 DEF Held, Doc
    <3>3. BatchOK(c, s)
      BY <1>0, <1>1 DEF ReadingInv, BatchOK
    <3>. QED BY <1>5, <2>1, <3>2, <3>3
  <2>2. CASE e # c
    <3>1. consumer'[e] = consumer[e] /\ Doc(e)' = Doc(e) /\ Held(e) /\ BatchOK(e, consumer[e])
      BY <1>5, <2>2 DEF Doc, ReadingInv
    <3>2. CASE consumer[e].pc = "idle"
      BY <3>1, <3>2 DEF Held, HeldOK
    <3>3. CASE consumer[e].pc # "idle"
      <4>1. Doc(e) \in Docs /\ Doc(e) # d
        BY <1>0, <1>1, <2>2, <3>3, Handling, HandlersApart
      <4>. QED BY <1>2, <1>4, <3>1, <4>1 DEF Held
    <3>. QED BY <3>2, <3>3
  <2>. QED BY <2>1, <2>2
<1>10. ASSUME NEW m \in Messages
       PROVE  (/\ AcknowledgedOK(m, queue[m], db[m.doc])
               /\ m.kind = "ready" /\ queue[m].at = "deleted" =>
                    \A e \in Consumers : NotWith(consumer[e], m))'
  <2>1. /\ AcknowledgedOK(m, queue[m], db[m.doc])
        /\ m.kind = "ready" /\ queue[m].at = "deleted" =>
             \A e \in Consumers : NotWith(consumer[e], m)
    BY DEF ReadingInv
  <2>. QED BY <1>0, <1>1, <1>5, <2>1 DEF NotWith
<1>11. \A r \in Requests : request'[r].pc # "reprocess"
  BY DEF ReadingInv
<1>. QED BY <1>8, <1>9, <1>10, <1>11 DEF ReadingInv, StaySettled

\* Textract knows the token of a document that has a job, so it has no second one.
LEMMA SubmitJobReading ==
  ASSUME OneReader, Inv, Recording, ReadingInv, NEW c \in Consumers, SubmitJob(c)
  PROVE  ReadingInv' /\ StaySettled
<1> DEFINE d == Doc(c)
           token == Token(d, consumer[c].key)
           job == [token |-> token, api |-> consumer[c].route, pages |-> consumer[c].pages,
                   epoch |-> consumer[c].row, state |-> "IN_PROGRESS"]
           memory(ext) == [consumer[c] EXCEPT !.ext = ext, !.pc = "recordJob"]
           refused == [consumer[c] EXCEPT !.pc = "failOcr"]
           jobs == Append(textract[d], job)
<1>1. /\ consumer[c].pc = "submit" /\ consumer[c].pc # "idle" /\ consumer[c].pages # {}
      /\ UNCHANGED <<fixed, db, queue, request>>
  BY DEF SubmitJob, At, CanSubmit
<1>2. /\ consumer[c] \in ConsumerState /\ d \in Docs /\ RowAlive(c)
      /\ DocumentOK(content[d], db[d], textract[d], settings.fake_ocr)
  BY <1>1, Knowing
<1>3. /\ refused.pc = "failOcr" /\ refused.cur = consumer[c].cur
      /\ refused.batch = consumer[c].batch /\ refused.pages = consumer[c].pages
  BY <1>2, MovedTo
<1>4. ASSUME NEW ext
      PROVE  /\ memory(ext).pc = "recordJob" /\ memory(ext).cur = consumer[c].cur
             /\ memory(ext).batch = consumer[c].batch /\ memory(ext).pages = consumer[c].pages
  BY <1>2 DEF ConsumerState
<1>5. Started(d, token) = {} => textract[d] = << >>
  <2>1. db[d].key = consumer[c].key
    BY <1>1, <1>2, Holding DEF HolderOK, HoldingPc, RowAlive
  <2>2. textract[d] \in Seq(TextractJob) /\ JobsOK(textract[d], db[d])
    <3>1. textract \in [Docs -> Seq(TextractJob)]
          /\ \A e \in Docs : JobsOK(textract[e], db[e])
      BY DEF Inv, TypeOK
    <3>2. d \in Docs
      BY <1>2
    <3>. QED BY <3>1, <3>2
  <2>3. ASSUME NEW n \in DOMAIN textract[d] PROVE textract[d][n].token = token
    <3>0. textract[d][n] \in TextractJob
      BY <2>2
    <3>1. textract[d][n].token \in TextractToken
      BY <3>0 DEF TextractJob
    <3>2. textract[d][n].token.features = consumer[c].key /\ textract[d][n].token.nonce = 0
      BY <1>2, <2>1, <2>2 DEF DocumentOK, BoughtOK, JobsOK
    <3>. QED BY <3>1, <3>2 DEF TextractToken, Token
  <2>4. textract[d] # << >> => 1 \in DOMAIN textract[d]
    BY <2>2
  <2> HIDE DEF token
  <2>. QED BY <2>3, <2>4 DEF Started
<1>6. job.token.features = consumer[c].key /\ job.pages = consumer[c].pages
  BY DEF Token
<1>7. /\ Onward("submit", "recordJob") /\ Onward("submit", "failOcr")
  BY WrittenSteps DEF Onward, CompletionPc, OcrOnlyPc, PagesPc, UnwrittenPc
<1>8. \/ /\ UNCHANGED textract
         /\ \/ consumer' = [consumer EXCEPT ![c] = refused]
            \/ \E n \in Started(d, token) : consumer' = [consumer EXCEPT ![c] = memory(n)]
      \/ /\ Started(d, token) = {}
         /\ textract' = [textract EXCEPT ![d] = jobs]
         /\ \/ consumer' = [consumer EXCEPT ![c] = memory(Len(textract[d]) + 1)]
            \/ consumer' = [consumer EXCEPT ![c] = refused]
  BY DEF SubmitJob, Goto
<1>9. textract[d] = << >> => DOMAIN jobs = {1} /\ jobs # << >> /\ jobs[1] = job
  <2> HIDE DEF job
  <2>. QED OBVIOUS
<1> HIDE DEF refused, memory, job, token, jobs
<1>10. ASSUME UNCHANGED textract, consumer' = [consumer EXCEPT ![c] = refused]
       PROVE  ReadingInv' /\ StaySettled
  BY <1>1, <1>3, <1>7, <1>10, OnlyOnwardReading
<1>11. ASSUME UNCHANGED textract, NEW n, consumer' = [consumer EXCEPT ![c] = memory(n)]
       PROVE  ReadingInv' /\ StaySettled
  <2> DEFINE s == memory(n)
  <2>1. /\ s.pc = "recordJob" /\ s.cur = consumer[c].cur /\ s.batch = consumer[c].batch
        /\ s.pages = consumer[c].pages /\ consumer' = [consumer EXCEPT ![c] = s]
    BY <1>4, <1>11
  <2> HIDE DEF s
  <2>. QED BY <1>1, <1>7, <1>11, <2>1, OnlyOnwardReading
<1>12. ASSUME Started(d, token) = {},
              textract' = [textract EXCEPT ![d] = jobs],
              NEW s, Answered(c, s), consumer' = [consumer EXCEPT ![c] = s]
       PROVE  ReadingInv' /\ StaySettled
  <2>1. FirstJob(c, jobs)
    BY <1>1, <1>5, <1>6, <1>9, <1>12 DEF FirstJob
  <2>2. textract' = [textract EXCEPT ![d] = jobs]
    BY <1>12
  <2>3. consumer[c].pc = "submit"
        /\ UNCHANGED <<fixed, db, queue, request>>
    BY <1>1
  <2>4. Answered(c, s) /\ consumer' = [consumer EXCEPT ![c] = s]
    BY <1>12
  <2>. QED BY <2>1, <2>2, <2>3, <2>4, FirstJobReading
<1>13. CASE Started(d, token) = {} /\ textract' = [textract EXCEPT ![d] = jobs]
  <2>1. CASE consumer' = [consumer EXCEPT ![c] = memory(Len(textract[d]) + 1)]
    <3> DEFINE s == memory(Len(textract[d]) + 1)
    <3>1. Answered(c, s)
      BY <1>4 DEF Answered
    <3>2. consumer' = [consumer EXCEPT ![c] = s]
      BY <2>1
    <3> HIDE DEF s
    <3>. QED BY <1>12, <1>13, <3>1, <3>2
  <2>2. CASE consumer' = [consumer EXCEPT ![c] = refused]
    <3>1. Answered(c, refused)
      BY <1>3 DEF Answered
    <3>. QED BY <1>12, <1>13, <2>2, <3>1
  <2>3. CASE UNCHANGED textract
    BY <1>8, <1>10, <1>11, <2>1, <2>2, <2>3
  <2>. QED BY <1>8, <2>1, <2>2, <2>3
<1>. QED BY <1>8, <1>10, <1>11, <1>13

(***************************************************************************)
(* The loops and the queues.                                               *)
(***************************************************************************)
LEMMA LoopReading ==
  ASSUME Inv, ReadingInv, NEW c \in Consumers, NEW s, consumer' = [consumer EXCEPT ![c] = s],
         UNCHANGED <<fixed, db, textract, request>>,
         HeldOK(c, s, content[s.cur.msg.doc], db[s.cur.msg.doc], textract[s.cur.msg.doc],
                settings.fake_ocr),
         BatchOK(c, s),
         \A m \in Messages : AcknowledgedOK(m, queue'[m], db[m.doc]),
         \A m \in Messages : m.kind = "ready" /\ queue'[m].at = "deleted" =>
           NotWith(s, m) /\ \A e \in Consumers \ {c} : NotWith(consumer[e], m)
  PROVE  ReadingInv' /\ StaySettled
<1>1. consumer'[c] = s /\ \A e \in Consumers : e # c => consumer'[e] = consumer[e]
  BY DEF Inv, TypeOK
<1>2. UNCHANGED <<content, settings>>
  BY DEF fixed
<1>3. \A d \in Docs : Document(d)'
  BY <1>2 DEF ReadingInv, Document
<1>4. ASSUME NEW e \in Consumers PROVE Held(e)' /\ BatchOK(e, consumer[e])'
  <2>1. CASE e = c
    BY <1>1, <1>2, <2>1 DEF Held, Doc
  <2>2. CASE e # c
    <3>1. Held(e) /\ BatchOK(e, consumer[e])
      BY DEF ReadingInv
    <3>. QED BY <1>1, <1>2, <2>2, <3>1 DEF Held, Doc
  <2>. QED BY <2>1, <2>2
<1>5. ASSUME NEW m \in Messages, m.kind = "ready", queue'[m].at = "deleted", NEW e \in Consumers
      PROVE  NotWith(consumer'[e], m)
  <2>1. CASE e = c
    BY <1>1, <1>5, <2>1
  <2>2. CASE e # c
    BY <1>1, <1>5, <2>2
  <2>. QED BY <2>1, <2>2
<1>6. \A r \in Requests : request'[r].pc # "reprocess"
  BY DEF ReadingInv
<1>. QED BY <1>3, <1>4, <1>5, <1>6 DEF ReadingInv, StaySettled

\* The handler ends, or is cut short, without an acknowledgement.
LEMMA LeaveReading ==
  ASSUME Inv, ReadingInv, NEW c \in Consumers, NEW batch \in SUBSET consumer[c].batch,
         consumer' = [consumer EXCEPT ![c] = Idle(batch)],
         UNCHANGED <<fixed, db, queue, textract, request>>
  PROVE  ReadingInv' /\ StaySettled
<1> DEFINE s == Idle(batch)
<1>1. s.pc = "idle" /\ s.batch = batch
  BY DEF Idle
<1>2. consumer' = [consumer EXCEPT ![c] = s]
  OBVIOUS
<1> HIDE DEF s
<1>3. BatchOK(c, consumer[c])
  BY DEF ReadingInv
<1>4. BatchOK(c, s)
  BY <1>1, <1>3 DEF BatchOK
<1>5. HeldOK(c, s, content[s.cur.msg.doc], db[s.cur.msg.doc], textract[s.cur.msg.doc],
             settings.fake_ocr)
  BY <1>1 DEF HeldOK
<1>6. \A m \in Messages : AcknowledgedOK(m, queue'[m], db[m.doc])
  BY DEF ReadingInv
<1>7. ASSUME NEW m \in Messages, m.kind = "ready", queue'[m].at = "deleted"
      PROVE  NotWith(s, m) /\ \A e \in Consumers \ {c} : NotWith(consumer[e], m)
  <2>1. \A e \in Consumers : NotWith(consumer[e], m)
    BY <1>7 DEF ReadingInv
  <2>. QED BY <1>1, <2>1 DEF NotWith
<1>. QED BY <1>2, <1>4, <1>5, <1>6, <1>7, LoopReading

LEMMA CrashReading ==
  ASSUME Inv, ReadingInv, NEW c \in Consumers, Crash(c)
  PROVE  ReadingInv' /\ StaySettled
<1>1. PICK batch \in {{}, consumer[c].batch} : consumer' = [consumer EXCEPT ![c] = Idle(batch)]
  BY DEF Crash, Raise
<1>2. batch \in SUBSET consumer[c].batch /\ UNCHANGED <<fixed, db, queue, textract, request>>
  BY DEF Crash
<1>. QED BY <1>1, <1>2, LeaveReading

LEMMA ReceiveReading ==
  ASSUME Inv, ReadingInv, NEW c \in Consumers, Receive(c)
  PROVE  ReadingInv' /\ StaySettled
<1>1. PICK taken \in SUBSET Visible(c) :
        /\ queue' = [m \in Messages |->
             IF m \in taken THEN [queue[m] EXCEPT !.at = "inflight", !.rc = @ + 1] ELSE queue[m]]
        /\ consumer' = [consumer EXCEPT ![c].batch =
             {[msg |-> m, receipt |-> queue[m].rc + 1] : m \in taken}]
  BY DEF Receive
<1> DEFINE batch == {[msg |-> m, receipt |-> queue[m].rc + 1] : m \in taken}
           s == [consumer[c] EXCEPT !.batch = batch]
<1>2. consumer' = [consumer EXCEPT ![c] = s]
  BY <1>1
<1>3. consumer[c] \in ConsumerState /\ consumer[c].pc = "idle"
      /\ UNCHANGED <<fixed, db, textract, request>>
  BY DEF Receive, Inv, TypeOK
<1>4. \A x \in batch : x.msg \in taken /\ x.receipt = queue[x.msg].rc + 1
      /\ x = [msg |-> x.msg, receipt |-> x.receipt]
  OBVIOUS
<1>5. s.pc = "idle" /\ s.batch = batch
  BY <1>3 DEF ConsumerState
<1> HIDE DEF s, batch
<1>6. \A m \in taken : ListensTo(c, m) /\ m \in Messages
  BY DEF Visible
<1>7. \A x, y \in batch : x.msg = y.msg => x = y
  BY <1>4
<1>8. BatchOK(c, s)
  BY <1>4, <1>5, <1>6, <1>7 DEF BatchOK
<1>9. HeldOK(c, s, content[s.cur.msg.doc], db[s.cur.msg.doc], textract[s.cur.msg.doc],
             settings.fake_ocr)
  BY <1>5 DEF HeldOK
<1>10. \A m \in Messages : queue'[m].at = "deleted" => queue[m].at = "deleted" /\ m \notin taken
  <2>1. \A m \in Messages : queue[m] \in QueueEntry
    BY DEF Inv, TypeOK
  <2>. QED BY <1>1, <2>1 DEF QueueEntry
<1>11. ASSUME NEW m \in Messages PROVE AcknowledgedOK(m, queue'[m], db[m.doc])
  <2>1. AcknowledgedOK(m, queue[m], db[m.doc])
    BY DEF ReadingInv
  <2>. QED BY <1>10, <2>1 DEF AcknowledgedOK
<1>12. ASSUME NEW m \in Messages, m.kind = "ready", queue'[m].at = "deleted"
       PROVE  NotWith(s, m) /\ \A e \in Consumers \ {c} : NotWith(consumer[e], m)
  <2>1. \A e \in Consumers : NotWith(consumer[e], m)
    BY <1>10, <1>12 DEF ReadingInv
  <2>2. NotWith(s, m)
    BY <1>4, <1>5, <1>10, <1>12 DEF NotWith
  <2>. QED BY <2>1, <2>2
<1>. QED BY <1>2, <1>3, <1>8, <1>9, <1>11, <1>12, LoopReading

\* A completion that was delivered has a job, so its document was preprocessed.
LEMMA BeginReading ==
  ASSUME Inv, ReadingInv, NEW c \in Consumers, Begin(c)
  PROVE  ReadingInv' /\ StaySettled
<1>1. PICK delivery \in consumer[c].batch :
        consumer' = [consumer EXCEPT
          ![c].batch = @ \ {delivery},
          ![c].cur = delivery,
          ![c].pc = IF delivery.msg.kind = "ready" THEN "lookupPreprocess"
                                                   ELSE "lookupCompleted"]
  BY DEF Begin
<1> DEFINE m == delivery.msg
           d == m.doc
           rest == consumer[c].batch \ {delivery}
           next == IF m.kind = "ready" THEN "lookupPreprocess" ELSE "lookupCompleted"
           s == [consumer[c] EXCEPT !.batch = rest, !.cur = delivery, !.pc = next]
<1>2. consumer' = [consumer EXCEPT ![c] = s]
  BY <1>1
<1>3. /\ consumer[c] \in ConsumerState /\ consumer[c].pc = "idle"
      /\ BatchOK(c, consumer[c]) /\ StateOK(consumer[c], content, queue, db)
      /\ UNCHANGED <<fixed, db, queue, textract, request>>
  BY DEF Begin, Inv, TypeOK, ReadingInv
<1>4. s.pc = next /\ s.cur = delivery /\ s.batch = rest
  BY <1>3 DEF ConsumerState
<1>5. ListensTo(c, m) /\ m \in Messages /\ d \in Docs /\ queue[m].at # "none"
      /\ m.kind \in {"ready", "completed"}
  BY <1>3 DEF BatchOK, StateOK, ConsumerState, Delivery, Messages
<1> HIDE DEF s
<1>6. BatchOK(c, s)
  BY <1>3, <1>4 DEF BatchOK
<1>7. HeldOK(c, s, content[d], db[d], textract[d], settings.fake_ocr)
  <2>1. m.kind = "completed" => db[d].jobs["PREPROCESS"] = "COMPLETED"
    <3> SUFFICES ASSUME m.kind = "completed" PROVE db[d].jobs["PREPROCESS"] = "COMPLETED"
      OBVIOUS
    <3>1. m.n \in DOMAIN textract[d]
      BY <1>5 DEF Inv, EntryOK
    <3>2. textract[d] # << >>
      BY <3>1
    <3>3. Document(d)
      BY <1>5 DEF ReadingInv
    <3>. QED BY <3>2, <3>3 DEF Document, DocumentOK, UnpreparedOK
  <2>2. KindOK(c, s, db[d], settings.fake_ocr)
    <3>1. CASE c \in ReadyConsumers
      <4>1. m.kind = "ready" /\ c \notin OcrConsumers
        BY <1>5, <3>1, StateAssumption DEF ListensTo
      <4>2. s.pc = "lookupPreprocess" /\ s.pc \notin CompletionPc /\ s.pc \notin OcrOnlyPc
        BY <1>4, <4>1 DEF CompletionPc, OcrOnlyPc
      <4>. QED BY <1>4, <4>1, <4>2 DEF KindOK
    <3>2. CASE c \notin ReadyConsumers
      <4>1. m.kind = "completed"
        BY <1>5, <3>2 DEF ListensTo
      <4>2. s.pc = "lookupCompleted" /\ s.pc \in CompletionPc
        BY <1>4, <4>1 DEF CompletionPc
      <4>. QED BY <1>4, <3>2, <4>1, <4>2 DEF KindOK
    <3>. QED BY <3>1, <3>2
  <2>3. ProgressOK(s, content[d], db[d], textract[d])
    BY <1>4, <1>5, <2>1 DEF ProgressOK, PreparingPc
  <2>4. s.pc \notin PagesPc /\ s.pc \notin UnwrittenPc /\ s.pc \notin WrittenPc
        /\ s.pc \notin {"startOcr", "replaceManifest"}
    BY <1>4, WrittenSteps DEF PagesPc, UnwrittenPc
  <2>5. MemoryOK(s, content[d], db[d], textract[d], settings.fake_ocr)
    BY <2>4 DEF MemoryOK
  <2>. QED BY <2>2, <2>3, <2>5 DEF HeldOK
<1>8. \A o \in Messages : AcknowledgedOK(o, queue'[o], db[o.doc])
  BY <1>3 DEF ReadingInv
<1>9. ASSUME NEW o \in Messages, o.kind = "ready", queue'[o].at = "deleted"
      PROVE  NotWith(s, o) /\ \A e \in Consumers \ {c} : NotWith(consumer[e], o)
  <2>1. \A e \in Consumers : NotWith(consumer[e], o)
    BY <1>3, <1>9 DEF ReadingInv
  <2>2. NotWith(s, o)
    BY <1>4, <2>1 DEF NotWith
  <2>. QED BY <2>1, <2>2
<1>. QED BY <1>2, <1>3, <1>4, <1>6, <1>7, <1>8, <1>9, LoopReading

\* The handler acknowledges what it leaves in the rows; no other loop of one
\* process has the same DocumentReady message.
LEMMA DeleteReading ==
  ASSUME OneReader, Inv, ReadingInv, NEW c \in Consumers, DeleteMessage(c)
  PROVE  ReadingInv' /\ StaySettled
<1> DEFINE m == consumer[c].cur.msg
           s == Idle(consumer[c].batch)
<1>1. /\ consumer[c].pc = "delete" /\ consumer[c].pc # "idle"
      /\ consumer' = [consumer EXCEPT ![c] = s]
      /\ UNCHANGED <<fixed, db, textract, request>>
  BY DEF DeleteMessage
<1>2. /\ m \in Messages /\ Doc(c) = m.doc
      /\ KindOK(c, consumer[c], db[Doc(c)], settings.fake_ocr)
      /\ ProgressOK(consumer[c], content[Doc(c)], db[Doc(c)], textract[Doc(c)])
  BY <1>1, Handling, Knowing DEF Doc
<1>3. \A o \in Messages : queue'[o].at = "deleted" => queue[o].at = "deleted" \/ o = m
  <2>1. queue \in [Messages -> QueueEntry]
    BY DEF Inv, TypeOK
  <2>2. queue' = [queue EXCEPT ![m].at = "deleted"] \/ queue' = queue
    BY DEF DeleteMessage
  <2>. QED BY <2>1, <2>2
<1>4. s.pc = "idle" /\ s.batch = consumer[c].batch
  BY DEF Idle
<1> HIDE DEF s
<1>5. BatchOK(c, consumer[c])
  BY DEF ReadingInv
<1>6. BatchOK(c, s)
  BY <1>4, <1>5 DEF BatchOK
<1>7. HeldOK(c, s, content[s.cur.msg.doc], db[s.cur.msg.doc], textract[s.cur.msg.doc],
             settings.fake_ocr)
  BY <1>4 DEF HeldOK
<1>8. ASSUME NEW o \in Messages PROVE AcknowledgedOK(o, queue'[o], db[o.doc])
  <2>1. AcknowledgedOK(o, queue[o], db[o.doc])
    BY DEF ReadingInv
  <2>2. o = m => IF o.kind = "ready" THEN RecordedOK(db[o.doc]) ELSE db[o.doc].status \in Settled
    BY <1>1, <1>2 DEF ProgressOK
  <2>. QED BY <1>3, <2>1, <2>2 DEF AcknowledgedOK
<1>9. ASSUME NEW o \in Messages, o.kind = "ready", queue'[o].at = "deleted"
      PROVE  NotWith(s, o) /\ \A e \in Consumers \ {c} : NotWith(consumer[e], o)
  <2>1. CASE queue[o].at = "deleted"
    <3>1. \A e \in Consumers : NotWith(consumer[e], o)
      BY <1>9, <2>1 DEF ReadingInv
    <3>. QED BY <1>4, <3>1 DEF NotWith
  <2>2. CASE o = m
    <3>1. NotWith(s, o)
      BY <1>1, <1>4, <1>5, <2>2 DEF NotWith, BatchOK
    <3>2. c \in ReadyConsumers
      BY <1>1, <1>2, <1>9, <2>2 DEF KindOK, Consumers
    <3>3. ASSUME NEW e \in Consumers, e # c PROVE NotWith(consumer[e], o)
      <4>1. e \notin ReadyConsumers /\ e \in OcrConsumers
        BY <3>2, <3>3 DEF OneReader, Consumers
      <4>2. BatchOK(e, consumer[e]) /\ Held(e)
        BY DEF ReadingInv
      <4>3. \A x \in consumer[e].batch : x.msg # o
        BY <1>9, <4>1, <4>2 DEF BatchOK, ListensTo
      <4>4. consumer[e].pc # "idle" => consumer[e].cur.msg # o
        BY <1>9, <4>1, <4>2 DEF Held, HeldOK, KindOK
      <4>. QED BY <4>3, <4>4 DEF NotWith
    <3>. QED BY <3>1, <3>3
  <2>. QED BY <1>3, <1>9, <2>1, <2>2
<1>. QED BY <1>1, <1>4, <1>6, <1>7, <1>8, <1>9, LoopReading

\* The queues alone: nothing is acknowledged.
LEMMA QueueReading ==
  ASSUME ReadingInv, UNCHANGED <<fixed, db, textract, consumer>>,
         \A m \in Messages : queue'[m].at = "deleted" => queue[m].at = "deleted",
         \A r \in Requests : request'[r].pc # "reprocess"
  PROVE  ReadingInv' /\ StaySettled
<1>1. UNCHANGED <<content, settings>>
  BY DEF fixed
<1>2. \A d \in Docs : Document(d)'
  BY <1>1 DEF ReadingInv, Document
<1>3. \A c \in Consumers : (Held(c) /\ BatchOK(c, consumer[c]))'
  BY <1>1 DEF ReadingInv, Held, Doc
<1>4. ASSUME NEW m \in Messages
      PROVE  (/\ AcknowledgedOK(m, queue[m], db[m.doc])
              /\ m.kind = "ready" /\ queue[m].at = "deleted" =>
                   \A c \in Consumers : NotWith(consumer[c], m))'
  BY DEF ReadingInv, AcknowledgedOK
<1>. QED BY <1>2, <1>3, <1>4 DEF ReadingInv, StaySettled

LEMMA ExpireReading ==
  ASSUME Inv, ReadingInv, NEW m \in Messages, Expire(m)
  PROVE  ReadingInv' /\ StaySettled
<1>1. queue \in [Messages -> QueueEntry]
  BY DEF Inv, TypeOK
<1>2. UNCHANGED <<fixed, db, textract, consumer, request>>
  BY DEF Expire
<1>3. ASSUME NEW o \in Messages, queue'[o].at = "deleted" PROVE queue[o].at = "deleted"
  BY <1>1, <1>3 DEF Expire, QueueEntry
<1>4. \A r \in Requests : request'[r].pc # "reprocess"
  BY <1>2 DEF ReadingInv
<1>. QED BY <1>2, <1>3, <1>4, QueueReading

\* Only the state of a job changes when Textract ends it.
SameJobs(jobs, new) ==
  /\ DOMAIN new = DOMAIN jobs /\ (new = << >> <=> jobs = << >>)
  /\ \A n \in DOMAIN jobs : /\ new[n].token.features = jobs[n].token.features
                            /\ new[n].pages = jobs[n].pages

LEMMA SameJobsOK ==
  ASSUME NEW file, NEW row, NEW jobs, NEW new, NEW fake, SameJobs(jobs, new)
  PROVE  /\ DocumentOK(file, row, jobs, fake) => DocumentOK(file, row, new, fake)
         /\ \A c, s : HeldOK(c, s, file, row, jobs, fake) => HeldOK(c, s, file, row, new, fake)
<1>1. ReadOK(row, jobs, fake) => ReadOK(row, new, fake)
  BY DEF SameJobs, ReadOK
<1>2. UnpreparedOK(file, row, jobs) => UnpreparedOK(file, row, new)
  BY DEF SameJobs, UnpreparedOK
<1>3. BoughtOK(row, jobs, fake) => BoughtOK(row, new, fake)
  BY DEF SameJobs, BoughtOK
<1>4. UnforcedOK(file, row, jobs) => UnforcedOK(file, row, new)
  BY DEF SameJobs, UnforcedOK
<1>5. ASSUME NEW c, NEW s, HeldOK(c, s, file, row, jobs, fake)
      PROVE  HeldOK(c, s, file, row, new, fake)
  <2>1. ProgressOK(s, file, row, jobs) => ProgressOK(s, file, row, new)
    BY DEF SameJobs, ProgressOK
  <2>2. MemoryOK(s, file, row, jobs, fake) => MemoryOK(s, file, row, new, fake)
    BY <1>1 DEF SameJobs, MemoryOK
  <2>. QED BY <1>5, <2>1, <2>2 DEF HeldOK
<1>. QED BY <1>1, <1>2, <1>3, <1>4, <1>5 DEF DocumentOK

LEMMA FinishReading ==
  ASSUME Inv, ReadingInv, NEW d \in Docs, NEW n \in 1..MaxTextract, FinishJob(d, n)
  PROVE  ReadingInv' /\ StaySettled
<1>1. PICK state : textract' = [textract EXCEPT ![d][n].state = state]
  BY DEF FinishJob
<1> DEFINE m == [kind |-> "completed", doc |-> d, n |-> n]
           entry == [at |-> "visible", rc |-> 0, epoch |-> textract[d][n].epoch]
           job == [textract[d][n] EXCEPT !.state = state]
           jobs == [textract[d] EXCEPT ![n] = job]
<1>2. n \in DOMAIN textract[d] /\ queue' = [queue EXCEPT ![m] = entry]
      /\ UNCHANGED <<fixed, db, consumer, request>>
  BY DEF FinishJob
<1>3. textract[d] \in Seq(TextractJob) /\ textract[d][n] \in TextractJob
  <2>1. textract \in [Docs -> Seq(TextractJob)]
    BY DEF Inv, TypeOK
  <2>2. textract[d] \in Seq(TextractJob)
    BY <2>1
  <2>. QED BY <1>2, <2>2
<1>4. job.token = textract[d][n].token /\ job.pages = textract[d][n].pages
  BY <1>3 DEF TextractJob
<1>5. textract' = [textract EXCEPT ![d] = jobs]
  BY <1>1
<1>6. entry.at # "deleted"
  OBVIOUS
<1> HIDE DEF job, entry, m
<1>7. SameJobs(textract[d], jobs)
  <2>1. DOMAIN jobs = DOMAIN textract[d] /\ jobs[n] = job
        /\ \A k \in DOMAIN textract[d] : k # n => jobs[k] = textract[d][k]
    BY <1>2
  <2>2. jobs # << >> /\ textract[d] # << >>
    <3>1. DOMAIN << >> = {}
      OBVIOUS
    <3>. QED BY <1>2, <2>1, <3>1
  <2> HIDE DEF jobs
  <2>. QED BY <1>4, <2>1, <2>2 DEF SameJobs
<1> HIDE DEF jobs
<1>8. textract'[d] = jobs /\ \A e \in Docs : e # d => textract'[e] = textract[e]
  BY <1>5 DEF Inv, TypeOK
<1>9. ASSUME NEW e \in Docs PROVE SameJobs(textract[e], textract'[e])
  <2>1. SameJobs(textract[e], textract[e])
    BY DEF SameJobs
  <2>. QED BY <1>7, <1>8, <2>1
<1>10. UNCHANGED <<content, settings>>
  BY <1>2 DEF fixed
<1>11. ASSUME NEW e \in Docs PROVE Document(e)'
  <2>1. DocumentOK(content[e], db[e], textract[e], settings.fake_ocr)
    BY DEF ReadingInv, Document
  <2>2. DocumentOK(content[e], db[e], textract'[e], settings.fake_ocr)
    BY <1>9, <2>1, SameJobsOK
  <2>. QED BY <1>2, <1>10, <2>2 DEF Document
<1>12. ASSUME NEW e \in Consumers PROVE Held(e)' /\ BatchOK(e, consumer[e])'
  <2>1. Held(e) /\ BatchOK(e, consumer[e])
    BY DEF ReadingInv
  <2>2. CASE consumer[e].pc = "idle"
    BY <1>2, <2>1, <2>2 DEF Held, HeldOK
  <2>3. CASE consumer[e].pc # "idle"
    <3>1. Doc(e) \in Docs
      BY <2>3, Handling
    <3>2. HeldOK(e, consumer[e], content[Doc(e)], db[Doc(e)], textract[Doc(e)],
                 settings.fake_ocr)
      BY <2>1 DEF Held
    <3>3. SameJobs(textract[Doc(e)], textract'[Doc(e)])
      BY <1>9, <3>1
    <3>4. HeldOK(e, consumer[e], content[Doc(e)], db[Doc(e)], textract'[Doc(e)],
                 settings.fake_ocr)
      BY <3>2, <3>3, SameJobsOK
    <3>. QED BY <1>2, <1>10, <2>1, <3>4 DEF Held, Doc
  <2>. QED BY <2>2, <2>3
<1>13. ASSUME NEW o \in Messages, queue'[o].at = "deleted" PROVE queue[o].at = "deleted"
  BY <1>2, <1>6, <1>13 DEF Inv, TypeOK
<1>14. ASSUME NEW o \in Messages
       PROVE  (/\ AcknowledgedOK(o, queue[o], db[o.doc])
               /\ o.kind = "ready" /\ queue[o].at = "deleted" =>
                    \A e \in Consumers : NotWith(consumer[e], o))'
  <2>1. /\ AcknowledgedOK(o, queue[o], db[o.doc])
        /\ o.kind = "ready" /\ queue[o].at = "deleted" =>
             \A e \in Consumers : NotWith(consumer[e], o)
    BY DEF ReadingInv
  <2>. QED BY <1>2, <1>13, <2>1 DEF AcknowledgedOK
<1>15. \A r \in Requests : request'[r].pc # "reprocess"
  BY <1>2 DEF ReadingInv
<1>. QED BY <1>2, <1>11, <1>12, <1>14, <1>15 DEF ReadingInv, StaySettled

(***************************************************************************)
(* The API.                                                                *)
(***************************************************************************)
LEMMA ApiReading ==
  ASSUME Inv, ReadingInv, NEW d \in Docs, NEW row, db' = [db EXCEPT ![d] = row],
         UNCHANGED <<fixed, queue, textract, consumer>>,
         \A r \in Requests : request'[r].pc # "reprocess",
         DocumentOK(content[d], row, textract[d], settings.fake_ocr),
         Later(db[d], row, textract[d], settings.fake_ocr),
         RecordedOK(db[d]) => RecordedOK(row),
         row.status \in Settled => db[d].status \in Settled
  PROVE  ReadingInv' /\ StaySettled
<1>1. db'[d] = row /\ \A e \in Docs : e # d => db'[e] = db[e]
  BY DEF Inv, TypeOK
<1>2. UNCHANGED <<content, settings>>
  BY DEF fixed
<1>3. ASSUME NEW e \in Docs PROVE Document(e)'
  <2>1. Document(e)
    BY DEF ReadingInv
  <2>. QED BY <1>1, <1>2, <2>1 DEF Document
<1>4. ASSUME NEW e \in Consumers PROVE Held(e)' /\ BatchOK(e, consumer[e])'
  <2>1. Held(e) /\ BatchOK(e, consumer[e])
    BY DEF ReadingInv
  <2>2. CASE consumer[e].pc = "idle"
    BY <2>1, <2>2 DEF Held, HeldOK
  <2>3. CASE consumer[e].pc # "idle" /\ Doc(e) = d
    <3>1. HeldOK(e, consumer[e], content[d], db[d], textract[d], settings.fake_ocr)
      BY <2>1, <2>3 DEF Held
    <3>2. consumer[e].pc = "markProcessing" => row.status \notin Settled
      BY <2>3, <3>1 DEF HeldOK, ProgressOK
    <3>3. HeldOK(e, consumer[e], content[d], row, textract[d], settings.fake_ocr)
      BY <3>1, <3>2, HeldLater
    <3>. QED BY <1>1, <1>2, <2>1, <2>3, <3>3 DEF Held, Doc
  <2>4. CASE consumer[e].pc # "idle" /\ Doc(e) # d
    <3>1. Doc(e) \in Docs
      BY <2>4, Handling
    <3>. QED BY <1>1, <1>2, <2>1, <2>4, <3>1 DEF Held, Doc
  <2>. QED BY <2>2, <2>3, <2>4
<1>5. ASSUME NEW m \in Messages
      PROVE  (/\ AcknowledgedOK(m, queue[m], db[m.doc])
              /\ m.kind = "ready" /\ queue[m].at = "deleted" =>
                   \A c \in Consumers : NotWith(consumer[c], m))'
  <2>1. /\ AcknowledgedOK(m, queue[m], db[m.doc])
        /\ m.kind = "ready" /\ queue[m].at = "deleted" =>
             \A c \in Consumers : NotWith(consumer[c], m)
    BY DEF ReadingInv
  <2>2. m.doc \in Docs
    BY DEF Messages
  <2>3. AcknowledgedOK(m, queue[m], db'[m.doc])
    BY <1>1, <2>1, <2>2 DEF AcknowledgedOK, Later
  <2>. QED BY <2>1, <2>3
<1>6. StaySettled
  BY <1>1 DEF StaySettled, Later
<1>. QED BY <1>3, <1>4, <1>5, <1>6 DEF ReadingInv

LEMMA UploadReading ==
  ASSUME Inv, ReadingInv, NEW r \in Requests, NEW d \in Docs, Upload(r, d)
  PROVE  ReadingInv' /\ StaySettled
<1>1. PICK status \in {"READY_FOR_PROCESSING", "UPLOADED"} :
        db' = [db EXCEPT ![d].status = status]
  BY DEF Upload
<1> DEFINE row == [db[d] EXCEPT !.status = status]
<1>2. db' = [db EXCEPT ![d] = row] /\ UNCHANGED <<fixed, queue, textract, consumer>>
      /\ db[d].status = NULL
  BY <1>1 DEF Upload
<1>3. db[d] \in DocumentRow
  BY DEF Inv, TypeOK
<1>4. /\ row.status = status /\ row.manifest = db[d].manifest /\ row.forced = db[d].forced
      /\ row.key = db[d].key /\ row.ext = db[d].ext /\ row.elements = db[d].elements
      /\ row.jobs = db[d].jobs
  BY <1>3 DEF DocumentRow
<1> HIDE DEF row
<1>5. status \notin Settled /\ db[d].status \notin Settled /\ status # "PROCESSED"
  BY <1>2, StateAssumption DEF Settled, DocumentStatus
<1>6. DocumentOK(content[d], db[d], textract[d], settings.fake_ocr)
  BY DEF ReadingInv, Document
<1>7. /\ DocumentOK(content[d], row, textract[d], settings.fake_ocr)
      /\ Later(db[d], row, textract[d], settings.fake_ocr)
      /\ RecordedOK(db[d]) => RecordedOK(row)
  BY <1>4, <1>5, <1>6
     DEF DocumentOK, UnpreparedOK, BoughtOK, UnforcedOK, Later, RecordedOK, ReadOK, NonEmpty
<1>8. \A q \in Requests : request'[q].pc # "reprocess"
  <2>1. \A q \in Requests : request[q].pc # "reprocess"
    BY DEF ReadingInv
  <2>2. request \in [Requests -> RequestState]
    BY DEF Inv, TypeOK
  <2>3. request' = request
          \/ \E next : next.pc # "reprocess" /\ request' = [request EXCEPT ![r] = next]
    <3>1. CASE AfterCommit(r, d, "UPLOADED")
      BY <3>1 DEF AfterCommit
    <3>. QED BY <3>1 DEF Upload
  <2>. QED BY <2>1, <2>2, <2>3
<1>. QED BY <1>2, <1>4, <1>5, <1>7, <1>8, ApiReading

LEMMA EnqueueRowReading ==
  ASSUME Inv, ReadingInv, NEW r \in Requests, EnqueueRow(r)
  PROVE  ReadingInv' /\ StaySettled
<1> DEFINE d == request[r].doc
           old == db[d].jobs["PREPROCESS"]
           status == IF old = NULL THEN "PENDING" ELSE old
           row == [db[d] EXCEPT !.jobs["PREPROCESS"] = status]
           done == old \in Terminal
           next == IF done THEN IdleRequest ELSE [request[r] EXCEPT !.pc = "send"]
<1>1. /\ db' = [db EXCEPT ![d] = row] /\ request' = [request EXCEPT ![r] = next]
      /\ UNCHANGED <<fixed, queue, textract, consumer>> /\ request[r].pc = "row"
  BY DEF EnqueueRow
<1>2. request \in [Requests -> RequestState] /\ d \in Docs /\ db \in [Docs -> DocumentRow]
  BY <1>1 DEF Inv, TypeOK
<1>3. db[d] \in DocumentRow
  BY <1>2
<1>4. SavedPreprocess(db[d], row, status)
  BY <1>3, WithPreprocess
<1>5. /\ status = "COMPLETED" <=> old = "COMPLETED"
      /\ status = "QUARANTINED" <=> old = "QUARANTINED"
  BY StateAssumption DEF PipelineJobStatus
<1>6. next.pc # "reprocess"
  BY <1>2 DEF IdleRequest, RequestState
<1> HIDE DEF row, status, next
<1>7. \A q \in Requests : request'[q].pc # "reprocess"
  BY <1>1, <1>2, <1>6 DEF ReadingInv
<1>8. DocumentOK(content[d], db[d], textract[d], settings.fake_ocr)
  BY <1>2 DEF ReadingInv, Document
<1>9. ReadOK(db[d], textract[d], settings.fake_ocr) => ReadOK(row, textract[d], settings.fake_ocr)
  BY <1>4 DEF SavedPreprocess, ReadOK, NonEmpty
<1>10. /\ DocumentOK(content[d], row, textract[d], settings.fake_ocr)
       /\ Later(db[d], row, textract[d], settings.fake_ocr)
       /\ RecordedOK(db[d]) => RecordedOK(row)
       /\ row.status = db[d].status
  BY <1>4, <1>5, <1>8, <1>9
     DEF SavedPreprocess, DocumentOK, UnpreparedOK, BoughtOK, UnforcedOK, Later, RecordedOK
<1>. QED BY <1>1, <1>2, <1>7, <1>10, ApiReading

\* An estimator's route is not triage's: the page is in forced from now on.
LEMMA ForceReading ==
  ASSUME Inv, ReadingInv, NEW d \in Docs, NEW override \in Overrides,
         ForceRead(d, override[1], override[2])
  PROVE  ReadingInv' /\ StaySettled
<1> DEFINE manifest == [db[d].manifest EXCEPT ![override[1]] = override[2]]
           forced == db[d].forced \cup {override[1]}
           row == [db[d] EXCEPT !.manifest = manifest, !.forced = forced]
<1>1. /\ db' = [db EXCEPT ![d] = row]
      /\ UNCHANGED <<fixed, queue, textract, consumer, request>>
  BY DEF ForceRead
<1>2. forced # {}
  OBVIOUS
<1> HIDE DEF manifest, forced
<1>3. db[d] \in DocumentRow
  BY DEF Inv, TypeOK
<1>4. /\ row.status = db[d].status /\ row.forced = forced
      /\ row.key = db[d].key /\ row.ext = db[d].ext /\ row.elements = db[d].elements
      /\ row.jobs = db[d].jobs
  BY <1>3 DEF DocumentRow
<1> HIDE DEF row
<1>5. DocumentOK(content[d], db[d], textract[d], settings.fake_ocr) /\ Overrides # {}
  BY DEF ReadingInv, Document
<1>6. /\ DocumentOK(content[d], row, textract[d], settings.fake_ocr)
      /\ Later(db[d], row, textract[d], settings.fake_ocr)
      /\ RecordedOK(db[d]) => RecordedOK(row)
  BY <1>2, <1>4, <1>5
     DEF DocumentOK, UnpreparedOK, BoughtOK, UnforcedOK, Later, RecordedOK, ReadOK, NonEmpty
<1>7. \A r \in Requests : request'[r].pc # "reprocess"
  BY <1>1 DEF ReadingInv
<1>. QED BY <1>1, <1>4, <1>6, <1>7, ApiReading

\* A request that publishes, or is lost; nobody can ask for a re-read.
LEMMA RequestReading ==
  ASSUME OneReader, Inv, ReadingInv, NEW r \in Requests, RequestStep(r) \/ ApiCrash(r)
  PROVE  ReadingInv' /\ StaySettled
<1>1. request \in [Requests -> RequestState] /\ request[r].pc # "reprocess"
      /\ IdleRequest.pc # "reprocess" /\ queue \in [Messages -> QueueEntry]
  BY DEF Inv, TypeOK, ReadingInv, IdleRequest
<1>2. ASSUME request' = [request EXCEPT ![r] = IdleRequest]
      PROVE  \A q \in Requests : request'[q].pc # "reprocess"
  BY <1>1, <1>2 DEF ReadingInv
<1>3. CASE EnqueueRow(r)
  BY <1>3, EnqueueRowReading
<1>4. CASE EnqueueFail(r) \/ ApiCrash(r)
  <2>1. /\ UNCHANGED <<fixed, db, queue, textract, consumer>>
        /\ request' = [request EXCEPT ![r] = IdleRequest]
    BY <1>4 DEF EnqueueFail, ApiCrash
  <2>. QED BY <1>2, <2>1, QueueReading
<1>5. CASE EnqueueSend(r)
  <2>1. /\ UNCHANGED <<fixed, db, textract, consumer>>
        /\ request' = [request EXCEPT ![r] = IdleRequest]
    BY <1>5 DEF EnqueueSend
  <2>2. PICK m \in Messages : queue' = [queue EXCEPT ![m] =
          [at |-> "visible", rc |-> 0, epoch |-> db[request[r].doc].epoch]]
    BY <1>5 DEF EnqueueSend
  <2>3. \A o \in Messages : queue'[o].at = "deleted" => queue[o].at = "deleted"
    BY <1>1, <2>2
  <2>. QED BY <1>2, <2>1, <2>3, QueueReading
<1>6. ~ReprocessCommit(r)
  BY <1>1 DEF ReprocessCommit
<1>. QED BY <1>3, <1>4, <1>5, <1>6 DEF RequestStep

(***************************************************************************)
(* Every step.                                                             *)
(***************************************************************************)
LEMMA ReadyReading ==
  ASSUME OneReader, Inv, Recording, ReadingInv, NEW c \in Consumers, ReadyStep(c)
  PROVE  ReadingInv' /\ StaySettled
<1>1. CASE LookupPreprocess(c) \/ Preprocess(c) \/ ReplaceManifest(c) \/ CompletePreprocess(c)
  BY <1>1, LookupPreprocessReading, PreprocessReading, ReplaceManifestReading,
     CompletePreprocessReading
<1>2. CASE StartPreprocess(c) \/ RefusePreprocess(c) \/ FailPreprocess(c)
  BY <1>2, PreparingSaves
<1>3. CASE MarkProcessing(c) \/ QuarantineDocument(c) \/ LookupOcr(c)
  BY <1>3, MarkProcessingReading, QuarantineDocumentReading, LookupOcrReading
<1>4. CASE SkipOcr(c) \/ FailOcr(c) \/ RefuseOcr(c)
  BY <1>4, OcrSaves
<1>5. CASE StartOcr(c) \/ SubmitJob(c) \/ RecordJob(c) \/ FakeResult(c) \/ FakeRecord(c)
  BY <1>5, StartOcrReading, SubmitJobReading, RecordJobReading, FakeResultReading,
     FakeRecordReading
<1>6. CASE ResumeJob(c) \/ SubmitRaises(c) \/ SubmitTooLarge(c)
  BY <1>6, SubmitReading
<1>. QED BY <1>1, <1>2, <1>3, <1>4, <1>5, <1>6 DEF ReadyStep


LEMMA CompletionReading ==
  ASSUME OneReader, Inv, ReadingInv, NEW c \in Consumers, CompletionStep(c)
  PROVE  ReadingInv' /\ StaySettled
<1>1. CASE LookupCompleted(c) \/ QuarantineOcr(c) \/ FailDocument(c) \/ Fetch(c)
  BY <1>1, LookupCompletedReading, FailDocumentReading, FetchReading
<1>2. CASE CompleteOcr(c) \/ StartNormalize(c) \/ WriteElements(c) \/ FailNormalize(c)
  BY <1>2, CompleteOcrReading, NormalizeMoves, WriteElementsReading
<1>3. CASE \/ CompleteNormalize(c) \/ StartLink(c) \/ CompleteLink(c) \/ CompleteExtract(c)
           \/ StartMatch(c) \/ Match(c) \/ StartPrice(c) \/ FailRun(c)
  BY <1>3, WrittenSaves
<1>4. CASE Extract(c) \/ Tables(c) \/ Link(c) \/ Price(c) \/ Mark(c)
  BY <1>4, WrittenMoves
<1>5. CASE Settle(c)
  BY <1>5, SettleReading
<1>. QED BY <1>1, <1>2, <1>3, <1>4, <1>5 DEF CompletionStep

LEMMA NextReading ==
  ASSUME OneReader, Inv, Recording, ReadingInv, [Next]_vars
  PROVE  ReadingInv' /\ StaySettled
<1>1. ASSUME NEW r \in Requests, NEW d \in Docs, Upload(r, d) \/ ReprocessLoad(r, d)
      PROVE  ReadingInv' /\ StaySettled
  <2>1. ~ReprocessLoad(r, d)
    BY DEF OneReader, Inv, TypeOK, DocumentRow, ReprocessLoad
  <2>. QED BY <1>1, <2>1, UploadReading
<1>2. ASSUME NEW r \in Requests, RequestStep(r) \/ ApiCrash(r)
      PROVE  ReadingInv' /\ StaySettled
  BY <1>2, RequestReading
<1>3. ASSUME NEW d \in Docs, NEW override \in Overrides,
             ForceRead(d, override[1], override[2])
      PROVE  ReadingInv' /\ StaySettled
  BY <1>3, ForceReading
<1>4. ASSUME NEW c \in Consumers, ConsumerStep(c) \/ Crash(c)
      PROVE  ReadingInv' /\ StaySettled
  BY <1>4, ReceiveReading, BeginReading, DeleteReading, ReadyReading, CompletionReading,
     CrashReading
  DEF ConsumerStep
<1>5. ASSUME NEW m \in Messages, Expire(m) PROVE ReadingInv' /\ StaySettled
  BY <1>5, ExpireReading
<1>6. ASSUME NEW d \in Docs, NEW n \in 1..MaxTextract, FinishJob(d, n)
      PROVE  ReadingInv' /\ StaySettled
  BY <1>6, FinishReading
<1>7. CASE UNCHANGED vars
  <2>1. UNCHANGED <<fixed, db, textract, consumer, queue, request>>
    BY <1>7 DEF vars, fixed
  <2>2. \A r \in Requests : request'[r].pc # "reprocess"
    BY <2>1 DEF ReadingInv
  <2>3. \A m \in Messages : queue'[m].at = "deleted" => queue[m].at = "deleted"
    BY <2>1
  <2>. QED BY <2>1, <2>2, <2>3, QueueReading
<1>. QED BY <1>1, <1>2, <1>3, <1>4, <1>5, <1>6, <1>7 DEF Next

LEMMA InitReading == Init => ReadingInv
<1> SUFFICES ASSUME Init PROVE ReadingInv
  OBVIOUS
<1>1. ASSUME NEW d \in Docs PROVE Document(d)
  <2>1. db[d] = NewDocument /\ textract[d] = << >>
    BY DEF Init
  <2>2. /\ NewDocument.status = NULL /\ NewDocument.forced = {} /\ NewDocument.elements = {}
        /\ NewDocument.manifest = NULL /\ NewDocument.jobs["PREPROCESS"] = NULL
    BY DEF NewDocument, PipelineStage
  <2>3. NULL \notin Settled /\ NULL # "COMPLETED" /\ NULL # "PROCESSED"
    BY StateAssumption DEF Settled, DocumentStatus, PipelineJobStatus
  <2> HIDE DEF Settled
  <2>. QED BY <2>1, <2>2, <2>3
           DEF Document, DocumentOK, UnpreparedOK, BoughtOK, UnforcedOK
<1>2. ASSUME NEW c \in Consumers PROVE Held(c) /\ BatchOK(c, consumer[c])
  <2>1. consumer[c].pc = "idle" /\ consumer[c].batch = {}
    BY DEF Init, Idle
  <2>. QED BY <2>1 DEF Held, HeldOK, BatchOK
<1>3. \A m \in Messages : queue[m].at # "deleted"
  BY DEF Init, NoMessage
<1>4. \A r \in Requests : request[r].pc # "reprocess"
  BY DEF Init, IdleRequest
<1>. QED BY <1>1, <1>2, <1>3, <1>4 DEF ReadingInv, AcknowledgedOK


\* With one worker process and no re-read the rows of a document are, at every step of
\* its handler, as far as the step says.
THEOREM ReadingInvariance ==
  ASSUME OneReader
  PROVE  Spec => []ReadingInv
<1>1. Inv /\ Recording /\ ReadingInv /\ [Next]_vars => ReadingInv'
  BY NextReading
<1>. QED BY <1>1, InitReading, Invariance, RecordingInvariance, PTL DEF Spec

\* A DocumentReady message is deleted only when the rows hold what became of the
\* document, a completion only when the document is settled: whatever crashes, fails or
\* is delivered again, and whatever an estimator forces meanwhile.
THEOREM AcknowledgedIsRecorded ==
  ASSUME OneReader
  PROVE  Spec => []AcknowledgedWorkIsRecorded
<1>1. ReadingInv => AcknowledgedWorkIsRecorded
  BY DEF ReadingInv, AcknowledgedOK, AcknowledgedWorkIsRecorded, RecordedOK, ReadyIsRecorded
<1>. QED BY <1>1, ReadingInvariance, PTL

\* No delivery, crash or override moves a document back from PROCESSED, FAILED or
\* QUARANTINED, which without a re-read nothing could put right.
THEOREM SettledStays ==
  ASSUME OneReader
  PROVE  Spec => SettledStaysSettled
<1>1. Inv /\ Recording /\ ReadingInv /\ [Next]_vars =>
        [\A d \in Docs :
           db[d].status \in Settled /\ db'[d].epoch = db[d].epoch
             => db'[d].status \in Settled]_vars
  BY NextReading DEF StaySettled
<1>. QED BY <1>1, Invariance, RecordingInvariance, ReadingInvariance, PTL
         DEF Spec, SettledStaysSettled

\* parse_blocks' page_map sends every page of the routed subset back to the page it is,
\* for any number of pages and any routing, unless an estimator forced a page.
THEOREM PagesCiteRight ==
  ASSUME OneReader
  PROVE  Spec => []PagesCiteWhereTheyWereRead
<1>1. ReadingInv => PagesCiteWhereTheyWereRead
  BY DEF ReadingInv, Document, DocumentOK, UnforcedOK, PagesCiteWhereTheyWereRead
<1>. QED BY <1>1, ReadingInvariance, PTL

\* A document becomes PROCESSED with the elements of every page that was bought for it.
\* An offline run (fake_ocr) reads the routes again after deciding that there are pages
\* to read, and an override that empties them in between leaves nothing to write: there
\* the pages are promised only if nobody forces one.
THEOREM ProcessedIsRead ==
  ASSUME OneReader, \A s \in Settings : s.fake_ocr => Overrides = {}
  PROVE  Spec => []ProcessedMeansRead
<1>1. ASSUME Inv, ReadingInv PROVE ProcessedMeansRead
  <2> SUFFICES ASSUME NEW d \in Docs, db[d].status = "PROCESSED"
               PROVE  /\ db[d].elements # {}
                      /\ db[d].result \in DOMAIN textract[d] =>
                           {pair[2] : pair \in db[d].elements} = textract[d][db[d].result].pages
    BY DEF ProcessedMeansRead
  <2>1. ReadOK(db[d], textract[d], settings.fake_ocr)
    BY <1>1 DEF ReadingInv, Document, DocumentOK
  <2>2. settings.fake_ocr => Overrides = {}
    BY <1>1 DEF Inv, TypeOK
  <2>. QED BY <2>1, <2>2 DEF ReadOK, NonEmpty
<1>. QED BY <1>1, Invariance, ReadingInvariance, PTL
=============================================================================
