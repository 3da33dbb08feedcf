----------------------- MODULE DocumentPipelineProofs -----------------------
(***************************************************************************)
(* Theorems about DocumentPipeline, for any number of documents, pages,    *)
(* consumers, requests and re-reads, and any set of faults.                *)
(*                                                                         *)
(* TypeOK is not inductive: Expire must know that a visible message has a  *)
(* receive left, Fetch that a completed message names a job that exists,   *)
(* Settle that its verdict is one.  Inv adds what the handlers know at     *)
(* each step, and the three facts the other theorems rest on: a manifest   *)
(* exists only for a file that preprocessing accepts, a submission only    *)
(* for a document with a manifest, and a token only with its feature set.  *)
(***************************************************************************)
EXTENDS DocumentPipeline, TLAPS, FiniteSetTheorems

\* Preprocessing accepts the file.
Readable(file) == file.kind = "pdf" /\ ~Refused(file)

\* Where a handler relies on the manifest being persisted.
DecidedPc == {"completePreprocess", "markProcessing", "lookupOcr", "startOcr", "submit"}

RowOK(file, row) ==
  /\ row.forced # {} => row.manifest # NULL
  /\ row.jobs["PREPROCESS"] = "COMPLETED" => row.manifest # NULL
  /\ row.manifest # NULL => Readable(file)

\* What holds of a consumer's memory s, given the files, queues and rows.
StateOK(s, files, entries, rows) ==
  /\ s.pc # "idle" => s.cur \in Delivery /\ entries[s.cur.msg].at # "none"
  /\ s.pc \in {"lookupCompleted", "fetch"} => s.cur.msg.kind = "completed"
  /\ \A delivery \in s.batch : entries[delivery.msg].at # "none"
  /\ s.pc \in {"startOcr", "submit"} => s.route \in TextractRoutes /\ s.key \in FeatureKeys
  /\ s.verdict = "PROCESSED" => s.pc \in {"completeExtract", "settle", "delete"}
  /\ s.pc = "mark" => s.verdict \in {"FAILED", "QUARANTINED"}
  /\ s.pc = "replaceManifest" => Readable(files[s.cur.msg.doc])
  /\ s.pc \in DecidedPc => rows[s.cur.msg.doc].manifest # NULL

JobsOK(jobs, row) ==
  /\ Len(jobs) <= MaxTextract
  /\ jobs # << >> => row.manifest # NULL
  /\ \A n \in DOMAIN jobs : jobs[n].token.nonce = 0 /\ jobs[n].token.features \in FeatureKeys

EntryOK(m, entry, jobs) ==
  /\ entry.at = "visible" => entry.rc < MaxReceive
  /\ m.kind = "completed" /\ entry.at # "none" => m.n \in DOMAIN jobs

Inv ==
  /\ TypeOK
  /\ \A d \in Docs : RowOK(content[d], db[d]) /\ JobsOK(textract[d], db[d])
  /\ \A c \in Consumers : StateOK(consumer[c], content, queue, db)
  /\ \A m \in Messages : EntryOK(m, queue[m], textract[m.doc])
  /\ \A r \in Requests : request[r].pc # "idle" => request[r].doc \in Docs

(***************************************************************************)
(* Steps of a handler: they change its memory and one document's rows.     *)
(***************************************************************************)

LEMMA Handling ==
  ASSUME Inv, NEW c \in Consumers, consumer[c].pc # "idle"
  PROVE  /\ consumer[c] \in ConsumerState
         /\ consumer[c].cur \in Delivery
         /\ consumer[c].cur.msg \in Messages
         /\ Doc(c) \in Docs
         /\ db[Doc(c)] \in DocumentRow
         /\ content[Doc(c)] \in FileContent
         /\ RowOK(content[Doc(c)], db[Doc(c)])
         /\ StateOK(consumer[c], content, queue, db)
<1>1. consumer[c] \in ConsumerState /\ consumer[c].cur \in Delivery
      /\ StateOK(consumer[c], content, queue, db)
  BY DEF Inv, TypeOK, StateOK
<1>2. consumer[c].cur.msg \in Messages
  BY <1>1 DEF Delivery
<1>3. Doc(c) \in Docs
  BY <1>2 DEF Messages, Doc
<1>4. db[Doc(c)] \in DocumentRow /\ content[Doc(c)] \in FileContent
      /\ RowOK(content[Doc(c)], db[Doc(c)])
  BY <1>3, StateAssumption DEF Inv, TypeOK
<1>. QED BY <1>1, <1>2, <1>3, <1>4

LEMMA HandlerFrame ==
  ASSUME Inv,
         NEW c \in Consumers, NEW s \in ConsumerState,
         NEW d \in Docs, NEW row \in DocumentRow,
         consumer' = [consumer EXCEPT ![c] = s],
         db' = [db EXCEPT ![d] = row],
         UNCHANGED <<fixed, queue, textract, request>>,
         RowOK(content[d], row),
         db[d].manifest # NULL => row.manifest # NULL,
         StateOK(s, content, queue, db')
  PROVE  Inv'
<1>0. UNCHANGED <<content, settings>>
  BY DEF fixed
<1>1. TypeOK'
  BY <1>0 DEF Inv, TypeOK
<1>2. \A e \in Docs : db[e].manifest # NULL => db'[e].manifest # NULL
  BY DEF Inv, TypeOK
<1>3. ASSUME NEW e \in Docs PROVE RowOK(content[e], db[e])' /\ JobsOK(textract[e], db[e])'
  <2>1. RowOK(content[e], db[e]) /\ JobsOK(textract[e], db[e])
    BY DEF Inv
  <2>2. CASE e = d
    BY <1>0, <2>1, <2>2 DEF Inv, TypeOK, RowOK, JobsOK
  <2>3. CASE e # d
    BY <1>0, <2>1, <2>3 DEF Inv, TypeOK, RowOK, JobsOK
  <2>. QED BY <2>2, <2>3
<1>4. ASSUME NEW e \in Consumers PROVE StateOK(consumer[e], content, queue, db)'
  <2>1. CASE e = c
    BY <1>0, <2>1 DEF Inv, TypeOK
  <2>2. CASE e # c
    <3>1. consumer'[e] = consumer[e] /\ StateOK(consumer[e], content, queue, db)
      BY <2>2 DEF Inv, TypeOK
    <3>2. consumer[e].pc \in DecidedPc => consumer[e].cur.msg.doc \in Docs
      BY <3>1 DEF StateOK, DecidedPc, Delivery, Messages
    <3>. QED BY <1>0, <1>2, <3>1, <3>2 DEF StateOK
  <2>. QED BY <2>1, <2>2
<1>5. \A m \in Messages : EntryOK(m, queue[m], textract[m.doc])'
  BY DEF Inv, EntryOK
<1>6. \A r \in Requests : (request[r].pc # "idle" => request[r].doc \in Docs)'
  BY DEF Inv
<1>. QED BY <1>1, <1>3, <1>4, <1>5, <1>6 DEF Inv

\* A step that keeps the message it handles and what rests on the manifest.
LEMMA MemoryInv ==
  ASSUME Inv, NEW c \in Consumers, consumer[c].pc # "idle",
         NEW s \in ConsumerState, consumer' = [consumer EXCEPT ![c] = s],
         s.cur = consumer[c].cur, StateOK(s, content, queue, db),
         NEW row \in DocumentRow, db' = [db EXCEPT ![Doc(c)] = row],
         RowOK(content[Doc(c)], row),
         db[Doc(c)].manifest # NULL => row.manifest # NULL,
         UNCHANGED <<fixed, queue, textract, request>>
  PROVE  Inv'
<1>1. Doc(c) \in Docs
  BY Handling
<1>2. StateOK(s, content, queue, db')
  <2>1. db'[Doc(c)] = row
    BY <1>1 DEF Inv, TypeOK
  <2>. QED BY <2>1 DEF StateOK, Doc
<1>. QED BY <1>1, <1>2, HandlerFrame

\* Continuing at another step loses nothing the handler relies on there.
Reaches(c, next) ==
  /\ next \in Pc
  /\ StateOK([consumer[c] EXCEPT !.pc = next], content, queue, db)

LEMMA GotoInv ==
  ASSUME Inv, NEW c \in Consumers, consumer[c].pc # "idle",
         NEW next, Reaches(c, next), Goto(c, next),
         NEW row \in DocumentRow, db' = [db EXCEPT ![Doc(c)] = row],
         RowOK(content[Doc(c)], row),
         db[Doc(c)].manifest # NULL => row.manifest # NULL,
         UNCHANGED <<fixed, queue, textract, request>>
  PROVE  Inv'
<1> DEFINE s == [consumer[c] EXCEPT !.pc = next]
<1>1. consumer[c] \in ConsumerState
  BY Handling
<1>2. s \in ConsumerState
  BY <1>1 DEF ConsumerState, Reaches
<1>3. s.cur = consumer[c].cur
  BY <1>1 DEF ConsumerState
<1>4. consumer' = [consumer EXCEPT ![c] = s]
  BY DEF Goto
<1>5. StateOK(s, content, queue, db)
  BY DEF Reaches
<1> HIDE DEF s
<1>. QED BY <1>2, <1>3, <1>4, <1>5, MemoryInv

\* Steps that ask nothing of the state, and steps that rest on the manifest.
LEMMA PlainReach ==
  ASSUME Inv, NEW c \in Consumers, consumer[c].pc # "idle",
         NEW next \in Pc \ (DecidedPc \cup {"replaceManifest", "lookupCompleted", "fetch", "mark"}),
         \/ next \in {"completeExtract", "settle", "delete"}
         \/ consumer[c].pc \notin {"completeExtract", "settle", "delete"}
         \/ consumer[c].verdict = NULL
  PROVE  Reaches(c, next)
<1>1. consumer[c] \in ConsumerState /\ StateOK(consumer[c], content, queue, db)
  BY Handling
<1> DEFINE s == [consumer[c] EXCEPT !.pc = next]
<1>2. /\ s.pc = next /\ s.cur = consumer[c].cur /\ s.batch = consumer[c].batch
      /\ s.verdict = consumer[c].verdict
  BY <1>1 DEF ConsumerState
<1>3. NULL # "PROCESSED"
  BY StateAssumption DEF DocumentStatus
<1>4. StateOK(s, content, queue, db)
  <2> HIDE DEF s
  <2>. QED BY <1>1, <1>2, <1>3 DEF StateOK, DecidedPc
<1>. QED BY <1>4 DEF Reaches

LEMMA DecidedReach ==
  ASSUME Inv, NEW c \in Consumers,
         consumer[c].pc \notin {"idle", "completeExtract", "settle", "delete"},
         NEW next \in DecidedPc \ {"startOcr", "submit"},
         db[Doc(c)].manifest # NULL
  PROVE  Reaches(c, next)
<1>1. consumer[c] \in ConsumerState /\ StateOK(consumer[c], content, queue, db)
  BY Handling
<1> DEFINE s == [consumer[c] EXCEPT !.pc = next]
<1>2. /\ s.pc = next /\ s.cur = consumer[c].cur /\ s.batch = consumer[c].batch
      /\ s.verdict = consumer[c].verdict
  BY <1>1 DEF ConsumerState
<1>3. StateOK(s, content, queue, db)
  <2> HIDE DEF s
  <2>. QED BY <1>1, <1>2 DEF StateOK, DecidedPc, Doc
<1>4. next \in Pc
  BY DEF DecidedPc, Pc, ReadyPc
<1>. QED BY <1>3, <1>4 DEF Reaches

LEMMA IdleOK ==
  ASSUME NEW batch \in SUBSET Delivery, NEW files, NEW entries, NEW rows,
         \A delivery \in batch : entries[delivery.msg].at # "none"
  PROVE  Idle(batch) \in ConsumerState /\ StateOK(Idle(batch), files, entries, rows)
<1>1. [p \in Pages |-> NULL] \in [Pages -> Routes \cup {NULL}]
  OBVIOUS
<1>2. Idle(batch) \in ConsumerState
  BY <1>1, StateAssumption DEF Idle, ConsumerState, Pc, ExternalJobId, NoJob
<1>3. NULL # "PROCESSED"
  BY StateAssumption DEF DocumentStatus
<1>4. StateOK(Idle(batch), files, entries, rows)
  BY <1>3 DEF Idle, StateOK, DecidedPc
<1>. QED BY <1>2, <1>4

LEMMA RaiseInv ==
  ASSUME Inv, NEW c \in Consumers, consumer[c].pc # "idle", Raise(c),
         NEW row \in DocumentRow, db' = [db EXCEPT ![Doc(c)] = row],
         RowOK(content[Doc(c)], row),
         db[Doc(c)].manifest # NULL => row.manifest # NULL,
         UNCHANGED <<fixed, queue, textract, request>>
  PROVE  Inv'
<1> DEFINE s == Idle(consumer[c].batch)
<1>1. Doc(c) \in Docs
  BY Handling
<1>2. consumer[c].batch \in SUBSET Delivery
      /\ \A delivery \in consumer[c].batch : queue[delivery.msg].at # "none"
  BY Handling DEF ConsumerState, StateOK
<1>3. s \in ConsumerState /\ StateOK(s, content, queue, db')
  BY <1>2, IdleOK
<1>4. consumer' = [consumer EXCEPT ![c] = s]
  BY DEF Raise
<1> HIDE DEF s
<1>. QED BY <1>1, <1>3, <1>4, HandlerFrame

LEMMA SameRow ==
  ASSUME Inv, NEW d \in Docs, UNCHANGED db
  PROVE  db' = [db EXCEPT ![d] = db[d]] /\ db[d] \in DocumentRow /\ RowOK(content[d], db[d])
  BY DEF Inv, TypeOK

\* Writing the status of a job row, PREPROCESS COMPLETED excepted.
LEMMA WithJob ==
  ASSUME NEW row \in DocumentRow, NEW stage \in PipelineStage,
         NEW status \in PipelineJobStatus, NEW file, RowOK(file, row),
         stage = "PREPROCESS" /\ status = "COMPLETED" => row.manifest # NULL
  PROVE  LET new == [row EXCEPT !.jobs[stage] = status] IN
         /\ new \in DocumentRow
         /\ RowOK(file, new)
         /\ row.manifest # NULL => new.manifest # NULL
<1> DEFINE new == [row EXCEPT !.jobs[stage] = status]
<1>1. new \in DocumentRow
  BY DEF DocumentRow
<1>2. /\ new.manifest = row.manifest /\ new.forced = row.forced
      /\ new.jobs = [row.jobs EXCEPT ![stage] = status]
  BY DEF DocumentRow
<1>3. row.jobs \in [PipelineStage -> PipelineJobStatus \cup {NULL}]
  BY DEF DocumentRow
<1>4. RowOK(file, new)
  <2> HIDE DEF new
  <2>1. "PREPROCESS" \in PipelineStage
    BY DEF PipelineStage
  <2>. QED BY <1>2, <1>3, <2>1 DEF RowOK
<1>. QED BY <1>1, <1>2, <1>4

LEMMA SaveJobInv ==
  ASSUME Inv, NEW c \in Consumers, consumer[c].pc # "idle",
         NEW stage \in PipelineStage, NEW status \in PipelineJobStatus,
         NEW next, Reaches(c, next), SaveJob(c, stage, status, next),
         stage = "PREPROCESS" /\ status = "COMPLETED" => db[Doc(c)].manifest # NULL
  PROVE  Inv'
<1> DEFINE d == Doc(c)
<1> DEFINE row == [db[d] EXCEPT !.jobs[stage] = status]
<1>1. d \in Docs /\ db[d] \in DocumentRow /\ RowOK(content[d], db[d])
  BY Handling
<1>2. CASE RowAlive(c) /\ db' = [db EXCEPT ![d].jobs[stage] = status] /\ Goto(c, next)
  <2>1. db' = [db EXCEPT ![d] = row]
    BY <1>2
  <2>2. row \in DocumentRow /\ RowOK(content[d], row)
        /\ (db[d].manifest # NULL => row.manifest # NULL)
    BY <1>1, WithJob
  <2> HIDE DEF row
  <2>. QED BY <1>2, <2>1, <2>2, GotoInv DEF SaveJob
<1>3. CASE ~RowAlive(c) /\ Raise(c) /\ UNCHANGED db
  BY <1>1, <1>3, SameRow, RaiseInv DEF SaveJob
<1>. QED BY <1>2, <1>3 DEF SaveJob

LEMMA FailureInv ==
  ASSUME Inv, NEW c \in Consumers, consumer[c].pc # "idle",
         NEW stage \in PipelineStage, SaveFailureAndRaise(c, stage)
  PROVE  Inv'
<1> DEFINE d == Doc(c)
<1> DEFINE row == [db[d] EXCEPT !.jobs[stage] = "FAILED"]
<1>1. d \in Docs /\ db[d] \in DocumentRow /\ RowOK(content[d], db[d])
  BY Handling
<1>2. row \in DocumentRow /\ RowOK(content[d], row)
      /\ (db[d].manifest # NULL => row.manifest # NULL)
  BY <1>1, WithJob, "FAILED" \in PipelineJobStatus DEF PipelineJobStatus
<1>3. CASE RowAlive(c)
  <2>1. db' = [db EXCEPT ![d] = row]
    BY <1>3 DEF SaveFailureAndRaise
  <2> HIDE DEF row
  <2>. QED BY <1>2, <2>1, RaiseInv DEF SaveFailureAndRaise
<1>4. CASE ~RowAlive(c)
  BY <1>1, <1>4, SameRow, RaiseInv DEF SaveFailureAndRaise
<1>. QED BY <1>3, <1>4

\* Writing any other column leaves what RowOK says.
LEMMA WithColumn ==
  ASSUME NEW row \in DocumentRow, NEW new \in DocumentRow, NEW file, RowOK(file, row),
         new.manifest = row.manifest, new.forced = row.forced, new.jobs = row.jobs
  PROVE  RowOK(file, new) /\ (row.manifest # NULL => new.manifest # NULL)
  BY DEF RowOK

LEMMA SaveStatusInv ==
  ASSUME Inv, NEW c \in Consumers, consumer[c].pc # "idle",
         NEW status \in DocumentStatus \cup {NULL}, NEW next, Reaches(c, next),
         SaveStatus(c, status, next)
  PROVE  Inv'
<1> DEFINE d == Doc(c)
<1> DEFINE row == [db[d] EXCEPT !.status = status]
<1>1. d \in Docs /\ db[d] \in DocumentRow /\ RowOK(content[d], db[d])
  BY Handling
<1>2. row \in DocumentRow /\ row.manifest = db[d].manifest
      /\ row.forced = db[d].forced /\ row.jobs = db[d].jobs
  BY <1>1 DEF DocumentRow
<1>3. db' = [db EXCEPT ![d] = row]
  BY DEF SaveStatus
<1> HIDE DEF row
<1>. QED BY <1>1, <1>2, <1>3, WithColumn, GotoInv DEF SaveStatus

(***************************************************************************)
(* handle_document_ready, one lemma per action.                            *)
(***************************************************************************)

LEMMA LookupPreprocessInv ==
  ASSUME Inv, NEW c \in Consumers, LookupPreprocess(c)
  PROVE  Inv'
<1> DEFINE d == Doc(c)
<1> DEFINE old == db[d].jobs["PREPROCESS"]
<1> DEFINE row == [db[d] EXCEPT !.jobs["PREPROCESS"] = IF old = NULL THEN "PENDING" ELSE old]
<1> DEFINE next == IF old = "COMPLETED" THEN "lookupOcr" ELSE "startPreprocess"
<1> DEFINE s == [consumer[c] EXCEPT !.row = db[d].epoch, !.pc = next]
<1>0. consumer[c].pc = "lookupPreprocess"
  BY DEF LookupPreprocess, At
<1>1. /\ d \in Docs /\ db[d] \in DocumentRow /\ RowOK(content[d], db[d])
      /\ consumer[c] \in ConsumerState /\ StateOK(consumer[c], content, queue, db)
  BY <1>0, Handling
<1>2. row \in DocumentRow /\ RowOK(content[d], row)
      /\ (db[d].manifest # NULL => row.manifest # NULL)
  <2>1. old \in PipelineJobStatus \cup {NULL} /\ "PREPROCESS" \in PipelineStage
    BY <1>1 DEF DocumentRow, PipelineStage
  <2>2. CASE old = NULL
    BY <1>1, <2>1, <2>2, WithJob, "PENDING" \in PipelineJobStatus DEF PipelineJobStatus
  <2>3. CASE old # NULL
    <3>1. old \in PipelineJobStatus /\ (old = "COMPLETED" => db[d].manifest # NULL)
      BY <1>1, <2>1, <2>3 DEF RowOK
    <3> HIDE DEF old
    <3>. QED BY <1>1, <2>1, <2>3, <3>1, WithJob
  <2>. QED BY <2>2, <2>3
<1>3. s \in ConsumerState /\ s.cur = consumer[c].cur
  <2>1. next \in Pc /\ db[d].epoch \in 0..MaxReprocess
    BY <1>1 DEF Pc, ReadyPc, DocumentRow
  <2> HIDE DEF next
  <2>. QED BY <1>1, <2>1 DEF ConsumerState
<1>4. StateOK(s, content, queue, db)
  <2>1. /\ s.pc = next
        /\ s.batch = consumer[c].batch /\ s.verdict = consumer[c].verdict
    BY <1>1 DEF ConsumerState
  <2>2. old = "COMPLETED" => db[d].manifest # NULL
    BY <1>1 DEF RowOK
  <2> HIDE DEF s, old
  <2>. QED BY <1>0, <1>1, <1>3, <2>1, <2>2 DEF StateOK, Doc, DecidedPc
<1>5. db' = [db EXCEPT ![d] = row] /\ consumer' = [consumer EXCEPT ![c] = s]
  BY DEF LookupPreprocess
<1>6. UNCHANGED <<fixed, queue, textract, request>>
  BY DEF LookupPreprocess
<1> HIDE DEF row, s
<1>. QED BY <1>0, <1>2, <1>3, <1>4, <1>5, <1>6, MemoryInv

LEMMA StartPreprocessInv ==
  ASSUME Inv, NEW c \in Consumers, StartPreprocess(c)
  PROVE  Inv'
<1>1. Reaches(c, "preprocess") /\ consumer[c].pc # "idle"
  BY PlainReach DEF StartPreprocess, At, Pc, ReadyPc, DecidedPc
<1>2. "PREPROCESS" \in PipelineStage /\ "STARTED" \in PipelineJobStatus
  BY DEF PipelineStage, PipelineJobStatus
<1>. QED BY <1>1, <1>2, SaveJobInv DEF StartPreprocess

LEMMA PreprocessInv ==
  ASSUME Inv, NEW c \in Consumers, Preprocess(c)
  PROVE  Inv'
<1> DEFINE d == Doc(c)
<1>0. consumer[c].pc = "preprocess" /\ UNCHANGED <<fixed, db, queue, textract, request>>
  BY DEF Preprocess, At
<1>1. /\ d \in Docs /\ db[d] \in DocumentRow /\ RowOK(content[d], db[d])
      /\ consumer[c] \in ConsumerState /\ StateOK(consumer[c], content, queue, db)
      /\ content[d] \in FileContent
  BY <1>0, Handling
<1>2. db' = [db EXCEPT ![d] = db[d]]
  BY <1>0, <1>1, SameRow
<1>3. ASSUME NEW next \in {"failPreprocess", "refusePreprocess"}, Goto(c, next)
      PROVE  Inv'
  <2>1. Reaches(c, next)
    BY <1>0, PlainReach DEF Pc, ReadyPc, DecidedPc
  <2>. QED BY <1>0, <1>1, <1>2, <1>3, <2>1, GotoInv
<1>4. CASE /\ Readable(content[d])
           /\ consumer' = [consumer EXCEPT
                ![c].kept = [p \in Pages |-> IF p \in db[d].forced THEN db[d].manifest[p]
                                                                   ELSE NULL],
                ![c].pc = "replaceManifest"]
  <2> DEFINE kept == [p \in Pages |-> IF p \in db[d].forced THEN db[d].manifest[p] ELSE NULL]
  <2> DEFINE s == [consumer[c] EXCEPT !.kept = kept, !.pc = "replaceManifest"]
  <2>1. kept \in [Pages -> Routes \cup {NULL}]
    <3>1. db[d].forced # {} => db[d].manifest \in [Pages -> Routes]
      BY <1>1 DEF RowOK, DocumentRow
    <3>. QED BY <3>1
  <2>2. consumer' = [consumer EXCEPT ![c] = s]
    BY <1>4
  <2>3. s \in ConsumerState
    <3> HIDE DEF kept
    <3>. QED BY <1>1, <2>1 DEF ConsumerState, Pc, ReadyPc
  <2>4. /\ s.pc = "replaceManifest" /\ s.cur = consumer[c].cur
        /\ s.batch = consumer[c].batch /\ s.verdict = consumer[c].verdict
    BY <1>1 DEF ConsumerState
  <2> HIDE DEF s
  <2>5. StateOK(s, content, queue, db)
    BY <1>0, <1>1, <1>4, <2>4 DEF StateOK, DecidedPc, Doc
  <2>. QED BY <1>0, <1>1, <1>2, <2>2, <2>3, <2>4, <2>5, MemoryInv
<1>. QED BY <1>3, <1>4 DEF Preprocess, Readable

LEMMA ReplaceManifestInv ==
  ASSUME Inv, NEW c \in Consumers, ReplaceManifest(c)
  PROVE  Inv'
<1> DEFINE d == Doc(c)
<1> DEFINE kept == consumer[c].kept
<1> DEFINE manifest == [p \in Pages |-> IF kept[p] = NULL THEN content[d].triage[p] ELSE kept[p]]
<1> DEFINE forced == {p \in Pages : kept[p] # NULL}
<1> DEFINE row == [db[d] EXCEPT !.manifest = manifest, !.forced = forced,
                                !.manifestComplete = TRUE]
<1> DEFINE s == [consumer[c] EXCEPT !.pc = "completePreprocess"]
<1>0. consumer[c].pc = "replaceManifest"
  BY DEF ReplaceManifest, At
<1>1. /\ d \in Docs /\ db[d] \in DocumentRow /\ RowOK(content[d], db[d])
      /\ consumer[c] \in ConsumerState /\ StateOK(consumer[c], content, queue, db)
      /\ content[d] \in FileContent
  BY <1>0, Handling
<1>2. manifest \in [Pages -> Routes] /\ manifest # NULL
  <2>1. kept \in [Pages -> Routes \cup {NULL}] /\ content[d].triage \in [Pages -> Routes]
    BY <1>1 DEF ConsumerState, FileContent
  <2>2. manifest \in [Pages -> Routes]
    <3> HIDE DEF kept
    <3>. QED BY <2>1
  <2>. QED BY <2>2, StateAssumption
<1>3. /\ row \in DocumentRow
      /\ row.manifest = manifest /\ row.forced = forced /\ row.jobs = db[d].jobs
  <2> HIDE DEF manifest
  <2>. QED BY <1>1, <1>2 DEF DocumentRow
<1>4. RowOK(content[d], row)
  <2>1. Readable(content[d])
    BY <1>0, <1>1 DEF StateOK, Doc
  <2> HIDE DEF row, manifest
  <2>. QED BY <1>2, <1>3, <2>1 DEF RowOK
<1>5. db' = [db EXCEPT ![d] = row] /\ consumer' = [consumer EXCEPT ![c] = s]
      /\ UNCHANGED <<fixed, queue, textract, request>>
  BY DEF ReplaceManifest, Goto
<1>6. s \in ConsumerState
  BY <1>1 DEF ConsumerState, Pc, ReadyPc
<1>7. StateOK(s, content, queue, db')
  <2>1. /\ s.pc = "completePreprocess" /\ s.cur = consumer[c].cur
        /\ s.batch = consumer[c].batch /\ s.verdict = consumer[c].verdict
    BY <1>1 DEF ConsumerState
  <2>2. db'[d].manifest # NULL
    <3> HIDE DEF row, manifest
    <3>. QED BY <1>1, <1>2, <1>3, <1>5 DEF Inv, TypeOK
  <2> HIDE DEF s
  <2>. QED BY <1>0, <1>1, <2>1, <2>2 DEF StateOK, Doc
<1>8. row.manifest # NULL
  BY <1>2, <1>3
<1> HIDE DEF row, s
<1>. QED BY <1>1, <1>3, <1>4, <1>5, <1>6, <1>7, <1>8, HandlerFrame

LEMMA CompletePreprocessInv ==
  ASSUME Inv, NEW c \in Consumers, CompletePreprocess(c)
  PROVE  Inv'
<1>0. consumer[c].pc = "completePreprocess"
  BY DEF CompletePreprocess, At
<1>1. db[Doc(c)].manifest # NULL
  BY <1>0, Handling DEF StateOK, DecidedPc, Doc
<1>2. Reaches(c, "markProcessing")
  BY <1>0, <1>1, DecidedReach DEF DecidedPc
<1>3. "PREPROCESS" \in PipelineStage /\ "COMPLETED" \in PipelineJobStatus
  BY DEF PipelineStage, PipelineJobStatus
<1>. QED BY <1>0, <1>1, <1>2, <1>3, SaveJobInv DEF CompletePreprocess

LEMMA MarkProcessingInv ==
  ASSUME Inv, NEW c \in Consumers, MarkProcessing(c)
  PROVE  Inv'
<1>0. consumer[c].pc = "markProcessing"
  BY DEF MarkProcessing, At
<1>1. db[Doc(c)].manifest # NULL
  BY <1>0, Handling DEF StateOK, DecidedPc, Doc
<1>2. Reaches(c, "lookupOcr") /\ "PROCESSING" \in DocumentStatus
  BY <1>0, <1>1, DecidedReach DEF DecidedPc, DocumentStatus
<1>. QED BY <1>0, <1>2, SaveStatusInv DEF MarkProcessing

LEMMA FailPreprocessInv ==
  ASSUME Inv, NEW c \in Consumers, FailPreprocess(c)
  PROVE  Inv'
  BY FailureInv DEF FailPreprocess, At, PipelineStage

LEMMA RefusePreprocessInv ==
  ASSUME Inv, NEW c \in Consumers, RefusePreprocess(c)
  PROVE  Inv'
<1>1. Reaches(c, "quarantineDocument") /\ consumer[c].pc # "idle"
  BY PlainReach DEF RefusePreprocess, At, Pc, ReadyPc, DecidedPc
<1>2. "PREPROCESS" \in PipelineStage /\ "QUARANTINED" \in PipelineJobStatus
  BY DEF PipelineStage, PipelineJobStatus
<1>. QED BY <1>1, <1>2, SaveJobInv DEF RefusePreprocess

LEMMA QuarantineDocumentInv ==
  ASSUME Inv, NEW c \in Consumers, QuarantineDocument(c)
  PROVE  Inv'
<1>1. Reaches(c, "delete") /\ consumer[c].pc # "idle"
  BY PlainReach DEF QuarantineDocument, At, Pc, DecidedPc
<1>2. "QUARANTINED" \in DocumentStatus
  BY DEF DocumentStatus
<1>. QED BY <1>1, <1>2, SaveStatusInv DEF QuarantineDocument

LEMMA LookupOcrInv ==
  ASSUME Inv, NEW c \in Consumers, LookupOcr(c)
  PROVE  Inv'
<1> DEFINE d == Doc(c)
<1> DEFINE route == RouteOf(db[d].manifest)
<1> DEFINE key == IF db[d].key = NULL THEN OcrKey(route) ELSE db[d].key
<1> DEFINE old == db[d].jobs["OCR"]
<1> DEFINE status == IF old = NULL THEN "PENDING" ELSE old
<1> DEFINE next == IF old \in {"COMPLETED", "SKIPPED"} THEN "delete"
                   ELSE IF route = NULL THEN "skipOcr" ELSE "startOcr"
<1> DEFINE row == [db[d] EXCEPT !.jobs["OCR"] = status, !.key = key]
<1> DEFINE s == [consumer[c] EXCEPT !.row = db[d].epoch, !.route = route, !.key = key,
                                    !.ext = db[d].ext, !.pc = next]
<1>0. consumer[c].pc = "lookupOcr"
  BY DEF LookupOcr, At
<1>1. /\ d \in Docs /\ db[d] \in DocumentRow /\ RowOK(content[d], db[d])
      /\ consumer[c] \in ConsumerState /\ StateOK(consumer[c], content, queue, db)
  BY <1>0, Handling
<1>2. route \in TextractRoutes \cup {NULL}
  BY DEF RouteOf, TextractRoutes
<1>3. key \in FeatureKeys
  <2>1. OcrKey(route) \in FeatureKeys
    BY DEF OcrKey, FeatureKeys
  <2>2. db[d].key \in FeatureKeys \cup {NULL}
    BY <1>1 DEF DocumentRow
  <2>. QED BY <2>1, <2>2
<1>4. status \in PipelineJobStatus
  BY <1>1 DEF DocumentRow, PipelineStage, PipelineJobStatus
<1>5. row \in DocumentRow /\ RowOK(content[d], row)
      /\ (db[d].manifest # NULL => row.manifest # NULL)
  <2> DEFINE mid == [db[d] EXCEPT !.jobs["OCR"] = status]
  <2> HIDE DEF status, key
  <2>1. mid \in DocumentRow /\ RowOK(content[d], mid)
        /\ (db[d].manifest # NULL => mid.manifest # NULL)
    BY <1>1, <1>4, WithJob, "OCR" \in PipelineStage DEF PipelineStage
  <2>2. row = [mid EXCEPT !.key = key]
    BY <1>1 DEF DocumentRow
  <2> HIDE DEF mid
  <2>3. row \in DocumentRow /\ row.manifest = mid.manifest /\ row.forced = mid.forced
        /\ row.jobs = mid.jobs
    BY <1>3, <2>1, <2>2 DEF DocumentRow
  <2>. QED BY <2>1, <2>3, WithColumn
<1>6. s \in ConsumerState /\ s.cur = consumer[c].cur
  <2>1. /\ next \in Pc /\ db[d].epoch \in 0..MaxReprocess /\ db[d].ext \in ExternalJobId
    BY <1>1 DEF Pc, ReadyPc, DocumentRow
  <2> HIDE DEF next, key, route
  <2>. QED BY <1>1, <1>2, <1>3, <2>1 DEF ConsumerState
<1>7. StateOK(s, content, queue, db)
  <2>1. /\ s.pc = next /\ s.route = route /\ s.key = key
        /\ s.batch = consumer[c].batch /\ s.verdict = consumer[c].verdict
    BY <1>1 DEF ConsumerState
  <2>2. next \in {"delete", "skipOcr", "startOcr"} /\ (next = "startOcr" => route # NULL)
    OBVIOUS
  <2> HIDE DEF s, route, key, next
  <2>. QED BY <1>0, <1>1, <1>2, <1>3, <1>6, <2>1, <2>2 DEF StateOK, Doc, DecidedPc
<1>8. db' = [db EXCEPT ![d] = row] /\ consumer' = [consumer EXCEPT ![c] = s]
      /\ UNCHANGED <<fixed, queue, textract, request>>
  BY DEF LookupOcr
<1> HIDE DEF row, s
<1>. QED BY <1>0, <1>5, <1>6, <1>7, <1>8, MemoryInv

LEMMA SkipOcrInv ==
  ASSUME Inv, NEW c \in Consumers, SkipOcr(c)
  PROVE  Inv'
<1>1. Reaches(c, "delete") /\ consumer[c].pc # "idle"
  BY PlainReach DEF SkipOcr, At, Pc, DecidedPc
<1>2. "OCR" \in PipelineStage /\ "SKIPPED" \in PipelineJobStatus
  BY DEF PipelineStage, PipelineJobStatus
<1>. QED BY <1>1, <1>2, SaveJobInv DEF SkipOcr

LEMMA StartOcrInv ==
  ASSUME Inv, NEW c \in Consumers, StartOcr(c)
  PROVE  Inv'
<1> DEFINE d == Doc(c)
<1> DEFINE row == [db[d] EXCEPT !.jobs["OCR"] = "STARTED"]
<1> DEFINE pages == PagesRouted(db[d].manifest, TextractRoutes)
<1> DEFINE next == IF settings.fake_ocr THEN "fakeResult" ELSE "submit"
<1> DEFINE s == [consumer[c] EXCEPT !.pages = pages, !.pc = next]
<1>0. consumer[c].pc = "startOcr" /\ UNCHANGED <<fixed, queue, textract, request>>
  BY DEF StartOcr, At
<1>1. /\ d \in Docs /\ db[d] \in DocumentRow /\ RowOK(content[d], db[d])
      /\ consumer[c] \in ConsumerState /\ StateOK(consumer[c], content, queue, db)
  BY <1>0, Handling
<1>2. row \in DocumentRow /\ RowOK(content[d], row)
      /\ (db[d].manifest # NULL => row.manifest # NULL)
  BY <1>1, WithJob, "OCR" \in PipelineStage, "STARTED" \in PipelineJobStatus
     DEF PipelineStage, PipelineJobStatus
<1>3. s \in ConsumerState /\ s.cur = consumer[c].cur
  <2>1. next \in Pc /\ pages \in SUBSET Pages
    BY DEF Pc, ReadyPc, PagesRouted
  <2> HIDE DEF next, pages
  <2>. QED BY <1>1, <2>1 DEF ConsumerState
<1>4. StateOK(s, content, queue, db)
  <2>1. /\ s.pc = next /\ s.batch = consumer[c].batch /\ s.verdict = consumer[c].verdict
        /\ s.route = consumer[c].route /\ s.key = consumer[c].key
    BY <1>1 DEF ConsumerState
  <2>2. next \in {"fakeResult", "submit"}
    OBVIOUS
  <2> HIDE DEF s, next
  <2>. QED BY <1>0, <1>1, <1>3, <2>1, <2>2 DEF StateOK, DecidedPc
<1>5. CASE db' = [db EXCEPT ![d] = row] /\ consumer' = [consumer EXCEPT ![c] = s]
  <2> HIDE DEF row, s
  <2>. QED BY <1>0, <1>2, <1>3, <1>4, <1>5, MemoryInv
<1>6. CASE Raise(c) /\ UNCHANGED db
  BY <1>0, <1>1, <1>6, SameRow, RaiseInv
<1>. QED BY <1>5, <1>6 DEF StartOcr

\* Moving on without touching the database.
LEMMA OnlyGotoInv ==
  ASSUME Inv, NEW c \in Consumers, consumer[c].pc # "idle",
         NEW next, Reaches(c, next), Goto(c, next),
         UNCHANGED <<fixed, db, queue, textract, request>>
  PROVE  Inv'
  BY Handling, SameRow, GotoInv

LEMMA ResumeJobInv ==
  ASSUME Inv, NEW c \in Consumers, ResumeJob(c)
  PROVE  Inv'
<1>1. Reaches(c, "recordJob") /\ consumer[c].pc # "idle"
  BY PlainReach DEF ResumeJob, At, Pc, ReadyPc, DecidedPc
<1>. QED BY <1>1, OnlyGotoInv DEF ResumeJob

LEMMA SubmitRaisesInv ==
  ASSUME Inv, NEW c \in Consumers, SubmitRaises(c)
  PROVE  Inv'
<1>1. Reaches(c, "failOcr") /\ consumer[c].pc # "idle"
  BY PlainReach DEF SubmitRaises, At, Pc, ReadyPc, DecidedPc
<1>. QED BY <1>1, OnlyGotoInv DEF SubmitRaises

LEMMA SubmitTooLargeInv ==
  ASSUME Inv, NEW c \in Consumers, SubmitTooLarge(c)
  PROVE  Inv'
<1>1. Reaches(c, "refuseOcr") /\ consumer[c].pc # "idle"
  BY PlainReach DEF SubmitTooLarge, At, Pc, ReadyPc, DecidedPc
<1>. QED BY <1>1, OnlyGotoInv DEF SubmitTooLarge

\* A job is bought for a document with a manifest.
LEMMA BuyInv ==
  ASSUME Inv, NEW c \in Consumers, NEW s \in ConsumerState,
         consumer' = [consumer EXCEPT ![c] = s], StateOK(s, content, queue, db),
         NEW d \in Docs, db[d].manifest # NULL, Len(textract[d]) < MaxTextract,
         NEW job \in TextractJob, job.token.nonce = 0, job.token.features \in FeatureKeys,
         textract' = [textract EXCEPT ![d] = Append(@, job)],
         UNCHANGED <<fixed, db, queue, request>>
  PROVE  Inv'
<1>0. UNCHANGED <<content, settings>>
  BY DEF fixed
<1>1. /\ textract \in [Docs -> Seq(TextractJob)]
      /\ textract' \in [Docs -> Seq(TextractJob)]
      /\ textract'[d] = Append(textract[d], job)
      /\ \A e \in Docs : e # d => textract'[e] = textract[e]
  BY DEF Inv, TypeOK
<1>2. TypeOK'
  BY <1>0, <1>1 DEF Inv, TypeOK
<1>3. MaxTextract \in Nat
  BY StateAssumption
<1>4. ASSUME NEW e \in Docs PROVE RowOK(content[e], db[e])' /\ JobsOK(textract[e], db[e])'
  <2>1. RowOK(content[e], db[e]) /\ JobsOK(textract[e], db[e])
    BY DEF Inv
  <2>2. CASE e = d
    <3>1. textract[d] \in Seq(TextractJob) /\ Len(textract'[d]) = Len(textract[d]) + 1
          /\ \A n \in 1..Len(textract[d]) : textract'[d][n] = textract[d][n]
          /\ textract'[d][Len(textract[d]) + 1] = job
          /\ DOMAIN textract'[d] = 1..Len(textract[d]) + 1
      BY <1>1
    <3>2. Len(textract'[d]) <= MaxTextract
      BY <1>3, <3>1
    <3>3. \A n \in DOMAIN textract'[d] : /\ textract'[d][n].token.nonce = 0
                                         /\ textract'[d][n].token.features \in FeatureKeys
      BY <2>1, <2>2, <3>1 DEF JobsOK
    <3>. QED BY <1>0, <2>1, <2>2, <3>2, <3>3 DEF RowOK, JobsOK
  <2>3. CASE e # d
    BY <1>0, <1>1, <2>1, <2>3
  <2>. QED BY <2>2, <2>3
<1>5. ASSUME NEW e \in Consumers PROVE StateOK(consumer[e], content, queue, db)'
  BY <1>0 DEF Inv, TypeOK
<1>6. ASSUME NEW m \in Messages PROVE EntryOK(m, queue[m], textract[m.doc])'
  <2>1. EntryOK(m, queue[m], textract[m.doc]) /\ m.doc \in Docs
    BY DEF Inv, Messages
  <2>2. DOMAIN textract[m.doc] \subseteq DOMAIN textract'[m.doc]
    BY <1>1, <2>1
  <2>. QED BY <2>1, <2>2 DEF EntryOK
<1>7. \A r \in Requests : (request[r].pc # "idle" => request[r].doc \in Docs)'
  BY DEF Inv
<1>. QED BY <1>2, <1>4, <1>5, <1>6, <1>7 DEF Inv

\* What a handler that submits holds, and what it may hold next.
LEMMA Submitting ==
  ASSUME Inv, NEW c \in Consumers, consumer[c].pc = "submit",
         NEW next \in {"recordJob", "failOcr"}, NEW ext \in ExternalJobId
  PROVE  LET s == [consumer[c] EXCEPT !.ext = ext, !.pc = next]
             t == [consumer[c] EXCEPT !.pc = next]
         IN /\ s \in ConsumerState /\ s.cur = consumer[c].cur
            /\ StateOK(s, content, queue, db)
            /\ t \in ConsumerState /\ t.cur = consumer[c].cur
            /\ StateOK(t, content, queue, db)
<1> DEFINE s == [consumer[c] EXCEPT !.ext = ext, !.pc = next]
<1> DEFINE t == [consumer[c] EXCEPT !.pc = next]
<1>1. consumer[c] \in ConsumerState /\ StateOK(consumer[c], content, queue, db)
  BY Handling
<1>2. next \in Pc
  BY DEF Pc, ReadyPc
<1>3. s \in ConsumerState /\ t \in ConsumerState
  BY <1>1, <1>2 DEF ConsumerState
<1>4. /\ s.pc = next /\ s.cur = consumer[c].cur /\ s.batch = consumer[c].batch
      /\ s.verdict = consumer[c].verdict
      /\ t.pc = next /\ t.cur = consumer[c].cur /\ t.batch = consumer[c].batch
      /\ t.verdict = consumer[c].verdict
  BY <1>1 DEF ConsumerState
<1>5. StateOK(s, content, queue, db) /\ StateOK(t, content, queue, db)
  <2> HIDE DEF s, t
  <2>. QED BY <1>1, <1>4 DEF StateOK, DecidedPc
<1>. QED BY <1>3, <1>4, <1>5

LEMMA SubmitJobInv ==
  ASSUME Inv, NEW c \in Consumers, SubmitJob(c)
  PROVE  Inv'
<1> DEFINE d == Doc(c)
<1> DEFINE token == Token(d, consumer[c].key)
<1> DEFINE job == [token |-> token, api |-> consumer[c].route, pages |-> consumer[c].pages,
                   epoch |-> consumer[c].row, state |-> "IN_PROGRESS"]
<1> DEFINE Next1(n) == [consumer EXCEPT ![c].ext = n, ![c].pc = "recordJob"]
<1>0. consumer[c].pc = "submit" /\ UNCHANGED <<fixed, db, queue, request>>
  BY DEF SubmitJob, At
<1>1. /\ d \in Docs /\ consumer[c] \in ConsumerState
      /\ StateOK(consumer[c], content, queue, db)
      /\ consumer[c].route \in TextractRoutes /\ consumer[c].key \in FeatureKeys
      /\ db[d].manifest # NULL
  BY <1>0, Handling DEF StateOK, DecidedPc, Doc
<1>2. JobsOK(textract[d], db[d]) /\ textract[d] \in Seq(TextractJob) /\ MaxTextract \in Nat
  BY <1>1, StateAssumption DEF Inv, TypeOK
<1>3. job \in TextractJob /\ job.token.nonce = 0 /\ job.token.features \in FeatureKeys
  <2>1. token \in TextractToken /\ token.nonce = 0 /\ token.features \in FeatureKeys
    BY <1>1, <1>2 DEF Token, TextractToken
  <2> HIDE DEF token
  <2>. QED BY <1>1, <2>1 DEF TextractJob, ConsumerState
<1>4. CASE /\ Len(textract[d]) < MaxTextract
           /\ textract' = [textract EXCEPT ![d] = Append(@, job)]
           /\ \/ consumer' = Next1(Len(textract[d]) + 1)
              \/ Goto(c, "failOcr")
  <2>1. Len(textract[d]) + 1 \in ExternalJobId
    BY <1>2, <1>4 DEF ExternalJobId
  <2>2. CASE consumer' = Next1(Len(textract[d]) + 1)
    <3> DEFINE s == [consumer[c] EXCEPT !.ext = Len(textract[d]) + 1, !.pc = "recordJob"]
    <3>1. s \in ConsumerState /\ StateOK(s, content, queue, db)
      BY <1>0, <2>1, Submitting
    <3>2. consumer' = [consumer EXCEPT ![c] = s]
      BY <2>2
    <3> HIDE DEF s, job
    <3>. QED BY <1>0, <1>1, <1>3, <1>4, <3>1, <3>2, BuyInv
  <2>3. CASE Goto(c, "failOcr")
    <3> DEFINE s == [consumer[c] EXCEPT !.pc = "failOcr"]
    <3>1. s \in ConsumerState /\ StateOK(s, content, queue, db)
      BY <1>0, <2>1, Submitting
    <3>2. consumer' = [consumer EXCEPT ![c] = s]
      BY <2>3 DEF Goto
    <3> HIDE DEF s, job
    <3>. QED BY <1>0, <1>1, <1>3, <1>4, <3>1, <3>2, BuyInv
  <2>. QED BY <1>4, <2>2, <2>3
<1>5. ASSUME NEW n \in DOMAIN textract[d], consumer' = Next1(n), UNCHANGED textract
      PROVE  Inv'
  <2>1. n \in ExternalJobId
    BY <1>2 DEF JobsOK, ExternalJobId
  <2> DEFINE s == [consumer[c] EXCEPT !.ext = n, !.pc = "recordJob"]
  <2>2. s \in ConsumerState /\ s.cur = consumer[c].cur /\ StateOK(s, content, queue, db)
    BY <1>0, <2>1, Submitting
  <2>3. consumer' = [consumer EXCEPT ![c] = s]
    BY <1>5
  <2>4. db' = [db EXCEPT ![d] = db[d]] /\ db[d] \in DocumentRow /\ RowOK(content[d], db[d])
    BY <1>0, <1>1, SameRow
  <2> HIDE DEF s
  <2>. QED BY <1>0, <1>5, <2>2, <2>3, <2>4, MemoryInv
<1>6. ASSUME Goto(c, "failOcr"), UNCHANGED textract PROVE Inv'
  <2>1. Reaches(c, "failOcr")
    BY <1>0, PlainReach DEF Pc, ReadyPc, DecidedPc
  <2>. QED BY <1>0, <1>6, <2>1, OnlyGotoInv
<1>. QED BY <1>4, <1>5, <1>6 DEF SubmitJob, Started

LEMMA RecordJobInv ==
  ASSUME Inv, NEW c \in Consumers, RecordJob(c)
  PROVE  Inv'
<1> DEFINE d == Doc(c)
<1> DEFINE row == [db[d] EXCEPT !.ext = consumer[c].ext]
<1>0. consumer[c].pc = "recordJob" /\ UNCHANGED <<fixed, queue, textract, request>>
  BY DEF RecordJob, At
<1>1. /\ d \in Docs /\ db[d] \in DocumentRow /\ RowOK(content[d], db[d])
      /\ consumer[c] \in ConsumerState
  BY <1>0, Handling
<1>2. row \in DocumentRow /\ row.manifest = db[d].manifest
      /\ row.forced = db[d].forced /\ row.jobs = db[d].jobs
  BY <1>1 DEF DocumentRow, ConsumerState
<1>3. Reaches(c, "delete")
  BY <1>0, PlainReach DEF Pc, DecidedPc
<1>4. CASE db' = [db EXCEPT ![d] = row] /\ Goto(c, "delete")
  <2> HIDE DEF row
  <2>. QED BY <1>0, <1>1, <1>2, <1>3, <1>4, WithColumn, GotoInv
<1>5. CASE Raise(c) /\ UNCHANGED db
  BY <1>0, <1>1, <1>5, SameRow, RaiseInv
<1>. QED BY <1>4, <1>5 DEF RecordJob

LEMMA FailOcrInv ==
  ASSUME Inv, NEW c \in Consumers, FailOcr(c)
  PROVE  Inv'
  BY FailureInv DEF FailOcr, At, PipelineStage

LEMMA RefuseOcrInv ==
  ASSUME Inv, NEW c \in Consumers, RefuseOcr(c)
  PROVE  Inv'
<1>1. Reaches(c, "quarantineDocument") /\ consumer[c].pc # "idle"
  BY PlainReach DEF RefuseOcr, At, Pc, ReadyPc, DecidedPc
<1>2. "OCR" \in PipelineStage /\ "QUARANTINED" \in PipelineJobStatus
  BY DEF PipelineStage, PipelineJobStatus
<1>. QED BY <1>1, <1>2, SaveJobInv DEF RefuseOcr

LEMMA FakeResultInv ==
  ASSUME Inv, NEW c \in Consumers, FakeResult(c)
  PROVE  Inv'
<1> DEFINE d == Doc(c)
<1> DEFINE row == [db[d] EXCEPT !.result = FakeJob]
<1>0. consumer[c].pc = "fakeResult"
  BY DEF FakeResult, At
<1>1. d \in Docs /\ db[d] \in DocumentRow /\ RowOK(content[d], db[d])
  BY <1>0, Handling
<1>2. row \in DocumentRow /\ row.manifest = db[d].manifest
      /\ row.forced = db[d].forced /\ row.jobs = db[d].jobs
  <2>1. FakeJob \in ExternalJobId
    BY StateAssumption DEF FakeJob, ExternalJobId
  <2>. QED BY <1>1, <2>1 DEF DocumentRow
<1>3. Reaches(c, "fakeRecord")
  BY <1>0, PlainReach DEF Pc, ReadyPc, DecidedPc
<1>4. db' = [db EXCEPT ![d] = row]
  BY DEF FakeResult
<1> HIDE DEF row
<1>. QED BY <1>0, <1>1, <1>2, <1>3, <1>4, WithColumn, GotoInv DEF FakeResult

LEMMA FakeRecordInv ==
  ASSUME Inv, NEW c \in Consumers, FakeRecord(c)
  PROVE  Inv'
<1> DEFINE d == Doc(c)
<1> DEFINE row == [db[d] EXCEPT !.ext = FakeJob]
<1>0. consumer[c].pc = "fakeRecord" /\ UNCHANGED <<fixed, queue, textract, request>>
  BY DEF FakeRecord, At
<1>1. d \in Docs /\ db[d] \in DocumentRow /\ RowOK(content[d], db[d])
  BY <1>0, Handling
<1>2. row \in DocumentRow /\ row.manifest = db[d].manifest
      /\ row.forced = db[d].forced /\ row.jobs = db[d].jobs
  <2>1. FakeJob \in ExternalJobId
    BY StateAssumption DEF FakeJob, ExternalJobId
  <2>. QED BY <1>1, <2>1 DEF DocumentRow
<1>3. Reaches(c, "completeOcr")
  BY <1>0, PlainReach DEF Pc, CompletionPc, DecidedPc
<1>4. CASE db' = [db EXCEPT ![d] = row] /\ Goto(c, "completeOcr")
  <2> HIDE DEF row
  <2>. QED BY <1>0, <1>1, <1>2, <1>3, <1>4, WithColumn, GotoInv
<1>5. CASE Raise(c) /\ UNCHANGED db
  BY <1>0, <1>1, <1>5, SameRow, RaiseInv
<1>. QED BY <1>4, <1>5 DEF FakeRecord

LEMMA ReadyStepInv ==
  ASSUME Inv, NEW c \in Consumers, ReadyStep(c)
  PROVE  Inv'
  BY LookupPreprocessInv, StartPreprocessInv, PreprocessInv, ReplaceManifestInv,
     CompletePreprocessInv, MarkProcessingInv, FailPreprocessInv, RefusePreprocessInv,
     QuarantineDocumentInv, LookupOcrInv, SkipOcrInv, StartOcrInv, ResumeJobInv,
     SubmitJobInv, SubmitRaisesInv, SubmitTooLargeInv, RecordJobInv, FailOcrInv,
     RefuseOcrInv, FakeResultInv, FakeRecordInv
  DEF ReadyStep

(***************************************************************************)
(* handle_textract_completed, one lemma per action.                        *)
(***************************************************************************)

LEMMA LookupCompletedInv ==
  ASSUME Inv, NEW c \in Consumers, LookupCompleted(c)
  PROVE  Inv'
<1> DEFINE d == Doc(c)
<1> DEFINE old == db[d].jobs["OCR"]
<1> DEFINE status == IF old = NULL THEN "PENDING" ELSE old
<1> DEFINE next == IF Job(c).state = "SUCCEEDED" THEN "fetch" ELSE "quarantineOcr"
<1> DEFINE row == [db[d] EXCEPT !.jobs["OCR"] = status]
<1> DEFINE s == [consumer[c] EXCEPT !.row = db[d].epoch, !.pc = next]
<1>0. consumer[c].pc = "lookupCompleted"
  BY DEF LookupCompleted, At
<1>1. /\ d \in Docs /\ db[d] \in DocumentRow /\ RowOK(content[d], db[d])
      /\ consumer[c] \in ConsumerState /\ StateOK(consumer[c], content, queue, db)
  BY <1>0, Handling
<1>2. status \in PipelineJobStatus
  BY <1>1 DEF DocumentRow, PipelineStage, PipelineJobStatus
<1>3. row \in DocumentRow /\ RowOK(content[d], row)
      /\ (db[d].manifest # NULL => row.manifest # NULL)
  <2> HIDE DEF status
  <2>. QED BY <1>1, <1>2, WithJob, "OCR" \in PipelineStage DEF PipelineStage
<1>4. s \in ConsumerState /\ s.cur = consumer[c].cur
  <2>1. next \in Pc /\ db[d].epoch \in 0..MaxReprocess
    BY <1>1 DEF Pc, CompletionPc, DocumentRow
  <2> HIDE DEF next
  <2>. QED BY <1>1, <2>1 DEF ConsumerState
<1>5. StateOK(s, content, queue, db)
  <2>1. s.pc = next /\ s.batch = consumer[c].batch /\ s.verdict = consumer[c].verdict
    BY <1>1 DEF ConsumerState
  <2>2. next \in {"fetch", "quarantineOcr"}
    OBVIOUS
  <2> HIDE DEF s, next
  <2>. QED BY <1>0, <1>1, <1>4, <2>1, <2>2 DEF StateOK, DecidedPc
<1>6. db' = [db EXCEPT ![d] = row] /\ consumer' = [consumer EXCEPT ![c] = s]
      /\ UNCHANGED <<fixed, queue, textract, request>>
  BY DEF LookupCompleted
<1> HIDE DEF row, s
<1>. QED BY <1>0, <1>3, <1>4, <1>5, <1>6, MemoryInv

LEMMA QuarantineOcrInv ==
  ASSUME Inv, NEW c \in Consumers, QuarantineOcr(c)
  PROVE  Inv'
<1>1. Reaches(c, "failDocument") /\ consumer[c].pc # "idle"
  BY PlainReach DEF QuarantineOcr, At, Pc, CompletionPc, DecidedPc
<1>2. "OCR" \in PipelineStage /\ "QUARANTINED" \in PipelineJobStatus
  BY DEF PipelineStage, PipelineJobStatus
<1>. QED BY <1>1, <1>2, SaveJobInv DEF QuarantineOcr

LEMMA FailDocumentInv ==
  ASSUME Inv, NEW c \in Consumers, FailDocument(c)
  PROVE  Inv'
<1>1. Reaches(c, "delete") /\ consumer[c].pc # "idle"
  BY PlainReach DEF FailDocument, At, Pc, DecidedPc
<1>2. "FAILED" \in DocumentStatus
  BY DEF DocumentStatus
<1>. QED BY <1>1, <1>2, SaveStatusInv DEF FailDocument

LEMMA FetchInv ==
  ASSUME Inv, NEW c \in Consumers, Fetch(c)
  PROVE  Inv'
<1> DEFINE d == Doc(c)
<1> DEFINE m == consumer[c].cur.msg
<1> DEFINE row == [db[d] EXCEPT !.result = m.n]
<1> DEFINE s == [consumer[c] EXCEPT !.pages = Job(c).pages, !.pc = "completeOcr"]
<1>0. consumer[c].pc = "fetch" /\ UNCHANGED <<fixed, queue, textract, request>>
  BY DEF Fetch, At
<1>1. /\ d \in Docs /\ db[d] \in DocumentRow /\ RowOK(content[d], db[d])
      /\ consumer[c] \in ConsumerState /\ StateOK(consumer[c], content, queue, db)
      /\ m \in Messages /\ m.kind = "completed"
  BY <1>0, Handling DEF StateOK
<1>2. m.n \in DOMAIN textract[d] /\ m.n \in 1..MaxTextract
  <2>1. EntryOK(m, queue[m], textract[m.doc]) /\ queue[m].at # "none"
    BY <1>0, <1>1 DEF Inv, StateOK
  <2>. QED BY <1>1, <2>1 DEF EntryOK, Doc, Messages
<1>3. Job(c).pages \in SUBSET Pages
  <2>1. textract[d][m.n] \in TextractJob
    BY <1>1, <1>2 DEF Inv, TypeOK
  <2>. QED BY <2>1 DEF Job, Doc, TextractJob
<1>4. row \in DocumentRow /\ row.manifest = db[d].manifest
      /\ row.forced = db[d].forced /\ row.jobs = db[d].jobs
  <2>1. m.n \in ExternalJobId
    BY <1>2, StateAssumption DEF ExternalJobId
  <2>. QED BY <1>1, <2>1 DEF DocumentRow
<1>5. s \in ConsumerState /\ s.cur = consumer[c].cur
  BY <1>1, <1>3 DEF ConsumerState, Pc, CompletionPc
<1>6. StateOK(s, content, queue, db)
  <2>1. s.pc = "completeOcr" /\ s.batch = consumer[c].batch
        /\ s.verdict = consumer[c].verdict
    BY <1>1 DEF ConsumerState
  <2> HIDE DEF s
  <2>. QED BY <1>0, <1>1, <1>5, <2>1 DEF StateOK, DecidedPc
<1>7. CASE /\ db' = [db EXCEPT ![d] = row]
           /\ consumer' = [consumer EXCEPT ![c] = s]
  <2> HIDE DEF row, s
  <2>. QED BY <1>0, <1>1, <1>4, <1>5, <1>6, <1>7, WithColumn, MemoryInv
<1>8. CASE Raise(c) /\ UNCHANGED db
  BY <1>0, <1>1, <1>8, SameRow, RaiseInv
<1>. QED BY <1>7, <1>8 DEF Fetch

LEMMA CompleteOcrInv ==
  ASSUME Inv, NEW c \in Consumers, CompleteOcr(c)
  PROVE  Inv'
<1>1. Reaches(c, "startNormalize") /\ consumer[c].pc # "idle"
  BY PlainReach DEF CompleteOcr, At, Pc, CompletionPc, DecidedPc
<1>2. "OCR" \in PipelineStage /\ "COMPLETED" \in PipelineJobStatus
  BY DEF PipelineStage, PipelineJobStatus
<1>. QED BY <1>1, <1>2, SaveJobInv DEF CompleteOcr

\* Any other step of this handler: where it goes nothing more is relied on.
LEMMA MoveInv ==
  ASSUME Inv, NEW c \in Consumers, consumer[c].pc # "idle",
         NEW s \in ConsumerState, consumer' = [consumer EXCEPT ![c] = s],
         s.cur = consumer[c].cur, s.batch = consumer[c].batch,
         s.pc \in CompletionPc \ {"lookupCompleted", "fetch", "mark"},
         s.verdict = "PROCESSED" => s.pc \in {"completeExtract", "settle"},
         NEW row \in DocumentRow, db' = [db EXCEPT ![Doc(c)] = row],
         RowOK(content[Doc(c)], row),
         db[Doc(c)].manifest # NULL => row.manifest # NULL,
         UNCHANGED <<fixed, queue, textract, request>>
  PROVE  Inv'
<1>1. StateOK(consumer[c], content, queue, db)
  BY Handling
<1>2. StateOK(s, content, queue, db)
  BY <1>1 DEF StateOK, DecidedPc, CompletionPc
<1>. QED BY <1>2, MemoryInv

\* The same without a write.
LEMMA OnlyMoveInv ==
  ASSUME Inv, NEW c \in Consumers, consumer[c].pc # "idle",
         NEW s \in ConsumerState, consumer' = [consumer EXCEPT ![c] = s],
         s.cur = consumer[c].cur, s.batch = consumer[c].batch,
         s.pc \in CompletionPc \ {"lookupCompleted", "fetch", "mark"},
         s.verdict = "PROCESSED" => s.pc \in {"completeExtract", "settle"},
         UNCHANGED <<fixed, db, queue, textract, request>>
  PROVE  Inv'
  BY Handling, SameRow, MoveInv

\* start_job of NORMALIZE or EXTRACT: the handler holds that row from here.
LEMMA HoldRowInv ==
  ASSUME Inv, NEW c \in Consumers, consumer[c].pc \notin {"idle", "completeExtract", "settle", "delete"},
         NEW stage \in PipelineStage \ {"PREPROCESS"},
         NEW next \in {"writeElements", "tables"},
         db' = [db EXCEPT ![Doc(c)].jobs[stage] = "STARTED"],
         consumer' = [consumer EXCEPT ![c].row = db[Doc(c)].epoch, ![c].pc = next],
         UNCHANGED <<fixed, queue, textract, request>>
  PROVE  Inv'
<1> DEFINE d == Doc(c)
<1> DEFINE row == [db[d] EXCEPT !.jobs[stage] = "STARTED"]
<1> DEFINE s == [consumer[c] EXCEPT !.row = db[d].epoch, !.pc = next]
<1>1. /\ d \in Docs /\ db[d] \in DocumentRow /\ RowOK(content[d], db[d])
      /\ consumer[c] \in ConsumerState /\ StateOK(consumer[c], content, queue, db)
  BY Handling
<1>2. row \in DocumentRow /\ RowOK(content[d], row)
      /\ (db[d].manifest # NULL => row.manifest # NULL)
  BY <1>1, WithJob, "STARTED" \in PipelineJobStatus DEF PipelineJobStatus
<1>3. /\ s \in ConsumerState
      /\ s.cur = consumer[c].cur /\ s.batch = consumer[c].batch
      /\ s.pc = next /\ s.verdict = consumer[c].verdict
  <2>1. next \in Pc /\ db[d].epoch \in 0..MaxReprocess
    BY <1>1 DEF Pc, CompletionPc, DocumentRow
  <2>. QED BY <1>1, <2>1 DEF ConsumerState
<1>4. s.verdict # "PROCESSED"
  BY <1>1, <1>3 DEF StateOK
<1>5. next \in CompletionPc
  BY DEF CompletionPc
<1>6. db' = [db EXCEPT ![d] = row] /\ consumer' = [consumer EXCEPT ![c] = s]
  OBVIOUS
<1> HIDE DEF row, s
<1>. QED BY <1>2, <1>3, <1>4, <1>5, <1>6, MoveInv

LEMMA StartNormalizeInv ==
  ASSUME Inv, NEW c \in Consumers, StartNormalize(c)
  PROVE  Inv'
  BY HoldRowInv DEF StartNormalize, At, PipelineStage

\* The cited page is a page, whatever was submitted and is routed now.
LEMMA PageMapType ==
  ASSUME NEW submitted \in SUBSET Pages, NEW routed \in SUBSET Pages
  PROVE  PageMap(submitted, routed) \in SUBSET (Pages \X Pages)
<1>1. ASSUME NEW p \in submitted PROVE Rank(p, submitted) \in Pages
  <2> DEFINE S == {q \in submitted : q <= p}
  <2>0. NumPages \in Nat /\ p \in 1..NumPages
    BY StateAssumption DEF Pages
  <2>1. IsFiniteSet(1..NumPages) /\ Cardinality(1..NumPages) = NumPages
    BY <2>0, FS_Interval, 0 \in Int
  <2>2. S \subseteq 1..NumPages
    BY DEF Pages
  <2>3. IsFiniteSet(S) /\ Cardinality(S) <= NumPages /\ Cardinality(S) \in Nat
    BY <2>1, <2>2, FS_Subset, FS_CardinalityType
  <2>4. p \in S
    BY <2>0, <2>2
  <2>5. Cardinality(S) # 0
    BY <2>3, <2>4, FS_EmptySet
  <2>. QED BY <2>0, <2>3, <2>5 DEF Rank, Pages
<1>2. CASE routed = {}
  BY <1>1, <1>2 DEF PageMap
<1>3. CASE routed # {}
  BY <1>3 DEF PageMap
<1>. QED BY <1>2, <1>3

LEMMA WriteElementsInv ==
  ASSUME Inv, NEW c \in Consumers, WriteElements(c)
  PROVE  Inv'
<1> DEFINE d == Doc(c)
<1> DEFINE routed == PagesRouted(db[d].manifest, TextractRoutes)
<1> DEFINE elements == PageMap(consumer[c].pages, routed)
<1> DEFINE row == [db[d] EXCEPT !.elements = elements]
<1>0. consumer[c].pc = "writeElements" /\ UNCHANGED <<fixed, queue, textract, request>>
  BY DEF WriteElements, At
<1>1. /\ d \in Docs /\ db[d] \in DocumentRow /\ RowOK(content[d], db[d])
      /\ consumer[c] \in ConsumerState
  BY <1>0, Handling
<1>2. elements \in SUBSET (Pages \X Pages)
  <2>1. consumer[c].pages \in SUBSET Pages /\ routed \in SUBSET Pages
    BY <1>1 DEF ConsumerState, PagesRouted
  <2> HIDE DEF routed
  <2>. QED BY <2>1, PageMapType
<1>3. row \in DocumentRow /\ row.manifest = db[d].manifest
      /\ row.forced = db[d].forced /\ row.jobs = db[d].jobs
  <2> HIDE DEF elements
  <2>. QED BY <1>1, <1>2 DEF DocumentRow
<1>4. Reaches(c, "completeNormalize") /\ Reaches(c, "failNormalize")
  BY <1>0, PlainReach DEF Pc, CompletionPc, DecidedPc
<1>5. CASE db' = [db EXCEPT ![d] = row] /\ Goto(c, "completeNormalize")
  <2> HIDE DEF row
  <2>. QED BY <1>0, <1>1, <1>3, <1>4, <1>5, WithColumn, GotoInv
<1>6. CASE Goto(c, "failNormalize") /\ UNCHANGED db
  BY <1>0, <1>4, <1>6, OnlyGotoInv
<1>. QED BY <1>5, <1>6 DEF WriteElements

LEMMA FailNormalizeInv ==
  ASSUME Inv, NEW c \in Consumers, FailNormalize(c)
  PROVE  Inv'
  BY FailureInv DEF FailNormalize, At, PipelineStage

LEMMA CompleteNormalizeInv ==
  ASSUME Inv, NEW c \in Consumers, CompleteNormalize(c)
  PROVE  Inv'
<1>1. Reaches(c, "extract") /\ consumer[c].pc # "idle"
  BY PlainReach DEF CompleteNormalize, At, Pc, CompletionPc, DecidedPc
<1>2. "NORMALIZE" \in PipelineStage /\ "COMPLETED" \in PipelineJobStatus
  BY DEF PipelineStage, PipelineJobStatus
<1>. QED BY <1>1, <1>2, SaveJobInv DEF CompleteNormalize

(***************************************************************************)
(* run_extraction, one lemma per action.                                   *)
(***************************************************************************)

\* mark never touches PREPROCESS.
LEMMA WithMarked ==
  ASSUME NEW row \in DocumentRow, NEW status \in PipelineJobStatus,
         NEW file, RowOK(file, row)
  PROVE  LET new == [row EXCEPT !.jobs = Marked(row.jobs, status)] IN
         /\ new \in DocumentRow
         /\ RowOK(file, new)
         /\ row.manifest # NULL => new.manifest # NULL
<1> DEFINE jobs == Marked(row.jobs, status)
<1> DEFINE new == [row EXCEPT !.jobs = jobs]
<1>1. row.jobs \in [PipelineStage -> PipelineJobStatus \cup {NULL}]
  BY DEF DocumentRow
<1>2. /\ jobs \in [PipelineStage -> PipelineJobStatus \cup {NULL}]
      /\ jobs["PREPROCESS"] = row.jobs["PREPROCESS"]
  BY <1>1 DEF Marked, PipelineStage
<1>3. /\ new \in DocumentRow /\ new.jobs = jobs
      /\ new.manifest = row.manifest /\ new.forced = row.forced
  <2> HIDE DEF jobs
  <2>. QED BY <1>2 DEF DocumentRow
<1> HIDE DEF new, jobs
<1>4. RowOK(file, new)
  BY <1>2, <1>3 DEF RowOK
<1>5. row.manifest # NULL => new.manifest # NULL
  BY <1>3
<1>. QED BY <1>3, <1>4, <1>5 DEF new, jobs

LEMMA ExtractInv ==
  ASSUME Inv, NEW c \in Consumers, Extract(c)
  PROVE  Inv'
<1> DEFINE d == Doc(c)
<1> DEFINE row == [db[d] EXCEPT !.jobs = Marked(db[d].jobs, "SKIPPED")]
<1> DEFINE s == [consumer[c] EXCEPT !.verdict = "PROCESSED", !.pc = "settle"]
<1>0. consumer[c].pc = "extract" /\ UNCHANGED <<fixed, queue, textract, request>>
  BY DEF Extract, At
<1>1. /\ d \in Docs /\ db[d] \in DocumentRow /\ RowOK(content[d], db[d])
      /\ consumer[c] \in ConsumerState
  BY <1>0, Handling
<1>2. CASE /\ db' = [db EXCEPT ![d] = row]
           /\ consumer' = [consumer EXCEPT ![c] = s]
  <2>1. row \in DocumentRow /\ RowOK(content[d], row)
        /\ (db[d].manifest # NULL => row.manifest # NULL)
    BY <1>1, WithMarked, "SKIPPED" \in PipelineJobStatus DEF PipelineJobStatus
  <2>2. /\ s \in ConsumerState
        /\ s.cur = consumer[c].cur /\ s.batch = consumer[c].batch
        /\ s.pc = "settle" /\ s.verdict = "PROCESSED"
    BY <1>1 DEF ConsumerState, Pc, CompletionPc
  <2>3. "settle" \in CompletionPc
    BY DEF CompletionPc
  <2> HIDE DEF row, s
  <2>. QED BY <1>0, <1>2, <2>1, <2>2, <2>3, MoveInv
<1>3. CASE /\ db' = [db EXCEPT ![d].jobs["EXTRACT"] = "STARTED"]
           /\ consumer' = [consumer EXCEPT ![c].row = db[d].epoch, ![c].pc = "tables"]
  BY <1>0, <1>3, HoldRowInv, "EXTRACT" \in PipelineStage DEF PipelineStage
<1>. QED BY <1>2, <1>3 DEF Extract

\* A stage that raises leads to run's except branch with a verdict of its own.
LEMMA RunRaisesInv ==
  ASSUME Inv, NEW c \in Consumers, consumer[c].pc # "idle",
         NEW stage, RunRaises(c, stage, "failRun"),
         NEW row \in DocumentRow, db' = [db EXCEPT ![Doc(c)] = row],
         RowOK(content[Doc(c)], row),
         db[Doc(c)].manifest # NULL => row.manifest # NULL,
         UNCHANGED <<fixed, queue, textract, request>>
  PROVE  Inv'
<1>1. PICK verdict \in {"FAILED", "QUARANTINED", NULL} :
        consumer' = [consumer EXCEPT ![c].verdict = verdict, ![c].pc = "failRun"]
  BY DEF RunRaises, Verdicts
<1> DEFINE s == [consumer[c] EXCEPT !.verdict = verdict, !.pc = "failRun"]
<1>2. consumer[c] \in ConsumerState
  BY Handling
<1>3. /\ s \in ConsumerState
      /\ s.cur = consumer[c].cur /\ s.batch = consumer[c].batch
      /\ s.pc = "failRun" /\ s.verdict = verdict
  BY <1>2 DEF ConsumerState, Pc, CompletionPc
<1>4. s.verdict # "PROCESSED"
  BY <1>3, StateAssumption DEF DocumentStatus
<1>5. consumer' = [consumer EXCEPT ![c] = s] /\ "failRun" \in CompletionPc
  BY <1>1 DEF CompletionPc
<1> HIDE DEF s
<1>. QED BY <1>3, <1>4, <1>5, MoveInv

LEMMA TablesInv ==
  ASSUME Inv, NEW c \in Consumers, Tables(c)
  PROVE  Inv'
<1>0. consumer[c].pc = "tables" /\ UNCHANGED <<fixed, db, queue, textract, request>>
  BY DEF Tables, At
<1>1. consumer[c] \in ConsumerState /\ Doc(c) \in Docs
  BY <1>0, Handling
<1>2. CASE Goto(c, "startLink")
  <2>1. Reaches(c, "startLink")
    BY <1>0, PlainReach DEF Pc, CompletionPc, DecidedPc
  <2>. QED BY <1>0, <1>2, <2>1, OnlyGotoInv
<1>3. CASE consumer' = [consumer EXCEPT ![c].verdict = "PROCESSED",
                                        ![c].pc = "completeExtract"]
  <2> DEFINE s == [consumer[c] EXCEPT !.verdict = "PROCESSED", !.pc = "completeExtract"]
  <2>1. /\ s \in ConsumerState
        /\ s.cur = consumer[c].cur /\ s.batch = consumer[c].batch
        /\ s.pc = "completeExtract" /\ s.verdict = "PROCESSED"
    BY <1>1 DEF ConsumerState, Pc, CompletionPc
  <2>2. consumer' = [consumer EXCEPT ![c] = s] /\ "completeExtract" \in CompletionPc
    BY <1>3 DEF CompletionPc
  <2> HIDE DEF s
  <2>. QED BY <1>0, <2>1, <2>2, OnlyMoveInv
<1>4. CASE RunRaises(c, "EXTRACT", "failRun")
  BY <1>0, <1>1, <1>4, SameRow, RunRaisesInv
<1>. QED BY <1>2, <1>3, <1>4 DEF Tables

LEMMA StartStageInv ==
  ASSUME Inv, NEW c \in Consumers, consumer[c].pc \notin {"idle", "completeExtract", "settle", "delete"},
         NEW stage \in PipelineStage \ {"PREPROCESS"}, NEW next \in {"link", "match", "price"},
         StartStage(c, stage, next)
  PROVE  Inv'
<1> DEFINE d == Doc(c)
<1> DEFINE row == [db[d] EXCEPT !.jobs[stage] = "STARTED"]
<1> DEFINE s == [consumer[c] EXCEPT !.sub = db[d].epoch, !.pc = next]
<1>1. /\ d \in Docs /\ db[d] \in DocumentRow /\ RowOK(content[d], db[d])
      /\ consumer[c] \in ConsumerState /\ StateOK(consumer[c], content, queue, db)
  BY Handling
<1>2. row \in DocumentRow /\ RowOK(content[d], row)
      /\ (db[d].manifest # NULL => row.manifest # NULL)
  BY <1>1, WithJob, "STARTED" \in PipelineJobStatus DEF PipelineJobStatus
<1>3. /\ s \in ConsumerState
      /\ s.cur = consumer[c].cur /\ s.batch = consumer[c].batch
      /\ s.pc = next /\ s.verdict = consumer[c].verdict
  <2>1. next \in Pc /\ db[d].epoch \in 0..MaxReprocess
    BY <1>1 DEF Pc, CompletionPc, DocumentRow
  <2>. QED BY <1>1, <2>1 DEF ConsumerState
<1>4. s.verdict # "PROCESSED"
  BY <1>1, <1>3 DEF StateOK
<1>5. next \in CompletionPc
  BY DEF CompletionPc
<1>6. db' = [db EXCEPT ![d] = row] /\ consumer' = [consumer EXCEPT ![c] = s]
      /\ UNCHANGED <<fixed, queue, textract, request>>
  BY DEF StartStage
<1> HIDE DEF row, s
<1>. QED BY <1>2, <1>3, <1>4, <1>5, <1>6, MoveInv

\* complete_job or fail_job of the row held as sub, or the except branch of run.
LEMMA SaveStageInv ==
  ASSUME Inv, NEW c \in Consumers, consumer[c].pc # "idle",
         NEW stage \in PipelineStage \ {"PREPROCESS"}, NEW status \in PipelineJobStatus,
         NEW next, Reaches(c, next), Reaches(c, "failRun"),
         SaveStage(c, stage, status, next)
  PROVE  Inv'
<1> DEFINE d == Doc(c)
<1> DEFINE row == [db[d] EXCEPT !.jobs[stage] = status]
<1>1. d \in Docs /\ db[d] \in DocumentRow /\ RowOK(content[d], db[d])
  BY Handling
<1>2. CASE consumer[c].sub = db[d].epoch
  <2>1. db' = [db EXCEPT ![d] = row] /\ Goto(c, next)
    BY <1>2 DEF SaveStage, Goto
  <2>2. row \in DocumentRow /\ RowOK(content[d], row)
        /\ (db[d].manifest # NULL => row.manifest # NULL)
    BY <1>1, WithJob
  <2> HIDE DEF row
  <2>. QED BY <2>1, <2>2, GotoInv DEF SaveStage
<1>3. CASE consumer[c].sub # db[d].epoch
  <2>1. UNCHANGED db /\ Goto(c, "failRun")
    BY <1>3 DEF SaveStage, Goto
  <2>. QED BY <2>1, OnlyGotoInv DEF SaveStage
<1>. QED BY <1>2, <1>3

LEMMA StartLinkInv ==
  ASSUME Inv, NEW c \in Consumers, StartLink(c)
  PROVE  Inv'
  BY StartStageInv DEF StartLink, At, PipelineStage

LEMMA StartMatchInv ==
  ASSUME Inv, NEW c \in Consumers, StartMatch(c)
  PROVE  Inv'
  BY StartStageInv DEF StartMatch, At, PipelineStage

LEMMA StartPriceInv ==
  ASSUME Inv, NEW c \in Consumers, StartPrice(c)
  PROVE  Inv'
  BY StartStageInv DEF StartPrice, At, PipelineStage

LEMMA LinkInv ==
  ASSUME Inv, NEW c \in Consumers, Link(c)
  PROVE  Inv'
<1> DEFINE d == Doc(c)
<1>0. consumer[c].pc = "link" /\ UNCHANGED <<fixed, queue, textract, request>>
  BY DEF Link, At
<1>1. d \in Docs /\ db[d] \in DocumentRow /\ RowOK(content[d], db[d])
  BY <1>0, Handling
<1>2. PICK cites \in BOOLEAN : db' = [db EXCEPT ![d].cited = @ \/ cites]
  BY DEF Link
<1> DEFINE cited == db[d].cited \/ cites
<1> DEFINE row == [db[d] EXCEPT !.cited = cited]
<1>3. db' = [db EXCEPT ![d] = row]
  BY <1>2, Zenon
<1>4. cited \in BOOLEAN
  OBVIOUS
<1>5. row \in DocumentRow /\ row.manifest = db[d].manifest
      /\ row.forced = db[d].forced /\ row.jobs = db[d].jobs
  <2> HIDE DEF cited
  <2>. QED BY <1>1, <1>4 DEF DocumentRow
<1> HIDE DEF row
<1>6. Reaches(c, "completeLink")
  BY <1>0, PlainReach DEF Pc, CompletionPc, DecidedPc
<1>7. RowOK(content[d], row) /\ (db[d].manifest # NULL => row.manifest # NULL)
  BY <1>1, <1>5, WithColumn
<1>8. CASE Goto(c, "completeLink")
  BY <1>0, <1>3, <1>5, <1>6, <1>7, <1>8, GotoInv
<1>9. CASE RunRaises(c, "LINK", "failRun")
  BY <1>0, <1>3, <1>5, <1>7, <1>9, RunRaisesInv
<1>. QED BY <1>8, <1>9 DEF Link

LEMMA CompleteLinkInv ==
  ASSUME Inv, NEW c \in Consumers, CompleteLink(c)
  PROVE  Inv'
<1>0. consumer[c].pc = "completeLink"
  BY DEF CompleteLink, At
<1>1. Reaches(c, "completeExtract") /\ Reaches(c, "failRun")
  BY <1>0, PlainReach DEF Pc, CompletionPc, DecidedPc
<1>2. "LINK" \in PipelineStage /\ "COMPLETED" \in PipelineJobStatus
  BY DEF PipelineStage, PipelineJobStatus
<1>. QED BY <1>0, <1>1, <1>2, SaveStageInv DEF CompleteLink

LEMMA CompleteExtractInv ==
  ASSUME Inv, NEW c \in Consumers, CompleteExtract(c)
  PROVE  Inv'
<1> DEFINE next == IF consumer[c].verdict = NULL THEN "startMatch" ELSE "settle"
<1>0. consumer[c].pc = "completeExtract"
  BY DEF CompleteExtract, At
<1>1. Reaches(c, next)
  BY <1>0, PlainReach DEF Pc, CompletionPc, DecidedPc
<1>2. "EXTRACT" \in PipelineStage /\ "COMPLETED" \in PipelineJobStatus
  BY DEF PipelineStage, PipelineJobStatus
<1>3. SaveJob(c, "EXTRACT", "COMPLETED", next)
  BY DEF CompleteExtract
<1> HIDE DEF next
<1>. QED BY <1>0, <1>1, <1>2, <1>3, SaveJobInv

LEMMA MatchInv ==
  ASSUME Inv, NEW c \in Consumers, Match(c)
  PROVE  Inv'
<1>0. consumer[c].pc = "match"
  BY DEF Match, At
<1>1. Reaches(c, "startPrice") /\ Reaches(c, "failRun")
  BY <1>0, PlainReach DEF Pc, CompletionPc, DecidedPc
<1>2. "MATCH" \in PipelineStage /\ {"COMPLETED", "FAILED"} \subseteq PipelineJobStatus
  BY DEF PipelineStage, PipelineJobStatus
<1>. QED BY <1>0, <1>1, <1>2, SaveStageInv DEF Match

LEMMA PriceInv ==
  ASSUME Inv, NEW c \in Consumers, Price(c)
  PROVE  Inv'
<1> DEFINE d == Doc(c)
<1> DEFINE row == [db[d] EXCEPT !.jobs["PRICE"] = "COMPLETED"]
<1> DEFINE s == [consumer[c] EXCEPT !.verdict = "PROCESSED", !.pc = "settle"]
<1>0. consumer[c].pc = "price"
  BY DEF Price, At
<1>1. /\ d \in Docs /\ db[d] \in DocumentRow /\ RowOK(content[d], db[d])
      /\ consumer[c] \in ConsumerState
  BY <1>0, Handling
<1>2. "PRICE" \in PipelineStage /\ {"COMPLETED", "FAILED"} \subseteq PipelineJobStatus
  BY DEF PipelineStage, PipelineJobStatus
<1>3. CASE /\ db' = [db EXCEPT ![d] = row]
           /\ consumer' = [consumer EXCEPT ![c] = s]
           /\ UNCHANGED <<fixed, queue, textract, request>>
  <2>1. row \in DocumentRow /\ RowOK(content[d], row)
        /\ (db[d].manifest # NULL => row.manifest # NULL)
    BY <1>1, <1>2, WithJob
  <2>2. /\ s \in ConsumerState
        /\ s.cur = consumer[c].cur /\ s.batch = consumer[c].batch
        /\ s.pc = "settle" /\ s.verdict = "PROCESSED"
    BY <1>1 DEF ConsumerState, Pc, CompletionPc
  <2>3. "settle" \in CompletionPc
    BY DEF CompletionPc
  <2> HIDE DEF row, s
  <2>. QED BY <1>0, <1>3, <2>1, <2>2, <2>3, MoveInv
<1>4. CASE SaveStage(c, "PRICE", "FAILED", "failRun")
  <2>1. Reaches(c, "failRun")
    BY <1>0, PlainReach DEF Pc, CompletionPc, DecidedPc
  <2>. QED BY <1>0, <1>2, <1>4, <2>1, SaveStageInv
<1>. QED BY <1>3, <1>4 DEF Price

LEMMA FailRunInv ==
  ASSUME Inv, NEW c \in Consumers, FailRun(c)
  PROVE  Inv'
<1>0. consumer[c].pc = "failRun" /\ "EXTRACT" \in PipelineStage
  BY DEF FailRun, At, PipelineStage
<1>1. CASE consumer[c].verdict # NULL /\ SaveJob(c, "EXTRACT", "FAILED", "mark")
  <2> DEFINE s == [consumer[c] EXCEPT !.pc = "mark"]
  <2>1. consumer[c] \in ConsumerState /\ StateOK(consumer[c], content, queue, db)
    BY <1>0, Handling
  <2>2. consumer[c].verdict \in {"FAILED", "QUARANTINED"}
    BY <1>0, <1>1, <2>1 DEF StateOK, ConsumerState
  <2>3. /\ s.pc = "mark" /\ s.cur = consumer[c].cur /\ s.batch = consumer[c].batch
        /\ s.verdict = consumer[c].verdict
    BY <2>1 DEF ConsumerState
  <2>4. StateOK(s, content, queue, db)
    <3> HIDE DEF s
    <3>. QED BY <1>0, <2>1, <2>2, <2>3 DEF StateOK, DecidedPc
  <2>5. Reaches(c, "mark")
    BY <2>4 DEF Reaches, Pc, CompletionPc
  <2>. QED BY <1>0, <1>1, <2>5, SaveJobInv, "FAILED" \in PipelineJobStatus
           DEF PipelineJobStatus
<1>2. CASE SaveFailureAndRaise(c, "EXTRACT")
  BY <1>0, <1>2, FailureInv
<1>. QED BY <1>1, <1>2 DEF FailRun

LEMMA MarkInv ==
  ASSUME Inv, NEW c \in Consumers, Mark(c)
  PROVE  Inv'
<1> DEFINE d == Doc(c)
<1> DEFINE row == [db[d] EXCEPT !.jobs = Marked(db[d].jobs, consumer[c].verdict)]
<1>0. consumer[c].pc = "mark" /\ UNCHANGED <<fixed, queue, textract, request>>
  BY DEF Mark, At
<1>1. /\ d \in Docs /\ db[d] \in DocumentRow /\ RowOK(content[d], db[d])
      /\ consumer[c] \in ConsumerState /\ StateOK(consumer[c], content, queue, db)
  BY <1>0, Handling
<1>2. consumer[c].verdict \in {"FAILED", "QUARANTINED"}
  BY <1>0, <1>1 DEF StateOK
<1>3. row \in DocumentRow /\ RowOK(content[d], row)
      /\ (db[d].manifest # NULL => row.manifest # NULL)
  <2>1. consumer[c].verdict \in PipelineJobStatus
    BY <1>2 DEF PipelineJobStatus
  <2>. QED BY <1>1, <2>1, WithMarked
<1>4. db' = [db EXCEPT ![d] = row] /\ Goto(c, "settle")
  BY DEF Mark
<1>5. Reaches(c, "settle")
  BY <1>0, PlainReach DEF Pc, CompletionPc, DecidedPc
<1> HIDE DEF row
<1>. QED BY <1>0, <1>3, <1>4, <1>5, GotoInv

LEMMA SettleInv ==
  ASSUME Inv, NEW c \in Consumers, Settle(c)
  PROVE  Inv'
<1>0. consumer[c].pc = "settle"
  BY DEF Settle, At
<1>1. consumer[c].verdict \in DocumentStatus \cup {NULL}
  BY <1>0, Handling DEF ConsumerState, DocumentStatus
<1>2. Reaches(c, "delete")
  BY <1>0, PlainReach DEF Pc, DecidedPc
<1>. QED BY <1>0, <1>1, <1>2, SaveStatusInv DEF Settle

LEMMA CompletionStepInv ==
  ASSUME Inv, NEW c \in Consumers, CompletionStep(c)
  PROVE  Inv'
  BY LookupCompletedInv, QuarantineOcrInv, FailDocumentInv, FetchInv, CompleteOcrInv,
     StartNormalizeInv, WriteElementsInv, FailNormalizeInv, CompleteNormalizeInv,
     ExtractInv, TablesInv, StartLinkInv, LinkInv, CompleteLinkInv, CompleteExtractInv,
     StartMatchInv, MatchInv, StartPriceInv, PriceInv, FailRunInv, MarkInv, SettleInv
  DEF CompletionStep

(***************************************************************************)
(* The queues, the requests and Textract.                                  *)
(***************************************************************************)

\* A step that leaves the rows and the Textract jobs, and unpublishes nothing.
LEMMA QueueFrame ==
  ASSUME Inv, UNCHANGED <<fixed, db, textract>>,
         queue' \in [Messages -> QueueEntry],
         \A m \in Messages : /\ queue[m].at # "none" => queue'[m].at # "none"
                             /\ EntryOK(m, queue'[m], textract[m.doc]),
         consumer' \in [Consumers -> ConsumerState],
         \A c \in Consumers : \/ consumer'[c] = consumer[c]
                              \/ StateOK(consumer'[c], content, queue', db),
         request' \in [Requests -> RequestState],
         \A r \in Requests : request'[r].pc # "idle" => request'[r].doc \in Docs
  PROVE  Inv'
<1>0. UNCHANGED <<content, settings>>
  BY DEF fixed
<1>1. TypeOK'
  BY <1>0 DEF Inv, TypeOK
<1>2. \A d \in Docs : (RowOK(content[d], db[d]) /\ JobsOK(textract[d], db[d]))'
  BY <1>0 DEF Inv
<1>3. ASSUME NEW c \in Consumers PROVE StateOK(consumer[c], content, queue, db)'
  <2>1. CASE consumer'[c] = consumer[c]
    <3>1. consumer[c] \in ConsumerState /\ StateOK(consumer[c], content, queue, db)
      BY DEF Inv, TypeOK
    <3>2. /\ consumer[c].pc # "idle" => consumer[c].cur.msg \in Messages
          /\ \A delivery \in consumer[c].batch : delivery.msg \in Messages
      BY <3>1 DEF StateOK, ConsumerState, Delivery
    <3>. QED BY <1>0, <2>1, <3>1, <3>2 DEF StateOK
  <2>2. CASE StateOK(consumer'[c], content, queue', db)
    BY <1>0, <2>2
  <2>. QED BY <2>1, <2>2
<1>4. \A m \in Messages : EntryOK(m, queue[m], textract[m.doc])'
  OBVIOUS
<1>5. \A r \in Requests : (request[r].pc # "idle" => request[r].doc \in Docs)'
  OBVIOUS
<1>. QED BY <1>1, <1>2, <1>3, <1>4, <1>5 DEF Inv

\* A step of one consumer between messages.
LEMMA ConsumerFrame ==
  ASSUME Inv, NEW c \in Consumers, NEW s \in ConsumerState,
         consumer' = [consumer EXCEPT ![c] = s],
         StateOK(s, content, queue', db),
         queue' \in [Messages -> QueueEntry],
         \A m \in Messages : /\ queue[m].at # "none" => queue'[m].at # "none"
                             /\ EntryOK(m, queue'[m], textract[m.doc]),
         UNCHANGED <<fixed, db, textract, request>>
  PROVE  Inv'
<1>1. /\ consumer' \in [Consumers -> ConsumerState]
      /\ \A e \in Consumers : \/ consumer'[e] = consumer[e]
                              \/ StateOK(consumer'[e], content, queue', db)
  BY DEF Inv, TypeOK
<1>2. /\ request' \in [Requests -> RequestState]
      /\ \A r \in Requests : request'[r].pc # "idle" => request'[r].doc \in Docs
  BY DEF Inv, TypeOK
<1>. QED BY <1>1, <1>2, QueueFrame

LEMMA ReceiveInv ==
  ASSUME Inv, NEW c \in Consumers, Receive(c)
  PROVE  Inv'
<1>1. PICK batch \in SUBSET Visible(c) :
        /\ queue' = [m \in Messages |->
             IF m \in batch THEN [queue[m] EXCEPT !.at = "inflight", !.rc = @ + 1]
                            ELSE queue[m]]
        /\ consumer' = [consumer EXCEPT ![c].batch =
             {[msg |-> m, receipt |-> queue[m].rc + 1] : m \in batch}]
  BY DEF Receive
<1>2. consumer[c].pc = "idle" /\ UNCHANGED <<fixed, db, textract, request>>
  BY DEF Receive
<1>3. consumer[c] \in ConsumerState /\ StateOK(consumer[c], content, queue, db)
  BY DEF Inv, TypeOK
<1>4. ASSUME NEW m \in batch
      PROVE  /\ m \in Messages /\ queue[m] \in QueueEntry
             /\ queue[m].rc \in Nat /\ queue[m].rc + 1 \in 1..MaxReceive
  <2>1. m \in Messages /\ queue[m].at = "visible"
    BY DEF Visible
  <2>2. queue[m] \in QueueEntry /\ queue[m].rc < MaxReceive
    BY <2>1 DEF Inv, TypeOK, EntryOK
  <2>3. queue[m].rc \in 0..MaxReceive /\ MaxReceive \in Nat
    BY <2>2, StateAssumption DEF QueueEntry
  <2>. QED BY <2>1, <2>2, <2>3
<1>5. ASSUME NEW m \in Messages
      PROVE  /\ queue'[m] \in QueueEntry
             /\ queue[m].at # "none" => queue'[m].at # "none"
             /\ EntryOK(m, queue'[m], textract[m.doc])
  <2>1. queue[m] \in QueueEntry /\ EntryOK(m, queue[m], textract[m.doc])
    BY DEF Inv, TypeOK
  <2>2. CASE m \in batch
    <3> DEFINE n == queue[m].rc + 1
    <3> DEFINE entry == [queue[m] EXCEPT !.at = "inflight", !.rc = n]
    <3>1. n \in 0..MaxReceive
      BY <1>4, <2>2
    <3>2. queue'[m] = entry
      BY <1>1, <2>2
    <3> HIDE DEF n
    <3>3. entry \in QueueEntry /\ entry.at = "inflight"
      BY <2>1, <3>1 DEF QueueEntry
    <3>4. queue[m].at # "none"
      BY <2>2 DEF Visible
    <3> HIDE DEF entry
    <3>. QED BY <2>1, <3>2, <3>3, <3>4 DEF EntryOK
  <2>3. CASE m \notin batch
    BY <1>1, <2>1, <2>3
  <2>. QED BY <2>2, <2>3
<1> DEFINE received == {[msg |-> m, receipt |-> queue[m].rc + 1] : m \in batch}
<1> DEFINE s == [consumer[c] EXCEPT !.batch = received]
<1>6. received \in SUBSET Delivery
  BY <1>4 DEF Delivery
<1>7. ASSUME NEW delivery \in received PROVE queue'[delivery.msg].at # "none"
  <2>1. PICK m \in batch : delivery = [msg |-> m, receipt |-> queue[m].rc + 1]
    OBVIOUS
  <2>2. m \in Messages /\ queue[m].at # "none"
    BY <1>4 DEF Visible
  <2>. QED BY <1>5, <2>1, <2>2
<1> HIDE DEF received
<1>8. s \in ConsumerState /\ s.batch = received /\ s.pc = "idle"
      /\ s.verdict = consumer[c].verdict
  BY <1>2, <1>3, <1>6 DEF ConsumerState
<1>9. consumer' = [consumer EXCEPT ![c] = s]
  BY <1>1 DEF received
<1>10. queue' \in [Messages -> QueueEntry]
  BY <1>1, <1>5
<1> HIDE DEF s
<1>11. StateOK(s, content, queue', db)
  BY <1>2, <1>3, <1>7, <1>8 DEF StateOK, DecidedPc
<1>. QED BY <1>2, <1>5, <1>8, <1>9, <1>10, <1>11, ConsumerFrame

\* The queues as they are.
LEMMA SameQueue ==
  ASSUME Inv, UNCHANGED queue
  PROVE  /\ queue' \in [Messages -> QueueEntry]
         /\ \A m \in Messages : /\ queue[m].at # "none" => queue'[m].at # "none"
                                /\ EntryOK(m, queue'[m], textract[m.doc])
  BY DEF Inv, TypeOK

LEMMA BeginInv ==
  ASSUME Inv, NEW c \in Consumers, Begin(c)
  PROVE  Inv'
<1>1. PICK delivery \in consumer[c].batch :
        consumer' = [consumer EXCEPT
          ![c].batch = @ \ {delivery},
          ![c].cur = delivery,
          ![c].pc = IF delivery.msg.kind = "ready" THEN "lookupPreprocess"
                                                   ELSE "lookupCompleted"]
  BY DEF Begin
<1>2. consumer[c].pc = "idle" /\ UNCHANGED <<fixed, db, queue, textract, request>>
  BY DEF Begin
<1>3. consumer[c] \in ConsumerState /\ StateOK(consumer[c], content, queue, db)
  BY DEF Inv, TypeOK
<1> DEFINE next == IF delivery.msg.kind = "ready" THEN "lookupPreprocess"
                                                  ELSE "lookupCompleted"
<1> DEFINE rest == consumer[c].batch \ {delivery}
<1> DEFINE s == [consumer[c] EXCEPT !.batch = rest, !.cur = delivery, !.pc = next]
<1>4. delivery \in Delivery /\ rest \in SUBSET Delivery
  BY <1>3 DEF ConsumerState
<1>5. /\ next \in Pc /\ next \in {"lookupPreprocess", "lookupCompleted"}
      /\ next = "lookupCompleted" => delivery.msg.kind = "completed"
  BY <1>4 DEF Pc, ReadyPc, CompletionPc, Delivery, Messages
<1>6. consumer' = [consumer EXCEPT ![c] = s]
  BY <1>1
<1>7. \A other \in rest : queue[other.msg].at # "none"
  BY <1>3 DEF StateOK
<1> HIDE DEF next, rest
<1>8. /\ s \in ConsumerState
      /\ s.pc = next /\ s.batch = rest /\ s.cur = delivery
      /\ s.verdict = consumer[c].verdict
  BY <1>3, <1>4, <1>5 DEF ConsumerState
<1> HIDE DEF s
<1>9. StateOK(s, content, queue, db)
  BY <1>2, <1>3, <1>4, <1>5, <1>7, <1>8 DEF StateOK, DecidedPc
<1>. QED BY <1>2, <1>6, <1>8, <1>9, SameQueue, ConsumerFrame

\* Leaving the handler, with some of the batch or none of it.
LEMMA LeaveInv ==
  ASSUME Inv, NEW c \in Consumers, NEW batch \in SUBSET consumer[c].batch,
         consumer' = [consumer EXCEPT ![c] = Idle(batch)],
         queue' \in [Messages -> QueueEntry],
         \A m \in Messages : /\ queue[m].at # "none" => queue'[m].at # "none"
                             /\ EntryOK(m, queue'[m], textract[m.doc]),
         UNCHANGED <<fixed, db, textract, request>>
  PROVE  Inv'
<1>1. consumer[c] \in ConsumerState /\ StateOK(consumer[c], content, queue, db)
  BY DEF Inv, TypeOK
<1>2. batch \in SUBSET Delivery /\ \A delivery \in batch : delivery.msg \in Messages
  BY <1>1 DEF ConsumerState, Delivery
<1>3. \A delivery \in batch : queue'[delivery.msg].at # "none"
  BY <1>1, <1>2 DEF StateOK
<1>4. Idle(batch) \in ConsumerState /\ StateOK(Idle(batch), content, queue', db)
  BY <1>2, <1>3, IdleOK
<1>. QED BY <1>4, ConsumerFrame

LEMMA DeleteMessageInv ==
  ASSUME Inv, NEW c \in Consumers, DeleteMessage(c)
  PROVE  Inv'
<1> DEFINE m == consumer[c].cur.msg
<1> DEFINE entry == [queue[m] EXCEPT !.at = "deleted"]
<1>0. consumer[c].pc = "delete" /\ UNCHANGED <<fixed, db, textract, request>>
  BY DEF DeleteMessage
<1>1. m \in Messages /\ consumer[c].batch \in SUBSET consumer[c].batch
  BY <1>0, Handling
<1>2. consumer' = [consumer EXCEPT ![c] = Idle(consumer[c].batch)]
  BY DEF DeleteMessage
<1>3. CASE queue' = [queue EXCEPT ![m] = entry] /\ queue[m].at \in {"inflight", "visible"}
  <2>1. queue[m] \in QueueEntry /\ EntryOK(m, queue[m], textract[m.doc])
    BY <1>1 DEF Inv, TypeOK
  <2>2. entry \in QueueEntry /\ entry.at = "deleted"
    BY <2>1 DEF QueueEntry
  <2> HIDE DEF entry
  <2>3. EntryOK(m, entry, textract[m.doc])
    BY <1>3, <2>1, <2>2 DEF EntryOK
  <2>4. /\ queue' \in [Messages -> QueueEntry]
        /\ \A n \in Messages : /\ queue[n].at # "none" => queue'[n].at # "none"
                               /\ EntryOK(n, queue'[n], textract[n.doc])
    BY <1>1, <1>3, <2>2, <2>3 DEF Inv, TypeOK
  <2>. QED BY <1>0, <1>1, <1>2, <2>4, LeaveInv
<1>4. CASE UNCHANGED queue
  BY <1>0, <1>1, <1>2, <1>4, SameQueue, LeaveInv
<1>. QED BY <1>3, <1>4 DEF DeleteMessage

LEMMA CrashInv ==
  ASSUME Inv, NEW c \in Consumers, Crash(c)
  PROVE  Inv'
<1>1. PICK batch \in SUBSET consumer[c].batch :
        consumer' = [consumer EXCEPT ![c] = Idle(batch)]
  <2>1. consumer[c] \in ConsumerState
    BY DEF Inv, TypeOK
  <2>2. {} \in SUBSET consumer[c].batch /\ consumer[c].batch \in SUBSET consumer[c].batch
    OBVIOUS
  <2>3. CASE consumer' = [consumer EXCEPT ![c] = Idle({})]
    BY <2>2, <2>3
  <2>4. CASE Raise(c)
    BY <2>2, <2>4 DEF Raise
  <2>. QED BY <2>3, <2>4 DEF Crash
<1>2. UNCHANGED <<fixed, db, queue, textract, request>>
  BY DEF Crash
<1>. QED BY <1>1, <1>2, SameQueue, LeaveInv

\* A step that leaves the consumers as well.
LEMMA RequestFrame ==
  ASSUME Inv, UNCHANGED <<fixed, db, textract, consumer>>,
         queue' \in [Messages -> QueueEntry],
         \A m \in Messages : /\ queue[m].at # "none" => queue'[m].at # "none"
                             /\ EntryOK(m, queue'[m], textract[m.doc]),
         request' \in [Requests -> RequestState],
         \A r \in Requests : request'[r].pc # "idle" => request'[r].doc \in Docs
  PROVE  Inv'
<1>1. /\ consumer' \in [Consumers -> ConsumerState]
      /\ \A c \in Consumers : \/ consumer'[c] = consumer[c]
                              \/ StateOK(consumer'[c], content, queue', db)
  BY DEF Inv, TypeOK
<1>. QED BY <1>1, QueueFrame

\* The requests as they are.
LEMMA SameRequest ==
  ASSUME Inv, UNCHANGED request
  PROVE  /\ request' \in [Requests -> RequestState]
         /\ \A r \in Requests : request'[r].pc # "idle" => request'[r].doc \in Docs
  BY DEF Inv, TypeOK

LEMMA ExpireInv ==
  ASSUME Inv, NEW m \in Messages, Expire(m)
  PROVE  Inv'
<1> DEFINE at == IF queue[m].rc >= MaxReceive THEN "dlq" ELSE "visible"
<1> DEFINE entry == [queue[m] EXCEPT !.at = at]
<1>0. queue[m].at = "inflight" /\ UNCHANGED <<fixed, db, textract, consumer, request>>
  BY DEF Expire
<1>1. queue[m] \in QueueEntry /\ EntryOK(m, queue[m], textract[m.doc])
  BY DEF Inv, TypeOK
<1>2. queue' = [queue EXCEPT ![m] = entry]
  BY DEF Expire
<1>3. at \in {"dlq", "visible"} /\ (at = "visible" => queue[m].rc < MaxReceive)
  BY <1>1, StateAssumption DEF QueueEntry
<1> HIDE DEF at
<1>4. entry \in QueueEntry /\ entry.at = at /\ entry.rc = queue[m].rc
  BY <1>1, <1>3 DEF QueueEntry
<1> HIDE DEF entry
<1>5. EntryOK(m, entry, textract[m.doc]) /\ entry.at # "none"
  BY <1>0, <1>1, <1>3, <1>4 DEF EntryOK
<1>6. /\ queue' \in [Messages -> QueueEntry]
      /\ \A n \in Messages : /\ queue[n].at # "none" => queue'[n].at # "none"
                             /\ EntryOK(n, queue'[n], textract[n.doc])
  BY <1>2, <1>4, <1>5 DEF Inv, TypeOK
<1>. QED BY <1>0, <1>6, SameRequest, RequestFrame

\* A request thread moves on.
LEMMA RequestMove ==
  ASSUME Inv, NEW r \in Requests, NEW s \in RequestState,
         request' = [request EXCEPT ![r] = s],
         s.pc # "idle" => s.doc \in Docs
  PROVE  /\ request' \in [Requests -> RequestState]
         /\ \A q \in Requests : request'[q].pc # "idle" => request'[q].doc \in Docs
  BY DEF Inv, TypeOK

LEMMA IdleRequestOK == IdleRequest \in RequestState /\ IdleRequest.pc = "idle"
  BY DEF IdleRequest, RequestState

LEMMA LeaveRequestInv ==
  ASSUME Inv, NEW r \in Requests, request' = [request EXCEPT ![r] = IdleRequest],
         UNCHANGED <<fixed, db, queue, textract, consumer>>
  PROVE  Inv'
  BY IdleRequestOK, RequestMove, SameQueue, RequestFrame

LEMMA EnqueueFailInv ==
  ASSUME Inv, NEW r \in Requests, EnqueueFail(r)
  PROVE  Inv'
  BY LeaveRequestInv DEF EnqueueFail

LEMMA ApiCrashInv ==
  ASSUME Inv, NEW r \in Requests, ApiCrash(r)
  PROVE  Inv'
  BY LeaveRequestInv DEF ApiCrash

LEMMA ReprocessLoadInv ==
  ASSUME Inv, NEW r \in Requests, NEW d \in Docs, ReprocessLoad(r, d)
  PROVE  Inv'
<1> DEFINE s == [pc |-> "reprocess", doc |-> d, loaded |-> db[d].status]
<1>1. s \in RequestState /\ s.doc \in Docs
  BY DEF Inv, TypeOK, DocumentRow, RequestState
<1>2. request' = [request EXCEPT ![r] = s] /\ UNCHANGED <<fixed, db, queue, textract, consumer>>
  BY DEF ReprocessLoad
<1> HIDE DEF s
<1>. QED BY <1>1, <1>2, RequestMove, SameQueue, RequestFrame

LEMMA EnqueueSendInv ==
  ASSUME Inv, NEW r \in Requests, EnqueueSend(r)
  PROVE  Inv'
<1> DEFINE d == request[r].doc
<1> DEFINE entry == [at |-> "visible", rc |-> 0, epoch |-> db[d].epoch]
<1>1. PICK m \in Messages : m.kind = "ready" /\ queue' = [queue EXCEPT ![m] = entry]
  BY DEF EnqueueSend
<1>2. /\ request[r].pc = "send" /\ request' = [request EXCEPT ![r] = IdleRequest]
      /\ UNCHANGED <<fixed, db, textract, consumer>>
  BY DEF EnqueueSend
<1>3. d \in Docs
  BY <1>2 DEF Inv
<1>4. /\ entry \in QueueEntry /\ entry.at = "visible" /\ entry.rc = 0
  BY <1>3, StateAssumption DEF Inv, TypeOK, DocumentRow, QueueEntry
<1> HIDE DEF entry
<1>5. EntryOK(m, entry, textract[m.doc])
  BY <1>1, <1>4, StateAssumption DEF EntryOK
<1>6. /\ queue' \in [Messages -> QueueEntry]
      /\ \A n \in Messages : /\ queue[n].at # "none" => queue'[n].at # "none"
                             /\ EntryOK(n, queue'[n], textract[n.doc])
  BY <1>1, <1>4, <1>5 DEF Inv, TypeOK
<1>. QED BY <1>2, <1>6, IdleRequestOK, RequestMove, RequestFrame

\* A step of the API that writes one document's rows.
LEMMA ApiWriteInv ==
  ASSUME Inv, NEW d \in Docs, NEW row \in DocumentRow,
         db' = [db EXCEPT ![d] = row],
         RowOK(content[d], row),
         db[d].manifest # NULL => row.manifest # NULL,
         request' \in [Requests -> RequestState],
         \A r \in Requests : request'[r].pc # "idle" => request'[r].doc \in Docs,
         UNCHANGED <<fixed, queue, textract, consumer>>
  PROVE  Inv'
<1>0. UNCHANGED <<content, settings>>
  BY DEF fixed
<1>1. TypeOK'
  BY <1>0 DEF Inv, TypeOK
<1>2. \A e \in Docs : db[e].manifest # NULL => db'[e].manifest # NULL
  BY DEF Inv, TypeOK
<1>3. ASSUME NEW e \in Docs PROVE RowOK(content[e], db[e])' /\ JobsOK(textract[e], db[e])'
  <2>1. RowOK(content[e], db[e]) /\ JobsOK(textract[e], db[e])
    BY DEF Inv
  <2>2. CASE e = d
    BY <1>0, <2>1, <2>2 DEF Inv, TypeOK, RowOK, JobsOK
  <2>3. CASE e # d
    BY <1>0, <2>1, <2>3 DEF Inv, TypeOK, RowOK, JobsOK
  <2>. QED BY <2>2, <2>3
<1>4. ASSUME NEW c \in Consumers PROVE StateOK(consumer[c], content, queue, db)'
  <2>1. StateOK(consumer[c], content, queue, db)
    BY DEF Inv
  <2>2. consumer[c].pc \in DecidedPc => consumer[c].cur.msg.doc \in Docs
    BY <2>1 DEF StateOK, DecidedPc, Delivery, Messages
  <2>. QED BY <1>0, <1>2, <2>1, <2>2 DEF StateOK
<1>5. \A m \in Messages : EntryOK(m, queue[m], textract[m.doc])'
  BY DEF Inv, EntryOK
<1>6. \A r \in Requests : (request[r].pc # "idle" => request[r].doc \in Docs)'
  OBVIOUS
<1>. QED BY <1>1, <1>3, <1>4, <1>5, <1>6 DEF Inv

\* A commit leaves the thread idle or about to enqueue the document.
LEMMA AfterCommitOK ==
  ASSUME Inv, NEW r \in Requests, NEW d \in Docs,
         NEW previous \in DocumentStatus \cup {NULL}, AfterCommit(r, d, previous)
  PROVE  /\ request' \in [Requests -> RequestState]
         /\ \A q \in Requests : request'[q].pc # "idle" => request'[q].doc \in Docs
<1> DEFINE s == [pc |-> "row", doc |-> d, loaded |-> previous]
<1>1. s \in RequestState /\ s.doc \in Docs
  BY DEF RequestState
<1>2. request' = [request EXCEPT ![r] = IdleRequest] \/ request' = [request EXCEPT ![r] = s]
  BY DEF AfterCommit
<1> HIDE DEF s
<1>. QED BY <1>1, <1>2, IdleRequestOK, RequestMove

LEMMA UploadInv ==
  ASSUME Inv, NEW r \in Requests, NEW d \in Docs, Upload(r, d)
  PROVE  Inv'
<1>0. UNCHANGED <<fixed, queue, textract, consumer>>
  BY DEF Upload
<1>1. db[d] \in DocumentRow /\ RowOK(content[d], db[d])
  BY DEF Inv, TypeOK
<1>2. PICK status \in {"READY_FOR_PROCESSING", "UPLOADED"} :
        /\ db' = [db EXCEPT ![d].status = status]
        /\ UNCHANGED request \/ AfterCommit(r, d, "UPLOADED")
  BY DEF Upload
<1> DEFINE row == [db[d] EXCEPT !.status = status]
<1>3. row \in DocumentRow /\ row.manifest = db[d].manifest
      /\ row.forced = db[d].forced /\ row.jobs = db[d].jobs
  BY <1>1 DEF DocumentRow, DocumentStatus
<1>4. db' = [db EXCEPT ![d] = row]
  BY <1>2
<1> HIDE DEF row
<1>5. /\ request' \in [Requests -> RequestState]
      /\ \A q \in Requests : request'[q].pc # "idle" => request'[q].doc \in Docs
  BY <1>2, SameRequest, AfterCommitOK DEF DocumentStatus
<1>. QED BY <1>0, <1>1, <1>3, <1>4, <1>5, WithColumn, ApiWriteInv

LEMMA ReprocessCommitInv ==
  ASSUME Inv, NEW r \in Requests, ReprocessCommit(r)
  PROVE  Inv'
<1> DEFINE d == request[r].doc
<1> DEFINE jobs == [s \in PipelineStage |-> NULL]
<1> DEFINE epoch == db[d].epoch + 1
<1> DEFINE row == [db[d] EXCEPT !.jobs = jobs, !.key = NULL, !.ext = NoJob, !.epoch = epoch,
                                !.manifestComplete = FALSE, !.status = "READY_FOR_PROCESSING"]
<1>0. request[r].pc = "reprocess" /\ UNCHANGED <<fixed, queue, textract, consumer>>
  BY DEF ReprocessCommit
<1>1. /\ d \in Docs /\ request[r].loaded \in DocumentStatus \cup {NULL}
      /\ db[d] \in DocumentRow /\ RowOK(content[d], db[d])
  BY <1>0 DEF Inv, TypeOK, RequestState
<1>2. jobs \in [PipelineStage -> PipelineJobStatus \cup {NULL}]
      /\ jobs["PREPROCESS"] # "COMPLETED"
  BY StateAssumption DEF PipelineStage, PipelineJobStatus
<1>3. epoch \in 0..MaxReprocess
  <2>1. db[d].epoch \in 0..MaxReprocess /\ MaxReprocess \in Nat
    BY <1>1, StateAssumption DEF DocumentRow
  <2>2. db[d].epoch < MaxReprocess
    BY DEF ReprocessCommit
  <2>. QED BY <2>1, <2>2
<1>4. db' = [db EXCEPT ![d] = row] /\ AfterCommit(r, d, request[r].loaded)
  BY DEF ReprocessCommit
<1> HIDE DEF jobs, epoch
<1>5. /\ row \in DocumentRow /\ row.jobs = jobs
      /\ row.manifest = db[d].manifest /\ row.forced = db[d].forced
  <2>1. NoJob \in ExternalJobId /\ "READY_FOR_PROCESSING" \in DocumentStatus
    BY StateAssumption DEF NoJob, ExternalJobId, DocumentStatus
  <2>. QED BY <1>1, <1>2, <1>3, <2>1 DEF DocumentRow
<1> HIDE DEF row
<1>6. RowOK(content[d], row) /\ (db[d].manifest # NULL => row.manifest # NULL)
  BY <1>1, <1>2, <1>5 DEF RowOK
<1>. QED BY <1>0, <1>1, <1>4, <1>5, <1>6, AfterCommitOK, ApiWriteInv

LEMMA EnqueueRowInv ==
  ASSUME Inv, NEW r \in Requests, EnqueueRow(r)
  PROVE  Inv'
<1> DEFINE d == request[r].doc
<1> DEFINE old == db[d].jobs["PREPROCESS"]
<1> DEFINE row == [db[d] EXCEPT !.jobs["PREPROCESS"] = IF old = NULL THEN "PENDING" ELSE old]
<1> DEFINE s == [request[r] EXCEPT !.pc = "send"]
<1>0. request[r].pc = "row" /\ UNCHANGED <<fixed, queue, textract, consumer>>
  BY DEF EnqueueRow
<1>1. /\ d \in Docs /\ request[r] \in RequestState
      /\ db[d] \in DocumentRow /\ RowOK(content[d], db[d])
  BY <1>0 DEF Inv, TypeOK
<1>2. row \in DocumentRow /\ RowOK(content[d], row)
      /\ (db[d].manifest # NULL => row.manifest # NULL)
  <2>1. old \in PipelineJobStatus \cup {NULL} /\ "PREPROCESS" \in PipelineStage
    BY <1>1 DEF DocumentRow, PipelineStage
  <2>2. CASE old = NULL
    BY <1>1, <2>1, <2>2, WithJob, "PENDING" \in PipelineJobStatus DEF PipelineJobStatus
  <2>3. CASE old # NULL
    <3>1. old \in PipelineJobStatus /\ (old = "COMPLETED" => db[d].manifest # NULL)
      BY <1>1, <2>1, <2>3 DEF RowOK
    <3> HIDE DEF old
    <3>. QED BY <1>1, <2>1, <2>3, <3>1, WithJob
  <2>. QED BY <2>2, <2>3
<1>3. db' = [db EXCEPT ![d] = row]
  BY DEF EnqueueRow
<1>4. request' = [request EXCEPT ![r] = IdleRequest] \/ request' = [request EXCEPT ![r] = s]
  BY DEF EnqueueRow
<1>5. s \in RequestState /\ s.doc \in Docs
  BY <1>1 DEF RequestState
<1> HIDE DEF row, s
<1>6. /\ request' \in [Requests -> RequestState]
      /\ \A q \in Requests : request'[q].pc # "idle" => request'[q].doc \in Docs
  BY <1>4, <1>5, IdleRequestOK, RequestMove
<1>. QED BY <1>0, <1>1, <1>2, <1>3, <1>6, ApiWriteInv

LEMMA ForceReadInv ==
  ASSUME Inv, NEW d \in Docs, NEW p \in Pages, NEW route \in Routes, ForceRead(d, p, route)
  PROVE  Inv'
<1> DEFINE manifest == [db[d].manifest EXCEPT ![p] = route]
<1> DEFINE forced == db[d].forced \cup {p}
<1> DEFINE row == [db[d] EXCEPT !.manifest = manifest, !.forced = forced]
<1>0. db[d].manifest # NULL /\ UNCHANGED <<fixed, queue, textract, consumer, request>>
  BY DEF ForceRead
<1>1. db[d] \in DocumentRow /\ RowOK(content[d], db[d])
  BY DEF Inv, TypeOK
<1>2. manifest \in [Pages -> Routes] /\ manifest # NULL
  BY <1>0, <1>1, StateAssumption DEF DocumentRow
<1>3. db' = [db EXCEPT ![d] = row]
  BY DEF ForceRead
<1> HIDE DEF manifest
<1>4. /\ row \in DocumentRow /\ row.jobs = db[d].jobs /\ row.manifest = manifest
  BY <1>1, <1>2 DEF DocumentRow
<1> HIDE DEF row
<1>5. RowOK(content[d], row)
  BY <1>0, <1>1, <1>2, <1>4 DEF RowOK
<1>. QED BY <1>0, <1>2, <1>3, <1>4, <1>5, SameRequest, ApiWriteInv

LEMMA FinishJobInv ==
  ASSUME Inv, NEW d \in Docs, NEW n \in 1..MaxTextract, FinishJob(d, n)
  PROVE  Inv'
<1>1. PICK state \in {"SUCCEEDED", "FAILED"} :
        textract' = [textract EXCEPT ![d][n].state = state]
  BY DEF FinishJob
<1> DEFINE m == [kind |-> "completed", doc |-> d, n |-> n]
<1> DEFINE entry == [at |-> "visible", rc |-> 0, epoch |-> textract[d][n].epoch]
<1> DEFINE job == [textract[d][n] EXCEPT !.state = state]
<1> DEFINE jobs == [textract[d] EXCEPT ![n] = job]
<1>2. /\ n \in DOMAIN textract[d]
      /\ queue' = [queue EXCEPT ![m] = entry]
      /\ UNCHANGED <<fixed, db, consumer, request>>
  BY DEF FinishJob
<1>3. UNCHANGED <<content, settings>>
  BY <1>2 DEF fixed
<1>4. textract[d] \in Seq(TextractJob) /\ textract[d][n] \in TextractJob
      /\ JobsOK(textract[d], db[d])
  BY <1>2 DEF Inv, TypeOK
<1>5. job \in TextractJob /\ job.token = textract[d][n].token
  BY <1>4 DEF TextractJob
<1>6. textract' = [textract EXCEPT ![d] = jobs]
  BY <1>1
<1>7. m \in Messages /\ m.doc = d /\ m.n = n /\ entry \in QueueEntry
      /\ entry.at = "visible" /\ entry.rc = 0
  BY <1>4, StateAssumption DEF Messages, QueueEntry, TextractJob
<1> HIDE DEF m, entry, job
<1>8. /\ jobs \in Seq(TextractJob) /\ DOMAIN jobs = DOMAIN textract[d]
      /\ Len(jobs) = Len(textract[d])
      /\ \A i \in DOMAIN jobs : jobs[i].token = textract[d][i].token
  BY <1>2, <1>4, <1>5
<1> HIDE DEF jobs
<1>9. /\ textract' \in [Docs -> Seq(TextractJob)] /\ textract'[d] = jobs
      /\ \A e \in Docs : e # d => textract'[e] = textract[e]
  BY <1>6, <1>8 DEF Inv, TypeOK
<1>10. queue' \in [Messages -> QueueEntry] /\ queue'[m] = entry
       /\ \A o \in Messages : o # m => queue'[o] = queue[o]
  BY <1>2, <1>7 DEF Inv, TypeOK
<1>11. TypeOK'
  BY <1>2, <1>3, <1>9, <1>10 DEF Inv, TypeOK
<1>12. ASSUME NEW e \in Docs PROVE RowOK(content[e], db[e])' /\ JobsOK(textract[e], db[e])'
  <2>1. RowOK(content[e], db[e]) /\ JobsOK(textract[e], db[e])
    BY DEF Inv
  <2>2. CASE e = d
    <3>1. jobs # << >> => textract[d] # << >>
      BY <1>8
    <3>. QED BY <1>2, <1>3, <1>8, <1>9, <2>1, <2>2, <3>1 DEF RowOK, JobsOK
  <2>3. CASE e # d
    BY <1>2, <1>3, <1>9, <2>1, <2>3
  <2>. QED BY <2>2, <2>3
<1>13. ASSUME NEW c \in Consumers PROVE StateOK(consumer[c], content, queue, db)'
  <2>1. consumer[c] \in ConsumerState /\ StateOK(consumer[c], content, queue, db)
    BY DEF Inv, TypeOK
  <2>2. /\ consumer[c].pc # "idle" => consumer[c].cur.msg \in Messages
        /\ \A delivery \in consumer[c].batch : delivery.msg \in Messages
    BY <2>1 DEF StateOK, ConsumerState, Delivery
  <2>3. \A o \in Messages : queue[o].at # "none" => queue'[o].at # "none"
    BY <1>7, <1>10
  <2>. QED BY <1>2, <1>3, <2>1, <2>2, <2>3 DEF StateOK
<1>14. ASSUME NEW o \in Messages PROVE EntryOK(o, queue[o], textract[o.doc])'
  <2>1. EntryOK(o, queue[o], textract[o.doc]) /\ o.doc \in Docs
    BY DEF Inv, Messages
  <2>2. DOMAIN textract'[o.doc] = DOMAIN textract[o.doc]
    BY <1>8, <1>9, <2>1
  <2>3. CASE o = m
    BY <1>2, <1>7, <1>10, <2>2, <2>3, StateAssumption DEF EntryOK
  <2>4. CASE o # m
    BY <1>10, <2>1, <2>2, <2>4 DEF EntryOK
  <2>. QED BY <2>3, <2>4
<1>15. \A r \in Requests : (request[r].pc # "idle" => request[r].doc \in Docs)'
  BY <1>2 DEF Inv
<1>. QED BY <1>11, <1>12, <1>13, <1>14, <1>15 DEF Inv

(***************************************************************************)
(* Inv is inductive.                                                       *)
(***************************************************************************)

LEMMA InitInv == Init => Inv
<1> SUFFICES ASSUME Init PROVE Inv
  OBVIOUS
<1>1. NewDocument \in DocumentRow
  BY StateAssumption
  DEF NewDocument, DocumentRow, ExternalJobId, NoJob
<1>2. NoMessage \in QueueEntry
  BY StateAssumption DEF NoMessage, QueueEntry
<1>3. /\ Idle({}) \in ConsumerState
      /\ \A files, entries, rows : StateOK(Idle({}), files, entries, rows)
  BY IdleOK
<1>4. TypeOK
  BY <1>1, <1>2, <1>3, IdleRequestOK DEF Init, TypeOK
<1>5. ASSUME NEW d \in Docs PROVE RowOK(content[d], db[d]) /\ JobsOK(textract[d], db[d])
  <2>1. db[d] = NewDocument /\ textract[d] = << >>
    BY DEF Init
  <2>2. NULL # "COMPLETED" /\ "PREPROCESS" \in PipelineStage
    BY StateAssumption DEF PipelineJobStatus, PipelineStage
  <2>. QED BY <2>1, <2>2, StateAssumption DEF NewDocument, RowOK, JobsOK
<1>6. \A c \in Consumers : StateOK(consumer[c], content, queue, db)
  BY <1>3 DEF Init
<1>7. \A m \in Messages : EntryOK(m, queue[m], textract[m.doc])
  BY DEF Init, NoMessage, EntryOK
<1>8. \A r \in Requests : request[r].pc # "idle" => request[r].doc \in Docs
  BY IdleRequestOK DEF Init
<1>. QED BY <1>4, <1>5, <1>6, <1>7, <1>8 DEF Inv

LEMMA StutterInv ==
  ASSUME Inv, UNCHANGED vars
  PROVE  Inv'
<1>1. /\ UNCHANGED <<fixed, db, queue, textract, consumer, request>>
  BY DEF vars, fixed
<1>. QED BY <1>1, SameQueue, SameRequest, RequestFrame

LEMMA NextInv == Inv /\ [Next]_vars => Inv'
<1> SUFFICES ASSUME Inv, [Next]_vars PROVE Inv'
  OBVIOUS
<1>1. ASSUME NEW r \in Requests, NEW d \in Docs, Upload(r, d) \/ ReprocessLoad(r, d)
      PROVE  Inv'
  BY <1>1, UploadInv, ReprocessLoadInv
<1>2. ASSUME NEW r \in Requests, RequestStep(r) \/ ApiCrash(r) PROVE Inv'
  BY <1>2, ReprocessCommitInv, EnqueueRowInv, EnqueueSendInv, EnqueueFailInv, ApiCrashInv
  DEF RequestStep
<1>3. ASSUME NEW d \in Docs, NEW override \in Overrides,
             ForceRead(d, override[1], override[2])
      PROVE  Inv'
  <2>1. override[1] \in Pages /\ override[2] \in Routes
    BY StateAssumption
  <2>. QED BY <1>3, <2>1, ForceReadInv
<1>4. ASSUME NEW c \in Consumers, ConsumerStep(c) \/ Crash(c) PROVE Inv'
  BY <1>4, ReceiveInv, BeginInv, DeleteMessageInv, ReadyStepInv, CompletionStepInv, CrashInv
  DEF ConsumerStep
<1>5. ASSUME NEW m \in Messages, Expire(m) PROVE Inv'
  BY <1>5, ExpireInv
<1>6. ASSUME NEW d \in Docs, NEW n \in 1..MaxTextract, FinishJob(d, n) PROVE Inv'
  BY <1>6, FinishJobInv
<1>7. CASE UNCHANGED vars
  BY <1>7, StutterInv
<1>. QED BY <1>1, <1>2, <1>3, <1>4, <1>5, <1>6, <1>7 DEF Next

THEOREM Invariance == Spec => []Inv
<1>. QED BY InitInv, NextInv, PTL DEF Spec

\* Every reachable state of the pipeline is well typed: the counters never
\* leave their ranges and the handlers never save a status that is not one.
THEOREM TypeCorrect == Spec => []TypeOK
<1>1. Inv => TypeOK
  BY DEF Inv
<1>. QED BY <1>1, Invariance, PTL

\* Textract is never paid for a document that validation or the budget guard
\* refuses, whatever is redelivered, re-read, forced or crashed.
THEOREM NothingSpentOnRefused == Spec => []NothingIsSpentOnRefused
<1>1. ASSUME Inv PROVE NothingIsSpentOnRefused
  <2>1. ASSUME NEW d \in Docs, textract[d] # << >>
        PROVE  Readable(content[d])
    BY <1>1, <2>1 DEF Inv, RowOK, JobsOK
  <2>2. ASSUME NEW d \in Docs, Readable(content[d])
        PROVE  /\ content[d].kind \notin {"encrypted", "corrupt", "rejected"}
               /\ ~(EstimatedCost(content[d].triage) > MaxOcrCost)
    BY <2>2 DEF Readable, Refused
  <2>. QED BY <2>1, <2>2 DEF NothingIsSpentOnRefused
<1>2. Inv => NothingIsSpentOnRefused
  BY <1>1
<1>. QED BY <1>2, Invariance, PTL

(***************************************************************************)
(* The pipeline implements OcrPurchase.                                    *)
(***************************************************************************)

\* A step that decides nothing and buys nothing.
Kept ==
  /\ UNCHANGED textract
  /\ \A d \in Docs : db'[d].manifest # NULL <=> db[d].manifest # NULL

LEMMA KeptWrite ==
  ASSUME Inv, NEW d \in Docs, NEW row, db' = [db EXCEPT ![d] = row],
         row.manifest # NULL <=> db[d].manifest # NULL, UNCHANGED textract
  PROVE  Kept
  BY DEF Kept, Inv, TypeOK

\* No column but manifest tells whether the manifest is persisted.
LEMMA OtherColumn ==
  ASSUME NEW row \in DocumentRow, NEW value
  PROVE  /\ [row EXCEPT !.status = value].manifest = row.manifest
         /\ [row EXCEPT !.jobs = value].manifest = row.manifest
         /\ [row EXCEPT !.ext = value].manifest = row.manifest
         /\ [row EXCEPT !.result = value].manifest = row.manifest
         /\ [row EXCEPT !.elements = value].manifest = row.manifest
         /\ [row EXCEPT !.cited = value].manifest = row.manifest
  BY DEF DocumentRow

LEMMA KeptJob ==
  ASSUME Inv, NEW d \in Docs, NEW stage, NEW status,
         db' = [db EXCEPT ![d].jobs[stage] = status], UNCHANGED textract
  PROVE  Kept
<1> DEFINE jobs == [db[d].jobs EXCEPT ![stage] = status]
<1>1. db' = [db EXCEPT ![d] = [db[d] EXCEPT !.jobs = jobs]]
  OBVIOUS
<1>2. db[d] \in DocumentRow
  BY DEF Inv, TypeOK
<1> HIDE DEF jobs
<1>3. [db[d] EXCEPT !.jobs = jobs].manifest = db[d].manifest
  BY <1>2, OtherColumn
<1>. QED BY <1>1, <1>3, KeptWrite

LEMMA KeptSame ==
  ASSUME UNCHANGED <<db, textract>>
  PROVE  Kept
  BY DEF Kept

LEMMA KeptSaves ==
  ASSUME Inv, NEW c \in Consumers, consumer[c].pc # "idle",
         NEW stage, NEW status, NEW next,
         \/ SaveJob(c, stage, status, next) \/ SaveFailureAndRaise(c, stage)
         \/ SaveStatus(c, status, next)
         \/ StartStage(c, stage, next) \/ SaveStage(c, stage, status, next)
  PROVE  Kept
<1>1. Doc(c) \in Docs /\ db[Doc(c)] \in DocumentRow
  BY Handling
<1>2. CASE SaveJob(c, stage, status, next)
  BY <1>1, <1>2, KeptJob, KeptSame DEF SaveJob
<1>3. CASE SaveFailureAndRaise(c, stage)
  BY <1>1, <1>3, KeptJob, KeptSame DEF SaveFailureAndRaise
<1>4. CASE SaveStatus(c, status, next)
  <2>1. db' = [db EXCEPT ![Doc(c)] = [db[Doc(c)] EXCEPT !.status = status]] /\ UNCHANGED textract
    BY <1>4 DEF SaveStatus
  <2>2. [db[Doc(c)] EXCEPT !.status = status].manifest = db[Doc(c)].manifest
    BY <1>1, OtherColumn
  <2>. QED BY <1>1, <2>1, <2>2, KeptWrite
<1>5. CASE StartStage(c, stage, next)
  BY <1>1, <1>5, KeptJob DEF StartStage
<1>6. CASE SaveStage(c, stage, status, next)
  BY <1>1, <1>6, KeptJob, KeptSame DEF SaveStage
<1>. QED BY <1>2, <1>3, <1>4, <1>5, <1>6

LEMMA KeptReady ==
  ASSUME Inv, NEW c \in Consumers, ReadyStep(c), ~ReplaceManifest(c), ~SubmitJob(c)
  PROVE  Kept
<1>0. consumer[c].pc # "idle"
  BY DEF ReadyStep, At, LookupPreprocess, StartPreprocess, Preprocess, CompletePreprocess,
         MarkProcessing, FailPreprocess, RefusePreprocess, QuarantineDocument, LookupOcr,
         SkipOcr, StartOcr, ResumeJob, SubmitRaises, SubmitTooLarge, RecordJob, FailOcr,
         RefuseOcr, FakeResult, FakeRecord
<1>1. Doc(c) \in Docs /\ db[Doc(c)] \in DocumentRow
  BY <1>0, Handling
<1>2. CASE \/ StartPreprocess(c) \/ CompletePreprocess(c) \/ MarkProcessing(c)
           \/ FailPreprocess(c) \/ RefusePreprocess(c) \/ QuarantineDocument(c)
           \/ SkipOcr(c) \/ FailOcr(c) \/ RefuseOcr(c)
  BY <1>0, <1>2, KeptSaves
  DEF StartPreprocess, CompletePreprocess, MarkProcessing, FailPreprocess,
      RefusePreprocess, QuarantineDocument, SkipOcr, FailOcr, RefuseOcr
<1>3. CASE Preprocess(c) \/ ResumeJob(c) \/ SubmitRaises(c) \/ SubmitTooLarge(c)
  BY <1>3, KeptSame DEF Preprocess, ResumeJob, SubmitRaises, SubmitTooLarge
<1>4. CASE LookupPreprocess(c)
  <2> DEFINE status == IF db[Doc(c)].jobs["PREPROCESS"] = NULL THEN "PENDING"
                                                           ELSE db[Doc(c)].jobs["PREPROCESS"]
  <2>1. db' = [db EXCEPT ![Doc(c)].jobs["PREPROCESS"] = status] /\ UNCHANGED textract
    BY <1>4 DEF LookupPreprocess
  <2> HIDE DEF status
  <2>. QED BY <1>1, <2>1, KeptJob
<1>5. CASE LookupOcr(c)
  <2> DEFINE d == Doc(c)
  <2> DEFINE status == IF db[d].jobs["OCR"] = NULL THEN "PENDING" ELSE db[d].jobs["OCR"]
  <2> DEFINE key == IF db[d].key = NULL THEN OcrKey(RouteOf(db[d].manifest)) ELSE db[d].key
  <2> DEFINE row == [db[d] EXCEPT !.jobs["OCR"] = status, !.key = key]
  <2>1. db' = [db EXCEPT ![d] = row] /\ UNCHANGED textract
    BY <1>5 DEF LookupOcr
  <2> HIDE DEF status, key
  <2>2. row.manifest = db[d].manifest
    BY <1>1 DEF DocumentRow
  <2> HIDE DEF row
  <2>. QED BY <1>1, <2>1, <2>2, KeptWrite
<1>6. CASE StartOcr(c)
  BY <1>1, <1>6, KeptJob, KeptSame DEF StartOcr
<1>7. ASSUME NEW ext, db' = [db EXCEPT ![Doc(c)].ext = ext], UNCHANGED textract
      PROVE  Kept
  <2>1. db' = [db EXCEPT ![Doc(c)] = [db[Doc(c)] EXCEPT !.ext = ext]]
    BY <1>7
  <2>. QED BY <1>1, <1>7, <2>1, OtherColumn, KeptWrite
<1>8. CASE RecordJob(c) \/ FakeRecord(c)
  BY <1>7, <1>8, KeptSame DEF RecordJob, FakeRecord
<1>9. CASE FakeResult(c)
  <2>1. db' = [db EXCEPT ![Doc(c)] = [db[Doc(c)] EXCEPT !.result = FakeJob]]
        /\ UNCHANGED textract
    BY <1>9 DEF FakeResult
  <2>. QED BY <1>1, <2>1, OtherColumn, KeptWrite
<1>. QED BY <1>2, <1>3, <1>4, <1>5, <1>6, <1>8, <1>9 DEF ReadyStep

LEMMA KeptCompletion ==
  ASSUME Inv, NEW c \in Consumers, CompletionStep(c)
  PROVE  Kept
<1>0. consumer[c].pc # "idle"
  BY DEF CompletionStep, At, LookupCompleted, QuarantineOcr, FailDocument, Fetch,
         CompleteOcr, StartNormalize, WriteElements, FailNormalize, CompleteNormalize,
         Extract, Tables, StartLink, Link, CompleteLink, CompleteExtract, StartMatch,
         Match, StartPrice, Price, FailRun, Mark, Settle
<1>1. Doc(c) \in Docs /\ db[Doc(c)] \in DocumentRow
  BY <1>0, Handling
<1>2. CASE \/ QuarantineOcr(c) \/ FailDocument(c) \/ CompleteOcr(c) \/ FailNormalize(c)
           \/ CompleteNormalize(c) \/ StartLink(c) \/ CompleteLink(c)
           \/ CompleteExtract(c) \/ StartMatch(c) \/ Match(c) \/ StartPrice(c)
           \/ FailRun(c) \/ Settle(c)
  BY <1>0, <1>2, KeptSaves
  DEF QuarantineOcr, FailDocument, CompleteOcr, FailNormalize, CompleteNormalize,
      StartLink, CompleteLink, CompleteExtract, StartMatch, Match, StartPrice, FailRun,
      Settle
<1>3. CASE Tables(c)
  BY <1>3, KeptSame DEF Tables
<1>4. CASE LookupCompleted(c)
  <2> DEFINE status == IF db[Doc(c)].jobs["OCR"] = NULL THEN "PENDING"
                                                    ELSE db[Doc(c)].jobs["OCR"]
  <2>1. db' = [db EXCEPT ![Doc(c)].jobs["OCR"] = status] /\ UNCHANGED textract
    BY <1>4 DEF LookupCompleted
  <2> HIDE DEF status
  <2>. QED BY <1>1, <2>1, KeptJob
<1>5. ASSUME NEW value, UNCHANGED textract,
             \/ db' = [db EXCEPT ![Doc(c)].result = value]
             \/ db' = [db EXCEPT ![Doc(c)].elements = value]
             \/ db' = [db EXCEPT ![Doc(c)].cited = value]
             \/ db' = [db EXCEPT ![Doc(c)].jobs = value]
      PROVE  Kept
  <2>1. \/ db' = [db EXCEPT ![Doc(c)] = [db[Doc(c)] EXCEPT !.result = value]]
        \/ db' = [db EXCEPT ![Doc(c)] = [db[Doc(c)] EXCEPT !.elements = value]]
        \/ db' = [db EXCEPT ![Doc(c)] = [db[Doc(c)] EXCEPT !.cited = value]]
        \/ db' = [db EXCEPT ![Doc(c)] = [db[Doc(c)] EXCEPT !.jobs = value]]
    BY <1>5
  <2>. QED BY <1>1, <1>5, <2>1, OtherColumn, KeptWrite
<1>6. CASE Fetch(c)
  BY <1>5, <1>6, KeptSame DEF Fetch
<1>7. CASE WriteElements(c)
  BY <1>5, <1>7, KeptSame DEF WriteElements
<1>8. CASE Link(c)
  <2>1. PICK cites \in BOOLEAN : db' = [db EXCEPT ![Doc(c)].cited = @ \/ cites]
    BY <1>8 DEF Link
  <2> DEFINE cited == db[Doc(c)].cited \/ cites
  <2>2. db' = [db EXCEPT ![Doc(c)].cited = cited] /\ UNCHANGED textract
    BY <1>8, <2>1, Zenon DEF Link
  <2> HIDE DEF cited
  <2>. QED BY <1>5, <2>2
<1>9. CASE Mark(c)
  BY <1>5, <1>9 DEF Mark
<1>10. CASE Extract(c)
  BY <1>1, <1>5, <1>10, KeptJob DEF Extract
<1>11. CASE StartNormalize(c)
  BY <1>1, <1>11, KeptJob DEF StartNormalize
<1>12. CASE Price(c)
  <2>1. CASE db' = [db EXCEPT ![Doc(c)].jobs["PRICE"] = "COMPLETED"] /\ UNCHANGED textract
    BY <1>1, <2>1, KeptJob
  <2>2. CASE SaveStage(c, "PRICE", "FAILED", "failRun")
    BY <1>0, <2>2, KeptSaves
  <2>. QED BY <1>12, <2>1, <2>2 DEF Price
<1>. QED BY <1>2, <1>3, <1>4, <1>6, <1>7, <1>8, <1>9, <1>10, <1>11, <1>12
         DEF CompletionStep

LEMMA KeptApi ==
  ASSUME Inv, NEW r \in Requests
  PROVE  /\ \A d \in Docs : Upload(r, d) \/ ReprocessLoad(r, d) => Kept
         /\ RequestStep(r) \/ ApiCrash(r) => Kept
<1>1. ASSUME NEW d \in Docs, Upload(r, d) PROVE Kept
  <2>1. PICK status : db' = [db EXCEPT ![d].status = status]
    BY <1>1 DEF Upload
  <2>2. db' = [db EXCEPT ![d] = [db[d] EXCEPT !.status = status]] /\ UNCHANGED textract
    BY <1>1, <2>1 DEF Upload
  <2>3. db[d] \in DocumentRow
    BY DEF Inv, TypeOK
  <2>. QED BY <2>2, <2>3, OtherColumn, KeptWrite
<1>2. ASSUME NEW d \in Docs, ReprocessLoad(r, d) PROVE Kept
  BY <1>2, KeptSame DEF ReprocessLoad
<1>3. CASE EnqueueSend(r) \/ EnqueueFail(r) \/ ApiCrash(r)
  BY <1>3, KeptSame DEF EnqueueSend, EnqueueFail, ApiCrash
<1> DEFINE d == request[r].doc
<1>4. CASE ReprocessCommit(r)
  <2> DEFINE jobs == [s \in PipelineStage |-> NULL]
  <2> DEFINE epoch == db[d].epoch + 1
  <2> DEFINE row == [db[d] EXCEPT !.jobs = jobs, !.key = NULL, !.ext = NoJob, !.epoch = epoch,
                                  !.manifestComplete = FALSE,
                                  !.status = "READY_FOR_PROCESSING"]
  <2>1. d \in Docs /\ db[d] \in DocumentRow
    BY <1>4 DEF ReprocessCommit, Inv, TypeOK
  <2>2. db' = [db EXCEPT ![d] = row] /\ UNCHANGED textract
    BY <1>4 DEF ReprocessCommit
  <2> HIDE DEF jobs, epoch
  <2>3. row.manifest = db[d].manifest
    BY <2>1 DEF DocumentRow
  <2> HIDE DEF row
  <2>. QED BY <2>1, <2>2, <2>3, KeptWrite
<1>5. CASE EnqueueRow(r)
  <2> DEFINE status == IF db[d].jobs["PREPROCESS"] = NULL THEN "PENDING"
                                                      ELSE db[d].jobs["PREPROCESS"]
  <2>1. db' = [db EXCEPT ![d].jobs["PREPROCESS"] = status] /\ UNCHANGED textract
    BY <1>5 DEF EnqueueRow
  <2>2. d \in Docs
    BY <1>5 DEF EnqueueRow, Inv
  <2> HIDE DEF status
  <2>. QED BY <2>1, <2>2, KeptJob
<1>. QED BY <1>1, <1>2, <1>3, <1>4, <1>5 DEF RequestStep

\* What OcrPurchase sees of the state.
DecidedBar == [d \in Docs |-> db[d].manifest # NULL]
FeaturesOf(jobs) == [n \in DOMAIN jobs |-> jobs[n].token.features]
BoughtBar == [d \in Docs |-> FeaturesOf(textract[d])]

PurchaseStep == [Purchase!PurchaseNext]_(Purchase!purchaseVars)

\* OcrPurchase's actions in these terms.
LEMMA Stutters ==
  ASSUME DecidedBar' = DecidedBar, BoughtBar' = BoughtBar
  PROVE  PurchaseStep
<1>1. UNCHANGED Purchase!purchaseVars
  BY DEF Purchase!purchaseVars, DecidedBar, BoughtBar, FeaturesOf
<1>. QED BY <1>1 DEF PurchaseStep

LEMMA Decides ==
  ASSUME NEW d \in Docs, ~DecidedBar[d],
         DecidedBar' = [DecidedBar EXCEPT ![d] = TRUE], BoughtBar' = BoughtBar
  PROVE  PurchaseStep
<1>1. Purchase!Decide(d)
  BY DEF Purchase!Decide, DecidedBar, BoughtBar, FeaturesOf
<1>. QED BY <1>1 DEF PurchaseStep, Purchase!PurchaseNext

LEMMA Buys ==
  ASSUME NEW d \in Docs, DecidedBar[d], DecidedBar' = DecidedBar,
         NEW work \in FeatureKeys,
         \A n \in DOMAIN BoughtBar[d] : BoughtBar[d][n] # work,
         BoughtBar' = [BoughtBar EXCEPT ![d] = Append(@, work)]
  PROVE  PurchaseStep
<1>1. Purchase!Buy(d)
  BY DEF Purchase!Buy, DecidedBar, BoughtBar, FeaturesOf
<1>. QED BY <1>1 DEF PurchaseStep, Purchase!PurchaseNext

LEMMA KeptStutters ==
  ASSUME Kept
  PROVE  PurchaseStep
<1>1. BoughtBar' = BoughtBar
  BY DEF Kept, BoughtBar, FeaturesOf
<1>2. \A d \in Docs : (db[d].manifest # NULL)' = (db[d].manifest # NULL)
  BY DEF Kept
<1>3. DecidedBar' = DecidedBar
  BY <1>2 DEF DecidedBar
<1>. QED BY <1>1, <1>3, Stutters

LEMMA DecideStep ==
  ASSUME Inv, NEW c \in Consumers, ReplaceManifest(c)
  PROVE  PurchaseStep
<1> DEFINE d == Doc(c)
<1> DEFINE kept == consumer[c].kept
<1> DEFINE manifest == [p \in Pages |-> IF kept[p] = NULL THEN content[d].triage[p] ELSE kept[p]]
<1> DEFINE forced == {p \in Pages : kept[p] # NULL}
<1> DEFINE row == [db[d] EXCEPT !.manifest = manifest, !.forced = forced,
                                !.manifestComplete = TRUE]
<1>1. /\ d \in Docs /\ db[d] \in DocumentRow /\ consumer[c] \in ConsumerState
      /\ content[d] \in FileContent
  BY Handling DEF ReplaceManifest, At
<1>2. manifest \in [Pages -> Routes]
  <2>1. kept \in [Pages -> Routes \cup {NULL}] /\ content[d].triage \in [Pages -> Routes]
    BY <1>1 DEF ConsumerState, FileContent
  <2> HIDE DEF kept
  <2>. QED BY <2>1
<1>3. db' = [db EXCEPT ![d] = row] /\ UNCHANGED textract
  BY DEF ReplaceManifest
<1> HIDE DEF manifest
<1>4. row.manifest # NULL
  BY <1>1, <1>2, StateAssumption DEF DocumentRow
<1> HIDE DEF row
<1>5. CASE db[d].manifest # NULL
  BY <1>1, <1>3, <1>4, <1>5, KeptWrite, KeptStutters
<1>6. CASE db[d].manifest = NULL
  <2>1. BoughtBar' = BoughtBar
    BY <1>3 DEF BoughtBar
  <2>2. \A e \in Docs : (db[e].manifest # NULL)' = IF e = d THEN TRUE ELSE db[e].manifest # NULL
    BY <1>1, <1>3, <1>4 DEF Inv, TypeOK
  <2>3. DecidedBar' = [DecidedBar EXCEPT ![d] = TRUE]
    BY <1>1, <2>2 DEF DecidedBar
  <2>4. ~DecidedBar[d]
    BY <1>1, <1>6 DEF DecidedBar
  <2>. QED BY <1>1, <2>1, <2>3, <2>4, Decides
<1>. QED BY <1>5, <1>6

LEMMA BuyStep ==
  ASSUME Inv, NEW c \in Consumers, SubmitJob(c)
  PROVE  PurchaseStep
<1> DEFINE d == Doc(c)
<1> DEFINE work == consumer[c].key
<1> DEFINE token == Token(d, work)
<1> DEFINE job == [token |-> token, api |-> consumer[c].route, pages |-> consumer[c].pages,
                   epoch |-> consumer[c].row, state |-> "IN_PROGRESS"]
<1>0. UNCHANGED db
  BY DEF SubmitJob
<1>1. CASE UNCHANGED textract
  BY <1>0, <1>1, KeptSame, KeptStutters
<1>2. CASE /\ Started(d, token) = {}
           /\ textract' = [textract EXCEPT ![d] = Append(@, job)]
  <2>1. d \in Docs /\ work \in FeatureKeys /\ db[d].manifest # NULL
    BY Handling DEF SubmitJob, At, StateOK, DecidedPc, Doc
  <2>2. textract \in [Docs -> Seq(TextractJob)] /\ JobsOK(textract[d], db[d])
    BY <2>1 DEF Inv, TypeOK
  <2>3. ASSUME NEW n \in DOMAIN textract[d] PROVE textract[d][n].token.features # work
    <3>1. textract[d][n].token \in TextractToken /\ textract[d][n].token.nonce = 0
      <4>1. textract[d][n] \in TextractJob
        BY <2>1, <2>2
      <4>. QED BY <2>2, <4>1 DEF JobsOK, TextractJob
    <3>2. textract[d][n].token # token
      BY <1>2 DEF Started
    <3>. QED BY <3>1, <3>2 DEF TextractToken, Token
  <2>4. FeaturesOf(Append(textract[d], job)) = Append(FeaturesOf(textract[d]), work)
    <3> DEFINE jobs == textract[d]
    <3>1. jobs \in Seq(TextractJob) /\ job.token.features = work
      BY <2>1, <2>2 DEF Token
    <3> HIDE DEF jobs, job
    <3>2. /\ FeaturesOf(jobs) = [n \in 1..Len(jobs) |-> jobs[n].token.features]
          /\ Len(jobs) \in Nat
      BY <3>1 DEF FeaturesOf
    <3>3. FeaturesOf(Append(jobs, job)) =
            [n \in 1..Len(jobs) + 1 |-> IF n = Len(jobs) + 1 THEN work
                                                          ELSE jobs[n].token.features]
      BY <3>1 DEF FeaturesOf
    <3>4. Append(FeaturesOf(jobs), work) =
            [n \in 1..Len(jobs) + 1 |-> IF n = Len(jobs) + 1 THEN work
                                                          ELSE jobs[n].token.features]
      BY <3>1, <3>2
    <3>. QED BY <3>3, <3>4 DEF jobs
  <2> HIDE DEF job, work
  <2>5. BoughtBar' = [BoughtBar EXCEPT ![d] = Append(@, work)]
    BY <1>2, <2>1, <2>2, <2>4 DEF BoughtBar
  <2>6. \A n \in DOMAIN BoughtBar[d] : BoughtBar[d][n] # work
    BY <2>1, <2>3 DEF BoughtBar, FeaturesOf
  <2>7. DecidedBar[d] /\ DecidedBar' = DecidedBar
    BY <1>0, <2>1 DEF DecidedBar
  <2>. QED BY <2>1, <2>5, <2>6, <2>7, Buys
<1>. QED BY <1>1, <1>2 DEF SubmitJob

LEMMA FinishStep ==
  ASSUME Inv, NEW d \in Docs, NEW n \in 1..MaxTextract, FinishJob(d, n)
  PROVE  PurchaseStep
<1>1. PICK state : textract' = [textract EXCEPT ![d][n].state = state]
  BY DEF FinishJob
<1>2. UNCHANGED db /\ n \in DOMAIN textract[d]
  BY DEF FinishJob
<1>3. textract \in [Docs -> Seq(TextractJob)] /\ textract[d][n] \in TextractJob
  BY <1>2 DEF Inv, TypeOK
<1> DEFINE job == [textract[d][n] EXCEPT !.state = state]
<1> DEFINE jobs == [textract[d] EXCEPT ![n] = job]
<1>4. job.token = textract[d][n].token
  BY <1>3 DEF TextractJob
<1>5. textract' = [textract EXCEPT ![d] = jobs]
  BY <1>1
<1> HIDE DEF job
<1>6. FeaturesOf(jobs) = FeaturesOf(textract[d])
  BY <1>2, <1>4 DEF FeaturesOf
<1> HIDE DEF jobs
<1>7. BoughtBar' = BoughtBar
  BY <1>3, <1>5, <1>6 DEF BoughtBar
<1>8. DecidedBar' = DecidedBar
  BY <1>2 DEF DecidedBar
<1>. QED BY <1>7, <1>8, Stutters

LEMMA NextPurchases == Inv /\ [Next]_vars => PurchaseStep
<1> SUFFICES ASSUME Inv, [Next]_vars PROVE PurchaseStep
  OBVIOUS
<1>1. ASSUME NEW r \in Requests, NEW d \in Docs, Upload(r, d) \/ ReprocessLoad(r, d)
      PROVE  PurchaseStep
  BY <1>1, KeptApi, KeptStutters
<1>2. ASSUME NEW r \in Requests, RequestStep(r) \/ ApiCrash(r) PROVE PurchaseStep
  BY <1>2, KeptApi, KeptStutters
<1>3. ASSUME NEW d \in Docs, NEW override \in Overrides,
             ForceRead(d, override[1], override[2])
      PROVE  PurchaseStep
  <2>1. override[1] \in Pages /\ override[2] \in Routes
    BY StateAssumption
  <2> DEFINE manifest == [db[d].manifest EXCEPT ![override[1]] = override[2]]
  <2> DEFINE forced == db[d].forced \cup {override[1]}
  <2> DEFINE row == [db[d] EXCEPT !.manifest = manifest, !.forced = forced]
  <2>2. db[d] \in DocumentRow /\ db[d].manifest # NULL
    BY <1>3 DEF ForceRead, Inv, TypeOK
  <2>3. manifest \in [Pages -> Routes]
    BY <2>1, <2>2 DEF DocumentRow
  <2>4. db' = [db EXCEPT ![d] = row] /\ UNCHANGED textract
    BY <1>3 DEF ForceRead
  <2> HIDE DEF manifest
  <2>5. row.manifest # NULL
    BY <2>2, <2>3, StateAssumption DEF DocumentRow
  <2> HIDE DEF row
  <2>. QED BY <2>2, <2>4, <2>5, KeptWrite, KeptStutters
<1>4. ASSUME NEW c \in Consumers, ConsumerStep(c) \/ Crash(c) PROVE PurchaseStep
  <2>1. CASE Receive(c) \/ Begin(c) \/ DeleteMessage(c) \/ Crash(c)
    BY <2>1, KeptSame, KeptStutters DEF Receive, Begin, DeleteMessage, Crash
  <2>2. CASE ReadyStep(c)
    BY <2>2, KeptReady, DecideStep, BuyStep, KeptStutters
  <2>3. CASE CompletionStep(c)
    BY <2>3, KeptCompletion, KeptStutters
  <2>. QED BY <1>4, <2>1, <2>2, <2>3 DEF ConsumerStep
<1>5. ASSUME NEW m \in Messages, Expire(m) PROVE PurchaseStep
  BY <1>5, KeptSame, KeptStutters DEF Expire
<1>6. ASSUME NEW d \in Docs, NEW n \in 1..MaxTextract, FinishJob(d, n) PROVE PurchaseStep
  BY <1>6, FinishStep
<1>7. CASE UNCHANGED vars
  BY <1>7, KeptSame, KeptStutters DEF vars
<1>. QED BY <1>1, <1>2, <1>3, <1>4, <1>5, <1>6, <1>7 DEF Next

\* The pipeline implements OcrPurchase: nothing is bought for a document before
\* its manifest is persisted, and no set of features is bought for it twice, for
\* any number of workers, deliveries, crashes, overrides and re-reads.
THEOREM PurchaseImplemented == Spec => BuysOncePerFeatureSet
<1>1. Init => Purchase!PurchaseInit
  <2> SUFFICES ASSUME Init PROVE Purchase!PurchaseInit
    OBVIOUS
  <2>1. \A d \in Docs : db[d].manifest = NULL /\ textract[d] = << >>
    BY DEF Init, NewDocument
  <2>2. DecidedBar = [d \in Docs |-> FALSE]
    BY <2>1 DEF DecidedBar
  <2>3. BoughtBar = [d \in Docs |-> << >>]
    BY <2>1 DEF BoughtBar, FeaturesOf
  <2>. QED BY <2>2, <2>3 DEF Purchase!PurchaseInit, DecidedBar, BoughtBar, FeaturesOf
<1>2. Inv /\ [Next]_vars => [Purchase!PurchaseNext]_(Purchase!purchaseVars)
  BY NextPurchases DEF PurchaseStep
<1>. QED BY <1>1, <1>2, Invariance, PTL DEF Spec, BuysOncePerFeatureSet, Purchase!PurchaseSpec
=============================================================================
