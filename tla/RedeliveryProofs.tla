-------------------------- MODULE RedeliveryProofs --------------------------
(***************************************************************************)
(* What redelivery, a second worker and a re-read cannot do to the OCR row *)
(* of a document, for any number of documents, consumers and re-reads and  *)
(* any faults.  RecordJob compares nothing: it overwrites the job the row  *)
(* names.  It is harmless because whoever reaches it on a row that is      *)
(* still alive holds the key of that row, Textract knows one job for a     *)
(* key, and so the name written is the name that is there.  Recording is   *)
(* that argument as an invariant.                                          *)
(***************************************************************************)
EXTENDS DocumentPipelineProofs

\* Where a handler holds the key and the job it read from an OCR row.
HoldingPc == {"startOcr", "submit", "recordJob", "fakeResult", "fakeRecord"}

\* The job a name stands for has the features of the key.
Names(ext, key, jobs) ==
  IF settings.fake_ocr THEN ext = FakeJob
                       ELSE ext \in DOMAIN jobs /\ jobs[ext].token.features = key

RecordOK(row, jobs) ==
  row.ext # NoJob => row.key # NULL /\ Names(row.ext, row.key, jobs)

OneJobPerKey(jobs) ==
  \A m, n \in DOMAIN jobs : jobs[m].token.features = jobs[n].token.features => m = n

HolderOK(s, row, jobs) ==
  /\ s.pc \in HoldingPc =>
       /\ s.key # NULL
       /\ s.row <= row.epoch
       /\ s.row = row.epoch => s.key = row.key
       /\ s.ext # NoJob => Names(s.ext, s.key, jobs)
  /\ s.pc \in {"submit", "recordJob"} => ~settings.fake_ocr
  /\ s.pc \in {"fakeResult", "fakeRecord"} => settings.fake_ocr
  /\ s.pc = "recordJob" => s.ext # NoJob

Recording ==
  /\ \A d \in Docs : RecordOK(db[d], textract[d]) /\ OneJobPerKey(textract[d])
  /\ \A c \in Consumers :
       consumer[c].pc # "idle" => HolderOK(consumer[c], db[Doc(c)], textract[Doc(c)])

(***************************************************************************)
(* Most steps leave the three columns and the jobs alone, and lead to      *)
(* where no handler relies on them.                                        *)
(***************************************************************************)
SameColumns ==
  /\ UNCHANGED <<settings, textract>>
  /\ \A d \in Docs : /\ db'[d].epoch = db[d].epoch
                     /\ db'[d].key = db[d].key
                     /\ db'[d].ext = db[d].ext

Away(c) ==
  /\ consumer'[c].pc \notin HoldingPc
  /\ \A e \in Consumers : e # c => consumer'[e] = consumer[e]

LEMMA RecordingByOthers ==
  ASSUME Inv, Recording, SameColumns,
         NEW e \in Consumers, consumer'[e] = consumer[e], consumer[e].pc # "idle"
  PROVE  HolderOK(consumer[e], db[Doc(e)], textract[Doc(e)])'
<1>1. Doc(e) \in Docs /\ Doc(e)' = Doc(e) /\ HolderOK(consumer[e], db[Doc(e)], textract[Doc(e)])
  BY Handling DEF Recording, Doc
<1>. QED BY <1>1 DEF SameColumns, HolderOK, Names

LEMMA RecordingAway ==
  ASSUME Inv, Recording, SameColumns, NEW c \in Consumers, Away(c)
  PROVE  Recording'
<1>1. ASSUME NEW d \in Docs PROVE (RecordOK(db[d], textract[d]) /\ OneJobPerKey(textract[d]))'
  BY DEF Recording, SameColumns, RecordOK, OneJobPerKey, Names
<1>2. ASSUME NEW e \in Consumers, consumer'[e].pc # "idle"
      PROVE  HolderOK(consumer[e], db[Doc(e)], textract[Doc(e)])'
  <2>1. CASE e = c
    BY <2>1 DEF Away, HolderOK, HoldingPc
  <2>2. CASE e # c
    BY <1>2, <2>2, RecordingByOthers DEF Away
  <2>. QED BY <2>1, <2>2
<1>. QED BY <1>1, <1>2 DEF Recording

LEMMA RecordingSame ==
  ASSUME Inv, Recording, SameColumns, UNCHANGED consumer
  PROVE  Recording'
<1>1. ASSUME NEW d \in Docs PROVE (RecordOK(db[d], textract[d]) /\ OneJobPerKey(textract[d]))'
  BY DEF Recording, SameColumns, RecordOK, OneJobPerKey, Names
<1>2. ASSUME NEW e \in Consumers, consumer'[e].pc # "idle"
      PROVE  HolderOK(consumer[e], db[Doc(e)], textract[Doc(e)])'
  BY <1>2, RecordingByOthers
<1>. QED BY <1>1, <1>2 DEF Recording

LEMMA ColumnsSame ==
  ASSUME UNCHANGED <<fixed, db, textract>>
  PROVE  SameColumns
  BY DEF SameColumns, fixed

LEMMA ColumnsWrite ==
  ASSUME Inv, NEW d \in Docs, NEW row, db' = [db EXCEPT ![d] = row],
         row.epoch = db[d].epoch, row.key = db[d].key, row.ext = db[d].ext,
         UNCHANGED <<fixed, textract>>
  PROVE  SameColumns
  BY DEF SameColumns, Inv, TypeOK, fixed

\* A write of any other column.
LEMMA ColumnsOther ==
  ASSUME Inv, NEW d \in Docs, NEW value, UNCHANGED <<fixed, textract>>,
         \/ db' = [db EXCEPT ![d].status = value]
         \/ db' = [db EXCEPT ![d].jobs = value]
         \/ db' = [db EXCEPT ![d].result = value]
         \/ db' = [db EXCEPT ![d].elements = value]
         \/ db' = [db EXCEPT ![d].cited = value]
  PROVE  SameColumns
<1>1. PICK row \in {[db[d] EXCEPT !.status = value], [db[d] EXCEPT !.jobs = value],
                    [db[d] EXCEPT !.result = value], [db[d] EXCEPT !.elements = value],
                    [db[d] EXCEPT !.cited = value]} : db' = [db EXCEPT ![d] = row]
  OBVIOUS
<1>2. db[d] \in DocumentRow
  BY DEF Inv, TypeOK
<1>3. row.epoch = db[d].epoch /\ row.key = db[d].key /\ row.ext = db[d].ext
  BY <1>2 DEF DocumentRow
<1>. QED BY <1>1, <1>3, ColumnsWrite

LEMMA ColumnsJob ==
  ASSUME Inv, NEW d \in Docs, NEW stage, NEW status, UNCHANGED <<fixed, textract>>,
         db' = [db EXCEPT ![d].jobs[stage] = status]
  PROVE  SameColumns
<1> DEFINE jobs == [db[d].jobs EXCEPT ![stage] = status]
<1>1. db' = [db EXCEPT ![d].jobs = jobs]
  OBVIOUS
<1> HIDE DEF jobs
<1>. QED BY <1>1, ColumnsOther

\* The two ways a handler's memory moves without holding anything.
LEMMA AwayByGoto ==
  ASSUME Inv, NEW c \in Consumers, NEW next, next \notin HoldingPc,
         Goto(c, next) \/ Raise(c)
  PROVE  Away(c)
<1>1. consumer \in [Consumers -> ConsumerState]
  BY DEF Inv, TypeOK
<1>2. CASE Goto(c, next)
  BY <1>1, <1>2 DEF Goto, Away, ConsumerState
<1>3. CASE Raise(c)
  BY <1>1, <1>3 DEF Raise, Idle, Away, HoldingPc
<1>. QED BY <1>2, <1>3

LEMMA AwayBySaves ==
  ASSUME Inv, NEW c \in Consumers, consumer[c].pc # "idle",
         NEW stage, NEW status, NEW next, next \notin HoldingPc,
         \/ SaveJob(c, stage, status, next) \/ SaveFailureAndRaise(c, stage)
         \/ SaveStatus(c, status, next)
         \/ StartStage(c, stage, next) \/ SaveStage(c, stage, status, next)
  PROVE  SameColumns /\ Away(c)
<1>1. Doc(c) \in Docs /\ consumer \in [Consumers -> ConsumerState]
  BY Handling DEF Inv, TypeOK
<1>2. CASE SaveJob(c, stage, status, next)
  BY <1>1, <1>2, ColumnsJob, ColumnsSame, AwayByGoto DEF SaveJob
<1>3. CASE SaveFailureAndRaise(c, stage)
  BY <1>1, <1>3, ColumnsJob, ColumnsSame, AwayByGoto DEF SaveFailureAndRaise
<1>4. CASE SaveStatus(c, status, next)
  BY <1>1, <1>4, ColumnsOther, AwayByGoto DEF SaveStatus
<1>5. CASE StartStage(c, stage, next)
  <2>1. SameColumns
    BY <1>1, <1>5, ColumnsJob DEF StartStage
  <2>2. Away(c)
    BY <1>1, <1>5 DEF StartStage, Away, ConsumerState
  <2>. QED BY <2>1, <2>2
<1>6. CASE SaveStage(c, stage, status, next)
  <2>1. SameColumns
    BY <1>1, <1>6, ColumnsJob, ColumnsSame DEF SaveStage
  <2>2. Away(c)
    BY <1>1, <1>6 DEF SaveStage, Away, ConsumerState, HoldingPc
  <2>. QED BY <2>1, <2>2
<1>. QED BY <1>2, <1>3, <1>4, <1>5, <1>6

\* The steps that take, keep or record a name.
Naming(c) ==
  LookupOcr(c) \/ StartOcr(c) \/ ResumeJob(c) \/ SubmitJob(c) \/ RecordJob(c)
    \/ FakeResult(c) \/ FakeRecord(c)

LEMMA ReadyAway ==
  ASSUME Inv, NEW c \in Consumers, ReadyStep(c), ~Naming(c)
  PROVE  SameColumns /\ Away(c)
<1>0. consumer[c].pc # "idle"
  BY DEF ReadyStep, Naming, At, LookupPreprocess, StartPreprocess, Preprocess,
         ReplaceManifest, CompletePreprocess, MarkProcessing, FailPreprocess,
         RefusePreprocess, QuarantineDocument, SkipOcr, SubmitRaises, SubmitTooLarge,
         FailOcr, RefuseOcr
<1>1. /\ Doc(c) \in Docs /\ consumer \in [Consumers -> ConsumerState]
      /\ db[Doc(c)] \in DocumentRow
  BY <1>0, Handling DEF Inv, TypeOK
<1>2. CASE \/ StartPreprocess(c) \/ CompletePreprocess(c) \/ MarkProcessing(c)
           \/ FailPreprocess(c) \/ RefusePreprocess(c) \/ QuarantineDocument(c)
           \/ SkipOcr(c) \/ FailOcr(c) \/ RefuseOcr(c)
  <2>1. {"preprocess", "markProcessing", "lookupOcr", "quarantineDocument", "delete"}
          \cap HoldingPc = {}
    BY DEF HoldingPc
  <2>. QED BY <1>0, <1>2, <2>1, AwayBySaves
       DEF StartPreprocess, CompletePreprocess, MarkProcessing, FailPreprocess,
           RefusePreprocess, QuarantineDocument, SkipOcr, FailOcr, RefuseOcr
<1>3. CASE Preprocess(c) \/ SubmitRaises(c) \/ SubmitTooLarge(c)
  <2>1. SameColumns
    BY <1>3, ColumnsSame DEF Preprocess, SubmitRaises, SubmitTooLarge
  <2>2. Away(c)
    BY <1>1, <1>3 DEF Preprocess, SubmitRaises, SubmitTooLarge, Goto, Away, ConsumerState,
                      HoldingPc
  <2>. QED BY <2>1, <2>2
<1>4. CASE LookupPreprocess(c)
  <2> DEFINE status == IF db[Doc(c)].jobs["PREPROCESS"] = NULL THEN "PENDING"
                                                           ELSE db[Doc(c)].jobs["PREPROCESS"]
  <2>1. db' = [db EXCEPT ![Doc(c)].jobs["PREPROCESS"] = status]
        /\ UNCHANGED <<fixed, textract>>
    BY <1>4 DEF LookupPreprocess
  <2>2. Away(c)
    BY <1>1, <1>4 DEF LookupPreprocess, Away, ConsumerState, HoldingPc
  <2> HIDE DEF status
  <2>. QED BY <1>1, <2>1, <2>2, ColumnsJob
<1>5. CASE ReplaceManifest(c)
  <2> DEFINE manifest == [p \in Pages |-> IF consumer[c].kept[p] = NULL
                                            THEN content[Doc(c)].triage[p]
                                            ELSE consumer[c].kept[p]]
             forced == {p \in Pages : consumer[c].kept[p] # NULL}
             row == [db[Doc(c)] EXCEPT !.manifest = manifest, !.forced = forced,
                                       !.manifestComplete = TRUE]
  <2>1. db' = [db EXCEPT ![Doc(c)] = row] /\ UNCHANGED <<fixed, textract>>
        /\ Goto(c, "completePreprocess")
    BY <1>5 DEF ReplaceManifest
  <2> HIDE DEF manifest, forced
  <2>2. row.epoch = db[Doc(c)].epoch /\ row.key = db[Doc(c)].key /\ row.ext = db[Doc(c)].ext
    BY <1>1 DEF DocumentRow
  <2> HIDE DEF row
  <2>3. "completePreprocess" \notin HoldingPc
    BY DEF HoldingPc
  <2>. QED BY <1>1, <2>1, <2>2, <2>3, ColumnsWrite, AwayByGoto
<1>. QED BY <1>2, <1>3, <1>4, <1>5 DEF ReadyStep, Naming

LEMMA CompletionAway ==
  ASSUME Inv, NEW c \in Consumers, CompletionStep(c)
  PROVE  SameColumns /\ Away(c)
<1>0. consumer[c].pc # "idle"
  BY DEF CompletionStep, At, LookupCompleted, QuarantineOcr, FailDocument, Fetch,
         CompleteOcr, StartNormalize, WriteElements, FailNormalize, CompleteNormalize,
         Extract, Tables, StartLink, Link, CompleteLink, CompleteExtract, StartMatch,
         Match, StartPrice, Price, FailRun, Mark, Settle
<1>1. /\ Doc(c) \in Docs /\ consumer \in [Consumers -> ConsumerState]
      /\ db[Doc(c)] \in DocumentRow
  BY <1>0, Handling DEF Inv, TypeOK
<1>2. CASE \/ QuarantineOcr(c) \/ FailDocument(c) \/ CompleteOcr(c) \/ FailNormalize(c)
           \/ CompleteNormalize(c) \/ StartLink(c) \/ CompleteLink(c)
           \/ CompleteExtract(c) \/ StartMatch(c) \/ Match(c) \/ StartPrice(c)
           \/ FailRun(c) \/ Settle(c)
  <2>1. {"failDocument", "delete", "startNormalize", "extract", "link", "completeExtract",
         "startMatch", "settle", "match", "startPrice", "failRun", "price", "mark"}
          \cap HoldingPc = {}
    BY DEF HoldingPc
  <2>. QED BY <1>0, <1>2, <2>1, AwayBySaves
       DEF QuarantineOcr, FailDocument, CompleteOcr, FailNormalize, CompleteNormalize,
           StartLink, CompleteLink, CompleteExtract, StartMatch, Match, StartPrice, FailRun,
           Settle
<1>3. CASE Tables(c)
  <2>1. SameColumns
    BY <1>3, ColumnsSame DEF Tables
  <2>2. Away(c)
    <3>1. ASSUME NEW next \in {"startLink", "completeExtract", "failRun"}, NEW verdict,
                 \/ consumer' = [consumer EXCEPT ![c].pc = next]
                 \/ consumer' = [consumer EXCEPT ![c].verdict = verdict, ![c].pc = next]
          PROVE  Away(c)
      <4>1. next \notin HoldingPc
        BY DEF HoldingPc
      <4>. QED BY <1>1, <3>1, <4>1 DEF Away, ConsumerState
    <3>. QED BY <1>3, <3>1 DEF Tables, RunRaises, Goto
  <2>. QED BY <2>1, <2>2
<1>4. CASE LookupCompleted(c)
  <2> DEFINE status == IF db[Doc(c)].jobs["OCR"] = NULL THEN "PENDING"
                                                    ELSE db[Doc(c)].jobs["OCR"]
  <2>1. db' = [db EXCEPT ![Doc(c)].jobs["OCR"] = status] /\ UNCHANGED <<fixed, textract>>
    BY <1>4 DEF LookupCompleted
  <2>2. Away(c)
    BY <1>1, <1>4 DEF LookupCompleted, Away, ConsumerState, HoldingPc
  <2> HIDE DEF status
  <2>. QED BY <1>1, <2>1, <2>2, ColumnsJob
<1>5. CASE Fetch(c)
  <2>1. SameColumns
    BY <1>1, <1>5, ColumnsOther, ColumnsSame DEF Fetch
  <2>2. Away(c)
    BY <1>1, <1>5 DEF Fetch, Raise, Idle, Away, ConsumerState, HoldingPc
  <2>. QED BY <2>1, <2>2
<1>6. CASE WriteElements(c)
  <2> DEFINE map == PageMap(consumer[c].pages, PagesRouted(db[Doc(c)].manifest, TextractRoutes))
  <2>0. /\ UNCHANGED <<fixed, textract>>
        /\ db' = [db EXCEPT ![Doc(c)].elements = map] \/ UNCHANGED db
    BY <1>6 DEF WriteElements
  <2> HIDE DEF map
  <2>1. SameColumns
    BY <1>1, <2>0, ColumnsOther, ColumnsSame
  <2>2. Away(c)
    BY <1>1, <1>6 DEF WriteElements, Goto, Away, ConsumerState, HoldingPc
  <2>. QED BY <2>1, <2>2
<1>7. CASE Link(c)
  <2>1. PICK cites \in BOOLEAN : db' = [db EXCEPT ![Doc(c)].cited = @ \/ cites]
    BY <1>7 DEF Link
  <2> DEFINE cited == db[Doc(c)].cited \/ cites
  <2>2. db' = [db EXCEPT ![Doc(c)].cited = cited] /\ UNCHANGED <<fixed, textract>>
    BY <1>7, <2>1, Zenon DEF Link
  <2>3. Away(c)
    <3>1. ASSUME NEW next \in {"completeLink", "failRun"}, NEW verdict,
                 \/ consumer' = [consumer EXCEPT ![c].pc = next]
                 \/ consumer' = [consumer EXCEPT ![c].verdict = verdict, ![c].pc = next]
          PROVE  Away(c)
      <4>1. next \notin HoldingPc
        BY DEF HoldingPc
      <4>. QED BY <1>1, <3>1, <4>1 DEF Away, ConsumerState
    <3>. QED BY <1>7, <3>1 DEF Link, RunRaises, Goto
  <2> HIDE DEF cited
  <2>. QED BY <1>1, <2>2, <2>3, ColumnsOther
<1>8. CASE Mark(c) \/ StartNormalize(c) \/ Extract(c)
  <2>1. SameColumns
    BY <1>1, <1>8, ColumnsOther, ColumnsJob DEF Mark, StartNormalize, Extract
  <2>2. Away(c)
    BY <1>1, <1>8 DEF Mark, StartNormalize, Extract, Goto, Away, ConsumerState, HoldingPc
  <2>. QED BY <2>1, <2>2
<1>9. CASE Price(c)
  <2>1. CASE SaveStage(c, "PRICE", "FAILED", "failRun")
    BY <1>0, <2>1, AwayBySaves DEF HoldingPc
  <2>2. CASE /\ db' = [db EXCEPT ![Doc(c)].jobs["PRICE"] = "COMPLETED"]
             /\ consumer' = [consumer EXCEPT ![c].verdict = "PROCESSED", ![c].pc = "settle"]
             /\ UNCHANGED <<fixed, textract>>
    <3>1. Away(c)
      BY <1>1, <2>2 DEF Away, ConsumerState, HoldingPc
    <3>. QED BY <1>1, <2>2, <3>1, ColumnsJob
  <2>. QED BY <1>9, <2>1, <2>2 DEF Price
<1>. QED BY <1>2, <1>3, <1>4, <1>5, <1>6, <1>7, <1>8, <1>9 DEF CompletionStep

(***************************************************************************)
(* The steps that take, keep or record a name, one by one.                 *)
(***************************************************************************)

\* A step that only moves the handler's memory.
LEMMA RecordingMove ==
  ASSUME Inv, Recording, SameColumns, NEW c \in Consumers, consumer[c].pc # "idle",
         NEW s \in ConsumerState, consumer' = [consumer EXCEPT ![c] = s],
         s.cur = consumer[c].cur,
         HolderOK(s, db[Doc(c)], textract[Doc(c)])
  PROVE  Recording'
<1>0. Doc(c) \in Docs /\ consumer \in [Consumers -> ConsumerState]
  BY Handling DEF Inv, TypeOK
<1>1. ASSUME NEW d \in Docs PROVE (RecordOK(db[d], textract[d]) /\ OneJobPerKey(textract[d]))'
  BY DEF Recording, SameColumns, RecordOK, OneJobPerKey, Names
<1>2. ASSUME NEW e \in Consumers, consumer'[e].pc # "idle"
      PROVE  HolderOK(consumer[e], db[Doc(e)], textract[Doc(e)])'
  <2>1. CASE e = c
    <3>1. consumer'[c] = s /\ Doc(c)' = Doc(c)
      BY <1>0 DEF Doc
    <3>. QED BY <1>0, <2>1, <3>1 DEF SameColumns, HolderOK, Names
  <2>2. CASE e # c
    BY <1>0, <1>2, <2>2, RecordingByOthers
  <2>. QED BY <2>1, <2>2
<1>. QED BY <1>1, <1>2 DEF Recording

LEMMA Holding ==
  ASSUME Inv, Recording, NEW c \in Consumers, consumer[c].pc # "idle"
  PROVE  /\ HolderOK(consumer[c], db[Doc(c)], textract[Doc(c)])
         /\ RecordOK(db[Doc(c)], textract[Doc(c)])
         /\ OneJobPerKey(textract[Doc(c)])
  BY Handling DEF Recording

LEMMA RecordingStartOcr ==
  ASSUME Inv, Recording, NEW c \in Consumers, StartOcr(c)
  PROVE  Recording' /\ SameColumns
<1>0. consumer[c].pc = "startOcr"
  BY DEF StartOcr, At
<1>1. Doc(c) \in Docs /\ consumer[c] \in ConsumerState /\ db[Doc(c)] \in DocumentRow
  BY <1>0, Handling
<1>2. SameColumns
  BY <1>1, ColumnsJob, ColumnsSame DEF StartOcr
<1>3. CASE Raise(c)
  <2>1. "delete" \notin HoldingPc
    BY DEF HoldingPc
  <2>2. Away(c)
    BY <1>3, <2>1, AwayByGoto
  <2>. QED BY <1>2, <2>2, RecordingAway
<1>4. CASE ~Raise(c)
  <2> DEFINE pages == PagesRouted(db[Doc(c)].manifest, TextractRoutes)
             next == IF settings.fake_ocr THEN "fakeResult" ELSE "submit"
             s == [consumer[c] EXCEPT !.pages = pages, !.pc = next]
  <2>1. consumer' = [consumer EXCEPT ![c] = s]
    BY <1>4 DEF StartOcr
  <2>2. pages \in SUBSET Pages /\ next \in Pc /\ next = IF settings.fake_ocr THEN "fakeResult" ELSE "submit"
    BY DEF PagesRouted, Pc, ReadyPc
  <2> HIDE DEF pages, next
  <2>3. s \in ConsumerState
    BY <1>1, <2>2 DEF ConsumerState
  <2>4. /\ s.cur = consumer[c].cur /\ s.pc = next /\ s.key = consumer[c].key
        /\ s.row = consumer[c].row /\ s.ext = consumer[c].ext
    BY <1>1 DEF ConsumerState
  <2> HIDE DEF s
  <2>5. HolderOK(s, db[Doc(c)], textract[Doc(c)])
    BY <1>0, <2>2, <2>4, Holding DEF HolderOK, HoldingPc
  <2>. QED BY <1>0, <1>2, <2>1, <2>3, <2>4, <2>5, RecordingMove
<1>. QED BY <1>2, <1>3, <1>4

LEMMA RecordingByGoto ==
  ASSUME Inv, Recording, SameColumns, NEW c \in Consumers, consumer[c].pc # "idle",
         NEW next \in Pc, Goto(c, next), next \in HoldingPc => consumer[c].pc \in HoldingPc,
         next = "submit" => consumer[c].pc = "submit",
         next \in {"fakeResult", "fakeRecord"} => settings.fake_ocr,
         next = "recordJob" => ~settings.fake_ocr /\ consumer[c].ext # NoJob
  PROVE  Recording'
<1> DEFINE s == [consumer[c] EXCEPT !.pc = next]
<1>1. consumer[c] \in ConsumerState
  BY Handling
<1>2. s \in ConsumerState /\ consumer' = [consumer EXCEPT ![c] = s]
  BY <1>1 DEF ConsumerState, Goto
<1>3. /\ s.cur = consumer[c].cur /\ s.pc = next /\ s.key = consumer[c].key
      /\ s.row = consumer[c].row /\ s.ext = consumer[c].ext
  BY <1>1 DEF ConsumerState
<1> HIDE DEF s
<1>4. HolderOK(s, db[Doc(c)], textract[Doc(c)])
  BY <1>3, Holding DEF HolderOK, HoldingPc
<1>. QED BY <1>2, <1>3, <1>4, RecordingMove

LEMMA RecordingResumeJob ==
  ASSUME Inv, Recording, NEW c \in Consumers, ResumeJob(c)
  PROVE  Recording' /\ SameColumns
<1>1. consumer[c].pc = "submit" /\ Goto(c, "recordJob") /\ consumer[c].ext # NoJob
      /\ SameColumns
  BY ColumnsSame DEF ResumeJob, At
<1>2. ~settings.fake_ocr
  BY <1>1, Holding DEF HolderOK
<1>. QED BY <1>1, <1>2, RecordingByGoto DEF HoldingPc, Pc, ReadyPc

LEMMA RecordingFakeResult ==
  ASSUME Inv, Recording, NEW c \in Consumers, FakeResult(c)
  PROVE  Recording' /\ SameColumns
<1>1. consumer[c].pc = "fakeResult" /\ Goto(c, "fakeRecord")
  BY DEF FakeResult, At
<1>2. SameColumns
  BY <1>1, Handling, ColumnsOther DEF FakeResult
<1>3. settings.fake_ocr
  BY <1>1, Holding DEF HolderOK
<1>. QED BY <1>1, <1>2, <1>3, RecordingByGoto DEF HoldingPc, Pc, ReadyPc

\* get_or_create under the key: the row keeps the key it has, the handler reads both.
LEMMA RecordingLookupOcr ==
  ASSUME Inv, Recording, NEW c \in Consumers, LookupOcr(c)
  PROVE  /\ Recording'
         /\ \A d \in Docs : db'[d].ext = db[d].ext
<1> DEFINE d == Doc(c)
           route == RouteOf(db[d].manifest)
           key == IF db[d].key = NULL THEN OcrKey(route) ELSE db[d].key
           status == IF db[d].jobs["OCR"] = NULL THEN "PENDING" ELSE db[d].jobs["OCR"]
           row == [db[d] EXCEPT !.jobs["OCR"] = status, !.key = key]
           done == db[d].jobs["OCR"] \in {"COMPLETED", "SKIPPED"}
           next == IF done THEN "delete" ELSE IF route = NULL THEN "skipOcr" ELSE "startOcr"
           s == [consumer[c] EXCEPT !.row = db[d].epoch, !.route = route, !.key = key,
                                    !.ext = db[d].ext, !.pc = next]
<1>1. /\ d \in Docs /\ consumer[c] \in ConsumerState /\ db[d] \in DocumentRow
      /\ consumer[c].pc # "idle" /\ RecordOK(db[d], textract[d])
  BY Handling, Holding DEF LookupOcr, At
<1>2. /\ consumer' = [consumer EXCEPT ![c] = s] /\ db' = [db EXCEPT ![d] = row]
      /\ UNCHANGED <<settings, textract>>
  BY DEF LookupOcr, fixed
<1>3. key # NULL /\ (db[d].key # NULL => key = db[d].key)
  BY StateAssumption DEF OcrKey, FeatureKeys
<1> HIDE DEF key, status, next, route
<1>4. /\ row.epoch = db[d].epoch /\ row.ext = db[d].ext /\ row.key = key
  BY <1>1 DEF DocumentRow
<1>5. /\ s.row = db[d].epoch /\ s.key = key /\ s.ext = db[d].ext /\ s.pc = next
      /\ s.cur = consumer[c].cur
  BY <1>1 DEF ConsumerState
<1>6. next \in {"delete", "skipOcr", "startOcr"}
  BY DEF next
<1> HIDE DEF row, s
<1>7. consumer'[c] = s /\ \A e \in Consumers : e # c => consumer'[e] = consumer[e]
  BY <1>2 DEF Inv, TypeOK
<1>8. db'[d] = row /\ \A e \in Docs : e # d => db'[e] = db[e]
  BY <1>1, <1>2 DEF Inv, TypeOK
<1>9. ASSUME NEW e \in Docs PROVE (RecordOK(db[e], textract[e]) /\ OneJobPerKey(textract[e]))'
  <2>1. RecordOK(db[e], textract[e]) /\ OneJobPerKey(textract[e])
    BY DEF Recording
  <2>2. CASE e = d
    BY <1>2, <1>3, <1>4, <1>8, <2>1, <2>2 DEF RecordOK, OneJobPerKey, Names
  <2>3. CASE e # d
    BY <1>2, <1>8, <2>1, <2>3 DEF RecordOK, OneJobPerKey, Names
  <2>. QED BY <2>2, <2>3
<1>10. ASSUME NEW e \in Consumers, consumer'[e].pc # "idle"
       PROVE  HolderOK(consumer[e], db[Doc(e)], textract[Doc(e)])'
  <2>1. CASE e = c
    <3>1. Doc(c)' = d
      BY <1>5, <1>7 DEF Doc
    <3>2. db[d].epoch \in Int
      BY <1>1 DEF DocumentRow
    <3>3. s.ext # NoJob => Names(s.ext, s.key, textract[d])
      BY <1>1, <1>3, <1>5 DEF RecordOK
    <3>. QED BY <1>2, <1>3, <1>4, <1>5, <1>6, <1>7, <1>8, <2>1, <3>1, <3>2, <3>3
         DEF HolderOK, HoldingPc, Names
  <2>2. CASE e # c
    <3>1. Doc(e)' = Doc(e) /\ Doc(e) \in Docs /\ consumer'[e] = consumer[e]
          /\ HolderOK(consumer[e], db[Doc(e)], textract[Doc(e)])
      BY <1>7, <1>10, <2>2, Handling, Holding DEF Doc
    <3>. QED BY <1>2, <1>3, <1>4, <1>8, <3>1 DEF HolderOK, Names
  <2>. QED BY <2>1, <2>2
<1>11. \A e \in Docs : db'[e].ext = db[e].ext
  BY <1>4, <1>8
<1>. QED BY <1>9, <1>10, <1>11 DEF Recording

\* record_external_job_id: whatever is written on a row alive is what it names.
LEMMA RecordingWrite ==
  ASSUME Inv, Recording, NEW c \in Consumers,
         consumer[c].pc = "recordJob" \/ consumer[c].pc = "fakeRecord",
         NEW ext, ext = (IF settings.fake_ocr THEN FakeJob ELSE consumer[c].ext),
         RowAlive(c), db' = [db EXCEPT ![Doc(c)].ext = ext],
         UNCHANGED <<settings, textract>>, Away(c)
  PROVE  /\ Recording'
         /\ \A d \in Docs : db[d].ext # NoJob => db'[d].ext = db[d].ext
<1> DEFINE d == Doc(c)
           row == [db[d] EXCEPT !.ext = ext]
<1>1. /\ d \in Docs /\ consumer[c] \in ConsumerState /\ db[d] \in DocumentRow
      /\ RecordOK(db[d], textract[d]) /\ OneJobPerKey(textract[d])
      /\ HolderOK(consumer[c], db[d], textract[d])
  BY Handling, Holding
<1>2. db[d].key # NULL /\ consumer[c].key = db[d].key
  BY <1>1 DEF HolderOK, HoldingPc, RowAlive
<1>3. Names(ext, db[d].key, textract[d])
  BY <1>1, <1>2 DEF HolderOK, HoldingPc, Names
<1>4. db[d].ext # NoJob => ext = db[d].ext
  BY <1>1, <1>3 DEF RecordOK, OneJobPerKey, Names
<1>5. row.epoch = db[d].epoch /\ row.key = db[d].key /\ row.ext = ext
  BY <1>1 DEF DocumentRow
<1>6. db'[d] = row /\ \A e \in Docs : e # d => db'[e] = db[e]
  BY <1>1 DEF Inv, TypeOK
<1> HIDE DEF row
<1>7. ASSUME NEW e \in Docs PROVE (RecordOK(db[e], textract[e]) /\ OneJobPerKey(textract[e]))'
  <2>1. RecordOK(db[e], textract[e]) /\ OneJobPerKey(textract[e])
    BY DEF Recording
  <2>2. CASE e = d
    BY <1>2, <1>3, <1>5, <1>6, <2>1, <2>2 DEF RecordOK, OneJobPerKey, Names
  <2>3. CASE e # d
    BY <1>6, <2>1, <2>3 DEF RecordOK, OneJobPerKey, Names
  <2>. QED BY <2>2, <2>3
<1>8. ASSUME NEW e \in Consumers, consumer'[e].pc # "idle"
      PROVE  HolderOK(consumer[e], db[Doc(e)], textract[Doc(e)])'
  <2>1. CASE e = c
    BY <2>1 DEF Away, HolderOK, HoldingPc
  <2>2. CASE e # c
    <3>1. Doc(e)' = Doc(e) /\ Doc(e) \in Docs /\ consumer'[e] = consumer[e]
          /\ HolderOK(consumer[e], db[Doc(e)], textract[Doc(e)])
      BY <1>8, <2>2, Handling, Holding DEF Doc, Away
    <3>. QED BY <1>5, <1>6, <3>1 DEF HolderOK, Names
  <2>. QED BY <2>1, <2>2
<1>9. \A e \in Docs : db[e].ext # NoJob => db'[e].ext = db[e].ext
  BY <1>4, <1>5, <1>6
<1>. QED BY <1>7, <1>8, <1>9 DEF Recording

LEMMA RecordingRecordJob ==
  ASSUME Inv, Recording, NEW c \in Consumers, RecordJob(c) \/ FakeRecord(c)
  PROVE  /\ Recording'
         /\ \A d \in Docs : db[d].ext # NoJob => db'[d].ext = db[d].ext
<1>1. consumer[c].pc = (IF RecordJob(c) THEN "recordJob" ELSE "fakeRecord")
  BY DEF RecordJob, FakeRecord, At
<1>2. HolderOK(consumer[c], db[Doc(c)], textract[Doc(c)])
  BY <1>1, Holding
<1>3. {"delete", "completeOcr"} \cap HoldingPc = {}
  BY DEF HoldingPc
<1>4. CASE RowAlive(c)
  <2>1. Away(c)
    BY <1>3, <1>4, AwayByGoto DEF RecordJob, FakeRecord
  <2>2. UNCHANGED <<settings, textract>>
    BY DEF RecordJob, FakeRecord, fixed
  <2>3. CASE RecordJob(c)
    <3>1. ~settings.fake_ocr /\ consumer[c].pc = "recordJob"
      BY <1>1, <1>2, <2>3 DEF HolderOK
    <3>2. db' = [db EXCEPT ![Doc(c)].ext = consumer[c].ext]
      BY <1>4, <2>3 DEF RecordJob
    <3>. QED BY <1>4, <2>1, <2>2, <3>1, <3>2, RecordingWrite
  <2>4. CASE FakeRecord(c)
    <3>1. settings.fake_ocr /\ consumer[c].pc = "fakeRecord"
      BY <1>2, <2>4 DEF HolderOK, FakeRecord, At
    <3>2. db' = [db EXCEPT ![Doc(c)].ext = FakeJob]
      BY <1>4, <2>4 DEF FakeRecord
    <3>. QED BY <1>4, <2>1, <2>2, <3>1, <3>2, RecordingWrite
  <2>. QED BY <2>3, <2>4
<1>5. CASE ~RowAlive(c)
  <2>1. Raise(c) /\ UNCHANGED <<fixed, db, textract>>
    BY <1>5 DEF RecordJob, FakeRecord
  <2>2. Away(c)
    BY <1>3, <2>1, AwayByGoto
  <2>. QED BY <2>1, <2>2, ColumnsSame, RecordingAway
<1>. QED BY <1>4, <1>5

LEMMA HeldName ==
  ASSUME Inv, Recording, NEW c \in Consumers, consumer[c].pc = "submit",
         NEW n \in ExternalJobId \ {NoJob}, NEW jobs, n \in DOMAIN jobs,
         jobs[n].token.features = consumer[c].key
  PROVE  LET s == [consumer[c] EXCEPT !.ext = n, !.pc = "recordJob"] IN
         /\ s \in ConsumerState /\ s.cur = consumer[c].cur
         /\ HolderOK(s, db[Doc(c)], jobs)
<1> DEFINE s == [consumer[c] EXCEPT !.ext = n, !.pc = "recordJob"]
<1>1. /\ consumer[c] \in ConsumerState
      /\ HolderOK(consumer[c], db[Doc(c)], textract[Doc(c)])
  BY Handling, Holding
<1>2. "recordJob" \in Pc
  BY DEF Pc, ReadyPc
<1>3. s \in ConsumerState
  BY <1>1, <1>2 DEF ConsumerState
<1>4. /\ s.pc = "recordJob" /\ s.ext = n /\ s.key = consumer[c].key /\ s.row = consumer[c].row
      /\ s.cur = consumer[c].cur
  BY <1>1 DEF ConsumerState
<1> HIDE DEF s
<1>5. HolderOK(s, db[Doc(c)], jobs)
  BY <1>1, <1>4 DEF HolderOK, HoldingPc, Names
<1>. QED BY <1>3, <1>4, <1>5 DEF s

\* Buying a job with features no job had.
LEMMA OneMoreJob ==
  ASSUME NEW jobs \in Seq(TextractJob), NEW job, OneJobPerKey(jobs),
         \A n \in DOMAIN jobs : jobs[n].token.features # job.token.features
  PROVE  /\ OneJobPerKey(Append(jobs, job))
         /\ Append(jobs, job)[Len(jobs) + 1] = job
         /\ Len(jobs) + 1 \in DOMAIN Append(jobs, job)
         /\ \A ext, key : Names(ext, key, jobs) => Names(ext, key, Append(jobs, job))
<1> DEFINE more == Append(jobs, job)
<1>1. /\ DOMAIN more = 1..Len(jobs) + 1 /\ Len(jobs) \in Nat /\ DOMAIN jobs = 1..Len(jobs)
      /\ \A n \in 1..Len(jobs) : more[n] = jobs[n]
      /\ more[Len(jobs) + 1] = job
  OBVIOUS
<1> HIDE DEF more
<1>2. OneJobPerKey(more)
  BY <1>1 DEF OneJobPerKey
<1>3. \A ext, key : Names(ext, key, jobs) => Names(ext, key, more)
  BY <1>1 DEF Names
<1>. QED BY <1>1, <1>2, <1>3 DEF more

\* A token that is new buys the first job with its features; a known one names the
\* job that has them.
LEMMA RecordingSubmitJob ==
  ASSUME Inv, Recording, NEW c \in Consumers, SubmitJob(c)
  PROVE  Recording' /\ UNCHANGED db
<1> DEFINE d == Doc(c)
           key == consumer[c].key
           token == Token(d, key)
           job == [token |-> token, api |-> consumer[c].route, pages |-> consumer[c].pages,
                   epoch |-> consumer[c].row, state |-> "IN_PROGRESS"]
           memory(n) == [consumer[c] EXCEPT !.ext = n, !.pc = "recordJob"]
<1>1. /\ d \in Docs /\ consumer[c] \in ConsumerState /\ consumer[c].pc = "submit"
      /\ textract \in [Docs -> Seq(TextractJob)] /\ JobsOK(textract[d], db[d])
      /\ OneJobPerKey(textract[d]) /\ RecordOK(db[d], textract[d])
      /\ UNCHANGED <<fixed, db>>
  BY Handling, Holding DEF SubmitJob, At, Inv, TypeOK
<1>2. "failOcr" \notin HoldingPc
  BY DEF HoldingPc
<1>3. token.features = key /\ token.nonce = 0
  BY DEF Token
<1>4. ASSUME NEW n \in DOMAIN textract[d], textract[d][n].token = token, UNCHANGED textract,
             consumer' = [consumer EXCEPT ![c].ext = n, ![c].pc = "recordJob"]
      PROVE  Recording'
  <2>1. n \in ExternalJobId \ {NoJob}
    BY <1>1, StateAssumption DEF JobsOK, ExternalJobId, NoJob
  <2>2. /\ memory(n) \in ConsumerState /\ memory(n).cur = consumer[c].cur
        /\ HolderOK(memory(n), db[d], textract[d])
    BY <1>1, <1>3, <1>4, <2>1, HeldName
  <2>3. consumer' = [consumer EXCEPT ![c] = memory(n)]
    BY <1>4
  <2> HIDE DEF memory
  <2>. QED BY <1>1, <1>4, <2>2, <2>3, ColumnsSame, RecordingMove
<1>5. ASSUME UNCHANGED textract, Goto(c, "failOcr") PROVE Recording'
  BY <1>1, <1>2, <1>5, ColumnsSame, AwayByGoto, RecordingAway
<1>6. ASSUME Started(d, token) = {}, Len(textract[d]) < MaxTextract,
             textract' = [textract EXCEPT ![d] = Append(@, job)],
             \/ consumer' = [consumer EXCEPT ![c].ext = Len(textract[d]) + 1,
                                             ![c].pc = "recordJob"]
             \/ Goto(c, "failOcr")
      PROVE  Recording'
  <2> DEFINE jobs == textract[d]
             n == Len(jobs) + 1
             more == Append(jobs, job)
  <2>1. jobs \in Seq(TextractJob) /\ job.token = token
    BY <1>1
  <2>2. \A m \in DOMAIN jobs : jobs[m].token.features # job.token.features
    <3> SUFFICES ASSUME NEW m \in DOMAIN jobs PROVE jobs[m].token.features # key
      BY <1>3, <2>1
    <3>1. jobs[m].token \in TextractToken /\ jobs[m].token.nonce = 0
      <4>1. jobs[m] \in TextractJob
        BY <2>1
      <4>. QED BY <1>1, <4>1 DEF JobsOK, TextractJob
    <3>2. jobs[m].token # token
      BY <1>6 DEF Started
    <3>. QED BY <3>1, <3>2 DEF TextractToken, Token
  <2>3. textract'[d] = more /\ \A e \in Docs : e # d => textract'[e] = textract[e]
    BY <1>1, <1>6
  <2>4. n \in ExternalJobId \ {NoJob}
    BY <1>6, <2>1, StateAssumption DEF ExternalJobId, NoJob
  <2> HIDE DEF job
  <2>5. /\ OneJobPerKey(more) /\ more[n] = job /\ n \in DOMAIN more
        /\ \A ext, k : Names(ext, k, jobs) => Names(ext, k, more)
    BY <1>1, <2>1, <2>2, OneMoreJob
  <2> HIDE DEF jobs, more, n
  <2>6. ASSUME NEW e \in Docs PROVE (RecordOK(db[e], textract[e]) /\ OneJobPerKey(textract[e]))'
    <3>1. RecordOK(db[e], textract[e]) /\ OneJobPerKey(textract[e])
      BY DEF Recording
    <3>2. UNCHANGED settings
      BY <1>1 DEF fixed
    <3>3. CASE e = d
      <4>1. RecordOK(db[d], more)
        BY <2>5, <3>1, <3>3 DEF RecordOK, jobs
      <4>. QED BY <1>1, <2>3, <2>5, <3>2, <3>3, <4>1 DEF RecordOK, Names, OneJobPerKey
    <3>4. CASE e # d
      BY <1>1, <2>3, <3>1, <3>2, <3>4 DEF RecordOK, Names, OneJobPerKey
    <3>. QED BY <3>3, <3>4
  <2>7. ASSUME NEW e \in Consumers, e # c, consumer'[e].pc # "idle"
        PROVE  HolderOK(consumer[e], db[Doc(e)], textract[Doc(e)])'
    <3>1. consumer'[e] = consumer[e]
      BY <1>6, <2>7 DEF Inv, TypeOK, Goto
    <3>2. /\ Doc(e)' = Doc(e) /\ Doc(e) \in Docs
          /\ HolderOK(consumer[e], db[Doc(e)], textract[Doc(e)])
      BY <2>7, <3>1, Handling, Holding DEF Doc
    <3>3. UNCHANGED settings
      BY <1>1 DEF fixed
    <3>4. CASE Doc(e) = d
      <4>1. HolderOK(consumer[e], db[d], more)
        BY <2>5, <3>2, <3>4 DEF HolderOK, jobs
      <4>. QED BY <1>1, <2>3, <3>1, <3>2, <3>3, <3>4, <4>1 DEF HolderOK, Names
    <3>5. CASE Doc(e) # d
      BY <1>1, <2>3, <3>1, <3>2, <3>3, <3>5 DEF HolderOK, Names
    <3>. QED BY <3>4, <3>5
  <2>8. ASSUME consumer'[c].pc # "idle"
        PROVE  HolderOK(consumer[c], db[Doc(c)], textract[Doc(c)])'
    <3>1. CASE Goto(c, "failOcr")
      <4>1. Away(c)
        BY <1>2, <3>1, AwayByGoto
      <4>. QED BY <4>1 DEF Away, HolderOK, HoldingPc
    <3>2. CASE consumer' = [consumer EXCEPT ![c].ext = n, ![c].pc = "recordJob"]
      <4>1. /\ memory(n) \in ConsumerState /\ memory(n).cur = consumer[c].cur
            /\ HolderOK(memory(n), db[d], more)
        BY <1>1, <1>3, <2>1, <2>4, <2>5, HeldName
      <4>2. consumer' = [consumer EXCEPT ![c] = memory(n)]
        BY <3>2
      <4> HIDE DEF memory
      <4>3. consumer'[c] = memory(n)
        BY <4>2 DEF Inv, TypeOK
      <4>4. Doc(c)' = d
        BY <4>1, <4>3 DEF Doc
      <4>5. UNCHANGED settings
        BY <1>1 DEF fixed
      <4>. QED BY <1>1, <2>3, <4>1, <4>3, <4>4, <4>5 DEF HolderOK, Names
    <3>. QED BY <1>6, <3>1, <3>2 DEF n, jobs
  <2>. QED BY <2>6, <2>7, <2>8 DEF Recording
<1>7. \/ /\ UNCHANGED textract
         /\ \E n \in Started(d, token) :
              \/ consumer' = [consumer EXCEPT ![c].ext = n, ![c].pc = "recordJob"]
              \/ Goto(c, "failOcr")
      \/ /\ Started(d, token) = {} /\ Len(textract[d]) < MaxTextract
         /\ textract' = [textract EXCEPT ![d] = Append(@, job)]
         /\ \/ consumer' = [consumer EXCEPT ![c].ext = Len(textract[d]) + 1,
                                            ![c].pc = "recordJob"]
            \/ Goto(c, "failOcr")
  BY DEF SubmitJob
<1> HIDE DEF job, token
<1>8. CASE UNCHANGED textract /\ \E n \in Started(d, token) :
             \/ consumer' = [consumer EXCEPT ![c].ext = n, ![c].pc = "recordJob"]
             \/ Goto(c, "failOcr")
  BY <1>1, <1>4, <1>5, <1>8 DEF Started
<1>. QED BY <1>1, <1>6, <1>7, <1>8

(***************************************************************************)
(* The API, Textract and the queues.                                       *)
(***************************************************************************)

\* The job rows go: no handler holds a row of the epoch that starts.
LEMMA RecordingReprocess ==
  ASSUME Inv, Recording, NEW r \in Requests, ReprocessCommit(r)
  PROVE  /\ Recording'
         /\ \A d \in Docs : db'[d].epoch = db[d].epoch => db'[d].ext = db[d].ext
<1> DEFINE d == request[r].doc
           jobs == [s \in PipelineStage |-> NULL]
           row == [db[d] EXCEPT !.jobs = jobs, !.key = NULL, !.ext = NoJob,
                                !.epoch = db[d].epoch + 1, !.manifestComplete = FALSE,
                                !.status = "READY_FOR_PROCESSING"]
<1>1. d \in Docs /\ db[d] \in DocumentRow /\ db[d].epoch \in Nat
  BY DEF ReprocessCommit, Inv, TypeOK, DocumentRow
<1>2. db' = [db EXCEPT ![d] = row] /\ UNCHANGED <<fixed, textract, consumer>>
  BY DEF ReprocessCommit
<1> HIDE DEF jobs
<1>3. row.epoch = db[d].epoch + 1 /\ row.ext = NoJob
  BY <1>1 DEF DocumentRow
<1> HIDE DEF row
<1>4. db'[d] = row /\ \A e \in Docs : e # d => db'[e] = db[e]
  BY <1>1, <1>2 DEF Inv, TypeOK
<1>5. ASSUME NEW e \in Docs PROVE (RecordOK(db[e], textract[e]) /\ OneJobPerKey(textract[e]))'
  BY <1>2, <1>3, <1>4 DEF Recording, RecordOK, OneJobPerKey, Names, fixed
<1>6. ASSUME NEW e \in Consumers, consumer'[e].pc # "idle"
      PROVE  HolderOK(consumer[e], db[Doc(e)], textract[Doc(e)])'
  <2>1. /\ Doc(e)' = Doc(e) /\ Doc(e) \in Docs /\ consumer[e] \in ConsumerState
        /\ HolderOK(consumer[e], db[Doc(e)], textract[Doc(e)])
    BY <1>2, <1>6, Handling, Holding DEF Doc
  <2>2. consumer[e].row \in Nat
    BY <2>1 DEF ConsumerState
  <2>3. CASE Doc(e) = d
    BY <1>1, <1>2, <1>3, <1>4, <2>1, <2>2, <2>3 DEF HolderOK, Names, fixed
  <2>4. CASE Doc(e) # d
    BY <1>2, <1>4, <2>1, <2>4 DEF HolderOK, Names, fixed
  <2>. QED BY <2>3, <2>4
<1>7. \A e \in Docs : db'[e].epoch = db[e].epoch => db'[e].ext = db[e].ext
  BY <1>1, <1>3, <1>4
<1>. QED BY <1>5, <1>6, <1>7 DEF Recording

LEMMA ApiColumns ==
  ASSUME Inv, NEW r \in Requests
  PROVE  /\ \A d \in Docs : Upload(r, d) \/ ReprocessLoad(r, d) => SameColumns /\ UNCHANGED consumer
         /\ (RequestStep(r) \/ ApiCrash(r)) /\ ~ReprocessCommit(r)
              => SameColumns /\ UNCHANGED consumer
<1>1. ASSUME NEW d \in Docs, Upload(r, d) PROVE SameColumns /\ UNCHANGED consumer
  <2>1. PICK status : db' = [db EXCEPT ![d].status = status]
    BY <1>1 DEF Upload
  <2>2. UNCHANGED <<fixed, textract, consumer>>
    BY <1>1 DEF Upload
  <2>. QED BY <2>1, <2>2, ColumnsOther
<1>2. ASSUME NEW d \in Docs, ReprocessLoad(r, d) PROVE SameColumns /\ UNCHANGED consumer
  BY <1>2, ColumnsSame DEF ReprocessLoad
<1>3. CASE EnqueueSend(r) \/ EnqueueFail(r) \/ ApiCrash(r)
  BY <1>3, ColumnsSame DEF EnqueueSend, EnqueueFail, ApiCrash
<1>4. CASE EnqueueRow(r)
  <2> DEFINE d == request[r].doc
             status == IF db[d].jobs["PREPROCESS"] = NULL THEN "PENDING"
                                                          ELSE db[d].jobs["PREPROCESS"]
  <2>1. db' = [db EXCEPT ![d].jobs["PREPROCESS"] = status]
        /\ UNCHANGED <<fixed, textract, consumer>>
    BY <1>4 DEF EnqueueRow
  <2>2. d \in Docs
    BY <1>4 DEF EnqueueRow, Inv
  <2> HIDE DEF status
  <2>. QED BY <2>1, <2>2, ColumnsJob
<1>. QED BY <1>1, <1>2, <1>3, <1>4 DEF RequestStep

LEMMA ForceColumns ==
  ASSUME Inv, NEW d \in Docs, NEW p, NEW route, ForceRead(d, p, route)
  PROVE  SameColumns /\ UNCHANGED consumer
<1> DEFINE manifest == [db[d].manifest EXCEPT ![p] = route]
           forced == db[d].forced \cup {p}
           row == [db[d] EXCEPT !.manifest = manifest, !.forced = forced]
<1>1. db[d] \in DocumentRow
  BY DEF Inv, TypeOK
<1>2. db' = [db EXCEPT ![d] = row] /\ UNCHANGED <<fixed, textract, consumer>>
  BY DEF ForceRead
<1> HIDE DEF manifest, forced
<1>3. row.epoch = db[d].epoch /\ row.key = db[d].key /\ row.ext = db[d].ext
  BY <1>1 DEF DocumentRow
<1> HIDE DEF row
<1>. QED BY <1>2, <1>3, ColumnsWrite

LEMMA RecordingFinishJob ==
  ASSUME Inv, Recording, NEW d \in Docs, NEW n \in 1..MaxTextract, FinishJob(d, n)
  PROVE  Recording' /\ UNCHANGED db
<1>1. PICK state : textract' = [textract EXCEPT ![d][n].state = state]
  BY DEF FinishJob
<1>2. UNCHANGED <<fixed, db, consumer>> /\ n \in DOMAIN textract[d]
  BY DEF FinishJob
<1>3. textract \in [Docs -> Seq(TextractJob)] /\ textract[d][n] \in TextractJob
  BY <1>2 DEF Inv, TypeOK
<1> DEFINE job == [textract[d][n] EXCEPT !.state = state]
           jobs == [textract[d] EXCEPT ![n] = job]
<1>4. job.token = textract[d][n].token
  BY <1>3 DEF TextractJob
<1>5. textract' = [textract EXCEPT ![d] = jobs]
  BY <1>1
<1> HIDE DEF job
<1>6. DOMAIN jobs = DOMAIN textract[d]
      /\ \A m \in DOMAIN jobs : jobs[m].token = textract[d][m].token
  BY <1>2, <1>4
<1> HIDE DEF jobs
<1>7. \A e \in Docs : /\ DOMAIN textract'[e] = DOMAIN textract[e]
                      /\ \A m \in DOMAIN textract[e] :
                           textract'[e][m].token = textract[e][m].token
  BY <1>3, <1>5, <1>6
<1>8. ASSUME NEW e \in Docs PROVE (RecordOK(db[e], textract[e]) /\ OneJobPerKey(textract[e]))'
  BY <1>2, <1>7 DEF Recording, RecordOK, OneJobPerKey, Names, fixed
<1>9. ASSUME NEW e \in Consumers, consumer'[e].pc # "idle"
      PROVE  HolderOK(consumer[e], db[Doc(e)], textract[Doc(e)])'
  <2>1. /\ Doc(e)' = Doc(e) /\ Doc(e) \in Docs
        /\ HolderOK(consumer[e], db[Doc(e)], textract[Doc(e)])
    BY <1>2, <1>9, Handling, Holding DEF Doc
  <2>. QED BY <1>2, <1>7, <2>1 DEF HolderOK, Names, fixed
<1>. QED BY <1>2, <1>8, <1>9 DEF Recording

\* The loops: a message that begins, ends or is lost takes no name with it.
LEMMA LoopAway ==
  ASSUME Inv, NEW c \in Consumers,
         Receive(c) \/ Begin(c) \/ DeleteMessage(c) \/ Crash(c)
  PROVE  SameColumns /\ Away(c)
<1>1. consumer \in [Consumers -> ConsumerState]
  BY DEF Inv, TypeOK
<1>2. SameColumns
  BY ColumnsSame DEF Receive, Begin, DeleteMessage, Crash
<1>3. CASE Receive(c)
  <2>1. PICK batch \in SUBSET Visible(c) :
          consumer' = [consumer EXCEPT ![c].batch =
                         {[msg |-> m, receipt |-> queue[m].rc + 1] : m \in batch}]
    BY <1>3 DEF Receive
  <2> DEFINE received == {[msg |-> m, receipt |-> queue[m].rc + 1] : m \in batch}
  <2>2. consumer' = [consumer EXCEPT ![c].batch = received]
    BY <2>1
  <2> HIDE DEF received
  <2>3. consumer[c].pc = "idle"
    BY <1>3 DEF Receive
  <2>. QED BY <1>1, <1>2, <2>2, <2>3 DEF Away, ConsumerState, HoldingPc
<1>4. CASE Begin(c)
  <2>1. PICK delivery \in consumer[c].batch :
          consumer' = [consumer EXCEPT
            ![c].batch = @ \ {delivery},
            ![c].cur = delivery,
            ![c].pc = IF delivery.msg.kind = "ready" THEN "lookupPreprocess"
                                                     ELSE "lookupCompleted"]
    BY <1>4 DEF Begin
  <2> DEFINE next == IF delivery.msg.kind = "ready" THEN "lookupPreprocess"
                                                    ELSE "lookupCompleted"
             rest == consumer[c].batch \ {delivery}
  <2>2. consumer' = [consumer EXCEPT ![c].batch = rest, ![c].cur = delivery, ![c].pc = next]
    BY <2>1
  <2>3. next \notin HoldingPc
    BY DEF HoldingPc
  <2> HIDE DEF next, rest
  <2>. QED BY <1>1, <1>2, <2>2, <2>3 DEF Away, ConsumerState
<1>5. CASE DeleteMessage(c) \/ Crash(c)
  BY <1>1, <1>2, <1>5 DEF DeleteMessage, Crash, Raise, Idle, Away, HoldingPc
<1>. QED BY <1>3, <1>4, <1>5

(***************************************************************************)
(* Every step.                                                             *)
(***************************************************************************)

\* What a step does to the names that are there.
NamesStay ==
  \A d \in Docs : db[d].ext # NoJob /\ db'[d].epoch = db[d].epoch => db'[d].ext = db[d].ext

LEMMA RecordingNext ==
  ASSUME Inv, Recording, [Next]_vars
  PROVE  Recording' /\ NamesStay
<1>0. SameColumns => NamesStay
  BY DEF SameColumns, NamesStay
<1>1. ASSUME NEW r \in Requests, NEW d \in Docs, Upload(r, d) \/ ReprocessLoad(r, d)
      PROVE  Recording' /\ NamesStay
  BY <1>0, <1>1, ApiColumns, RecordingSame
<1>2. ASSUME NEW r \in Requests, RequestStep(r) \/ ApiCrash(r)
      PROVE  Recording' /\ NamesStay
  <2>1. CASE ReprocessCommit(r)
    BY <2>1, RecordingReprocess DEF NamesStay
  <2>2. CASE ~ReprocessCommit(r)
    BY <1>0, <1>2, <2>2, ApiColumns, RecordingSame
  <2>. QED BY <2>1, <2>2
<1>3. ASSUME NEW d \in Docs, NEW override \in Overrides,
             ForceRead(d, override[1], override[2])
      PROVE  Recording' /\ NamesStay
  BY <1>0, <1>3, ForceColumns, RecordingSame
<1>4. ASSUME NEW c \in Consumers, ConsumerStep(c) \/ Crash(c)
      PROVE  Recording' /\ NamesStay
  <2>1. CASE Receive(c) \/ Begin(c) \/ DeleteMessage(c) \/ Crash(c)
    BY <1>0, <2>1, LoopAway, RecordingAway
  <2>2. CASE ReadyStep(c) /\ ~Naming(c)
    BY <1>0, <2>2, ReadyAway, RecordingAway
  <2>3. CASE CompletionStep(c)
    BY <1>0, <2>3, CompletionAway, RecordingAway
  <2>4. CASE StartOcr(c) \/ ResumeJob(c) \/ FakeResult(c)
    BY <1>0, <2>4, RecordingStartOcr, RecordingResumeJob, RecordingFakeResult
  <2>5. CASE LookupOcr(c)
    BY <2>5, RecordingLookupOcr DEF NamesStay
  <2>6. CASE RecordJob(c) \/ FakeRecord(c)
    BY <2>6, RecordingRecordJob DEF NamesStay
  <2>7. CASE SubmitJob(c)
    BY <2>7, RecordingSubmitJob DEF NamesStay
  <2>. QED BY <1>4, <2>1, <2>2, <2>3, <2>4, <2>5, <2>6, <2>7 DEF ConsumerStep, Naming
<1>5. ASSUME NEW m \in Messages, Expire(m) PROVE Recording' /\ NamesStay
  BY <1>0, <1>5, ColumnsSame, RecordingSame DEF Expire
<1>6. ASSUME NEW d \in Docs, NEW n \in 1..MaxTextract, FinishJob(d, n)
      PROVE  Recording' /\ NamesStay
  BY <1>6, RecordingFinishJob DEF NamesStay
<1>7. CASE UNCHANGED vars
  BY <1>0, <1>7, ColumnsSame, RecordingSame DEF vars, fixed
<1>. QED BY <1>1, <1>2, <1>3, <1>4, <1>5, <1>6, <1>7 DEF Next

\* Whoever still holds a live OCR row holds its key, and a key has one job.
THEOREM RecordingInvariance == Spec => []Recording
<1>1. Init => Recording
  BY DEF Init, Recording, RecordOK, OneJobPerKey, NewDocument, Idle
<1>2. Inv /\ Recording /\ [Next]_vars => Recording'
  BY RecordingNext
<1>. QED BY <1>1, <1>2, Invariance, PTL DEF Spec

\* record_external_job_id is the redelivery guard: once an OCR row names its
\* Textract job, no delivery and no second worker makes it name another, however
\* many workers, re-reads and overrides there are.
THEOREM RecordedStays == Spec => RecordedJobStays
<1>1. Inv /\ Recording /\ [Next]_vars =>
        [\A d \in Docs :
           db[d].ext # NoJob /\ db'[d].epoch = db[d].epoch => db'[d].ext = db[d].ext]_vars
  BY RecordingNext DEF NamesStay
<1>. QED BY <1>1, Invariance, RecordingInvariance, PTL DEF Spec, RecordedJobStays
=============================================================================
