--------------------------- MODULE ReadyHandler ---------------------------
(***************************************************************************)
(* handle_document_ready and _submit_ocr (pipeline/coordinator.py): one    *)
(* DocumentReady message is preprocessed, its manifest is persisted, and   *)
(* the routed pages are submitted to Textract.  Every action is one        *)
(* database transaction or one external call of the handler.  A save of a  *)
(* job row that reprocess has deleted raises DatabaseError, and so does    *)
(* the fail_job of the handler's except branch: the message stays queued.  *)
(***************************************************************************)
EXTENDS Queues

\* The worker's view of a job row: the save succeeds while the row exists.
RowAlive(c) == consumer[c].row = db[Doc(c)].epoch

At(c, pc) == consumer[c].pc = pc

Goto(c, pc) == consumer' = [consumer EXCEPT ![c].pc = pc]

\* start_job, complete_job, fail_job: job.save(update_fields=["status", ...]).
SaveJob(c, stage, status, next) ==
  /\ \/ /\ RowAlive(c)
        /\ db' = [db EXCEPT ![Doc(c)].jobs[stage] = status]
        /\ Goto(c, next)
     \/ /\ ~RowAlive(c)
        /\ Raise(c)
        /\ UNCHANGED db
  /\ UNCHANGED <<fixed, queue, textract, request>>

\* fail_job in an except branch, then raise: the message is redelivered.
SaveFailureAndRaise(c, stage) ==
  /\ db' = IF RowAlive(c) THEN [db EXCEPT ![Doc(c)].jobs[stage] = "FAILED"] ELSE db
  /\ Raise(c)
  /\ UNCHANGED <<fixed, queue, textract, request>>

\* set_document_status.
SaveStatus(c, status, next) ==
  /\ db' = [db EXCEPT ![Doc(c)].status = status]
  /\ Goto(c, next)
  /\ UNCHANGED <<fixed, queue, textract, request>>

PagesRouted(routing, routes) == {p \in Pages : routing[p] \in routes}

(***************************************************************************)
(* Preprocessing.                                                          *)
(***************************************************************************)

\* (Variant, to test the checks: preprocess again on every delivery.)
LookupPreprocessAlways(c) ==
  LET d == Doc(c) IN
  /\ At(c, "lookupPreprocess")
  /\ db' = [db EXCEPT ![d].jobs["PREPROCESS"] = IF @ = NULL THEN "PENDING" ELSE @]
  /\ consumer' = [consumer EXCEPT ![c].row = db[d].epoch, ![c].pc = "startPreprocess"]
  /\ UNCHANGED <<fixed, queue, textract, request>>

\* get_or_create_job(PREPROCESS): skip to OCR when it is already COMPLETED.
LookupPreprocess(c) ==
  LET d == Doc(c) IN
  /\ At(c, "lookupPreprocess")
  /\ db' = [db EXCEPT ![d].jobs["PREPROCESS"] = IF @ = NULL THEN "PENDING" ELSE @]
  /\ consumer' = [consumer EXCEPT
       ![c].row = db[d].epoch,
       ![c].pc = IF db[d].jobs["PREPROCESS"] = "COMPLETED" THEN "lookupOcr"
                                                           ELSE "startPreprocess"]
  /\ UNCHANGED <<fixed, queue, textract, request>>

StartPreprocess(c) ==
  /\ At(c, "startPreprocess")
  /\ SaveJob(c, "PREPROCESS", "STARTED", "preprocess")

\* What routing.decide estimates for a page of a route.
PageRate(route) == CASE route = "TEXTRACT_TABLES" -> 10
                     [] route = "TEXTRACT_TEXT" -> 1
                     [] OTHER -> 0

\* analyze_document sums the estimate over the routes of triage; what an
\* estimator forced is not in it.
EstimatedCost(triage) ==
  PageRate("TEXTRACT_TABLES") * Cardinality(PagesRouted(triage, {"TEXTRACT_TABLES"}))
    + PageRate("TEXTRACT_TEXT") * Cardinality(PagesRouted(triage, {"TEXTRACT_TEXT"}))

\* (Variant, to test the checks: the cost guard is not consulted.)
RefusedWithoutGuard(file) == file.kind = "encrypted"

\* validate_pdf and analyze_document refuse for good.
Refused(file) ==
  \/ file.kind = "encrypted"
  \/ /\ file.kind = "pdf"
     /\ EstimatedCost(file.triage) > MaxOcrCost

\* Anything else that raises: no such object, a corrupt file, S3, a render.
PreprocessRaises(file) == file.kind \in {"rejected", "corrupt"} \/ "storage" \in Faults

\* Fetch, validate, triage and rasterise; then write_manifest reads the rows
\* an estimator forced.
Preprocess(c) ==
  LET d == Doc(c)
      file == content[d]
  IN
  /\ At(c, "preprocess")
  /\ \/ /\ PreprocessRaises(file)
        /\ Goto(c, "failPreprocess")
     \/ /\ Refused(file)
        /\ Goto(c, "refusePreprocess")
     \/ /\ file.kind = "pdf" /\ ~Refused(file)
        /\ consumer' = [consumer EXCEPT
             ![c].kept = [p \in Pages |-> IF p \in db[d].forced THEN db[d].manifest[p]
                                                                ELSE NULL],
             ![c].pc = "replaceManifest"]
  /\ UNCHANGED <<fixed, db, queue, textract, request>>

\* write_manifest, the rest of the transaction: delete and recreate every row,
\* with the route and the forced mark of the rows it read.
ReplaceManifest(c) ==
  LET d == Doc(c)
      kept == consumer[c].kept
  IN
  /\ At(c, "replaceManifest")
  /\ db' = [db EXCEPT
       ![d].manifest = [p \in Pages |-> IF kept[p] = NULL THEN content[d].triage[p]
                                                          ELSE kept[p]],
       ![d].forced = {p \in Pages : kept[p] # NULL},
       ![d].manifestComplete = TRUE]
  /\ Goto(c, "completePreprocess")
  /\ UNCHANGED <<fixed, queue, textract, request>>

CompletePreprocess(c) ==
  /\ At(c, "completePreprocess")
  /\ SaveJob(c, "PREPROCESS", "COMPLETED", "markProcessing")

MarkProcessing(c) ==
  /\ At(c, "markProcessing")
  /\ SaveStatus(c, "PROCESSING", "lookupOcr")

FailPreprocess(c) ==
  /\ At(c, "failPreprocess")
  /\ SaveFailureAndRaise(c, "PREPROCESS")

RefusePreprocess(c) ==
  /\ At(c, "refusePreprocess")
  /\ SaveJob(c, "PREPROCESS", "QUARANTINED", "quarantineDocument")

QuarantineDocument(c) ==
  /\ At(c, "quarantineDocument")
  /\ SaveStatus(c, "QUARANTINED", "delete")

(***************************************************************************)
(* Submission.                                                             *)
(***************************************************************************)

\* One job for the whole subset, TABLES whenever any page needs tables.
RouteOf(manifest) ==
  CASE PagesRouted(manifest, {"TEXTRACT_TABLES"}) # {} -> "TEXTRACT_TABLES"
    [] PagesRouted(manifest, {"TEXTRACT_TABLES"}) = {}
         /\ PagesRouted(manifest, {"TEXTRACT_TEXT"}) # {} -> "TEXTRACT_TEXT"
    [] OTHER -> NULL

\* The OCR idempotency key.  Document, file version and routing table are the
\* same for every delivery of a document; the feature set is what varies.
OcrKey(route) == CASE route = "TEXTRACT_TABLES" -> "TABLES"
                   [] route = "TEXTRACT_TEXT" -> "TEXT"
                   [] OTHER -> "NONE"

\* Read the routes, then get_or_create_job(OCR) under the key, which an existing
\* row keeps when it has one.
LookupOcr(c) ==
  LET d == Doc(c)
      route == RouteOf(db[d].manifest)
      key == IF db[d].key = NULL THEN OcrKey(route) ELSE db[d].key
      done == db[d].jobs["OCR"] \in {"COMPLETED", "SKIPPED"}
  IN
  /\ At(c, "lookupOcr")
  /\ db' = [db EXCEPT ![d].jobs["OCR"] = IF @ = NULL THEN "PENDING" ELSE @,
                      ![d].key = key]
  /\ consumer' = [consumer EXCEPT
       ![c].row = db[d].epoch,
       ![c].route = route,
       ![c].key = key,
       ![c].ext = db[d].ext,
       ![c].pc = IF done THEN "delete" ELSE IF route = NULL THEN "skipOcr" ELSE "startOcr"]
  /\ UNCHANGED <<fixed, queue, textract, request>>

\* No page requires Textract.
SkipOcr(c) ==
  /\ At(c, "skipOcr")
  /\ SaveJob(c, "OCR", "SKIPPED", "delete")

\* start_job, then _routed_pages.
StartOcr(c) ==
  LET d == Doc(c) IN
  /\ At(c, "startOcr")
  /\ \/ /\ RowAlive(c)
        /\ db' = [db EXCEPT ![d].jobs["OCR"] = "STARTED"]
        /\ consumer' = [consumer EXCEPT
             ![c].pages = PagesRouted(db[d].manifest, TextractRoutes),
             ![c].pc = IF settings.fake_ocr THEN "fakeResult" ELSE "submit"]
     \/ /\ ~RowAlive(c)
        /\ Raise(c)
        /\ UNCHANGED db
  /\ UNCHANGED <<fixed, queue, textract, request>>

\* (Variant, to test the checks: a token per attempt.)
TokenPerAttempt(d, key) == [features |-> key, nonce |-> Len(textract[d])]

\* ClientRequestToken.  Textract answers a token it knows with the job that
\* token started.
Token(d, key) == [features |-> key, nonce |-> 0]

Started(d, token) == {n \in DOMAIN textract[d] : textract[d][n].token = token}

CanSubmit(c) ==
  /\ consumer[c].pages # {}
  /\ Cardinality(consumer[c].pages) <= MaxOcrPages

\* The subset is built, checked against the limits and put; ocr.submit resumes
\* when the row it was given names a job.
ResumeJob(c) ==
  /\ At(c, "submit") /\ CanSubmit(c)
  /\ consumer[c].ext # NoJob
  /\ Goto(c, "recordJob")
  /\ UNCHANGED <<fixed, db, queue, textract, request>>

\* ocr.submit with no job named: a new token starts a job, whose reply may be
\* lost; a known one returns its job, or with another API it is refused as an
\* IdempotentParameterMismatch.
SubmitJob(c) ==
  LET d == Doc(c)
      token == Token(d, consumer[c].key)
      known == Started(d, token)
      job == [token |-> token,
              api |-> consumer[c].route,
              pages |-> consumer[c].pages,
              epoch |-> consumer[c].row,
              state |-> "IN_PROGRESS"]
      next(n) == [consumer EXCEPT ![c].ext = n, ![c].pc = "recordJob"]
  IN
  /\ At(c, "submit") /\ CanSubmit(c)
  /\ consumer[c].ext = NoJob
  /\ \/ /\ known = {} /\ Len(textract[d]) < MaxTextract
        /\ textract' = [textract EXCEPT ![d] = Append(@, job)]
        /\ \/ consumer' = next(Len(textract[d]) + 1)
           \/ /\ "submit" \in Faults
              /\ Goto(c, "failOcr")
     \/ /\ \E n \in known :
             IF textract[d][n].api = job.api THEN consumer' = next(n)
                                             ELSE Goto(c, "failOcr")
        /\ UNCHANGED textract
  /\ UNCHANGED <<fixed, db, queue, request>>

\* No page to submit, or S3 or Textract refuses the call.
SubmitRaises(c) ==
  /\ At(c, "submit")
  /\ consumer[c].pages = {} \/ "submit" \in Faults
  /\ Goto(c, "failOcr")
  /\ UNCHANGED <<fixed, db, queue, textract, request>>

\* assert_within_limits.
SubmitTooLarge(c) ==
  /\ At(c, "submit")
  /\ Cardinality(consumer[c].pages) > MaxOcrPages
  /\ Goto(c, "refuseOcr")
  /\ UNCHANGED <<fixed, db, queue, textract, request>>

\* record_external_job_id.  On a deleted row the except branch raises as well.
RecordJob(c) ==
  LET d == Doc(c) IN
  /\ At(c, "recordJob")
  /\ \/ /\ RowAlive(c)
        /\ db' = [db EXCEPT ![d].ext = consumer[c].ext]
        /\ Goto(c, "delete")
     \/ /\ ~RowAlive(c)
        /\ Raise(c)
        /\ UNCHANGED db
  /\ UNCHANGED <<fixed, queue, textract, request>>

\* (Variant, to test the checks: the failure is recorded but not raised.)
FailOcrQuietly(c) ==
  /\ At(c, "failOcr")
  /\ SaveJob(c, "OCR", "FAILED", "delete")

FailOcr(c) ==
  /\ At(c, "failOcr")
  /\ SaveFailureAndRaise(c, "OCR")

RefuseOcr(c) ==
  /\ At(c, "refuseOcr")
  /\ SaveJob(c, "OCR", "QUARANTINED", "quarantineDocument")

(***************************************************************************)
(* The offline loop: synthesise the result and complete in one handler.    *)
(***************************************************************************)

FakeResult(c) ==
  /\ At(c, "fakeResult")
  /\ db' = [db EXCEPT ![Doc(c)].result = FakeJob]
  /\ Goto(c, "fakeRecord")
  /\ UNCHANGED <<fixed, queue, textract, request>>

FakeRecord(c) ==
  LET d == Doc(c) IN
  /\ At(c, "fakeRecord")
  /\ \/ /\ RowAlive(c)
        /\ db' = [db EXCEPT ![d].ext = FakeJob]
        /\ Goto(c, "completeOcr")
     \/ /\ ~RowAlive(c)
        /\ Raise(c)
        /\ UNCHANGED db
  /\ UNCHANGED <<fixed, queue, textract, request>>

ReadyStep(c) ==
  \/ LookupPreprocess(c) \/ StartPreprocess(c) \/ Preprocess(c)
  \/ ReplaceManifest(c) \/ CompletePreprocess(c) \/ MarkProcessing(c)
  \/ FailPreprocess(c) \/ RefusePreprocess(c) \/ QuarantineDocument(c)
  \/ LookupOcr(c) \/ SkipOcr(c) \/ StartOcr(c)
  \/ ResumeJob(c) \/ SubmitJob(c) \/ SubmitRaises(c) \/ SubmitTooLarge(c)
  \/ RecordJob(c) \/ FailOcr(c) \/ RefuseOcr(c)
  \/ FakeResult(c) \/ FakeRecord(c)
=============================================================================
