------------------------- MODULE CompletionHandler -------------------------
(***************************************************************************)
(* Textract, and handle_textract_completed, normalise_document and         *)
(* _extract_and_link (pipeline/coordinator.py) with the stages that        *)
(* run_extraction.run drives.  Extraction itself is abstracted to which    *)
(* job rows each stage writes, whether it leaves citations behind, and the *)
(* class of the exception it may end with.                                 *)
(***************************************************************************)
EXTENDS ReadyHandler

(***************************************************************************)
(* Textract ends a job and publishes once; SNS fans it into ocr-complete.  *)
(***************************************************************************)
FinishJob(d, n) ==
  /\ n \in DOMAIN textract[d] /\ textract[d][n].state = "IN_PROGRESS"
  /\ \E state \in {"SUCCEEDED"} \cup (IF "textract" \in Faults THEN {"FAILED"} ELSE {}) :
       textract' = [textract EXCEPT ![d][n].state = state]
  /\ queue' = [queue EXCEPT ![[kind |-> "completed", doc |-> d, n |-> n]] =
       [at |-> "visible", rc |-> 0, epoch |-> textract[d][n].epoch]]
  /\ UNCHANGED <<fixed, db, consumer, request>>

(***************************************************************************)
(* The completion: the document is found by its JobTag, the OCR row by the *)
(* document; the JobId of the message is not compared with the row's.      *)
(***************************************************************************)
Job(c) == textract[Doc(c)][consumer[c].cur.msg.n]

LookupCompleted(c) ==
  LET d == Doc(c) IN
  /\ At(c, "lookupCompleted")
  /\ db' = [db EXCEPT ![d].jobs["OCR"] = IF @ = NULL THEN "PENDING" ELSE @]
  /\ consumer' = [consumer EXCEPT
       ![c].row = db[d].epoch,
       ![c].pc = IF Job(c).state = "SUCCEEDED" THEN "fetch" ELSE "quarantineOcr"]
  /\ UNCHANGED <<fixed, queue, textract, request>>

QuarantineOcr(c) ==
  /\ At(c, "quarantineOcr")
  /\ SaveJob(c, "OCR", "QUARANTINED", "failDocument")

FailDocument(c) ==
  /\ At(c, "failDocument")
  /\ SaveStatus(c, "FAILED", "delete")

\* The result is always asked of the Analysis API (both branches of the route
\* say TABLES), which does not know a text-detection job.
Fetchable(job) == job.api = "TEXTRACT_TABLES"

\* fetch_results, put_derived, document.save(ocr_result_key).
Fetch(c) ==
  LET d == Doc(c) IN
  /\ At(c, "fetch")
  /\ \/ /\ Fetchable(Job(c))
        /\ db' = [db EXCEPT ![d].result = consumer[c].cur.msg.n]
        /\ consumer' = [consumer EXCEPT ![c].pages = Job(c).pages, ![c].pc = "completeOcr"]
     \/ /\ ~Fetchable(Job(c)) \/ "fetch" \in Faults
        /\ Raise(c)
        /\ UNCHANGED db
  /\ UNCHANGED <<fixed, queue, textract, request>>

CompleteOcr(c) ==
  /\ At(c, "completeOcr")
  /\ SaveJob(c, "OCR", "COMPLETED", "startNormalize")

(***************************************************************************)
(* NORMALIZE.                                                              *)
(***************************************************************************)

\* get_or_create_job, start_job: neither reads the status.
StartNormalize(c) ==
  LET d == Doc(c) IN
  /\ At(c, "startNormalize")
  /\ db' = [db EXCEPT ![d].jobs["NORMALIZE"] = "STARTED"]
  /\ consumer' = [consumer EXCEPT ![c].row = db[d].epoch, ![c].pc = "writeElements"]
  /\ UNCHANGED <<fixed, queue, textract, request>>

\* The place of page p among the pages of S in ascending order.
Rank(p, S) == Cardinality({q \in S : q <= p})

\* (Variant, to test the checks: the subset's page numbers are kept.)
PageMapOfSubset(submitted, routed) == {<<Rank(p, submitted), p>> : p \in submitted}

\* parse_blocks: page i of the result is the i-th page routed now, or page i
\* when nothing is routed now; <<cited page, page read>> for every page.
PageMap(submitted, routed) ==
  IF routed = {}
    THEN {<<Rank(p, submitted), p>> : p \in submitted}
    ELSE {pair \in routed \X submitted : Rank(pair[1], routed) = Rank(pair[2], submitted)}

\* Textract returned a page past the end of the map.
OutOfRange(submitted, routed) ==
  routed # {} /\ Cardinality(submitted) > Cardinality(routed)

\* parse_blocks, then DELETE and COPY in one transaction, which RESTRICT fails
\* while a citation points at an element.  A page has at least one element.
WriteElements(c) ==
  LET d == Doc(c)
      routed == PagesRouted(db[d].manifest, TextractRoutes)
      raises == OutOfRange(consumer[c].pages, routed) \/ db[d].cited
  IN
  /\ At(c, "writeElements")
  /\ \/ /\ ~raises
        /\ db' = [db EXCEPT ![d].elements = PageMap(consumer[c].pages, routed)]
        /\ Goto(c, "completeNormalize")
     \/ /\ raises \/ "stage" \in Faults
        /\ Goto(c, "failNormalize")
        /\ UNCHANGED db
  /\ UNCHANGED <<fixed, queue, textract, request>>

\* (Variant, to test the checks: extraction goes on after the failure.)
FailNormalizeQuietly(c) ==
  /\ At(c, "failNormalize")
  /\ SaveJob(c, "NORMALIZE", "FAILED", "extract")

FailNormalize(c) ==
  /\ At(c, "failNormalize")
  /\ SaveFailureAndRaise(c, "NORMALIZE")

CompleteNormalize(c) ==
  /\ At(c, "completeNormalize")
  /\ SaveJob(c, "NORMALIZE", "COMPLETED", "extract")

(***************************************************************************)
(* run_extraction.run inside _extract_and_link.                            *)
(***************************************************************************)

\* mark: EXTRACT and LINK, each unless COMPLETED.
Marked(jobs, status) ==
  [s \in PipelineStage |->
    IF s \in {"EXTRACT", "LINK"} /\ jobs[s] # "COMPLETED" THEN status ELSE jobs[s]]

\* require_bedrock raises ConfigError before anything is written: the stages are
\* marked SKIPPED and the document will be PROCESSED.  Otherwise EXTRACT starts.
Extract(c) ==
  LET d == Doc(c) IN
  /\ At(c, "extract")
  /\ \/ /\ ~settings.model_pinned
        /\ db' = [db EXCEPT ![d].jobs = Marked(@, "SKIPPED")]
        /\ consumer' = [consumer EXCEPT ![c].verdict = "PROCESSED", ![c].pc = "settle"]
     \/ /\ settings.model_pinned
        /\ db' = [db EXCEPT ![d].jobs["EXTRACT"] = "STARTED"]
        /\ consumer' = [consumer EXCEPT ![c].row = db[d].epoch, ![c].pc = "tables"]
  /\ UNCHANGED <<fixed, queue, textract, request>>

\* The exception a stage ends with decides what _extract_and_link does after
\* run's own except branch: settle the document, or raise (NULL).
Verdicts(stage) ==
  (IF "tableBudget" \in Faults /\ stage = "EXTRACT" THEN {"QUARANTINED"} ELSE {})
    \cup (IF "permanent" \in Faults /\ stage \in {"EXTRACT", "LINK"} THEN {"FAILED"} ELSE {})
    \cup (IF "transient" \in Faults /\ stage \in {"EXTRACT", "LINK"} THEN {NULL} ELSE {})
    \cup (IF "stage" \in Faults THEN {NULL} ELSE {})

RunRaises(c, stage, pc) ==
  \E verdict \in Verdicts(stage) :
    consumer' = [consumer EXCEPT ![c].verdict = verdict, ![c].pc = pc]

\* Locate and read the tables.  No table at all completes EXTRACT and the run.
Tables(c) ==
  /\ At(c, "tables")
  /\ \/ Goto(c, "startLink")
     \/ consumer' = [consumer EXCEPT ![c].verdict = "PROCESSED", ![c].pc = "completeExtract"]
     \/ RunRaises(c, "EXTRACT", "failRun")
  /\ UNCHANGED <<fixed, db, queue, textract, request>>

\* get_or_create_job, start_job of LINK, MATCH or PRICE.
StartStage(c, stage, next) ==
  LET d == Doc(c) IN
  /\ db' = [db EXCEPT ![d].jobs[stage] = "STARTED"]
  /\ consumer' = [consumer EXCEPT ![c].sub = db[d].epoch, ![c].pc = next]
  /\ UNCHANGED <<fixed, queue, textract, request>>

\* complete_job or fail_job of that row; run's except branch follows a failure.
SaveStage(c, stage, status, next) ==
  LET alive == consumer[c].sub = db[Doc(c)].epoch IN
  /\ db' = IF alive THEN [db EXCEPT ![Doc(c)].jobs[stage] = status] ELSE db
  /\ consumer' = [consumer EXCEPT ![c].pc = IF alive THEN next ELSE "failRun"]
  /\ UNCHANGED <<fixed, queue, textract, request>>

StartLink(c) == At(c, "startLink") /\ StartStage(c, "LINK", "link")

\* Openings are committed one by one with the citations the gate accepted, so
\* a failure in the middle leaves those before it.
Link(c) ==
  /\ At(c, "link")
  /\ \E cites \in BOOLEAN : db' = [db EXCEPT ![Doc(c)].cited = @ \/ cites]
  /\ \/ Goto(c, "completeLink")
     \/ RunRaises(c, "LINK", "failRun")
  /\ UNCHANGED <<fixed, queue, textract, request>>

CompleteLink(c) ==
  /\ At(c, "completeLink")
  /\ SaveStage(c, "LINK", "COMPLETED", "completeExtract")

CompleteExtract(c) ==
  LET next == IF consumer[c].verdict = NULL THEN "startMatch" ELSE "settle" IN
  /\ At(c, "completeExtract")
  /\ SaveJob(c, "EXTRACT", "COMPLETED", next)

StartMatch(c) == At(c, "startMatch") /\ StartStage(c, "MATCH", "match")

Match(c) ==
  /\ At(c, "match")
  /\ \/ SaveStage(c, "MATCH", "COMPLETED", "startPrice")
     \/ /\ "stage" \in Faults
        /\ SaveStage(c, "MATCH", "FAILED", "failRun")

StartPrice(c) == At(c, "startPrice") /\ StartStage(c, "PRICE", "price")

\* The last stage of run: the document is PROCESSED after it.
Price(c) ==
  /\ At(c, "price")
  /\ \/ /\ consumer[c].sub = db[Doc(c)].epoch
        /\ db' = [db EXCEPT ![Doc(c)].jobs["PRICE"] = "COMPLETED"]
        /\ consumer' = [consumer EXCEPT ![c].verdict = "PROCESSED", ![c].pc = "settle"]
        /\ UNCHANGED <<fixed, queue, textract, request>>
     \/ /\ "stage" \in Faults \/ consumer[c].sub # db[Doc(c)].epoch
        /\ SaveStage(c, "PRICE", "FAILED", "failRun")

\* run's except branch fails EXTRACT, whichever stage raised.
FailRun(c) ==
  /\ At(c, "failRun")
  /\ \/ /\ RowAlive(c) /\ consumer[c].verdict # NULL
        /\ SaveJob(c, "EXTRACT", "FAILED", "mark")
     \/ /\ ~RowAlive(c) \/ consumer[c].verdict = NULL
        /\ SaveFailureAndRaise(c, "EXTRACT")

\* _extract_and_link settles a failure that another delivery would repeat.
Mark(c) ==
  LET d == Doc(c) IN
  /\ At(c, "mark")
  /\ db' = [db EXCEPT ![d].jobs = Marked(@, consumer[c].verdict)]
  /\ Goto(c, "settle")
  /\ UNCHANGED <<fixed, queue, textract, request>>

Settle(c) ==
  /\ At(c, "settle")
  /\ SaveStatus(c, consumer[c].verdict, "delete")

CompletionStep(c) ==
  \/ LookupCompleted(c) \/ QuarantineOcr(c) \/ FailDocument(c)
  \/ Fetch(c) \/ CompleteOcr(c)
  \/ StartNormalize(c) \/ WriteElements(c) \/ FailNormalize(c) \/ CompleteNormalize(c)
  \/ Extract(c) \/ Tables(c) \/ StartLink(c) \/ Link(c) \/ CompleteLink(c)
  \/ CompleteExtract(c) \/ StartMatch(c) \/ Match(c) \/ StartPrice(c) \/ Price(c)
  \/ FailRun(c) \/ Mark(c) \/ Settle(c)
=============================================================================
