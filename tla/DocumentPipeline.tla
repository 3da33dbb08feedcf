-------------------------- MODULE DocumentPipeline --------------------------
(***************************************************************************)
(* The document pipeline as a whole: API requests, the two queues, the     *)
(* worker consumers and Textract, interleaved one transaction or external  *)
(* call at a time.                                                         *)
(***************************************************************************)
EXTENDS Intake, CompletionHandler

Init ==
  /\ content \in [Docs -> Contents]
  /\ settings \in Settings
  /\ db = [d \in Docs |-> NewDocument]
  /\ queue = [m \in Messages |-> NoMessage]
  /\ textract = [d \in Docs |-> << >>]
  /\ consumer = [c \in Consumers |-> Idle({})]
  /\ request = [r \in Requests |-> IdleRequest]

RequestStep(r) == ReprocessCommit(r) \/ EnqueueRow(r) \/ EnqueueSend(r) \/ EnqueueFail(r)

ConsumerStep(c) ==
  Receive(c) \/ Begin(c) \/ DeleteMessage(c) \/ ReadyStep(c) \/ CompletionStep(c)

Next ==
  \/ \E r \in Requests, d \in Docs : Upload(r, d) \/ ReprocessLoad(r, d)
  \/ \E r \in Requests : RequestStep(r) \/ ApiCrash(r)
  \/ \E d \in Docs, override \in Overrides : ForceRead(d, override[1], override[2])
  \/ \E c \in Consumers : ConsumerStep(c) \/ Crash(c)
  \/ \E m \in Messages : Expire(m)
  \/ \E d \in Docs, n \in 1..MaxTextract : FinishJob(d, n)

Spec == Init /\ [][Next]_vars

(***************************************************************************)
(* Fairness: the two consume_forever loops run until they are cancelled    *)
(* and never stop on an exception, SQS times out what is not deleted,      *)
(* Textract ends every job, and a request thread runs to its end.  Nothing *)
(* obliges an estimator to do anything, or a process to die.               *)
(***************************************************************************)
Fairness ==
  /\ \A r \in Requests : WF_vars(RequestStep(r))
  /\ \A c \in Consumers : WF_vars(ConsumerStep(c))
  /\ \A m \in Messages : WF_vars(Expire(m))
  /\ \A d \in Docs, n \in 1..MaxTextract : WF_vars(FinishJob(d, n))

FairSpec == Spec /\ Fairness

(***************************************************************************)
(* Safety.                                                                 *)
(***************************************************************************)

Settled == {"PROCESSED", "FAILED", "QUARANTINED"}

\* The DocumentReady message is acknowledged (deleted) only when the rows say
\* what became of the document: preprocessing refused it for good, or OCR was
\* skipped, refused, answered, or has its Textract job on record.
ReadyIsRecorded(d) ==
  \/ db[d].jobs["PREPROCESS"] = "QUARANTINED"
  \/ /\ db[d].jobs["PREPROCESS"] = "COMPLETED"
     /\ db[d].jobs["OCR"] \in Terminal \/ db[d].ext # NoJob

\* The ordering of handle_document_ready, handle_textract_completed and
\* _process: a crash, an exception or a redelivery at any point leaves either
\* a message to deliver again or the outcome in the database.  (One consumer
\* per queue, and no re-read, which deletes the rows.)
AcknowledgedWorkIsRecorded ==
  \A m \in Messages :
    queue[m].at = "deleted" =>
      IF m.kind = "ready" THEN ReadyIsRecorded(m.doc) ELSE db[m.doc].status \in Settled

\* A document that validation or the budget guard refuses costs nothing, on
\* any delivery: BudgetExceeded says "Nothing has been spent".
NothingIsSpentOnRefused ==
  \A d \in Docs :
    \/ content[d].kind \in {"encrypted", "corrupt", "rejected"}
    \/ EstimatedCost(content[d].triage) > MaxOcrCost
    => textract[d] = << >>

\* A page number of the routed subset is translated back to the page of the
\* document it is (parse_blocks' page_map), so a citation opens the page the
\* text was read from, as long as no estimator changes a route meanwhile.
PagesCiteWhereTheyWereRead ==
  \A d \in Docs : db[d].forced = {} => \A pair \in db[d].elements : pair[1] = pair[2]

\* A PROCESSED document has the elements of every page that was bought for it:
\* normalisation cannot be lost between two deliveries of its completion.
ProcessedMeansRead ==
  \A d \in Docs :
    db[d].status = "PROCESSED" =>
      /\ db[d].elements # {}
      /\ db[d].result \in DOMAIN textract[d] =>
           {pair[2] : pair \in db[d].elements} = textract[d][db[d].result].pages

(***************************************************************************)
(* What a step may never do.                                               *)
(***************************************************************************)

\* Without a re-read a settled document is not reopened: a redelivered message
\* never moves it back to PROCESSING, which would lock the re-read out.
SettledStaysSettled ==
  [][\A d \in Docs :
       db[d].status \in Settled /\ db'[d].epoch = db[d].epoch
         => db'[d].status \in Settled]_vars

\* record_external_job_id is the redelivery guard: once an OCR row names its
\* Textract job, no delivery and no second worker makes it name another.
RecordedJobStays ==
  [][\A d \in Docs :
       db[d].ext # NoJob /\ db'[d].epoch = db[d].epoch
         => db'[d].ext = db[d].ext]_vars

(***************************************************************************)
(* The abstract specification: decide first, then buy the same work once.  *)
(***************************************************************************)

Purchase == INSTANCE OcrPurchase WITH
  FeatureSets <- FeatureKeys,
  decided <- [d \in Docs |-> db[d].manifest # NULL],
  bought <- [d \in Docs |-> [n \in DOMAIN textract[d] |-> textract[d][n].token.features]]

\* Every delivery, redelivery, re-read and second worker included, the pipeline
\* buys what OcrPurchase allows.
BuysOncePerFeatureSet == Purchase!PurchaseSpec

(***************************************************************************)
(* Liveness.                                                               *)
(***************************************************************************)

\* A message never circulates for ever: it is acknowledged or dead-lettered.
EveryMessageSettles ==
  \A m \in Messages :
    queue[m].at = "visible" ~> queue[m].at \in {"deleted", "dlq"}

\* A document that was queued is not stranded in silence: it settles, or it
\* needed no OCR, or a dead letter raises the alarm, whatever stage fails.
ReadingEnds ==
  \A d \in Docs :
    db[d].status = "READY_FOR_PROCESSING" ~>
      \/ db[d].status \in Settled
      \/ db[d].jobs["OCR"] = "SKIPPED"
      \/ \E m \in Messages : m.doc = d /\ queue[m].at = "dlq"

(***************************************************************************)
(* Claims of the repository that the code does not keep.                   *)
(***************************************************************************)

\* "None of them leaves a document stuck mid-sentence": a document that says it
\* is PROCESSING has a message, a handler or a Textract job that will move it.
ReadingMeansWork ==
  \A d \in Docs :
    db[d].status = "PROCESSING" =>
      \/ \E m \in Messages : m.doc = d /\ queue[m].at \in {"visible", "inflight", "dlq"}
      \/ \E c \in Consumers : consumer[c].cur # NULL /\ Doc(c) = d
      \/ \E n \in DOMAIN textract[d] : textract[d][n].state = "IN_PROGRESS"
      \/ \E r \in Requests : request[r].doc = d

\* "Existing pipeline jobs are cleared so the run starts fresh": the Textract
\* job that a re-read waits for was started for that re-read.
ReReadIsFresh ==
  \A d \in Docs :
    db[d].status = "PROCESSING" /\ db[d].ext \in DOMAIN textract[d]
      => textract[d][db[d].ext].epoch = db[d].epoch

\* "It is idempotent": normalising again a document that was normalised and
\* cited does not fail.
NormalisingAgainSucceeds ==
  \A d \in Docs : db[d].cited => db[d].jobs["NORMALIZE"] # "FAILED"
=============================================================================
