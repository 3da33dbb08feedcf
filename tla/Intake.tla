------------------------------ MODULE Intake ------------------------------
(***************************************************************************)
(* The Django side: the upload, the re-read, the force-read override       *)
(* (api/projects/views.py), and the enqueue that follows a commit          *)
(* (signals.py, queue_ops.py).  A request thread commits its transaction   *)
(* first and publishes afterwards, so it may die in between.               *)
(***************************************************************************)
EXTENDS PipelineState

NewDocument == [status |-> NULL,
                manifest |-> NULL,
                manifestComplete |-> FALSE,
                forced |-> {},
                epoch |-> 0,
                jobs |-> [s \in PipelineStage |-> NULL],
                key |-> NULL,
                ext |-> NoJob,
                result |-> NoJob,
                elements |-> {},
                cited |-> FALSE]

IdleRequest == [pc |-> "idle", doc |-> NULL, loaded |-> NULL]

\* on_commit(_safe_enqueue): a transition INTO READY_FOR_PROCESSING publishes.
AfterCommit(r, d, previous) ==
  request' = [request EXCEPT ![r] =
    IF previous = "READY_FOR_PROCESSING"
      THEN IdleRequest
      ELSE [pc |-> "row", doc |-> d, loaded |-> previous]]

(***************************************************************************)
(* POST documents: one transaction creates the row, puts the source object *)
(* and, when asked, moves the row to READY.  A put that S3's checks refuse *)
(* returns from inside the atomic block, so the UPLOADED row still         *)
(* commits.                                                                *)
(***************************************************************************)
Upload(r, d) ==
  /\ request[r].pc = "idle"
  /\ db[d].status = NULL
  /\ \/ /\ content[d].kind # "rejected"
        /\ db' = [db EXCEPT ![d].status = "READY_FOR_PROCESSING"]
        /\ AfterCommit(r, d, "UPLOADED")
     \/ /\ db' = [db EXCEPT ![d].status = "UPLOADED"]
        /\ UNCHANGED request
  /\ UNCHANGED <<fixed, queue, textract, consumer>>

\* POST reprocess, the read: 409 while the document is PROCESSING.
ReprocessLoad(r, d) ==
  /\ request[r].pc = "idle"
  /\ db[d].status \notin {NULL, "PROCESSING"}
  /\ db[d].epoch < MaxReprocess
  /\ request' = [request EXCEPT ![r] =
       [pc |-> "reprocess", doc |-> d, loaded |-> db[d].status]]
  /\ UNCHANGED <<fixed, db, queue, textract, consumer>>

\* POST reprocess, the transaction: whatever the status has become since the
\* read, the job rows go and the document is READY again.
ReprocessCommit(r) ==
  LET d == request[r].doc IN
  /\ request[r].pc = "reprocess"
  /\ db[d].epoch < MaxReprocess
  /\ db' = [db EXCEPT ![d].jobs = [s \in PipelineStage |-> NULL],
                      ![d].key = NULL,
                      ![d].ext = NoJob,
                      ![d].epoch = @ + 1,
                      ![d].manifestComplete = FALSE,
                      ![d].status = "READY_FOR_PROCESSING"]
  /\ AfterCommit(r, d, request[r].loaded)
  /\ UNCHANGED <<fixed, queue, textract, consumer>>

\* enqueue_document_ready, the durable half: get_or_create the PREPROCESS row.
EnqueueRow(r) ==
  LET d == request[r].doc
      done == db[d].jobs["PREPROCESS"] \in Terminal
  IN
  /\ request[r].pc = "row"
  /\ db' = [db EXCEPT ![d].jobs["PREPROCESS"] = IF @ = NULL THEN "PENDING" ELSE @]
  /\ request' = [request EXCEPT ![r] =
       IF done THEN IdleRequest ELSE [@ EXCEPT !.pc = "send"]]
  /\ UNCHANGED <<fixed, queue, textract, consumer>>

Published(d) == {m \in Messages : m.kind = "ready" /\ m.doc = d /\ queue[m].at # "none"}

\* enqueue_document_ready, the hint: send_message.
EnqueueSend(r) ==
  LET d == request[r].doc IN
  /\ request[r].pc = "send"
  /\ \E m \in Messages :
       /\ m.kind = "ready" /\ m.doc = d /\ m.n = Cardinality(Published(d)) + 1
       /\ queue' = [queue EXCEPT ![m] =
            [at |-> "visible", rc |-> 0, epoch |-> db[d].epoch]]
  /\ request' = [request EXCEPT ![r] = IdleRequest]
  /\ UNCHANGED <<fixed, db, textract, consumer>>

\* _safe_enqueue logs and swallows whatever the enqueue raised.
EnqueueFail(r) ==
  /\ "publish" \in Faults
  /\ request[r].pc = "send"
  /\ request' = [request EXCEPT ![r] = IdleRequest]
  /\ UNCHANGED <<fixed, db, queue, textract, consumer>>

\* The API process dies between two of its steps.
ApiCrash(r) ==
  /\ "apiCrash" \in Faults
  /\ request[r].pc # "idle"
  /\ request' = [request EXCEPT ![r] = IdleRequest]
  /\ UNCHANGED <<fixed, db, queue, textract, consumer>>

\* POST force-read: overwrite one page's route.  Nothing is enqueued.
ForceRead(d, p, route) ==
  /\ db[d].manifest # NULL
  /\ db' = [db EXCEPT ![d].manifest[p] = route,
                      ![d].forced = @ \cup {p}]
  /\ UNCHANGED <<fixed, queue, textract, consumer, request>>
=============================================================================
