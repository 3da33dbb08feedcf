------------------------------ MODULE Queues ------------------------------
(***************************************************************************)
(* The document-ready and ocr-complete queues with their dead-letter       *)
(* queues, and the consume_forever loops that poll them                    *)
(* (pipeline/consumers/sqs_consumer.py).  Delivery is at least once: a     *)
(* message that was received is hidden until it is deleted or its          *)
(* visibility timeout runs out, and after MaxReceive receives it goes to   *)
(* the dead-letter queue.                                                  *)
(***************************************************************************)
EXTENDS PipelineState

Idle(batch) == [pc |-> "idle",
                batch |-> batch,
                cur |-> NULL,
                row |-> 0,
                sub |-> 0,
                route |-> NULL,
                key |-> NULL,
                ext |-> NoJob,
                pages |-> {},
                kept |-> [p \in Pages |-> NULL],
                verdict |-> NULL]

NoMessage == [at |-> "none", rc |-> 0, epoch |-> 0]

Doc(c) == consumer[c].cur.msg.doc

\* Which of the two queues a consumer polls.
ListensTo(c, m) == IF c \in ReadyConsumers THEN m.kind = "ready" ELSE m.kind = "completed"

Visible(c) == {m \in Messages : queue[m].at = "visible" /\ ListensTo(c, m)}

\* (Variant, to test the checks: deliveries are not counted.)
ReceiveUncounted(c) ==
  /\ consumer[c].pc = "idle" /\ consumer[c].batch = {}
  /\ \E m \in Visible(c) :
       /\ queue' = [queue EXCEPT ![m].at = "inflight"]
       /\ consumer' = [consumer EXCEPT ![c].batch = {[msg |-> m, receipt |-> 1]}]
  /\ UNCHANGED <<fixed, db, textract, request>>

\* receive_message: up to MaxBatch messages, each hidden and counted.
Receive(c) ==
  /\ consumer[c].pc = "idle" /\ consumer[c].batch = {}
  /\ \E batch \in SUBSET Visible(c) :
       /\ batch # {} /\ Cardinality(batch) <= MaxBatch
       /\ queue' = [m \in Messages |->
            IF m \in batch THEN [queue[m] EXCEPT !.at = "inflight", !.rc = @ + 1]
                           ELSE queue[m]]
       /\ consumer' = [consumer EXCEPT ![c].batch =
            {[msg |-> m, receipt |-> queue[m].rc + 1] : m \in batch}]
  /\ UNCHANGED <<fixed, db, textract, request>>

\* _process, handle_message: take the next message of the batch, even one whose
\* visibility timeout ran out while the messages before it were handled.
Begin(c) ==
  /\ consumer[c].pc = "idle"
  /\ \E delivery \in consumer[c].batch :
       consumer' = [consumer EXCEPT
         ![c].batch = @ \ {delivery},
         ![c].cur = delivery,
         ![c].pc = IF delivery.msg.kind = "ready" THEN "lookupPreprocess"
                                                  ELSE "lookupCompleted"]
  /\ UNCHANGED <<fixed, db, queue, textract, request>>

\* delete_message.  A stale receipt may or may not delete a message that was
\* received again since; it deletes nothing in the dead-letter queue.
DeleteMessage(c) ==
  LET m == consumer[c].cur.msg
      latest == queue[m].rc = consumer[c].cur.receipt
      deleted == [queue EXCEPT ![m].at = "deleted"]
  IN
  /\ consumer[c].pc = "delete"
  /\ \/ /\ queue[m].at \in {"inflight", "visible"}
        /\ queue' = deleted
     \/ /\ ~latest \/ queue[m].at \notin {"inflight", "visible"}
        /\ UNCHANGED queue
  /\ consumer' = [consumer EXCEPT ![c] = Idle(@.batch)]
  /\ UNCHANGED <<fixed, db, textract, request>>

\* (Variant, to test the checks: no redrive policy.)
ExpireWithoutRedrive(m) ==
  /\ queue[m].at = "inflight"
  /\ queue' = [queue EXCEPT ![m].at = "visible"]
  /\ UNCHANGED <<fixed, db, textract, consumer, request>>

\* The visibility timeout runs out: the message is delivered again, or moves
\* to the dead-letter queue when it has been received MaxReceive times.
Expire(m) ==
  /\ queue[m].at = "inflight"
  /\ queue' = [queue EXCEPT ![m].at = IF queue[m].rc >= MaxReceive THEN "dlq" ELSE "visible"]
  /\ UNCHANGED <<fixed, db, textract, consumer, request>>

\* The handler raises, or the process loses the database: the message is left
\* on the queue and the loop goes on with the rest of the batch.
Raise(c) == consumer' = [consumer EXCEPT ![c] = Idle(@.batch)]

\* The worker process dies between two steps, batch and all, or only the
\* handler is cut short.
Crash(c) ==
  /\ "crash" \in Faults
  /\ consumer[c].pc # "idle" \/ consumer[c].batch # {}
  /\ \/ consumer' = [consumer EXCEPT ![c] = Idle({})]
     \/ /\ consumer[c].pc # "idle"
        /\ Raise(c)
  /\ UNCHANGED <<fixed, db, queue, textract, request>>
=============================================================================
