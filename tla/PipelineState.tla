--------------------------- MODULE PipelineState ---------------------------
(***************************************************************************)
(* The state that the Django API and the pipeline worker share: document   *)
(* rows, their page manifests and pipeline_jobs rows (PostgreSQL), the two *)
(* SQS queues, the Textract jobs, and what each worker consumer and each   *)
(* API request holds in memory.  The actions are in Intake, Queues,        *)
(* ReadyHandler and CompletionHandler; DocumentPipeline composes them.     *)
(***************************************************************************)
EXTENDS Integers, Sequences, FiniteSets

CONSTANTS
  Docs,             \* documents that may be uploaded
  NumPages,         \* pages of every document
  Contents,         \* what an uploaded file may be: a set of FileContent
  ReadyConsumers,   \* consume_forever tasks on the document-ready queue
  OcrConsumers,     \* consume_forever tasks on the ocr-complete queue
  Requests,         \* API request threads
  MaxReceive,       \* SQS_MAX_RECEIVE_COUNT
  MaxBatch,         \* max_messages of one receive_message
  MaxOcrPages,      \* ocr.MAX_PAGES
  MaxOcrCost,       \* MAX_OCR_COST_PER_DOCUMENT_USD, in units of one TEXT page
  Settings,         \* how the system may be deployed: a set of DeploymentSettings
  Faults,           \* the failures that may happen: a subset of FaultKinds
  Overrides,        \* what an estimator may force: a set of <<page, route>>
  MaxReprocess,     \* bound: re-reads per document
  MaxTextract,      \* bound: Textract jobs per document
  NULL              \* a null column, an empty variable

Pages == 1..NumPages
Consumers == ReadyConsumers \cup OcrConsumers
MaxPublish == MaxReprocess + 1

Routes == {"TEXTRACT_TABLES", "TEXTRACT_TEXT", "NATIVE_TEXT", "SKIP"}
TextractRoutes == {"TEXTRACT_TABLES", "TEXTRACT_TEXT"}

DocumentStatus == {"UPLOADED", "READY_FOR_PROCESSING", "PROCESSING",
                   "PROCESSED", "FAILED", "QUARANTINED"}
PipelineStage == {"PREPROCESS", "OCR", "NORMALIZE", "EXTRACT", "LINK",
                  "MATCH", "PRICE"}
PipelineJobStatus == {"PENDING", "STARTED", "COMPLETED", "FAILED",
                      "QUARANTINED", "SKIPPED"}
Terminal == {"COMPLETED", "QUARANTINED", "SKIPPED"}

\* The feature set folded into the OCR idempotency key.
FeatureKeys == {"TABLES", "TEXT", "NONE"}

(***************************************************************************)
(* What the bytes of a file are, decided before the system sees them:      *)
(* whether S3 accepts the put, whether the PDF opens, and how triage       *)
(* (a function of the bytes and the routing table) routes each page.       *)
(***************************************************************************)
FileContent == [kind : {"pdf", "encrypted", "corrupt", "rejected"},
                triage : [Pages -> Routes]]

\* settings.fake_ocr, and whether a model ID is pinned (require_bedrock).
DeploymentSettings == [fake_ocr : BOOLEAN, model_pinned : BOOLEAN]

FaultKinds == {"crash",       \* a worker process dies, or loses the database
               "apiCrash",    \* an API process dies after its commit
               "publish",     \* SQS refuses send_message
               "storage",     \* S3 or a page render fails in preprocessing
               "submit",      \* S3 or Textract refuses the submission
               "textract",    \* a Textract job ends FAILED
               "fetch",       \* the result cannot be collected
               "transient",   \* Bedrock throttles or cannot be reached
               "permanent",   \* Bedrock refuses for good
               "tableBudget", \* more tables than the guard allows
               "stage"}       \* any other exception in NORMALIZE .. PRICE

ASSUME StateAssumption ==
  /\ NumPages \in Nat \ {0}
  /\ Contents \subseteq FileContent /\ Contents # {}
  /\ ReadyConsumers \cap OcrConsumers = {}
  /\ MaxReceive \in Nat \ {0}
  /\ MaxBatch \in Nat \ {0}
  /\ MaxOcrPages \in Nat
  /\ MaxOcrCost \in Nat
  /\ Settings \subseteq DeploymentSettings /\ Settings # {}
  /\ Faults \subseteq FaultKinds
  /\ Overrides \subseteq Pages \X Routes
  /\ MaxReprocess \in Nat
  /\ MaxTextract \in Nat
  /\ NULL \notin [Pages -> Routes]
  /\ NULL \notin FeatureKeys
  /\ NULL \notin DocumentStatus \cup PipelineJobStatus

(***************************************************************************)
(* Messages.  A DocumentReady message is the n-th published for its        *)
(* document; a TextractCompleted message is the one Textract publishes     *)
(* when the document's n-th job ends.                                      *)
(***************************************************************************)
Messages == [kind : {"ready"}, doc : Docs, n : 1..MaxPublish]
              \cup [kind : {"completed"}, doc : Docs, n : 1..MaxTextract]

QueueEntry == [at : {"none", "visible", "inflight", "deleted", "dlq"},
               rc : 0..MaxReceive,
               epoch : 0..MaxReprocess]

VARIABLES
  content,    \* [Docs -> Contents], fixed by the file
  settings,   \* the settings, read once by every process
  db,         \* [Docs -> DocumentRow], the document with the rows it owns
  queue,      \* [Messages -> QueueEntry], both queues and their DLQs
  textract,   \* [Docs -> Seq(TextractJob)], jobs bought, in order
  consumer,   \* [Consumers -> ConsumerState]
  request     \* [Requests -> RequestState]

\* What no step changes.
fixed == <<content, settings>>

vars == <<content, settings, db, queue, textract, consumer, request>>

ExternalJobId == 0..(MaxTextract + 1)
NoJob == 0
FakeJob == MaxTextract + 1

(***************************************************************************)
(* One document.  The epoch counts the times reprocess deleted its job     *)
(* rows, so a row is named by its stage and the epoch it was created in.   *)
(* elements maps every page an element cites to the page it was read from. *)
(***************************************************************************)
DocumentRow == [status : DocumentStatus \cup {NULL},
                manifest : [Pages -> Routes] \cup {NULL},
                manifestComplete : BOOLEAN,
                forced : SUBSET Pages,
                epoch : 0..MaxReprocess,
                jobs : [PipelineStage -> PipelineJobStatus \cup {NULL}],
                key : FeatureKeys \cup {NULL},
                ext : ExternalJobId,
                result : ExternalJobId,
                elements : SUBSET (Pages \X Pages),
                cited : BOOLEAN]

TextractToken == [features : FeatureKeys \cup {NULL}, nonce : 0..MaxTextract]

TextractJob == [token : TextractToken,
                api : TextractRoutes,
                pages : SUBSET Pages,
                epoch : 0..MaxReprocess,
                state : {"IN_PROGRESS", "SUCCEEDED", "FAILED"}]

ReadyPc == {"lookupPreprocess", "startPreprocess", "preprocess", "replaceManifest",
            "completePreprocess", "markProcessing", "failPreprocess",
            "refusePreprocess", "quarantineDocument", "lookupOcr", "skipOcr",
            "startOcr", "submit", "recordJob", "failOcr", "refuseOcr",
            "fakeResult", "fakeRecord"}
CompletionPc == {"lookupCompleted", "quarantineOcr", "failDocument", "fetch",
                 "completeOcr", "startNormalize", "writeElements",
                 "failNormalize", "completeNormalize", "extract", "tables",
                 "startLink", "link", "completeLink", "completeExtract",
                 "startMatch", "match", "startPrice", "price", "failMatch",
                 "failPrice", "failRun", "mark", "settle"}
Pc == {"idle", "delete"} \cup ReadyPc \cup CompletionPc

\* One received message and the receipt (receive count) it came with.
Delivery == [msg : Messages, receipt : 1..MaxReceive]

ConsumerState == [pc : Pc,
                  batch : SUBSET Delivery,
                  cur : Delivery \cup {NULL},
                  row : 0..MaxReprocess,       \* epoch of the job row held
                  sub : 0..MaxReprocess,       \* same, of LINK, MATCH or PRICE
                  route : TextractRoutes \cup {NULL},
                  key : FeatureKeys \cup {NULL},
                  ext : ExternalJobId,
                  pages : SUBSET Pages,
                  kept : [Pages -> Routes \cup {NULL}],
                  verdict : {"PROCESSED", "FAILED", "QUARANTINED"} \cup {NULL}]

RequestState == [pc : {"idle", "reprocess", "row", "send"},
                 doc : Docs \cup {NULL},
                 loaded : DocumentStatus \cup {NULL}]

TypeOK ==
  /\ content \in [Docs -> Contents]
  /\ settings \in Settings
  /\ db \in [Docs -> DocumentRow]
  /\ queue \in [Messages -> QueueEntry]
  /\ textract \in [Docs -> Seq(TextractJob)]
  /\ consumer \in [Consumers -> ConsumerState]
  /\ request \in [Requests -> RequestState]
=============================================================================
