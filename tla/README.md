# CBC Copilot: formal models

CBC Copilot reads construction bid sets (PDF plan sets), finds the door and hardware
schedules in them, extracts openings with citations, matches them to a catalogue and
drafts a quote that an estimator approves. A Django API takes the uploads and serves the
reviewers; a FastAPI worker runs the pipeline. They share a PostgreSQL database and two
SQS queues and never call each other; AWS Textract does the OCR and answers through SNS.

This directory holds TLA+ models of the parts where that arrangement is hard to test,
the TLC instances that check them, and proofs that TLAPS checks.

    tlc -workers 2 -config first_reading.cfg MCDocumentPipeline
    tlc -workers 2 -config takeoff.cfg MCTakeoff
    tlc -workers 2 -config quotes.cfg MCQuotes
    tlc -workers 2 -config algorithms.cfg MCAlgorithms
    tlapm DocumentPipelineProofs.tla

and in the same way with the other runs of section 4 and the other `...Proofs` modules.

All source paths below are relative to `src/backend/` unless they start with `docs/` or
`ops/`.

## 1. Inventory

| Component | State it keeps | Operations | Interacts through | What makes it hard | What makes it correct |
|---|---|---|---|---|---|
| Intake (`api/projects/views.py`, `signals.py`, `queue_ops.py`) | document rows, job rows, manifest routes | upload, reprocess, force_read, enqueue after commit | database, SQS | an API process may die between commit and publish; a stale status decides | work that is accepted is on record or will be announced |
| Queues and consumers (`pipeline/consumers/sqs_consumer.py`, `bootstrap_local.py`) | messages, receive counts, receipts | receive a batch, handle it in order, delete or leave | SQS | at-least-once delivery, visibility timeouts shorter than a batch, crashes | every message is acknowledged or dead-lettered |
| Coordinator, document-ready (`pipeline/coordinator.py`, `db/repository.py`, `stages/ocr.py`) | PREPROCESS and OCR job rows, manifest, Textract job id | preprocess, write the manifest, submit to Textract | database, S3, Textract | redelivery at every point; money is spent in the middle | one purchase per piece of work, nothing before the manifest, nothing on refused files |
| Coordinator, textract-completed (`coordinator.py`, `stages/normalize.py`, `stages/run_extraction.py`) | NORMALIZE to PRICE rows, document status, elements, citations | fetch, normalise, extract, link, match, price, settle | database, Textract, Bedrock | seven job rows and five exception classes | PROCESSED means read; citations open the page they were read from |
| Page triage (`stages/preprocess.py`, `routing.py`) | none (a function of the bytes) | probe, classify, route, estimate | called by the coordinator | tiers, products of doubles against a floor, ties | text beats geometry; a contents page is not bought as schedules; outlined text is not read natively |
| Extraction (`run_extraction.py`, `extract.py`, `link.py`, `llm/`) | table cache, runs, openings, field provenance | locate, extract, gate, persist | Bedrock, database | retries after partial commits; cached answers that name old element ids | no value without a citation that supports it; an answer is paid once |
| Matching (`stages/match.py`) | match rows | score, eliminate, persist | database, estimator decisions | a second document re-matches the project | no item under the rating or against the hand is offered; the short list loses nothing |
| Quotes (`api/quotes/`) | quote, lines, RFQs | generate, edit, price, approve, export | database, SQS, mail | edits racing approval; export delivered twice | nothing leaves without an approval of what leaves (NFR-1) |
| Pricing (`quotes/pricing_ops.py`, `api/pricing/`) | price books, rules | resolve cost, margin, floor, assemble | called by quotes | order of a waterfall, rounding | totals are the sums of their lines; floors hold |
| Openings review (`api/openings/`) | openings, field provenance, match verdicts, feedback | add, edit, remove, confirm, override, keep one or both, accept, reject | database | whole rows saved as they were read, beside a worker that matches them | every edit is on record; citations survive |
| Calibration (`ops/scripts/calibrate_threshold.py`, `llm/validators/`) | none | gather samples, sweep floors, recommend | reads provenance and feedback | two comparisons that must agree | the recommended floor misses no more than its target |
| Authentication, notes, board, feedback, observability, frontend, infrastructure | accounts and roles; text; derived columns; logs | | | little concurrency of their own | |

The full list with the source files is in `PROJECT.json`, with what is modelled of each,
and so is the list of hazards, each at its line.

## 2. Modules

The models come in four groups. A completion that `DocumentPipeline` follows to its job
rows and status is what `Takeoff` follows to the rows it writes; the PRICE stage, which
ends a run in `Takeoff`, is where the worker enters `QuoteLifecycle`; and the operators of
`Algorithms` have the arithmetic that the other groups abstract.

| Group | Modules | What it is |
|---|---|---|
| Document pipeline | `PipelineState`; `Intake`, `Queues`, `ReadyHandler`, `CompletionHandler`; `DocumentPipeline`; `OcrPurchase`; `DocumentPipelineProofs`, `RedeliveryProofs`, `ReadingProofs` | from the upload to the settled document. The four middle modules define the actions of one part each, `DocumentPipeline` composes them, `OcrPurchase` is the abstract specification |
| Takeoff | `ValidationGate`; `TakeoffState`; `Extraction`, `Review`; `Takeoff`; `TakeoffProofs` | what the worker writes about openings, and what estimators do with it. `ValidationGate` turns one answer of the model into rows, `Extraction` is the worker, `Review` the API |
| Quotes | `QuoteLifecycle`; `ApprovalGate`; `QuoteLifecycleProofs` | drafting, editing, pricing, approving and exporting a quote. `ApprovalGate` is the abstract specification |
| Algorithms | `Pricing`, `Matching`, `Parsing`, `Triage`, `Calibration`; `Algorithms`; `AlgorithmsProofs`, `PricingProofs`, `SumProofs` | pure operators, and a specification that asks each of them about every input of an instance |

`MCDocumentPipeline`, `MCTakeoff`, `MCQuotes` and `MCAlgorithms` give TLC its instances.

### 2.1 Document pipeline

State and code:

| Variable | In the code |
|---|---|
| `content[d]` | the uploaded bytes, as far as the pipeline distinguishes them: does S3 accept them, does the PDF open, and how does triage route each page |
| `settings` | `fake_ocr`, and whether model ids are pinned (`Settings.require_bedrock`) |
| `db[d].status`, `.manifestComplete`, `.result` | `Document.status`, `.manifest_complete`, `.ocr_result_key` |
| `db[d].manifest`, `.forced` | the `DocumentManifest` rows: `ocr_route` and whether `forced_by_user` is set |
| `db[d].jobs`, `.key`, `.ext` | the `PipelineJob` rows by stage; the OCR row's `idempotency_key` and `external_job_id` |
| `db[d].epoch` | how often `reprocess` deleted the job rows; a handler that holds a row of an older epoch holds a deleted row |
| `db[d].elements`, `.cited` | `doc_elements`, as pairs of the page they cite and the page they were read from; whether a citation points at one |
| `queue[m]` | an SQS message: where it is, how often it was received |
| `textract[d]` | the jobs that were bought for the document, in order, with token, API, pages and state |
| `consumer[c]` | one `consume_forever` task: the rest of its batch and the local variables of the handler it is in |
| `request[r]` | one API request between its commit and its publish |

Every action is one database transaction, one external call, or the steps between two of
them that nothing else can observe. `pc` names the next one. The source lines of every
definition are in the `map` of `PROJECT.json`. Points worth knowing when reading:

* **Deleted rows.** `start_job`, `complete_job` and `fail_job` save with `update_fields`,
  and Django raises when that UPDATE finds no row. A handler whose rows `reprocess`
  deleted fails there, and its `except` branch fails there again: the message stays.
* **Receipts.** `DeleteMessage` with the latest receipt always deletes a message that is
  still in the queue; with an older one SQS may or may not.
* **Batches.** A consumer takes up to `MaxBatch` messages and handles them one after the
  other; a message may time out and be received elsewhere before its turn, and is handled
  all the same.
* **Textract** (external) answers a `ClientRequestToken` it has seen with the job that
  token started, refuses it for the other API, and publishes once per job. The token
  memory does not expire in the model.
* **The guard** adds up each page at the rate of its own route; the purchase is one job,
  at the rate of tables when one page needs them (`coordinator.py:261-270`). A document
  the guard admits may cost up to ten times its estimate; no property speaks of it.
* **Triage** is an input: `content[d].triage` is any routing the instance lists.
* **Extraction** is reduced to its job rows, to whether it leaves citations, and to the
  class of exception it ends with (`Verdicts`).

### 2.2 Takeoff

| Variable | In the code |
|---|---|
| `generation[d]` | how often normalisation wrote the document's `doc_elements`; an element id is abstracted to the normalisation that minted it, and 0 is an id that never existed |
| `cache[t]`, `asked[t]` | the `TableExtraction` row of a table with the answer and the generation it cites; how many answers were paid for |
| `run[r]`, `documentOf[r]` | the `ExtractionRun` rows |
| `opening[o]`, `prov[o]` | an `Opening` row; its `FieldProvenance` rows with their citations. Three fields stand for all: the rating and the hand, which tolerate no error, and the hardware callout, which is passed on as written |
| `component`, `match` | `HardwareSetComponent` and `Match` rows |
| `worker` | the locals of `run()`: what is still to extract, to link, to persist, to match |
| `request[e]` | an API request between reading a row and saving it |
| `edited`, `touched`, `doors` | history, for the properties only |

Every action of `Extraction` is one transaction of the worker or one call of the model.
The model answers with any set of records of the instance: values that are clean,
uncertain, garbled, not grounded, cited to elements that were never shown, left out
altogether, and records without a mark. Matching reads all openings at once and writes
one by one, for the door and then for each component its opening calls for, and what it
writes includes a note on an opening that is left to be matched by hand. Notes are kept as
far as whose they are: a reason of the worker's, or an estimator's note. The notes of
components, which the review API does not write, are left out. The worker may die between any two steps and the
completion is delivered again, which begins with normalisation. `Review` has the endpoints
of `openings/views.py`; those that save a whole row have a step between reading and saving,
in which the worker and others go on. Nothing in the repository writes `duplicate_of`, so
keep-one and keep-both find no twin.

### 2.3 Quotes

| Variable | In the code |
|---|---|
| `quote[q]`, `line[l]`, `rfq` | the `Quote`, `QuoteLine` and `VendorRFQ` rows |
| `used` | keys that were given out: none is given out twice |
| `source`, `changes` | what the cost waterfall finds for an item today |
| `outbox[q]` | export messages that were not acknowledged |
| `unfinished` | history: lines whose creating request has not come to price them |
| `process[p]` | an estimator's request, an admin's deletion, the pipeline's PRICE stage or the export handler, with the rows it has read |
| `approved`, `stored`, `mailed` | history, which `ApprovalGate` speaks of |

A `save()` without `update_fields` writes every column as it was read, and inserts a row
that is gone; nothing is locked between the read and the write. A generation has three
steps: its transaction deletes what it sees, `assemble_quote` selects what is left together
with what was inserted, and the commit shows the insertions and saves every selected line
as it was selected. Recording a vendor's price has three as well: the row is read, the
price is saved in a transaction which then selects the lines, and the commit saves them.
A row that an open transaction has deleted or saved cannot be written by anyone else until
the commit; one that it only selected can. Amounts are `0..MaxCost`; what matters here is
which of them moves, and `Pricing` has the arithmetic. A line without a price is `nought`
when a list price times its multiplier came to 0, which the code takes for a sourced cost.

### 2.4 Algorithms

`Pricing`, `Parsing`, `Triage`, `Matching` and `Calibration` translate the deterministic
functions, operator by function, with the code's units and roundings: money in hundredths of a
cent or cents, rates and scores in ten-thousandths, confidences in hundredths. An `Ask...`
action puts one question and records the answer; the invariants say of the answer what
the algorithm does not: that prices earn their margins, that a size prints as it was
read, that no string which states no rating yields one. Two facts about doubles are in the
operators because they decide: an anchor of eleven letters found once scores 0.5499...,
under the floor of 0.55 that it reaches on paper (`AnchorWeight`), and half-up rounding
is done on decimals, where it is exact.

Things the translation shows that nothing in the repository contradicts, and that a reader
may want to know: an outlined page without a bookmark is a drawing and is skipped; the
prefix of a sheet number decides a class outright, at 0.60; a wall type that holds only
punctuation resolves to the first row of the table; a vendor's multiplier may be nought
(`pricing/models.py:167`), which finds an item a cost of nought without flagging its line
(`quotes/pricing_ops.py:146-153`), so that an approval may pass it, and a line of cost nought
is sourced again at every recalculation, under an overridden margin too; a wall type that several rows contain
takes the first; an explicit size of zero feet is a size; fields the gate refused have no
confidence and are no samples of the calibration.

## 3. Properties

| Property | Kind | Run |
|---|---|---|
| `TypeOK` | invariant, proved | first_reading |
| `AcknowledgedWorkIsRecorded`: a deleted message has left its outcome in the database | invariant, proved for one reader | first_reading |
| `NothingIsSpentOnRefused`: a file validation or the guard refuses never costs anything | invariant, proved | first_reading |
| `PagesCiteWhereTheyWereRead`: the subset's page numbers are translated back correctly | invariant, proved for one reader | first_reading |
| `ProcessedMeansRead`: PROCESSED documents have the elements of every page bought | invariant, proved for one reader | first_reading |
| `SettledStaysSettled`: no redelivery reopens a settled document | action property, proved for one reader | first_reading |
| `RecordedJobStays`: an OCR row never changes the Textract job it names | action property, proved | two_workers |
| `BuysOncePerFeatureSet`: the pipeline implements `OcrPurchase` | refinement, proved | re_read, two_workers |
| `EveryMessageSettles`: no message circulates for ever | liveness | settling |
| `ReadingEnds`: a queued document settles, needs no OCR, or raises a dead letter | liveness | settling |
| `CitationsResolve`: a citation stands on an element that exists, whatever is normalised again | invariant, proved | takeoff |
| `OnlyAcceptedValuesAreUsed`: a zero-tolerance column holds only what the gate accepted | invariant, proved | takeoff |
| `DoubtIsShown`: a field that was refused, left out, uncertain or unreadable flags its opening | invariant, proved | takeoff |
| `NoUnderRatedMatch`: no item on offer falls short of the rating or meets an open one | invariant, proved | takeoff |
| `EditsAreOnRecord`: what an estimator changed or removed has its feedback row | invariant, proved | takeoff |
| `PaidAnswersAreReused`: an answer that was remembered is never bought again | action property, proved | takeoff |
| `CompletedRunsReadEverything`: COMPLETED is said only of a full reading | action property, proved | takeoff |
| `ReadingsAreKept`: the worker changes nothing of an opening that exists but its notes, to say why it is matched by hand | action property, proved | takeoff |
| `NothingLeavesUnapproved`: the quote side implements `ApprovalGate` | refinement, proved | quotes |
| `UnpricedLinesAreFlagged`: an unpriced line is flagged, so that approval refuses it, but for two cases below | invariant, proved | quotes |
| `NoSilentRepricing`: a price moves by an edit, a vendor's answer, or a pricing that selected the line before it got the price | action property, proved | prices |
| `ApprovalIsNeverWithdrawn`: an approved quote stays approved or exported, or goes by a deletion begun before | action property, proved for one estimator | quotes |
| `HandAddedLinesAreKept`: no generation takes a free-form line | action property, proved | quotes |
| `FloorFlagIsExact`: a margin below the floor that counts for the line is flagged, and no other | of `Pricing`, proved | algorithms |
| `MarginIsEarned`, `TotalsAddUp`, `TaxedOnlyWhereDue`, `RecalculationKeepsWhatWasEntered` | invariants on answers of `Pricing`, proved | algorithms |
| `NamedPartHeadsTheList`, `ShortListLosesNothing` | of `Matching`, proved | algorithms |
| `NothingIsInvented`, `SizesPrintAsRead`, `ListedNamesAreThemselves` | of `Parsing`, proved | algorithms |
| `RoutesFitTheText`, `TextBeatsGeometry`, `ContentsPagesAreNotSchedules` | of `Triage`, proved | algorithms |
| `RecommendedFloorHolds`: the floor calibration recommends does in the pipeline what its curve said | of `Calibration`, proved | algorithms |

`TakeoffTypeOK` and `QuotesTypeOK` are the type invariants of their groups, proved too.
"One reader" and "one estimator" are hypotheses of the theorems, see section 5.

Four more state what the repository says of itself and the code does not do. Each has a
run that TLC must refute, and a finding in `PROJECT.json` with the quotation:
`ReadingMeansWork` (native_document), `ReReadIsFresh` (fresh_re_read),
`NormalisingAgainSucceeds` (redelivered_completion) and `CitationsSurviveAReRun`
(cached_answer).

Each property of a passing run has a mutant: a variant of one action or helper, marked
"Variant, to test the checks" beside the original, that breaks it. The variants are used
nowhere else.

Where a property holds only so far:

* `SettledStaysSettled` is checked, and proved, for the deployment that `pipeline/main.py` starts, one
  consumer per queue. With a second document-ready worker it does not hold: a worker that
  preprocessed, lost its message to a timeout and is slower than the one that received it
  next, writes PROCESSING (`coordinator.py:172`) after the completion has settled the
  document. `consume_forever` calls itself "horizontally safe" (`sqs_consumer.py:59`) and
  means double submission by it, which two_workers confirms.
* `ProcessedMeansRead` is proved of a faked deployment (`fake_ocr`) only without overrides:
  there the worker reads the routes a second time, after it decided that there are pages to
  read, and an override that empties them in between leaves nothing to write.
* `ApprovalIsNeverWithdrawn` is checked, and proved, with one estimator's request at a time beside an
  admin's deletion and the workers. With two estimators it does not hold: an approval between the read and the save of a header PATCH is
  written back to DRAFT (`quotes/views.py:41`).
* `NoSilentRepricing` admits what the code does without a lock: a generation, a
  recalculation, a vendor's answer or the request that created a line may save a price it
  selected over one that was given since, or, where it selected none, what the sheets find
  by then. A generation by button, which "never touches hand-added ones"
  (`quotes/views.py:80`), can put an older price back on a hand-added line in this way:
  `assemble_quote` selects all lines (`pricing_ops.py:355`) and saves each whole (314).
* `UnpricedLinesAreFlagged` excepts the lines whose creating request has not come to
  price them yet, which `unfinished` remembers and an approval may let through unseen
  (`quotes/views.py:144`), and those that are `nought`, which it lets through as well.
* `RecalculationKeepsWhatWasEntered` keeps the price of a line whose margin is the
  estimator's only while it has a cost: see the multiplier of nought in 2.4.
* `FloorFlagIsExact`: which floor counts is what `check_floor` makes of it. A line keeps
  the band it was last priced from, so an overridden margin is held against the floor of
  an older sheet until the line is priced again under no override; a line that was never
  priced meets the row in force.
* `ReadingsAreKept` lets the notes change, as the code does: matching saves the notes it
  read with its reason (`match.py:680`), and one an estimator wrote in between is gone, on
  the openings of earlier runs too. In takeoff this happens.
* `OnlyAcceptedValuesAreUsed` and `DoubtIsShown` speak of openings no estimator has acted
  on; after that the row is the estimator's word.
* `NoUnderRatedMatch` holds although matching works on rows it read earlier, because no
  endpoint changes the rating an opening is matched by. With hands that do change, offers
  go stale until the next match.

## 4. Runs and bounds

The runs of the document pipeline have one document, three pages, one request thread and one consumer per queue
unless stated. One document is enough for the properties checked: no action of the
pipeline reads or writes two documents, and a queue holds every message independently.
(A batch of two needs two messages; the duplicates of one document's re-publish and
redelivery, and the two queues, provide them.) Three pages let a page be left out of the
routed subset, let two Textract routes meet, and make the page map different from the
identity. `MaxReceive` is 2 (3 in production): one redelivery before the dead letter.
`MaxOcrPages` 2 and `MaxOcrCost` 11 place both limits between the instance's files.
Costs are in units of one page at the TEXT rate, so a page of tables costs 10
(`config/ocr_routes.json`: $1.50 and $15 per thousand).

| Run | Instance | States | Shows |
|---|---|---|---|
| first_reading | nine files (tables, mixed, text, native, over the guard, over the page limit, encrypted, corrupt, rejected by S3), all four deployments, every fault, no re-read | 510,766 | what is acknowledged is recorded, under a crash or failure at every step |
| re_read | mixed file, one re-read, an override that drops the tables page, lost submission replies, unpinned model | 145,328 | the purchase promise across re-reads and a change of feature set |
| two_workers | two ready consumers, batches of two, override, lost replies | 335,966 | the purchase promise and the job on record with two workers and stale receipts |
| settling | mixed, text and native files, live deployment, crashes and failures of preprocessing, submission, Textract and Bedrock, under fairness | 147,168 | nothing circulates or strands |
| native_document, fresh_re_read, redelivered_completion | one file each, no or few faults | | three findings |
| takeoff | one document of two tables, delivered twice; three answers with every kind of field; one estimator with two writes, two items, two openings, notes; worker, API and model may fail | 1,748,969 | what is read, reviewed, cited, offered and corrected stays right through retries and overlapping reviews |
| cached_answer | one table, honest answers; a worker that dies | | a finding |
| quotes | one quote, three lines, one item, one estimator's request beside an admin's deletion and both workers; two prices, any reference data, which stays; the worker may die, mail may be refused | 1,282,047 | nothing leaves unapproved, no approval and no free-form line is lost |
| prices | the same quote, one estimator who gives free-form lines of the catalogue prices, beside the PRICE stage; one change of the reference data, one RFQ | 2,448,770 | no price moves on its own |
| algorithms | some 21,700 questions: two price libraries, 156 lines (some priced before), 864 quotes of three lines, every sub-catalogue of five items, 72 criteria, some 270 strings, every order of the reference tables, 4 routing tables, pages with every set of five anchors, every subset of seven reviewed fields | 21,768 | the pure algorithms |

Deadlock checking is off (`CHECK_DEADLOCK FALSE`): when every document has settled and no
estimator acts, the system rests.

Bounds that are not in the code: `MaxReprocess` (re-reads per document) and `MaxTextract`
(jobs per document), both only in guards of the actions that would exceed them.
`MaxTextract` never prevents a purchase the code makes in these instances: a document has
at most one job per key. Without overrides a document has one key; with them it may meet
three (tables, text, and the key of a row that was created for "no OCR" and never
skipped), which re_read and two_workers allow.

Takeoff and quotes. One document and two deliveries give every retry there is: a second
delivery meets whatever the first left at any step. Two tables with `MaxTables` 1 give the
run that reads one, and the one that is refused for two. A project of two documents would
add only that matching writes rows of both, which one document with two runs shows too.
Two openings hold the records of one answer; a second run that writes needs the first to
have written nothing that cites. One quote with three lines lets a generation (item and
freight) meet a hand-added line; freight stays to be determined, as no property
distinguishes amounts of it. A second quote row multiplies the states past what a run may
take; a second estimator does too, and changes the answer as section 3 says. Vendors' answers and
changes of the reference data are in prices, deletions, deaths and exports in quotes, as no
property needs both. An estimator in takeoff enters a rating, clears or enters a hand, names the
one hardware set, and writes one note. `MaxRows`, `MaxReviews`, `MaxDeliveries`, `MaxExports`, `MaxRfqs`,
`MaxChanges` and the number of rows are bounds, in guards only; `MaxTables` is the code's.
Symmetry (tables; lines and quotes) is used in some of these runs, which check no liveness:
the rows differ in nothing but their names.

**Fairness** (`settling` only). Weak fairness of each consumer: `consume_forever` loops
until it is cancelled and catches every exception, and a crashed worker is restarted by
its supervisor. Weak fairness of each visibility timeout, which is SQS's. Weak fairness
of `FinishJob`: Textract ends its jobs. Weak fairness of each request thread's own steps.
None of the uploads, overrides, re-reads, faults or crashes is fair. Three kinds of fault
are left out for time only: with results that cannot be collected, the table guard and other
exceptions of the stages as well, both properties hold on 230,928 states. The run leaves out
re-reads, API deaths and refused publishes, after which a document may wait for ever (see
the hazard at `signals.py:40`), and the offline
`fake_ocr` loop (`coordinator.py:322`).

## 5. Proofs

Seven modules hold theorems about the components, `SumProofs` lemmas on sums. Every invariant
and action property of a passing run and both refinements are theorems, for every value of
the constants that meets the assumptions and, for some, the hypothesis their statement
names (5.3 and 5.5); the two liveness properties are not.

| Module | Theorems | From the invariant |
|---|---|---|
| `DocumentPipelineProofs` | `TypeCorrect`, `NothingSpentOnRefused`, `PurchaseImplemented` | `Inv` (`Invariance`) |
| `RedeliveryProofs` | `RecordedStays` | `Inv` and `Recording` (`RecordingInvariance`) |
| `ReadingProofs` | `AcknowledgedIsRecorded`, `SettledStays`, `PagesCiteRight`, `ProcessedIsRead` | these and `ReadingInv` (`ReadingInvariance`) |
| `TakeoffProofs` | `TakeoffTypeCorrect`, `CitationsAlwaysResolve`, `InventionsAreKeptOut`, `DoubtStaysShown`, `MatchesMeetTheRating`, `EditsAreRecorded`, `ReadingsAreNeverClobbered`, `AnswersAreReused`, `CompletedMeansRead` | `TInv` (`TakeoffInvariance`), with `Untouched` and `ReadInv` |
| `QuoteLifecycleProofs` | `QuotesTypeCorrect`, `UnpricedAreFlagged`, `GateImplemented`, `HandAddedLinesStay`, `ApprovalStays`, `PricesAreKept` | `QInv` (`QuotesInvariance`), with `ApprovalOK` |
| `AlgorithmsProofs` | `NamedPartIsFirst`, `ShortListIsFair`, `ClaimsAreStated`, `SizesRoundTrip`, `ListedNamesStayApart`, `RoutesAreReadable`, `AnnouncedPagesAreRead`, `ListsAreNotSchedules`, `FloorsHoldInUse` | `Answered`: what is on record is what an algorithm makes of the question |
| `PricingProofs` | `MarginsAreEarned`, `FloorsAreChecked`, `QuotesAddUp`, `OnlyTheTwoAreTaxed`, `RecalculatingIsSafe` | `Answered` |

### 5.1 The pipeline and the purchase promise

`DocumentPipelineProofs` is about any documents, pages, files, consumers, requests, bounds,
faults and overrides. `TypeOK` is not inductive on its own: a handler assigns to typed
fields what it holds in memory, so what it may hold at each `pc` has to be known. `Inv`
adds, per part:

* per document (`RowOK`, `JobsOK`): a manifest exists only for a file that was not
  refused, and whenever a page is forced or the PREPROCESS row says COMPLETED; a Textract
  job exists only with a manifest, and its token is a function of its feature set;
* per consumer (`StateOK`): its handler and the rest of its batch are about messages that
  were published; before a submission it holds a route and a feature set; once
  preprocessing is behind it (`DecidedPc`) the document has its manifest; and what it
  holds about the outcome (`verdict`) fits the step it is at;
* per message (`EntryOK`): a visible message has deliveries left, and a completion that
  was published names a job that exists;
* per request: a request in progress names a document.

A refused document never gets a manifest, so no handler of it reaches the submission. A
submission appends a job only when Textract knows no job with its token, and since equal
feature sets have equal tokens it never repeats one: that is `Buy`. The proof has one lemma per
action, one step per conjunct the action can disturb, and general lemmas for the action
shapes that recur (saving a row, saving a status, moving a handler on). TLC checks `Inv`
on the first_reading instance as well.

### 5.2 Redelivery

`record_external_job_id` compares nothing, it overwrites. `Recording` says why that does
no harm, with any number of workers and re-reads: a handler that still holds a live OCR row
(`s.row = row.epoch`) holds that row's key, a row that names a job has the key of that job,
and Textract knows one job for a key. What is written is the name that is there already.

### 5.3 One reading, settled

The four properties of `ReadingProofs` have the hypothesis `OneReader`: at most one consumer
of document-ready, which is what `pipeline/main.py` starts, and no re-read
(`MaxReprocess = 0`, as in first_reading). Faults, crashes, overrides, batches, redeliveries,
the number of documents and the consumers of completions are arbitrary. `ReadingInv` says

* of a document, what follows from how far its rows are (`DocumentOK`): nothing is read
  before PREPROCESS is COMPLETED, there is at most one job and it has the row's key, and
  where nobody forced a page the routes in the rows and the pages in the job and in the
  citations are triage's;
* of a handler, how far the rows of its document are at each step (`ProgressOK`), and that
  the pages it has in memory are those of the job (`MemoryOK`);
* of a message, that it is in one place: a ready message that was deleted is with nobody,
  no batch holds one twice.

The last part is what carries the others over a redelivery. Without `OneReader` two handlers
of one message are at different steps and `ProgressOK` fails, as `SettledStaysSettled` itself
does (section 3). That the page map brings every page back, for any number of pages and any
subset, rests on lemmas about the place of an element in a set of numbers (`Rank`).

### 5.4 Takeoff

`TInv` has no hypotheses beyond `TakeoffAssumption`. `TakeoffTypeOK` is not inductive either:
the worker starts a run whose number must exist, so runs have to be numbered without a gap and
be no more than the deliveries (`RunsOK`); a whole row that is saved may be an old copy, so
what all copies of an opening, in its row, in the worker's memory and in the requests', have
in common has to be said: the run it came from and its fire rating (`CopiesOK`). From that:

* a citation resolves because normalisation raises while the document is cited, a run writes
  the ids of the normalisation it was started for, and no copy moves an opening to another run;
* what the worker saves of an opening that exists is a set of notes: a run's new rows are new,
  and matching writes the present row with the notes it read and its reason (`Annotated`);
* a match meets the rating although matching reads rows that change meanwhile, because the
  rating is in what all copies agree on;
* until an estimator acts on an opening, its row is what linking made of the answer
  (`Untouched`), which no answer of the model can make both accepted and unsupported;
* a run completes only through the steps that read every table it chose, and what it read
  is in the rows by then (`ReadInv`).

### 5.5 Quotes

`QInv` says what holds of everything a request or a worker has read, whatever has happened to
the rows since: a row that would be written back as approved is of a quote that was approved,
the exporter holds such a quote and a message about it, and the rows an open transaction deletes
were generated ones. A line without a price is flagged, priced at nought, or still to be priced
by the request that made it; that survives every stale save, because a line is never saved
but as `Priced` leaves it. `GateImplemented` is then one step per action: an approval is
`Approve`, what the exporter saves and mails is of a quote in `approved`, and all else leaves
the gate's variables alone. It holds for any number of estimators.

`PricesAreKept` needs no more of a memory than that what is saved over a price is the price
selected or what the sheets gave a line that was selected without one, action by action, and
holds for any number of estimators too.

`ApprovalStays` has the hypothesis `OneEstimator`, without which it fails (section 3).
`ApprovalOK` is that a header edit which read a draft is of a quote that still is one, and
that the exporter does not hold it.

### 5.6 Algorithms

These theorems are about every line, quote, catalogue, page, table and review of the types
that the modules declare for them, which are the columns' and the patterns' (`QuoteLine`,
`MarginBand`, `SizeReading`, ...). Three assumptions are about reference data: no US finish code
is another finish's BHMA number (the first begin with letters, the second are numbers; that
no US code is listed twice is a constraint of the table), a product has one margin row for a date
(`uniq_margin_band_effective`), and reviewed fields have unique ids.

* Pricing runs as steps, each of which settles one thing (`CostSettled`, `MarginSettled`,
  `SaleSettled`, `FloorSettled`) and leaves alone what the steps before it settled. A line for which all are
  settled is priced to itself, which is why recalculating changes nothing.
* A quote adds up because the blocks partition the lines: `SumProofs` shows of the community
  modules' `SumFunctionOnSet`, which adds in an order of its own choosing, that any element may
  be taken first, that what is added apart is added together, and that a sum taken block by
  block is the sum. Each is shown by the smallest set for which it would fail.
* Matching's short list: a largest score exists among finitely many (`HasLargest`), ties are
  decided by the catalogue's order, so the best few are what is left when every better one
  is taken first. 9800 for a named part is more than the soft constraints add up to.
* Triage: `Max` over the anchors found, for any weights; `AnchorOrder` decides ties.
* Calibration: the sample that the curve counts as an escaped error is the one the pipeline
  lets pass, since `IsFlagged` and `FlaggedBelow` compare the same composite.
* `FloorsAreChecked` compares the flag with the rows in force that no later row supersedes.
  By the one row per product and date these are the band that the engine looks up or none
  (`CurrentBand`), so the flag is right in both directions.

### 5.7 Assumptions, and what is only model-checked

Assumed are the ASSUMEs of `PipelineState`, `TakeoffState`, `QuoteLifecycle` and `Algorithms`,
which TLC evaluates for every instance, and the behaviour of Textract, SQS and the database
described in section 2. That `NULL` is none of the values it stands beside is assumed where a proof
needs it.

Only model-checked are `EveryMessageSettles` and `ReadingEnds`: liveness under fairness is
out of the prover's reach. The properties of the runs that TLC refutes are, of course, not
theorems. With two consumers of document-ready, or with re-reads, `AcknowledgedWorkIsRecorded`,
`PagesCiteWhereTheyWereRead` and `ProcessedMeansRead` are neither proved nor checked.

## 6. What is not modelled

* Bedrock's client: its retries and token counts; what the rest sees is an answer or an error.
* Rendering, the synthesis of blocks for `fake_ocr`, fuzzy grounding scores, text similarity: pixels
  and text. Their results are inputs.
* S3 keys and storage beyond their failures; logging, metrics and their read-only reports.
* `write_page_diffs` and `unchanged_pages`, which have no caller.
* Accounts, invitations and permissions: every request of the models is one that was allowed.
* Notes, and `board.py`, which only reads rows of the others; the frontend; deployment.
* Messages without a handler, which the consumer deletes; plain CRUD of projects, catalogue and
  price sheets beyond what the models read of them.
* `P21` lookups of a cost: the code has a stub that finds nothing.

`PROJECT.json` has the status and the reason of every component.

## 7. Plan

1. **Document pipeline**, **Takeoff**, **Quotes**, **Algorithms**: done, as above.
2. **Theorems on all four groups**: done, as in section 5.
3. **Without `OneReader`**: which of the four theorems of `ReadingProofs` survive a re-read or
   a second consumer. A re-read begins a new epoch, so `ReadingInv` would speak of the rows
   of the present epoch and of what handlers of older ones can no longer write.
