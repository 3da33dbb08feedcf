--------------------------- MODULE QuoteLifecycle ---------------------------
(***************************************************************************)
(* The quotes of one project: estimators edit, price and approve them      *)
(* through the API while the pipeline drafts (PRICE) and exports them.     *)
(* Every request first reads the rows it works on and writes later, with   *)
(* nothing locked in between; a Django save() without update_fields writes *)
(* every column as it was read, and inserts the row again when it is gone. *)
(***************************************************************************)
EXTENDS Integers, FiniteSets, Functions

CONSTANTS
  Quotes,       \* quote rows that may be created (a bound)
  Lines,        \* quote line rows that may be created (a bound)
  Items,        \* what generate_lines quotes: openings, resolved components
  Estimators,   \* API requests of estimators in progress at the same time
  Admins,       \* and of admins, who alone may delete a quote
  MaxCost,      \* prices are 0..MaxCost, 0 being "no price"
  MaxExports,   \* bound: export messages queued per quote
  MaxRfqs,      \* bound: lines a vendor is asked about
  Typed,        \* prices that estimators and vendors give
  Amounts,      \* freight that may be entered, 0 being "to be determined"
  Kinds,        \* what an estimator may make of a line: subset of LineKind
  Sources,      \* what the cost waterfall may find for an item
  MaxChanges,   \* bound: changes to the catalogue and the multiplier sheets
  Faults,       \* which processes may die: subset of {"api", "worker", "mail"}
  NULL

QuoteStatus == {"DRAFT", "APPROVED", "EXPORTED"}
Prices == 0..MaxCost

\* The links and the group of a line, as far as generation and pricing tell them
\* apart: whether it is tied to an opening (and so counts as generated), whether it
\* is the freight line, and its catalogue item.
LineKind == [opening : BOOLEAN, freight : BOOLEAN, item : Items \cup {NULL}]

Generated(i) == [opening |-> TRUE, freight |-> FALSE, item |-> i]
Freight == [opening |-> FALSE, freight |-> TRUE, item |-> NULL]

\* The other columns of a quote are only ever written along with these: who
\* approved it and where its proposal is with status, the totals with the lines.
QuoteRow == [status : QuoteStatus, freight : Amounts]

\* "nought" is a line without a price because a list price times its multiplier came
\* to 0: its cost_source says MFR_LIST, and names the sheet.
LineRow == [quote : Quotes, kind : LineKind, cost : Prices, needs_review : BOOLEAN,
            nought : BOOLEAN]

\* What the cost waterfall finds for an item: a list price times its multiplier
\* (firm, and nought when either is), a bare list price, or nothing (0, not firm).
Source == [cost : Prices, firm : BOOLEAN]
NothingFound == [cost |-> 0, firm |-> FALSE]

\* VendorRFQ rows, as lines a vendor was asked about: what an answer changes is
\* the same for each row of a line.
RfqRows == SUBSET Lines

ASSUME QuotesAssumption ==
  /\ MaxCost \in Nat /\ MaxExports \in Nat /\ MaxChanges \in Nat
  /\ MaxRfqs \in Nat /\ Typed \subseteq Prices /\ Sources \subseteq Source
  /\ Kinds \subseteq LineKind /\ 0 \in Amounts /\ Amounts \subseteq Prices
  /\ Faults \subseteq {"api", "worker", "mail"}
  /\ NULL \notin Items
  /\ {"pricer", "exporter"} \cap (Estimators \cup Admins) = {}
  /\ Estimators \cap Admins = {}
  /\ NULL \notin QuoteRow /\ NULL \notin LineRow

VARIABLES
  quote,     \* [Quotes -> QuoteRow], NULL before creation and after deletion
  line,      \* [Lines -> LineRow], NULL likewise
  used,      \* rows that were created once: keys are never used again
  rfq,       \* lines with a VendorRFQ row
  source,    \* [Items -> Source], the reference data in force
  changes,   \* how often it changed
  outbox,    \* [Quotes -> 0..MaxExports], export messages not acknowledged
  process,   \* [Processes -> Local]
  unfinished, \* history: lines inserted by a request that never priced them
  approved, stored, mailed \* history, for ApprovalGate

vars == <<quote, line, used, rfq, source, changes, outbox, process, unfinished,
          approved, stored, mailed>>
history == <<approved, stored, mailed>>

Processes == Estimators \cup Admins \cup {"pricer", "exporter"}

EstimatorPc == {"patch", "destroy", "recalculate", "approve", "delete", "select",
                "commit", "insert", "priceNew", "edit", "remove", "record", "assemble"}
Pc == {"idle", "createDraft", "render", "saveExport", "mail", "ack"} \cup EstimatorPc

\* What a request or a worker holds in memory: the rows it read.
Local == [pc : Pc,
          q : Quotes \cup {NULL},
          l : Lines \cup {NULL},
          row : QuoteRow \cup {NULL},
          lines : [Lines -> LineRow \cup {NULL}],
          doomed : SUBSET Lines]

NoLines == [l \in Lines |-> NULL]
Idle == [pc |-> "idle", q |-> NULL, l |-> NULL, row |-> NULL, lines |-> NoLines,
         doomed |-> {}]

QuotesTypeOK ==
  /\ quote \in [Quotes -> QuoteRow \cup {NULL}]
  /\ line \in [Lines -> LineRow \cup {NULL}]
  /\ used \subseteq (Quotes \cup Lines)
  /\ rfq \in RfqRows
  /\ source \in [Items -> Sources]
  /\ changes \in 0..MaxChanges
  /\ outbox \in [Quotes -> 0..MaxExports]
  /\ process \in [Processes -> Local]
  /\ unfinished \subseteq Lines
  /\ approved \subseteq Quotes /\ stored \subseteq Quotes /\ mailed \subseteq Quotes

(***************************************************************************)
(* Queries.                                                                *)
(***************************************************************************)
IsDraft(row) == row.status = "DRAFT"

\* (Variant, to test the checks: a draft may be exported too.)
AnyMayExport(row) == row.status \in {"DRAFT", "APPROVED", "EXPORTED"}

MayExport(row) == row.status \in {"APPROVED", "EXPORTED"}

LinesOf(q) == {l \in Lines : line[l] # NULL /\ line[l].quote = q}
RowsOf(q) == [l \in Lines |-> IF l \in LinesOf(q) THEN line[l] ELSE NULL]

\* (Variant, to test the checks: every line of the quote counts as generated.)
AllLinesGenerated(q) == LinesOf(q)

GeneratedLines(q) == {l \in LinesOf(q) : line[l].kind.opening}

Drafts == {q \in Quotes : quote[q] # NULL /\ IsDraft(quote[q])}

(***************************************************************************)
(* Pricing, as far as it changes a line: price_line sources a cost only    *)
(* for a line that has none, and flags what it could not source firmly.    *)
(***************************************************************************)
Nought(found) == found.cost = 0 /\ found.firm
Found(kind) == IF kind.item = NULL THEN NothingFound ELSE source[kind.item]

\* (Variant, to test the checks: every pricing sources the cost again.)
Resourced(row) ==
  IF row.kind.freight \/ (row.cost > 0 /\ Found(row.kind).cost = 0) THEN row
  ELSE [row EXCEPT !.cost = Found(row.kind).cost, !.nought = Nought(Found(row.kind)),
                   !.needs_review = @ \/ ~Found(row.kind).firm]

\* (Variant, to test the checks: a line without a source is not flagged.)
PricedUnflagged(row) ==
  IF row.kind.freight \/ row.cost > 0 THEN row
  ELSE [row EXCEPT !.cost = Found(row.kind).cost, !.nought = Nought(Found(row.kind))]

Priced(row) ==
  IF row.kind.freight \/ row.cost > 0 THEN row
  ELSE [row EXCEPT !.cost = Found(row.kind).cost, !.nought = Nought(Found(row.kind)),
                   !.needs_review = @ \/ ~Found(row.kind).firm]

\* assemble_quote, as far as it changes lines: every line read is priced.
PricedRows(rows) == [l \in Lines |-> IF rows[l] = NULL THEN NULL ELSE Priced(rows[l])]

NewQuote == [status |-> "DRAFT", freight |-> 0]

QuotesInit ==
  /\ quote = [q \in Quotes |-> NULL]
  /\ line = NoLines
  /\ used = {} /\ rfq = {}
  /\ source \in [Items -> Sources]
  /\ changes = 0
  /\ outbox = [q \in Quotes |-> 0]
  /\ process = [p \in Processes |-> Idle]
  /\ unfinished = {}
  /\ approved = {} /\ stored = {} /\ mailed = {}

(***************************************************************************)
(* Steps of a request or worker p.                                         *)
(***************************************************************************)
catalogue == <<source, changes>>

Free(p) == process[p].pc = "idle"
At(p, pc) == process[p].pc = pc
Hold(p, local) == process' = [process EXCEPT ![p] = local]
Done(p) == Hold(p, Idle)
Step(p, pc) == Hold(p, [process[p] EXCEPT !.pc = pc])

\* Rows that an open transaction has deleted, or written before it reads others:
\* whoever writes one of them waits for the commit.
Holds(p) == process[p].doomed \cup (IF At(p, "assemble") THEN {process[p].l} ELSE {})
Locked(p) == UNION {Holds(o) : o \in Processes \ {p}}
Save(p, l, row) == l \notin Locked(p) /\ line' = [line EXCEPT ![l] = row]
SaveAll(p, rows) ==
  /\ \A l \in Locked(p) : rows[l] = NULL
  /\ line' = [l \in Lines |-> IF rows[l] # NULL THEN rows[l]
                             ELSE IF l \in process[p].doomed THEN NULL ELSE line[l]]

\* Of the columns that were read only a header edit and a generation write any, and
\* a deletion has looked at the status.
Reading(q, pc) == [Idle EXCEPT !.pc = pc, !.q = q,
                               !.row = IF pc \in {"patch", "delete", "destroy"}
                                        THEN quote[q] ELSE NULL]
ReadingLine(l, pc) == [Idle EXCEPT !.pc = pc, !.q = line[l].quote, !.l = l,
                                   !.lines[l] = line[l]]

\* One read of a quote, or of a line with its quote, before a request writes.
ReadQuote(e, q, pc) ==
  /\ Free(e) /\ quote[q] # NULL
  /\ Hold(e, Reading(q, pc))
  /\ UNCHANGED <<quote, line, used, rfq, catalogue, outbox, unfinished, history>>

ReadLine(e, l, pc) ==
  /\ Free(e) /\ line[l] # NULL
  /\ Hold(e, ReadingLine(l, pc))
  /\ UNCHANGED <<quote, line, used, rfq, catalogue, outbox, unfinished, history>>

(***************************************************************************)
(* QuoteViewSet.                                                           *)
(***************************************************************************)
Create(p, q) ==
  /\ q \notin used
  /\ quote' = [quote EXCEPT ![q] = NewQuote]
  /\ used' = used \cup {q}
  /\ UNCHANGED <<line, rfq, catalogue, outbox, unfinished, history>>

CreateQuote(e) ==
  /\ Free(e)
  /\ \E q \in Quotes : Create(e, q)
  /\ UNCHANGED process

BeginPatch(e) == \E q \in Quotes : ReadQuote(e, q, "patch")

\* The serializer writes freight; instance.save() writes the whole row back.
FinishPatch(e) ==
  /\ At(e, "patch")
  /\ \E amount \in Amounts :
       quote' = [quote EXCEPT ![process[e].q] = [process[e].row EXCEPT !.freight = amount]]
  /\ Done(e)
  /\ UNCHANGED <<line, used, rfq, catalogue, outbox, unfinished, history>>

\* (Variant, to test the checks: any quote may be deleted.)
BeginDestroyAny(a) ==
  \E q \in Quotes : ReadQuote(a, q, "destroy")

BeginDestroy(a) ==
  \E q \in Drafts : ReadQuote(a, q, "destroy")

FinishDestroy(a) ==
  LET q == process[a].q
  IN /\ At(a, "destroy")
     /\ LinesOf(q) \cap Locked(a) = {}
     /\ quote' = [quote EXCEPT ![q] = NULL]
     /\ line' = [l \in Lines |-> IF l \in LinesOf(q) THEN NULL ELSE line[l]]
     /\ rfq' = rfq \ LinesOf(q)
     /\ Done(a)
     /\ UNCHANGED <<used, catalogue, outbox, unfinished, history>>

BeginRecalculate(e) ==
  /\ Free(e)
  /\ \E q \in Drafts : Hold(e, [Reading(q, "recalculate") EXCEPT !.lines = RowsOf(q)])
  /\ UNCHANGED <<quote, line, used, rfq, catalogue, outbox, unfinished, history>>

\* assemble_quote outside a transaction: every line read is saved whole.
FinishRecalculate(e) ==
  /\ At(e, "recalculate") /\ quote[process[e].q] # NULL
  /\ SaveAll(e, PricedRows(process[e].lines))
  /\ Done(e)
  /\ UNCHANGED <<quote, used, rfq, catalogue, outbox, unfinished, history>>

BeginApprove(e) ==
  \E q \in Drafts :
    /\ \A l \in LinesOf(q) : ~line[l].needs_review
    /\ ReadQuote(e, q, "approve")

FinishApprove(e) ==
  LET q == process[e].q
  IN /\ At(e, "approve") /\ quote[q] # NULL
     /\ quote' = [quote EXCEPT ![q].status = "APPROVED"]
     /\ approved' = approved \cup {q}
     /\ Done(e)
     /\ UNCHANGED <<line, used, rfq, catalogue, outbox, unfinished, stored, mailed>>

RequestExport(e) ==
  /\ Free(e)
  /\ \E q \in Quotes :
       /\ quote[q] # NULL /\ MayExport(quote[q])
       /\ outbox[q] < MaxExports
       /\ outbox' = [outbox EXCEPT ![q] = @ + 1]
  /\ UNCHANGED <<quote, line, used, rfq, catalogue, process, unfinished, history>>

(***************************************************************************)
(* generate_lines, called by the endpoint and by the PRICE stage.  Whether *)
(* generated lines exist is asked before the transaction.  In it come the  *)
(* DELETE, the inserts, assemble_quote's SELECT of the quote's lines, and  *)
(* the save of each as it was selected, which all appear with the commit.  *)
(***************************************************************************)
BeginGenerate(e) ==
  \E q \in Drafts, replace \in BOOLEAN :
    /\ replace \/ GeneratedLines(q) = {}
    /\ ReadQuote(e, q, "delete")

\* The DELETE waits for a row that a vendor's answer is being written to; for one
\* that another generation deletes it need not here, which only adds behaviours.
DeleteGenerated(p) ==
  LET generated == GeneratedLines(process[p].q)
  IN /\ At(p, "delete")
     /\ \A o \in Processes : At(o, "assemble") => process[o].l \notin generated
     /\ Hold(p, [process[p] EXCEPT !.pc = "select", !.doomed = generated])
     /\ UNCHANGED <<quote, line, used, rfq, catalogue, outbox, unfinished, history>>

\* What is inserted: a line for each item, and one for freight unless one was kept.
Inserted(kept) ==
  {Generated(i) : i \in Items} \cup
  (IF \E l \in Lines : kept[l] # NULL /\ kept[l].kind.freight THEN {} ELSE {Freight})

\* (Bound: only while there are keys for the lines to insert.)
SelectKept(p) ==
  LET rows == RowsOf(process[p].q)
      kept == [l \in Lines |-> IF l \in process[p].doomed THEN NULL ELSE rows[l]]
  IN /\ At(p, "select")
     /\ Injection(Inserted(kept), Lines \ used) # {}
     /\ Hold(p, [process[p] EXCEPT !.pc = "commit", !.lines = kept])
     /\ UNCHANGED <<quote, line, used, rfq, catalogue, outbox, unfinished, history>>

\* A line as generate_lines inserts it: an item's without a price, and freight's
\* with the amount of the header.
NewLine(p, kind) ==
  [quote |-> process[p].q, kind |-> kind, needs_review |-> FALSE, nought |-> FALSE,
   cost |-> IF kind.freight THEN process[p].row.freight ELSE 0]

CommitGenerated(p) ==
  LET kept == process[p].lines
  IN /\ At(p, "commit") /\ quote[process[p].q] # NULL
     /\ \E at \in Injection(Inserted(kept), Lines \ used) :
          /\ SaveAll(p, PricedRows([l \in Lines |->
               IF l \in Range(at) THEN NewLine(p, AntiFunction(at)[l]) ELSE kept[l]]))
          /\ used' = used \cup Range(at)
     /\ rfq' = rfq \ process[p].doomed
     /\ Done(p)
     /\ UNCHANGED <<quote, catalogue, outbox, unfinished, history>>

(***************************************************************************)
(* QuoteLineViewSet.                                                       *)
(***************************************************************************)
BeginAdd(e) == \E q \in Drafts : ReadQuote(e, q, "insert")

\* The row is inserted in one transaction and priced in the next.
InsertLine(e) ==
  /\ At(e, "insert") /\ quote[process[e].q] # NULL
  /\ \E l \in Lines \ used, cost \in Typed, kind \in Kinds :
       LET row == [quote |-> process[e].q, kind |-> kind, cost |-> cost,
                   needs_review |-> FALSE, nought |-> FALSE]
       IN /\ line' = [line EXCEPT ![l] = row]
          /\ used' = used \cup {l}
          /\ unfinished' = unfinished \cup {l}
          /\ Hold(e, [Idle EXCEPT !.pc = "priceNew", !.q = process[e].q, !.l = l,
                                  !.lines[l] = row])
  /\ UNCHANGED <<quote, rfq, catalogue, outbox, history>>

PriceNewLine(e) ==
  LET l == process[e].l
  IN /\ At(e, "priceNew") /\ quote[process[e].q] # NULL
     /\ Save(e, l, Priced(process[e].lines[l]))
     /\ unfinished' = unfinished \ {l}
     /\ Done(e)
     /\ UNCHANGED <<quote, used, rfq, catalogue, outbox, history>>

DraftLines == {l \in Lines : line[l] # NULL /\ line[l].quote \in Drafts}

BeginEdit(e) == \E l \in DraftLines : ReadLine(e, l, "edit")

\* The estimator sets cost, flag, kind and quote (only the old quote has to be a
\* draft); the row is priced and saved whole.
FinishEdit(e) ==
  LET l == process[e].l
  IN /\ At(e, "edit") /\ quote[process[e].q] # NULL
     /\ \E cost \in Typed, flag \in BOOLEAN, kind \in Kinds, to \in Quotes :
          /\ quote[to] # NULL
          /\ Save(e, l, Priced([process[e].lines[l] EXCEPT
                              !.cost = cost, !.needs_review = flag, !.nought = FALSE,
                              !.kind = kind, !.quote = to]))
     /\ Done(e)
     /\ UNCHANGED <<quote, used, rfq, catalogue, outbox, unfinished, history>>

BeginRemove(e) == \E l \in DraftLines : ReadLine(e, l, "remove")

FinishRemove(e) ==
  LET l == process[e].l
  IN /\ At(e, "remove")
     /\ Save(e, l, NULL)
     /\ rfq' = rfq \ {l}
     /\ Done(e)
     /\ UNCHANGED <<quote, used, catalogue, outbox, unfinished, history>>

(***************************************************************************)
(* VendorRFQViewSet.  Neither operation looks at the quote's status.       *)
(***************************************************************************)
RequestPrice(e) ==
  /\ Free(e)
  /\ \E l \in Lines :
       /\ line[l] # NULL /\ Cardinality(rfq) < MaxRfqs
       /\ rfq' = rfq \cup {l}
  /\ UNCHANGED <<quote, line, used, catalogue, outbox, process, unfinished, history>>

BeginRecord(e) == \E l \in rfq : ReadLine(e, l, "record")

\* The returned price goes into the line as it was read; then, in the same
\* transaction, assemble_quote selects the lines of the quote and saves each.
RecordPrice(e) ==
  LET l == process[e].l
      q == process[e].q
  IN /\ At(e, "record") /\ l \in rfq /\ quote[q] # NULL
     /\ l \notin Locked(e)
     /\ \E cost \in Typed :
          Hold(e, [process[e] EXCEPT !.pc = "assemble", !.lines =
            [RowsOf(q) EXCEPT ![l] =
               Priced([process[e].lines[l] EXCEPT !.cost = cost, !.needs_review = FALSE,
                                                  !.nought = FALSE])]])
     /\ UNCHANGED <<quote, line, used, rfq, catalogue, outbox, unfinished, history>>

FinishRecord(e) ==
  /\ At(e, "assemble") /\ quote[process[e].q] # NULL
  /\ SaveAll(e, PricedRows(process[e].lines))
  /\ Done(e)
  /\ UNCHANGED <<quote, used, rfq, catalogue, outbox, unfinished, history>>

\* A write to a quote or RFQ that is gone raises, and changes nothing.
RequestFails(e) ==
  /\ \/ /\ process[e].pc \in {"recalculate", "approve", "insert", "priceNew", "edit", "commit",
                               "record", "assemble"}
        /\ quote[process[e].q] = NULL
     \/ At(e, "record") /\ process[e].l \notin rfq
  /\ Done(e)
  /\ UNCHANGED <<quote, line, used, rfq, catalogue, outbox, unfinished, history>>

(***************************************************************************)
(* The PRICE stage of the worker: get or create the project's DRAFT quote  *)
(* and generate its lines, unless it has some.  With two drafts the lookup *)
(* raises and the stage fails.                                             *)
(***************************************************************************)
FindDraft ==
  /\ Free("pricer") /\ Cardinality(Drafts) <= 1
  /\ \/ /\ Drafts = {}
        /\ Step("pricer", "createDraft")
     \/ \E q \in Drafts :
          /\ GeneratedLines(q) = {}
          /\ Hold("pricer", Reading(q, "delete"))
  /\ UNCHANGED <<quote, line, used, rfq, catalogue, outbox, unfinished, history>>

CreateDraft ==
  /\ At("pricer", "createDraft")
  /\ \E q \in Quotes :
       /\ Create("pricer", q)
       /\ Hold("pricer", [Idle EXCEPT !.pc = "delete", !.q = q, !.row = NewQuote])

PriceFails ==
  /\ At("pricer", "commit") /\ quote[process["pricer"].q] = NULL
  /\ Done("pricer")
  /\ UNCHANGED <<quote, line, used, rfq, catalogue, outbox, unfinished, history>>

(***************************************************************************)
(* handle_quote_export.                                                    *)
(***************************************************************************)
TakeExport ==
  /\ Free("exporter")
  /\ \E q \in Quotes :
       /\ outbox[q] > 0 /\ quote[q] # NULL /\ MayExport(quote[q])
       /\ Hold("exporter", Reading(q, "render"))
  /\ UNCHANGED <<quote, line, used, rfq, catalogue, outbox, unfinished, history>>

\* Refused, or dead-lettered when the quote is gone.
DropExport ==
  /\ Free("exporter")
  /\ \E q \in Quotes :
       /\ outbox[q] > 0
       /\ ~(quote[q] # NULL /\ MayExport(quote[q]))
       /\ outbox' = [outbox EXCEPT ![q] = @ - 1]
  /\ UNCHANGED <<quote, line, used, rfq, catalogue, process, unfinished, history>>

Render ==
  /\ At("exporter", "render")
  /\ stored' = stored \cup {process["exporter"].q}
  /\ Step("exporter", "saveExport")
  /\ UNCHANGED <<quote, line, used, rfq, catalogue, outbox, unfinished, approved, mailed>>

\* (Variant, to test the checks: saving the export acknowledges it as well.)
SaveExportAcknowledges ==
  LET q == process["exporter"].q
  IN /\ At("exporter", "saveExport") /\ quote[q] # NULL
     /\ quote' = [quote EXCEPT ![q].status = "EXPORTED"]
     /\ outbox' = [outbox EXCEPT ![q] = @ - 1]
     /\ Step("exporter", "mail")
     /\ UNCHANGED <<line, used, rfq, catalogue, unfinished, history>>

SaveExport ==
  LET q == process["exporter"].q
  IN /\ At("exporter", "saveExport")
     /\ IF quote[q] # NULL
        THEN /\ quote' = [quote EXCEPT ![q].status = "EXPORTED"]
             /\ Step("exporter", "mail")
        ELSE UNCHANGED quote /\ Done("exporter")
     /\ UNCHANGED <<line, used, rfq, catalogue, outbox, unfinished, history>>

\* mail.send never raises.
SendMail ==
  /\ At("exporter", "mail")
  /\ \/ mailed' = mailed \cup {process["exporter"].q}
     \/ "mail" \in Faults /\ UNCHANGED mailed
  /\ Step("exporter", "ack")
  /\ UNCHANGED <<quote, line, used, rfq, catalogue, outbox, unfinished, approved, stored>>

AcknowledgeExport ==
  /\ At("exporter", "ack")
  /\ outbox' = [outbox EXCEPT ![process["exporter"].q] = @ - 1]
  /\ Done("exporter")
  /\ UNCHANGED <<quote, line, used, rfq, catalogue, unfinished, history>>

(***************************************************************************)
(* The environment: purchasing publishes a sheet, processes die.           *)
(***************************************************************************)
SheetChanges ==
  /\ changes < MaxChanges
  /\ changes' = changes + 1
  /\ \E i \in Items, s \in Sources : source' = [source EXCEPT ![i] = s]
  /\ UNCHANGED <<quote, line, used, rfq, outbox, process, unfinished, history>>

Dies(p) ==
  /\ ~Free(p)
  /\ IF p \in Estimators \cup Admins THEN "api" \in Faults ELSE "worker" \in Faults
  /\ Done(p)
  /\ UNCHANGED <<quote, line, used, rfq, catalogue, outbox, unfinished, history>>

Request(e) ==
  \/ CreateQuote(e) \/ BeginPatch(e) \/ FinishPatch(e)
  \/ BeginRecalculate(e) \/ FinishRecalculate(e)
  \/ BeginApprove(e) \/ FinishApprove(e) \/ RequestExport(e)
  \/ BeginGenerate(e) \/ DeleteGenerated(e) \/ SelectKept(e) \/ CommitGenerated(e)
  \/ BeginAdd(e) \/ InsertLine(e) \/ PriceNewLine(e)
  \/ BeginEdit(e) \/ FinishEdit(e) \/ BeginRemove(e) \/ FinishRemove(e)
  \/ RequestPrice(e) \/ BeginRecord(e) \/ RecordPrice(e) \/ FinishRecord(e)
  \/ RequestFails(e)

Worker ==
  \/ FindDraft \/ CreateDraft \/ DeleteGenerated("pricer") \/ SelectKept("pricer")
  \/ CommitGenerated("pricer") \/ PriceFails
  \/ TakeExport \/ DropExport \/ Render \/ SaveExport \/ SendMail \/ AcknowledgeExport

QuotesNext ==
  \/ \E e \in Estimators : Request(e)
  \/ \E a \in Admins : BeginDestroy(a) \/ FinishDestroy(a)
  \/ Worker
  \/ SheetChanges
  \/ \E p \in Processes : Dies(p)

QuotesSpec == QuotesInit /\ [][QuotesNext]_vars

(***************************************************************************)
(* Properties.                                                             *)
(***************************************************************************)
\* Nothing is stored or mailed for a customer unless an estimator approved that
\* quote first, whatever is redelivered and wherever the exporter dies (NFR-1).
Gate == INSTANCE ApprovalGate
NothingLeavesUnapproved == Gate!GateSpec

\* A line without a price is flagged for review, so that the approval refuses it,
\* unless the request that creates it has not come to price it yet (or died before)
\* or a list price times its multiplier came to nought: resolve_cost takes that
\* nought for a sourced cost and raises no flag.
UnpricedLinesAreFlagged ==
  \A l \in Lines :
    line[l] # NULL /\ ~line[l].kind.freight /\ line[l].cost = 0 /\ ~line[l].needs_review
      => l \in unfinished \/ line[l].nought

\* No pricing sources anew a price it has read (NFR-10), whatever sheets change in
\* between and whoever recalculates, generates or records.  The price of a line moves
\* when an estimator edits it or records a vendor's answer for it; otherwise only
\* because a pricing selected the line before it got this price, and then to the
\* price selected, or to a sheet's when there was none.
NoSilentRepricing ==
  [][\A l \in Lines :
       line[l] # NULL /\ line'[l] # NULL /\ line[l].cost > 0 /\ line'[l].cost # line[l].cost
         => \E p \in Processes :
              \/ process[p].l = l /\ (FinishEdit(p) \/ FinishRecord(p))
              \/ /\ process[p].lines[l] # NULL
                 /\ process[p].lines[l].cost \in {0, line'[l].cost}
                 /\ \/ FinishRecalculate(p) \/ CommitGenerated(p)
                    \/ FinishRecord(p) \/ PriceNewLine(p)]_vars

\* An approval stays: with one estimator at a time no header edit or export takes it
\* back, and a quote that was approved goes only by a deletion that began before.
ApprovalIsNeverWithdrawn ==
  [][\A q \in Quotes :
       quote[q] # NULL /\ MayExport(quote[q]) =>
         \/ quote'[q] # NULL /\ MayExport(quote'[q])
         \/ \E a \in Admins : FinishDestroy(a) /\ process[a].q = q /\ IsDraft(process[a].row)]_vars

\* A free-form line (tied to no opening) disappears only when an estimator removes
\* it or deletes its quote: no generation, by button or by pipeline, takes it.
HandAddedLinesAreKept ==
  [][\A l \in Lines :
       line[l] # NULL /\ ~line[l].kind.opening /\ line'[l] = NULL
         => \/ \E e \in Estimators : FinishRemove(e)
            \/ \E a \in Admins : FinishDestroy(a)]_vars
=============================================================================
