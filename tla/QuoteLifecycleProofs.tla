------------------------ MODULE QuoteLifecycleProofs ------------------------
(***************************************************************************)
(* Theorems about QuoteLifecycle, for any number of quotes, lines, items,  *)
(* estimators and admins, any prices and any set of faults.                *)
(*                                                                         *)
(* What a request or a worker does next depends on the rows it has read,   *)
(* and these may have changed since.  QInv therefore says what holds of    *)
(* everything that is held in memory, whatever happens to the rows: a row  *)
(* that would be written back as approved is of a quote that was approved, *)
(* the exporter holds such a quote and its message, and the rows an open   *)
(* transaction deletes stay generated ones until it commits.               *)
(***************************************************************************)
EXTENDS QuoteLifecycle, TLAPS

LinePc == {"priceNew", "edit", "remove", "record"}
ExportPc == {"render", "saveExport", "mail", "ack"}

\* A line without a price is flagged, or priced at nought by a sheet.
FlaggedWhenUnpriced(row) ==
  ~row.kind.freight /\ row.cost = 0 => row.needs_review \/ row.nought

QuoteOK(q, row, given, granted) ==
  row # NULL => q \in given /\ (MayExport(row) => q \in granted)

LineOK(l, row, given, late) ==
  row # NULL => l \in given /\ (FlaggedWhenUnpriced(row) \/ l \in late)

\* What holds of a memory s, given the lines, the keys given out and the approvals.
MemoryOK(s, rows, given, granted) ==
  /\ s.pc \notin {"idle", "createDraft"} => s.q \in Quotes
  /\ s.pc \in {"patch", "delete", "destroy", "select", "commit"} => s.row \in QuoteRow
  /\ s.pc \in LinePc => s.l \in Lines /\ s.lines[s.l] \in LineRow
  /\ s.pc = "destroy" => IsDraft(s.row)
  /\ s.pc = "patch" => s.q \in given /\ (MayExport(s.row) => s.q \in granted)
  /\ \A l \in Lines : s.lines[l] # NULL => l \in given
  /\ \A l \in s.doomed : l \in given /\ (rows[l] # NULL => rows[l].kind.opening)

\* And of the exporter's, given also the proposals stored and the messages.
ExporterOK(s, granted, written, messages) ==
  /\ s.pc \in ExportPc => s.q \in granted /\ messages[s.q] > 0
  /\ s.pc \in {"saveExport", "mail", "ack"} => s.q \in written

QInv ==
  /\ QuotesTypeOK
  /\ \A q \in Quotes : QuoteOK(q, quote[q], used, approved)
  /\ \A l \in Lines : LineOK(l, line[l], used, unfinished)
  /\ \A p \in Processes : MemoryOK(process[p], line, used, approved)
  /\ ExporterOK(process["exporter"], approved, stored, outbox)

\* The rows that open transactions other than p's have deleted.
Doomed(p) == UNION {process[o].doomed : o \in Processes \ {p}}

(***************************************************************************)
(* Memories and prices.                                                    *)
(***************************************************************************)
LEMMA IdleOK ==
  ASSUME NEW rows, NEW given, NEW granted
  PROVE  Idle \in Local /\ MemoryOK(Idle, rows, given, granted)
<1>1. NoLines \in [Lines -> LineRow \cup {NULL}]
  BY DEF NoLines
<1>2. Idle \in Local
  BY <1>1 DEF Idle, Local, Pc
<1>3. /\ Idle.pc = "idle" /\ Idle.doomed = {}
      /\ \A l \in Lines : Idle.lines[l] = NULL
  BY DEF Idle, NoLines
<1>. QED BY <1>2, <1>3 DEF MemoryOK, LinePc

LEMMA FoundOK ==
  ASSUME QuotesTypeOK, NEW kind \in LineKind
  PROVE  Found(kind) \in Source
<1>1. NothingFound \in Source
  BY QuotesAssumption DEF NothingFound, Source, Prices
<1>2. kind.item # NULL => kind.item \in Items
  BY DEF LineKind
<1>. QED BY <1>1, <1>2, QuotesAssumption DEF Found, QuotesTypeOK

LEMMA PricedOK ==
  ASSUME QuotesTypeOK, NEW row \in LineRow
  PROVE  /\ Priced(row) \in LineRow
         /\ Priced(row).kind = row.kind
         /\ row.cost > 0 => Priced(row).cost = row.cost
         /\ FlaggedWhenUnpriced(Priced(row))
<1> DEFINE found == Found(row.kind)
<1>1. /\ row.cost \in Prices /\ row.cost \in Int /\ row.kind \in LineKind
      /\ row.needs_review \in BOOLEAN /\ row.nought \in BOOLEAN /\ row.quote \in Quotes
      /\ row.cost >= 0
  BY QuotesAssumption DEF LineRow, Prices
<1>2. CASE row.kind.freight \/ row.cost > 0
  BY <1>1, <1>2 DEF Priced, FlaggedWhenUnpriced
<1>3. CASE ~(row.kind.freight \/ row.cost > 0)
  <2>1. found \in Source
    BY <1>1, FoundOK
  <2>2. found.cost \in Prices /\ found.firm \in BOOLEAN /\ found.cost \in Int
    BY <2>1, QuotesAssumption DEF Source, Prices
  <2>3. Priced(row) = [row EXCEPT !.cost = found.cost, !.nought = Nought(found),
                                  !.needs_review = @ \/ ~found.firm]
    BY <1>3 DEF Priced
  <2>4. Nought(found) \in BOOLEAN /\ (Nought(found) <=> found.cost = 0 /\ found.firm)
    BY DEF Nought
  <2> HIDE DEF found
  <2>5. /\ Priced(row) \in LineRow /\ Priced(row).kind = row.kind
        /\ Priced(row).cost = found.cost /\ Priced(row).nought = Nought(found)
        /\ Priced(row).needs_review = (row.needs_review \/ ~found.firm)
    BY <1>1, <2>2, <2>3, <2>4 DEF LineRow
  <2>. QED BY <1>3, <2>2, <2>4, <2>5 DEF FlaggedWhenUnpriced
<1>. QED BY <1>2, <1>3

LEMMA PricedRowsOK ==
  ASSUME QuotesTypeOK, NEW rows \in [Lines -> LineRow \cup {NULL}], NEW l \in Lines
  PROVE  /\ rows[l] = NULL => PricedRows(rows)[l] = NULL
         /\ rows[l] # NULL =>
              /\ PricedRows(rows)[l] = Priced(rows[l])
              /\ PricedRows(rows)[l] \in LineRow
              /\ PricedRows(rows)[l] # NULL
              /\ PricedRows(rows)[l].kind = rows[l].kind
              /\ rows[l].cost > 0 => PricedRows(rows)[l].cost = rows[l].cost
              /\ FlaggedWhenUnpriced(PricedRows(rows)[l])
<1>1. PricedRows(rows)[l] = IF rows[l] = NULL THEN NULL ELSE Priced(rows[l])
  BY DEF PricedRows
<1>2. ASSUME rows[l] # NULL
      PROVE  /\ PricedRows(rows)[l] = Priced(rows[l])
             /\ rows[l] \in LineRow
  BY <1>1, <1>2
<1>. QED BY <1>1, <1>2, PricedOK, QuotesAssumption

LEMMA RowsOfOK ==
  ASSUME QuotesTypeOK, NEW q
  PROVE  /\ RowsOf(q) \in [Lines -> LineRow \cup {NULL}]
         /\ \A l \in Lines : RowsOf(q)[l] # NULL => RowsOf(q)[l] = line[l] /\ l \in LinesOf(q)
BY DEF RowsOf, LinesOf, QuotesTypeOK

(***************************************************************************)
(* What a step must respect to keep QInv: p's new memory is s.             *)
(***************************************************************************)
RowsTypeOK ==
  /\ quote \in [Quotes -> QuoteRow \cup {NULL}]
  /\ line \in [Lines -> LineRow \cup {NULL}]
  /\ used \subseteq (Quotes \cup Lines)
  /\ rfq \in RfqRows
  /\ source \in [Items -> Sources]
  /\ changes \in 0..MaxChanges
  /\ outbox \in [Quotes -> 0..MaxExports]
  /\ unfinished \subseteq Lines
  /\ approved \subseteq Quotes /\ stored \subseteq Quotes /\ mailed \subseteq Quotes

LEMMA Frame ==
  ASSUME QInv, NEW p \in Processes, NEW s \in Local, Hold(p, s),
         RowsTypeOK',
         \A q \in Quotes : QuoteOK(q, quote[q], used, approved)',
         \A l \in Lines : LineOK(l, line[l], used, unfinished)',
         \A l \in Doomed(p) : line'[l] = line[l] \/ line'[l] = NULL \/ line'[l].kind.opening,
         used \subseteq used', approved \subseteq approved', stored \subseteq stored',
         MemoryOK(s, line', used', approved'),
         p = "exporter" => ExporterOK(s, approved', stored', outbox'),
         p # "exporter" => \A q \in Quotes : outbox'[q] >= outbox[q]
  PROVE  QInv'
<1>1. process \in [Processes -> Local] /\ process' = [process EXCEPT ![p] = s]
  BY DEF QInv, QuotesTypeOK, Hold
<1>2. QuotesTypeOK'
  BY <1>1 DEF RowsTypeOK, QuotesTypeOK
<1>3. ASSUME NEW o \in Processes PROVE MemoryOK(process[o], line, used, approved)'
  <2>1. CASE o = p
    BY <1>1, <2>1
  <2>2. CASE o # p
    <3>1. process'[o] = process[o] /\ MemoryOK(process[o], line, used, approved)
      BY <1>1, <2>2 DEF QInv
    <3>2. process[o].doomed \subseteq Doomed(p)
      BY <2>2 DEF Doomed
    <3>3. ASSUME NEW l \in process[o].doomed
          PROVE  l \in used' /\ (line'[l] # NULL => line'[l].kind.opening)
      BY <3>1, <3>2 DEF MemoryOK
    <3>. QED BY <3>1, <3>3 DEF MemoryOK
  <2>. QED BY <2>1, <2>2
<1>4. ExporterOK(process["exporter"], approved, stored, outbox)'
  <2>1. CASE p = "exporter"
    BY <1>1, <2>1
  <2>2. CASE p # "exporter"
    <3>1. "exporter" \in Processes
      BY DEF Processes
    <3>2. process'["exporter"] = process["exporter"]
      BY <1>1, <2>2, <3>1
    <3> DEFINE x == process["exporter"]
    <3>3. MemoryOK(x, line, used, approved) /\ ExporterOK(x, approved, stored, outbox)
      BY <3>1 DEF QInv
    <3>4. x.pc \in ExportPc => x.q \in Quotes
      BY <3>3 DEF MemoryOK, ExportPc
    <3>5. \A q \in Quotes : outbox[q] \in Int /\ outbox'[q] \in Int
      BY QuotesAssumption DEF QInv, QuotesTypeOK, RowsTypeOK
    <3> HIDE DEF x
    <3>6. ExporterOK(x, approved', stored', outbox')
      BY <2>2, <3>3, <3>4, <3>5 DEF ExporterOK
    <3>. QED BY <3>2, <3>6 DEF x
  <2>. QED BY <2>1, <2>2
<1>. QED BY <1>2, <1>3, <1>4 DEF QInv

\* Steps that only read.
LEMMA ReadFrame ==
  ASSUME QInv, NEW p \in Processes, NEW s \in Local, Hold(p, s),
         UNCHANGED <<quote, line, used, rfq, catalogue, outbox, unfinished, history>>,
         MemoryOK(s, line, used, approved),
         p = "exporter" => ExporterOK(s, approved, stored, outbox)
  PROVE  QInv'
<1>1. /\ UNCHANGED <<quote, line, used, rfq, source, changes, outbox, unfinished>>
      /\ UNCHANGED <<approved, stored, mailed>>
  BY DEF catalogue, history
<1>2. RowsTypeOK'
  BY <1>1 DEF RowsTypeOK, QInv, QuotesTypeOK
<1>3. \A q \in Quotes : outbox'[q] >= outbox[q]
  BY <1>1, QuotesAssumption DEF QInv, QuotesTypeOK
<1>4. /\ \A q \in Quotes : QuoteOK(q, quote[q], used, approved)'
      /\ \A l \in Lines : LineOK(l, line[l], used, unfinished)'
  BY <1>1 DEF QInv
<1>. QED BY <1>1, <1>2, <1>3, <1>4, Frame

\* Steps that end a request and change lines.
LEMMA LineFrame ==
  ASSUME QInv, NEW p \in Processes, p # "exporter", NEW s \in Local, Hold(p, s),
         UNCHANGED <<quote, catalogue, outbox, history>>,
         line' \in [Lines -> LineRow \cup {NULL}],
         rfq' \subseteq Lines, unfinished' \subseteq Lines,
         used \subseteq used', used' \subseteq (Quotes \cup Lines),
         \A l \in Lines : LineOK(l, line'[l], used', unfinished'),
         \A l \in Doomed(p) : line'[l] = line[l] \/ line'[l] = NULL \/ line'[l].kind.opening,
         MemoryOK(s, line', used', approved)
  PROVE  QInv'
<1>1. UNCHANGED <<quote, source, changes, outbox, approved, stored, mailed>>
  BY DEF catalogue, history
<1>2. RowsTypeOK'
  BY <1>1 DEF RowsTypeOK, QInv, QuotesTypeOK, RfqRows
<1>3. \A q \in Quotes : outbox'[q] >= outbox[q]
  BY <1>1, QuotesAssumption DEF QInv, QuotesTypeOK
<1>4. \A q \in Quotes : QuoteOK(q, quote[q], used, approved)'
  BY <1>1 DEF QInv, QuoteOK
<1>. QED BY <1>1, <1>2, <1>3, <1>4, Frame

LEMMA LineFrameIdle ==
  ASSUME QInv, NEW p \in Processes, p # "exporter", Done(p),
         UNCHANGED <<quote, catalogue, outbox, history>>,
         line' \in [Lines -> LineRow \cup {NULL}],
         rfq' \subseteq Lines, unfinished' \subseteq Lines,
         used \subseteq used', used' \subseteq (Quotes \cup Lines),
         \A l \in Lines : LineOK(l, line'[l], used', unfinished'),
         \A l \in Doomed(p) : line'[l] = line[l] \/ line'[l] = NULL \/ line'[l].kind.opening
  PROVE  QInv'
<1>1. Idle \in Local /\ MemoryOK(Idle, line', used', approved)
  BY IdleOK
<1>2. Hold(p, Idle)
  BY DEF Done
<1>. QED BY <1>1, <1>2, LineFrame

\* Steps of p that leave every memory as it is.
LEMMA Still ==
  ASSUME QInv, NEW p \in Processes, UNCHANGED process
  PROVE  Hold(p, process[p]) /\ process[p] \in Local /\ MemoryOK(process[p], line, used, approved)
BY DEF Hold, QInv, QuotesTypeOK

\* What is known of a process at work.
LEMMA AtWork ==
  ASSUME QInv, NEW p \in Processes
  PROVE  /\ process[p] \in Local
         /\ MemoryOK(process[p], line, used, approved)
         /\ \A pc \in Pc \ {"idle", "createDraft"} : At(p, pc) => process[p].q \in Quotes
         /\ \A pc \in LinePc : At(p, pc) => process[p].l \in Lines
                                            /\ process[p].lines[process[p].l] \in LineRow
                                            /\ process[p].l \in used
<1>1. process[p] \in Local /\ MemoryOK(process[p], line, used, approved)
  BY DEF QInv, QuotesTypeOK
<1>2. NULL \notin LineRow
  BY QuotesAssumption
<1>. QED BY <1>1, <1>2 DEF MemoryOK, At

(***************************************************************************)
(* Reads.                                                                  *)
(***************************************************************************)
LEMMA Clients ==
  /\ Estimators \subseteq Processes /\ Admins \subseteq Processes
  /\ "pricer" \in Processes /\ "exporter" \in Processes
  /\ "exporter" \notin Estimators /\ "exporter" \notin Admins
  /\ "pricer" \notin Estimators /\ "pricer" \notin Admins
BY QuotesAssumption DEF Processes

LEMMA ReadingOK ==
  ASSUME QInv, NEW q \in Quotes, quote[q] # NULL, NEW pc \in Pc
  PROVE  /\ Reading(q, pc) \in Local
         /\ Reading(q, pc).pc = pc /\ Reading(q, pc).q = q
         /\ Reading(q, pc).doomed = {} /\ Reading(q, pc).lines = NoLines
         /\ pc \in {"patch", "delete", "destroy"} =>
              Reading(q, pc).row = quote[q] /\ quote[q] \in QuoteRow
<1>1. quote[q] \in QuoteRow
  BY DEF QInv, QuotesTypeOK
<1>2. Idle \in Local
  BY IdleOK
<1>3. /\ Reading(q, pc).pc = pc /\ Reading(q, pc).q = q
      /\ Reading(q, pc).doomed = {} /\ Reading(q, pc).lines = NoLines
      /\ Reading(q, pc).row = IF pc \in {"patch", "delete", "destroy"} THEN quote[q] ELSE NULL
  BY DEF Reading, Idle
<1>4. Reading(q, pc) \in Local
  BY <1>1, <1>2 DEF Reading, Local
<1>. QED BY <1>1, <1>3, <1>4

LEMMA ReadQuoteInv ==
  ASSUME QInv, NEW p \in Processes, NEW q \in Quotes,
         NEW pc \in {"patch", "destroy", "approve", "delete", "insert"},
         ReadQuote(p, q, pc), p # "exporter",
         pc = "destroy" => IsDraft(quote[q])
  PROVE  QInv'
<1> DEFINE s == Reading(q, pc)
<1>1. pc \in Pc
  BY DEF Pc, EstimatorPc
<1>2. quote[q] # NULL /\ Hold(p, s)
      /\ UNCHANGED <<quote, line, used, rfq, catalogue, outbox, unfinished, history>>
  BY DEF ReadQuote
<1>3. /\ s \in Local /\ s.pc = pc /\ s.q = q /\ s.doomed = {} /\ s.lines = NoLines
      /\ pc \in {"patch", "delete", "destroy"} => s.row = quote[q] /\ quote[q] \in QuoteRow
  BY <1>1, <1>2, ReadingOK
<1>4. QuoteOK(q, quote[q], used, approved)
  BY DEF QInv
<1> HIDE DEF s
<1>5. MemoryOK(s, line, used, approved)
  BY <1>2, <1>3, <1>4 DEF MemoryOK, LinePc, NoLines, QuoteOK
<1>. QED BY <1>2, <1>3, <1>5, ReadFrame

LEMMA ReadLineInv ==
  ASSUME QInv, NEW p \in Processes, NEW l \in Lines,
         NEW pc \in LinePc, ReadLine(p, l, pc), p # "exporter"
  PROVE  QInv'
<1> DEFINE s == ReadingLine(l, pc)
<1>1. line[l] # NULL /\ Hold(p, s)
      /\ UNCHANGED <<quote, line, used, rfq, catalogue, outbox, unfinished, history>>
  BY DEF ReadLine
<1>2. line[l] \in LineRow /\ line[l].quote \in Quotes /\ l \in used
  BY <1>1 DEF QInv, QuotesTypeOK, LineRow, LineOK
<1>3. pc \in Pc \ {"patch", "delete", "destroy", "commit"}
  BY DEF LinePc, Pc, EstimatorPc
<1>4. NoLines \in [Lines -> LineRow \cup {NULL}] /\ \A k \in Lines : NoLines[k] = NULL
  BY DEF NoLines
<1> DEFINE held == [NoLines EXCEPT ![l] = line[l]]
<1>5. /\ s = [Idle EXCEPT !.pc = pc, !.q = line[l].quote, !.l = l, !.lines = held]
      /\ held \in [Lines -> LineRow \cup {NULL}]
      /\ held[l] = line[l] /\ \A k \in Lines : held[k] # NULL => k = l
  <2>1. Idle.lines = NoLines
    BY DEF Idle
  <2>2. s = [Idle EXCEPT !.pc = pc, !.q = line[l].quote, !.l = l, !.lines = held]
    BY <2>1 DEF ReadingLine
  <2>. QED BY <1>2, <1>4, <2>2
<1> HIDE DEF held
<1>6. /\ s \in Local
      /\ s.pc = pc /\ s.q = line[l].quote /\ s.l = l /\ s.lines = held /\ s.doomed = {}
  <2> HIDE DEF s
  <2>1. Idle \in Local /\ Idle.doomed = {}
    BY IdleOK DEF Idle
  <2>. QED BY <1>2, <1>3, <1>5, <2>1 DEF Local
<1>7. MemoryOK(s, line, used, approved)
  <2> HIDE DEF s
  <2>. QED BY <1>2, <1>3, <1>5, <1>6 DEF MemoryOK, LinePc
<1> HIDE DEF s
<1>. QED BY <1>1, <1>6, <1>7, ReadFrame

LEMMA DraftsOK ==
  ASSUME QInv, NEW q \in Drafts
  PROVE  q \in Quotes /\ quote[q] # NULL /\ quote[q] \in QuoteRow /\ IsDraft(quote[q])
BY DEF Drafts, QInv, QuotesTypeOK

LEMMA BeginPatchInv ==
  ASSUME QInv, NEW e \in Estimators, BeginPatch(e)
  PROVE  QInv'
BY Clients, ReadQuoteInv DEF BeginPatch

LEMMA BeginDestroyInv ==
  ASSUME QInv, NEW a \in Admins, BeginDestroy(a)
  PROVE  QInv'
<1>1. PICK q \in Drafts : ReadQuote(a, q, "destroy")
  BY DEF BeginDestroy
<1>. QED BY <1>1, DraftsOK, Clients, ReadQuoteInv

LEMMA BeginApproveInv ==
  ASSUME QInv, NEW e \in Estimators, BeginApprove(e)
  PROVE  QInv'
<1>1. PICK q \in Drafts : ReadQuote(e, q, "approve")
  BY DEF BeginApprove
<1>. QED BY <1>1, DraftsOK, Clients, ReadQuoteInv

LEMMA BeginGenerateInv ==
  ASSUME QInv, NEW e \in Estimators, BeginGenerate(e)
  PROVE  QInv'
<1>1. PICK q \in Drafts : ReadQuote(e, q, "delete")
  BY DEF BeginGenerate
<1>. QED BY <1>1, DraftsOK, Clients, ReadQuoteInv

LEMMA BeginAddInv ==
  ASSUME QInv, NEW e \in Estimators, BeginAdd(e)
  PROVE  QInv'
<1>1. PICK q \in Drafts : ReadQuote(e, q, "insert")
  BY DEF BeginAdd
<1>. QED BY <1>1, DraftsOK, Clients, ReadQuoteInv

LEMMA BeginEditInv ==
  ASSUME QInv, NEW e \in Estimators, BeginEdit(e)
  PROVE  QInv'
BY Clients, ReadLineInv DEF BeginEdit, DraftLines, LinePc

LEMMA BeginRemoveInv ==
  ASSUME QInv, NEW e \in Estimators, BeginRemove(e)
  PROVE  QInv'
BY Clients, ReadLineInv DEF BeginRemove, DraftLines, LinePc

LEMMA BeginRecordInv ==
  ASSUME QInv, NEW e \in Estimators, BeginRecord(e)
  PROVE  QInv'
<1>1. PICK l \in rfq : ReadLine(e, l, "record")
  BY DEF BeginRecord
<1>2. l \in Lines
  BY DEF QInv, QuotesTypeOK, RfqRows
<1>. QED BY <1>1, <1>2, Clients, ReadLineInv DEF LinePc

LEMMA BeginRecalculateInv ==
  ASSUME QInv, NEW e \in Estimators, BeginRecalculate(e)
  PROVE  QInv'
<1>1. PICK q \in Drafts : Hold(e, [Reading(q, "recalculate") EXCEPT !.lines = RowsOf(q)])
  BY DEF BeginRecalculate
<1>2. q \in Quotes /\ quote[q] # NULL /\ "recalculate" \in Pc
  BY DraftsOK DEF Pc, EstimatorPc
<1> DEFINE r == Reading(q, "recalculate")
<1> DEFINE s == [r EXCEPT !.lines = RowsOf(q)]
<1>3. r \in Local /\ r.pc = "recalculate" /\ r.q = q /\ r.doomed = {}
  BY <1>2, ReadingOK
<1>4. /\ RowsOf(q) \in [Lines -> LineRow \cup {NULL}]
      /\ \A l \in Lines : RowsOf(q)[l] # NULL => l \in used
  BY RowsOfOK DEF QInv, LineOK
<1> HIDE DEF r
<1>5. /\ s \in Local /\ s.pc = "recalculate" /\ s.q = q /\ s.doomed = {}
      /\ s.lines = RowsOf(q)
  BY <1>3, <1>4 DEF Local
<1> HIDE DEF s
<1>6. MemoryOK(s, line, used, approved)
  BY <1>2, <1>4, <1>5 DEF MemoryOK, LinePc
<1>7. UNCHANGED <<quote, line, used, rfq, catalogue, outbox, unfinished, history>>
  BY DEF BeginRecalculate
<1>8. Hold(e, s)
  BY <1>1 DEF s, r
<1>. QED BY <1>5, <1>6, <1>7, <1>8, Clients, ReadFrame

(***************************************************************************)
(* Steps that change quotes, messages or what has left the house.          *)
(***************************************************************************)
LEMMA QuoteFrame ==
  ASSUME QInv, NEW p \in Processes, NEW s \in Local, Hold(p, s),
         UNCHANGED <<line, rfq, catalogue, unfinished>>,
         quote' \in [Quotes -> QuoteRow \cup {NULL}],
         outbox' \in [Quotes -> 0..MaxExports],
         used \subseteq used', used' \subseteq (Quotes \cup Lines),
         approved \subseteq approved', approved' \subseteq Quotes,
         stored \subseteq stored', stored' \subseteq Quotes, mailed' \subseteq Quotes,
         \A q \in Quotes : QuoteOK(q, quote'[q], used', approved'),
         MemoryOK(s, line, used', approved'),
         p = "exporter" => ExporterOK(s, approved', stored', outbox'),
         p # "exporter" => \A q \in Quotes : outbox'[q] >= outbox[q]
  PROVE  QInv'
<1>1. UNCHANGED <<line, rfq, source, changes, unfinished>>
  BY DEF catalogue
<1>2. RowsTypeOK'
  BY <1>1 DEF RowsTypeOK, QInv, QuotesTypeOK
<1>3. \A l \in Lines : LineOK(l, line[l], used, unfinished)'
  BY <1>1 DEF QInv, LineOK
<1>. QED BY <1>1, <1>2, <1>3, Frame

LEMMA Constantly ==
  ASSUME QInv, UNCHANGED outbox
  PROVE  outbox' \in [Quotes -> 0..MaxExports] /\ \A q \in Quotes : outbox'[q] >= outbox[q]
BY QuotesAssumption DEF QInv, QuotesTypeOK

LEMMA CreateOK ==
  ASSUME QInv, NEW p, NEW q \in Quotes, Create(p, q)
  PROVE  /\ quote' \in [Quotes -> QuoteRow \cup {NULL}]
         /\ used \subseteq used' /\ used' \subseteq (Quotes \cup Lines)
         /\ UNCHANGED <<line, rfq, catalogue, unfinished, outbox, approved, stored, mailed>>
         /\ \A k \in Quotes : QuoteOK(k, quote'[k], used', approved)
         /\ NewQuote \in QuoteRow
<1>1. NewQuote \in QuoteRow /\ ~MayExport(NewQuote)
  BY QuotesAssumption DEF NewQuote, QuoteRow, QuoteStatus, MayExport
<1>2. quote' = [quote EXCEPT ![q] = NewQuote] /\ used' = used \cup {q}
      /\ UNCHANGED <<line, rfq, catalogue, unfinished, outbox, approved, stored, mailed>>
  BY DEF Create, history
<1>3. \A k \in Quotes : QuoteOK(k, quote[k], used, approved)
  BY DEF QInv
<1>. QED BY <1>1, <1>2, <1>3 DEF QInv, QuotesTypeOK, QuoteOK

\* A memory that is right stays so when keys are given out and quotes approved.
LEMMA MemoryGrows ==
  ASSUME NEW s, NEW rows, NEW given, NEW granted, MemoryOK(s, rows, given, granted),
         NEW given2, NEW granted2, given \subseteq given2, granted \subseteq granted2
  PROVE  MemoryOK(s, rows, given2, granted2)
BY DEF MemoryOK

LEMMA CreateQuoteInv ==
  ASSUME QInv, NEW e \in Estimators, CreateQuote(e)
  PROVE  QInv'
<1>1. PICK q \in Quotes : Create(e, q)
  BY DEF CreateQuote
<1> DEFINE s == process[e]
<1>2. e \in Processes /\ e # "exporter"
  BY Clients
<1>3. Hold(e, s) /\ s \in Local /\ MemoryOK(s, line, used, approved)
  BY <1>2, Still DEF CreateQuote
<1>4. /\ quote' \in [Quotes -> QuoteRow \cup {NULL}]
      /\ used \subseteq used' /\ used' \subseteq (Quotes \cup Lines)
      /\ UNCHANGED <<line, rfq, catalogue, unfinished, outbox, approved, stored, mailed>>
      /\ \A k \in Quotes : QuoteOK(k, quote'[k], used', approved)
  BY <1>1, CreateOK
<1> HIDE DEF s
<1>5. MemoryOK(s, line, used', approved)
  BY <1>3, <1>4, MemoryGrows
<1>6. approved \subseteq Quotes /\ stored \subseteq Quotes /\ mailed \subseteq Quotes
  BY DEF QInv, QuotesTypeOK
<1>. QED BY <1>2, <1>3, <1>4, <1>5, <1>6, Constantly, QuoteFrame

LEMMA FinishPatchInv ==
  ASSUME QInv, NEW e \in Estimators, FinishPatch(e)
  PROVE  QInv'
<1> DEFINE s == process[e]
<1>1. e \in Processes /\ e # "exporter" /\ s.pc = "patch" /\ Hold(e, Idle)
      /\ UNCHANGED <<line, used, rfq, catalogue, outbox, unfinished, approved, stored, mailed>>
  BY Clients DEF FinishPatch, At, Done, history
<1>2. PICK amount \in Amounts : quote' = [quote EXCEPT ![s.q] = [s.row EXCEPT !.freight = amount]]
  BY DEF FinishPatch
<1>3. s.q \in Quotes /\ s.row \in QuoteRow /\ (MayExport(s.row) => s.q \in approved)
  BY <1>1, AtWork DEF MemoryOK
<1>4. s.q \in used
  BY <1>1, AtWork DEF MemoryOK
<1> HIDE DEF s
<1> DEFINE row == [s.row EXCEPT !.freight = amount]
<1>5. row \in QuoteRow /\ (MayExport(row) => MayExport(s.row))
  BY <1>3 DEF QuoteRow, MayExport
<1> HIDE DEF row
<1>6. quote' = [quote EXCEPT ![s.q] = row]
  BY <1>2 DEF row
<1>7. \A q \in Quotes : QuoteOK(q, quote[q], used, approved)
  BY DEF QInv
<1>8. /\ quote' \in [Quotes -> QuoteRow \cup {NULL}]
      /\ \A q \in Quotes : QuoteOK(q, quote'[q], used, approved)
  BY <1>3, <1>4, <1>5, <1>6, <1>7 DEF QuoteOK, QInv, QuotesTypeOK
<1>. QED BY <1>1, <1>8, IdleOK, Constantly, QuoteFrame DEF QInv, QuotesTypeOK

LEMMA FinishApproveInv ==
  ASSUME QInv, NEW e \in Estimators, FinishApprove(e)
  PROVE  QInv'
<1> DEFINE q == process[e].q
<1>1. /\ e \in Processes /\ e # "exporter" /\ Hold(e, Idle)
      /\ q \in Quotes
  BY Clients, AtWork DEF FinishApprove, At, Done, MemoryOK
<1>2. /\ quote[q] # NULL
      /\ quote' = [quote EXCEPT ![q].status = "APPROVED"]
      /\ approved' = approved \cup {q}
      /\ UNCHANGED <<line, used, rfq, catalogue, outbox, unfinished, stored, mailed>>
  BY DEF FinishApprove
<1> HIDE DEF q
<1>3. quote[q] \in QuoteRow /\ \A k \in Quotes : QuoteOK(k, quote[k], used, approved)
  BY <1>1, <1>2 DEF QInv, QuotesTypeOK
<1>4. [quote[q] EXCEPT !.status = "APPROVED"] \in QuoteRow
  BY <1>3 DEF QuoteRow, QuoteStatus
<1>5. /\ quote' \in [Quotes -> QuoteRow \cup {NULL}]
      /\ \A k \in Quotes : QuoteOK(k, quote'[k], used, approved')
  BY <1>1, <1>2, <1>3, <1>4 DEF QuoteOK, QInv, QuotesTypeOK
<1>6. /\ approved \subseteq approved' /\ approved' \subseteq Quotes
      /\ used \subseteq used' /\ stored \subseteq stored'
      /\ used' \subseteq (Quotes \cup Lines) /\ stored' \subseteq Quotes /\ mailed' \subseteq Quotes
  BY <1>1, <1>2 DEF QInv, QuotesTypeOK
<1>. QED BY <1>1, <1>2, <1>5, <1>6, IdleOK, Constantly, QuoteFrame

\* What a step that leaves the quotes alone keeps of them.
LEMMA QuotesKept ==
  ASSUME QInv, UNCHANGED <<quote, used, approved>>
  PROVE  /\ quote' \in [Quotes -> QuoteRow \cup {NULL}]
         /\ used \subseteq used' /\ used' \subseteq (Quotes \cup Lines)
         /\ approved \subseteq approved' /\ approved' \subseteq Quotes
         /\ \A q \in Quotes : QuoteOK(q, quote'[q], used', approved')
BY DEF QInv, QuotesTypeOK

LEMMA RequestExportInv ==
  ASSUME QInv, NEW e \in Estimators, RequestExport(e)
  PROVE  QInv'
<1> DEFINE s == process[e]
<1>1. e \in Processes /\ e # "exporter"
  BY Clients
<1>2. Hold(e, s) /\ s \in Local /\ MemoryOK(s, line, used, approved)
  BY <1>1, Still DEF RequestExport
<1>3. /\ UNCHANGED <<quote, line, used, rfq, catalogue, unfinished, approved, stored, mailed>>
      /\ \E q \in Quotes : outbox[q] < MaxExports /\ outbox' = [outbox EXCEPT ![q] = @ + 1]
  BY DEF RequestExport, history
<1>4. outbox \in [Quotes -> 0..MaxExports] /\ MaxExports \in Nat
      /\ stored \subseteq Quotes /\ mailed \subseteq Quotes
  BY QuotesAssumption DEF QInv, QuotesTypeOK
<1>5. outbox' \in [Quotes -> 0..MaxExports] /\ \A q \in Quotes : outbox'[q] >= outbox[q]
  BY <1>3, <1>4
<1> HIDE DEF s
<1>. QED BY <1>1, <1>2, <1>3, <1>4, <1>5, QuotesKept, QuoteFrame

LEMMA CreateDraftInv ==
  ASSUME QInv, CreateDraft
  PROVE  QInv'
<1>1. PICK q \in Quotes : /\ Create("pricer", q)
                          /\ Hold("pricer", [Idle EXCEPT !.pc = "delete", !.q = q, !.row = NewQuote])
  BY DEF CreateDraft
<1> DEFINE s == [Idle EXCEPT !.pc = "delete", !.q = q, !.row = NewQuote]
<1>2. /\ quote' \in [Quotes -> QuoteRow \cup {NULL}]
      /\ used \subseteq used' /\ used' \subseteq (Quotes \cup Lines)
      /\ UNCHANGED <<line, rfq, catalogue, unfinished, outbox, approved, stored, mailed>>
      /\ \A k \in Quotes : QuoteOK(k, quote'[k], used', approved)
      /\ NewQuote \in QuoteRow
  BY <1>1, CreateOK
<1>3. Idle \in Local /\ Idle.doomed = {} /\ \A l \in Lines : Idle.lines[l] = NULL
  BY IdleOK DEF Idle, NoLines
<1>4. /\ s \in Local /\ s.pc = "delete" /\ s.q = q /\ s.row = NewQuote
      /\ s.doomed = {} /\ s.lines = Idle.lines
  BY <1>2, <1>3 DEF Local, Pc, EstimatorPc
<1> HIDE DEF s
<1>5. MemoryOK(s, line, used', approved)
  BY <1>2, <1>3, <1>4 DEF MemoryOK, LinePc
<1>6. approved \subseteq Quotes /\ stored \subseteq Quotes /\ mailed \subseteq Quotes
  BY DEF QInv, QuotesTypeOK
<1>7. Hold("pricer", s)
  BY <1>1 DEF s
<1>. QED BY <1>2, <1>4, <1>5, <1>6, <1>7, Clients, Constantly, QuoteFrame

LEMMA FindDraftInv ==
  ASSUME QInv, FindDraft
  PROVE  QInv'
<1>1. UNCHANGED <<quote, line, used, rfq, catalogue, outbox, unfinished, history>>
  BY DEF FindDraft
<1>2. CASE Step("pricer", "createDraft")
  <2> DEFINE m == process["pricer"]
  <2> DEFINE s == [m EXCEPT !.pc = "createDraft"]
  <2>1. m \in Local /\ MemoryOK(m, line, used, approved)
    BY Clients, AtWork
  <2> HIDE DEF m
  <2>2. /\ s \in Local /\ s.pc = "createDraft" /\ s.doomed = m.doomed /\ s.lines = m.lines
    BY <2>1 DEF Local, Pc
  <2>3. Hold("pricer", s)
    BY <1>2 DEF Step, m
  <2> HIDE DEF s
  <2>4. MemoryOK(s, line, used, approved)
    BY <2>1, <2>2 DEF MemoryOK, LinePc
  <2>. QED BY <1>1, <2>2, <2>3, <2>4, Clients, ReadFrame
<1>3. CASE \E q \in Drafts : Hold("pricer", Reading(q, "delete"))
  <2>1. PICK q \in Drafts : Hold("pricer", Reading(q, "delete"))
    BY <1>3
  <2> DEFINE s == Reading(q, "delete")
  <2>2. q \in Quotes /\ quote[q] # NULL
    BY DraftsOK
  <2>3. "delete" \in Pc
    BY DEF Pc, EstimatorPc
  <2>4. /\ s \in Local /\ s.pc = "delete" /\ s.q = q /\ s.doomed = {} /\ s.lines = NoLines
        /\ s.row \in QuoteRow
    BY <2>2, <2>3, ReadingOK
  <2>5. Hold("pricer", s)
    BY <2>1
  <2> HIDE DEF s
  <2>6. MemoryOK(s, line, used, approved)
    BY <2>2, <2>4 DEF MemoryOK, LinePc, NoLines
  <2>. QED BY <1>1, <2>4, <2>5, <2>6, Clients, ReadFrame
<1>. QED BY <1>2, <1>3 DEF FindDraft

(***************************************************************************)
(* The exporter.                                                           *)
(***************************************************************************)
LEMMA TakeExportInv ==
  ASSUME QInv, TakeExport
  PROVE  QInv'
<1>1. PICK q \in Quotes : /\ outbox[q] > 0 /\ quote[q] # NULL /\ MayExport(quote[q])
                          /\ Hold("exporter", Reading(q, "render"))
  BY DEF TakeExport
<1> DEFINE s == Reading(q, "render")
<1>2. "render" \in Pc
  BY DEF Pc
<1>3. s \in Local /\ s.pc = "render" /\ s.q = q /\ s.doomed = {} /\ s.lines = NoLines
  BY <1>1, <1>2, ReadingOK
<1>4. Hold("exporter", s)
  BY <1>1
<1> HIDE DEF s
<1>5. q \in approved
  BY <1>1 DEF QInv, QuoteOK
<1>6. MemoryOK(s, line, used, approved) /\ ExporterOK(s, approved, stored, outbox)
  BY <1>1, <1>3, <1>5 DEF MemoryOK, ExporterOK, LinePc, NoLines
<1>7. UNCHANGED <<quote, line, used, rfq, catalogue, outbox, unfinished, history>>
  BY DEF TakeExport
<1>. QED BY <1>3, <1>4, <1>6, <1>7, Clients, ReadFrame

LEMMA DropExportInv ==
  ASSUME QInv, DropExport
  PROVE  QInv'
<1> DEFINE s == process["exporter"]
<1>1. s.pc = "idle" /\ Hold("exporter", s) /\ s \in Local /\ MemoryOK(s, line, used, approved)
  BY Clients, Still DEF DropExport, Free
<1>2. /\ UNCHANGED <<quote, line, used, rfq, catalogue, unfinished, approved, stored, mailed>>
      /\ \E q \in Quotes : outbox[q] > 0 /\ outbox' = [outbox EXCEPT ![q] = @ - 1]
  BY DEF DropExport, history
<1>3. outbox \in [Quotes -> 0..MaxExports] /\ MaxExports \in Nat
      /\ stored \subseteq Quotes /\ mailed \subseteq Quotes
  BY QuotesAssumption DEF QInv, QuotesTypeOK
<1>4. outbox' \in [Quotes -> 0..MaxExports]
  BY <1>2, <1>3
<1> HIDE DEF s
<1>5. ExporterOK(s, approved', stored', outbox')
  BY <1>1 DEF ExporterOK, ExportPc
<1>. QED BY <1>1, <1>2, <1>3, <1>4, <1>5, Clients, QuotesKept, QuoteFrame

\* What the exporter holds while it handles a message.
LEMMA Exporting ==
  ASSUME QInv, process["exporter"].pc \in ExportPc
  PROVE  /\ process["exporter"] \in Local
         /\ process["exporter"].q \in Quotes
         /\ process["exporter"].q \in approved
         /\ outbox[process["exporter"].q] > 0
         /\ process["exporter"].pc # "render" => process["exporter"].q \in stored
         /\ \A next \in ExportPc :
              /\ [process["exporter"] EXCEPT !.pc = next] \in Local
              /\ [process["exporter"] EXCEPT !.pc = next].pc = next
              /\ [process["exporter"] EXCEPT !.pc = next].q = process["exporter"].q
              /\ MemoryOK([process["exporter"] EXCEPT !.pc = next], line, used, approved)
<1> DEFINE m == process["exporter"]
<1>1. m \in Local /\ MemoryOK(m, line, used, approved) /\ ExporterOK(m, approved, stored, outbox)
  BY Clients, AtWork DEF QInv
<1>2. m.pc \in ExportPc
  OBVIOUS
<1> HIDE DEF m
<1>3. /\ m.q \in Quotes /\ m.q \in approved /\ outbox[m.q] > 0
      /\ m.pc # "render" => m.q \in stored
  BY <1>1, <1>2 DEF MemoryOK, ExporterOK, ExportPc
<1>4. ASSUME NEW next \in ExportPc
      PROVE  /\ [m EXCEPT !.pc = next] \in Local
             /\ [m EXCEPT !.pc = next].pc = next
             /\ [m EXCEPT !.pc = next].q = m.q
             /\ MemoryOK([m EXCEPT !.pc = next], line, used, approved)
  <2> DEFINE s == [m EXCEPT !.pc = next]
  <2>1. /\ s \in Local /\ s.pc = next /\ s.q = m.q /\ s.doomed = m.doomed /\ s.lines = m.lines
    BY <1>1 DEF Local, ExportPc, Pc
  <2> HIDE DEF s
  <2>2. MemoryOK(s, line, used, approved)
    BY <1>1, <1>3, <2>1 DEF MemoryOK, ExportPc, LinePc
  <2>. QED BY <2>1, <2>2 DEF s
<1>. QED BY <1>1, <1>3, <1>4 DEF m

LEMMA RenderInv ==
  ASSUME QInv, Render
  PROVE  QInv'
<1> DEFINE m == process["exporter"]
<1> DEFINE s == [m EXCEPT !.pc = "saveExport"]
<1>1. m.pc \in ExportPc /\ "saveExport" \in ExportPc
  BY DEF Render, At, ExportPc
<1>2. /\ m.q \in Quotes /\ m.q \in approved /\ outbox[m.q] > 0
      /\ s \in Local /\ s.pc = "saveExport" /\ s.q = m.q
      /\ MemoryOK(s, line, used, approved)
  BY <1>1, Exporting
<1>3. /\ Hold("exporter", s) /\ stored' = stored \cup {m.q}
      /\ UNCHANGED <<quote, line, used, rfq, catalogue, outbox, unfinished, approved, mailed>>
  BY DEF Render, Step
<1> HIDE DEF s, m
<1>4. /\ outbox' \in [Quotes -> 0..MaxExports] /\ mailed' \subseteq Quotes
      /\ stored \subseteq stored' /\ stored' \subseteq Quotes
  BY <1>2, <1>3 DEF QInv, QuotesTypeOK
<1>5. ExporterOK(s, approved', stored', outbox')
  BY <1>2, <1>3 DEF ExporterOK
<1>. QED BY <1>2, <1>3, <1>4, <1>5, Clients, QuotesKept, QuoteFrame

LEMMA SaveExportInv ==
  ASSUME QInv, SaveExport
  PROVE  QInv'
<1> DEFINE m == process["exporter"]
<1>1. m.pc = "saveExport" /\ m.pc \in ExportPc
  BY DEF SaveExport, At, ExportPc
<1>2. UNCHANGED <<line, used, rfq, catalogue, outbox, unfinished, approved, stored, mailed>>
  BY DEF SaveExport, history
<1>3. outbox' \in [Quotes -> 0..MaxExports] /\ mailed' \subseteq Quotes /\ stored' \subseteq Quotes
  BY <1>2 DEF QInv, QuotesTypeOK
<1>4. CASE quote[m.q] # NULL
  <2> DEFINE s == [m EXCEPT !.pc = "mail"]
  <2>1. "mail" \in ExportPc
    BY DEF ExportPc
  <2>2. /\ m.q \in Quotes /\ m.q \in approved /\ outbox[m.q] > 0 /\ m.q \in stored
        /\ s \in Local /\ s.pc = "mail" /\ s.q = m.q
        /\ MemoryOK(s, line, used, approved)
    BY <1>1, <2>1, Exporting
  <2>3. Hold("exporter", s) /\ quote' = [quote EXCEPT ![m.q].status = "EXPORTED"]
    BY <1>4 DEF SaveExport, Step
  <2> HIDE DEF s, m
  <2>4. quote[m.q] \in QuoteRow /\ \A k \in Quotes : QuoteOK(k, quote[k], used, approved)
    BY <1>4, <2>2 DEF QInv, QuotesTypeOK
  <2>5. [quote[m.q] EXCEPT !.status = "EXPORTED"] \in QuoteRow
    BY <2>4 DEF QuoteRow, QuoteStatus
  <2>6. /\ quote' \in [Quotes -> QuoteRow \cup {NULL}]
        /\ \A k \in Quotes : QuoteOK(k, quote'[k], used', approved')
    BY <1>2, <1>4, <2>2, <2>3, <2>4, <2>5 DEF QuoteOK, QInv, QuotesTypeOK
  <2>7. ExporterOK(s, approved', stored', outbox')
    BY <1>2, <2>2 DEF ExporterOK
  <2>8. /\ used \subseteq used' /\ used' \subseteq (Quotes \cup Lines)
        /\ approved \subseteq approved' /\ approved' \subseteq Quotes
        /\ stored \subseteq stored' /\ MemoryOK(s, line, used', approved')
    BY <1>2, <2>2 DEF QInv, QuotesTypeOK
  <2>. QED BY <1>2, <1>3, <2>2, <2>3, <2>6, <2>7, <2>8, Clients, QuoteFrame
<1>5. CASE quote[m.q] = NULL
  <2>1. UNCHANGED quote /\ Hold("exporter", Idle)
    BY <1>5 DEF SaveExport, Done
  <2>2. ExporterOK(Idle, approved, stored, outbox)
    BY DEF ExporterOK, Idle, ExportPc
  <2>3. UNCHANGED history
    BY <1>2 DEF history
  <2>. QED BY <1>2, <2>1, <2>2, <2>3, IdleOK, Clients, ReadFrame
<1>. QED BY <1>4, <1>5

LEMMA SendMailInv ==
  ASSUME QInv, SendMail
  PROVE  QInv'
<1> DEFINE m == process["exporter"]
<1> DEFINE s == [m EXCEPT !.pc = "ack"]
<1>1. m.pc \in ExportPc /\ m.pc # "render" /\ "ack" \in ExportPc
  BY DEF SendMail, At, ExportPc
<1>2. /\ m.q \in Quotes /\ m.q \in approved /\ outbox[m.q] > 0 /\ m.q \in stored
      /\ s \in Local /\ s.pc = "ack" /\ s.q = m.q
      /\ MemoryOK(s, line, used, approved)
  BY <1>1, Exporting
<1>3. /\ Hold("exporter", s) /\ (mailed' = mailed \cup {m.q} \/ UNCHANGED mailed)
      /\ UNCHANGED <<quote, line, used, rfq, catalogue, outbox, unfinished, approved, stored>>
  BY DEF SendMail, Step
<1> HIDE DEF s, m
<1>4. outbox' \in [Quotes -> 0..MaxExports] /\ mailed' \subseteq Quotes /\ stored' \subseteq Quotes
  BY <1>2, <1>3 DEF QInv, QuotesTypeOK
<1>5. ExporterOK(s, approved', stored', outbox')
  BY <1>2, <1>3 DEF ExporterOK
<1>. QED BY <1>2, <1>3, <1>4, <1>5, Clients, QuotesKept, QuoteFrame

LEMMA AcknowledgeExportInv ==
  ASSUME QInv, AcknowledgeExport
  PROVE  QInv'
<1> DEFINE m == process["exporter"]
<1>1. m.pc \in ExportPc
  BY DEF AcknowledgeExport, At, ExportPc
<1>2. m.q \in Quotes /\ outbox[m.q] > 0
  BY <1>1, Exporting
<1>3. /\ Hold("exporter", Idle) /\ outbox' = [outbox EXCEPT ![m.q] = @ - 1]
      /\ UNCHANGED <<quote, line, used, rfq, catalogue, unfinished, approved, stored, mailed>>
  BY DEF AcknowledgeExport, Done, history
<1> HIDE DEF m
<1>4. outbox \in [Quotes -> 0..MaxExports] /\ MaxExports \in Nat
      /\ mailed' \subseteq Quotes /\ stored' \subseteq Quotes
  BY <1>3, QuotesAssumption DEF QInv, QuotesTypeOK
<1>5. outbox' \in [Quotes -> 0..MaxExports]
  BY <1>2, <1>3, <1>4
<1>6. ExporterOK(Idle, approved', stored', outbox')
  BY DEF ExporterOK, Idle, ExportPc
<1>. QED BY <1>3, <1>4, <1>5, <1>6, IdleOK, Clients, QuotesKept, QuoteFrame

(***************************************************************************)
(* Ends of requests without an effect, and the environment.                *)
(***************************************************************************)
LEMMA GivenUp ==
  ASSUME QInv, NEW p \in Processes, Done(p),
         UNCHANGED <<quote, line, used, rfq, catalogue, outbox, unfinished, history>>
  PROVE  QInv'
<1>1. ExporterOK(Idle, approved, stored, outbox)
  BY DEF ExporterOK, Idle, ExportPc
<1>. QED BY <1>1, IdleOK, ReadFrame DEF Done

LEMMA SheetChangesInv ==
  ASSUME QInv, SheetChanges
  PROVE  QInv'
<1>1. UNCHANGED <<quote, line, used, rfq, outbox, process, unfinished, approved, stored, mailed>>
  BY DEF SheetChanges, history
<1>2. QuotesTypeOK'
  <2>1. changes' \in 0..MaxChanges /\ source' \in [Items -> Sources]
    BY QuotesAssumption DEF SheetChanges, QInv, QuotesTypeOK
  <2>. QED BY <1>1, <2>1 DEF QInv, QuotesTypeOK
<1>. QED BY <1>1, <1>2 DEF QInv

(***************************************************************************)
(* Steps that change lines.                                                *)
(***************************************************************************)
LEMMA LinesTyped ==
  ASSUME QInv
  PROVE  /\ line \in [Lines -> LineRow \cup {NULL}]
         /\ rfq \subseteq Lines /\ unfinished \subseteq Lines /\ used \subseteq (Quotes \cup Lines)
         /\ \A l \in Lines : LineOK(l, line[l], used, unfinished)
BY DEF QInv, QuotesTypeOK, RfqRows

\* Rows that another transaction has deleted are locked, and were there.
LEMMA DoomedOK ==
  ASSUME QInv, NEW p \in Processes
  PROVE  /\ Doomed(p) \subseteq Lines /\ Doomed(p) \subseteq Locked(p)
         /\ Doomed(p) \subseteq used
<1>1. Doomed(p) \subseteq Locked(p)
  BY DEF Doomed, Locked, Holds
<1>2. ASSUME NEW l \in Doomed(p) PROVE l \in Lines /\ l \in used
  <2>1. PICK o \in Processes : l \in process[o].doomed
    BY DEF Doomed
  <2>2. process[o].doomed \subseteq Lines
    BY AtWork DEF Local
  <2>. QED BY <2>1, <2>2, AtWork DEF MemoryOK
<1>. QED BY <1>1, <1>2

\* What saving rows that were read, priced, does to each line.
LEMMA SaveAllOK ==
  ASSUME QInv, NEW p \in Processes, NEW old \in [Lines -> LineRow \cup {NULL}],
         SaveAll(p, PricedRows(old))
  PROVE  /\ line' \in [Lines -> LineRow \cup {NULL}]
         /\ \A l \in Doomed(p) : line'[l] = line[l] \/ line'[l] = NULL
         /\ \A l \in Lines :
              \/ UNCHANGED line[l]
              \/ l \in process[p].doomed /\ line'[l] = NULL
              \/ /\ old[l] # NULL /\ line'[l] # NULL /\ line'[l] \in LineRow
                 /\ FlaggedWhenUnpriced(line'[l])
                 /\ old[l].cost > 0 => line'[l].cost = old[l].cost
<1> DEFINE rows == PricedRows(old)
<1>1. /\ \A l \in Locked(p) : rows[l] = NULL
      /\ line' = [l \in Lines |-> IF rows[l] # NULL THEN rows[l]
                                 ELSE IF l \in process[p].doomed THEN NULL ELSE line[l]]
  BY DEF SaveAll
<1>2. ASSUME NEW l \in Lines
      PROVE  /\ old[l] = NULL => rows[l] = NULL
             /\ old[l] # NULL => /\ rows[l] \in LineRow /\ rows[l] # NULL
                                 /\ old[l].cost > 0 => rows[l].cost = old[l].cost
                                 /\ FlaggedWhenUnpriced(rows[l])
  BY PricedRowsOK DEF QInv
<1> HIDE DEF rows
<1>3. ASSUME NEW l \in Lines
      PROVE  /\ line'[l] \in LineRow \cup {NULL}
             /\ \/ UNCHANGED line[l]
                \/ l \in process[p].doomed /\ line'[l] = NULL
                \/ /\ old[l] # NULL /\ line'[l] # NULL /\ line'[l] \in LineRow
                   /\ FlaggedWhenUnpriced(line'[l])
                   /\ old[l].cost > 0 => line'[l].cost = old[l].cost
  <2>1. line'[l] = IF rows[l] # NULL THEN rows[l]
                   ELSE IF l \in process[p].doomed THEN NULL ELSE line[l]
    BY <1>1
  <2>. QED BY <1>2, <2>1, LinesTyped
<1>4. line' \in [Lines -> LineRow \cup {NULL}]
  <2>1. line' = [l \in Lines |-> line'[l]]
    BY <1>1
  <2>. QED BY <1>3, <2>1
<1>5. \A l \in Doomed(p) : line'[l] = line[l] \/ line'[l] = NULL
  BY <1>1, DoomedOK
<1>. QED BY <1>3, <1>4, <1>5

LEMMA DeleteGeneratedInv ==
  ASSUME QInv, NEW p \in Processes, p # "exporter", DeleteGenerated(p)
  PROVE  QInv'
<1> DEFINE m == process[p]
<1> DEFINE gone == GeneratedLines(m.q)
<1> DEFINE s == [m EXCEPT !.pc = "select", !.doomed = gone]
<1>1. /\ m \in Local /\ MemoryOK(m, line, used, approved)
      /\ m.pc = "delete" /\ Hold(p, s)
      /\ UNCHANGED <<quote, line, used, rfq, catalogue, outbox, unfinished, history>>
  BY AtWork DEF DeleteGenerated, At
<1>2. gone \subseteq Lines /\ \A l \in gone : l \in used /\ line[l].kind.opening
  BY DEF GeneratedLines, LinesOf, QInv, LineOK
<1> HIDE DEF m, gone
<1>3. /\ s \in Local /\ s.pc = "select" /\ s.q = m.q /\ s.row = m.row /\ s.lines = m.lines
      /\ s.doomed = gone
  BY <1>1, <1>2 DEF Local, Pc, EstimatorPc
<1> HIDE DEF s
<1>4. MemoryOK(s, line, used, approved)
  BY <1>1, <1>2, <1>3 DEF MemoryOK, LinePc
<1>. QED BY <1>1, <1>3, <1>4, ReadFrame

LEMMA SelectKeptInv ==
  ASSUME QInv, NEW p \in Processes, p # "exporter", SelectKept(p)
  PROVE  QInv'
<1> DEFINE m == process[p]
<1> DEFINE rows == RowsOf(m.q)
<1> DEFINE kept == [l \in Lines |-> IF l \in m.doomed THEN NULL ELSE rows[l]]
<1> DEFINE s == [m EXCEPT !.pc = "commit", !.lines = kept]
<1>1. /\ m \in Local /\ MemoryOK(m, line, used, approved)
      /\ m.pc = "select" /\ Hold(p, s)
      /\ UNCHANGED <<quote, line, used, rfq, catalogue, outbox, unfinished, history>>
  BY AtWork DEF SelectKept, At
<1>2. /\ rows \in [Lines -> LineRow \cup {NULL}]
      /\ \A l \in Lines : rows[l] # NULL => rows[l] = line[l] /\ l \in used
  BY RowsOfOK DEF QInv, LineOK
<1> HIDE DEF m, rows
<1>3. /\ kept \in [Lines -> LineRow \cup {NULL}]
      /\ \A l \in Lines : kept[l] # NULL => l \in used
  BY <1>2
<1> HIDE DEF kept
<1>4. /\ s \in Local /\ s.pc = "commit" /\ s.q = m.q /\ s.row = m.row /\ s.lines = kept
      /\ s.doomed = m.doomed
  BY <1>1, <1>3 DEF Local, Pc, EstimatorPc
<1> HIDE DEF s
<1>5. MemoryOK(s, line, used, approved)
  BY <1>1, <1>3, <1>4 DEF MemoryOK, LinePc
<1>. QED BY <1>1, <1>4, <1>5, ReadFrame

LEMMA FinishDestroyInv ==
  ASSUME QInv, NEW a \in Admins, FinishDestroy(a)
  PROVE  QInv'
<1> DEFINE q == process[a].q
<1>1. /\ a \in Processes /\ a # "exporter" /\ Hold(a, Idle)
      /\ q \in Quotes
      /\ quote' = [quote EXCEPT ![q] = NULL]
      /\ line' = [l \in Lines |-> IF l \in LinesOf(q) THEN NULL ELSE line[l]]
      /\ rfq' = rfq \ LinesOf(q)
      /\ UNCHANGED <<used, source, changes, outbox, unfinished, approved, stored, mailed>>
  BY Clients, AtWork DEF FinishDestroy, At, Done, catalogue, history, MemoryOK
<1> HIDE DEF q
<1>2. RowsTypeOK'
  BY <1>1 DEF RowsTypeOK, QInv, QuotesTypeOK, RfqRows
<1>3. \A k \in Quotes : QuoteOK(k, quote[k], used, approved)'
  BY <1>1 DEF QInv, QuotesTypeOK, QuoteOK
<1>4. \A l \in Lines : LineOK(l, line[l], used, unfinished)'
  BY <1>1 DEF QInv, LineOK
<1>5. \A l \in Doomed(a) : line'[l] = line[l] \/ line'[l] = NULL
  BY <1>1, DoomedOK
<1>6. \A k \in Quotes : outbox'[k] >= outbox[k]
  BY <1>1, Constantly
<1>. QED BY <1>1, <1>2, <1>3, <1>4, <1>5, <1>6, IdleOK, Frame

\* Saving one line that was created before, while no transaction deletes it.
LEMMA SaveInv ==
  ASSUME QInv, NEW p \in Processes, p # "exporter", Done(p),
         NEW l \in Lines, NEW row \in LineRow \cup {NULL}, Save(p, l, row),
         row # NULL => l \in used /\ FlaggedWhenUnpriced(row),
         UNCHANGED <<quote, used, catalogue, outbox, history>>,
         rfq' \subseteq Lines, unfinished' \subseteq Lines,
         \A k \in Lines : k # l => (k \in unfinished' <=> k \in unfinished)
  PROVE  QInv'
<1>1. l \notin Locked(p) /\ line' = [line EXCEPT ![l] = row]
  BY DEF Save
<1>2. line' \in [Lines -> LineRow \cup {NULL}]
  BY <1>1, LinesTyped
<1>3. \A k \in Lines : LineOK(k, line'[k], used, unfinished')
  BY <1>1, LinesTyped DEF LineOK
<1>4. \A k \in Doomed(p) : line'[k] = line[k]
  BY <1>1, DoomedOK, LinesTyped
<1>. QED BY <1>2, <1>3, <1>4, LinesTyped, LineFrameIdle

LEMMA PriceNewLineInv ==
  ASSUME QInv, NEW e \in Estimators, PriceNewLine(e)
  PROVE  QInv'
<1> DEFINE l == process[e].l
<1> DEFINE old == process[e].lines[l]
<1>1. e \in Processes /\ e # "exporter"
  BY Clients
<1>2. l \in Lines /\ old \in LineRow /\ l \in used
  BY <1>1, AtWork DEF PriceNewLine, LinePc
<1>3. /\ Save(e, l, Priced(old)) /\ unfinished' = unfinished \ {l} /\ Done(e)
      /\ UNCHANGED <<quote, used, rfq, catalogue, outbox, history>>
  BY DEF PriceNewLine
<1> HIDE DEF old, l
<1>4. Priced(old) \in LineRow /\ FlaggedWhenUnpriced(Priced(old))
  BY <1>2, PricedOK DEF QInv
<1>5. rfq' \subseteq Lines /\ unfinished' \subseteq Lines
  BY <1>3, LinesTyped
<1>. QED BY <1>1, <1>2, <1>3, <1>4, <1>5, SaveInv

LEMMA FinishEditInv ==
  ASSUME QInv, NEW e \in Estimators, FinishEdit(e)
  PROVE  QInv'
<1> DEFINE l == process[e].l
<1> DEFINE old == process[e].lines[l]
<1>1. e \in Processes /\ e # "exporter"
  BY Clients
<1>2. l \in Lines /\ old \in LineRow /\ l \in used
  BY <1>1, AtWork DEF FinishEdit, LinePc
<1>3. PICK cost \in Typed, flag \in BOOLEAN, kind \in Kinds, to \in Quotes :
        Save(e, l, Priced([old EXCEPT !.cost = cost, !.needs_review = flag,
                                   !.nought = FALSE, !.kind = kind, !.quote = to]))
  BY DEF FinishEdit
<1>4. Done(e) /\ UNCHANGED <<quote, used, rfq, catalogue, outbox, unfinished, history>>
  BY DEF FinishEdit
<1> DEFINE row == [old EXCEPT !.cost = cost, !.needs_review = flag, !.nought = FALSE,
                                !.kind = kind, !.quote = to]
<1> HIDE DEF old, l
<1>5. row \in LineRow
  BY <1>2, QuotesAssumption DEF LineRow
<1>6. Save(e, l, Priced(row))
  BY <1>3
<1> HIDE DEF row
<1>7. Priced(row) \in LineRow /\ FlaggedWhenUnpriced(Priced(row))
  BY <1>5, PricedOK DEF QInv
<1>8. rfq' \subseteq Lines /\ unfinished' \subseteq Lines
  BY <1>4, LinesTyped
<1>. QED BY <1>1, <1>2, <1>4, <1>6, <1>7, <1>8, SaveInv

LEMMA FinishRemoveInv ==
  ASSUME QInv, NEW e \in Estimators, FinishRemove(e)
  PROVE  QInv'
<1> DEFINE l == process[e].l
<1>1. e \in Processes /\ e # "exporter" /\ l \in Lines
  BY Clients, AtWork DEF FinishRemove, LinePc
<1>2. /\ Save(e, l, NULL) /\ rfq' = rfq \ {l} /\ Done(e)
      /\ UNCHANGED <<quote, used, catalogue, outbox, unfinished, history>>
  BY DEF FinishRemove
<1> HIDE DEF l
<1>3. rfq' \subseteq Lines /\ unfinished' \subseteq Lines
  BY <1>2, LinesTyped
<1>. QED BY <1>1, <1>2, <1>3, SaveInv

LEMMA RequestPriceInv ==
  ASSUME QInv, NEW e \in Estimators, RequestPrice(e)
  PROVE  QInv'
<1> DEFINE s == process[e]
<1>1. e \in Processes /\ e # "exporter"
  BY Clients
<1>2. Hold(e, s) /\ s \in Local /\ MemoryOK(s, line, used, approved)
  BY <1>1, Still DEF RequestPrice
<1>3. /\ UNCHANGED <<quote, line, used, catalogue, outbox, unfinished, history>>
      /\ rfq' \subseteq Lines
  BY LinesTyped DEF RequestPrice
<1>4. UNCHANGED approved
  BY <1>3 DEF history
<1> HIDE DEF s
<1>. QED BY <1>1, <1>2, <1>3, <1>4, LinesTyped, LineFrame

LEMMA InsertLineInv ==
  ASSUME QInv, NEW e \in Estimators, InsertLine(e)
  PROVE  QInv'
<1> DEFINE q == process[e].q
<1>1. e \in Processes /\ e # "exporter" /\ q \in Quotes
  BY Clients, AtWork DEF InsertLine, At, MemoryOK
<1>2. UNCHANGED <<quote, rfq, catalogue, outbox, history, approved>>
  BY DEF InsertLine, history
<1>3. PICK l \in Lines \ used, cost \in Typed, kind \in Kinds :
        LET row == [quote |-> q, kind |-> kind, cost |-> cost, needs_review |-> FALSE,
                nought |-> FALSE]
        IN /\ line' = [line EXCEPT ![l] = row]
           /\ used' = used \cup {l}
           /\ unfinished' = unfinished \cup {l}
           /\ Hold(e, [Idle EXCEPT !.pc = "priceNew", !.q = q, !.l = l, !.lines[l] = row])
  BY DEF InsertLine
<1> DEFINE row == [quote |-> q, kind |-> kind, cost |-> cost, needs_review |-> FALSE,
                nought |-> FALSE]
<1> HIDE DEF q
<1>4. row \in LineRow
  BY <1>1, QuotesAssumption DEF LineRow
<1>5. /\ line' = [line EXCEPT ![l] = row] /\ used' = used \cup {l}
      /\ unfinished' = unfinished \cup {l}
      /\ Hold(e, [Idle EXCEPT !.pc = "priceNew", !.q = q, !.l = l, !.lines[l] = row])
  BY <1>3
<1> HIDE DEF row
<1> DEFINE held == [NoLines EXCEPT ![l] = row]
<1> DEFINE s == [Idle EXCEPT !.pc = "priceNew", !.q = q, !.l = l, !.lines = held]
<1>6. held \in [Lines -> LineRow \cup {NULL}] /\ held[l] = row
      /\ \A k \in Lines : held[k] # NULL => k = l
  BY <1>4 DEF NoLines
<1>7. Hold(e, s)
  <2>1. Idle.lines = NoLines
    BY DEF Idle
  <2>. QED BY <1>5, <2>1
<1> HIDE DEF held
<1>8. /\ s \in Local /\ s.pc = "priceNew" /\ s.q = q /\ s.l = l
      /\ s.lines = held /\ s.doomed = {}
  <2>1. Idle \in Local /\ Idle.doomed = {}
    BY IdleOK DEF Idle
  <2>. QED BY <1>1, <1>6, <2>1 DEF Local, Pc, EstimatorPc
<1> HIDE DEF s
<1>9. MemoryOK(s, line', used', approved)
  BY <1>1, <1>4, <1>5, <1>6, <1>8 DEF MemoryOK, LinePc
<1>10. /\ line' \in [Lines -> LineRow \cup {NULL}]
       /\ \A k \in Lines : LineOK(k, line'[k], used', unfinished')
  BY <1>4, <1>5, LinesTyped DEF LineOK
<1>11. \A k \in Doomed(e) : line'[k] = line[k]
  BY <1>1, <1>5, DoomedOK, LinesTyped
<1>12. /\ rfq' \subseteq Lines /\ unfinished' \subseteq Lines
       /\ used \subseteq used' /\ used' \subseteq (Quotes \cup Lines)
  BY <1>2, <1>5, LinesTyped
<1>. QED BY <1>1, <1>2, <1>7, <1>8, <1>9, <1>10, <1>11, <1>12, LineFrame

\* A request that ends by saving every line it has read, priced.
LEMMA AssembleInv ==
  ASSUME QInv, NEW e \in Estimators, Done(e), SaveAll(e, PricedRows(process[e].lines)),
         UNCHANGED <<quote, used, rfq, catalogue, outbox, unfinished, history>>
  PROVE  QInv'
<1>1. e \in Processes /\ e # "exporter"
  BY Clients
<1>2. PICK old \in [Lines -> LineRow \cup {NULL}] :
        old = process[e].lines /\ \A l \in Lines : old[l] # NULL => l \in used
  BY <1>1, AtWork DEF MemoryOK, Local
<1>3. SaveAll(e, PricedRows(old))
  BY <1>2
<1>4. /\ line' \in [Lines -> LineRow \cup {NULL}]
      /\ \A l \in Doomed(e) : line'[l] = line[l] \/ line'[l] = NULL
      /\ \A l \in Lines :
           \/ UNCHANGED line[l]
           \/ l \in process[e].doomed /\ line'[l] = NULL
           \/ old[l] # NULL /\ line'[l] # NULL /\ FlaggedWhenUnpriced(line'[l])
  BY <1>1, <1>3, SaveAllOK
<1>5. \A l \in Lines : LineOK(l, line'[l], used, unfinished)
  BY <1>2, <1>4, LinesTyped DEF LineOK
<1>. QED BY <1>1, <1>4, <1>5, LinesTyped, LineFrameIdle

LEMMA FinishRecalculateInv ==
  ASSUME QInv, NEW e \in Estimators, FinishRecalculate(e)
  PROVE  QInv'
BY AssembleInv DEF FinishRecalculate

LEMMA FinishRecordInv ==
  ASSUME QInv, NEW e \in Estimators, FinishRecord(e)
  PROVE  QInv'
BY AssembleInv DEF FinishRecord

LEMMA RecordPriceInv ==
  ASSUME QInv, NEW e \in Estimators, RecordPrice(e)
  PROVE  QInv'
<1> DEFINE m == process[e]
<1> DEFINE read == m.lines[m.l]
<1>1. e \in Processes /\ e # "exporter"
  BY Clients
<1>2. /\ m \in Local /\ MemoryOK(m, line, used, approved)
      /\ m.pc = "record" /\ m.q \in Quotes
      /\ m.l \in Lines /\ read \in LineRow /\ m.l \in used
  <2>1. m.pc = "record" /\ m \in Local /\ MemoryOK(m, line, used, approved)
    BY <1>1, AtWork DEF RecordPrice, At
  <2>2. m.q \in Quotes /\ m.l \in Lines /\ read \in LineRow
    BY <2>1 DEF MemoryOK, LinePc
  <2>3. m.l \in used
    BY <2>1, <2>2, QuotesAssumption DEF MemoryOK
  <2>. QED BY <2>1, <2>2, <2>3
<1>3. PICK cost \in Typed :
        Hold(e, [m EXCEPT !.pc = "assemble", !.lines =
          [RowsOf(m.q) EXCEPT ![m.l] =
             Priced([read EXCEPT !.cost = cost, !.needs_review = FALSE, !.nought = FALSE])]])
  BY DEF RecordPrice
<1>4. UNCHANGED <<quote, line, used, rfq, catalogue, outbox, unfinished, history>>
  BY DEF RecordPrice
<1> DEFINE row == [read EXCEPT !.cost = cost, !.needs_review = FALSE, !.nought = FALSE]
<1> DEFINE rows == [RowsOf(m.q) EXCEPT ![m.l] = Priced(row)]
<1> DEFINE s == [m EXCEPT !.pc = "assemble", !.lines = rows]
<1>5. Hold(e, s)
  BY <1>3
<1> HIDE DEF read, m
<1>6. row \in LineRow
  BY <1>2, QuotesAssumption DEF LineRow
<1> HIDE DEF row
<1>7. Priced(row) \in LineRow
  BY <1>6, PricedOK DEF QInv
<1>8. /\ RowsOf(m.q) \in [Lines -> LineRow \cup {NULL}]
      /\ \A k \in Lines : RowsOf(m.q)[k] # NULL => k \in used
  BY RowsOfOK DEF QInv, LineOK
<1>9. /\ rows \in [Lines -> LineRow \cup {NULL}]
      /\ \A k \in Lines : rows[k] # NULL => k \in used
  BY <1>2, <1>7, <1>8
<1> HIDE DEF rows
<1>10. /\ s \in Local /\ s.pc = "assemble" /\ s.q = m.q /\ s.lines = rows
       /\ s.doomed = m.doomed
  BY <1>2, <1>9 DEF Local, Pc, EstimatorPc
<1> HIDE DEF s
<1>11. MemoryOK(s, line, used, approved)
  BY <1>2, <1>9, <1>10 DEF MemoryOK, LinePc
<1>. QED BY <1>1, <1>4, <1>5, <1>10, <1>11, ReadFrame

LEMMA AntiFunctionOK ==
  ASSUME NEW S, NEW T, NEW f \in [S -> T], NEW t \in Range(f)
  PROVE  AntiFunction(f)[t] \in S
<1>1. DOMAIN f = S
  OBVIOUS
<1>2. PICK s \in S : f[s] = t
  BY <1>1 DEF Range
<1>3. AntiFunction(f)[t] = CHOOSE x \in S : t \in Range(f) => f[x] = t
  BY <1>1 DEF AntiFunction, Inverse
<1>. QED BY <1>2, <1>3

\* What the commit of a generation makes of each line.
LEMMA GeneratedOK ==
  ASSUME QInv, NEW p \in Processes, CommitGenerated(p)
  PROVE  /\ line' \in [Lines -> LineRow \cup {NULL}]
         /\ used \subseteq used' /\ used' \subseteq (Quotes \cup Lines)
         /\ \A l \in Doomed(p) : line'[l] = line[l] \/ line'[l] = NULL
         /\ \A l \in Lines :
              \/ UNCHANGED line[l]
              \/ l \in process[p].doomed /\ line'[l] = NULL
              \/ /\ line'[l] # NULL /\ l \in used' /\ FlaggedWhenUnpriced(line'[l])
                 /\ \/ l \notin used
                    \/ /\ process[p].lines[l] # NULL
                       /\ process[p].lines[l].cost > 0 => line'[l].cost = process[p].lines[l].cost
<1> DEFINE m == process[p]
<1> DEFINE kept == m.lines
<1>1. /\ kept \in [Lines -> LineRow \cup {NULL}] /\ m.q \in Quotes /\ m.row.freight \in Prices
      /\ \A l \in Lines : kept[l] # NULL => l \in used
  <2>1. m.pc = "commit" /\ m \in Local /\ MemoryOK(m, line, used, approved)
    BY AtWork DEF CommitGenerated, At
  <2>2. m.row \in QuoteRow /\ m.q \in Quotes
    BY <2>1 DEF MemoryOK
  <2>. QED BY <2>1, <2>2, QuotesAssumption DEF MemoryOK, Local, QuoteRow
<1>2. PICK at \in Injection(Inserted(kept), Lines \ used) :
        /\ SaveAll(p, PricedRows([l \in Lines |->
             IF l \in Range(at) THEN NewLine(p, AntiFunction(at)[l]) ELSE kept[l]]))
        /\ used' = used \cup Range(at)
  BY DEF CommitGenerated
<1> DEFINE old == [l \in Lines |-> IF l \in Range(at) THEN NewLine(p, AntiFunction(at)[l])
                                  ELSE kept[l]]
<1>3. at \in [Inserted(kept) -> Lines \ used] /\ Range(at) \subseteq Lines \ used
  BY <1>2 DEF Injection, Range
<1>4. \A l \in Range(at) : AntiFunction(at)[l] \in Inserted(kept)
  BY <1>3, AntiFunctionOK
<1>5. Inserted(kept) \subseteq LineKind
  <2>1. Freight \in LineKind /\ \A i \in Items : Generated(i) \in LineKind
    BY DEF LineKind, Generated, Freight
  <2>. QED BY <2>1, Zenon DEF Inserted
<1>6. \A kind \in LineKind : NewLine(p, kind) \in LineRow
  <2>1. 0 \in Prices
    BY QuotesAssumption DEF Prices
  <2>. QED BY <1>1, <2>1 DEF NewLine, LineRow
<1>7. old \in [Lines -> LineRow \cup {NULL}]
  BY <1>1, <1>4, <1>5, <1>6
<1>8. SaveAll(p, PricedRows(old))
  BY <1>2
<1>9. \A l \in Lines : l \notin Range(at) => old[l] = kept[l]
  OBVIOUS
<1> HIDE DEF old, kept
<1>10. used \subseteq used' /\ used' \subseteq (Quotes \cup Lines)
       /\ Range(at) \subseteq used' /\ Range(at) \cap used = {}
  BY <1>2, <1>3, LinesTyped
<1>11. /\ line' \in [Lines -> LineRow \cup {NULL}]
       /\ \A l \in Doomed(p) : line'[l] = line[l] \/ line'[l] = NULL
       /\ \A l \in Lines :
            \/ UNCHANGED line[l]
            \/ l \in m.doomed /\ line'[l] = NULL
            \/ /\ old[l] # NULL /\ line'[l] # NULL /\ FlaggedWhenUnpriced(line'[l])
               /\ old[l].cost > 0 => line'[l].cost = old[l].cost
  BY <1>7, <1>8, SaveAllOK
<1>12. ASSUME NEW l \in Lines, old[l] # NULL, line'[l] # NULL,
              old[l].cost > 0 => line'[l].cost = old[l].cost
       PROVE  /\ l \in used'
              /\ \/ l \notin used
                 \/ /\ kept[l] # NULL
                    /\ kept[l].cost > 0 => line'[l].cost = kept[l].cost
  BY <1>1, <1>9, <1>10, <1>12
<1>. QED BY <1>10, <1>11, <1>12 DEF kept

LEMMA CommitGeneratedInv ==
  ASSUME QInv, NEW p \in Processes, p # "exporter", CommitGenerated(p)
  PROVE  QInv'
<1>1. /\ Done(p) /\ UNCHANGED <<quote, catalogue, outbox, unfinished, history>>
      /\ rfq' \subseteq Lines /\ unfinished' \subseteq Lines
  BY LinesTyped DEF CommitGenerated
<1>2. \A l \in Lines : LineOK(l, line'[l], used', unfinished')
  BY <1>1, GeneratedOK, LinesTyped DEF LineOK
<1>. QED BY <1>1, <1>2, GeneratedOK, LineFrameIdle

(***************************************************************************)
(* The invariant.                                                          *)
(***************************************************************************)
LEMMA QInvInit == QuotesInit => QInv
<1>. SUFFICES ASSUME QuotesInit PROVE QInv
  OBVIOUS
<1>1. NoLines \in [Lines -> LineRow \cup {NULL}] /\ \A l \in Lines : NoLines[l] = NULL
  BY DEF NoLines
<1>2. process = [p \in Processes |-> Idle] /\ \A p \in Processes : process[p] = Idle
  BY DEF QuotesInit
<1>3. QuotesTypeOK
  BY <1>1, <1>2, IdleOK, QuotesAssumption DEF QuotesInit, QuotesTypeOK, RfqRows
<1>4. /\ \A q \in Quotes : QuoteOK(q, quote[q], used, approved)
      /\ \A l \in Lines : LineOK(l, line[l], used, unfinished)
  BY <1>1 DEF QuotesInit, QuoteOK, LineOK
<1>5. \A p \in Processes : MemoryOK(process[p], line, used, approved)
  BY <1>2, IdleOK
<1>6. ExporterOK(process["exporter"], approved, stored, outbox)
  BY <1>2, Clients DEF ExporterOK, Idle, ExportPc
<1>. QED BY <1>3, <1>4, <1>5, <1>6 DEF QInv

LEMMA RequestInv ==
  ASSUME QInv, NEW e \in Estimators, Request(e)
  PROVE  QInv'
<1>1. e \in Processes /\ e # "exporter"
  BY Clients
<1>2. RequestFails(e) => QInv'
  BY <1>1, GivenUp DEF RequestFails
<1>3. DeleteGenerated(e) => QInv'
  BY <1>1, DeleteGeneratedInv
<1>4. CommitGenerated(e) => QInv'
  BY <1>1, CommitGeneratedInv
<1>5. SelectKept(e) => QInv'
  BY <1>1, SelectKeptInv
<1>. QED BY <1>2, <1>3, <1>4, <1>5,
            CreateQuoteInv, BeginPatchInv, FinishPatchInv, BeginRecalculateInv,
            FinishRecalculateInv, BeginApproveInv, FinishApproveInv, RequestExportInv,
            BeginGenerateInv, BeginAddInv, InsertLineInv, PriceNewLineInv, BeginEditInv,
            FinishEditInv, BeginRemoveInv, FinishRemoveInv, RequestPriceInv, BeginRecordInv,
            RecordPriceInv, FinishRecordInv
         DEF Request

LEMMA WorkerInv ==
  ASSUME QInv, Worker
  PROVE  QInv'
<1>1. "pricer" \in Processes /\ "pricer" # "exporter"
  BY Clients
<1>2. PriceFails => QInv'
  BY <1>1, GivenUp DEF PriceFails
<1>3. DeleteGenerated("pricer") => QInv'
  BY <1>1, DeleteGeneratedInv
<1>4. CommitGenerated("pricer") => QInv'
  BY <1>1, CommitGeneratedInv
<1>5. SelectKept("pricer") => QInv'
  BY <1>1, SelectKeptInv
<1>. QED BY <1>2, <1>3, <1>4, <1>5, FindDraftInv, CreateDraftInv, TakeExportInv, DropExportInv,
            RenderInv, SaveExportInv, SendMailInv, AcknowledgeExportInv
         DEF Worker

LEMMA QInvStep == QInv /\ [QuotesNext]_vars => QInv'
<1>. SUFFICES ASSUME QInv, [QuotesNext]_vars PROVE QInv'
  OBVIOUS
<1>1. CASE UNCHANGED vars
  BY <1>1 DEF vars, QInv, QuotesTypeOK
<1>2. ASSUME NEW e \in Estimators, Request(e) PROVE QInv'
  BY <1>2, RequestInv
<1>3. ASSUME NEW a \in Admins, BeginDestroy(a) \/ FinishDestroy(a) PROVE QInv'
  BY <1>3, BeginDestroyInv, FinishDestroyInv
<1>4. ASSUME NEW p \in Processes, Dies(p) PROVE QInv'
  BY <1>4, GivenUp DEF Dies
<1>. QED BY <1>1, <1>2, <1>3, <1>4, WorkerInv, SheetChangesInv DEF QuotesNext

\* What requests and workers hold in memory agrees with the rows, the keys given
\* out, the approvals and the messages, whoever has written in between.
THEOREM QuotesInvariance == QuotesSpec => []QInv
BY QInvInit, QInvStep, PTL DEF QuotesSpec

\* Every row, memory and message keeps its type: no acknowledgement is counted
\* twice, no row is written from a memory that holds none.
THEOREM QuotesTypeCorrect == QuotesSpec => []QuotesTypeOK
<1>1. QInv => QuotesTypeOK
  BY DEF QInv
<1>. QED BY <1>1, QuotesInvariance, PTL

\* A line that is unpriced and unflagged is one whose own request has not priced it
\* yet, or one that a list price times its multiplier priced at nought, whatever stale
\* copy of a line is saved.
THEOREM UnpricedAreFlagged == QuotesSpec => []UnpricedLinesAreFlagged
<1>1. QInv => UnpricedLinesAreFlagged
  BY DEF QInv, UnpricedLinesAreFlagged, LineOK, FlaggedWhenUnpriced
<1>. QED BY <1>1, QuotesInvariance, PTL

(***************************************************************************)
(* Who writes what.                                                        *)
(***************************************************************************)
RequestWritesLines(e) ==
  \/ FinishRecalculate(e) \/ InsertLine(e) \/ PriceNewLine(e)
  \/ FinishEdit(e) \/ FinishRemove(e) \/ FinishRecord(e)

RequestWritesQuotes(e) == CreateQuote(e) \/ FinishPatch(e) \/ FinishApprove(e)

LEMMA RequestWrites ==
  ASSUME NEW e \in Estimators, Request(e)
  PROVE  /\ UNCHANGED line \/ RequestWritesLines(e) \/ CommitGenerated(e)
         /\ UNCHANGED <<quote, approved>> \/ RequestWritesQuotes(e)
         /\ UNCHANGED <<stored, mailed>>
         /\ UNCHANGED approved \/ FinishApprove(e)
<1>1. RequestWritesLines(e) \/ CommitGenerated(e)
        => UNCHANGED <<quote, approved, stored, mailed>>
  BY DEF RequestWritesLines, FinishRecalculate, InsertLine, PriceNewLine, FinishEdit,
         FinishRemove, FinishRecord, CommitGenerated, history
<1>2. RequestWritesQuotes(e) => UNCHANGED <<line, stored, mailed>>
                                /\ (UNCHANGED approved \/ FinishApprove(e))
  BY DEF RequestWritesQuotes, CreateQuote, Create, FinishPatch, FinishApprove, history
<1>3. \/ RequestWritesLines(e) \/ RequestWritesQuotes(e) \/ CommitGenerated(e)
      \/ UNCHANGED <<quote, line, approved, stored, mailed>>
  BY DEF Request, RequestWritesLines, RequestWritesQuotes,
         BeginPatch, BeginRecalculate, BeginApprove, RequestExport, BeginGenerate,
         DeleteGenerated, SelectKept, BeginAdd, BeginEdit, BeginRemove, RequestPrice, BeginRecord,
         RecordPrice, RequestFails, ReadQuote, ReadLine, history
<1>. QED BY <1>1, <1>2, <1>3

LEMMA WorkerWrites ==
  ASSUME Worker
  PROVE  /\ UNCHANGED line \/ CommitGenerated("pricer")
         /\ UNCHANGED quote \/ CreateDraft \/ SaveExport
         /\ UNCHANGED approved
         /\ UNCHANGED <<stored, mailed>> \/ Render \/ SendMail
BY DEF Worker, FindDraft, CreateDraft, Create, DeleteGenerated, SelectKept, CommitGenerated, PriceFails,
       TakeExport, DropExport, Render, SaveExport, SendMail, AcknowledgeExport, history

LEMMA OtherWrites ==
  /\ \A a \in Admins : BeginDestroy(a) => UNCHANGED <<quote, line, approved, stored, mailed>>
  /\ \A a \in Admins : FinishDestroy(a) => UNCHANGED <<approved, stored, mailed>>
  /\ SheetChanges => UNCHANGED <<quote, line, process, approved, stored, mailed>>
  /\ \A p \in Processes : Dies(p) => UNCHANGED <<quote, line, approved, stored, mailed>>
BY DEF BeginDestroy, ReadQuote, FinishDestroy, SheetChanges, Dies, history

LEMMA LineSteps ==
  ASSUME [QuotesNext]_vars
  PROVE  \/ UNCHANGED line
         \/ \E e \in Estimators : RequestWritesLines(e)
         \/ \E a \in Admins : FinishDestroy(a)
         \/ \E p \in Estimators \cup {"pricer"} : CommitGenerated(p)
BY RequestWrites, WorkerWrites, OtherWrites DEF QuotesNext, vars

LEMMA QuoteSteps ==
  ASSUME [QuotesNext]_vars
  PROVE  \/ UNCHANGED quote
         \/ \E e \in Estimators : RequestWritesQuotes(e)
         \/ \E a \in Admins : FinishDestroy(a)
         \/ CreateDraft \/ SaveExport
BY RequestWrites, WorkerWrites, OtherWrites DEF QuotesNext, vars

(***************************************************************************)
(* The approval gate.                                                      *)
(***************************************************************************)
LEMMA GateSteps ==
  ASSUME QInv, [QuotesNext]_vars
  PROVE  [Gate!GateNext]_(Gate!gateVars)
<1>1. ASSUME NEW e \in Estimators, FinishApprove(e) PROVE Gate!GateNext
  <2>1. process[e].q \in Quotes
    BY <1>1, Clients, AtWork DEF FinishApprove, At, MemoryOK
  <2>2. Gate!Approve(process[e].q)
    BY <1>1 DEF FinishApprove, Gate!Approve
  <2>. QED BY <2>1, <2>2 DEF Gate!GateNext
<1>2. ASSUME Render PROVE Gate!GateNext
  <2>1. process["exporter"].q \in Quotes /\ process["exporter"].q \in approved
    BY <1>2, Exporting DEF Render, At, ExportPc
  <2>2. Gate!Store(process["exporter"].q)
    BY <1>2, <2>1 DEF Render, Gate!Store
  <2>. QED BY <2>1, <2>2 DEF Gate!GateNext
<1>3. ASSUME SendMail PROVE Gate!GateNext \/ UNCHANGED <<approved, stored, mailed>>
  <2>1. process["exporter"].q \in Quotes /\ process["exporter"].q \in stored
    BY <1>3, Exporting DEF SendMail, At, ExportPc
  <2>2. Gate!Mail(process["exporter"].q) \/ UNCHANGED <<approved, stored, mailed>>
    BY <1>3, <2>1 DEF SendMail, Gate!Mail
  <2>. QED BY <2>1, <2>2 DEF Gate!GateNext
<1>4. \/ UNCHANGED <<approved, stored, mailed>>
      \/ \E e \in Estimators : FinishApprove(e)
      \/ Render \/ SendMail
  BY RequestWrites, WorkerWrites, OtherWrites DEF QuotesNext, vars
<1>. QED BY <1>1, <1>2, <1>3, <1>4 DEF Gate!gateVars

\* The quote side implements ApprovalGate: nothing is stored or mailed for a quote that
\* no estimator approved, however often a message is delivered, wherever a process
\* dies, and whatever stale row is saved over a newer one.
THEOREM GateImplemented == QuotesSpec => NothingLeavesUnapproved
<1>1. QuotesInit => Gate!GateInit
  BY DEF QuotesInit, Gate!GateInit
<1>2. QInv /\ [QuotesNext]_vars => [Gate!GateNext]_(Gate!gateVars)
  BY GateSteps
<1>. QED BY <1>1, <1>2, QuotesInvariance, PTL
         DEF QuotesSpec, NothingLeavesUnapproved, Gate!GateSpec

(***************************************************************************)
(* Free-form lines.                                                        *)
(***************************************************************************)
\* What a request does to a line that is there.
LEMMA RequestOnLine ==
  ASSUME QInv, NEW e \in Estimators, RequestWritesLines(e), NEW l \in Lines, line[l] # NULL
  PROVE  line'[l] # NULL \/ FinishRemove(e) \/ line[l].kind.opening
<1>1. e \in Processes
  BY Clients
<1>2. CASE FinishRecalculate(e) \/ FinishRecord(e)
  <2>1. SaveAll(e, PricedRows(process[e].lines)) /\ process[e].lines \in [Lines -> LineRow \cup {NULL}]
    BY <1>1, <1>2, AtWork DEF FinishRecalculate, FinishRecord, Local
  <2>. QED BY <1>1, <2>1, SaveAllOK, AtWork DEF MemoryOK
<1>3. CASE InsertLine(e)
  <2>1. PICK k \in Lines \ used : \E row : line' = [line EXCEPT ![k] = row]
    BY <1>3 DEF InsertLine
  <2>. QED BY <2>1, LinesTyped DEF LineOK
<1>4. CASE PriceNewLine(e)
  <2> DEFINE k == process[e].l
  <2>1. k \in Lines /\ process[e].lines[k] \in LineRow
    BY <1>1, <1>4, AtWork DEF PriceNewLine, LinePc
  <2>2. Priced(process[e].lines[k]) # NULL
    BY <2>1, PricedOK, QuotesAssumption DEF QInv
  <2>3. line' = [line EXCEPT ![k] = Priced(process[e].lines[k])]
    BY <1>4 DEF PriceNewLine, Save
  <2>. QED BY <2>1, <2>2, <2>3, LinesTyped
<1>5. CASE FinishEdit(e)
  <2> DEFINE k == process[e].l
  <2> DEFINE old == process[e].lines[k]
  <2>1. k \in Lines /\ old \in LineRow
    BY <1>1, <1>5, AtWork DEF FinishEdit, LinePc
  <2>2. PICK cost \in Typed, flag \in BOOLEAN, kind \in Kinds, to \in Quotes :
          Save(e, k, Priced([old EXCEPT !.cost = cost, !.needs_review = flag,
                                        !.nought = FALSE, !.kind = kind, !.quote = to]))
    BY <1>5 DEF FinishEdit
  <2> DEFINE row == [old EXCEPT !.cost = cost, !.needs_review = flag, !.nought = FALSE,
                                !.kind = kind, !.quote = to]
  <2> HIDE DEF old, k
  <2>3. row \in LineRow
    BY <2>1, QuotesAssumption DEF LineRow
  <2>4. line' = [line EXCEPT ![k] = Priced(row)]
    BY <2>2 DEF Save
  <2> HIDE DEF row
  <2>5. Priced(row) # NULL
    BY <2>3, PricedOK, QuotesAssumption DEF QInv
  <2>. QED BY <2>1, <2>4, <2>5, LinesTyped
<1>. QED BY <1>2, <1>3, <1>4, <1>5 DEF RequestWritesLines

\* No generation, by button or by the pipeline, takes a free-form line, not even one
\* whose transaction deleted it while it was still tied to an opening.
THEOREM HandAddedLinesStay == QuotesSpec => HandAddedLinesAreKept
<1> DEFINE Kept(l) ==
       line[l] # NULL /\ ~line[l].kind.opening /\ line'[l] = NULL
         => \/ \E e \in Estimators : FinishRemove(e)
            \/ \E a \in Admins : FinishDestroy(a)
<1>1. ASSUME QInv, [QuotesNext]_vars, NEW l \in Lines PROVE Kept(l)
  <2>1. ASSUME NEW p \in Estimators \cup {"pricer"}, CommitGenerated(p) PROVE Kept(l)
    <3>1. p \in Processes
      BY Clients
    <3>2. \A k \in process[p].doomed : line[k] # NULL => line[k].kind.opening
      BY <1>1, <3>1, AtWork DEF MemoryOK
    <3>. QED BY <1>1, <2>1, <3>1, <3>2, GeneratedOK
  <2>2. ASSUME NEW e \in Estimators, RequestWritesLines(e) PROVE Kept(l)
    BY <1>1, <2>2, RequestOnLine
  <2>. QED BY <1>1, <2>1, <2>2, LineSteps
<1>2. QInv /\ [QuotesNext]_vars => [\A l \in Lines : Kept(l)]_vars
  BY <1>1
<1>. QED BY <1>2, QuotesInvariance, PTL DEF QuotesSpec, HandAddedLinesAreKept

(***************************************************************************)
(* One estimator at a time, beside the admins and the workers.  With two,  *)
(* a header edit may write an approval back.                               *)
(***************************************************************************)
OneEstimator == \A e, f \in Estimators : e = f

Writing == {"render", "saveExport"}

\* A header edit that holds a draft row is of a quote that still is a draft, and the
\* exporter writes no quote that has gone back to one.
ApprovalOK ==
  /\ \A e \in Estimators :
       process[e].pc = "patch" /\ IsDraft(process[e].row) =>
         /\ quote[process[e].q] # NULL => IsDraft(quote[process[e].q])
         /\ process["exporter"].pc \in Writing => process["exporter"].q # process[e].q
  /\ process["exporter"].pc \in Writing =>
       /\ process["exporter"].q \in used
       /\ quote[process["exporter"].q] # NULL => MayExport(quote[process["exporter"].q])

\* The memory of the one estimator moves only by a step of his, or when it dies.
LEMMA EstimatorMoves ==
  ASSUME QInv, [QuotesNext]_vars, NEW e \in Estimators, OneEstimator
  PROVE  Request(e) \/ Dies(e) \/ process'[e] = process[e]
<1> USE DEF Hold, Done, Step
<1>1. process \in [Processes -> Local] /\ e \in Processes
  BY Clients DEF QInv, QuotesTypeOK
<1>2. ASSUME NEW p \in Processes, p # e, NEW s, process' = [process EXCEPT ![p] = s]
      PROVE  process'[e] = process[e]
  BY <1>1, <1>2
<1>3. ASSUME NEW a \in Admins, BeginDestroy(a) \/ FinishDestroy(a)
      PROVE  process'[e] = process[e]
  <2>1. \E s : process' = [process EXCEPT ![a] = s]
    BY <1>3 DEF BeginDestroy, ReadQuote, FinishDestroy
  <2>. QED BY <1>2, <2>1, Clients, QuotesAssumption
<1>4. ASSUME Worker PROVE process'[e] = process[e]
  <2>1. \/ UNCHANGED process
        \/ \E s : process' = [process EXCEPT !["pricer"] = s]
        \/ \E s : process' = [process EXCEPT !["exporter"] = s]
    BY <1>4 DEF Worker, FindDraft, CreateDraft, DeleteGenerated, SelectKept, CommitGenerated, PriceFails,
                TakeExport, DropExport, Render, SaveExport, SendMail, AcknowledgeExport
  <2>2. "pricer" # e /\ "exporter" # e
    BY Clients
  <2>. QED BY <1>1, <2>1, <2>2, Clients
<1>5. ASSUME NEW p \in Processes, p # e, Dies(p) PROVE process'[e] = process[e]
  BY <1>1, <1>5 DEF Dies
<1>6. ASSUME NEW f \in Estimators, Request(f) PROVE Request(e)
  BY <1>6 DEF OneEstimator
<1>. QED BY <1>3, <1>4, <1>5, <1>6 DEF QuotesNext, SheetChanges, vars

\* And the exporter's only by one of its own.
LEMMA ExporterMoves ==
  ASSUME QInv, [QuotesNext]_vars
  PROVE  \/ TakeExport \/ Render
         \/ process'["exporter"] = process["exporter"]
         \/ process'["exporter"].pc \notin Writing
<1> USE DEF Hold, Done, Step
<1>1. process \in [Processes -> Local] /\ "exporter" \in Processes
  BY Clients DEF QInv, QuotesTypeOK
<1>2. ASSUME NEW e \in Estimators, Request(e) PROVE process'["exporter"] = process["exporter"]
  <2>1. UNCHANGED process \/ \E s : process' = [process EXCEPT ![e] = s]
    BY <1>2 DEF Request, CreateQuote, BeginPatch, FinishPatch, BeginRecalculate,
                FinishRecalculate, BeginApprove, FinishApprove, RequestExport, BeginGenerate,
                DeleteGenerated, SelectKept, CommitGenerated, BeginAdd, InsertLine, PriceNewLine, BeginEdit,
                FinishEdit, BeginRemove, FinishRemove, RequestPrice, BeginRecord, RecordPrice, FinishRecord,
                RequestFails, ReadQuote, ReadLine
  <2>. QED BY <1>1, <2>1, Clients
<1>3. ASSUME NEW a \in Admins, BeginDestroy(a) \/ FinishDestroy(a)
      PROVE  process'["exporter"] = process["exporter"]
  <2>1. \E s : process' = [process EXCEPT ![a] = s]
    BY <1>3 DEF BeginDestroy, ReadQuote, FinishDestroy
  <2>. QED BY <1>1, <2>1, Clients
<1>4. ASSUME Worker
      PROVE  \/ TakeExport \/ Render \/ process'["exporter"] = process["exporter"]
             \/ process'["exporter"].pc \notin Writing
  <2>1. \/ TakeExport \/ Render \/ UNCHANGED process
        \/ \E s : process' = [process EXCEPT !["pricer"] = s]
        \/ process'["exporter"].pc \in {"idle", "mail", "ack"}
    <3>1. Idle.pc = "idle"
      BY DEF Idle
    <3>2. process["exporter"] \in Local
      BY <1>1
    <3>3. \A pc : [process["exporter"] EXCEPT !.pc = pc].pc = pc
      BY <3>2 DEF Local
    <3>4. SaveExport => process'["exporter"].pc \in {"idle", "mail"}
      BY <1>1, <3>1, <3>3 DEF SaveExport
    <3>5. SendMail => process'["exporter"].pc = "ack"
      BY <1>1, <3>3 DEF SendMail
    <3>6. AcknowledgeExport => process'["exporter"].pc = "idle"
      BY <1>1, <3>1 DEF AcknowledgeExport
    <3>. QED BY <1>4, <3>4, <3>5, <3>6
             DEF Worker, FindDraft, CreateDraft, DeleteGenerated, SelectKept, CommitGenerated, PriceFails,
                 DropExport
  <2>. QED BY <1>1, <2>1 DEF Writing
<1>5. ASSUME NEW p \in Processes, Dies(p)
      PROVE  process'["exporter"] = process["exporter"] \/ process'["exporter"].pc = "idle"
  BY <1>1, <1>5 DEF Dies, Idle
<1>. QED BY <1>2, <1>3, <1>4, <1>5 DEF QuotesNext, SheetChanges, vars, Writing

LEMMA DraftOrNot ==
  ASSUME NEW row \in QuoteRow
  PROVE  IsDraft(row) <=> ~MayExport(row)
BY DEF QuoteRow, QuoteStatus, IsDraft, MayExport

LEMMA KeysGrow == [QuotesNext]_vars => used \subseteq used'
<1>1. \A p : CommitGenerated(p) => used \subseteq used'
  BY DEF CommitGenerated
<1>2. \A p : InsertLine(p) => used \subseteq used'
  BY DEF InsertLine
<1>3. ASSUME NEW e \in Estimators, Request(e) PROVE used \subseteq used'
  <2>1. UNCHANGED used \/ CreateQuote(e) \/ InsertLine(e) \/ CommitGenerated(e)
    BY <1>3 DEF Request, BeginPatch, FinishPatch, BeginRecalculate, FinishRecalculate,
                BeginApprove, FinishApprove, RequestExport, BeginGenerate, DeleteGenerated, SelectKept,
                BeginAdd, PriceNewLine, BeginEdit, FinishEdit, BeginRemove, FinishRemove,
                RequestPrice, BeginRecord, RecordPrice, FinishRecord, RequestFails, ReadQuote, ReadLine
  <2>. QED BY <1>1, <1>2, <2>1 DEF CreateQuote, Create
<1>4. \A a \in Admins : BeginDestroy(a) \/ FinishDestroy(a) => UNCHANGED used
  BY DEF BeginDestroy, ReadQuote, FinishDestroy
<1>5. ASSUME Worker PROVE used \subseteq used'
  <2>1. UNCHANGED used \/ CreateDraft \/ CommitGenerated("pricer")
    BY <1>5 DEF Worker, FindDraft, DeleteGenerated, SelectKept, PriceFails,
                TakeExport, DropExport, Render, SaveExport, SendMail, AcknowledgeExport
  <2>. QED BY <1>1, <2>1 DEF CreateDraft, Create
<1>. QED BY <1>3, <1>4, <1>5 DEF QuotesNext, SheetChanges, Dies, vars

\* What a step does to a quote that was created before.
LEMMA OnQuote ==
  ASSUME QInv, [QuotesNext]_vars, NEW q \in Quotes, q \in used
  PROVE  \/ quote'[q] = quote[q]
         \/ \E a \in Admins : FinishDestroy(a) /\ process[a].q = q /\ quote'[q] = NULL
         \/ \E e \in Estimators :
              /\ FinishPatch(e) /\ process[e].q = q /\ process[e].row \in QuoteRow
              /\ quote'[q] \in QuoteRow /\ quote'[q].status = process[e].row.status
         \/ \E e \in Estimators : FinishApprove(e) /\ quote'[q] \in QuoteRow /\ MayExport(quote'[q])
         \/ /\ SaveExport /\ process["exporter"].q = q
            /\ quote'[q] \in QuoteRow /\ MayExport(quote'[q])
<1> DEFINE Told ==
       \/ quote'[q] = quote[q]
       \/ \E a \in Admins : FinishDestroy(a) /\ process[a].q = q /\ quote'[q] = NULL
       \/ \E e \in Estimators :
            /\ FinishPatch(e) /\ process[e].q = q /\ process[e].row \in QuoteRow
            /\ quote'[q] \in QuoteRow /\ quote'[q].status = process[e].row.status
       \/ \E e \in Estimators : FinishApprove(e) /\ quote'[q] \in QuoteRow /\ MayExport(quote'[q])
       \/ /\ SaveExport /\ process["exporter"].q = q
          /\ quote'[q] \in QuoteRow /\ MayExport(quote'[q])
<1>1. quote \in [Quotes -> QuoteRow \cup {NULL}]
  BY DEF QInv, QuotesTypeOK
<1>2. ASSUME NEW k \in Quotes, NEW p, Create(p, k) PROVE quote'[q] = quote[q]
  BY <1>1, <1>2 DEF Create
<1>3. ASSUME NEW a \in Admins, FinishDestroy(a) PROVE Told
  BY <1>1, <1>3 DEF FinishDestroy
<1>4. ASSUME NEW e \in Estimators, FinishPatch(e) PROVE Told
  <2> DEFINE s == process[e]
  <2>1. s.q \in Quotes /\ s.row \in QuoteRow
    BY <1>4, Clients, AtWork DEF FinishPatch, At, MemoryOK
  <2>2. PICK amount \in Amounts : quote' = [quote EXCEPT ![s.q] = [s.row EXCEPT !.freight = amount]]
    BY <1>4 DEF FinishPatch
  <2>3. [s.row EXCEPT !.freight = amount] \in QuoteRow
        /\ [s.row EXCEPT !.freight = amount].status = s.row.status
    BY <2>1 DEF QuoteRow
  <2>4. CASE s.q = q
    <3>1. quote'[q] = [s.row EXCEPT !.freight = amount]
      BY <1>1, <2>2, <2>4
    <3>. QED BY <1>4, <2>1, <2>3, <2>4, <3>1
  <2>5. CASE s.q # q
    BY <1>1, <2>2, <2>5
  <2>. QED BY <2>4, <2>5
<1>5. ASSUME NEW k \in Quotes, quote[k] # NULL, NEW status \in {"APPROVED", "EXPORTED"},
             quote' = [quote EXCEPT ![k].status = status]
      PROVE  quote'[q] = quote[q] \/ (k = q /\ quote'[q] \in QuoteRow /\ MayExport(quote'[q]))
  <2>1. quote[k] \in QuoteRow
    BY <1>1, <1>5
  <2>2. [quote[k] EXCEPT !.status = status] \in QuoteRow
        /\ MayExport([quote[k] EXCEPT !.status = status])
    BY <2>1 DEF QuoteRow, QuoteStatus, MayExport
  <2>. QED BY <1>1, <1>5, <2>2
<1>6. ASSUME NEW e \in Estimators, FinishApprove(e) PROVE Told
  <2>1. process[e].q \in Quotes
    BY <1>6, Clients, AtWork DEF FinishApprove, At, MemoryOK
  <2>. QED BY <1>5, <1>6, <2>1 DEF FinishApprove
<1>7. ASSUME SaveExport PROVE Told
  <2>1. process["exporter"].q \in Quotes
    BY <1>7, Exporting DEF SaveExport, At, ExportPc
  <2>. QED BY <1>5, <1>7, <2>1 DEF SaveExport
<1>. QED BY <1>2, <1>3, <1>4, <1>6, <1>7, QuoteSteps
         DEF RequestWritesQuotes, CreateQuote, CreateDraft

\* The exporter's part of ApprovalOK.
LEMMA ExporterWritesNoDraft ==
  ASSUME QInv, ApprovalOK, [QuotesNext]_vars
  PROVE  process'["exporter"].pc \in Writing =>
           /\ process'["exporter"].q \in used'
           /\ quote'[process'["exporter"].q] # NULL => MayExport(quote'[process'["exporter"].q])
<1> DEFINE x == process["exporter"]
<1>. SUFFICES ASSUME process'["exporter"].pc \in Writing
              PROVE  /\ process'["exporter"].q \in used'
                     /\ quote'[process'["exporter"].q] # NULL
                          => MayExport(quote'[process'["exporter"].q])
  OBVIOUS
<1>0. process \in [Processes -> Local] /\ "exporter" \in Processes
  BY Clients DEF QInv, QuotesTypeOK
<1>1. CASE TakeExport
  <2>1. PICK q \in Quotes : /\ quote[q] # NULL /\ MayExport(quote[q])
                            /\ Hold("exporter", Reading(q, "render"))
    BY <1>1 DEF TakeExport
  <2>2. process'["exporter"].q = q
    BY <1>0, <2>1 DEF Hold, Reading, Idle
  <2>3. q \in used /\ UNCHANGED <<quote, used>>
    BY <1>1, <2>1 DEF QInv, QuoteOK, TakeExport
  <2>. QED BY <2>1, <2>2, <2>3
<1>2. CASE x.pc \in Writing /\ process'["exporter"].q = x.q
  <2>1. x.q \in Quotes /\ x.q \in used /\ (quote[x.q] # NULL => MayExport(quote[x.q]))
    BY <1>2, Exporting DEF ApprovalOK, Writing, ExportPc
  <2>2. ASSUME NEW e \in Estimators, FinishPatch(e), process[e].q = x.q,
               process[e].row \in QuoteRow, quote'[x.q].status = process[e].row.status
        PROVE  MayExport(quote'[x.q])
    <3>1. ~IsDraft(process[e].row)
      BY <1>2, <2>2 DEF ApprovalOK, FinishPatch, At
    <3>. QED BY <2>2, <3>1, DraftOrNot DEF MayExport
  <2>3. quote'[x.q] # NULL => MayExport(quote'[x.q])
    BY <2>1, <2>2, OnQuote
  <2>. QED BY <1>2, <2>1, <2>3, KeysGrow
<1>3. CASE Render
  <2>1. x.pc = "render" /\ process' = [process EXCEPT !["exporter"] = [x EXCEPT !.pc = "saveExport"]]
    BY <1>3 DEF Render, At, Step, Hold
  <2>2. process'["exporter"].q = x.q
    <3>1. x \in Local
      BY <1>0
    <3>2. [x EXCEPT !.pc = "saveExport"].q = x.q
      BY <3>1 DEF Local
    <3>. QED BY <1>0, <2>1, <3>2
  <2>. QED BY <1>2, <2>1, <2>2 DEF Writing
<1>. QED BY <1>1, <1>2, <1>3, ExporterMoves

\* Of the requests only the beginning of a header edit leads to one.
LEMMA OnlyBeginPatch ==
  ASSUME QInv, NEW e \in Estimators, Request(e), process'[e].pc = "patch"
  PROVE  BeginPatch(e)
<1> USE DEF Hold, Done, Step
<1>1. process \in [Processes -> Local] /\ e \in Processes
  BY Clients DEF QInv, QuotesTypeOK
<1>2. process[e] \in Local
  BY <1>1
<1>3. ASSUME NEW s, process' = [process EXCEPT ![e] = s] PROVE s.pc = "patch"
  BY <1>1, <1>3
<1>4. Idle.pc = "idle" /\ "idle" # "patch"
  BY DEF Idle
<1>5. ASSUME FinishPatch(e) \/ FinishRecalculate(e) \/ FinishApprove(e) \/ CommitGenerated(e)
             \/ PriceNewLine(e) \/ FinishEdit(e) \/ FinishRemove(e) \/ FinishRecord(e)
             \/ RequestFails(e)
      PROVE  FALSE
  <2>1. process' = [process EXCEPT ![e] = Idle]
    BY <1>5 DEF FinishPatch, FinishRecalculate, FinishApprove, CommitGenerated, PriceNewLine,
                FinishEdit, FinishRemove, FinishRecord, RequestFails
  <2>. QED BY <1>3, <1>4, <2>1
<1>6. ASSUME CreateQuote(e) \/ RequestExport(e) \/ RequestPrice(e) PROVE FALSE
  BY <1>6 DEF CreateQuote, RequestExport, RequestPrice, Free
<1>7. ASSUME NEW q, NEW pc, ReadQuote(e, q, pc) PROVE pc = "patch"
  <2>1. Reading(q, pc).pc = pc
    BY DEF Reading, Idle
  <2>. QED BY <1>3, <1>7, <2>1 DEF ReadQuote
<1>8. ASSUME NEW l, NEW pc, ReadLine(e, l, pc) PROVE pc = "patch"
  <2>1. ReadingLine(l, pc).pc = pc
    BY DEF ReadingLine, Idle
  <2>. QED BY <1>3, <1>8, <2>1 DEF ReadLine
<1>9. ASSUME BeginRecalculate(e) PROVE FALSE
  <2>1. \A q : [Reading(q, "recalculate") EXCEPT !.lines = RowsOf(q)].pc = "recalculate"
    BY DEF Reading, Idle
  <2>. QED BY <1>3, <1>9, <2>1 DEF BeginRecalculate
<1>10. ASSUME DeleteGenerated(e) PROVE FALSE
  <2>1. \A d : [process[e] EXCEPT !.pc = "select", !.doomed = d].pc = "select"
    BY <1>2 DEF Local
  <2>. QED BY <1>3, <1>10, <2>1 DEF DeleteGenerated
<1>12. ASSUME SelectKept(e) PROVE FALSE
  <2>1. \A d : [process[e] EXCEPT !.pc = "commit", !.lines = d].pc = "commit"
    BY <1>2 DEF Local
  <2>. QED BY <1>3, <1>12, <2>1 DEF SelectKept
<1>13. ASSUME RecordPrice(e) PROVE FALSE
  <2>1. \A d : [process[e] EXCEPT !.pc = "assemble", !.lines = d].pc = "assemble"
    BY <1>2 DEF Local
  <2>. QED BY <1>3, <1>13, <2>1 DEF RecordPrice
<1>11. ASSUME InsertLine(e) PROVE FALSE
  <2>1. PICK q, l, row : Hold(e, [Idle EXCEPT !.pc = "priceNew", !.q = q, !.l = l,
                                                !.lines[l] = row])
    <3>1. PICK l \in Lines \ used, cost \in Typed, kind \in Kinds :
             LET row == [quote |-> process[e].q, kind |-> kind, cost |-> cost,
                         needs_review |-> FALSE, nought |-> FALSE]
             IN Hold(e, [Idle EXCEPT !.pc = "priceNew", !.q = process[e].q, !.l = l,
                                     !.lines[l] = row])
      BY <1>11 DEF InsertLine
    <3>. QED BY <3>1
  <2> DEFINE s == [Idle EXCEPT !.pc = "priceNew", !.q = q, !.l = l, !.lines[l] = row]
  <2>2. s.pc = "priceNew"
    BY DEF Idle
  <2> HIDE DEF s
  <2>3. process' = [process EXCEPT ![e] = s]
    BY <2>1 DEF s
  <2>. QED BY <1>3, <2>2, <2>3
<1>. QED BY <1>5, <1>6, <1>7, <1>8, <1>9, <1>10, <1>11, <1>12, <1>13
         DEF Request, BeginApprove, BeginGenerate, BeginAdd, BeginEdit, BeginRemove, BeginRecord

\* The estimator's part of ApprovalOK.
LEMMA EditHoldsTheStatus ==
  ASSUME QInv, ApprovalOK, [QuotesNext]_vars, OneEstimator, NEW e \in Estimators,
         process'[e].pc = "patch", IsDraft(process'[e].row)
  PROVE  /\ quote'[process'[e].q] # NULL => IsDraft(quote'[process'[e].q])
         /\ process'["exporter"].pc \in Writing => process'["exporter"].q # process'[e].q
<1> DEFINE x == process["exporter"]
<1>0. process \in [Processes -> Local] /\ e \in Processes /\ "exporter" \in Processes
      /\ e # "exporter" /\ quote \in [Quotes -> QuoteRow \cup {NULL}]
  BY Clients DEF QInv, QuotesTypeOK
<1>1. CASE BeginPatch(e)
  <2>1. PICK q \in Quotes : /\ quote[q] # NULL /\ UNCHANGED quote
                            /\ Hold(e, Reading(q, "patch"))
    BY <1>1 DEF BeginPatch, ReadQuote
  <2>2. process'[e].q = q /\ process'[e].row = quote[q]
    BY <1>0, <2>1 DEF Hold, Reading, Idle
  <2>3. process'["exporter"] = x
    BY <1>0, <2>1 DEF Hold
  <2>4. quote[q] \in QuoteRow /\ IsDraft(quote[q])
    BY <1>0, <2>1, <2>2
  <2>5. x.pc \in Writing => x.q # q
    BY <2>1, <2>4, DraftOrNot DEF ApprovalOK
  <2>. QED BY <2>1, <2>2, <2>3, <2>4, <2>5
<1>2. CASE process'[e] = process[e]
  <2> DEFINE q == process[e].q
  <2>1. /\ process[e].pc = "patch" /\ q \in Quotes /\ q \in used
        /\ quote[q] # NULL => quote[q] \in QuoteRow /\ IsDraft(quote[q])
        /\ x.pc \in Writing => x.q # q
    BY <1>0, <1>2, AtWork DEF MemoryOK, ApprovalOK
  <2>2. ASSUME NEW f \in Estimators, FinishPatch(f) \/ FinishApprove(f) PROVE FALSE
    <3>1. f = e
      BY DEF OneEstimator
    <3>2. process'[e] = Idle
      BY <1>0, <2>2, <3>1 DEF FinishPatch, FinishApprove, Done, Hold
    <3>. QED BY <3>2 DEF Idle
  <2>3. ASSUME SaveExport PROVE x.q # q
    BY <2>1, <2>3 DEF SaveExport, At, Writing
  <2>4. quote'[q] = quote[q] \/ quote'[q] = NULL
    BY <2>1, <2>2, <2>3, OnQuote
  <2>5. process'["exporter"].pc \in Writing => process'["exporter"].q # q
    <3>1. CASE TakeExport
      <4>1. PICK k \in Quotes : /\ quote[k] # NULL /\ MayExport(quote[k])
                                /\ Hold("exporter", Reading(k, "render"))
        BY <3>1 DEF TakeExport
      <4>2. process'["exporter"].q = k
        BY <1>0, <4>1 DEF Hold, Reading, Idle
      <4>. QED BY <2>1, <4>1, <4>2, DraftOrNot
    <3>2. CASE Render
      <4>1. x.pc \in Writing /\ x \in Local
        BY <1>0, <3>2 DEF Render, At, Writing
      <4>2. process'["exporter"] = [x EXCEPT !.pc = "saveExport"]
        BY <1>0, <3>2 DEF Render, Step, Hold
      <4>3. process'["exporter"].q = x.q
        BY <4>1, <4>2 DEF Local
      <4>. QED BY <2>1, <4>1, <4>3
    <3>. QED BY <2>1, <3>1, <3>2, ExporterMoves
  <2>. QED BY <1>2, <2>1, <2>4, <2>5
<1>3. CASE Dies(e)
  <2>1. process'[e] = Idle
    BY <1>0, <1>3 DEF Dies, Done, Hold
  <2>. QED BY <2>1 DEF Idle
<1>. QED BY <1>1, <1>2, <1>3, EstimatorMoves, OnlyBeginPatch

LEMMA ApprovalStep ==
  ASSUME OneEstimator
  PROVE  QInv /\ ApprovalOK /\ [QuotesNext]_vars => ApprovalOK'
BY ExporterWritesNoDraft, EditHoldsTheStatus DEF ApprovalOK

LEMMA ApprovalInit == QuotesInit => ApprovalOK
<1>1. \A p \in Processes : QuotesInit => process[p].pc = "idle"
  BY DEF QuotesInit, Idle
<1>. QED BY <1>1, Clients DEF ApprovalOK, Writing

\* With one estimator at a time an approval stays, through exports, crashes, header
\* edits and deletions: an approved quote goes only by a deletion that began before.
THEOREM ApprovalStays ==
  ASSUME OneEstimator
  PROVE  QuotesSpec => ApprovalIsNeverWithdrawn
<1> DEFINE Stays(q) ==
       quote[q] # NULL /\ MayExport(quote[q]) =>
         \/ quote'[q] # NULL /\ MayExport(quote'[q])
         \/ \E a \in Admins : FinishDestroy(a) /\ process[a].q = q /\ IsDraft(process[a].row)
<1>1. ASSUME QInv, ApprovalOK, [QuotesNext]_vars, NEW q \in Quotes,
             quote[q] # NULL, MayExport(quote[q])
      PROVE  Stays(q)
  <2>1. q \in used /\ quote[q] \in QuoteRow /\ quote \in [Quotes -> QuoteRow \cup {NULL}]
    BY <1>1 DEF QInv, QuotesTypeOK, QuoteOK
  <2>2. ASSUME NEW e \in Estimators, FinishPatch(e), process[e].q = q,
               process[e].row \in QuoteRow, quote'[q].status = process[e].row.status
        PROVE  MayExport(quote'[q])
    <3>1. ~IsDraft(process[e].row)
      BY <1>1, <2>1, <2>2, DraftOrNot DEF ApprovalOK, FinishPatch, At
    <3>. QED BY <2>2, <3>1, DraftOrNot DEF MayExport
  <2>3. NULL \notin QuoteRow
    BY QuotesAssumption
  <2>4. ASSUME NEW a \in Admins, FinishDestroy(a) PROVE IsDraft(process[a].row)
    BY <1>1, <2>4, Clients, AtWork DEF FinishDestroy, At, MemoryOK
  <2>. QED BY <1>1, <2>1, <2>2, <2>3, <2>4, OnQuote
<1>2. QInv /\ ApprovalOK /\ [QuotesNext]_vars => [\A q \in Quotes : Stays(q)]_vars
  BY <1>1
<1>. QED BY <1>2, QuotesInvariance, ApprovalInit, ApprovalStep, PTL
         DEF QuotesSpec, ApprovalIsNeverWithdrawn

(***************************************************************************)
(* Prices.                                                                 *)
(***************************************************************************)
\* What a request that gives a line another price has read of it.
LEMMA RequestOnCost ==
  ASSUME QInv, NEW e \in Estimators, RequestWritesLines(e), NEW l \in Lines,
         line[l] # NULL, line'[l] # NULL, line'[l].cost # line[l].cost
  PROVE  \/ process[e].l = l /\ FinishEdit(e)
         \/ /\ FinishRecalculate(e) \/ FinishRecord(e) \/ PriceNewLine(e)
            /\ process[e].lines[l] # NULL
            /\ process[e].lines[l].cost > 0 => line'[l].cost = process[e].lines[l].cost
<1>1. e \in Processes /\ process[e].lines \in [Lines -> LineRow \cup {NULL}]
  BY Clients, AtWork DEF Local
<1>2. CASE FinishRecalculate(e) \/ FinishRecord(e)
  <2>1. SaveAll(e, PricedRows(process[e].lines))
    BY <1>2 DEF FinishRecalculate, FinishRecord
  <2>. QED BY <1>1, <1>2, <2>1, SaveAllOK
<1>3. CASE PriceNewLine(e)
  <2> DEFINE k == process[e].l
  <2> DEFINE old == process[e].lines[k]
  <2>1. k \in Lines /\ old \in LineRow
    BY <1>1, <1>3, AtWork DEF PriceNewLine, LinePc
  <2>2. line' = [line EXCEPT ![k] = Priced(old)]
    BY <1>3 DEF PriceNewLine, Save
  <2>3. k = l /\ line'[l] = Priced(old)
    BY <2>1, <2>2, LinesTyped
  <2>. QED BY <1>3, <2>1, <2>3, PricedOK, QuotesAssumption DEF QInv
<1>4. CASE FinishEdit(e)
  <2>1. PICK row : Save(e, process[e].l, row)
    BY <1>4 DEF FinishEdit
  <2>. QED BY <1>4, <2>1, LinesTyped DEF Save
<1>5. CASE InsertLine(e)
  <2>1. PICK k \in Lines \ used : \E row : line' = [line EXCEPT ![k] = row]
    BY <1>5 DEF InsertLine
  <2>. QED BY <2>1, LinesTyped DEF LineOK
<1>6. CASE FinishRemove(e)
  BY <1>6, LinesTyped DEF FinishRemove, Save
<1>. QED BY <1>2, <1>3, <1>4, <1>5, <1>6 DEF RequestWritesLines

\* No pricing sources a price anew that it has read: what it puts in the place of a
\* price is the one it selected earlier, or a sheet's where it selected none, for any
\* number of estimators beside the workers.
THEOREM PricesAreKept == QuotesSpec => NoSilentRepricing
<1> DEFINE Read(p, l) ==
       /\ process[p].lines[l] # NULL
       /\ process[p].lines[l].cost \in {0, line'[l].cost}
       /\ \/ FinishRecalculate(p) \/ CommitGenerated(p)
          \/ FinishRecord(p) \/ PriceNewLine(p)
<1> DEFINE Kept(l) ==
       line[l] # NULL /\ line'[l] # NULL /\ line[l].cost > 0 /\ line'[l].cost # line[l].cost
         => \E p \in Processes :
              \/ process[p].l = l /\ (FinishEdit(p) \/ FinishRecord(p))
              \/ Read(p, l)
<1>1. ASSUME QInv, [QuotesNext]_vars, NEW l \in Lines,
             line[l] # NULL, line'[l] # NULL, line'[l].cost # line[l].cost
      PROVE  \E p \in Processes :
               \/ process[p].l = l /\ (FinishEdit(p) \/ FinishRecord(p))
               \/ Read(p, l)
  <2>1. ASSUME NEW p \in Processes, process[p].lines[l] # NULL,
               process[p].lines[l].cost > 0 => line'[l].cost = process[p].lines[l].cost
        PROVE  process[p].lines[l].cost \in {0, line'[l].cost}
    <3>1. process[p].lines[l] \in LineRow
      BY <1>1, <2>1, AtWork DEF Local
    <3>2. process[p].lines[l].cost \in Nat
      BY <3>1, QuotesAssumption DEF LineRow, Prices
    <3>. QED BY <2>1, <3>2
  <2>2. CASE \E e \in Estimators : RequestWritesLines(e)
    <3>1. PICK e \in Estimators : RequestWritesLines(e)
      BY <2>2
    <3>. QED BY <1>1, <2>1, <3>1, RequestOnCost, Clients
  <2>3. CASE \E p \in Estimators \cup {"pricer"} : CommitGenerated(p)
    <3>1. PICK p \in Processes : CommitGenerated(p)
      BY <2>3, Clients
    <3>2. l \in used
      BY <1>1, LinesTyped DEF LineOK
    <3>3. /\ process[p].lines[l] # NULL
          /\ process[p].lines[l].cost > 0 => line'[l].cost = process[p].lines[l].cost
      BY <1>1, <3>1, <3>2, GeneratedOK
    <3>. QED BY <2>1, <3>1, <3>3
  <2>4. ASSUME NEW a \in Admins, FinishDestroy(a) PROVE FALSE
    BY <1>1, <2>4 DEF FinishDestroy
  <2>. QED BY <1>1, <2>2, <2>3, <2>4, LineSteps
<1>2. QInv /\ [QuotesNext]_vars => [\A l \in Lines : Kept(l)]_vars
  BY <1>1
<1>. QED BY <1>2, QuotesInvariance, PTL DEF QuotesSpec, NoSilentRepricing
=============================================================================
