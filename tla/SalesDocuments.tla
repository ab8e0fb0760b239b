--------------------------- MODULE SalesDocuments ----------------------------
(***************************************************************************)
(* The life of sales documents: internal/modules/sales (app/service.go,    *)
(* pg/pg.go), the number series of internal/platform/numbering and the     *)
(* tables of migrations/0019 and 0053.                                     *)
(*                                                                         *)
(* A request runs READ COMMITTED transactions.  Nothing locks a document:  *)
(* its status, its lines and its sources are read by separate SELECTs and  *)
(* the writes that follow name rows by id alone, so each read is a step    *)
(* and all writes of a transaction are one step, its commit.  A conversion *)
(* is several transactions: one creates the target, one adds each line,    *)
(* the last records the delivery challans it bills.                        *)
(*                                                                         *)
(* Abstractions: prices, taxes and parties are left out, so a journal is   *)
(* the quantities it was computed from, by line; the stock legs are a      *)
(* line's net quantity out of the warehouse (StockLedger has what one leg  *)
(* does, its refusal is an End here); issuers are outside Spain, whose     *)
(* invoice chain adds a check of its own; one numbering period.            *)
(***************************************************************************)
EXTENDS Integers, FiniteSets

CONSTANTS
    Docs,        \* ids of sales_documents rows
    LineIds,     \* ids of sales_document_lines rows
    Branches,    \* the branches of one organisation
    Txs,         \* requests that can be at work at once
    Types,       \* the document types in use
    Quantities,  \* quantities users type in
    None         \* no document, no line, no request, no branch

AllTypes == {"QUOTATION", "PROFORMA_INVOICE", "SALES_ORDER", "DELIVERY_CHALLAN",
             "TAX_INVOICE", "POS_INVOICE", "CREDIT_NOTE", "DEBIT_NOTE",
             "SALES_RETURN", "RECURRING_INVOICE"}

ASSUME TypesAssumption == Types \subseteq AllTypes
ASSUME LinesAssumption == IsFiniteSet(LineIds)
ASSUME QuantitiesAssumption == Quantities \subseteq Nat \ {0}
ASSUME NoneAssumption == None \notin Docs \cup LineIds \cup Branches \cup Txs \cup Types

VARIABLES
    doc,       \* sales_documents
    line,      \* sales_document_lines, with the line each was copied from
    link,      \* sales_document_sources: <<invoice, challan>>
    counter,   \* document_number_counters.next_number, by branch and type
    locked,    \* the request whose open transaction holds the counter row
    out,       \* stock moved out less stock moved in for a line
    booked,    \* what the ledger holds for a line
    journal,   \* the latest sale journal of a document, by line
    queued,    \* documents with an einvoice.generate event
    work,      \* what each request is doing and what it has read
    contended  \* history: documents two requests worked on at once

vars == <<doc, line, link, counter, locked, out, booked, journal, queued, work,
          contended>>

StockAffecting == {"TAX_INVOICE", "POS_INVOICE", "DELIVERY_CHALLAN", "SALES_RETURN"}
RevenueAffecting == {"TAX_INVOICE", "POS_INVOICE", "CREDIT_NOTE", "DEBIT_NOTE",
                     "SALES_RETURN", "RECURRING_INVOICE"}
ReducesReceivable == {"CREDIT_NOTE", "SALES_RETURN"}
Billing == {"TAX_INVOICE", "POS_INVOICE"}

\* Goods leave for a sale and come back for a return.
StockSign(type) ==
    IF type \notin StockAffecting THEN 0 ELSE IF type = "SALES_RETURN" THEN -1 ELSE 1

RevenueSign(type) ==
    IF type \notin RevenueAffecting THEN 0 ELSE IF type \in ReducesReceivable THEN -1 ELSE 1

\* Quantities by line; 0 for a line that is not there.
ByLine == [LineIds -> Nat]
NoLines == [l \in LineIds |-> 0]

Document == [status : {"NONE", "DRAFT", "FINALIZED", "CANCELLED"},
             type : Types \cup {None}, branch : Branches \cup {None}, number : Nat]
Line == [at : {"new", "live", "deleted"}, doc : Docs \cup {None}, number : Nat,
         qty : Nat, of : LineIds \cup {None}]

Conversions == {"ConvertDocument", "ConvertDeliveryNotes"}
Operations == {"none", "CreateDocument", "AddLine", "UpdateLine", "DeleteLine",
               "FinalizeDocument", "CancelDocument"} \cup Conversions

\* A request: its operation, the statement it is at, the rows it names and what
\* it has read of them.  todo: the lines a conversion has still to copy.
Request ==
    [op : Operations,
     at : {"idle", "billed", "number", "insert", "copy", "lines", "sources", "write"},
     doc : Docs \cup {None}, line : LineIds \cup {None}, qty : Nat, number : Nat,
     type : Types \cup {None}, branch : Branches \cup {None},
     seen : ByLine, linked : BOOLEAN, sources : SUBSET Docs, todo : ByLine]

Idle == [op |-> "none", at |-> "idle", doc |-> None, line |-> None, qty |-> 0,
         number |-> 0, type |-> None, branch |-> None, seen |-> NoLines,
         linked |-> FALSE, sources |-> {}, todo |-> NoLines]

TypeOK ==
    /\ doc \in [Docs -> Document]
    /\ line \in [LineIds -> Line]
    /\ link \in SUBSET (Docs \X Docs)
    /\ counter \in [Branches \X Types -> Nat \ {0}]
    /\ locked \in [Branches \X Types -> Txs \cup {None}]
    /\ out \in [LineIds -> Int]
    /\ booked \in [LineIds -> Int]
    /\ journal \in [Docs -> ByLine]
    /\ queued \in SUBSET Docs
    /\ work \in [Txs -> Request]
    /\ contended \in SUBSET Docs

Init ==
    /\ doc = [d \in Docs |-> [status |-> "NONE", type |-> None, branch |-> None, number |-> 0]]
    /\ line = [l \in LineIds |-> [at |-> "new", doc |-> None, number |-> 0, qty |-> 0, of |-> None]]
    /\ link = {}
    /\ counter = [s \in Branches \X Types |-> 1]
    /\ locked = [s \in Branches \X Types |-> None]
    /\ out = [l \in LineIds |-> 0]
    /\ booked = [l \in LineIds |-> 0]
    /\ journal = [d \in Docs |-> NoLines]
    /\ queued = {}
    /\ work = [t \in Txs |-> Idle]
    /\ contended = {}

LinesOf(d) == {l \in LineIds : line[l].at = "live" /\ line[l].doc = d}
QtyOf(d) == [l \in LineIds |-> IF l \in LinesOf(d) THEN line[l].qty ELSE 0]
HasSources(d) == \E s \in Docs : <<d, s>> \in link
Billed(s) == \E d \in Docs : <<d, s>> \in link

-----------------------------------------------------------------------------
(* Requests begin *)

\* The transaction that works on a document has read its status.
Open(t, w) ==
    /\ work[t].at = "idle"
    /\ work' = [work EXCEPT ![t] = w]
    /\ contended' = IF \E u \in Txs : work[u].doc = w.doc /\ w.doc # None
                    THEN contended \cup {w.doc} ELSE contended
    /\ UNCHANGED <<doc, line, link, counter, locked, out, booked, journal, queued>>

CreateDocument(t) ==
    \E ty \in Types, b \in Branches :
        Open(t, [Idle EXCEPT !.op = "CreateDocument", !.at = "number",
                             !.type = ty, !.branch = b])

AddLine(t) ==
    \E d \in Docs, q \in Quantities :
        /\ doc[d].status = "DRAFT"
        /\ Open(t, [Idle EXCEPT !.op = "AddLine", !.at = "lines", !.doc = d, !.qty = q])

\* The line is read here too; what the code keeps of it never changes.
UpdateLine(t) ==
    \E d \in Docs : \E l \in LinesOf(d), q \in Quantities :
        /\ doc[d].status = "DRAFT"
        /\ Open(t, [Idle EXCEPT !.op = "UpdateLine", !.at = "write", !.doc = d,
                                !.line = l, !.qty = q])

\* Variant: DeleteLine does not look at the document's status.
DeleteLineOfAny(t) ==
    \E d \in Docs : \E l \in LinesOf(d) :
        Open(t, [Idle EXCEPT !.op = "DeleteLine", !.at = "write", !.doc = d, !.line = l])

DeleteLine(t) ==
    \E d \in Docs : \E l \in LinesOf(d) :
        /\ doc[d].status = "DRAFT"
        /\ Open(t, [Idle EXCEPT !.op = "DeleteLine", !.at = "write", !.doc = d, !.line = l])

FinalizeDocument(t) ==
    \E d \in Docs :
        /\ doc[d].status = "DRAFT"
        /\ Open(t, [Idle EXCEPT !.op = "FinalizeDocument", !.at = "lines", !.doc = d])

CancelDocument(t) ==
    \E d \in Docs :
        /\ doc[d].status = "FINALIZED"
        /\ Open(t, [Idle EXCEPT !.op = "CancelDocument", !.at = "lines", !.doc = d])

\* Every line at its own quantity, or those the caller names at no more than it.
ConvertDocument(t) ==
    \E s \in Docs, ty \in Types :
        /\ doc[s].status = "FINALIZED"
        /\ \E copies \in [LineIds -> Quantities \cup {0}] :
            /\ \A l \in LineIds : copies[l] <= QtyOf(s)[l]
            /\ Open(t, [Idle EXCEPT !.op = "ConvertDocument", !.at = "number", !.type = ty,
                            !.branch = doc[s].branch, !.sources = {s}, !.todo = copies])

\* The notes are read one after the other in the code; a note cancelled between
\* two reads ends as one cancelled after the last.
ConvertDeliveryNotes(t) ==
    \E S \in SUBSET Docs \ {{}} : \E first \in S :
        /\ \A s \in S : doc[s].status = "FINALIZED" /\ doc[s].type = "DELIVERY_CHALLAN"
        /\ "TAX_INVOICE" \in Types
        /\ Open(t, [Idle EXCEPT !.op = "ConvertDeliveryNotes", !.at = "billed",
                        !.type = "TAX_INVOICE", !.branch = doc[first].branch, !.sources = S,
                        !.todo = [l \in LineIds |-> IF line[l].doc \in S THEN QtyOf(line[l].doc)[l] ELSE 0]])

-----------------------------------------------------------------------------
(* Reads *)

Goes(t, w) ==
    /\ work' = [work EXCEPT ![t] = w]
    /\ UNCHANGED <<doc, line, link, counter, locked, out, booked, journal, queued, contended>>

BilledSources(t) ==
    /\ work[t].at = "billed"
    /\ \A s \in work[t].sources : ~Billed(s)
    /\ Goes(t, [work[t] EXCEPT !.at = "number"])

\* Variant: the event is enqueued when the lines are read, outside the transaction.
ReadLinesEnqueueing(t) ==
    LET w == work[t] IN
    /\ w.at = "lines"
    /\ work' = [work EXCEPT ![t] = IF w.op \in {"FinalizeDocument", "CancelDocument"}
                    THEN [w EXCEPT !.at = "sources", !.seen = QtyOf(w.doc)]
                    ELSE [w EXCEPT !.at = "write", !.number = Cardinality(LinesOf(w.doc)) + 1]]
    /\ queued' = IF w.op = "FinalizeDocument" /\ doc[w.doc].type = "TAX_INVOICE"
                 THEN queued \cup {w.doc} ELSE queued
    /\ UNCHANGED <<doc, line, link, counter, locked, out, booked, journal, contended>>

ReadLines(t) ==
    LET w == work[t] IN
    /\ w.at = "lines"
    /\ \/ /\ w.op \in {"AddLine"} \cup Conversions
          /\ Goes(t, [w EXCEPT !.at = "write", !.number = Cardinality(LinesOf(w.doc)) + 1])
       \/ /\ w.op \in {"FinalizeDocument", "CancelDocument"}
          /\ w.op = "FinalizeDocument" => LinesOf(w.doc) # {}
          /\ Goes(t, [w EXCEPT !.at = "sources", !.seen = QtyOf(w.doc)])

\* Variant: the sources are released before the cancellation asks for them.
ReadSourcesOfFinalize(t) ==
    /\ work[t].at = "sources"
    /\ Goes(t, [work[t] EXCEPT !.at = "write",
                    !.linked = work[t].op = "FinalizeDocument" /\ HasSources(work[t].doc)])

ReadSources(t) ==
    /\ work[t].at = "sources"
    /\ Goes(t, [work[t] EXCEPT !.at = "write", !.linked = HasSources(work[t].doc)])

-----------------------------------------------------------------------------
(* Creating a document: the number and the row in one transaction *)

\* Variant: the number is allocated in a transaction of its own, before the document's.
TakeNumberForGood(t) ==
    LET w == work[t]  s == <<w.branch, w.type>> IN
    /\ w.at = "number"
    /\ counter' = [counter EXCEPT ![s] = @ + 1]
    /\ \E d \in Docs :
        /\ doc[d].status = "NONE" /\ \A u \in Txs : work[u].doc # d
        /\ work' = [work EXCEPT ![t] = [w EXCEPT !.at = "insert", !.doc = d,
                                                 !.number = counter[s]]]
    /\ UNCHANGED <<doc, line, link, locked, out, booked, journal, queued, contended>>

\* INSERT ... ON CONFLICT DO UPDATE: the counter row is held to the end.
TakeNumber(t) ==
    LET w == work[t]  s == <<w.branch, w.type>> IN
    /\ w.at = "number"
    /\ locked[s] = None
    /\ locked' = [locked EXCEPT ![s] = t]
    /\ \E d \in Docs :
        /\ doc[d].status = "NONE" /\ \A u \in Txs : work[u].doc # d
        /\ work' = [work EXCEPT ![t] = [w EXCEPT !.at = "insert", !.doc = d,
                                                 !.number = counter[s]]]
    /\ UNCHANGED <<doc, line, link, counter, out, booked, journal, queued, contended>>

\* The printed number does not name the branch and is unique in the organisation.
NumberIsFree(ty, n) == \A d \in Docs : ~(doc[d].type = ty /\ doc[d].number = n)

InsertDocument(t) ==
    LET w == work[t]  s == <<w.branch, w.type>> IN
    /\ w.at = "insert"
    /\ NumberIsFree(w.type, w.number)
    /\ doc' = [doc EXCEPT ![w.doc] = [status |-> "DRAFT", type |-> w.type,
                                      branch |-> w.branch, number |-> w.number]]
    /\ counter' = [counter EXCEPT ![s] = w.number + 1]
    /\ locked' = [locked EXCEPT ![s] = None]
    /\ work' = [work EXCEPT ![t] = IF w.op = "CreateDocument" THEN Idle
                                   ELSE [w EXCEPT !.at = "copy", !.number = 0]]
    /\ UNCHANGED <<line, link, out, booked, journal, queued, contended>>

-----------------------------------------------------------------------------
(* Commits of the other transactions *)

\* A conversion calls AddLine for the next line: a new transaction each.
CopyLine(t) ==
    LET w == work[t] IN
    /\ w.at = "copy"
    /\ doc[w.doc].status = "DRAFT"
    /\ \E l \in LineIds :
        /\ w.todo[l] > 0
        /\ Goes(t, [w EXCEPT !.at = "lines", !.line = l, !.qty = w.todo[l]])

\* UNIQUE (sales_document_id, line_number) refuses a number that is in use.
InsertLine(t) ==
    LET w == work[t] IN
    /\ w.at = "write" /\ w.op \in {"AddLine"} \cup Conversions
    /\ \A l \in LinesOf(w.doc) : line[l].number # w.number
    /\ \E l \in LineIds :
        /\ line[l].at = "new"
        /\ line' = [line EXCEPT ![l] = [at |-> "live", doc |-> w.doc, number |-> w.number,
                                        qty |-> w.qty, of |-> w.line]]
    /\ work' = [work EXCEPT ![t] =
                    IF w.op = "AddLine" THEN Idle
                    ELSE [w EXCEPT !.at = "copy", !.line = None, !.qty = 0, !.number = 0,
                                   !.todo[w.line] = 0]]
    /\ UNCHANGED <<doc, link, counter, locked, out, booked, journal, queued, contended>>

\* UpdateLine and DeleteLine find the row by its id: ErrNotFound once it is gone.
ChangeLine(t) ==
    LET w == work[t] IN
    /\ w.at = "write" /\ w.op \in {"UpdateLine", "DeleteLine"}
    /\ line[w.line].at = "live"
    /\ line' = IF w.op = "UpdateLine" THEN [line EXCEPT ![w.line].qty = w.qty]
                                      ELSE [line EXCEPT ![w.line].at = "deleted"]
    /\ work' = [work EXCEPT ![t] = Idle]
    /\ UNCHANGED <<doc, link, counter, locked, out, booked, journal, queued, contended>>

\* Only the conversion of challans to an invoice records them, after its last line.
LinkSources(t) ==
    LET w == work[t] IN
    /\ w.at = "copy" /\ w.todo = NoLines
    /\ w.type \in Billing /\ \A s \in w.sources : doc[s].type = "DELIVERY_CHALLAN"
    /\ \A s \in w.sources : ~Billed(s)
    /\ link' = link \cup ({w.doc} \X w.sources)
    /\ work' = [work EXCEPT ![t] = Idle]
    /\ UNCHANGED <<doc, line, counter, locked, out, booked, journal, queued, contended>>

\* A document moves stock unless the challans it bills already did.
StockOf(w, l) == IF w.linked THEN 0 ELSE StockSign(doc[w.doc].type) * w.seen[l]

CommitFinalize(t) ==
    LET w == work[t]  ty == doc[w.doc].type IN
    /\ w.at = "write" /\ w.op = "FinalizeDocument"
    /\ out' = [l \in LineIds |-> out[l] + StockOf(w, l)]
    /\ booked' = [l \in LineIds |-> booked[l] + RevenueSign(ty) * w.seen[l]]
    /\ journal' = [journal EXCEPT ![w.doc] = IF ty \in RevenueAffecting THEN w.seen ELSE @]
    /\ doc' = [doc EXCEPT ![w.doc].status = "FINALIZED"]
    /\ queued' = IF ty = "TAX_INVOICE" THEN queued \cup {w.doc} ELSE queued
    /\ work' = [work EXCEPT ![t] = Idle]
    /\ UNCHANGED <<line, link, counter, locked, contended>>

\* Variant: the cancellation posts the journal again instead of reversing it.
CommitCancelPostingAgain(t) ==
    LET w == work[t]  ty == doc[w.doc].type IN
    /\ w.at = "write" /\ w.op = "CancelDocument"
    /\ out' = [l \in LineIds |-> out[l] - StockOf(w, l)]
    /\ booked' = [l \in LineIds |-> booked[l] + RevenueSign(ty) * w.seen[l]]
    /\ link' = {p \in link : p[1] # w.doc}
    /\ doc' = [doc EXCEPT ![w.doc].status = "CANCELLED"]
    /\ work' = [work EXCEPT ![t] = Idle]
    /\ UNCHANGED <<line, counter, locked, journal, queued, contended>>

\* The latest journal is reversed as it was posted, not as the lines are now; it
\* is read after the stock legs, here with the commit.
CommitCancel(t) ==
    LET w == work[t]  ty == doc[w.doc].type IN
    /\ w.at = "write" /\ w.op = "CancelDocument"
    /\ out' = [l \in LineIds |-> out[l] - StockOf(w, l)]
    /\ booked' = [l \in LineIds |-> booked[l] - RevenueSign(ty) * journal[w.doc][l]]
    /\ link' = {p \in link : p[1] # w.doc}
    /\ doc' = [doc EXCEPT ![w.doc].status = "CANCELLED"]
    /\ work' = [work EXCEPT ![t] = Idle]
    /\ UNCHANGED <<line, counter, locked, journal, queued, contended>>

\* The request is done, was refused, failed, or its process died: what its open
\* transaction did is rolled back, what earlier ones committed stays.
End(t) ==
    /\ work[t].at # "idle"
    /\ work' = [work EXCEPT ![t] = Idle]
    /\ locked' = [s \in Branches \X Types |-> IF locked[s] = t THEN None ELSE locked[s]]
    /\ UNCHANGED <<doc, line, link, counter, out, booked, journal, queued, contended>>

Begins(t) ==
    \/ CreateDocument(t) \/ AddLine(t) \/ UpdateLine(t) \/ DeleteLine(t)
    \/ FinalizeDocument(t) \/ CancelDocument(t)
    \/ ConvertDocument(t) \/ ConvertDeliveryNotes(t)

Reads(t) == BilledSources(t) \/ ReadLines(t) \/ ReadSources(t) \/ CopyLine(t)

Commits(t) ==
    \/ TakeNumber(t) \/ InsertDocument(t) \/ InsertLine(t) \/ ChangeLine(t)
    \/ LinkSources(t) \/ CommitFinalize(t) \/ CommitCancel(t)

Next == \E t \in Txs : Begins(t) \/ Reads(t) \/ Commits(t) \/ End(t)

Spec == Init /\ [][Next]_vars

-----------------------------------------------------------------------------
(* Properties *)

\* The goods of a document that requests worked on one at a time are out exactly
\* while it is finalised and no challan it bills took them out: across every edit,
\* conversion, cancellation, refusal and crash (FinalizeDocument, CancelDocument).
StockFollowsDocument ==
    \A d \in Docs \ contended : \A l \in LineIds :
        line[l].doc = d =>
            out[l] = IF doc[d].status = "FINALIZED" /\ ~HasSources(d)
                     THEN StockSign(doc[d].type) * QtyOf(d)[l] ELSE 0

\* The ledger holds such a document's lines exactly while it is finalised: the
\* journal that is reversed is the one that was posted (ReverseJournalForSourceTx).
LedgerFollowsDocument ==
    \A d \in Docs \ contended : \A l \in LineIds :
        line[l].doc = d =>
            booked[l] = IF doc[d].status = "FINALIZED"
                        THEN RevenueSign(doc[d].type) * QtyOf(d)[l] ELSE 0

\* A finalised or cancelled document that requests worked on one at a time never
\* changes again but from finalised to cancelled (ErrDocumentNotDraft).
IssuedIsImmutable ==
    [][\A d \in Docs \ contended' :
        doc[d].status \in {"FINALIZED", "CANCELLED"} =>
            /\ QtyOf(d)' = QtyOf(d)
            /\ doc'[d] = doc[d] \/ (/\ doc[d].status = "FINALIZED"
                                   /\ doc'[d] = [doc[d] EXCEPT !.status = "CANCELLED"])]_vars

\* The documents of a branch and type, and the numbers its counter has given.
Series(b, ty) == {d \in Docs : doc[d].branch = b /\ doc[d].type = ty}
Given(b, ty) == 1 .. counter[<<b, ty>>] - 1

\* The numbers a branch has given for a type are 1, 2, ... without a gap or a
\* repetition, whatever requests race, fail or crash (numbering.Next).
NumbersGapFree ==
    \A b \in Branches, ty \in Types :
        /\ \A d \in Series(b, ty) : doc[d].number \in Given(b, ty)
        /\ \A n \in Given(b, ty) : \E d \in Series(b, ty) : doc[d].number = n
        /\ \A d, e \in Series(b, ty) : doc[d].number = doc[e].number => d = e

\* The event that makes an e-invoice exists for the tax invoices that were issued
\* and for no other document, even when two requests finalise one document.
EInvoiceQueuedIffIssued ==
    queued = {d \in Docs : doc[d].type = "TAX_INVOICE"
                           /\ doc[d].status \in {"FINALIZED", "CANCELLED"}}

-----------------------------------------------------------------------------
(* What comments and documents promise, and the code does not keep *)

\* A line of a finalised document is in the ledger once: a document "cannot be
\* modified or finalized again" (sales/httpapi/handlers.go).
BookedOnce ==
    \A l \in LineIds : line[l].at = "live" => booked[l] \in -line[l].qty .. line[l].qty

=============================================================================
