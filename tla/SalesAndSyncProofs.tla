------------------------- MODULE SalesAndSyncProofs -------------------------
(***************************************************************************)
(* Proofs about SalesDocuments: number series without gaps, the e-invoice  *)
(* event, and, for documents no two requests worked on at once, the stock  *)
(* and the ledger following the document, and issued ones never changing.  *)
(*                                                                         *)
(* And about DataSync: installs that have caught up agree, whatever the    *)
(* rounds, pages, lost answers and late commits were.  The invariant says  *)
(* of each cursor that what is committed before it is taken in at the      *)
(* other site; what commits behind one goes apart.                         *)
(***************************************************************************)
EXTENDS SalesDocuments, DataSync, SumsProofs

(* SalesDocuments: the inductive invariant *)

\* A document that does not exist has no type; the others have one and a branch.
DocsInv ==
    \A d \in Docs :
        /\ doc[d].status = "NONE" => doc[d].type = None /\ doc[d].branch = None
        /\ doc[d].status # "NONE" => doc[d].type \in Types /\ doc[d].branch \in Branches

\* A line that was never used has moved nothing; a used one is on a document.
LinesInv ==
    \A l \in LineIds :
        /\ line[l].at = "new" => line[l].doc = None /\ out[l] = 0 /\ booked[l] = 0
        /\ line[l].at # "new" => line[l].doc \in Docs /\ doc[line[l].doc].status # "NONE"

\* The line is, or was, a line of the document.
Owns(d, l) == line[l].at # "new" /\ line[l].doc = d

JournalInv == \A d \in Docs, l \in LineIds : journal[d][l] > 0 => Owns(d, l)

\* Who is about to insert a document holds its counter row and its id alone.
CreatesInv ==
    \A t \in Txs : work[t].at = "insert" =>
        /\ locked[<<work[t].branch, work[t].type>>] = t
        /\ work[t].number = counter[<<work[t].branch, work[t].type>>]
        /\ doc[work[t].doc].status = "NONE"

\* Two requests on one document are noticed.
AloneInv ==
    \A t, u \in Txs :
        t # u /\ work[t].doc = work[u].doc /\ work[t].doc # None =>
            work[t].doc \in contended /\ work[t].at # "insert"

\* What QtyOf(d) gives for one line.
LineQty(d, l) == IF line[l].at = "live" /\ line[l].doc = d THEN line[l].qty ELSE 0

\* What a request has read of a document it works on alone is still so.
Current(w) ==
    /\ w.at \in {"copy", "lines", "sources", "write"} =>
        doc[w.doc].status = IF w.op = "CancelDocument" THEN "FINALIZED" ELSE "DRAFT"
    /\ w.at \in {"sources", "write"} /\ w.op \in {"FinalizeDocument", "CancelDocument"} =>
        \A l \in LineIds : w.seen[l] = LineQty(w.doc, l)
    /\ w.at = "write" /\ w.op \in {"FinalizeDocument", "CancelDocument"} =>
        (w.linked <=> HasSources(w.doc))

\* What holds of a request at any statement, alone or not.
Fits(w) ==
    /\ w.at \in {"idle", "billed", "number"} => w.doc = None
    /\ w.at \notin {"idle", "billed", "number"} => w.doc \in Docs
    /\ w.at \in {"copy", "lines", "sources", "write"} => doc[w.doc].status # "NONE"
    /\ w.at \in {"billed", "number", "insert"} => w.type \in Types /\ w.branch \in Branches
    /\ w.op = "CancelDocument" => /\ w.at \in {"lines", "sources", "write"}
                                  /\ doc[w.doc].status \in {"FINALIZED", "CANCELLED"}
    /\ w.op \in {"UpdateLine", "DeleteLine"} => /\ w.at = "write" /\ w.line \in LineIds
                                                /\ Owns(w.doc, w.line)
    /\ \A l \in LineIds : w.seen[l] > 0 => Owns(w.doc, l)
    /\ w.doc \notin contended => Current(w)

WorkInv == \A t \in Txs : Fits(work[t])

\* StockFollowsDocument, line by line.
StockInv ==
    \A l \in LineIds : LET d == line[l].doc IN
        line[l].at # "new" /\ d \notin contended =>
            out[l] = IF doc[d].status = "FINALIZED" /\ ~HasSources(d)
                     THEN StockSign(doc[d].type) * LineQty(d, l) ELSE 0

\* LedgerFollowsDocument, line by line.
LedgerInv ==
    \A l \in LineIds : LET d == line[l].doc IN
        line[l].at # "new" /\ d \notin contended =>
            booked[l] = IF doc[d].status = "FINALIZED"
                        THEN RevenueSign(doc[d].type) * LineQty(d, l) ELSE 0

\* The journal to reverse is the one of the lines as they are.
PostedInv ==
    \A l \in LineIds : LET d == line[l].doc IN
        line[l].at # "new" /\ d \notin contended /\ doc[d].status = "FINALIZED"
            /\ doc[d].type \in RevenueAffecting => journal[d][l] = LineQty(d, l)

Structure == DocsInv /\ LinesInv /\ JournalInv /\ CreatesInv /\ AloneInv /\ WorkInv

Postings == StockInv /\ LedgerInv /\ PostedInv

IInv == TypeOK /\ Structure /\ NumbersGapFree /\ EInvoiceQueuedIffIssued /\ Postings

-----------------------------------------------------------------------------
(* Lemmas about the operators *)

\* A request that does nothing is a request.
LEMMA IdleIsRequest ==
    Idle \in Request /\ NoLines \in ByLine /\ \A l \in LineIds : NoLines[l] = 0
BY DEF Idle, Request, NoLines, ByLine, Operations

\* How many lines a document has is a number.
LEMMA CountIsNat ==
    ASSUME NEW d
    PROVE  Cardinality(LinesOf(d)) \in Nat
<1>1. LinesOf(d) \subseteq LineIds
  BY DEF LinesOf
<1>2. QED
  BY <1>1, LinesAssumption, FS_Subset, FS_CardinalityType

\* The signs are numbers.
LEMMA SignsAreInt ==
    ASSUME NEW ty
    PROVE  StockSign(ty) \in {-1, 0, 1} /\ RevenueSign(ty) \in {-1, 0, 1}
BY DEF StockSign, RevenueSign

-----------------------------------------------------------------------------
(* Initial states *)

LEMMA InitIInv == Init => IInv
<1> SUFFICES ASSUME Init PROVE IInv
  OBVIOUS
<1>1. TypeOK
  BY IdleIsRequest DEF Init, TypeOK, Document, Line
<1>2. DocsInv /\ LinesInv /\ JournalInv /\ CreatesInv /\ AloneInv
  BY DEF Init, DocsInv, LinesInv, JournalInv, NoLines, CreatesInv, AloneInv, Idle
<1>3. WorkInv
  BY DEF Init, WorkInv, Fits, Current, Idle, NoLines
<1>4. NumbersGapFree
  <2>1. \A b \in Branches, ty \in Types : counter[<<b, ty>>] = 1 /\ Series(b, ty) = {} /\ Given(b, ty) = {}
    BY NoneAssumption DEF Init, Series, Given
  <2>2. QED
    BY <2>1 DEF NumbersGapFree
<1>5. EInvoiceQueuedIffIssued
  BY DEF Init, EInvoiceQueuedIffIssued
<1>6. Postings
  BY DEF Init, Postings, StockInv, LedgerInv, PostedInv
<1>7. QED
  BY <1>1, <1>2, <1>3, <1>4, <1>5, <1>6 DEF IInv, Structure
-----------------------------------------------------------------------------
(* Steps that only begin a request or read *)

\* What does not depend on requests is kept when only work and contended change.
LEMMA RestKept ==
    ASSUME IInv, contended \subseteq contended',
           UNCHANGED <<doc, line, link, counter, locked, out, booked, journal, queued>>
    PROVE  /\ DocsInv' /\ LinesInv' /\ JournalInv'
           /\ NumbersGapFree' /\ EInvoiceQueuedIffIssued' /\ Postings'
<1>1. DocsInv' /\ LinesInv' /\ JournalInv'
  BY DEF IInv, Structure, DocsInv, LinesInv, JournalInv, Owns
<1>2. NumbersGapFree' /\ EInvoiceQueuedIffIssued'
  BY DEF IInv, NumbersGapFree, Series, Given, EInvoiceQueuedIffIssued
<1>3. StockInv'
  BY DEF IInv, Postings, StockInv, LineQty, HasSources
<1>4. LedgerInv'
  BY DEF IInv, Postings, LedgerInv, LineQty
<1>5. PostedInv'
  BY DEF IInv, Postings, PostedInv, LineQty
<1>6. QED
  BY <1>1, <1>2, <1>3, <1>4, <1>5 DEF Postings

\* A request that begins with something that fits keeps the invariant.
LEMMA OpenStep ==
    ASSUME IInv, NEW t \in Txs, NEW w \in Request, Fits(w), w.at # "insert", Open(t, w)
    PROVE  IInv'
<1>1. /\ work' = [work EXCEPT ![t] = w] /\ contended \subseteq contended'
      /\ contended' \subseteq Docs
      /\ UNCHANGED <<doc, line, link, counter, locked, out, booked, journal, queued>>
  BY DEF Open, IInv, TypeOK, Fits, Request
<1>2. TypeOK'
  BY <1>1 DEF IInv, TypeOK
<1>3. WorkInv'
  <2> SUFFICES ASSUME NEW u \in Txs PROVE Fits(work[u])'
    BY DEF WorkInv
  <2>1. CASE u = t
    <3>1. work'[u] = w
      BY <1>1, <2>1 DEF IInv, TypeOK
    <3>2. Current(w) => Current(work[u])'
      <4>1. (w.linked <=> HasSources(w.doc)) => (work[u].linked <=> HasSources(work[u].doc))'
        BY <1>1, <3>1 DEF HasSources
      <4>2. QED
        BY <1>1, <3>1, <4>1 DEF Current, LineQty
    <3>3. QED
      BY <1>1, <3>1, <3>2 DEF Fits, Owns
  <2>2. CASE u # t
    <3>1. work'[u] = work[u] /\ Fits(work[u])
      BY <1>1, <2>2 DEF IInv, TypeOK, Structure, WorkInv
    <3>2. QED
      BY <1>1, <3>1 DEF Fits, Current, Owns, LineQty, HasSources
  <2>3. QED
    BY <2>1, <2>2
<1>4. CreatesInv'
  BY <1>1 DEF IInv, TypeOK, Structure, CreatesInv
<1>5. AloneInv'
  <2> SUFFICES ASSUME NEW u \in Txs, NEW v \in Txs, u # v, work'[u].doc = work'[v].doc,
                      work'[u].doc # None
               PROVE  work'[u].doc \in contended' /\ work'[u].at # "insert"
    BY DEF AloneInv
  <2>1. CASE u # t /\ v # t
    BY <1>1, <2>1 DEF IInv, TypeOK, Structure, AloneInv
  <2>2. CASE u = t \/ v = t
    <3>1. work'[t] = w /\ w.doc # None /\ doc[w.doc].status # "NONE"
      BY <1>1, <2>2 DEF IInv, TypeOK, Fits, Request
    <3>2. PICK x \in {u, v} : x # t /\ work'[x] = work[x] /\ work[x].doc = w.doc
      BY <1>1, <2>2, <3>1 DEF IInv, TypeOK
    <3>3. w.doc \in contended'
      BY <3>1, <3>2 DEF Open
    <3>4. work[x].at # "insert"
      <4>1. x \in Txs
        BY <3>2
      <4>2. QED
        BY <3>1, <3>2, <4>1 DEF IInv, Structure, CreatesInv
    <3>5. QED
      BY <2>2, <3>1, <3>2, <3>3, <3>4
  <2>3. QED
    BY <2>1, <2>2
<1>6. QED
  BY <1>1, <1>2, <1>3, <1>4, <1>5, RestKept DEF IInv, Structure

\* A request that goes on with something that fits keeps the invariant.
LEMMA GoesStep ==
    ASSUME IInv, NEW t \in Txs, NEW w \in Request, Fits(w), w.at # "insert",
           w.doc = work[t].doc, work[t].at # "insert", Goes(t, w)
    PROVE  IInv'
<1>1. /\ work' = [work EXCEPT ![t] = w] /\ contended' = contended
      /\ UNCHANGED <<doc, line, link, counter, locked, out, booked, journal, queued>>
  BY DEF Goes
<1>2. TypeOK'
  BY <1>1 DEF IInv, TypeOK
<1>3. WorkInv'
  <2> SUFFICES ASSUME NEW u \in Txs PROVE Fits(work[u])'
    BY DEF WorkInv
  <2>1. PICK v : work'[u] = v /\ Fits(v)
    BY <1>1 DEF IInv, TypeOK, Structure, WorkInv
  <2>2. Current(v) => Current(work[u])'
    <3>1. (v.linked <=> HasSources(v.doc)) => (work[u].linked <=> HasSources(work[u].doc))'
      BY <1>1, <2>1 DEF HasSources
    <3>2. QED
      BY <1>1, <2>1, <3>1 DEF Current, LineQty
  <2>3. QED
    BY <1>1, <2>1, <2>2 DEF Fits, Owns
<1>4. CreatesInv'
  BY <1>1 DEF IInv, TypeOK, Structure, CreatesInv
<1>5. AloneInv'
  BY <1>1 DEF IInv, TypeOK, Structure, AloneInv
<1>6. QED
  BY <1>1, <1>2, <1>3, <1>4, <1>5, RestKept DEF IInv, Structure

\* Every request begins with something that fits.
LEMMA BeginsStep ==
    ASSUME IInv, NEW t \in Txs, Begins(t)
    PROVE  IInv'
<1> USE IdleIsRequest
<1>1. CASE CreateDocument(t)
  <2>1. PICK ty \in Types, b \in Branches :
            Open(t, [Idle EXCEPT !.op = "CreateDocument", !.at = "number", !.type = ty, !.branch = b])
    BY <1>1 DEF CreateDocument
  <2>2. PICK w : w = [Idle EXCEPT !.op = "CreateDocument", !.at = "number", !.type = ty, !.branch = b]
    OBVIOUS
  <2>3. w \in Request
    BY <2>2 DEF Idle, Request, Operations
  <2>3a. Fits(w) /\ w.at # "insert"
    BY <2>2 DEF Idle, Fits, Current
  <2>4. QED
    BY <2>1, <2>2, <2>3, <2>3a, OpenStep
<1>2. CASE AddLine(t)
  <2>1. PICK d \in Docs, q \in Quantities :
            /\ doc[d].status = "DRAFT"
            /\ Open(t, [Idle EXCEPT !.op = "AddLine", !.at = "lines", !.doc = d, !.qty = q])
    BY <1>2 DEF AddLine
  <2>2. PICK w : w = [Idle EXCEPT !.op = "AddLine", !.at = "lines", !.doc = d, !.qty = q]
    OBVIOUS
  <2>3. w \in Request
    BY <2>1, <2>2, QuantitiesAssumption DEF Idle, Request, Operations
  <2>3a. Fits(w) /\ w.at # "insert"
    BY <2>1, <2>2 DEF Idle, Fits, Current
  <2>4. QED
    BY <2>1, <2>2, <2>3, <2>3a, OpenStep
<1>3. CASE UpdateLine(t)
  <2>1. PICK d \in Docs, l \in LineIds, q \in Quantities :
            /\ l \in LinesOf(d)
            /\ doc[d].status = "DRAFT"
            /\ Open(t, [Idle EXCEPT !.op = "UpdateLine", !.at = "write", !.doc = d,
                                    !.line = l, !.qty = q])
    BY <1>3 DEF UpdateLine, LinesOf
  <2>2. PICK w : w = [Idle EXCEPT !.op = "UpdateLine", !.at = "write", !.doc = d,
                                  !.line = l, !.qty = q]
    OBVIOUS
  <2>3. Owns(d, l)
    BY <2>1 DEF LinesOf, Owns
  <2>4. w \in Request
    BY <2>1, <2>2, <2>3, QuantitiesAssumption DEF Idle, Request, Operations
  <2>4a. Fits(w) /\ w.at # "insert"
    BY <2>1, <2>2, <2>3 DEF Idle, Fits, Current
  <2>5. QED
    BY <2>1, <2>2, <2>4, <2>4a, OpenStep
<1>4. CASE DeleteLine(t)
  <2>1. PICK d \in Docs, l \in LineIds :
            /\ l \in LinesOf(d)
            /\ doc[d].status = "DRAFT"
            /\ Open(t, [Idle EXCEPT !.op = "DeleteLine", !.at = "write", !.doc = d, !.line = l])
    BY <1>4 DEF DeleteLine, LinesOf
  <2>2. PICK w : w = [Idle EXCEPT !.op = "DeleteLine", !.at = "write", !.doc = d, !.line = l]
    OBVIOUS
  <2>3. Owns(d, l)
    BY <2>1 DEF LinesOf, Owns
  <2>4. w \in Request
    BY <2>1, <2>2, <2>3 DEF Idle, Request, Operations
  <2>4a. Fits(w) /\ w.at # "insert"
    BY <2>1, <2>2, <2>3 DEF Idle, Fits, Current
  <2>5. QED
    BY <2>1, <2>2, <2>4, <2>4a, OpenStep
<1>5. CASE FinalizeDocument(t)
  <2>1. PICK d \in Docs :
            /\ doc[d].status = "DRAFT"
            /\ Open(t, [Idle EXCEPT !.op = "FinalizeDocument", !.at = "lines", !.doc = d])
    BY <1>5 DEF FinalizeDocument
  <2>2. PICK w : w = [Idle EXCEPT !.op = "FinalizeDocument", !.at = "lines", !.doc = d]
    OBVIOUS
  <2>3. w \in Request
    BY <2>1, <2>2 DEF Idle, Request, Operations
  <2>3a. Fits(w) /\ w.at # "insert"
    BY <2>1, <2>2 DEF Idle, Fits, Current
  <2>4. QED
    BY <2>1, <2>2, <2>3, <2>3a, OpenStep
<1>6. CASE CancelDocument(t)
  <2>1. PICK d \in Docs :
            /\ doc[d].status = "FINALIZED"
            /\ Open(t, [Idle EXCEPT !.op = "CancelDocument", !.at = "lines", !.doc = d])
    BY <1>6 DEF CancelDocument
  <2>2. PICK w : w = [Idle EXCEPT !.op = "CancelDocument", !.at = "lines", !.doc = d]
    OBVIOUS
  <2>3. w \in Request
    BY <2>1, <2>2 DEF Idle, Request, Operations
  <2>3a. Fits(w) /\ w.at # "insert"
    BY <2>1, <2>2 DEF Idle, Fits, Current
  <2>4. QED
    BY <2>1, <2>2, <2>3, <2>3a, OpenStep
<1>7. CASE ConvertDocument(t)
  <2>1. PICK s \in Docs, ty \in Types, copies \in [LineIds -> Quantities \cup {0}] :
            /\ doc[s].status = "FINALIZED"
            /\ Open(t, [Idle EXCEPT !.op = "ConvertDocument", !.at = "number", !.type = ty,
                            !.branch = doc[s].branch, !.sources = {s}, !.todo = copies])
    BY <1>7 DEF ConvertDocument
  <2>2. PICK w : w = [Idle EXCEPT !.op = "ConvertDocument", !.at = "number", !.type = ty,
                          !.branch = doc[s].branch, !.sources = {s}, !.todo = copies]
    OBVIOUS
  <2>3. copies \in ByLine
    <3>1. Quantities \cup {0} \subseteq Nat
      BY QuantitiesAssumption
    <3>2. QED
      BY <3>1 DEF ByLine
  <2>4. doc[s].branch \in Branches
    BY <2>1 DEF IInv, Structure, DocsInv
  <2>5. w \in Request
    BY <2>2, <2>3, <2>4 DEF Idle, Request, Operations, Conversions
  <2>6. Fits(w) /\ w.at # "insert"
    BY <2>2, <2>4 DEF Idle, Fits, Current
  <2>7. QED
    BY <2>1, <2>2, <2>5, <2>6, OpenStep
<1>8. CASE ConvertDeliveryNotes(t)
  <2> DEFINE copies(S) == [l \in LineIds |-> IF line[l].doc \in S THEN QtyOf(line[l].doc)[l] ELSE 0]
  <2>1. PICK S \in SUBSET Docs, first \in Docs :
            /\ first \in S
            /\ \A s \in S : doc[s].status = "FINALIZED"
            /\ "TAX_INVOICE" \in Types
            /\ Open(t, [Idle EXCEPT !.op = "ConvertDeliveryNotes", !.at = "billed",
                            !.type = "TAX_INVOICE", !.branch = doc[first].branch,
                            !.sources = S, !.todo = copies(S)])
    BY <1>8 DEF ConvertDeliveryNotes
  <2>2. PICK w : w = [Idle EXCEPT !.op = "ConvertDeliveryNotes", !.at = "billed",
                          !.type = "TAX_INVOICE", !.branch = doc[first].branch,
                          !.sources = S, !.todo = copies(S)]
    OBVIOUS
  <2>3. copies(S) \in ByLine
    <3>1. \A l \in LineIds : line[l].qty \in Nat
      BY DEF IInv, TypeOK, Line
    <3>2. QED
      BY <3>1 DEF ByLine, QtyOf
  <2> HIDE DEF copies
  <2>4. doc[first].branch \in Branches
    BY <2>1 DEF IInv, Structure, DocsInv
  <2>5. w \in Request
    BY <2>1, <2>2, <2>3, <2>4 DEF Idle, Request, Operations, Conversions
  <2>6. Fits(w) /\ w.at # "insert"
    BY <2>1, <2>2, <2>4 DEF Idle, Fits, Current
  <2>7. QED
    BY <2>1, <2>2, <2>5, <2>6, OpenStep
<1>9. QED
  BY <1>1, <1>2, <1>3, <1>4, <1>5, <1>6, <1>7, <1>8 DEF Begins

\* Every read leaves the request with something that fits.
LEMMA ReadsStep ==
    ASSUME IInv, NEW t \in Txs, Reads(t)
    PROVE  IInv'
<1>1. PICK v : v = work[t] /\ v \in Request /\ Fits(v)
  BY DEF IInv, TypeOK, Structure, WorkInv
<1>2. CASE BilledSources(t)
  <2>1. PICK w : w = [v EXCEPT !.at = "number"] /\ v.at = "billed" /\ Goes(t, w)
    BY <1>1, <1>2 DEF BilledSources
  <2>2. w \in Request /\ w.doc = v.doc
    BY <1>1, <2>1 DEF Request
  <2>3. Fits(w) /\ w.at # "insert"
    BY <1>1, <2>1 DEF Request, Fits, Current
  <2>4. QED
    BY <1>1, <2>1, <2>2, <2>3, GoesStep
<1>3. CASE ReadLines(t)
  <2>1. CASE v.op \in {"AddLine"} \cup Conversions /\ v.at = "lines"
             /\ Goes(t, [v EXCEPT !.at = "write", !.number = Cardinality(LinesOf(v.doc)) + 1])
    <3>1. PICK n \in Nat : n = Cardinality(LinesOf(v.doc)) + 1
      BY CountIsNat
    <3>2. PICK w : w = [v EXCEPT !.at = "write", !.number = n] /\ Goes(t, w)
      BY <2>1, <3>1
    <3>3. w \in Request /\ w.doc = v.doc
      BY <1>1, <3>2 DEF Request
    <3>4. Fits(w) /\ w.at # "insert"
      BY <1>1, <2>1, <3>2 DEF Request, Fits, Current, Conversions
    <3>5. QED
      BY <1>1, <2>1, <3>2, <3>3, <3>4, GoesStep
  <2>2. CASE v.op \in {"FinalizeDocument", "CancelDocument"} /\ v.at = "lines"
             /\ Goes(t, [v EXCEPT !.at = "sources", !.seen = QtyOf(v.doc)])
    <3>1. PICK q : q = QtyOf(v.doc)
      OBVIOUS
    <3>2. PICK w : w = [v EXCEPT !.at = "sources", !.seen = q] /\ Goes(t, w)
      BY <2>2, <3>1
    <3>3. \A l \in LineIds : q[l] = LineQty(v.doc, l) /\ (q[l] > 0 => Owns(v.doc, l))
      BY <3>1 DEF QtyOf, LinesOf, LineQty, Owns
    <3>4. q \in ByLine
      <4>1. \A l \in LineIds : line[l].qty \in Nat
        BY DEF IInv, TypeOK, Line
      <4>2. QED
        BY <3>1, <4>1 DEF ByLine, QtyOf
    <3>5. w \in Request /\ w.doc = v.doc
      BY <1>1, <3>2, <3>4 DEF Request
    <3>6. Fits(w) /\ w.at # "insert"
      BY <1>1, <2>2, <3>2, <3>3 DEF Request, Fits, Current
    <3>7. QED
      BY <1>1, <2>2, <3>2, <3>5, <3>6, GoesStep
  <2>3. QED
    BY <1>1, <1>3, <2>1, <2>2 DEF ReadLines
<1>4. CASE ReadSources(t)
  <2>1. PICK b \in BOOLEAN : b = HasSources(v.doc)
    BY DEF HasSources
  <2>2. PICK w : w = [v EXCEPT !.at = "write", !.linked = b] /\ v.at = "sources" /\ Goes(t, w)
    BY <1>1, <1>4, <2>1 DEF ReadSources
  <2>3. w \in Request /\ w.doc = v.doc /\ (w.linked <=> HasSources(w.doc))
    BY <1>1, <2>1, <2>2 DEF Request
  <2>4. Fits(w) /\ w.at # "insert"
    BY <1>1, <2>2, <2>3 DEF Request, Fits, Current
  <2>5. QED
    BY <1>1, <2>2, <2>3, <2>4, GoesStep
<1>5. CASE CopyLine(t)
  <2>1. PICK l \in LineIds : v.at = "copy" /\ doc[v.doc].status = "DRAFT"
                             /\ Goes(t, [v EXCEPT !.at = "lines", !.line = l, !.qty = v.todo[l]])
    BY <1>1, <1>5 DEF CopyLine
  <2>2. PICK w : w = [v EXCEPT !.at = "lines", !.line = l, !.qty = v.todo[l]] /\ Goes(t, w)
    BY <2>1
  <2>3. v.todo[l] \in Nat
    BY <1>1 DEF Request, ByLine
  <2>4. w \in Request /\ w.doc = v.doc
    BY <1>1, <2>2, <2>3 DEF Request
  <2>5. Fits(w) /\ w.at # "insert"
    BY <1>1, <2>1, <2>2 DEF Request, Fits, Current
  <2>6. QED
    BY <1>1, <2>1, <2>2, <2>4, <2>5, GoesStep
<1>6. QED
  BY <1>2, <1>3, <1>4, <1>5 DEF Reads

\* A request that ends leaves nothing behind but what it committed.
LEMMA EndStep ==
    ASSUME IInv, NEW t \in Txs, End(t)
    PROVE  IInv'
<1>1. /\ work' = [work EXCEPT ![t] = Idle] /\ contended' = contended
      /\ locked' = [s \in Branches \X Types |-> IF locked[s] = t THEN None ELSE locked[s]]
      /\ UNCHANGED <<doc, line, link, counter, out, booked, journal, queued>>
  BY DEF End
<1>2. TypeOK'
  BY <1>1, IdleIsRequest DEF IInv, TypeOK
<1>3. DocsInv' /\ LinesInv' /\ JournalInv' /\ NumbersGapFree' /\ EInvoiceQueuedIffIssued'
  BY <1>1 DEF IInv, Structure, DocsInv, LinesInv, JournalInv, Owns, NumbersGapFree, Series, Given,
              EInvoiceQueuedIffIssued
<1>4. Postings'
  BY <1>1 DEF IInv, Postings, StockInv, LedgerInv, PostedInv, LineQty, HasSources
<1>5. WorkInv'
  <2> SUFFICES ASSUME NEW u \in Txs PROVE Fits(work[u])'
    BY DEF WorkInv
  <2>1. CASE u = t
    BY <1>1, <2>1, IdleIsRequest DEF IInv, TypeOK, Fits, Current, Idle
  <2>2. CASE u # t
    BY <1>1, <2>2 DEF IInv, TypeOK, Structure, WorkInv, Fits, Current, Owns, LineQty, HasSources
  <2>3. QED
    BY <2>1, <2>2
<1>6. CreatesInv'
  <2> SUFFICES ASSUME NEW u \in Txs, work'[u].at = "insert"
               PROVE  /\ locked'[<<work'[u].branch, work'[u].type>>] = u
                      /\ work'[u].number = counter'[<<work'[u].branch, work'[u].type>>]
                      /\ doc'[work'[u].doc].status = "NONE"
    BY DEF CreatesInv
  <2>1. u # t /\ work'[u] = work[u]
    BY <1>1 DEF IInv, TypeOK, Idle
  <2>2. PICK s : s = <<work[u].branch, work[u].type>>
    OBVIOUS
  <2>2a. s \in Branches \X Types
    BY <2>1, <2>2 DEF IInv, Structure, WorkInv, Fits
  <2>3. locked[s] = u /\ locked'[s] = u
    BY <1>1, <2>1, <2>2, <2>2a DEF IInv, Structure, CreatesInv
  <2>4. QED
    BY <1>1, <2>1, <2>2, <2>3 DEF IInv, Structure, CreatesInv
<1>7. AloneInv'
  BY <1>1 DEF IInv, TypeOK, Structure, AloneInv, Idle
<1>8. QED
  BY <1>2, <1>3, <1>4, <1>5, <1>6, <1>7 DEF IInv, Structure

-----------------------------------------------------------------------------
(* Creating a document *)

\* The number is the counter's, and the counter row is the request's alone.
LEMMA TakeNumberStep ==
    ASSUME IInv, NEW t \in Txs, TakeNumber(t)
    PROVE  IInv'
<1>0. work[t].at = "number"
  BY DEF TakeNumber
<1>1. PICK v : v = work[t] /\ v \in Request /\ Fits(v) /\ v.at = "number"
  BY <1>0 DEF IInv, TypeOK, Structure, WorkInv
<1>2. PICK s : s = <<v.branch, v.type>>
  OBVIOUS
<1>2a. s \in Branches \X Types
  BY <1>1, <1>2 DEF Fits
<1>3. PICK d \in Docs :
        /\ doc[d].status = "NONE" /\ \A u \in Txs : work[u].doc # d
        /\ work' = [work EXCEPT ![t] = [v EXCEPT !.at = "insert", !.doc = d, !.number = counter[s]]]
  BY <1>1, <1>2 DEF TakeNumber
<1>4. /\ locked[s] = None /\ locked' = [locked EXCEPT ![s] = t] /\ contended' = contended
      /\ UNCHANGED <<doc, line, link, counter, out, booked, journal, queued>>
  BY <1>1, <1>2 DEF TakeNumber
<1>5. PICK w : w = [v EXCEPT !.at = "insert", !.doc = d, !.number = counter[s]]
               /\ work' = [work EXCEPT ![t] = w]
  BY <1>3
<1>6. w \in Request
  BY <1>1, <1>2, <1>2a, <1>5 DEF IInv, TypeOK, Request
<1>7. w.at = "insert" /\ w.doc = d /\ w.number = counter[s] /\ <<w.branch, w.type>> = s
  BY <1>1, <1>2, <1>5 DEF Request
<1>8. TypeOK'
  BY <1>2a, <1>4, <1>5, <1>6 DEF IInv, TypeOK
<1>9. DocsInv' /\ LinesInv' /\ JournalInv' /\ NumbersGapFree' /\ EInvoiceQueuedIffIssued'
  BY <1>4 DEF IInv, Structure, DocsInv, LinesInv, JournalInv, Owns, NumbersGapFree, Series, Given,
              EInvoiceQueuedIffIssued
<1>10. Postings'
  BY <1>4 DEF IInv, Postings, StockInv, LedgerInv, PostedInv, LineQty, HasSources
<1>11. WorkInv'
  <2> SUFFICES ASSUME NEW u \in Txs PROVE Fits(work[u])'
    BY DEF WorkInv
  <2>1. CASE u = t
    <3>1. work'[u] = w
      BY <1>5, <2>1 DEF IInv, TypeOK
    <3>2. \A l \in LineIds : ~(w.seen[l] > 0)
      BY <1>1, <1>5, <1>7, NoneAssumption DEF Request, Fits, Owns, IInv, Structure, LinesInv
    <3>3. w.op \notin {"CancelDocument", "UpdateLine", "DeleteLine"}
      BY <1>1, <1>5 DEF Request, Fits
    <3>4. w.type \in Types /\ w.branch \in Branches
      BY <1>2a, <1>7
    <3>5. QED
      BY <1>7, <3>1, <3>2, <3>3, <3>4 DEF Fits, Current
  <2>2. CASE u # t
    BY <1>4, <1>5, <2>2 DEF IInv, TypeOK, Structure, WorkInv, Fits, Current, Owns, LineQty, HasSources
  <2>3. QED
    BY <2>1, <2>2
<1>12. CreatesInv'
  <2> SUFFICES ASSUME NEW u \in Txs, work'[u].at = "insert"
               PROVE  /\ locked'[<<work'[u].branch, work'[u].type>>] = u
                      /\ work'[u].number = counter'[<<work'[u].branch, work'[u].type>>]
                      /\ doc'[work'[u].doc].status = "NONE"
    BY DEF CreatesInv
  <2>1. CASE u = t
    <3>1. work'[u] = w
      BY <1>5, <2>1 DEF IInv, TypeOK
    <3>2. locked'[s] = t
      BY <1>2a, <1>4 DEF IInv, TypeOK
    <3>3. QED
      BY <1>3, <1>4, <1>7, <2>1, <3>1, <3>2
  <2>2. CASE u # t
    <3>1. work'[u] = work[u]
      BY <1>5, <2>2 DEF IInv, TypeOK
    <3>2. locked[<<work[u].branch, work[u].type>>] = u
      BY <3>1 DEF IInv, Structure, CreatesInv
    <3>3. <<work[u].branch, work[u].type>> # s
      BY <1>4, <3>2, NoneAssumption
    <3>4. QED
      BY <1>4, <3>1, <3>2, <3>3 DEF IInv, TypeOK, Structure, CreatesInv
  <2>3. QED
    BY <2>1, <2>2
<1>13. AloneInv'
  BY <1>3, <1>4, <1>5, <1>7 DEF IInv, TypeOK, Structure, AloneInv
<1>14. QED
  BY <1>8, <1>9, <1>10, <1>11, <1>12, <1>13 DEF IInv, Structure

\* The row appears, the counter moves past its number, and the row is unlocked.
LEMMA InsertDocumentStep ==
    ASSUME IInv, NEW t \in Txs, InsertDocument(t)
    PROVE  IInv'
<1>0. work[t].at = "insert"
  BY DEF InsertDocument
<1>1. PICK v : v = work[t] /\ v \in Request /\ Fits(v) /\ v.at = "insert"
  BY <1>0 DEF IInv, TypeOK, Structure, WorkInv
<1>2. PICK s : s = <<v.branch, v.type>>
  OBVIOUS
<1>3. v.branch \in Branches /\ v.type \in Types /\ s \in Branches \X Types /\ v.doc \in Docs
  BY <1>1, <1>2 DEF Fits
<1>4. locked[s] = t /\ v.number = counter[s] /\ doc[v.doc].status = "NONE"
  BY <1>1, <1>2 DEF IInv, Structure, CreatesInv
<1>5. PICK r : r = [status |-> "DRAFT", type |-> v.type, branch |-> v.branch, number |-> v.number]
  OBVIOUS
<1>5a. r \in Document
  BY <1>1, <1>3, <1>5 DEF Request, Document
<1>6. PICK w : w = (IF v.op = "CreateDocument" THEN Idle ELSE [v EXCEPT !.at = "copy", !.number = 0])
  OBVIOUS
<1>6a. w \in Request
  BY <1>1, <1>6, IdleIsRequest DEF Request
<1>7. /\ doc' = [doc EXCEPT ![v.doc] = r]
      /\ counter' = [counter EXCEPT ![s] = v.number + 1]
      /\ locked' = [locked EXCEPT ![s] = None]
      /\ work' = [work EXCEPT ![t] = w] /\ contended' = contended
      /\ UNCHANGED <<line, link, out, booked, journal, queued>>
  BY <1>1, <1>2, <1>5, <1>6 DEF InsertDocument
<1>8. TypeOK'
  BY <1>1, <1>3, <1>5a, <1>6a, <1>7 DEF IInv, TypeOK, Request
<1>9. /\ doc'[v.doc] = r /\ r.status = "DRAFT" /\ r.type = v.type /\ r.branch = v.branch /\ r.number = v.number
      /\ \A d \in Docs : d # v.doc => doc'[d] = doc[d]
  BY <1>3, <1>5, <1>7 DEF IInv, TypeOK
<1>10. DocsInv' /\ LinesInv' /\ JournalInv'
  BY <1>3, <1>4, <1>7, <1>9 DEF IInv, Structure, DocsInv, LinesInv, JournalInv, Owns
<1>11. \A l \in LineIds : line[l].at # "new" => line[l].doc \in Docs /\ line[l].doc # v.doc
  BY <1>4 DEF IInv, Structure, LinesInv
<1>12. Postings'
  BY <1>7, <1>9, <1>11 DEF IInv, Postings, StockInv, LedgerInv, PostedInv, LineQty, HasSources
<1>13. \A u \in Txs : u # t => work'[u] = work[u] /\ work[u].doc # v.doc
  BY <1>1, <1>3, <1>7, NoneAssumption DEF IInv, TypeOK, Structure, AloneInv
<1>14. work'[t] = w /\ w.at # "insert" /\ w.doc \in {None, v.doc}
  BY <1>1, <1>6, <1>7 DEF IInv, TypeOK, Idle, Request
<1>15. WorkInv'
  <2> SUFFICES ASSUME NEW u \in Txs PROVE Fits(work[u])'
    BY DEF WorkInv
  <2>1. CASE u # t
    BY <1>7, <1>9, <1>13, <2>1 DEF IInv, Structure, WorkInv, Fits, Current, Owns, LineQty, HasSources
  <2>2. CASE u = t /\ v.op = "CreateDocument"
    BY <1>6, <1>14, <2>2, IdleIsRequest DEF Fits, Current, Idle
  <2>3. CASE u = t /\ v.op # "CreateDocument"
    <3>1. w.at = "copy" /\ w.doc = v.doc /\ w.op = v.op /\ w.seen = v.seen
      BY <1>1, <1>6, <2>3 DEF Request
    <3>2. v.op \notin {"CancelDocument", "UpdateLine", "DeleteLine"}
      BY <1>1 DEF Fits
    <3>3. \A l \in LineIds : w.seen[l] > 0 => Owns(w.doc, l)'
      BY <1>1, <1>7, <3>1 DEF Fits, Owns
    <3>4. QED
      BY <1>3, <1>9, <1>14, <2>3, <3>1, <3>2, <3>3 DEF Fits, Current
  <2>4. QED
    BY <2>1, <2>2, <2>3
<1>16. CreatesInv'
  <2> SUFFICES ASSUME NEW u \in Txs, work'[u].at = "insert"
               PROVE  /\ locked'[<<work'[u].branch, work'[u].type>>] = u
                      /\ work'[u].number = counter'[<<work'[u].branch, work'[u].type>>]
                      /\ doc'[work'[u].doc].status = "NONE"
    BY DEF CreatesInv
  <2>1. u # t /\ work'[u] = work[u] /\ work[u].doc # v.doc
    BY <1>13, <1>14
  <2>2. PICK z : z = <<work[u].branch, work[u].type>>
    OBVIOUS
  <2>3. z \in Branches \X Types /\ work[u].doc \in Docs
    BY <2>1, <2>2 DEF IInv, Structure, WorkInv, Fits
  <2>4. locked[z] = u /\ work[u].number = counter[z] /\ doc[work[u].doc].status = "NONE"
    BY <2>1, <2>2 DEF IInv, Structure, CreatesInv
  <2>5. locked'[z] = u /\ counter'[z] = counter[z]
    BY <1>3, <1>4, <1>7, <2>1, <2>3, <2>4 DEF IInv, TypeOK
  <2>6. QED
    BY <1>9, <2>1, <2>2, <2>3, <2>4, <2>5
<1>17. AloneInv'
  BY <1>7, <1>13, <1>14 DEF IInv, Structure, AloneInv
<1>18. EInvoiceQueuedIffIssued'
  BY <1>3, <1>4, <1>7, <1>9 DEF IInv, EInvoiceQueuedIffIssued
<1>19. NumbersGapFree'
  <2> SUFFICES ASSUME NEW b \in Branches, NEW ty \in Types
               PROVE  /\ \A d \in Series(b, ty)' : doc'[d].number \in Given(b, ty)'
                      /\ \A n \in Given(b, ty)' : \E d \in Series(b, ty)' : doc'[d].number = n
                      /\ \A d, e \in Series(b, ty)' : doc'[d].number = doc'[e].number => d = e
    BY DEF NumbersGapFree
  <2>1. v.doc \notin Series(b, ty)
    BY <1>4, NoneAssumption DEF IInv, Structure, DocsInv, Series
  <2>2. /\ \A d \in Series(b, ty) : doc[d].number \in Given(b, ty) /\ doc'[d] = doc[d]
        /\ \A n \in Given(b, ty) : \E d \in Series(b, ty) : doc[d].number = n
        /\ \A d, e \in Series(b, ty) : doc[d].number = doc[e].number => d = e
    BY <1>9, <2>1 DEF IInv, NumbersGapFree, Series
  <2>3. counter[s] \in Nat /\ counter[<<b, ty>>] \in Nat
    BY <1>3 DEF IInv, TypeOK
  <2>4. CASE <<b, ty>> = s
    <3>1. Series(b, ty)' = Series(b, ty) \cup {v.doc}
      BY <1>2, <1>3, <1>9, <2>4 DEF Series
    <3>2. counter'[<<b, ty>>] = counter[s] + 1
      BY <1>3, <1>4, <1>7, <2>4 DEF IInv, TypeOK
    <3>3. counter[s] \in Nat \ {0}
      BY <1>3 DEF IInv, TypeOK
    <3>4. Given(b, ty)' = Given(b, ty) \cup {counter[s]} /\ counter[s] \notin Given(b, ty)
      BY <2>3, <2>4, <3>2, <3>3 DEF Given
    <3>5. doc'[v.doc].number = counter[s]
      BY <1>4, <1>9
    <3>6. QED
      BY <2>2, <3>1, <3>4, <3>5
  <2>5. CASE <<b, ty>> # s
    <3>1. Series(b, ty)' = Series(b, ty)
      BY <1>2, <1>3, <1>9, <2>1, <2>5 DEF Series
    <3>2. Given(b, ty)' = Given(b, ty)
      BY <1>3, <1>7, <2>5 DEF IInv, TypeOK, Given
    <3>3. QED
      BY <2>2, <3>1, <3>2
  <2>6. QED
    BY <2>4, <2>5
<1>20. QED
  BY <1>8, <1>10, <1>12, <1>15, <1>16, <1>17, <1>18, <1>19 DEF IInv, Structure

-----------------------------------------------------------------------------
(* Commits on a document *)

\* A request at a later statement on the same document is noticed.
LEMMA OthersNoticed ==
    ASSUME IInv, NEW t \in Txs, work[t].doc # None, work[t].at # "insert",
           NEW u \in Txs, u # t, work[u].doc = work[t].doc
    PROVE  work[u].doc \in contended /\ work[u].at # "insert"
BY DEF IInv, Structure, AloneInv

\* What does not depend on the request at work is kept when it becomes w, on the
\* same document or on none.
LEMMA RequestMoves ==
    ASSUME IInv, NEW t \in Txs, NEW w, work' = [work EXCEPT ![t] = w], w.at # "insert",
           w.doc \in {work[t].doc, None}, work[t].doc # None, work[t].at # "insert",
           UNCHANGED <<counter, locked, contended>>,
           \A d \in Docs : doc[d].status = "NONE" => doc'[d] = doc[d]
    PROVE  CreatesInv' /\ AloneInv'
<1>1. \A u \in Txs : work'[u] = IF u = t THEN w ELSE work[u]
  BY DEF IInv, TypeOK
<1>2. CreatesInv'
  <2> SUFFICES ASSUME NEW u \in Txs, work'[u].at = "insert"
               PROVE  /\ locked'[<<work'[u].branch, work'[u].type>>] = u
                      /\ work'[u].number = counter'[<<work'[u].branch, work'[u].type>>]
                      /\ doc'[work'[u].doc].status = "NONE"
    BY DEF CreatesInv
  <2>1. work'[u] = work[u] /\ work[u].doc \in Docs
    BY <1>1 DEF IInv, Structure, WorkInv, Fits
  <2>2. QED
    BY <2>1 DEF IInv, Structure, CreatesInv
<1>3. AloneInv'
  <2> SUFFICES ASSUME NEW x \in Txs, NEW u \in Txs, x # u, work'[x].doc = work'[u].doc,
                      work'[x].doc # None
               PROVE  work'[x].doc \in contended' /\ work'[x].at # "insert"
    BY DEF AloneInv
  <2>1. work[x].doc = work[u].doc /\ work[x].doc # None /\ work'[x].doc = work[x].doc
    BY <1>1
  <2>2. QED
    BY <1>1, <2>1 DEF IInv, Structure, AloneInv
<1>4. QED
  BY <1>2, <1>3

\* A document at its first row for a line has that line at the quantity given.
LEMMA InsertLineStep ==
    ASSUME IInv, NEW t \in Txs, InsertLine(t)
    PROVE  IInv'
<1>0. work[t].at = "write" /\ work[t].op \in {"AddLine"} \cup Conversions
  BY DEF InsertLine
<1>1. PICK v : v = work[t] /\ v \in Request /\ Fits(v)
  BY DEF IInv, TypeOK, Structure, WorkInv
<1>2. v.doc \in Docs /\ v.doc # None /\ doc[v.doc].status # "NONE"
  BY <1>0, <1>1, NoneAssumption DEF Fits
<1>3. PICK w : w = (IF v.op = "AddLine" THEN Idle
                    ELSE [v EXCEPT !.at = "copy", !.line = None, !.qty = 0, !.number = 0,
                                   !.todo[v.line] = 0])
  OBVIOUS
<1>4. PICK m \in LineIds :
        /\ line[m].at = "new"
        /\ line' = [line EXCEPT ![m] = [at |-> "live", doc |-> v.doc, number |-> v.number,
                                        qty |-> v.qty, of |-> v.line]]
        /\ work' = [work EXCEPT ![t] = w]
        /\ UNCHANGED <<doc, link, counter, locked, out, booked, journal, queued, contended>>
  BY <1>1, <1>3 DEF InsertLine
<1>5. PICK r : r = [at |-> "live", doc |-> v.doc, number |-> v.number, qty |-> v.qty, of |-> v.line]
  OBVIOUS
<1>6. r \in Line /\ r.at = "live" /\ r.doc = v.doc
  BY <1>1, <1>5 DEF Request, Line
<1>7. line'[m] = r /\ \A l \in LineIds : l # m => line'[l] = line[l]
  BY <1>4, <1>5 DEF IInv, TypeOK
<1>8. w \in Request /\ w.at # "insert" /\ w.doc \in {v.doc, None}
  <2>1. CASE v.op = "AddLine"
    BY <1>3, <2>1, IdleIsRequest DEF Idle
  <2>2. CASE v.op # "AddLine"
    <3>1. [v.todo EXCEPT ![v.line] = 0] \in ByLine
      BY <1>1 DEF Request, ByLine
    <3>2. w = [v EXCEPT !.at = "copy", !.line = None, !.qty = 0, !.number = 0,
                        !.todo = [v.todo EXCEPT ![v.line] = 0]]
      BY <1>3, <2>2
    <3>3. QED
      BY <1>1, <3>1, <3>2 DEF Request
  <2>3. QED
    BY <2>1, <2>2
<1>9. TypeOK'
  BY <1>4, <1>5, <1>6, <1>8 DEF IInv, TypeOK
<1>10. /\ LineQty(v.doc, m)' \in Nat
       /\ \A d \in Docs, l \in LineIds :
            l # m \/ d # v.doc => LineQty(d, l)' = LineQty(d, l)
  <2>1. line[m].doc = None /\ v.qty \in Nat
    BY <1>1, <1>4 DEF IInv, Structure, LinesInv, Request
  <2>2. QED
    BY <1>2, <1>4, <1>5, <1>6, <1>7, <2>1, NoneAssumption DEF LineQty
<1>11. \A l \in LineIds : \A d : Owns(d, l) => Owns(d, l)' /\ l # m
  BY <1>4, <1>7 DEF Owns
<1>12. DocsInv' /\ LinesInv' /\ JournalInv'
  <2>1. DocsInv' /\ LinesInv'
    BY <1>2, <1>4, <1>6, <1>7 DEF IInv, Structure, DocsInv, LinesInv
  <2>2. JournalInv'
    BY <1>4, <1>11 DEF IInv, Structure, JournalInv
  <2>3. QED
    BY <2>1, <2>2
<1>13. CreatesInv' /\ AloneInv'
  BY <1>0, <1>1, <1>2, <1>4, <1>8, RequestMoves
<1>14. WorkInv'
  <2> SUFFICES ASSUME NEW u \in Txs PROVE Fits(work[u])'
    BY DEF WorkInv
  <2>1. CASE u # t
    <3>1. PICK x : work[u] = x /\ work'[u] = x /\ Fits(x)
      BY <1>4, <2>1 DEF IInv, TypeOK, Structure, WorkInv
    <3>2. x.doc = v.doc => x.doc \in contended
      BY <1>0, <1>1, <1>2, <2>1, <3>1, OthersNoticed
    <3>3. x.doc \notin contended => Current(work[u])'
      BY <1>4, <1>10, <3>1, <3>2 DEF Fits, Current, HasSources
    <3>4. QED
      BY <1>4, <1>11, <3>1, <3>3 DEF Fits
  <2>2. CASE u = t /\ v.op = "AddLine"
    BY <1>3, <1>4, <2>2, IdleIsRequest DEF IInv, TypeOK, Fits, Current, Idle
  <2>3. CASE u = t /\ v.op # "AddLine"
    <3>1. /\ w.at = "copy" /\ w.doc = v.doc /\ w.op = v.op /\ w.seen = v.seen
          /\ w.op \in Conversions
      BY <1>0, <1>1, <1>3, <2>3 DEF Request
    <3>2. work'[u] = w
      BY <1>4, <2>3 DEF IInv, TypeOK
    <3>3. \A l \in LineIds : w.seen[l] > 0 => Owns(w.doc, l)'
      BY <1>1, <1>11, <3>1 DEF Fits
    <3>4. v.doc \notin contended => doc[v.doc].status = "DRAFT"
      BY <1>0, <1>1 DEF Fits, Current, Conversions
    <3>5. QED
      BY <1>2, <1>4, <3>1, <3>2, <3>3, <3>4 DEF Fits, Current, Conversions
  <2>4. QED
    BY <2>1, <2>2, <2>3
<1>15. NumbersGapFree' /\ EInvoiceQueuedIffIssued'
  BY <1>4 DEF IInv, NumbersGapFree, Series, Given, EInvoiceQueuedIffIssued
<1>16. v.doc \notin contended => doc[v.doc].status = "DRAFT"
  BY <1>0, <1>1 DEF Fits, Current, Conversions
<1>17. out[m] = 0 /\ booked[m] = 0
  BY <1>4 DEF IInv, Structure, LinesInv
<1>18. StockInv'
  BY <1>4, <1>6, <1>7, <1>10, <1>16, <1>17 DEF IInv, Structure, LinesInv, Postings, StockInv, HasSources
<1>19. LedgerInv'
  BY <1>4, <1>6, <1>7, <1>10, <1>16, <1>17 DEF IInv, Structure, LinesInv, Postings, LedgerInv
<1>20. PostedInv'
  BY <1>4, <1>6, <1>7, <1>10, <1>16 DEF IInv, Structure, LinesInv, Postings, PostedInv
<1>21. QED
  BY <1>9, <1>12, <1>13, <1>14, <1>15, <1>18, <1>19, <1>20 DEF IInv, Structure, Postings

\* An edit changes one line of the request's document.
LEMMA ChangeLineStep ==
    ASSUME IInv, NEW t \in Txs, ChangeLine(t)
    PROVE  IInv'
<1>0. work[t].at = "write" /\ work[t].op \in {"UpdateLine", "DeleteLine"}
  BY DEF ChangeLine
<1>1. PICK v : v = work[t] /\ v \in Request /\ Fits(v)
  BY DEF IInv, TypeOK, Structure, WorkInv
<1>2. v.doc \in Docs /\ v.doc # None /\ v.line \in LineIds /\ line[v.line].doc = v.doc
  BY <1>0, <1>1, NoneAssumption DEF Fits, Owns
<1>3. PICK r : r = (IF v.op = "UpdateLine" THEN [line[v.line] EXCEPT !.qty = v.qty]
                                           ELSE [line[v.line] EXCEPT !.at = "deleted"])
  OBVIOUS
<1>4. /\ line[v.line].at = "live" /\ line' = [line EXCEPT ![v.line] = r]
      /\ work' = [work EXCEPT ![t] = Idle]
      /\ UNCHANGED <<doc, link, counter, locked, out, booked, journal, queued, contended>>
  BY <1>0, <1>1, <1>2, <1>3 DEF ChangeLine, IInv, TypeOK
<1>5. r \in Line /\ r.at \in {"live", "deleted"} /\ r.doc = v.doc
  <2>1. line[v.line] \in Line
    BY <1>2 DEF IInv, TypeOK
  <2>2. QED
    BY <1>1, <1>2, <1>3, <1>4, <2>1 DEF Line, Request
<1>6. line'[v.line] = r /\ \A l \in LineIds : l # v.line => line'[l] = line[l]
  BY <1>2, <1>4 DEF IInv, TypeOK
<1>7. TypeOK'
  BY <1>4, <1>5, IdleIsRequest DEF IInv, TypeOK
<1>8. \A d \in Docs, l \in LineIds : d # v.doc => LineQty(d, l)' = LineQty(d, l)
  BY <1>2, <1>5, <1>6 DEF LineQty
<1>9. \A l \in LineIds : line'[l].doc = line[l].doc /\ (line'[l].at = "new" <=> line[l].at = "new")
  BY <1>2, <1>4, <1>5, <1>6
<1>10. DocsInv' /\ LinesInv' /\ JournalInv'
  BY <1>4, <1>9 DEF IInv, Structure, DocsInv, LinesInv, JournalInv, Owns
<1>11. CreatesInv' /\ AloneInv'
  <2>1. Idle.at # "insert" /\ Idle.doc = None
    BY DEF Idle
  <2>2. QED
    BY <1>0, <1>1, <1>2, <1>4, <2>1, RequestMoves
<1>12. WorkInv'
  <2> SUFFICES ASSUME NEW u \in Txs PROVE Fits(work[u])'
    BY DEF WorkInv
  <2>1. CASE u # t
    <3>1. PICK x : work[u] = x /\ work'[u] = x /\ Fits(x)
      BY <1>4, <2>1 DEF IInv, TypeOK, Structure, WorkInv
    <3>2. x.doc = v.doc => x.doc \in contended
      BY <1>0, <1>1, <1>2, <2>1, <3>1, OthersNoticed
    <3>3. x.doc \notin contended => Current(work[u])'
      BY <1>4, <1>8, <3>1, <3>2 DEF Fits, Current, HasSources
    <3>4. QED
      BY <1>4, <1>9, <3>1, <3>3 DEF Fits, Owns
  <2>2. CASE u = t
    BY <1>4, <2>2, IdleIsRequest DEF IInv, TypeOK, Fits, Current, Idle
  <2>3. QED
    BY <2>1, <2>2
<1>13. NumbersGapFree' /\ EInvoiceQueuedIffIssued'
  BY <1>4 DEF IInv, NumbersGapFree, Series, Given, EInvoiceQueuedIffIssued
<1>14. v.doc \notin contended => doc[v.doc].status = "DRAFT"
  BY <1>0, <1>1 DEF Fits, Current
<1>15. StockInv'
  <2>1. \A d \in Docs : HasSources(d)' <=> HasSources(d)
    BY <1>4 DEF HasSources
  <2>2. QED
    BY <1>4, <1>8, <1>9, <1>14, <2>1 DEF IInv, Structure, LinesInv, Postings, StockInv
<1>16. LedgerInv'
  BY <1>4, <1>8, <1>9, <1>14 DEF IInv, Structure, LinesInv, Postings, LedgerInv
<1>17. PostedInv'
  BY <1>4, <1>8, <1>9, <1>14 DEF IInv, Structure, LinesInv, Postings, PostedInv
<1>18. QED
  BY <1>7, <1>10, <1>11, <1>12, <1>13, <1>15, <1>16, <1>17 DEF IInv, Structure, Postings

\* A conversion records its sources while its document is a draft.
LEMMA LinkSourcesStep ==
    ASSUME IInv, NEW t \in Txs, LinkSources(t)
    PROVE  IInv'
<1>0. work[t].at = "copy"
  BY DEF LinkSources
<1>1. PICK v : v = work[t] /\ v \in Request /\ Fits(v)
  BY DEF IInv, TypeOK, Structure, WorkInv
<1>2. v.doc \in Docs /\ v.doc # None
  BY <1>0, <1>1, NoneAssumption DEF Fits
<1>3. /\ link' = link \cup ({v.doc} \X v.sources)
      /\ work' = [work EXCEPT ![t] = Idle]
      /\ UNCHANGED <<doc, line, counter, locked, out, booked, journal, queued, contended>>
  BY <1>1 DEF LinkSources
<1>4. TypeOK'
  BY <1>1, <1>2, <1>3, IdleIsRequest DEF IInv, TypeOK, Request
<1>5. \A d : d # v.doc => (HasSources(d)' <=> HasSources(d))
  BY <1>3 DEF HasSources
<1>6. DocsInv' /\ LinesInv' /\ JournalInv'
  BY <1>3 DEF IInv, Structure, DocsInv, LinesInv, JournalInv, Owns
<1>7. CreatesInv' /\ AloneInv'
  <2>1. Idle.at # "insert" /\ Idle.doc = None
    BY DEF Idle
  <2>2. QED
    BY <1>0, <1>1, <1>2, <1>3, <2>1, RequestMoves
<1>8. WorkInv'
  <2> SUFFICES ASSUME NEW u \in Txs PROVE Fits(work[u])'
    BY DEF WorkInv
  <2>1. CASE u # t
    <3>1. PICK x : work[u] = x /\ work'[u] = x /\ Fits(x)
      BY <1>3, <2>1 DEF IInv, TypeOK, Structure, WorkInv
    <3>2. x.doc = v.doc => x.doc \in contended
      BY <1>0, <1>1, <1>2, <2>1, <3>1, OthersNoticed
    <3>3. x.doc \notin contended => Current(work[u])'
      <4>1. x.doc \notin contended /\ (x.linked <=> HasSources(x.doc))
                => (work[u].linked <=> HasSources(work[u].doc))'
        BY <1>5, <3>1, <3>2
      <4>2. QED
        BY <1>3, <3>1, <4>1 DEF Fits, Current, LineQty
    <3>4. QED
      BY <1>3, <3>1, <3>3 DEF Fits, Owns
  <2>2. CASE u = t
    BY <1>3, <2>2, IdleIsRequest DEF IInv, TypeOK, Fits, Current, Idle
  <2>3. QED
    BY <2>1, <2>2
<1>9. NumbersGapFree' /\ EInvoiceQueuedIffIssued'
  BY <1>3 DEF IInv, NumbersGapFree, Series, Given, EInvoiceQueuedIffIssued
<1>10. v.op # "CancelDocument"
  BY <1>0, <1>1 DEF Fits
<1>11. v.doc \notin contended => doc[v.doc].status = "DRAFT"
  BY <1>0, <1>1, <1>10 DEF Fits, Current
<1>12. StockInv'
  BY <1>3, <1>5, <1>10, <1>11 DEF IInv, Postings, StockInv, LineQty
<1>13. LedgerInv' /\ PostedInv'
  BY <1>3 DEF IInv, Postings, LedgerInv, PostedInv, LineQty
<1>14. QED
  BY <1>4, <1>6, <1>7, <1>8, <1>9, <1>12, <1>13 DEF IInv, Structure, Postings

\* What the legs of a line add up to.
LEMMA LegsAreInt ==
    ASSUME IInv, NEW v, Fits(v), v \in Request, NEW l \in LineIds
    PROVE  /\ StockOf(v, l) \in Int
           /\ RevenueSign(doc[v.doc].type) * v.seen[l] \in Int
           /\ ~Owns(v.doc, l) => /\ StockOf(v, l) = 0
                                 /\ RevenueSign(doc[v.doc].type) * v.seen[l] = 0
<1>1. v.seen[l] \in Nat
  BY DEF Request, ByLine
<1>2. ~Owns(v.doc, l) => v.seen[l] = 0
  BY <1>1 DEF Fits
<1>3. PICK s \in {-1, 0, 1} : s = StockSign(doc[v.doc].type)
  BY SignsAreInt
<1>4. PICK r \in {-1, 0, 1} : r = RevenueSign(doc[v.doc].type)
  BY SignsAreInt
<1>5. \A q \in Nat : s * q \in Int /\ r * q \in Int /\ s * 0 = 0 /\ r * 0 = 0
  OBVIOUS
<1>6. QED
  BY <1>1, <1>2, <1>3, <1>4, <1>5 DEF StockOf

\* A document that is issued keeps its type, branch, number and lines; the
\* requests on other documents notice nothing.
LEMMA IssueKeepsOthers ==
    ASSUME IInv, NEW t \in Txs, work[t].at = "write", NEW st \in {"FINALIZED", "CANCELLED"},
           doc' = [doc EXCEPT ![work[t].doc].status = st],
           work' = [work EXCEPT ![t] = Idle],
           \A d : d # work[t].doc => (HasSources(d)' <=> HasSources(d)),
           UNCHANGED <<line, counter, locked, contended>>
    PROVE  /\ DocsInv' /\ CreatesInv' /\ AloneInv' /\ WorkInv' /\ NumbersGapFree'
           /\ \A l \in LineIds : line[l].at # "new" => doc'[line[l].doc].status # "NONE"
           /\ \A d \in Docs : /\ doc'[d] \in Document
                              /\ doc'[d].type = doc[d].type /\ doc'[d].branch = doc[d].branch
                              /\ doc'[d].number = doc[d].number
                              /\ doc'[d].status = IF d = work[t].doc THEN st ELSE doc[d].status
<1>1. PICK v : v = work[t] /\ v \in Request /\ Fits(v)
  BY DEF IInv, TypeOK, Structure, WorkInv
<1>2. v.doc \in Docs /\ v.doc # None /\ doc[v.doc].status # "NONE"
  BY <1>1, NoneAssumption DEF Fits
<1>3. \A d \in Docs : /\ doc'[d] \in Document
                      /\ doc'[d].type = doc[d].type /\ doc'[d].branch = doc[d].branch
                      /\ doc'[d].number = doc[d].number
                      /\ doc'[d].status = IF d = v.doc THEN st ELSE doc[d].status
  BY <1>1, <1>2 DEF IInv, TypeOK, Document
<1>4. DocsInv' /\ \A l \in LineIds : line[l].at # "new" => doc'[line[l].doc].status # "NONE"
  BY <1>2, <1>3 DEF IInv, Structure, DocsInv, LinesInv
<1>5. CreatesInv' /\ AloneInv'
  <2>1. Idle.at # "insert" /\ Idle.doc = None
    BY DEF Idle
  <2>2. \A d \in Docs : doc[d].status = "NONE" => doc'[d] = doc[d]
    BY <1>1, <1>2 DEF IInv, TypeOK
  <2>3. QED
    BY <1>1, <1>2, <2>1, <2>2, RequestMoves
<1>6. WorkInv'
  <2> SUFFICES ASSUME NEW u \in Txs PROVE Fits(work[u])'
    BY DEF WorkInv
  <2>1. CASE u # t
    <3>1. PICK x : work[u] = x /\ work'[u] = x /\ Fits(x)
      BY <2>1 DEF IInv, TypeOK, Structure, WorkInv
    <3>2. x.doc = v.doc => x.doc \in contended /\ x.at # "insert"
      BY <1>1, <1>2, <2>1, <3>1, OthersNoticed
    <3>3. x.doc \notin contended => Current(work[u])'
      <4>1. x.doc \notin contended /\ (x.linked <=> HasSources(x.doc))
                => (work[u].linked <=> HasSources(work[u].doc))'
        BY <1>1, <3>1, <3>2
      <4>2. x.doc \notin contended /\ x.doc \in Docs => doc'[x.doc].status = doc[x.doc].status
        BY <1>3, <3>2
      <4>3. QED
        BY <3>1, <4>1, <4>2 DEF Fits, Current, LineQty
    <3>4. x.doc \in Docs /\ doc[x.doc].status \in {"FINALIZED", "CANCELLED"}
              => doc'[x.doc].status \in {"FINALIZED", "CANCELLED"}
      BY <1>3
    <3>5. x.doc \in Docs /\ doc[x.doc].status # "NONE" => doc'[x.doc].status # "NONE"
      BY <1>3
    <3>6. QED
      BY <3>1, <3>3, <3>4, <3>5 DEF Fits, Owns
  <2>2. CASE u = t
    BY <2>2, IdleIsRequest DEF IInv, TypeOK, Fits, Current, Idle
  <2>3. QED
    BY <2>1, <2>2
<1>7. NumbersGapFree'
  <2>1. \A b \in Branches, ty \in Types : Series(b, ty)' = Series(b, ty) /\ Given(b, ty)' = Given(b, ty)
    BY <1>3 DEF Series, Given
  <2>2. \A b \in Branches, ty \in Types : \A d \in Series(b, ty) : doc'[d].number = doc[d].number
    BY <1>3 DEF Series
  <2>3. QED
    BY <2>1, <2>2 DEF IInv, NumbersGapFree
<1>8. QED
  BY <1>1, <1>3, <1>4, <1>5, <1>6, <1>7

\* Finalising posts the lines as they were read and as they are.
LEMMA CommitFinalizeStep ==
    ASSUME IInv, NEW t \in Txs, CommitFinalize(t)
    PROVE  IInv'
<1>0. work[t].at = "write" /\ work[t].op = "FinalizeDocument"
  BY DEF CommitFinalize
<1>1. PICK v : v = work[t] /\ v \in Request /\ Fits(v)
  BY DEF IInv, TypeOK, Structure, WorkInv
<1>2. v.doc \in Docs /\ v.doc # None /\ doc[v.doc].status # "NONE"
  BY <1>0, <1>1, NoneAssumption DEF Fits
<1>3. PICK ty : ty = doc[v.doc].type /\ ty \in Types
  BY <1>2 DEF IInv, Structure, DocsInv
<1>4. /\ out' = [l \in LineIds |-> out[l] + StockOf(v, l)]
      /\ booked' = [l \in LineIds |-> booked[l] + RevenueSign(ty) * v.seen[l]]
      /\ journal' = [journal EXCEPT ![v.doc] = IF ty \in RevenueAffecting THEN v.seen ELSE @]
      /\ doc' = [doc EXCEPT ![v.doc].status = "FINALIZED"]
      /\ queued' = IF ty = "TAX_INVOICE" THEN queued \cup {v.doc} ELSE queued
      /\ work' = [work EXCEPT ![t] = Idle]
      /\ UNCHANGED <<line, link, counter, locked, contended>>
  BY <1>1, <1>3 DEF CommitFinalize
<1>5. \A d : HasSources(d)' <=> HasSources(d)
  BY <1>4 DEF HasSources
<1>6. /\ DocsInv' /\ CreatesInv' /\ AloneInv' /\ WorkInv' /\ NumbersGapFree'
      /\ \A l \in LineIds : line[l].at # "new" => doc'[line[l].doc].status # "NONE"
      /\ \A d \in Docs : /\ doc'[d] \in Document
                         /\ doc'[d].type = doc[d].type
                         /\ doc'[d].status = IF d = v.doc THEN "FINALIZED" ELSE doc[d].status
  <2>1. /\ doc' = [doc EXCEPT ![work[t].doc].status = "FINALIZED"]
        /\ \A d : d # work[t].doc => (HasSources(d)' <=> HasSources(d))
        /\ UNCHANGED <<line, counter, locked, contended>>
    BY <1>1, <1>4, <1>5
  <2>2. work[t].at = "write" /\ work' = [work EXCEPT ![t] = Idle] /\ "FINALIZED" \in {"FINALIZED", "CANCELLED"}
    BY <1>0, <1>4
  <2>3. /\ DocsInv' /\ CreatesInv' /\ AloneInv' /\ WorkInv' /\ NumbersGapFree'
        /\ \A l \in LineIds : line[l].at # "new" => doc'[line[l].doc].status # "NONE"
        /\ \A d \in Docs : /\ doc'[d] \in Document
                           /\ doc'[d].type = doc[d].type /\ doc'[d].branch = doc[d].branch
                           /\ doc'[d].number = doc[d].number
                           /\ doc'[d].status = IF d = work[t].doc THEN "FINALIZED" ELSE doc[d].status
    BY ONLY IInv, t \in Txs, <2>1, <2>2, IssueKeepsOthers
  <2>4. QED
    BY <1>1, <2>3
<1>7. \A l \in LineIds : /\ StockOf(v, l) \in Int /\ RevenueSign(ty) * v.seen[l] \in Int
                         /\ ~Owns(v.doc, l) => StockOf(v, l) = 0 /\ RevenueSign(ty) * v.seen[l] = 0
  BY <1>1, <1>3, LegsAreInt
<1>8. \A l \in LineIds : out[l] \in Int /\ booked[l] \in Int
  BY DEF IInv, TypeOK
<1>9. \A l \in LineIds : /\ out'[l] \in Int /\ booked'[l] \in Int
                         /\ ~Owns(v.doc, l) => out'[l] = out[l] /\ booked'[l] = booked[l]
  BY <1>4, <1>7, <1>8
<1>10. TypeOK'
  <2>1. doc' \in [Docs -> Document]
    BY <1>4, <1>6 DEF IInv, TypeOK
  <2>2. out' \in [LineIds -> Int] /\ booked' \in [LineIds -> Int]
    BY <1>4, <1>9
  <2>3. journal' \in [Docs -> ByLine]
    BY <1>1, <1>4 DEF IInv, TypeOK, Request
  <2>4. QED
    BY <1>2, <1>4, <2>1, <2>2, <2>3, IdleIsRequest DEF IInv, TypeOK
<1>11. \A d \in Docs : journal'[d] = IF d = v.doc /\ ty \in RevenueAffecting THEN v.seen ELSE journal[d]
  BY <1>4 DEF IInv, TypeOK
<1>12. LinesInv' /\ JournalInv'
  <2>1. LinesInv'
    BY <1>4, <1>6, <1>9 DEF IInv, Structure, LinesInv, Owns
  <2>2. JournalInv'
    BY <1>1, <1>4, <1>11 DEF IInv, Structure, JournalInv, Owns, Fits
  <2>3. QED
    BY <2>1, <2>2
<1>13. EInvoiceQueuedIffIssued'
  BY <1>2, <1>3, <1>4, <1>6 DEF IInv, EInvoiceQueuedIffIssued
<1>14. v.doc \notin contended => /\ doc[v.doc].status = "DRAFT" /\ (v.linked <=> HasSources(v.doc))
                                 /\ \A l \in LineIds : v.seen[l] = LineQty(v.doc, l)
  BY <1>0, <1>1 DEF Fits, Current
<1>15. \A d, l : LineQty(d, l)' = LineQty(d, l)
  BY <1>4 DEF LineQty
<1>16. StockInv'
  <2> SUFFICES ASSUME NEW l \in LineIds, NEW d \in Docs, d = line[l].doc, line[l].at # "new", d \notin contended
               PROVE  out'[l] = IF doc'[d].status = "FINALIZED" /\ ~HasSources(d)
                                THEN StockSign(doc[d].type) * LineQty(d, l) ELSE 0
    BY <1>4, <1>5, <1>6, <1>15 DEF StockInv, IInv, Structure, LinesInv
  <2>1. out[l] = IF doc[d].status = "FINALIZED" /\ ~HasSources(d)
                 THEN StockSign(doc[d].type) * LineQty(d, l) ELSE 0
    BY DEF IInv, Postings, StockInv
  <2>2. CASE d = v.doc
    BY <1>4, <1>6, <1>7, <1>14, <2>1, <2>2 DEF StockOf
  <2>3. CASE d # v.doc
    BY <1>6, <1>9, <2>1, <2>3 DEF Owns
  <2>4. QED
    BY <2>2, <2>3
<1>17. LedgerInv'
  <2> SUFFICES ASSUME NEW l \in LineIds, NEW d \in Docs, d = line[l].doc, line[l].at # "new", d \notin contended
               PROVE  booked'[l] = IF doc'[d].status = "FINALIZED"
                                   THEN RevenueSign(doc[d].type) * LineQty(d, l) ELSE 0
    BY <1>4, <1>6, <1>15 DEF LedgerInv, IInv, Structure, LinesInv
  <2>1. booked[l] = IF doc[d].status = "FINALIZED" THEN RevenueSign(doc[d].type) * LineQty(d, l) ELSE 0
    BY DEF IInv, Postings, LedgerInv
  <2>2. CASE d = v.doc
    BY <1>3, <1>4, <1>6, <1>7, <1>14, <2>1, <2>2
  <2>3. CASE d # v.doc
    BY <1>6, <1>9, <2>1, <2>3 DEF Owns
  <2>4. QED
    BY <2>2, <2>3
<1>18. PostedInv'
  BY <1>3, <1>4, <1>6, <1>11, <1>14, <1>15 DEF IInv, Structure, LinesInv, Postings, PostedInv
<1>19. QED
  BY <1>6, <1>10, <1>12, <1>13, <1>16, <1>17, <1>18 DEF IInv, Structure, Postings

\* Cancelling takes back what finalising posted.
LEMMA CommitCancelStep ==
    ASSUME IInv, NEW t \in Txs, CommitCancel(t)
    PROVE  IInv'
<1>0. work[t].at = "write" /\ work[t].op = "CancelDocument"
  BY DEF CommitCancel
<1>1. PICK v : v = work[t] /\ v \in Request /\ Fits(v)
  BY DEF IInv, TypeOK, Structure, WorkInv
<1>2. v.doc \in Docs /\ v.doc # None /\ doc[v.doc].status \in {"FINALIZED", "CANCELLED"}
  BY <1>0, <1>1, NoneAssumption DEF Fits
<1>3. PICK ty : ty = doc[v.doc].type /\ ty \in Types
  BY <1>2 DEF IInv, Structure, DocsInv
<1>4. /\ out' = [l \in LineIds |-> out[l] - StockOf(v, l)]
      /\ booked' = [l \in LineIds |-> booked[l] - RevenueSign(ty) * journal[v.doc][l]]
      /\ link' = {p \in link : p[1] # v.doc}
      /\ doc' = [doc EXCEPT ![v.doc].status = "CANCELLED"]
      /\ work' = [work EXCEPT ![t] = Idle]
      /\ UNCHANGED <<line, counter, locked, journal, queued, contended>>
  BY <1>1, <1>3 DEF CommitCancel
<1>5. \A d : d # v.doc => (HasSources(d)' <=> HasSources(d))
  BY <1>4 DEF HasSources
<1>6. /\ DocsInv' /\ CreatesInv' /\ AloneInv' /\ WorkInv' /\ NumbersGapFree'
      /\ \A l \in LineIds : line[l].at # "new" => doc'[line[l].doc].status # "NONE"
      /\ \A d \in Docs : /\ doc'[d] \in Document
                         /\ doc'[d].type = doc[d].type
                         /\ doc'[d].status = IF d = v.doc THEN "CANCELLED" ELSE doc[d].status
  <2>1. /\ doc' = [doc EXCEPT ![work[t].doc].status = "CANCELLED"]
        /\ \A d : d # work[t].doc => (HasSources(d)' <=> HasSources(d))
        /\ UNCHANGED <<line, counter, locked, contended>>
    BY <1>1, <1>4, <1>5
  <2>2. work[t].at = "write" /\ work' = [work EXCEPT ![t] = Idle] /\ "CANCELLED" \in {"FINALIZED", "CANCELLED"}
    BY <1>0, <1>4
  <2>3. /\ DocsInv' /\ CreatesInv' /\ AloneInv' /\ WorkInv' /\ NumbersGapFree'
        /\ \A l \in LineIds : line[l].at # "new" => doc'[line[l].doc].status # "NONE"
        /\ \A d \in Docs : /\ doc'[d] \in Document
                           /\ doc'[d].type = doc[d].type /\ doc'[d].branch = doc[d].branch
                           /\ doc'[d].number = doc[d].number
                           /\ doc'[d].status = IF d = work[t].doc THEN "CANCELLED" ELSE doc[d].status
    BY ONLY IInv, t \in Txs, <2>1, <2>2, IssueKeepsOthers
  <2>4. QED
    BY <1>1, <2>3
<1>7. \A l \in LineIds : /\ StockOf(v, l) \in Int
                         /\ ~Owns(v.doc, l) => StockOf(v, l) = 0
  BY <1>1, LegsAreInt
<1>8. \A l \in LineIds : /\ RevenueSign(ty) * journal[v.doc][l] \in Int
                         /\ ~Owns(v.doc, l) => RevenueSign(ty) * journal[v.doc][l] = 0
  <2> SUFFICES ASSUME NEW l \in LineIds
               PROVE  /\ RevenueSign(ty) * journal[v.doc][l] \in Int
                      /\ ~Owns(v.doc, l) => RevenueSign(ty) * journal[v.doc][l] = 0
    OBVIOUS
  <2>1. journal[v.doc][l] \in Nat
    BY <1>2 DEF IInv, TypeOK, ByLine
  <2>2. ~Owns(v.doc, l) => journal[v.doc][l] = 0
    BY <1>2, <2>1 DEF IInv, Structure, JournalInv
  <2>3. PICK r \in {-1, 0, 1} : r = RevenueSign(ty)
    BY SignsAreInt
  <2>4. \A q \in Nat : r * q \in Int /\ r * 0 = 0
    OBVIOUS
  <2>5. QED
    BY <2>1, <2>2, <2>3, <2>4
<1>9. \A l \in LineIds : out[l] \in Int /\ booked[l] \in Int
  BY DEF IInv, TypeOK
<1>10. \A l \in LineIds : /\ out'[l] \in Int /\ booked'[l] \in Int
                          /\ ~Owns(v.doc, l) => out'[l] = out[l] /\ booked'[l] = booked[l]
  BY <1>4, <1>7, <1>8, <1>9
<1>11. TypeOK'
  <2>1. doc' \in [Docs -> Document]
    BY <1>4, <1>6 DEF IInv, TypeOK
  <2>2. out' \in [LineIds -> Int] /\ booked' \in [LineIds -> Int]
    BY <1>4, <1>10
  <2>3. QED
    BY <1>4, <2>1, <2>2, IdleIsRequest DEF IInv, TypeOK
<1>12. LinesInv' /\ JournalInv'
  <2>1. LinesInv'
    BY <1>4, <1>6, <1>10 DEF IInv, Structure, LinesInv, Owns
  <2>2. JournalInv'
    BY <1>4 DEF IInv, Structure, JournalInv, Owns
  <2>3. QED
    BY <2>1, <2>2
<1>13. EInvoiceQueuedIffIssued'
  BY <1>2, <1>4, <1>6 DEF IInv, EInvoiceQueuedIffIssued
<1>14. v.doc \notin contended => /\ doc[v.doc].status = "FINALIZED" /\ (v.linked <=> HasSources(v.doc))
                                 /\ \A l \in LineIds : v.seen[l] = LineQty(v.doc, l)
  BY <1>0, <1>1 DEF Fits, Current
<1>15. \A d, l : LineQty(d, l)' = LineQty(d, l)
  BY <1>4 DEF LineQty
<1>16. StockInv'
  <2> SUFFICES ASSUME NEW l \in LineIds, NEW d \in Docs, d = line[l].doc, line[l].at # "new", d \notin contended
               PROVE  out'[l] = IF doc'[d].status = "FINALIZED" /\ ~(HasSources(d)')
                                THEN StockSign(doc[d].type) * LineQty(d, l) ELSE 0
    BY <1>4, <1>6, <1>15 DEF StockInv, IInv, Structure, LinesInv
  <2>1. out[l] = IF doc[d].status = "FINALIZED" /\ ~HasSources(d)
                 THEN StockSign(doc[d].type) * LineQty(d, l) ELSE 0
    BY DEF IInv, Postings, StockInv
  <2>2. CASE d = v.doc
    <3>1. out[l] = StockOf(v, l)
      BY <1>14, <2>1, <2>2 DEF StockOf
    <3>2. QED
      BY <1>4, <1>6, <1>7, <2>2, <3>1
  <2>3. CASE d # v.doc
    BY <1>5, <1>6, <1>10, <2>1, <2>3 DEF Owns
  <2>4. QED
    BY <2>2, <2>3
<1>17. LedgerInv'
  <2> SUFFICES ASSUME NEW l \in LineIds, NEW d \in Docs, d = line[l].doc, line[l].at # "new", d \notin contended
               PROVE  booked'[l] = IF doc'[d].status = "FINALIZED"
                                   THEN RevenueSign(doc[d].type) * LineQty(d, l) ELSE 0
    BY <1>4, <1>6, <1>15 DEF LedgerInv, IInv, Structure, LinesInv
  <2>1. booked[l] = IF doc[d].status = "FINALIZED" THEN RevenueSign(doc[d].type) * LineQty(d, l) ELSE 0
    BY DEF IInv, Postings, LedgerInv
  <2>2. CASE d = v.doc
    <3>1. booked[l] = RevenueSign(ty) * LineQty(d, l)
      BY <1>3, <1>14, <2>1, <2>2
    <3>2. RevenueSign(ty) * LineQty(d, l) = RevenueSign(ty) * journal[d][l]
      <4>1. CASE ty \in RevenueAffecting
        BY <1>3, <1>14, <2>2, <4>1 DEF IInv, Postings, PostedInv
      <4>2. CASE ty \notin RevenueAffecting
        <5>1. RevenueSign(ty) = 0
          BY <4>2 DEF RevenueSign
        <5>2. LineQty(d, l) \in Int /\ journal[d][l] \in Int
          BY DEF IInv, TypeOK, Line, LineQty, ByLine
        <5>3. QED
          BY <5>1, <5>2
      <4>3. QED
        BY <4>1, <4>2
    <3>3. QED
      BY <1>4, <1>6, <1>9, <2>2, <3>1, <3>2
  <2>3. CASE d # v.doc
    BY <1>6, <1>10, <2>1, <2>3 DEF Owns
  <2>4. QED
    BY <2>2, <2>3
<1>18. PostedInv'
  BY <1>4, <1>6, <1>15 DEF IInv, Structure, LinesInv, Postings, PostedInv
<1>19. QED
  BY <1>6, <1>11, <1>12, <1>13, <1>16, <1>17, <1>18 DEF IInv, Structure, Postings

-----------------------------------------------------------------------------
(* Theorems *)

\* The invariant holds in every state the code can reach.
THEOREM Invariance == Spec => []IInv
<1>1. Init => IInv
  BY InitIInv
<1>2. IInv /\ [Next]_vars => IInv'
  <2> SUFFICES ASSUME IInv, [Next]_vars PROVE IInv'
    OBVIOUS
  <2>1. CASE Next
    <3>1. PICK t \in Txs : Begins(t) \/ Reads(t) \/ Commits(t) \/ End(t)
      BY <2>1 DEF Next
    <3>2. CASE Begins(t) \/ Reads(t) \/ End(t)
      BY <3>2, BeginsStep, ReadsStep, EndStep
    <3>3. CASE Commits(t)
      BY <3>3, TakeNumberStep, InsertDocumentStep, InsertLineStep, ChangeLineStep,
         LinkSourcesStep, CommitFinalizeStep, CommitCancelStep DEF Commits
    <3>4. QED
      BY <3>1, <3>2, <3>3
  <2>2. CASE UNCHANGED vars
    <3>1. UNCHANGED <<doc, line, link, counter, locked, out, booked, journal, queued, work, contended>>
      BY <2>2 DEF vars
    <3>2. TypeOK' /\ CreatesInv' /\ AloneInv'
      BY <3>1 DEF IInv, TypeOK, Structure, CreatesInv, AloneInv
    <3>3. WorkInv'
      BY <3>1 DEF IInv, Structure, WorkInv, Fits, Current, Owns, LineQty, HasSources
    <3>4. QED
      BY <3>1, <3>2, <3>3, RestKept DEF IInv, Structure
  <2>3. QED
    BY <2>1, <2>2
<1>3. QED
  BY <1>1, <1>2, PTL DEF Spec

\* Every variable keeps its type.
THEOREM TypeCorrect == Spec => []TypeOK
<1>1. IInv => TypeOK
  BY DEF IInv
<1>2. QED
  BY <1>1, Invariance, PTL

\* The numbers of a branch and type never have a gap or a repetition, whatever
\* requests race, fail or crash (numbering.Next).
THEOREM NumberSeriesHaveNoGaps == Spec => []NumbersGapFree
<1>1. IInv => NumbersGapFree
  BY DEF IInv
<1>2. QED
  BY <1>1, Invariance, PTL

\* An e-invoice is asked for the issued tax invoices and for nothing else
\* (FinalizeDocument enqueues in its transaction).
THEOREM EInvoicesAreQueued == Spec => []EInvoiceQueuedIffIssued
<1>1. IInv => EInvoiceQueuedIffIssued
  BY DEF IInv
<1>2. QED
  BY <1>1, Invariance, PTL

\* Stock and ledger follow every document that requests worked on one at a time
\* (FinalizeDocument, CancelDocument).
THEOREM PostingsFollowDocument == Spec => [](StockFollowsDocument /\ LedgerFollowsDocument)
<1>1. IInv => StockFollowsDocument /\ LedgerFollowsDocument
  <2> SUFFICES ASSUME IInv, NEW d \in Docs \ contended, NEW l \in LineIds, line[l].doc = d
               PROVE  /\ out[l] = IF doc[d].status = "FINALIZED" /\ ~HasSources(d)
                                  THEN StockSign(doc[d].type) * QtyOf(d)[l] ELSE 0
                      /\ booked[l] = IF doc[d].status = "FINALIZED"
                                     THEN RevenueSign(doc[d].type) * QtyOf(d)[l] ELSE 0
    BY DEF StockFollowsDocument, LedgerFollowsDocument
  <2>1. line[l].at # "new"
    BY NoneAssumption DEF IInv, Structure, LinesInv
  <2>2. QtyOf(d)[l] = LineQty(d, l)
    BY DEF QtyOf, LinesOf, LineQty
  <2>3. QED
    BY <2>1, <2>2 DEF IInv, Postings, StockInv, LedgerInv
<1>2. QED
  BY <1>1, Invariance, PTL

\* The ledger alone: the journal a cancellation reverses is the one finalising
\* posted (ReverseJournalForSourceTx).
THEOREM LedgerFollows == Spec => []LedgerFollowsDocument
BY PostingsFollowDocument, PTL

\* An issued document that requests worked on one at a time keeps its lines and
\* changes only from finalised to cancelled (ErrDocumentNotDraft).
THEOREM IssuedDocumentsAreImmutable == Spec => IssuedIsImmutable
<1> DEFINE Kept(d) == /\ QtyOf(d)' = QtyOf(d)
                      /\ doc'[d] = doc[d] \/ (/\ doc[d].status = "FINALIZED"
                                             /\ doc'[d] = [doc[d] EXCEPT !.status = "CANCELLED"])
<1>1. ASSUME IInv, Next, NEW d \in Docs \ contended', doc[d].status \in {"FINALIZED", "CANCELLED"}
      PROVE  Kept(d)
  <2>1. PICK t \in Txs : Begins(t) \/ Reads(t) \/ Commits(t) \/ End(t)
    BY <1>1 DEF Next
  <2>2. PICK v : v = work[t] /\ Fits(v)
    BY <1>1 DEF IInv, Structure, WorkInv
  <2>3. ASSUME UNCHANGED <<doc, line>> PROVE Kept(d)
    BY <2>3 DEF QtyOf, LinesOf
  <2>4. CASE Begins(t) \/ Reads(t) \/ End(t) \/ TakeNumber(t) \/ LinkSources(t)
    <3>1. UNCHANGED <<doc, line>>
      BY <2>4 DEF Begins, CreateDocument, AddLine, UpdateLine, DeleteLine, FinalizeDocument,
         CancelDocument, ConvertDocument, ConvertDeliveryNotes, Open, Reads, BilledSources,
         ReadLines, ReadSources, CopyLine, Goes, End, TakeNumber, LinkSources
    <3>2. QED
      BY <2>3, <3>1
  <2>5. CASE InsertDocument(t)
    <3>1. v.at = "insert" /\ doc[v.doc].status = "NONE"
      BY <1>1, <2>2, <2>5 DEF InsertDocument, IInv, Structure, CreatesInv
    <3>2. doc'[d] = doc[d] /\ line' = line
      BY <1>1, <2>2, <2>5, <3>1 DEF InsertDocument, IInv, TypeOK
    <3>3. QED
      BY <3>2 DEF QtyOf, LinesOf
  <2>6. CASE InsertLine(t) \/ ChangeLine(t)
    <3>1. v.at = "write" /\ v.op # "CancelDocument" /\ contended' = contended /\ doc' = doc
      BY <2>2, <2>6 DEF InsertLine, ChangeLine, Conversions
    <3>2. v.doc # d
      BY <1>1, <2>2, <3>1 DEF Fits, Current
    <3>3. \A l \in LineIds : line'[l] = line[l] \/ (line[l].doc # d /\ line'[l].doc # d)
      <4>1. CASE InsertLine(t)
        <5>1. PICK m \in LineIds :
                /\ line[m].at = "new"
                /\ line' = [line EXCEPT ![m] = [at |-> "live", doc |-> v.doc, number |-> v.number,
                                                qty |-> v.qty, of |-> v.line]]
          BY <2>2, <4>1 DEF InsertLine
        <5>2. line[m].doc = None
          BY <1>1, <5>1 DEF IInv, Structure, LinesInv
        <5>3. QED
          BY <1>1, <3>2, <5>1, <5>2, NoneAssumption DEF IInv, TypeOK
      <4>2. CASE ChangeLine(t)
        <5>1. line[v.line].doc = v.doc /\ v.line \in LineIds
          BY <2>2, <4>2 DEF ChangeLine, Fits, Owns
        <5>2. line' = [line EXCEPT ![v.line].qty = v.qty] \/ line' = [line EXCEPT ![v.line].at = "deleted"]
          BY <2>2, <4>2 DEF ChangeLine
        <5>3. \A l \in LineIds : l # v.line => line'[l] = line[l]
          BY <1>1, <5>2 DEF IInv, TypeOK
        <5>4. line'[v.line].doc = line[v.line].doc
          BY <1>1, <5>1, <5>2 DEF IInv, TypeOK, Line
        <5>5. QED
          BY <3>2, <5>1, <5>3, <5>4
      <4>3. QED
        BY <2>6, <4>1, <4>2
    <3>4. QED
      BY <3>1, <3>3 DEF QtyOf, LinesOf
  <2>7. CASE CommitFinalize(t)
    <3>1. /\ v.at = "write" /\ v.op = "FinalizeDocument" /\ contended' = contended /\ line' = line
          /\ doc' = [doc EXCEPT ![v.doc].status = "FINALIZED"]
      BY <2>2, <2>7 DEF CommitFinalize
    <3>2. v.doc # d
      BY <1>1, <2>2, <3>1 DEF Fits, Current
    <3>3. QED
      BY <1>1, <3>1, <3>2 DEF IInv, TypeOK, QtyOf, LinesOf
  <2>8. CASE CommitCancel(t)
    <3>1. /\ v.at = "write" /\ v.op = "CancelDocument" /\ contended' = contended /\ line' = line
          /\ doc' = [doc EXCEPT ![v.doc].status = "CANCELLED"]
      BY <2>2, <2>8 DEF CommitCancel
    <3>2. v.doc = d => doc[d].status = "FINALIZED"
      BY <1>1, <2>2, <3>1 DEF Fits, Current
    <3>3. QED
      BY <1>1, <3>1, <3>2 DEF IInv, TypeOK, QtyOf, LinesOf
  <2>9. QED
    BY <2>1, <2>4, <2>5, <2>6, <2>7, <2>8 DEF Commits
<1>2. IInv /\ [Next]_vars =>
        [\A d \in Docs \ contended' : doc[d].status \in {"FINALIZED", "CANCELLED"} => Kept(d)]_vars
  BY <1>1
<1>3. QED
  BY <1>2, Invariance, PTL DEF Spec, IssuedIsImmutable

-----------------------------------------------------------------------------
(* DataSync: the inductive invariant *)

\* A table has taken a change in, or its row has gone apart: it has had the row, and
\* holds that change, a newer one, or none any more.
TakenIn(tab, had, gone, c) ==
    \/ c.row \in gone
    \/ c.row \in had /\ (tab[c.row] = 0 \/ (c.at > 0 /\ tab[c.row] >= c.at))

Settled(t, c) == TakenIn(table[t], seen[t], apart, c)

\* What of a log is committed up to a place is taken in.
CoveredBy(entries, tab, had, gone, place) ==
    \A i \in 1 .. Len(entries) : i <= place /\ entries[i].state = "done" => TakenIn(tab, had, gone, entries[i])

Covers(t, s, place) == CoveredBy(log[s], table[t], seen[t], apart, place)

\* A device logs its own writes only, the server its own and those pushed to it.
AuthorsSound ==
    /\ \A d \in Devices : \A i \in 1 .. Len(log[d]) : log[d][i].by = d /\ log[d][i].origin = <<>>
    /\ \A i \in 1 .. Len(log[Server]) :
          \/ log[Server][i].by = Server /\ log[Server][i].origin = <<>>
          \/ /\ log[Server][i].by \in Devices /\ log[Server][i].state = "done"
             /\ \E g \in 1 .. links[log[Server][i].by].gen : log[Server][i].origin = <<log[Server][i].by, g>>

\* Writes are of rows that were created, before now; one time has one author, unless
\* its row went apart, and a row without an updated_at one time.
TimesSound ==
    /\ \A s \in Sites : \A i \in 1 .. Len(log[s]) : log[s][i].row \in born /\ log[s][i].at <= clock
    /\ \A s, t \in Sites : \A i \in 1 .. Len(log[s]), j \in 1 .. Len(log[t]) :
          /\ log[s][i].at > 0 /\ log[s][i].at = log[t][j].at
                => log[s][i].by = log[t][j].by \/ log[s][i].row \in apart \/ log[t][j].row \in apart
          /\ log[s][i].row = log[t][j].row /\ log[s][i].row \notin Dated /\ log[s][i].at > 0 /\ log[t][j].at > 0
                => log[s][i].at = log[t][j].at

\* What a site holds of a row, or that it has it no more, is in its log or the server's.
Logged(s, r) ==
    \E x \in {s, Server} : \E i \in 1 .. Len(log[x]) :
        log[x][i].state = "done" /\ log[x][i].row = r /\ log[x][i].at = table[s][r]

TablesSound ==
    \A s \in Sites, r \in Rows : (table[s][r] > 0 => r \in seen[s]) /\ (r \in seen[s] => Logged(s, r))

\* A transaction underway has its row for itself.
OpenSound ==
    \A s \in Sites : \A i \in 1 .. Len(log[s]) : log[s][i].state = "open" =>
        /\ log[s][i].at > 0 => log[s][i].at > table[s][log[s][i].row] \/ log[s][i].row \in apart
        /\ table[s][log[s][i].row] > 0 \/ (log[s][i].at > 0 /\ log[s][i].row \notin seen[s])
        /\ \A j \in 1 .. Len(log[s]) : log[s][j].state = "open" /\ log[s][j].row = log[s][i].row => i = j

\* A committed change is settled where it is logged and where it was made.
LogsSettled ==
    \A s \in Sites : \A i \in 1 .. Len(log[s]) : log[s][i].state = "done" =>
        Settled(s, log[s][i]) /\ Settled(log[s][i].by, log[s][i])

LinkFits(d, l) ==
    /\ l.on => l.gen > 0
    /\ l.pushed <= Len(log[d]) /\ l.pulled <= Len(log[Server])
    /\ Covers(Server, d, l.pushed) /\ Covers(d, Server, l.pulled)

\* A cursor is of a log, and what is before it is taken in.
LinksSound == \A d \in Devices : LinkFits(d, links[d])

\* A batch is of committed changes of a log; what is before its end is taken in or in it.
BatchFits(entries, tab, had, gone, batch, top) ==
    /\ top <= Len(entries)
    /\ \A k \in 1 .. Len(batch) : \E i \in 1 .. Len(entries) : entries[i] = batch[k] /\ entries[i].state = "done"
    /\ \A i \in 1 .. Len(entries) : i <= top /\ entries[i].state = "done" =>
          TakenIn(tab, had, gone, entries[i]) \/ \E k \in 1 .. Len(batch) : batch[k] = entries[i]

BatchSound(t, s, batch, top) == BatchFits(log[s], table[t], seen[t], apart, batch, top)

\* Where a round stands, too, at the end of a page or in the middle of it.
RoundFits(d, x) ==
    /\ x.gen \in 1 .. links[d].gen
    /\ Covers(Server, d, x.pushed) /\ Covers(d, Server, x.pulled)
    /\ x.pc = "send" => BatchSound(Server, d, x.batch, x.top)
    /\ x.pc = "sent" => x.top <= Len(log[d]) /\ Covers(Server, d, x.top)
    /\ x.pc \in {"send", "sent"} => x.top > x.pushed
    /\ x.pc = "apply" =>
          /\ BatchSound(d, Server, x.batch, x.top)
          /\ \A k \in 1 .. Len(x.batch) : x.batch[k].origin # <<d, x.gen>>
    /\ x.pc = "applied" => x.top <= Len(log[Server]) /\ Covers(d, Server, x.top)
    /\ x.pc \in {"apply", "applied"} /\ x.more => x.top > x.pulled

RoundSound(w) == RoundFits(InstallOf[w], round[w])

RoundsSound == \A w \in Runners : round[w].pc # "idle" => RoundSound(w)

SyncInv ==
    /\ SyncTypeOK /\ AuthorsSound /\ TimesSound /\ TablesSound /\ OpenSound
    /\ LogsSettled /\ LinksSound /\ RoundsSound /\ LoggedOnce

-----------------------------------------------------------------------------
(* Pages and batches *)

\* Finitely many numbers have a greatest.
LEMMA GreatestIs ==
    ASSUME NEW n \in Nat, NEW S, S \subseteq 1 .. n, S # {}
    PROVE  Max(S) \in S /\ \A x \in S : x <= Max(S)
<1> DEFINE B == {m \in 0 .. n : \A x \in S : x <= m}
<1>1. PICK m \in B : \A k \in B : m <= k
  <2>1. B \subseteq Nat /\ n \in B
    OBVIOUS
  <2> HIDE DEF B
  <2> QED BY <2>1, LeastNat
<1>2. m \in 0 .. n /\ \A x \in S : x <= m
  OBVIOUS
<1>3. m \in S
  <2> SUFFICES ASSUME m \notin S PROVE FALSE
    OBVIOUS
  <2>1. \A x \in S : x \in 1 .. n /\ x <= m /\ x # m
    BY <1>2
  <2>2. PICK y \in S : y \in 1 .. n
    OBVIOUS
  <2>3. m - 1 \in 0 .. n /\ \A x \in S : x <= m - 1
    BY <1>2, <2>1, <2>2
  <2>4. m - 1 \in B
    BY <2>3
  <2>5. m <= m - 1
    <3> HIDE DEF B
    <3> QED BY <1>1, <2>4
  <2> QED BY <1>2, <2>5
<1>4. \E y \in S : \A x \in S : y >= x
  BY <1>2, <1>3
<1>5. Max(S) \in S /\ \A x \in S : Max(S) >= x
  BY <1>4 DEF Max
<1> QED BY <1>5

\* A page is the beginning of what was found, and not empty when something was.
LEMMA PageIs ==
    ASSUME NEW n \in Nat, NEW found, found \subseteq 1 .. n
    PROVE  /\ PageOf(found) \subseteq found
           /\ found # {} => PageOf(found) # {}
           /\ Cardinality(found) > Page => found # {}
           /\ \A i \in found, m \in PageOf(found) : i <= m => i \in PageOf(found)
<1> DEFINE Upto(i) == {j \in found : j <= i}
<1>1. IsFiniteSet(found) /\ \A i : IsFiniteSet(Upto(i)) /\ Cardinality(Upto(i)) \in Nat
  <2>1. IsFiniteSet(1 .. n)
    BY FS_Interval
  <2>2. IsFiniteSet(found) /\ \A i : IsFiniteSet(Upto(i))
    BY <2>1, FS_Subset
  <2> QED BY <2>2, FS_CardinalityType
<1>2. Page \in Nat /\ Page >= 1
  BY SyncAssumption
<1>3. PageOf(found) = {i \in found : Cardinality(Upto(i)) <= Page}
  BY DEF PageOf
<1>4. ASSUME found # {} PROVE PageOf(found) # {}
  <2>1. PICK i \in found : \A k \in found : i <= k
    <3>1. found \subseteq Nat
      OBVIOUS
    <3> QED BY <1>4, <3>1, LeastNat
  <2>2. Upto(i) = {i}
    <3>1. \A k \in found : k \in Nat
      OBVIOUS
    <3>2. i <= i /\ \A k \in found : k <= i => k = i
      BY <2>1, <3>1
    <3> QED BY <3>2
  <2>3. Cardinality(Upto(i)) = 1
    BY <2>2, FS_Singleton
  <2> QED BY <1>2, <1>3, <2>3
<1>5. Cardinality(found) > Page => found # {}
  <2>1. Cardinality({}) = 0
    BY FS_EmptySet
  <2> QED BY <1>2, <2>1
<1>6. ASSUME NEW i \in found, NEW m \in PageOf(found), i <= m PROVE i \in PageOf(found)
  <2>1. m \in found /\ Cardinality(Upto(m)) <= Page
    BY <1>3
  <2>2. Upto(i) \subseteq Upto(m)
    <3>1. \A k \in found : k \in Nat
      OBVIOUS
    <3>2. i \in Nat /\ m \in Nat /\ \A k \in found : k <= i => k <= m
      BY <1>6, <2>1, <3>1
    <3> QED BY <3>2
  <2>3. Cardinality(Upto(i)) <= Cardinality(Upto(m))
    BY <1>1, <2>2, FS_Subset
  <2> HIDE DEF Upto
  <2>4. Cardinality(Upto(i)) <= Page
    BY <1>1, <1>2, <2>1, <2>3
  <2> QED BY <1>3, <2>4
<1> QED BY <1>3, <1>4, <1>5, <1>6

\* A batch is the changes at its places, each of them and no other.
IsBatch(batch, entries, places) ==
    /\ batch \in Seq(Change)
    /\ \A k \in 1 .. Len(batch) : \E i \in 1 .. Len(entries) : i \in places /\ batch[k] = entries[i]
    /\ \A i \in 1 .. Len(entries) : i \in places => \E k \in 1 .. Len(batch) : batch[k] = entries[i]

LEMMA ChangesAre ==
    ASSUME NEW s, log[s] \in Seq(Change), NEW places
    PROVE  IsBatch(Changes(s, places), log[s], places)
<1> DEFINE n == Len(log[s])
           Whole(g) == [i \in 0 .. n |-> IF i = 0 THEN <<>>
                                         ELSE IF i \in places THEN Append(g[i - 1], log[s][i])
                                         ELSE g[i - 1]]
<1>1. n \in Nat /\ \A i \in 1 .. n : log[s][i] \in Change
  BY LenProperties, ElementOfSeq
<1>2. PICK X : X = Seq(Change)
  OBVIOUS
<1>3. PICK step : step = [i \in 1 .. n |-> [x \in X |-> IF i \in places THEN Append(x, log[s][i]) ELSE x]]
  OBVIOUS
<1>4. step \in [1 .. n -> [X -> X]]
  <2>1. ASSUME NEW i \in 1 .. n, NEW x \in X
        PROVE  (IF i \in places THEN Append(x, log[s][i]) ELSE x) \in X
    <3>1. log[s][i] \in Change /\ x \in Seq(Change)
      BY <1>1, <1>2
    <3>2. Append(x, log[s][i]) \in X
      BY <1>2, <3>1, AddAtEnd
    <3> QED BY <3>2
  <2> QED BY <1>3, <2>1
<1>5. PICK g \in [0 .. n -> X] : g[0] = <<>> /\ \A i \in 1 .. n : g[i] = step[i][g[i - 1]]
  <2>1. n \in Nat /\ <<>> \in X /\ step \in [1 .. n -> [X -> X]]
    BY <1>1, <1>2, <1>4
  <2> HIDE DEF n
  <2>2. \E g \in [0 .. n -> X] : Follows(g, n, <<>>, step)
    BY <2>1, RecursionHasSolution
  <2> QED BY <2>2 DEF Follows
<1>6. ASSUME NEW i \in 1 .. n
      PROVE  g[i - 1] \in X /\ g[i] = IF i \in places THEN Append(g[i - 1], log[s][i]) ELSE g[i - 1]
  <2>1. g[i - 1] \in X
    <3>1. i - 1 \in 0 .. n
      BY <1>1
    <3> HIDE DEF n
    <3> QED BY <1>5, <3>1
  <2>2. step[i][g[i - 1]] = IF i \in places THEN Append(g[i - 1], log[s][i]) ELSE g[i - 1]
    BY <1>3, <2>1
  <2> QED BY <1>5, <2>1, <2>2
<1>7. g = Whole(g)
  <2>1. ASSUME NEW i \in 0 .. n PROVE g[i] = Whole(g)[i]
    <3>1. CASE i = 0
      BY <1>5, <3>1
    <3>2. CASE i # 0
      <4>1. i \in 1 .. n
        BY <1>1, <3>2
      <4>2. g[i] = IF i \in places THEN Append(g[i - 1], log[s][i]) ELSE g[i - 1]
        BY <1>6, <4>1
      <4> QED BY <3>2, <4>2
    <3> QED BY <3>1, <3>2
  <2> QED BY <1>5, <2>1
<1>8. Changes(s, places) = (CHOOSE h : h = Whole(h))[n]
  BY DEF Changes
<1>9. PICK upTo : upTo = CHOOSE h : h = Whole(h)
  OBVIOUS
<1>10. upTo = Whole(upTo)
  BY <1>7, <1>9
<1>11. /\ upTo[0] = <<>>
       /\ \A i \in 1 .. n : upTo[i] = IF i \in places THEN Append(upTo[i - 1], log[s][i]) ELSE upTo[i - 1]
  <2>1. 0 \in 0 .. n /\ \A i \in 1 .. n : i \in 0 .. n /\ i # 0
    BY <1>1
  <2> QED BY <1>10, <2>1
<1> DEFINE Right(m) ==
             /\ upTo[m] \in Seq(Change)
             /\ \A k \in 1 .. Len(upTo[m]) : \E i \in 1 .. n : i \in places /\ upTo[m][k] = log[s][i]
             /\ \A i \in 1 .. n : i \in places /\ i <= m => \E k \in 1 .. Len(upTo[m]) : upTo[m][k] = log[s][i]
           B == {m \in 0 .. n : ~Right(m)}
<1>12. ASSUME B # {} PROVE FALSE
  <2>1. PICK m \in B : \A k \in B : m <= k
    <3>1. B \subseteq Nat
      OBVIOUS
    <3> HIDE DEF B
    <3> QED BY <1>12, <3>1, LeastNat
  <2>2. Right(0)
    <3>1. upTo[0] \in Seq(Change) /\ Len(upTo[0]) = 0
      BY <1>11
    <3> QED BY <1>1, <3>1
  <2>3. m \in 0 .. n /\ ~Right(m)
    OBVIOUS
  <2>4. m \in 1 .. n
    <3> HIDE DEF Right, B
    <3> QED BY <1>1, <2>2, <2>3
  <2>5. Right(m - 1)
    <3>1. m - 1 \in 0 .. n /\ ~(m <= m - 1)
      BY <1>1, <2>4
    <3>2. m - 1 \notin B
      <4> HIDE DEF B
      <4> QED BY <2>1, <3>1
    <3> QED BY <3>1, <3>2
  <2>6. \A i \in 1 .. n : i <= m => i <= m - 1 \/ i = m
    BY <1>1, <2>4
  <2>7. CASE m \in places
    <3>1. upTo[m] = Append(upTo[m - 1], log[s][m]) /\ log[s][m] \in Change
      BY <1>1, <1>11, <2>4, <2>7
    <3>2. /\ upTo[m] \in Seq(Change) /\ Len(upTo[m - 1]) \in Nat /\ Len(upTo[m]) = Len(upTo[m - 1]) + 1
          /\ \A k \in 1 .. Len(upTo[m - 1]) : upTo[m][k] = upTo[m - 1][k]
          /\ upTo[m][Len(upTo[m - 1]) + 1] = log[s][m]
      BY <2>5, <3>1, AppendProperties, LenProperties
    <3>3. \A k \in 1 .. Len(upTo[m]) : k \in 1 .. Len(upTo[m - 1]) \/ k = Len(upTo[m - 1]) + 1
      BY <3>2
    <3>4. ASSUME NEW k \in 1 .. Len(upTo[m])
          PROVE  \E i \in 1 .. n : i \in places /\ upTo[m][k] = log[s][i]
      <4>1. CASE k \in 1 .. Len(upTo[m - 1])
        <5>1. PICK i \in 1 .. n : i \in places /\ upTo[m - 1][k] = log[s][i]
          BY <2>5, <4>1
        <5>2. upTo[m][k] = upTo[m - 1][k]
          BY <3>2, <4>1
        <5> HIDE DEF n
        <5> QED BY <5>1, <5>2
      <4>2. CASE k = Len(upTo[m - 1]) + 1
        BY <2>4, <2>7, <3>2, <4>2
      <4> QED BY <3>3, <4>1, <4>2
    <3>5. ASSUME NEW i \in 1 .. n, i \in places, i <= m
          PROVE  \E k \in 1 .. Len(upTo[m]) : upTo[m][k] = log[s][i]
      <4>1. CASE i = m
        <5>1. Len(upTo[m - 1]) + 1 \in 1 .. Len(upTo[m])
          BY <3>2
        <5> QED BY <3>2, <4>1, <5>1
      <4>2. CASE i <= m - 1
        <5>1. PICK k \in 1 .. Len(upTo[m - 1]) : upTo[m - 1][k] = log[s][i]
          BY <2>5, <3>5, <4>2
        <5>2. k \in 1 .. Len(upTo[m]) /\ upTo[m][k] = log[s][i]
          BY <3>2, <5>1
        <5> QED BY <5>2
      <4> QED BY <2>6, <3>5, <4>1, <4>2
    <3>6. Right(m)
      BY <3>2, <3>4, <3>5
    <3> QED BY <2>3, <3>6
  <2>8. CASE m \notin places
    <3>1. upTo[m] = upTo[m - 1]
      BY <1>11, <2>4, <2>8
    <3>2. \A i \in 1 .. n : i \in places /\ i <= m => i <= m - 1
      BY <2>6, <2>8
    <3>3. Right(m)
      BY <2>5, <3>1, <3>2
    <3> QED BY <2>3, <3>3
  <2> QED BY <2>7, <2>8
<1>13. Right(n)
  <2>1. n \in 0 .. n /\ n \notin B
    <3>1. B = {}
      BY <1>12
    <3> HIDE DEF B
    <3> QED BY <1>1, <3>1
  <2> HIDE DEF Right
  <2> QED BY <2>1
<1>14. Changes(s, places) = upTo[n]
  BY <1>8, <1>9
<1>15. \A i \in 1 .. n : i <= n
  BY <1>1
<1>16. IsBatch(upTo[n], log[s], places)
  BY <1>13, <1>15 DEF IsBatch
<1> QED BY <1>14, <1>16

-----------------------------------------------------------------------------
(* One change after another *)

BatchState == [table : [Rows -> Moments], had : SUBSET Rows, logged : Seq(Change), retry : Seq(Change),
               apart : SUBSET Rows]

Origins == {<<>>} \cup (Devices \X (1 .. MaxLinks))

Taken(b, c) == TakenIn(b.table, b.had, b.apart, c)

\* Rows without an updated_at have one time each.
OneTime(C) ==
    \A c, e \in C : c.row = e.row /\ c.row \notin Dated /\ c.at > 0 /\ e.at > 0 => c.at = e.at

\* A row is as it was at the start, or as one of the changes has it, which is logged.
Brought(C, b, r) ==
    /\ \E c \in C : c.row = r /\ c.at = b.table[r]
    /\ \E k \in 1 .. Len(b.logged) : b.logged[k].row = r /\ b.logged[k].at = b.table[r]

BatchTables(st, C, b) ==
    /\ \A r \in Rows : b.table[r] > 0 => r \in b.had
    /\ \A r \in Rows : (b.table[r] = st.table[r] /\ (r \in b.had => r \in st.had)) \/ Brought(C, b, r)
    /\ \A c \in C : c.row \notin Dated /\ c.at > 0 /\ b.table[c.row] > 0 => b.table[c.row] = c.at

\* What is logged comes from a change, was not taken in before, and is logged once.
BatchLog(st, C, origin, b) ==
    /\ \A k \in 1 .. Len(b.logged) :
          /\ \E c \in C : b.logged[k] = LogEntry(c.row, c.at, c.by, origin, "done")
          /\ Taken(b, b.logged[k])
          /\ b.logged[k].at > 0 => b.logged[k].row \in b.apart \/ ~Taken(st, b.logged[k])
    /\ \A j, k \in 1 .. Len(b.logged) :
          j < k /\ b.logged[j].row = b.logged[k].row /\ b.logged[j].at = b.logged[k].at /\ b.logged[j].at > 0
             => b.logged[j].row \in b.apart

Keeps(b, a) == \A e \in Change : Taken(b, e) => Taken(a, e)

BatchInv(st, C, origin, b) ==
    /\ b \in BatchState /\ BatchTables(st, C, b) /\ BatchLog(st, C, origin, b)
    /\ Keeps(st, b) /\ st.had \subseteq b.had /\ st.apart \subseteq b.apart
    /\ \A k \in 1 .. Len(b.retry) : b.retry[k] \in C

\* A change that alters no row, or one that writes its row.
Kept(b, a) == a.table = b.table /\ a.had = b.had /\ a.logged = b.logged /\ b.apart \subseteq a.apart

Written(b, a, c, origin) ==
    /\ a.table = [b.table EXCEPT ![c.row] = c.at] /\ b.apart \subseteq a.apart /\ a.retry = b.retry
    /\ a.logged = Append(b.logged, LogEntry(c.row, c.at, c.by, origin, "done"))
    /\ \/ /\ c.at > 0 /\ a.had = b.had \cup {c.row} /\ b.table[c.row] < c.at
          /\ b.table[c.row] = 0 /\ c.row \in b.had => c.row \in a.apart
       \/ c.at = 0 /\ b.table[c.row] > 0 /\ a.had = b.had

LEMMA ChangeIs ==
    ASSUME NEW c \in Change
    PROVE  c.row \in Rows /\ c.at \in Nat /\ c.at \in Moments /\ c.by \in Sites
<1>1. MaxClock \in Nat
  BY SyncAssumption
<1> QED BY <1>1 DEF Change, Moments

LEMMA TableIs ==
    ASSUME NEW b \in BatchState, NEW r \in Rows
    PROVE  b.table[r] \in Nat /\ b.table[r] \in Moments
<1>1. MaxClock \in Nat
  BY SyncAssumption
<1> QED BY <1>1 DEF BatchState, Moments

LEMMA EntryIs ==
    ASSUME NEW c \in Change, NEW origin \in Origins
    PROVE  /\ LogEntry(c.row, c.at, c.by, origin, "done") \in Change
           /\ LogEntry(c.row, c.at, c.by, origin, "done").row = c.row
           /\ LogEntry(c.row, c.at, c.by, origin, "done").at = c.at
BY DEF LogEntry, Change, Origins

LEMMA OutcomeIs ==
    ASSUME NEW t \in [Rows -> Moments], NEW c \in Change
    PROVE  /\ Outcome(t, c) \in {"applied", "stale", "conflict", "retry"}
           /\ Outcome(t, c) = "applied" /\ c.at > 0 /\ t[c.row] > 0 => t[c.row] < c.at
           /\ Outcome(t, c) = "stale" => c.at > 0 /\ t[c.row] > 0 /\ ~(c.row \in Dated /\ c.at > t[c.row])
           /\ Outcome(t, c) = "conflict" => c.at > 0
BY ChangeIs DEF Outcome, Newer

\* What a change does to a batch's state.
LEMMA ApplyOneIs ==
    ASSUME NEW C, C \subseteq Change, NEW origin \in Origins, NEW c \in C,
           NEW st \in BatchState, NEW b \in BatchState, BatchTables(st, C, b), NEW a, a = ApplyOne(b, c, origin)
    PROVE  /\ a \in BatchState
           /\ \/ Written(b, a, c, origin)
              \/ Kept(b, a) /\ a.retry = b.retry /\ Taken(a, c)
              \/ Kept(b, a) /\ a.retry = Append(b.retry, c)
<1>1. /\ c \in Change /\ c.row \in Rows /\ c.at \in Nat /\ c.at \in Moments
      /\ b.table[c.row] \in Nat /\ b.table \in [Rows -> Moments]
      /\ b.had \subseteq Rows /\ b.logged \in Seq(Change) /\ b.retry \in Seq(Change) /\ b.apart \subseteq Rows
  BY ChangeIs, TableIs DEF BatchState
<1>2. PICK outcome : outcome = Outcome(b.table, c)
  OBVIOUS
<1>3. /\ outcome \in {"applied", "stale", "conflict", "retry"}
      /\ outcome = "applied" /\ c.at > 0 /\ b.table[c.row] > 0 => b.table[c.row] < c.at
      /\ outcome = "stale" => c.at > 0 /\ b.table[c.row] > 0 /\ ~(c.row \in Dated /\ c.at > b.table[c.row])
      /\ outcome = "conflict" => c.at > 0
  BY <1>1, <1>2, OutcomeIs
<1>4. PICK e : e = LogEntry(c.row, c.at, c.by, origin, "done")
  OBVIOUS
<1>5. e \in Change
  BY <1>1, <1>4, EntryIs
<1> DEFINE odd == outcome = "conflict" \/ (b.table[c.row] = 0 /\ (c.at > 0 <=> c.row \in b.had))
<1>6. a = [table  |-> IF outcome = "applied" THEN [b.table EXCEPT ![c.row] = c.at] ELSE b.table,
           had    |-> IF outcome = "applied" /\ c.at > 0 THEN b.had \cup {c.row} ELSE b.had,
           logged |-> IF outcome = "applied" /\ (c.at > 0 \/ b.table[c.row] > 0) THEN Append(b.logged, e) ELSE b.logged,
           retry  |-> IF outcome = "retry" THEN Append(b.retry, c) ELSE b.retry,
           apart  |-> IF odd THEN b.apart \cup {c.row} ELSE b.apart]
  BY <1>2, <1>4 DEF ApplyOne
<1>7. a \in BatchState
  <2>1. Append(b.logged, e) \in Seq(Change) /\ Append(b.retry, c) \in Seq(Change)
    BY <1>1, <1>5, AppendProperties
  <2>2. [b.table EXCEPT ![c.row] = c.at] \in [Rows -> Moments]
    BY <1>1
  <2> QED BY <1>1, <1>6, <2>1, <2>2 DEF BatchState
<1>8. CASE outcome = "applied" /\ c.at > 0
  <2>1. b.table[c.row] < c.at
    BY <1>1, <1>3, <1>8
  <2>2. b.table[c.row] = 0 /\ c.row \in b.had => c.row \in a.apart
    BY <1>6, <1>8
  <2>3. Written(b, a, c, origin)
    BY <1>4, <1>6, <1>8, <2>1, <2>2 DEF Written
  <2> QED BY <1>7, <2>3
<1>9. CASE outcome = "applied" /\ c.at = 0 /\ b.table[c.row] > 0
  <2>1. Written(b, a, c, origin)
    BY <1>4, <1>6, <1>9 DEF Written
  <2> QED BY <1>7, <2>1
<1>10. CASE outcome = "applied" /\ c.at = 0 /\ b.table[c.row] = 0
  <2>1. [b.table EXCEPT ![c.row] = c.at] = b.table
    BY <1>1, <1>10
  <2>2. Kept(b, a) /\ a.retry = b.retry
    BY <1>6, <1>10, <2>1 DEF Kept
  <2>3. Taken(a, c)
    <3>1. c.row \in b.had \/ c.row \in a.apart
      BY <1>6, <1>10
    <3> QED BY <1>10, <2>2, <3>1 DEF Kept, Taken, TakenIn
  <2> QED BY <1>7, <2>2, <2>3
<1>11. CASE outcome = "stale"
  <2>1. Kept(b, a) /\ a.retry = b.retry
    BY <1>6, <1>11 DEF Kept
  <2>2. c.row \in b.had /\ b.table[c.row] >= c.at
    <3>1. c.row \in b.had
      BY <1>1, <1>3, <1>11 DEF BatchTables
    <3>2. CASE c.row \in Dated
      BY <1>1, <1>3, <1>11, <3>1, <3>2
    <3>3. CASE c.row \notin Dated
      BY <1>1, <1>3, <1>11, <3>3 DEF BatchTables
    <3> QED BY <3>1, <3>2, <3>3
  <2>3. Taken(a, c)
    BY <1>3, <1>11, <2>1, <2>2 DEF Kept, Taken, TakenIn
  <2> QED BY <1>7, <2>1, <2>3
<1>12. CASE outcome = "conflict"
  <2>1. Kept(b, a) /\ a.retry = b.retry /\ c.row \in a.apart
    BY <1>6, <1>12 DEF Kept
  <2>2. Taken(a, c)
    BY <2>1 DEF Taken, TakenIn
  <2> QED BY <1>7, <2>1, <2>2
<1>13. CASE outcome = "retry"
  <2>1. Kept(b, a) /\ a.retry = Append(b.retry, c)
    BY <1>6, <1>13 DEF Kept
  <2> QED BY <1>7, <2>1
<1>14. c.at = 0 \/ c.at > 0
  BY <1>1
<1>15. b.table[c.row] = 0 \/ b.table[c.row] > 0
  BY <1>1
<1> QED BY <1>3, <1>8, <1>9, <1>10, <1>11, <1>12, <1>13, <1>14, <1>15

\* A change that alters no row leaves the invariant.
LEMMA KeptKeeps ==
    ASSUME NEW st \in BatchState, NEW C, NEW origin, NEW b, BatchInv(st, C, origin, b),
           NEW a \in BatchState, Kept(b, a), \A k \in 1 .. Len(a.retry) : a.retry[k] \in C
    PROVE  BatchInv(st, C, origin, a) /\ Keeps(b, a)
<1>1. a.table = b.table /\ a.had = b.had /\ a.logged = b.logged /\ b.apart \subseteq a.apart
  BY DEF Kept
<1>2. \A e : Taken(b, e) => Taken(a, e)
  BY <1>1 DEF Taken, TakenIn
<1>3. BatchTables(st, C, a)
  BY <1>1 DEF BatchInv, BatchTables, Brought
<1>4. BatchLog(st, C, origin, a)
  BY <1>1, <1>2 DEF BatchInv, BatchLog
<1>5. Keeps(st, a)
  BY <1>2 DEF BatchInv, Keeps
<1> QED BY <1>1, <1>2, <1>3, <1>4, <1>5 DEF BatchInv, Keeps

\* One that writes its row keeps it too.
LEMMA WrittenKeeps ==
    ASSUME NEW st \in BatchState, NEW C, C \subseteq Change, OneTime(C), NEW origin \in Origins, NEW c \in C,
           NEW b, BatchInv(st, C, origin, b), NEW a \in BatchState, Written(b, a, c, origin)
    PROVE  BatchInv(st, C, origin, a) /\ Keeps(b, a) /\ Taken(a, c)
<1>1. PICK r : r = c.row
  OBVIOUS
<1>2. PICK v : v = c.at
  OBVIOUS
<1>3. PICK e : e = LogEntry(c.row, c.at, c.by, origin, "done")
  OBVIOUS
<1>4. r \in Rows /\ v \in Nat /\ v \in Moments /\ e \in Change /\ e.row = r /\ e.at = v
  BY <1>1, <1>2, <1>3, ChangeIs, EntryIs
<1>5. b \in BatchState /\ a \in BatchState /\ b.table[r] \in Nat
  BY <1>4, TableIs DEF BatchInv
<1>6. /\ a.table = [b.table EXCEPT ![r] = v] /\ b.apart \subseteq a.apart /\ a.retry = b.retry
      /\ a.logged = Append(b.logged, e)
      /\ \/ /\ v > 0 /\ a.had = b.had \cup {r} /\ b.table[r] < v
            /\ b.table[r] = 0 /\ r \in b.had => r \in a.apart
         \/ v = 0 /\ b.table[r] > 0 /\ a.had = b.had
  BY <1>1, <1>2, <1>3 DEF Written
<1>7. a.table[r] = v /\ \A q \in Rows : q # r => a.table[q] = b.table[q]
  BY <1>4, <1>5, <1>6 DEF BatchState
<1>8. b.had \subseteq a.had
  BY <1>6
<1>9. b.table[r] > 0 => r \in b.had
  BY <1>4 DEF BatchInv, BatchTables
<1>10. r \in a.had
  BY <1>6, <1>9
<1>11. Keeps(b, a)
  <2> SUFFICES ASSUME NEW f \in Change, Taken(b, f) PROVE Taken(a, f)
    BY DEF Keeps
  <2>1. f.row \in Rows /\ f.at \in Nat
    BY ChangeIs
  <2>2. CASE f.row \in b.apart
    BY <1>6, <2>2 DEF Taken, TakenIn
  <2>3. CASE f.row \notin b.apart
    <3>1. f.row \in b.had /\ (b.table[f.row] = 0 \/ (f.at > 0 /\ b.table[f.row] >= f.at))
      BY <2>3 DEF Taken, TakenIn
    <3>2. CASE f.row # r
      BY <1>7, <1>8, <2>1, <3>1, <3>2 DEF Taken, TakenIn
    <3>3. CASE f.row = r
      <4>1. CASE v = 0
        BY <1>7, <1>10, <3>3, <4>1 DEF Taken, TakenIn
      <4>2. CASE v > 0 /\ b.table[r] = 0
        <5>1. r \in a.apart
          BY <1>4, <1>6, <3>1, <3>3, <4>2
        <5> QED BY <3>3, <5>1 DEF Taken, TakenIn
      <4>3. CASE v > 0 /\ b.table[r] # 0
        <5>1. f.at > 0 /\ v >= f.at
          BY <1>4, <1>5, <1>6, <2>1, <3>1, <3>3, <4>3
        <5> QED BY <1>7, <1>10, <3>3, <5>1 DEF Taken, TakenIn
      <4> QED BY <1>4, <4>1, <4>2, <4>3
    <3> QED BY <3>2, <3>3
  <2> QED BY <2>2, <2>3
<1>12. Taken(a, e) /\ Taken(a, c)
  <2>1. a.table[r] = 0 \/ (v > 0 /\ a.table[r] >= v)
    BY <1>4, <1>7
  <2> QED BY <1>1, <1>2, <1>4, <1>10, <2>1 DEF Taken, TakenIn
<1>13. \A f : f.row = r /\ f.at = v /\ v > 0 /\ Taken(b, f) => r \in a.apart
  <2> SUFFICES ASSUME NEW f, f.row = r, f.at = v, v > 0, Taken(b, f), r \notin b.apart PROVE r \in a.apart
    BY <1>6
  <2>1. r \in b.had /\ (b.table[r] = 0 \/ b.table[r] >= v)
    BY DEF Taken, TakenIn
  <2>2. b.table[r] < v
    BY <1>4, <1>6
  <2>3. b.table[r] = 0
    BY <1>4, <1>5, <2>1, <2>2
  <2> QED BY <1>4, <1>6, <2>1, <2>3
<1>14. /\ Len(b.logged) \in Nat /\ Len(a.logged) = Len(b.logged) + 1
       /\ \A k \in 1 .. Len(b.logged) : a.logged[k] = b.logged[k] /\ b.logged[k] \in Change
       /\ a.logged[Len(b.logged) + 1] = e
       /\ \A k \in 1 .. Len(a.logged) : k \in 1 .. Len(b.logged) \/ k = Len(b.logged) + 1
  <2>1. b.logged \in Seq(Change)
    BY <1>5 DEF BatchState
  <2>2. /\ Len(b.logged) \in Nat /\ Len(a.logged) = Len(b.logged) + 1
        /\ \A k \in 1 .. Len(b.logged) : a.logged[k] = b.logged[k] /\ b.logged[k] \in Change
        /\ a.logged[Len(b.logged) + 1] = e
    BY <1>4, <1>6, <2>1, AppendProperties, LenProperties, ElementOfSeq
  <2> QED BY <2>2
<1>15. BatchTables(st, C, a)
  <2>1. ASSUME NEW q \in Rows, a.table[q] > 0 PROVE q \in a.had
    <3>1. CASE q = r
      BY <1>10, <3>1
    <3>2. CASE q # r
      <4>1. b.table[q] > 0
        BY <1>7, <2>1, <3>2
      <4> QED BY <1>8, <4>1 DEF BatchInv, BatchTables
    <3> QED BY <3>1, <3>2
  <2>2. ASSUME NEW q \in Rows
        PROVE  (a.table[q] = st.table[q] /\ (q \in a.had => q \in st.had)) \/ Brought(C, a, q)
    <3>1. CASE q = r
      <4>1. Len(b.logged) + 1 \in 1 .. Len(a.logged)
        BY <1>14
      <4> QED BY <1>1, <1>2, <1>4, <1>7, <1>14, <3>1, <4>1 DEF Brought
    <3>2. CASE q # r
      <4>1. a.table[q] = b.table[q] /\ (q \in a.had <=> q \in b.had)
        BY <1>6, <1>7, <3>2
      <4>2. CASE b.table[q] = st.table[q] /\ (q \in b.had => q \in st.had)
        BY <4>1, <4>2
      <4>3. CASE Brought(C, b, q)
        <5>1. PICK k \in 1 .. Len(b.logged) : b.logged[k].row = q /\ b.logged[k].at = b.table[q]
          BY <4>3 DEF Brought
        <5>2. k \in 1 .. Len(a.logged) /\ a.logged[k].row = q /\ a.logged[k].at = a.table[q]
          BY <1>14, <4>1, <5>1
        <5> QED BY <4>1, <4>3, <5>2 DEF Brought
      <4> QED BY <4>2, <4>3 DEF BatchInv, BatchTables
    <3> QED BY <3>1, <3>2
  <2>3. ASSUME NEW f \in C, f.row \notin Dated, f.at > 0, a.table[f.row] > 0 PROVE a.table[f.row] = f.at
    <3>1. f.row \in Rows
      BY ChangeIs
    <3>2. CASE f.row = r
      BY <1>1, <1>2, <1>4, <1>7, <2>3, <3>2 DEF OneTime
    <3>3. CASE f.row # r
      <4>1. a.table[f.row] = b.table[f.row]
        BY <1>7, <3>1, <3>3
      <4> QED BY <2>3, <4>1 DEF BatchInv, BatchTables
    <3> QED BY <3>2, <3>3
  <2> QED BY <2>1, <2>2, <2>3 DEF BatchTables
<1>16. Keeps(st, a)
  BY <1>11 DEF BatchInv, Keeps
<1>17. BatchLog(st, C, origin, a)
  <2>1. ASSUME NEW k \in 1 .. Len(a.logged)
        PROVE  /\ \E f \in C : a.logged[k] = LogEntry(f.row, f.at, f.by, origin, "done")
               /\ Taken(a, a.logged[k])
               /\ a.logged[k].at > 0 => a.logged[k].row \in a.apart \/ ~Taken(st, a.logged[k])
    <3>1. CASE k \in 1 .. Len(b.logged)
      <4>1. a.logged[k] = b.logged[k] /\ b.logged[k] \in Change
        BY <1>14, <3>1
      <4>2. /\ \E f \in C : b.logged[k] = LogEntry(f.row, f.at, f.by, origin, "done")
            /\ Taken(b, b.logged[k])
            /\ b.logged[k].at > 0 => b.logged[k].row \in b.apart \/ ~Taken(st, b.logged[k])
        BY <3>1 DEF BatchInv, BatchLog
      <4>3. Taken(a, b.logged[k])
        BY <1>11, <4>1, <4>2 DEF Keeps
      <4> QED BY <1>6, <4>1, <4>2, <4>3
    <3>2. CASE k = Len(b.logged) + 1
      <4>1. a.logged[k] = e
        BY <1>14, <3>2
      <4>2. v > 0 /\ Taken(st, e) => r \in a.apart
        <5>1. Taken(st, e) => Taken(b, e)
          BY <1>4 DEF BatchInv, Keeps
        <5> QED BY <1>4, <1>13, <5>1
      <4> QED BY <1>3, <1>4, <1>12, <4>1, <4>2
    <3> QED BY <1>14, <3>1, <3>2
  <2>2. ASSUME NEW j \in 1 .. Len(a.logged), NEW k \in 1 .. Len(a.logged), j < k,
               a.logged[j].row = a.logged[k].row, a.logged[j].at = a.logged[k].at, a.logged[j].at > 0
        PROVE  a.logged[j].row \in a.apart
    <3>1. j \in 1 .. Len(b.logged) /\ a.logged[j] = b.logged[j]
      <4>1. j # Len(b.logged) + 1
        BY <1>14, <2>2
      <4> QED BY <1>14, <4>1
    <3>2. CASE k \in 1 .. Len(b.logged)
      <4>1. a.logged[k] = b.logged[k]
        BY <1>14, <3>2
      <4>2. b.logged[j].row \in b.apart
        BY <2>2, <3>1, <3>2, <4>1 DEF BatchInv, BatchLog
      <4> QED BY <1>6, <3>1, <4>2
    <3>3. CASE k = Len(b.logged) + 1
      <4>1. b.logged[j].row = r /\ b.logged[j].at = v /\ v > 0
        BY <1>4, <1>14, <2>2, <3>1, <3>3
      <4>2. Taken(b, b.logged[j])
        BY <3>1 DEF BatchInv, BatchLog
      <4> QED BY <1>13, <3>1, <4>1, <4>2
    <3> QED BY <1>14, <3>2, <3>3
  <2> QED BY <2>1, <2>2 DEF BatchLog
<1>18. st.had \subseteq a.had /\ st.apart \subseteq a.apart /\ \A k \in 1 .. Len(a.retry) : a.retry[k] \in C
  BY <1>6, <1>8 DEF BatchInv
<1>19. BatchInv(st, C, origin, a)
  BY <1>15, <1>16, <1>17, <1>18 DEF BatchInv
<1> QED BY <1>11, <1>12, <1>19

\* One change keeps the invariant, and is taken in or kept for later.
LEMMA ApplyOneKeeps ==
    ASSUME NEW st \in BatchState, NEW C, C \subseteq Change, OneTime(C), NEW origin \in Origins, NEW c \in C,
           NEW b, BatchInv(st, C, origin, b), NEW a, a = ApplyOne(b, c, origin)
    PROVE  /\ BatchInv(st, C, origin, a) /\ Keeps(b, a)
           /\ \/ a.retry = b.retry /\ Taken(a, c)
              \/ a.retry = Append(b.retry, c)
<1>1. b \in BatchState /\ BatchTables(st, C, b) /\ \A k \in 1 .. Len(b.retry) : b.retry[k] \in C
  BY DEF BatchInv
<1>2. /\ a \in BatchState
      /\ \/ Written(b, a, c, origin)
         \/ Kept(b, a) /\ a.retry = b.retry /\ Taken(a, c)
         \/ Kept(b, a) /\ a.retry = Append(b.retry, c)
  BY <1>1, ApplyOneIs
<1>3. CASE Written(b, a, c, origin)
  <2>1. BatchInv(st, C, origin, a) /\ Keeps(b, a) /\ Taken(a, c)
    BY <1>2, <1>3, WrittenKeeps
  <2>2. a.retry = b.retry
    BY <1>3 DEF Written
  <2> QED BY <2>1, <2>2
<1>4. CASE Kept(b, a) /\ a.retry = b.retry /\ Taken(a, c)
  <2>1. \A k \in 1 .. Len(a.retry) : a.retry[k] \in C
    BY <1>1, <1>4
  <2>2. BatchInv(st, C, origin, a) /\ Keeps(b, a)
    BY <1>2, <1>4, <2>1, KeptKeeps
  <2> QED BY <1>4, <2>2
<1>5. CASE Kept(b, a) /\ a.retry = Append(b.retry, c)
  <2>1. \A k \in 1 .. Len(a.retry) : a.retry[k] \in C
    <3>1. b.retry \in Seq(Change) /\ c \in Change
      BY <1>1 DEF BatchState
    <3>2. /\ Len(b.retry) \in Nat /\ Len(a.retry) = Len(b.retry) + 1
          /\ \A k \in 1 .. Len(b.retry) : a.retry[k] = b.retry[k]
          /\ a.retry[Len(b.retry) + 1] = c
      BY <1>5, <3>1, AppendProperties, LenProperties
    <3>3. \A k \in 1 .. Len(a.retry) : k \in 1 .. Len(b.retry) \/ k = Len(b.retry) + 1
      BY <3>2
    <3> QED BY <1>1, <3>2, <3>3
  <2>2. BatchInv(st, C, origin, a) /\ Keeps(b, a)
    BY <1>2, <1>5, <2>1, KeptKeeps
  <2> QED BY <1>5, <2>2
<1> QED BY <1>2, <1>3, <1>4, <1>5

\* Changes applied in order keep it, and each is taken in or kept for later.
LEMMA InOrderKeeps ==
    ASSUME NEW st \in BatchState, NEW C, C \subseteq Change, OneTime(C), NEW origin \in Origins,
           NEW start, BatchInv(st, C, origin, start),
           NEW batch \in Seq(Change), \A k \in 1 .. Len(batch) : batch[k] \in C,
           NEW res, res = InOrder(start, batch, origin)
    PROVE  /\ BatchInv(st, C, origin, res) /\ Keeps(start, res)
           /\ \A j \in 1 .. Len(batch) : Taken(res, batch[j]) \/ \E k \in 1 .. Len(res.retry) : res.retry[k] = batch[j]
<1> DEFINE n == Len(batch)
           Whole(g) == [k \in 0 .. n |-> IF k = 0 THEN start ELSE ApplyOne(g[k - 1], batch[k], origin)]
<1>1. n \in Nat
  BY LenProperties
<1>2. PICK X : X = {x \in BatchState : BatchInv(st, C, origin, x)}
  OBVIOUS
<1>3. start \in X
  BY <1>2 DEF BatchInv
<1>4. ASSUME NEW k \in 1 .. n, NEW x \in X
      PROVE  /\ ApplyOne(x, batch[k], origin) \in X /\ Keeps(x, ApplyOne(x, batch[k], origin))
             /\ \/ ApplyOne(x, batch[k], origin).retry = x.retry /\ Taken(ApplyOne(x, batch[k], origin), batch[k])
                \/ ApplyOne(x, batch[k], origin).retry = Append(x.retry, batch[k])
  <2>1. PICK c \in C : c = batch[k]
    OBVIOUS
  <2>2. PICK a : a = ApplyOne(x, c, origin)
    OBVIOUS
  <2>3. BatchInv(st, C, origin, x)
    BY <1>2
  <2>4. /\ BatchInv(st, C, origin, a) /\ Keeps(x, a)
        /\ \/ a.retry = x.retry /\ Taken(a, c)
           \/ a.retry = Append(x.retry, c)
    BY <2>2, <2>3, ApplyOneKeeps
  <2>5. a \in X
    BY <1>2, <2>4 DEF BatchInv
  <2> QED BY <2>1, <2>2, <2>4, <2>5
<1>5. PICK step : step = [k \in 1 .. n |-> [x \in X |-> ApplyOne(x, batch[k], origin)]]
  OBVIOUS
<1>6. step \in [1 .. n -> [X -> X]]
  BY <1>4, <1>5
<1>7. PICK g \in [0 .. n -> X] : g[0] = start /\ \A k \in 1 .. n : g[k] = step[k][g[k - 1]]
  <2> HIDE DEF n
  <2>1. \E g \in [0 .. n -> X] : Follows(g, n, start, step)
    BY <1>1, <1>3, <1>6, RecursionHasSolution
  <2> QED BY <2>1 DEF Follows
<1>8. ASSUME NEW k \in 1 .. n
      PROVE  g[k - 1] \in X /\ g[k] = ApplyOne(g[k - 1], batch[k], origin)
  <2>1. g[k - 1] \in X
    <3>1. k - 1 \in 0 .. n
      BY <1>1
    <3> HIDE DEF n
    <3> QED BY <1>7, <3>1
  <2>2. step[k][g[k - 1]] = ApplyOne(g[k - 1], batch[k], origin)
    BY <1>5, <2>1
  <2> QED BY <1>7, <2>1, <2>2
<1>9. g = Whole(g)
  <2>1. ASSUME NEW k \in 0 .. n PROVE g[k] = Whole(g)[k]
    <3>1. CASE k = 0
      BY <1>7, <3>1
    <3>2. CASE k # 0
      <4>1. k \in 1 .. n
        BY <1>1, <3>2
      <4>2. g[k] = ApplyOne(g[k - 1], batch[k], origin)
        BY <1>8, <4>1
      <4> QED BY <3>2, <4>2
    <3> QED BY <3>1, <3>2
  <2> QED BY <1>7, <2>1
<1>10. PICK h : h = CHOOSE f : f = Whole(f)
  OBVIOUS
<1>11. h = Whole(h)
  BY <1>9, <1>10
<1>12. h[0] = start /\ \A k \in 1 .. n : h[k] = ApplyOne(h[k - 1], batch[k], origin)
  <2>1. 0 \in 0 .. n /\ \A k \in 1 .. n : k \in 0 .. n /\ k # 0
    BY <1>1
  <2> QED BY <1>11, <2>1
<1>13. res = h[n]
  BY <1>10 DEF InOrder
<1> DEFINE Right(m) ==
             /\ h[m] \in X /\ Keeps(start, h[m])
             /\ \A j \in 1 .. n : j <= m =>
                   Taken(h[m], batch[j]) \/ \E k \in 1 .. Len(h[m].retry) : h[m].retry[k] = batch[j]
           B == {m \in 0 .. n : ~Right(m)}
<1>14. ASSUME B # {} PROVE FALSE
  <2>1. PICK m \in B : \A k \in B : m <= k
    <3>1. B \subseteq Nat
      OBVIOUS
    <3> HIDE DEF B
    <3> QED BY <1>14, <3>1, LeastNat
  <2>2. Right(0)
    <3>1. Keeps(start, start)
      BY DEF Keeps
    <3>2. h[0] \in X /\ Keeps(start, h[0]) /\ \A j \in 1 .. n : ~(j <= 0)
      BY <1>1, <1>3, <1>12, <3>1
    <3> QED BY <3>2
  <2>3. m \in 0 .. n /\ ~Right(m)
    OBVIOUS
  <2>4. m \in 1 .. n
    <3> HIDE DEF Right, B
    <3> QED BY <1>1, <2>2, <2>3
  <2>5. Right(m - 1)
    <3>1. m - 1 \in 0 .. n /\ ~(m <= m - 1)
      BY <1>1, <2>4
    <3>2. m - 1 \notin B
      <4> HIDE DEF B
      <4> QED BY <2>1, <3>1
    <3> QED BY <3>1, <3>2
  <2>6. \A i \in 1 .. n : i <= m => i <= m - 1 \/ i = m
    BY <1>1, <2>4
  <2>7. PICK x : x = h[m - 1]
    OBVIOUS
  <2>8. PICK a : a = h[m]
    OBVIOUS
  <2>9. x \in X /\ a = ApplyOne(x, batch[m], origin)
    BY <1>12, <2>4, <2>5, <2>7, <2>8
  <2>10. /\ a \in X /\ Keeps(x, a)
         /\ (a.retry = x.retry /\ Taken(a, batch[m])) \/ a.retry = Append(x.retry, batch[m])
    BY <1>4, <2>4, <2>9
  <2>11. Keeps(start, a)
    BY <2>5, <2>7, <2>10 DEF Keeps
  <2>12. /\ Len(x.retry) \in Nat /\ Len(x.retry) <= Len(a.retry) /\ Len(a.retry) \in Nat
         /\ \A k \in 1 .. Len(x.retry) : a.retry[k] = x.retry[k]
         /\ Taken(a, batch[m]) \/ \E k \in 1 .. Len(a.retry) : a.retry[k] = batch[m]
    <3>1. x.retry \in Seq(Change) /\ batch[m] \in Change
      <4>1. x \in BatchState /\ batch[m] \in C
        BY <1>2, <2>4, <2>9
      <4> QED BY <4>1 DEF BatchState
    <3>2. CASE a.retry = x.retry /\ Taken(a, batch[m])
      BY <3>1, <3>2, LenProperties
    <3>3. CASE a.retry = Append(x.retry, batch[m])
      <4>1. /\ Len(x.retry) \in Nat /\ Len(a.retry) = Len(x.retry) + 1
            /\ \A k \in 1 .. Len(x.retry) : a.retry[k] = x.retry[k]
            /\ a.retry[Len(x.retry) + 1] = batch[m]
        BY <3>1, <3>3, AppendProperties, LenProperties
      <4>2. PICK k : k = Len(x.retry) + 1
        OBVIOUS
      <4>3. k \in 1 .. Len(a.retry) /\ a.retry[k] = batch[m]
        BY <4>1, <4>2
      <4>4. Len(x.retry) <= Len(a.retry) /\ Len(a.retry) \in Nat
        BY <4>1
      <4> QED BY <4>1, <4>3, <4>4
    <3> QED BY <2>10, <3>2, <3>3
  <2>13. ASSUME NEW j \in 1 .. n, j <= m
         PROVE  Taken(a, batch[j]) \/ \E k \in 1 .. Len(a.retry) : a.retry[k] = batch[j]
    <3>1. CASE j = m
      BY <2>12, <3>1
    <3>2. CASE j <= m - 1
      <4>1. batch[j] \in Change
        OBVIOUS
      <4>2. CASE Taken(x, batch[j])
        BY <2>10, <4>1, <4>2 DEF Keeps
      <4>3. CASE \E k \in 1 .. Len(x.retry) : x.retry[k] = batch[j]
        <5>1. PICK k \in 1 .. Len(x.retry) : x.retry[k] = batch[j]
          BY <4>3
        <5>2. k \in 1 .. Len(a.retry) /\ a.retry[k] = batch[j]
          BY <2>12, <5>1
        <5> QED BY <5>2
      <4> QED BY <2>5, <2>7, <3>2, <4>2, <4>3
    <3> QED BY <2>6, <2>13, <3>1, <3>2
  <2>14. Right(m)
    BY <2>8, <2>10, <2>11, <2>13
  <2> QED BY <2>3, <2>14
<1>15. Right(n)
  <2>1. n \in 0 .. n /\ n \notin B
    <3>1. B = {}
      BY <1>14
    <3> HIDE DEF B
    <3> QED BY <1>1, <3>1
  <2> HIDE DEF Right
  <2> QED BY <2>1
<1>16. \A j \in 1 .. n : j <= n
  BY <1>1
<1>17. BatchInv(st, C, origin, res)
  BY <1>2, <1>13, <1>15
<1> QED BY <1>13, <1>15, <1>16, <1>17

\* What a batch starts from.
Before(s) == [table |-> table[s], had |-> seen[s], logged |-> <<>>, retry |-> <<>>, apart |-> apart]

\* A batch keeps the invariant and is taken in.
LEMMA ApplyBatchKeeps ==
    ASSUME SyncTypeOK, TablesSound, NEW s \in Sites, NEW batch \in Seq(Change),
           NEW C, C = {batch[k] : k \in 1 .. Len(batch)}, OneTime(C), NEW origin \in Origins,
           \A c \in C : c.row \notin Dated /\ c.at > 0 /\ table[s][c.row] > 0 => table[s][c.row] = c.at,
           NEW b, b = ApplyBatch(s, batch, origin)
    PROVE  /\ BatchInv(Before(s), C, origin, b) /\ Before(s) \in BatchState
           /\ \A k \in 1 .. Len(batch) : Taken(b, batch[k])
<1>1. PICK st : st = Before(s)
  OBVIOUS
<1>2. /\ st.table = table[s] /\ st.had = seen[s] /\ st.logged = <<>> /\ st.retry = <<>> /\ st.apart = apart
      /\ st \in BatchState
  <2>1. table[s] \in [Rows -> Moments] /\ seen[s] \in SUBSET Rows /\ apart \in SUBSET Rows
    BY DEF SyncTypeOK
  <2>2. <<>> \in Seq(Change)
    OBVIOUS
  <2> QED BY <1>1, <2>1, <2>2 DEF Before, BatchState
<1>3. C \subseteq Change /\ \A k \in 1 .. Len(batch) : batch[k] \in C
  BY ElementOfSeq
<1>4. BatchInv(st, C, origin, st)
  <2>1. BatchTables(st, C, st)
    BY <1>2 DEF BatchTables, TablesSound
  <2>2. BatchLog(st, C, origin, st)
    <3>1. Len(st.logged) = 0
      BY <1>2
    <3>2. 1 .. Len(st.logged) = {}
      BY <3>1
    <3> QED BY <3>2 DEF BatchLog
  <2>3. \A k \in 1 .. Len(st.retry) : st.retry[k] \in C
    BY <1>2
  <2> QED BY <1>2, <2>1, <2>2, <2>3 DEF BatchInv, Keeps
<1>5. PICK first : first = InOrder(st, batch, origin)
  OBVIOUS
<1>6. /\ BatchInv(st, C, origin, first)
      /\ \A j \in 1 .. Len(batch) : Taken(first, batch[j]) \/ \E k \in 1 .. Len(first.retry) : first.retry[k] = batch[j]
  BY <1>2, <1>3, <1>4, <1>5, InOrderKeeps
<1>7. PICK again : again = [first EXCEPT !.retry = <<>>]
  OBVIOUS
<1>8. first \in BatchState /\ \A k \in 1 .. Len(first.retry) : first.retry[k] \in C
  BY <1>6 DEF BatchInv
<1>9. BatchInv(st, C, origin, again) /\ Keeps(first, again)
  <2>1. again \in BatchState /\ Kept(first, again)
    <3>1. <<>> \in Seq(Change)
      OBVIOUS
    <3>2. again \in BatchState
      BY <1>7, <1>8, <3>1 DEF BatchState
    <3>3. again.table = first.table /\ again.had = first.had /\ again.logged = first.logged /\ again.apart = first.apart
      BY <1>7, <1>8 DEF BatchState
    <3> QED BY <3>2, <3>3 DEF Kept
  <2>2. \A k \in 1 .. Len(again.retry) : again.retry[k] \in C
    BY <1>7, <1>8 DEF BatchState
  <2> QED BY <1>2, <1>6, <2>1, <2>2, KeptKeeps
<1>10. PICK rest : rest = first.retry
  OBVIOUS
<1>11. PICK second : second = InOrder(again, rest, origin)
  OBVIOUS
<1>12. rest \in Seq(Change) /\ \A k \in 1 .. Len(rest) : rest[k] \in C
  BY <1>8, <1>10 DEF BatchState
<1>13. /\ BatchInv(st, C, origin, second) /\ Keeps(again, second)
       /\ \A j \in 1 .. Len(rest) : Taken(second, rest[j]) \/ \E k \in 1 .. Len(second.retry) : second.retry[k] = rest[j]
  <2>1. /\ st \in BatchState /\ C \subseteq Change /\ OneTime(C) /\ origin \in Origins
        /\ BatchInv(st, C, origin, again) /\ rest \in Seq(Change)
        /\ \A k \in 1 .. Len(rest) : rest[k] \in C
        /\ second = InOrder(again, rest, origin)
    BY <1>2, <1>3, <1>9, <1>11, <1>12
  <2> QED BY <2>1, InOrderKeeps, SMTT(60)
<1>14. b = [second EXCEPT !.apart = @ \cup {second.retry[i].row : i \in DOMAIN second.retry}]
  BY <1>1, <1>5, <1>7, <1>10, <1>11 DEF ApplyBatch, Before
<1>15. second \in BatchState /\ \A k \in 1 .. Len(second.retry) : second.retry[k] \in C
  BY <1>13 DEF BatchInv
<1>16. DOMAIN second.retry = 1 .. Len(second.retry)
  BY <1>15, LenProperties DEF BatchState
<1>17. {second.retry[i].row : i \in DOMAIN second.retry} \subseteq Rows
  BY <1>3, <1>15, <1>16, ChangeIs
<1>18. b \in BatchState /\ Kept(second, b) /\ b.retry = second.retry
  BY <1>14, <1>15, <1>17 DEF BatchState, Kept
<1>19. BatchInv(st, C, origin, b) /\ Keeps(second, b)
  BY <1>2, <1>13, <1>15, <1>18, KeptKeeps
<1>20. ASSUME NEW k \in 1 .. Len(batch) PROVE Taken(b, batch[k])
  <2>1. batch[k] \in Change
    OBVIOUS
  <2>2. CASE Taken(first, batch[k])
    BY <1>9, <1>13, <1>19, <2>1, <2>2 DEF Keeps
  <2>3. CASE \E i \in 1 .. Len(first.retry) : first.retry[i] = batch[k]
    <3>1. PICK i \in 1 .. Len(rest) : rest[i] = batch[k]
      BY <1>10, <2>3
    <3>2. CASE Taken(second, batch[k])
      BY <1>19, <2>1, <3>2 DEF Keeps
    <3>3. CASE \E j \in 1 .. Len(second.retry) : second.retry[j] = batch[k]
      <4>1. batch[k].row \in b.apart
        BY <1>14, <1>15, <1>16, <3>3 DEF BatchState
      <4> QED BY <4>1 DEF Taken, TakenIn
    <3> QED BY <1>13, <3>1, <3>2, <3>3
  <2> QED BY <1>6, <2>2, <2>3
<1> QED BY <1>1, <1>2, <1>19, <1>20

-----------------------------------------------------------------------------
(* Steps that touch rows or logs *)

\* What is done stays as it is; what was taken in stays so; and what becomes done
\* behind a cursor is of a row that goes apart.
LogGrows ==
    \A s \in Sites :
        /\ Len(log[s]) <= Len(log'[s])
        /\ \A i \in 1 .. Len(log[s]) : log[s][i].state = "done" => log'[s][i] = log[s][i]

SettledKept ==
    \A t \in Sites, c \in Change :
        TakenIn(table[t], seen[t], apart, c) => TakenIn(table'[t], seen'[t], apart', c)

LateIsApart ==
    \A s \in Sites : \A i \in 1 .. Len(log'[s]) : log'[s][i].state = "done" =>
        \/ i \in 1 .. Len(log[s]) /\ log[s][i].state = "done"
        \/ ~Passed(s, i)
        \/ log'[s][i].row \in apart'

LEMMA LogIs ==
    ASSUME SyncTypeOK, NEW s \in Sites
    PROVE  /\ log[s] \in Seq(Change) /\ Len(log[s]) \in Nat /\ DOMAIN log[s] = 1 .. Len(log[s])
           /\ \A i \in 1 .. Len(log[s]) : log[s][i] \in Change
<1>1. log[s] \in Seq(Change)
  BY DEF SyncTypeOK
<1> QED BY <1>1, LenProperties, ElementOfSeq

LEMMA SitesAre == Server \in Sites /\ Devices \subseteq Sites /\ Server \notin Devices
                  /\ \A w \in Runners : InstallOf[w] \in Devices /\ InstallOf[w] \in Sites /\ InstallOf[w] # Server
BY SyncAssumption DEF Sites

LEMMA CoverStays ==
    ASSUME SyncTypeOK, LogGrows, SettledKept, LateIsApart, NEW s \in Sites, NEW t \in Sites, NEW place,
           CoveredBy(log[s], table[t], seen[t], apart, place),
           \A i \in 1 .. Len(log'[s]) : i <= place => Passed(s, i)
    PROVE  CoveredBy(log'[s], table'[t], seen'[t], apart', place)
<1> SUFFICES ASSUME NEW i \in 1 .. Len(log'[s]), i <= place, log'[s][i].state = "done"
             PROVE  TakenIn(table'[t], seen'[t], apart', log'[s][i])
  BY DEF CoveredBy
<1>1. CASE i \in 1 .. Len(log[s]) /\ log[s][i].state = "done"
  <2>1. TakenIn(table[t], seen[t], apart, log[s][i]) /\ log[s][i] \in Change
    BY <1>1, LogIs DEF CoveredBy
  <2>2. log'[s][i] = log[s][i]
    BY <1>1 DEF LogGrows
  <2> QED BY <2>1, <2>2 DEF SettledKept
<1>2. CASE log'[s][i].row \in apart'
  BY <1>2 DEF TakenIn
<1> QED BY <1>1, <1>2 DEF LateIsApart

LEMMA BatchStays ==
    ASSUME SyncTypeOK, LogGrows, SettledKept, LateIsApart, NEW s \in Sites, NEW t \in Sites,
           Len(log'[s]) \in Nat, NEW batch, NEW top \in Nat,
           BatchFits(log[s], table[t], seen[t], apart, batch, top),
           \A i \in 1 .. Len(log'[s]) : i <= top => Passed(s, i)
    PROVE  BatchFits(log'[s], table'[t], seen'[t], apart', batch, top)
<1>1. Len(log[s]) \in Nat /\ Len(log[s]) <= Len(log'[s]) /\ top <= Len(log'[s])
  BY LogIs DEF LogGrows, BatchFits
<1>2. ASSUME NEW k \in 1 .. Len(batch)
      PROVE  \E i \in 1 .. Len(log'[s]) : log'[s][i] = batch[k] /\ log'[s][i].state = "done"
  <2>1. PICK i \in 1 .. Len(log[s]) : log[s][i] = batch[k] /\ log[s][i].state = "done"
    BY DEF BatchFits
  <2>2. i \in 1 .. Len(log'[s]) /\ log'[s][i] = log[s][i]
    BY <1>1, <2>1 DEF LogGrows
  <2> QED BY <2>1, <2>2
<1>3. ASSUME NEW i \in 1 .. Len(log'[s]), i <= top, log'[s][i].state = "done"
      PROVE  TakenIn(table'[t], seen'[t], apart', log'[s][i]) \/ \E k \in 1 .. Len(batch) : batch[k] = log'[s][i]
  <2>1. CASE i \in 1 .. Len(log[s]) /\ log[s][i].state = "done"
    <3>1. log'[s][i] = log[s][i] /\ log[s][i] \in Change
      BY <2>1, LogIs DEF LogGrows
    <3>2. TakenIn(table[t], seen[t], apart, log[s][i]) \/ \E k \in 1 .. Len(batch) : batch[k] = log[s][i]
      BY <1>3, <2>1 DEF BatchFits
    <3> QED BY <3>1, <3>2 DEF SettledKept
  <2>2. CASE log'[s][i].row \in apart'
    BY <2>2 DEF TakenIn
  <2> QED BY <1>3, <2>1, <2>2 DEF LateIsApart
<1> QED BY <1>1, <1>2, <1>3 DEF BatchFits

\* Then cursors and the rounds that do not move are as sound as they were.
LEMMA CursorsStay ==
    ASSUME SyncInv, SyncTypeOK', LogGrows, SettledKept, LateIsApart, links' = links
    PROVE  LinksSound' /\ \A w \in Runners : round'[w] = round[w] /\ round[w].pc # "idle" => RoundSound(w)'
<1>1. SyncTypeOK /\ LinksSound /\ RoundsSound
  BY DEF SyncInv
<1>2. \A s \in Sites : Len(log[s]) \in Nat /\ Len(log'[s]) \in Nat /\ Len(log[s]) <= Len(log'[s])
  <2> SUFFICES ASSUME NEW s \in Sites
               PROVE  Len(log[s]) \in Nat /\ Len(log'[s]) \in Nat /\ Len(log[s]) <= Len(log'[s])
    OBVIOUS
  <2>1. log'[s] \in Seq(Change)
    BY DEF SyncTypeOK
  <2>2. Len(log'[s]) \in Nat
    BY <2>1, LenProperties
  <2> QED BY <1>1, <2>2, LogIs DEF LogGrows
<1>3. ASSUME NEW d \in Devices
      PROVE  /\ links'[d].on => links'[d].gen > 0
             /\ links'[d].pushed <= Len(log'[d]) /\ links'[d].pulled <= Len(log'[Server])
             /\ CoveredBy(log'[d], table'[Server], seen'[Server], apart', links'[d].pushed)
             /\ CoveredBy(log'[Server], table'[d], seen'[d], apart', links'[d].pulled)
  <2>1. d \in Sites /\ Server \in Sites
    BY SitesAre
  <2>2. links[d].pushed \in Nat /\ links[d].pulled \in Nat
    BY <1>1 DEF SyncTypeOK
  <2>3. PICK pushed, pulled : pushed = links[d].pushed /\ pulled = links[d].pulled
    OBVIOUS
  <2>4. \A i : i <= pushed => Passed(d, i)
    BY <2>2, <2>3 DEF Passed
  <2>5. \A i : i <= pulled => Passed(Server, i)
    BY <2>2, <2>3 DEF Passed
  <2>6. /\ pushed <= Len(log[d]) /\ pulled <= Len(log[Server])
        /\ CoveredBy(log[d], table[Server], seen[Server], apart, pushed)
        /\ CoveredBy(log[Server], table[d], seen[d], apart, pulled)
    BY <1>1, <2>3 DEF LinksSound, LinkFits, Covers
  <2>7. pushed <= Len(log'[d]) /\ pulled <= Len(log'[Server])
    BY <1>2, <2>1, <2>2, <2>3, <2>6
  <2>8. CoveredBy(log'[d], table'[Server], seen'[Server], apart', pushed)
    BY <1>1, <2>1, <2>4, <2>6, CoverStays
  <2>9. CoveredBy(log'[Server], table'[d], seen'[d], apart', pulled)
    BY <1>1, <2>1, <2>5, <2>6, CoverStays
  <2>10. links'[d].on => links'[d].gen > 0
    BY <1>1 DEF LinksSound, LinkFits
  <2> QED BY <2>3, <2>7, <2>8, <2>9, <2>10
<1>4. LinksSound'
  BY <1>3 DEF LinksSound, LinkFits, Covers
<1>5. ASSUME NEW w \in Runners, round'[w] = round[w], round[w].pc # "idle" PROVE RoundSound(w)'
  <2>1. PICK d \in Devices : d = InstallOf[w]
    BY SitesAre
  <2>2. PICK x : x = round[w]
    OBVIOUS
  <2>3. x.pushed \in Nat /\ x.pulled \in Nat /\ x.top \in Nat /\ d \in Sites /\ Server \in Sites
    BY <1>1, <2>2, SitesAre DEF SyncTypeOK, Round
  <2>4. RoundSound(w)
    BY <1>1, <1>5 DEF RoundsSound
  <2>5. \A i : i <= x.pushed => Passed(d, i)
    BY <2>1, <2>2, <2>3 DEF Passed
  <2>6. \A i : i <= x.pulled => Passed(Server, i)
    BY <2>1, <2>2, <2>3 DEF Passed
  <2>7. x.pc \in {"send", "sent"} => \A i : i <= x.top => Passed(d, i)
    BY <2>1, <2>2, <2>3 DEF Passed
  <2>8. x.pc \in {"apply", "applied"} => \A i : i <= x.top => Passed(Server, i)
    BY <2>1, <2>2, <2>3 DEF Passed
  <2>9. /\ x.gen \in 1 .. links[d].gen
        /\ CoveredBy(log[d], table[Server], seen[Server], apart, x.pushed)
        /\ CoveredBy(log[Server], table[d], seen[d], apart, x.pulled)
        /\ x.pc = "send" => BatchFits(log[d], table[Server], seen[Server], apart, x.batch, x.top)
        /\ x.pc = "sent" => x.top <= Len(log[d]) /\ CoveredBy(log[d], table[Server], seen[Server], apart, x.top)
        /\ x.pc \in {"send", "sent"} => x.top > x.pushed
        /\ x.pc = "apply" =>
              /\ BatchFits(log[Server], table[d], seen[d], apart, x.batch, x.top)
              /\ \A k \in 1 .. Len(x.batch) : x.batch[k].origin # <<d, x.gen>>
        /\ x.pc = "applied" =>
              x.top <= Len(log[Server]) /\ CoveredBy(log[Server], table[d], seen[d], apart, x.top)
        /\ x.pc \in {"apply", "applied"} /\ x.more => x.top > x.pulled
    BY <2>1, <2>2, <2>4 DEF RoundSound, RoundFits, Covers, BatchSound
  <2>10. CoveredBy(log'[d], table'[Server], seen'[Server], apart', x.pushed)
    BY <1>1, <2>3, <2>5, <2>9, CoverStays
  <2>11. CoveredBy(log'[Server], table'[d], seen'[d], apart', x.pulled)
    BY <1>1, <2>3, <2>6, <2>9, CoverStays
  <2>12. x.pc = "send" => BatchFits(log'[d], table'[Server], seen'[Server], apart', x.batch, x.top)
    BY <1>1, <1>2, <2>3, <2>7, <2>9, BatchStays
  <2>13. x.pc = "sent" => x.top <= Len(log'[d]) /\ CoveredBy(log'[d], table'[Server], seen'[Server], apart', x.top)
    <3> SUFFICES ASSUME x.pc = "sent"
                 PROVE  x.top <= Len(log'[d]) /\ CoveredBy(log'[d], table'[Server], seen'[Server], apart', x.top)
      OBVIOUS
    <3>1. x.top <= Len(log'[d])
      BY <1>2, <2>3, <2>9
    <3>2. CoveredBy(log'[d], table'[Server], seen'[Server], apart', x.top)
      BY <1>1, <2>3, <2>7, <2>9, CoverStays
    <3> QED BY <3>1, <3>2
  <2>14. x.pc = "apply" => BatchFits(log'[Server], table'[d], seen'[d], apart', x.batch, x.top)
    BY <1>1, <1>2, <2>3, <2>8, <2>9, BatchStays
  <2>15. x.pc = "applied" => x.top <= Len(log'[Server]) /\ CoveredBy(log'[Server], table'[d], seen'[d], apart', x.top)
    <3> SUFFICES ASSUME x.pc = "applied"
                 PROVE  x.top <= Len(log'[Server]) /\ CoveredBy(log'[Server], table'[d], seen'[d], apart', x.top)
      OBVIOUS
    <3>1. x.top <= Len(log'[Server])
      BY <1>2, <2>3, <2>9
    <3>2. CoveredBy(log'[Server], table'[d], seen'[d], apart', x.top)
      BY <1>1, <2>3, <2>8, <2>9, CoverStays
    <3> QED BY <3>1, <3>2
  <2>16. round'[w] = x /\ links' = links
    BY <1>5, <2>2
  <2> QED BY <2>1, <2>9, <2>10, <2>11, <2>12, <2>13, <2>14, <2>15, <2>16 DEF RoundSound, RoundFits, Covers, BatchSound
<1> QED BY <1>4, <1>5

\* What is on a table is in the past, of a row created and had.
LEMMA TableTimes ==
    ASSUME SyncInv, NEW s \in Sites, NEW r \in Rows
    PROVE  /\ table[s][r] \in Nat /\ clock \in Nat /\ table[s][r] <= clock /\ table[s][r] \in Moments
           /\ r \in seen[s] => r \in born
           /\ table[s][r] > 0 => r \in seen[s] /\ r \in born
           /\ r \in seen[s] => Logged(s, r)
<1>1. MaxClock \in Nat /\ Server \in Sites
  BY SyncAssumption, SitesAre
<1>2. table[s][r] \in Moments /\ clock \in Moments
  BY DEF SyncInv, SyncTypeOK
<1>3. table[s][r] \in Nat /\ clock \in Nat
  BY <1>1, <1>2 DEF Moments
<1>4. (table[s][r] > 0 => r \in seen[s]) /\ (r \in seen[s] => Logged(s, r))
  BY DEF SyncInv, TablesSound
<1>5. ASSUME r \in seen[s] PROVE r \in born /\ table[s][r] <= clock
  <2>1. PICK x \in {s, Server} : \E i \in 1 .. Len(log[x]) : log[x][i].row = r /\ log[x][i].at = table[s][r]
    BY <1>4, <1>5 DEF Logged
  <2>2. x \in Sites
    BY <1>1
  <2> QED BY <2>1, <2>2 DEF SyncInv, TimesSound
<1>6. table[s][r] <= clock
  BY <1>3, <1>4, <1>5
<1> QED BY <1>2, <1>3, <1>4, <1>5, <1>6

LEMMA PassedIsOld ==
    ASSUME SyncInv, NEW s \in Sites, NEW i \in Nat, Passed(s, i)
    PROVE  i <= Len(log[s])
<1>1. SyncTypeOK /\ LinksSound /\ RoundsSound /\ Len(log[s]) \in Nat
  BY LogIs DEF SyncInv
<1>2. CASE s \in Devices /\ links[s].pushed >= i
  <2>1. links[s].pushed \in Nat /\ links[s].pushed <= Len(log[s])
    BY <1>1, <1>2 DEF SyncTypeOK, LinksSound, LinkFits
  <2> QED BY <1>1, <1>2, <2>1
<1>3. CASE s = Server /\ \E d \in Devices : links[d].pulled >= i
  <2>1. PICK d \in Devices : links[d].pulled >= i
    BY <1>3
  <2>2. links[d].pulled \in Nat /\ links[d].pulled <= Len(log[s])
    BY <1>1, <1>3 DEF SyncTypeOK, LinksSound, LinkFits
  <2> QED BY <1>1, <2>1, <2>2
<1>4. ASSUME NEW w \in Runners,
             \/ InstallOf[w] = s /\ round[w].pushed >= i
             \/ InstallOf[w] = s /\ round[w].pc \in {"send", "sent"} /\ round[w].top >= i
             \/ s = Server /\ round[w].pulled >= i
             \/ s = Server /\ round[w].pc \in {"apply", "applied"} /\ round[w].top >= i
      PROVE  i <= Len(log[s])
  <2>1. /\ round[w].pushed \in Nat /\ round[w].pulled \in Nat /\ round[w].top \in Nat
        /\ round[w].pushed <= Len(log[InstallOf[w]]) /\ round[w].pulled <= Len(log[Server])
    BY <1>1 DEF SyncTypeOK, Round
  <2>2. round[w].pc \in {"send", "sent"} => round[w].top <= Len(log[InstallOf[w]])
    BY <1>1 DEF RoundsSound, RoundSound, RoundFits, BatchSound, BatchFits
  <2>3. round[w].pc \in {"apply", "applied"} => round[w].top <= Len(log[Server])
    BY <1>1 DEF RoundsSound, RoundSound, RoundFits, BatchSound, BatchFits
  <2> QED BY <1>1, <1>4, <2>1, <2>2, <2>3
<1> QED BY <1>2, <1>3, <1>4 DEF Passed

LEMMA OneMore ==
    ASSUME SyncTypeOK, NEW s \in Sites, NEW e \in Change, log' = [log EXCEPT ![s] = Append(@, e)]
    PROVE  /\ log' \in [Sites -> Seq(Change)]
           /\ Len(log[s]) \in Nat /\ Len(log'[s]) = Len(log[s]) + 1 /\ log'[s][Len(log[s]) + 1] = e
           /\ \A t \in Sites : /\ Len(log[t]) \in Nat /\ Len(log[t]) <= Len(log'[t])
                               /\ \A i \in 1 .. Len(log[t]) : log'[t][i] = log[t][i]
           /\ \A t \in Sites : \A i \in 1 .. Len(log'[t]) :
                 \/ i \in 1 .. Len(log[t]) /\ log'[t][i] = log[t][i]
                 \/ t = s /\ i = Len(log[s]) + 1 /\ log'[t][i] = e
<1>1. log \in [Sites -> Seq(Change)] /\ \A t \in Sites : log[t] \in Seq(Change) /\ Len(log[t]) \in Nat
  BY LogIs DEF SyncTypeOK
<1>2. PICK l : l = log[s]
  OBVIOUS
<1>3. PICK m : m = Append(l, e)
  OBVIOUS
<1>4. log' = [log EXCEPT ![s] = m]
  BY <1>2, <1>3
<1>5. /\ m \in Seq(Change) /\ Len(l) \in Nat /\ Len(m) = Len(l) + 1
      /\ \A i \in 1 .. Len(l) : m[i] = l[i]
      /\ m[Len(l) + 1] = e
  BY <1>1, <1>2, <1>3, AppendProperties, LenProperties
<1>6. \A i \in 1 .. Len(m) : i \in 1 .. Len(l) \/ i = Len(l) + 1
  BY <1>5
<1>7. log'[s] = m /\ \A t \in Sites : t # s => log'[t] = log[t]
  BY <1>1, <1>4
<1>8. log' \in [Sites -> Seq(Change)]
  BY <1>1, <1>4, <1>5
<1>9. ASSUME NEW t \in Sites
      PROVE  /\ Len(log[t]) \in Nat /\ Len(log[t]) <= Len(log'[t])
             /\ \A i \in 1 .. Len(log[t]) : log'[t][i] = log[t][i]
             /\ \A i \in 1 .. Len(log'[t]) :
                   \/ i \in 1 .. Len(log[t]) /\ log'[t][i] = log[t][i]
                   \/ t = s /\ i = Len(log[s]) + 1 /\ log'[t][i] = e
  <2>1. CASE t = s
    BY <1>2, <1>5, <1>6, <1>7, <2>1
  <2>2. CASE t # s
    BY <1>1, <1>7, <2>2
  <2> QED BY <2>1, <2>2
<1> QED BY <1>2, <1>5, <1>7, <1>8, <1>9

\* What an edit enters into the log.
LEMMA EditIs ==
    ASSUME SyncInv, NEW s \in Sites, NEW r \in Rows, Edit(s, r) \/ SetStatus(s, r)
    PROVE  \E e \in Change :
              /\ log' = [log EXCEPT ![s] = Append(@, e)]
              /\ e.row = r /\ e.by = s /\ e.origin = <<>> /\ e.state = "open"
              /\ \/ e.at = clock + 1 /\ (r \notin born \/ (r \in Dated /\ table[s][r] > 0))
                 \/ e.at = 0 /\ table[s][r] > 0
                 \/ e.at = table[s][r] /\ table[s][r] > 0 /\ r \in Dated /\ r \in apart'
<1>0. CASE SetStatus(s, r)
  <2>1. PICK e : e = LogEntry(r, table[s][r], s, <<>>, "open")
    OBVIOUS
  <2>2. table[s][r] \in Moments
    BY TableTimes
  <2>3. /\ e \in Change /\ e.row = r /\ e.by = s /\ e.origin = <<>> /\ e.state = "open"
        /\ e.at = table[s][r]
    BY <2>1, <2>2 DEF LogEntry, Change
  <2>4. log' = [log EXCEPT ![s] = Append(@, e)] /\ table[s][r] > 0 /\ r \in Dated /\ r \in apart'
    BY <1>0, <2>1 DEF SetStatus
  <2> QED BY <2>3, <2>4
<1> SUFFICES ASSUME Edit(s, r)
             PROVE  \E e \in Change :
                       /\ log' = [log EXCEPT ![s] = Append(@, e)]
                       /\ e.row = r /\ e.by = s /\ e.origin = <<>> /\ e.state = "open"
                       /\ \/ e.at = clock + 1 /\ (r \notin born \/ (r \in Dated /\ table[s][r] > 0))
                          \/ e.at = 0 /\ table[s][r] > 0
  BY <1>0
<1>1. clock \in Nat /\ clock < MaxClock /\ MaxClock \in Nat /\ clock + 1 \in Moments /\ 0 \in Moments
  <2>1. clock \in Nat /\ MaxClock \in Nat /\ clock < MaxClock
    BY TableTimes, SyncAssumption DEF Edit
  <2> QED BY <2>1 DEF Moments
<1>2. PICK edited : edited = LogEntry(r, clock + 1, s, <<>>, "open")
  OBVIOUS
<1>3. PICK gone : gone = LogEntry(r, 0, s, <<>>, "open")
  OBVIOUS
<1>4. /\ edited \in Change /\ edited.row = r /\ edited.by = s /\ edited.origin = <<>> /\ edited.state = "open"
      /\ edited.at = clock + 1
  BY <1>1, <1>2 DEF LogEntry, Change
<1>5. /\ gone \in Change /\ gone.row = r /\ gone.by = s /\ gone.origin = <<>> /\ gone.state = "open"
      /\ gone.at = 0
  BY <1>1, <1>3 DEF LogEntry, Change
<1>6. \/ r \notin born /\ log' = [log EXCEPT ![s] = Append(@, edited)]
      \/ table[s][r] > 0 /\ r \in Dated /\ log' = [log EXCEPT ![s] = Append(@, edited)]
      \/ table[s][r] > 0 /\ log' = [log EXCEPT ![s] = Append(@, gone)]
  BY <1>2, <1>3 DEF Edit
<1> QED BY <1>4, <1>5, <1>6

LEMMA EditKeeps ==
    ASSUME SyncInv, NEW s \in Sites, NEW r \in Rows, Edit(s, r) \/ SetStatus(s, r)
    PROVE  SyncInv'
<1>1. PICK e \in Change :
         /\ log' = [log EXCEPT ![s] = Append(@, e)]
         /\ e.row = r /\ e.by = s /\ e.origin = <<>> /\ e.state = "open"
         /\ \/ e.at = clock + 1 /\ (r \notin born \/ (r \in Dated /\ table[s][r] > 0))
            \/ e.at = 0 /\ table[s][r] > 0
            \/ e.at = table[s][r] /\ table[s][r] > 0 /\ r \in Dated /\ r \in apart'
  BY EditIs
<1>2. SyncTypeOK
  BY DEF SyncInv
<1>3. /\ log' \in [Sites -> Seq(Change)]
      /\ Len(log[s]) \in Nat /\ Len(log'[s]) = Len(log[s]) + 1 /\ log'[s][Len(log[s]) + 1] = e
      /\ \A t \in Sites : /\ Len(log[t]) \in Nat /\ Len(log[t]) <= Len(log'[t])
                          /\ \A i \in 1 .. Len(log[t]) : log'[t][i] = log[t][i]
      /\ \A t \in Sites : \A i \in 1 .. Len(log'[t]) :
            \/ i \in 1 .. Len(log[t]) /\ log'[t][i] = log[t][i]
            \/ t = s /\ i = Len(log[s]) + 1 /\ log'[t][i] = e
  BY <1>1, <1>2, OneMore
<1>4. /\ clock \in Nat /\ clock' = clock + 1 /\ clock' \in Moments
      /\ table' = table /\ links' = links /\ round' = round /\ lost' = lost /\ seen' = seen
      /\ apart \subseteq apart' /\ apart' \subseteq Rows
      /\ born \subseteq born' /\ r \in born' /\ born' \subseteq Rows
  <2>1. clock \in Nat /\ MaxClock \in Nat /\ clock < MaxClock /\ clock' = clock + 1
    BY TableTimes, SyncAssumption DEF Edit, SetStatus
  <2>2. table[s][r] > 0 => r \in born
    BY TableTimes
  <2>3. born \subseteq Rows /\ apart \subseteq Rows
    BY <1>2 DEF SyncTypeOK
  <2>4. clock' \in Moments
    BY <2>1 DEF Moments
  <2>5. CASE Edit(s, r)
    BY <2>1, <2>2, <2>3, <2>4, <2>5 DEF Edit
  <2>6. CASE SetStatus(s, r)
    BY <2>1, <2>2, <2>3, <2>4, <2>6 DEF SetStatus
  <2> QED BY <2>5, <2>6
<1>5. \A i \in 1 .. Len(log[s]) : log[s][i].state = "open" => log[s][i].row # r
  BY <1>2, LogIs DEF Edit, SetStatus, Busy, Meets
<1>6. SyncTypeOK'
  <2>1. ASSUME NEW w \in Runners
        PROVE  round'[w].pushed <= Len(log'[InstallOf[w]]) /\ round'[w].pulled <= Len(log'[Server])
    <3>1. /\ round[w].pushed \in Nat /\ round[w].pulled \in Nat
          /\ round[w].pushed <= Len(log[InstallOf[w]]) /\ round[w].pulled <= Len(log[Server])
      BY <1>2 DEF SyncTypeOK, Round
    <3>2. PICK p, q : p = round[w].pushed /\ q = round[w].pulled
      OBVIOUS
    <3>3. PICK m \in Sites : m = InstallOf[w]
      BY SitesAre
    <3>4. Len(log[m]) \in Nat /\ Len(log[Server]) \in Nat /\ Len(log[m]) <= Len(log'[m]) /\ Len(log[Server]) <= Len(log'[Server])
          /\ Len(log'[m]) \in Nat /\ Len(log'[Server]) \in Nat
      BY <1>3, LenProperties, SitesAre
    <3>5. p <= Len(log'[m]) /\ q <= Len(log'[Server])
      BY <3>1, <3>2, <3>3, <3>4
    <3> QED BY <1>4, <3>2, <3>3, <3>5
  <2> QED BY <1>2, <1>3, <1>4, <2>1 DEF SyncTypeOK
<1>7. LogGrows
  BY <1>3 DEF LogGrows
<1>8. SettledKept
  BY <1>4 DEF SettledKept, TakenIn
<1>9. LateIsApart
  BY <1>1, <1>3 DEF LateIsApart
<1>10. LinksSound' /\ RoundsSound'
  BY <1>4, <1>6, <1>7, <1>8, <1>9, CursorsStay DEF RoundsSound
<1>11. AuthorsSound'
  <2>1. ASSUME NEW d \in Devices, NEW i \in 1 .. Len(log'[d])
        PROVE  log'[d][i].by = d /\ log'[d][i].origin = <<>>
    <3>1. d \in Sites
      BY SitesAre
    <3> QED BY <1>1, <1>3, <3>1 DEF SyncInv, AuthorsSound
  <2>2. ASSUME NEW i \in 1 .. Len(log'[Server])
        PROVE  \/ log'[Server][i].by = Server /\ log'[Server][i].origin = <<>>
               \/ /\ log'[Server][i].by \in Devices /\ log'[Server][i].state = "done"
                  /\ \E g \in 1 .. links'[log'[Server][i].by].gen : log'[Server][i].origin = <<log'[Server][i].by, g>>
    <3>1. CASE i \in 1 .. Len(log[Server]) /\ log'[Server][i] = log[Server][i]
      BY <1>4, <3>1 DEF SyncInv, AuthorsSound
    <3>2. CASE Server = s /\ log'[Server][i] = e
      BY <1>1, <3>2
    <3> QED BY <1>3, <3>1, <3>2, SitesAre
  <2> QED BY <2>1, <2>2 DEF AuthorsSound
<1>12. TimesSound'
  <2>1. \A t \in Sites : \A i \in 1 .. Len(log[t]) :
           log[t][i] \in Change /\ log[t][i].row \in born /\ log[t][i].at \in Nat /\ log[t][i].at <= clock
    BY <1>2, LogIs, ChangeIs DEF SyncInv, TimesSound
  <2>2. e.at \in Nat /\ e.at <= clock'
    <3>1. table[s][r] \in Nat /\ table[s][r] <= clock
      BY TableTimes
    <3> QED BY <1>1, <1>4, <3>1
  <2>3. ASSUME NEW t \in Sites, NEW i \in 1 .. Len(log'[t])
        PROVE  log'[t][i].row \in born' /\ log'[t][i].at <= clock'
    <3>1. CASE i \in 1 .. Len(log[t]) /\ log'[t][i] = log[t][i]
      BY <1>4, <2>1, <3>1
    <3>2. CASE log'[t][i] = e
      BY <1>1, <1>4, <2>2, <3>2
    <3> QED BY <1>3, <3>1, <3>2
  <2> DEFINE Agree(c, f) == /\ c.at > 0 /\ c.at = f.at => c.by = f.by \/ c.row \in apart' \/ f.row \in apart'
                            /\ c.row = f.row /\ c.row \notin Dated /\ c.at > 0 /\ f.at > 0 => c.at = f.at
  <2>4. \A t \in Sites : \A i \in 1 .. Len(log[t]) : Agree(log[t][i], e) /\ Agree(e, log[t][i])
    <3> SUFFICES ASSUME NEW t \in Sites, NEW i \in 1 .. Len(log[t])
                 PROVE  Agree(log[t][i], e) /\ Agree(e, log[t][i])
      OBVIOUS
    <3>1. log[t][i].row \in born /\ log[t][i].at \in Nat /\ log[t][i].at <= clock
      BY <2>1
    <3>2. CASE e.at = 0
      BY <3>1, <3>2
    <3>3. CASE e.at = clock + 1
      <4>1. log[t][i].at # e.at
        BY <1>4, <3>1, <3>3
      <4>2. log[t][i].row = e.row => e.row \in Dated
        BY <1>1, <1>4, <3>1, <3>3
      <4> QED BY <4>1, <4>2
    <3>4. CASE e.row \in Dated /\ e.row \in apart'
      BY <3>4
    <3> QED BY <1>1, <3>2, <3>3, <3>4
  <2>5. \A t, u \in Sites : \A i \in 1 .. Len(log[t]), j \in 1 .. Len(log[u]) : Agree(log[t][i], log[u][j])
    BY <1>4 DEF SyncInv, TimesSound
  <2>6. ASSUME NEW t \in Sites, NEW u \in Sites, NEW i \in 1 .. Len(log'[t]), NEW j \in 1 .. Len(log'[u])
        PROVE  Agree(log'[t][i], log'[u][j])
    <3>1. (i \in 1 .. Len(log[t]) /\ log'[t][i] = log[t][i]) \/ log'[t][i] = e
      BY <1>3
    <3>2. (j \in 1 .. Len(log[u]) /\ log'[u][j] = log[u][j]) \/ log'[u][j] = e
      BY <1>3
    <3>3. Agree(e, e)
      OBVIOUS
    <3> HIDE DEF Agree
    <3> QED BY <2>4, <2>5, <3>1, <3>2, <3>3
  <2> QED BY <2>3, <2>6 DEF TimesSound
<1>13. TablesSound'
  <2>1. ASSUME NEW t \in Sites, NEW q \in Rows, Logged(t, q) PROVE Logged(t, q)'
    <3>1. PICK x \in {t, Server} : \E i \in 1 .. Len(log[x]) :
             log[x][i].state = "done" /\ log[x][i].row = q /\ log[x][i].at = table[t][q]
      BY <2>1 DEF Logged
    <3>2. PICK i \in 1 .. Len(log[x]) : log[x][i].state = "done" /\ log[x][i].row = q /\ log[x][i].at = table[t][q]
      BY <3>1
    <3>3. x \in Sites
      BY SitesAre
    <3>4. i \in 1 .. Len(log'[x]) /\ log'[x][i] = log[x][i]
      <4>1. /\ Len(log[x]) \in Nat /\ Len(log[x]) <= Len(log'[x]) /\ Len(log'[x]) \in Nat
        BY <1>3, <3>3, LenProperties
      <4> QED BY <1>3, <3>3, <4>1
    <3> QED BY <1>4, <3>2, <3>4 DEF Logged
  <2> QED BY <1>4, <2>1 DEF SyncInv, TablesSound
<1>14. OpenSound'
  <2> SUFFICES ASSUME NEW t \in Sites, NEW i \in 1 .. Len(log'[t]), log'[t][i].state = "open"
               PROVE  /\ log'[t][i].at > 0 => log'[t][i].at > table'[t][log'[t][i].row] \/ log'[t][i].row \in apart'
                      /\ \/ table'[t][log'[t][i].row] > 0
                         \/ log'[t][i].at > 0 /\ log'[t][i].row \notin seen'[t]
                      /\ \A j \in 1 .. Len(log'[t]) :
                            log'[t][j].state = "open" /\ log'[t][j].row = log'[t][i].row => i = j
    BY DEF OpenSound
  <2>1. CASE i \in 1 .. Len(log[t]) /\ log'[t][i] = log[t][i]
    <3>1. /\ log[t][i].at > 0 => log[t][i].at > table[t][log[t][i].row] \/ log[t][i].row \in apart
          /\ table[t][log[t][i].row] > 0 \/ (log[t][i].at > 0 /\ log[t][i].row \notin seen[t])
          /\ \A j \in 1 .. Len(log[t]) : log[t][j].state = "open" /\ log[t][j].row = log[t][i].row => i = j
      BY <2>1 DEF SyncInv, OpenSound
    <3>2. t = s => log[t][i].row # e.row
      BY <1>1, <1>5, <2>1
    <3>3. ASSUME NEW j \in 1 .. Len(log'[t]), log'[t][j].state = "open", log'[t][j].row = log'[t][i].row PROVE i = j
      <4>1. (j \in 1 .. Len(log[t]) /\ log'[t][j] = log[t][j]) \/ (t = s /\ log'[t][j] = e)
        BY <1>3
      <4> QED BY <2>1, <3>1, <3>2, <3>3, <4>1
    <3> QED BY <1>4, <2>1, <3>1, <3>3
  <2>2. CASE t = s /\ i = Len(log[s]) + 1 /\ log'[t][i] = e
    <3>1. table[s][r] \in Nat /\ table[s][r] <= clock /\ (r \in seen[s] => r \in born) /\ (table[s][r] > 0 => r \in born)
      BY TableTimes
    <3>2. e.at > 0 => e.at > table[s][r] \/ r \in apart'
      BY <1>1, <1>4, <3>1
    <3>3. table[s][r] > 0 \/ (e.at > 0 /\ r \notin seen[s])
      BY <1>1, <1>4, <3>1
    <3>4. ASSUME NEW j \in 1 .. Len(log'[t]), log'[t][j].state = "open", log'[t][j].row = r PROVE i = j
      <4>1. (j \in 1 .. Len(log[t]) /\ log'[t][j] = log[t][j]) \/ j = Len(log[s]) + 1
        BY <1>3
      <4> QED BY <1>5, <2>2, <3>4, <4>1
    <3> QED BY <1>1, <1>4, <2>2, <3>2, <3>3, <3>4
  <2> QED BY <1>3, <2>1, <2>2
<1>15. LogsSettled'
  <2> SUFFICES ASSUME NEW t \in Sites, NEW i \in 1 .. Len(log'[t]), log'[t][i].state = "done"
               PROVE  Settled(t, log[t][i])' /\ Settled(log[t][i].by, log[t][i])'
    BY DEF LogsSettled
  <2>1. i \in 1 .. Len(log[t]) /\ log'[t][i] = log[t][i]
    BY <1>1, <1>3
  <2>2. Settled(t, log[t][i]) /\ Settled(log[t][i].by, log[t][i])
    BY <2>1 DEF SyncInv, LogsSettled
  <2> QED BY <1>4, <2>1, <2>2 DEF Settled, TakenIn
<1>16. LoggedOnce'
  <2> SUFFICES ASSUME NEW t \in Sites, NEW i \in DOMAIN log'[t], NEW j \in DOMAIN log'[t],
                      log'[t][i].row = log'[t][j].row, log'[t][i].at = log'[t][j].at, log'[t][i].at > 0,
                      log'[t][i].row \notin apart'
               PROVE  i = j
    BY DEF LoggedOnce
  <2>1. i \in 1 .. Len(log'[t]) /\ j \in 1 .. Len(log'[t])
    BY <1>3, LenProperties
  <2>2. \A k \in 1 .. Len(log[t]) : log[t][k].at > 0 => log[t][k].at # e.at \/ e.row \in apart'
    <3>1. \A k \in 1 .. Len(log[t]) : log[t][k].at \in Nat /\ log[t][k].at <= clock
      BY <1>2, LogIs, ChangeIs DEF SyncInv, TimesSound
    <3> QED BY <1>1, <1>4, <3>1
  <2>3. CASE i \in 1 .. Len(log[t]) /\ log'[t][i] = log[t][i] /\ j \in 1 .. Len(log[t]) /\ log'[t][j] = log[t][j]
    <3>1. i \in DOMAIN log[t] /\ j \in DOMAIN log[t]
      BY <1>2, <2>3, LogIs
    <3> QED BY <1>4, <2>3, <3>1 DEF SyncInv, LoggedOnce
  <2>4. CASE i = Len(log[s]) + 1 /\ j = Len(log[s]) + 1
    BY <2>4
  <2> QED BY <1>3, <2>1, <2>2, <2>3, <2>4
<1> QED BY <1>6, <1>10, <1>11, <1>12, <1>13, <1>14, <1>15, <1>16 DEF SyncInv

\* An entry of a log ends, committed or not.
Ended(s, i, how) == log' = [log EXCEPT ![s][i].state = how]

LEMMA EndedIs ==
    ASSUME SyncTypeOK, NEW s \in Sites, NEW i \in 1 .. Len(log[s]), NEW how \in {"done", "void"}, Ended(s, i, how)
    PROVE  /\ log' \in [Sites -> Seq(Change)]
           /\ \A t \in Sites : Len(log'[t]) = Len(log[t]) /\ Len(log[t]) \in Nat
           /\ \A t \in Sites : \A k \in 1 .. Len(log[t]) :
                 /\ log'[t][k].row = log[t][k].row /\ log'[t][k].at = log[t][k].at
                 /\ log'[t][k].by = log[t][k].by /\ log'[t][k].origin = log[t][k].origin
                 /\ t # s \/ k # i => log'[t][k] = log[t][k]
           /\ log'[s][i].state = how
<1>1. log \in [Sites -> Seq(Change)] /\ \A t \in Sites : log[t] \in Seq(Change) /\ Len(log[t]) \in Nat
  BY LogIs DEF SyncTypeOK
<1>2. PICK l : l = log[s]
  OBVIOUS
<1>3. PICK c : c = l[i]
  OBVIOUS
<1>4. PICK e : e = [c EXCEPT !.state = how]
  OBVIOUS
<1>5. PICK m : m = [l EXCEPT ![i] = e]
  OBVIOUS
<1>6. log' = [log EXCEPT ![s] = m]
  BY <1>1, <1>2, <1>3, <1>4, <1>5 DEF Ended
<1>7. l \in Seq(Change) /\ c \in Change /\ i \in 1 .. Len(l)
  BY <1>1, <1>2, <1>3, ElementOfSeq
<1>8. e \in Change /\ e.row = c.row /\ e.at = c.at /\ e.by = c.by /\ e.origin = c.origin /\ e.state = how
  BY <1>4, <1>7 DEF Change
<1>9. m \in Seq(Change) /\ Len(m) = Len(l) /\ m[i] = e /\ \A k \in 1 .. Len(l) : k # i => m[k] = l[k]
  BY <1>5, <1>7, <1>8, ExceptSeq
<1>10. log'[s] = m /\ \A t \in Sites : t # s => log'[t] = log[t]
  BY <1>1, <1>6
<1>11. log' \in [Sites -> Seq(Change)]
  BY <1>1, <1>6, <1>9
<1>12. ASSUME NEW t \in Sites
       PROVE  /\ Len(log'[t]) = Len(log[t]) /\ Len(log[t]) \in Nat
              /\ \A k \in 1 .. Len(log[t]) :
                   /\ log'[t][k].row = log[t][k].row /\ log'[t][k].at = log[t][k].at
                   /\ log'[t][k].by = log[t][k].by /\ log'[t][k].origin = log[t][k].origin
                   /\ t # s \/ k # i => log'[t][k] = log[t][k]
  <2>1. CASE t = s
    BY <1>1, <1>2, <1>3, <1>8, <1>9, <1>10, <2>1
  <2>2. CASE t # s
    BY <1>1, <1>10, <2>2
  <2> QED BY <2>1, <2>2
<1> QED BY <1>8, <1>9, <1>10, <1>11, <1>12

\* Who wrote what and when, and how often it is logged, stay as they were.
LEMMA EndedKeeps ==
    ASSUME SyncInv, NEW s \in Sites, NEW i \in 1 .. Len(log[s]), NEW how \in {"done", "void"}, Ended(s, i, how),
           log[s][i].state = "open", clock' = clock, born' = born, links' = links, apart \subseteq apart'
    PROVE  AuthorsSound' /\ TimesSound' /\ LoggedOnce'
<1>1. SyncTypeOK
  BY DEF SyncInv
<1>2. /\ \A t \in Sites : Len(log'[t]) = Len(log[t]) /\ Len(log[t]) \in Nat
      /\ log' \in [Sites -> Seq(Change)]
      /\ \A t \in Sites : \A k \in 1 .. Len(log[t]) :
            /\ log'[t][k].row = log[t][k].row /\ log'[t][k].at = log[t][k].at
            /\ log'[t][k].by = log[t][k].by /\ log'[t][k].origin = log[t][k].origin
            /\ t # s \/ k # i => log'[t][k] = log[t][k]
  BY <1>1, EndedIs
<1>3. AuthorsSound'
  <2>1. ASSUME NEW d \in Devices, NEW k \in 1 .. Len(log'[d])
        PROVE  log'[d][k].by = d /\ log'[d][k].origin = <<>>
    BY <1>2, SitesAre DEF SyncInv, AuthorsSound
  <2>2. ASSUME NEW k \in 1 .. Len(log'[Server])
        PROVE  \/ log'[Server][k].by = Server /\ log'[Server][k].origin = <<>>
               \/ /\ log'[Server][k].by \in Devices /\ log'[Server][k].state = "done"
                  /\ \E g \in 1 .. links'[log'[Server][k].by].gen : log'[Server][k].origin = <<log'[Server][k].by, g>>
    <3>1. k \in 1 .. Len(log[Server]) /\ Server \in Sites
      BY <1>2, SitesAre
    <3>2. CASE log[Server][k].by = Server /\ log[Server][k].origin = <<>>
      BY <1>2, <3>1, <3>2
    <3>3. CASE /\ log[Server][k].by \in Devices /\ log[Server][k].state = "done"
               /\ \E g \in 1 .. links[log[Server][k].by].gen : log[Server][k].origin = <<log[Server][k].by, g>>
      <4>1. Server # s \/ k # i
        BY <3>3
      <4>2. log'[Server][k] = log[Server][k]
        BY <1>2, <3>1, <4>1
      <4> QED BY <3>3, <4>2
    <3> QED BY <3>1, <3>2, <3>3 DEF SyncInv, AuthorsSound
  <2> QED BY <2>1, <2>2 DEF AuthorsSound
<1>4. TimesSound'
  <2>1. \A t \in Sites : \A k \in 1 .. Len(log[t]) : log[t][k].row \in born /\ log[t][k].at <= clock
    BY DEF SyncInv, TimesSound
  <2>2. \A t, u \in Sites : \A j \in 1 .. Len(log[t]), k \in 1 .. Len(log[u]) :
          /\ log[t][j].at > 0 /\ log[t][j].at = log[u][k].at
                => log[t][j].by = log[u][k].by \/ log[t][j].row \in apart \/ log[u][k].row \in apart
          /\ log[t][j].row = log[u][k].row /\ log[t][j].row \notin Dated /\ log[t][j].at > 0 /\ log[u][k].at > 0
                => log[t][j].at = log[u][k].at
    BY DEF SyncInv, TimesSound
  <2>3. \A t \in Sites : \A k \in 1 .. Len(log'[t]) : log'[t][k].row \in born' /\ log'[t][k].at <= clock'
    BY <1>2, <2>1
  <2>4. ASSUME NEW t \in Sites, NEW u \in Sites, NEW j \in 1 .. Len(log'[t]), NEW k \in 1 .. Len(log'[u])
        PROVE  /\ log'[t][j].at > 0 /\ log'[t][j].at = log'[u][k].at
                     => log'[t][j].by = log'[u][k].by \/ log'[t][j].row \in apart' \/ log'[u][k].row \in apart'
               /\ log'[t][j].row = log'[u][k].row /\ log'[t][j].row \notin Dated
                     /\ log'[t][j].at > 0 /\ log'[u][k].at > 0 => log'[t][j].at = log'[u][k].at
    <3>1. j \in 1 .. Len(log[t]) /\ k \in 1 .. Len(log[u])
      BY <1>2
    <3>2. /\ log'[t][j].row = log[t][j].row /\ log'[t][j].at = log[t][j].at /\ log'[t][j].by = log[t][j].by
          /\ log'[u][k].row = log[u][k].row /\ log'[u][k].at = log[u][k].at /\ log'[u][k].by = log[u][k].by
      BY <1>2, <3>1
    <3> QED BY <2>2, <3>1, <3>2
  <2> QED BY <2>3, <2>4 DEF TimesSound
<1>5. LoggedOnce'
  <2> SUFFICES ASSUME NEW t \in Sites, NEW j \in DOMAIN log'[t], NEW k \in DOMAIN log'[t],
                      log'[t][j].row = log'[t][k].row, log'[t][j].at = log'[t][k].at, log'[t][j].at > 0,
                      log'[t][j].row \notin apart'
               PROVE  j = k
    BY DEF LoggedOnce
  <2>1. j \in 1 .. Len(log[t]) /\ k \in 1 .. Len(log[t]) /\ j \in DOMAIN log[t] /\ k \in DOMAIN log[t]
    BY <1>1, <1>2, LogIs, LenProperties
  <2> QED BY <1>2, <2>1 DEF SyncInv, LoggedOnce
<1> QED BY <1>3, <1>4, <1>5

\* The types, too.
LEMMA SameLengths ==
    ASSUME SyncTypeOK, log' \in [Sites -> Seq(Change)], \A t \in Sites : Len(log'[t]) = Len(log[t]),
           clock' = clock, born' = born, links' = links, round' = round, lost' = lost,
           table' \in [Sites -> [Rows -> Moments]], seen' \in [Sites -> SUBSET Rows], apart' \subseteq Rows
    PROVE  SyncTypeOK'
<1>1. ASSUME NEW w \in Runners
      PROVE  round'[w].pushed <= Len(log'[InstallOf[w]]) /\ round'[w].pulled <= Len(log'[Server])
  <2>1. InstallOf[w] \in Sites /\ Server \in Sites
    BY SitesAre
  <2>2. round[w].pushed <= Len(log[InstallOf[w]]) /\ round[w].pulled <= Len(log[Server])
    BY DEF SyncTypeOK
  <2> QED BY <2>1, <2>2
<1> QED BY <1>1 DEF SyncTypeOK

LEMMA CommitKeeps ==
    ASSUME SyncInv, NEW s \in Sites, NEW i \in DOMAIN log[s], CommitEdit(s, i)
    PROVE  SyncInv'
<1>1. SyncTypeOK
  BY DEF SyncInv
<1>2. i \in 1 .. Len(log[s])
  BY <1>1, LogIs
<1>3. PICK c : c = log[s][i]
  OBVIOUS
<1>4. PICK r : r = c.row
  OBVIOUS
<1>5. c \in Change /\ r \in Rows /\ c.at \in Nat /\ c.at \in Moments /\ c.state = "open"
  BY <1>1, <1>2, <1>3, <1>4, LogIs, ChangeIs DEF CommitEdit
<1>6. /\ table' = [table EXCEPT ![s][r] = c.at] /\ Ended(s, i, "done")
      /\ seen' = [seen EXCEPT ![s] = @ \cup {r}]
      /\ apart' = IF Passed(s, i) THEN apart \cup {r} ELSE apart
      /\ clock' = clock /\ born' = born /\ links' = links /\ round' = round /\ lost' = lost
  BY <1>3, <1>4 DEF CommitEdit, Ended
<1>7. /\ \A t \in Sites : Len(log'[t]) = Len(log[t]) /\ Len(log[t]) \in Nat
      /\ log' \in [Sites -> Seq(Change)]
      /\ \A t \in Sites : \A k \in 1 .. Len(log[t]) :
            /\ log'[t][k].row = log[t][k].row /\ log'[t][k].at = log[t][k].at
            /\ log'[t][k].by = log[t][k].by /\ log'[t][k].origin = log[t][k].origin
            /\ t # s \/ k # i => log'[t][k] = log[t][k]
      /\ log'[s][i].state = "done"
  BY <1>1, <1>2, <1>6, EndedIs
<1>8. /\ table \in [Sites -> [Rows -> Moments]] /\ seen \in [Sites -> SUBSET Rows] /\ apart \subseteq Rows
  BY <1>1 DEF SyncTypeOK
<1>9. /\ table'[s][r] = c.at /\ \A t \in Sites, q \in Rows : t # s \/ q # r => table'[t][q] = table[t][q]
      /\ table' \in [Sites -> [Rows -> Moments]]
  BY <1>5, <1>6, <1>8
<1>10. /\ r \in seen'[s] /\ \A t \in Sites, q \in Rows : t # s \/ q # r => (q \in seen'[t] <=> q \in seen[t])
       /\ seen' \in [Sites -> SUBSET Rows] /\ \A t \in Sites : seen[t] \subseteq seen'[t]
  BY <1>5, <1>6, <1>8
<1>11. apart \subseteq apart' /\ apart' \subseteq Rows
  BY <1>5, <1>6, <1>8
<1>12. SyncTypeOK'
  BY <1>1, <1>6, <1>7, <1>9, <1>10, <1>11, SameLengths
<1>13. /\ c.at > 0 => c.at > table[s][r] \/ r \in apart
       /\ table[s][r] > 0 \/ (c.at > 0 /\ r \notin seen[s])
       /\ \A j \in 1 .. Len(log[s]) : log[s][j].state = "open" /\ log[s][j].row = r => i = j
  BY <1>2, <1>3, <1>4, <1>5 DEF SyncInv, OpenSound
<1>14. table[s][r] \in Nat
  BY <1>5, TableTimes
<1>15. SettledKept
  <2> SUFFICES ASSUME NEW t \in Sites, NEW e \in Change, TakenIn(table[t], seen[t], apart, e), e.row \notin apart
               PROVE  TakenIn(table'[t], seen'[t], apart', e)
    BY <1>11 DEF SettledKept, TakenIn
  <2>1. e.row \in Rows /\ e.at \in Nat
    BY ChangeIs
  <2>2. e.row \in seen[t] /\ (table[t][e.row] = 0 \/ (e.at > 0 /\ table[t][e.row] >= e.at))
    BY DEF TakenIn
  <2>3. CASE t # s \/ e.row # r
    BY <1>9, <1>10, <2>1, <2>2, <2>3 DEF TakenIn
  <2>4. CASE t = s /\ e.row = r
    <3>1. e.at > 0 /\ table[s][r] >= e.at
      BY <1>13, <1>14, <2>2, <2>4
    <3>2. c.at = 0 \/ c.at >= e.at
      BY <1>5, <1>13, <1>14, <2>1, <2>4, <3>1
    <3> QED BY <1>9, <1>10, <2>4, <3>1, <3>2 DEF TakenIn
  <2> QED BY <2>3, <2>4
<1>16. LogGrows
  <2> SUFFICES ASSUME NEW t \in Sites
               PROVE  /\ Len(log[t]) <= Len(log'[t])
                      /\ \A k \in 1 .. Len(log[t]) : log[t][k].state = "done" => log'[t][k] = log[t][k]
    BY DEF LogGrows
  <2>1. \A k \in 1 .. Len(log[t]) : log[t][k].state = "done" => t # s \/ k # i
    BY <1>3, <1>5
  <2> QED BY <1>7, <2>1
<1>17. LateIsApart
  <2> SUFFICES ASSUME NEW t \in Sites, NEW k \in 1 .. Len(log'[t]), log'[t][k].state = "done", Passed(t, k)
               PROVE  (k \in 1 .. Len(log[t]) /\ log[t][k].state = "done") \/ log'[t][k].row \in apart'
    BY DEF LateIsApart
  <2>1. k \in 1 .. Len(log[t])
    BY <1>7
  <2>2. CASE t # s \/ k # i
    BY <1>7, <2>1, <2>2
  <2>3. CASE t = s /\ k = i
    <3>1. log'[t][k].row = r
      BY <1>3, <1>4, <1>7, <2>1, <2>3
    <3> QED BY <1>6, <2>3, <3>1
  <2> QED BY <2>2, <2>3
<1>18. LinksSound' /\ RoundsSound'
  BY <1>6, <1>12, <1>15, <1>16, <1>17, CursorsStay DEF RoundsSound
<1>19. AuthorsSound' /\ TimesSound' /\ LoggedOnce'
  BY <1>2, <1>3, <1>5, <1>6, <1>11, EndedKeeps
<1>20. TablesSound'
  <2>1. ASSUME NEW t \in Sites, NEW q \in Rows, table'[t][q] > 0 PROVE q \in seen'[t]
    <3>1. CASE t # s \/ q # r
      BY <1>9, <1>10, <2>1, <3>1 DEF SyncInv, TablesSound
    <3> QED BY <1>10, <3>1
  <2>2. ASSUME NEW t \in Sites, NEW q \in Rows, q \in seen'[t] PROVE Logged(t, q)'
    <3>1. CASE t # s \/ q # r
      <4>1. Logged(t, q) /\ table'[t][q] = table[t][q]
        BY <1>9, <1>10, <2>2, <3>1 DEF SyncInv, TablesSound
      <4>2. PICK x \in {t, Server} : \E k \in 1 .. Len(log[x]) :
               log[x][k].state = "done" /\ log[x][k].row = q /\ log[x][k].at = table[t][q]
        BY <4>1 DEF Logged
      <4>3. PICK k \in 1 .. Len(log[x]) : log[x][k].state = "done" /\ log[x][k].row = q /\ log[x][k].at = table[t][q]
        BY <4>2
      <4>4. x \in Sites
        BY SitesAre
      <4>5. k \in 1 .. Len(log'[x]) /\ log'[x][k] = log[x][k]
        BY <1>7, <1>16, <4>3, <4>4 DEF LogGrows
      <4> QED BY <4>1, <4>3, <4>5 DEF Logged
    <3>2. CASE t = s /\ q = r
      <4>1. i \in 1 .. Len(log'[s]) /\ log'[s][i].state = "done" /\ log'[s][i].row = r /\ log'[s][i].at = table'[s][r]
        BY <1>2, <1>3, <1>4, <1>7, <1>9
      <4> QED BY <3>2, <4>1 DEF Logged
    <3> QED BY <3>1, <3>2
  <2> QED BY <2>1, <2>2 DEF TablesSound
<1>21. OpenSound'
  <2> SUFFICES ASSUME NEW t \in Sites, NEW k \in 1 .. Len(log'[t]), log'[t][k].state = "open"
               PROVE  /\ log'[t][k].at > 0 => log'[t][k].at > table'[t][log'[t][k].row] \/ log'[t][k].row \in apart'
                      /\ \/ table'[t][log'[t][k].row] > 0
                         \/ log'[t][k].at > 0 /\ log'[t][k].row \notin seen'[t]
                      /\ \A j \in 1 .. Len(log'[t]) :
                            log'[t][j].state = "open" /\ log'[t][j].row = log'[t][k].row => k = j
    BY DEF OpenSound
  <2>1. k \in 1 .. Len(log[t]) /\ (t # s \/ k # i)
    BY <1>7
  <2>2. log'[t][k] = log[t][k] /\ log[t][k].row \in Rows
    BY <1>1, <1>7, <2>1, LogIs, ChangeIs
  <2>3. t # s \/ log[t][k].row # r
    BY <1>13, <2>1, <2>2
  <2>4. /\ log[t][k].at > 0 => log[t][k].at > table[t][log[t][k].row] \/ log[t][k].row \in apart
        /\ table[t][log[t][k].row] > 0 \/ (log[t][k].at > 0 /\ log[t][k].row \notin seen[t])
        /\ \A j \in 1 .. Len(log[t]) : log[t][j].state = "open" /\ log[t][j].row = log[t][k].row => k = j
    BY <2>1, <2>2 DEF SyncInv, OpenSound
  <2>5. ASSUME NEW j \in 1 .. Len(log'[t]), log'[t][j].state = "open", log'[t][j].row = log'[t][k].row PROVE k = j
    <3>1. j \in 1 .. Len(log[t]) /\ (t # s \/ j # i)
      BY <1>7, <2>5
    <3>2. log'[t][j] = log[t][j]
      BY <1>7, <3>1
    <3> QED BY <2>2, <2>4, <2>5, <3>1, <3>2
  <2> QED BY <1>9, <1>10, <1>11, <2>2, <2>3, <2>4, <2>5
<1>22. LogsSettled'
  <2> SUFFICES ASSUME NEW t \in Sites, NEW k \in 1 .. Len(log'[t]), log'[t][k].state = "done"
               PROVE  /\ TakenIn(table'[t], seen'[t], apart', log'[t][k])
                      /\ TakenIn(table'[log'[t][k].by], seen'[log'[t][k].by], apart', log'[t][k])
    BY DEF LogsSettled, Settled
  <2>1. k \in 1 .. Len(log[t])
    BY <1>7
  <2>2. CASE t # s \/ k # i
    <3>1. log'[t][k] = log[t][k] /\ log[t][k] \in Change /\ log[t][k].by \in Sites
      BY <1>1, <1>7, <2>1, <2>2, LogIs, ChangeIs
    <3>2. /\ TakenIn(table[t], seen[t], apart, log[t][k])
          /\ TakenIn(table[log[t][k].by], seen[log[t][k].by], apart, log[t][k])
      BY <2>1, <3>1 DEF SyncInv, LogsSettled, Settled
    <3> QED BY <1>15, <3>1, <3>2 DEF SettledKept
  <2>3. CASE t = s /\ k = i
    <3>1. log'[s][i].row = r /\ log'[s][i].at = c.at /\ log'[s][i].by = c.by
      BY <1>2, <1>3, <1>4, <1>7
    <3>2. c.by = s
      <4>1. CASE s \in Devices
        BY <1>2, <1>3, <4>1 DEF SyncInv, AuthorsSound
      <4>2. CASE s = Server
        BY <1>2, <1>3, <1>5, <4>2 DEF SyncInv, AuthorsSound
      <4> QED BY <4>1, <4>2 DEF Sites
    <3>3. TakenIn(table'[s], seen'[s], apart', log'[s][i])
      BY <1>5, <1>9, <1>10, <3>1 DEF TakenIn
    <3> QED BY <2>3, <3>1, <3>2, <3>3
  <2> QED BY <2>2, <2>3
<1> QED BY <1>12, <1>18, <1>19, <1>20, <1>21, <1>22 DEF SyncInv

LEMMA AbortKeeps ==
    ASSUME SyncInv, NEW s \in Sites, NEW i \in DOMAIN log[s], AbortEdit(s, i)
    PROVE  SyncInv'
<1>1. SyncTypeOK
  BY DEF SyncInv
<1>2. i \in 1 .. Len(log[s]) /\ log[s][i].state = "open"
  BY <1>1, LogIs DEF AbortEdit
<1>3. /\ Ended(s, i, "void")
      /\ clock' = clock /\ born' = born /\ links' = links /\ round' = round /\ lost' = lost
      /\ table' = table /\ seen' = seen /\ apart' = apart
  BY DEF AbortEdit, Ended
<1>4. /\ \A t \in Sites : Len(log'[t]) = Len(log[t]) /\ Len(log[t]) \in Nat
      /\ log' \in [Sites -> Seq(Change)]
      /\ \A t \in Sites : \A k \in 1 .. Len(log[t]) :
            /\ log'[t][k].row = log[t][k].row /\ log'[t][k].at = log[t][k].at
            /\ log'[t][k].by = log[t][k].by /\ log'[t][k].origin = log[t][k].origin
            /\ t # s \/ k # i => log'[t][k] = log[t][k]
      /\ log'[s][i].state = "void"
  BY <1>1, <1>2, <1>3, EndedIs
<1>5. \A t \in Sites : \A k \in 1 .. Len(log'[t]) :
         k \in 1 .. Len(log[t]) /\ (log'[t][k].state # "void" => log'[t][k] = log[t][k])
  BY <1>4
<1>6. SyncTypeOK'
  <2>1. table' \in [Sites -> [Rows -> Moments]] /\ seen' \in [Sites -> SUBSET Rows] /\ apart' \subseteq Rows
    BY <1>1, <1>3 DEF SyncTypeOK
  <2> QED BY <1>1, <1>3, <1>4, <2>1, SameLengths
<1>7. SettledKept
  BY <1>3 DEF SettledKept
<1>8. LogGrows
  <2> SUFFICES ASSUME NEW t \in Sites
               PROVE  /\ Len(log[t]) <= Len(log'[t])
                      /\ \A k \in 1 .. Len(log[t]) : log[t][k].state = "done" => log'[t][k] = log[t][k]
    BY DEF LogGrows
  <2>1. \A k \in 1 .. Len(log[t]) : log[t][k].state = "done" => t # s \/ k # i
    BY <1>2
  <2> QED BY <1>4, <2>1
<1>9. LateIsApart
  BY <1>5 DEF LateIsApart
<1>10. LinksSound' /\ RoundsSound'
  BY <1>3, <1>6, <1>7, <1>8, <1>9, CursorsStay DEF RoundsSound
<1>11. AuthorsSound' /\ TimesSound' /\ LoggedOnce'
  BY <1>2, <1>3, EndedKeeps
<1>12. TablesSound'
  <2>1. ASSUME NEW t \in Sites, NEW q \in Rows, Logged(t, q) PROVE Logged(t, q)'
    <3>1. PICK x \in {t, Server} : \E k \in 1 .. Len(log[x]) :
             log[x][k].state = "done" /\ log[x][k].row = q /\ log[x][k].at = table[t][q]
      BY <2>1 DEF Logged
    <3>2. PICK k \in 1 .. Len(log[x]) : log[x][k].state = "done" /\ log[x][k].row = q /\ log[x][k].at = table[t][q]
      BY <3>1
    <3>3. x \in Sites
      BY SitesAre
    <3>4. k \in 1 .. Len(log'[x]) /\ log'[x][k] = log[x][k]
      BY <1>4, <1>8, <3>2, <3>3 DEF LogGrows
    <3> QED BY <1>3, <3>2, <3>4 DEF Logged
  <2> QED BY <1>3, <2>1 DEF SyncInv, TablesSound
<1>13. OpenSound'
  BY <1>3, <1>5 DEF SyncInv, OpenSound
<1>14. LogsSettled'
  BY <1>3, <1>5 DEF SyncInv, LogsSettled, Settled
<1> QED BY <1>6, <1>10, <1>11, <1>12, <1>13, <1>14 DEF SyncInv

-----------------------------------------------------------------------------
(* Steps that touch no row and no log *)

LinkRow == [on : BOOLEAN, gen : 0 .. MaxLinks, pushed : Nat, pulled : Nat]

\* Where no row and no log changes, cursors are as sound as where they are moved to.
LEMMA QuietKeeps ==
    ASSUME SyncInv, clock' = clock, born' = born, table' = table, log' = log, seen' = seen, apart' = apart,
           SyncTypeOK', \A d \in Devices : links'[d].gen >= links[d].gen, LinksSound', RoundsSound'
    PROVE  SyncInv'
<1>1. ASSUME NEW i \in 1 .. Len(log[Server]), log[Server][i].by \in Devices,
             \E g \in 1 .. links[log[Server][i].by].gen : log[Server][i].origin = <<log[Server][i].by, g>>
      PROVE  \E g \in 1 .. links'[log[Server][i].by].gen : log[Server][i].origin = <<log[Server][i].by, g>>
  <2>1. PICK d \in Devices : d = log[Server][i].by
    BY <1>1
  <2>2. links[d].gen \in Nat /\ links'[d].gen \in Nat /\ links'[d].gen >= links[d].gen
    BY SyncAssumption DEF SyncInv, SyncTypeOK
  <2>3. PICK g \in 1 .. links[d].gen : log[Server][i].origin = <<d, g>>
    BY <1>1, <2>1
  <2>4. g \in 1 .. links'[d].gen
    BY <2>2
  <2> QED BY <2>1, <2>3, <2>4
<1>2. AuthorsSound'
  BY <1>1 DEF SyncInv, AuthorsSound
<1>3. TimesSound' /\ TablesSound' /\ OpenSound' /\ LogsSettled' /\ LoggedOnce'
  <2>1. TimesSound'
    BY DEF SyncInv, TimesSound
  <2>2. TablesSound'
    BY DEF SyncInv, TablesSound, Logged
  <2>3. OpenSound'
    BY DEF SyncInv, OpenSound
  <2>4. LogsSettled'
    BY DEF SyncInv, LogsSettled, Settled
  <2>5. LoggedOnce'
    BY DEF SyncInv, LoggedOnce
  <2> QED BY <2>1, <2>2, <2>3, <2>4, <2>5
<1> QED BY <1>2, <1>3 DEF SyncInv

LEMMA FitsStay ==
    ASSUME table' = table, log' = log, seen' = seen, apart' = apart, NEW d \in Devices
    PROVE  /\ \A l : LinkFits(d, l) => LinkFits(d, l)'
           /\ SyncTypeOK /\ SyncTypeOK' /\ links'[d].gen >= links[d].gen =>
                 \A x : RoundFits(d, x) => RoundFits(d, x)'
<1>1. ASSUME NEW l, LinkFits(d, l) PROVE LinkFits(d, l)'
  BY <1>1 DEF LinkFits, Covers
<1>2. ASSUME SyncTypeOK, SyncTypeOK', links'[d].gen >= links[d].gen, NEW x, RoundFits(d, x) PROVE RoundFits(d, x)'
  <2>1. links[d].gen \in Nat /\ links'[d].gen \in Nat
    BY <1>2, SyncAssumption DEF SyncTypeOK
  <2>2. x.gen \in 1 .. links'[d].gen
    BY <1>2, <2>1 DEF RoundFits
  <2> QED BY <1>2, <2>2 DEF RoundFits, Covers, BatchSound
<1> QED BY <1>1, <1>2

\* A device is linked or unlinked.
LEMMA LinkStep ==
    ASSUME SyncInv, clock' = clock, born' = born, table' = table, log' = log, seen' = seen, apart' = apart,
           round' = round, lost' = lost, links' \in [Devices -> LinkRow],
           \A d \in Devices : links'[d].gen >= links[d].gen /\ LinkFits(d, links'[d])
    PROVE  SyncInv'
<1>1. SyncTypeOK /\ SyncTypeOK'
  BY DEF SyncInv, SyncTypeOK, LinkRow
<1>2. LinksSound'
  <2> SUFFICES ASSUME NEW d \in Devices PROVE LinkFits(d, links[d])'
    BY DEF LinksSound
  <2>1. PICK l : l = links'[d]
    OBVIOUS
  <2>2. LinkFits(d, l)'
    BY <2>1, FitsStay
  <2> QED BY <2>1, <2>2
<1>3. RoundsSound'
  <2> SUFFICES ASSUME NEW w \in Runners, round[w].pc # "idle" PROVE RoundFits(InstallOf[w], round[w])'
    BY DEF RoundsSound, RoundSound
  <2>1. PICK d \in Devices : d = InstallOf[w]
    BY SitesAre
  <2>2. PICK x : x = round[w]
    OBVIOUS
  <2>3. RoundFits(d, x)
    BY <2>1, <2>2 DEF SyncInv, RoundsSound, RoundSound
  <2>4. RoundFits(d, x)'
    BY <1>1, <2>3, FitsStay
  <2> QED BY <2>1, <2>2, <2>4
<1> QED BY <1>1, <1>2, <1>3, QuietKeeps

\* A round moves on, and a cursor with it perhaps.
LEMMA RoundStep ==
    ASSUME SyncInv, clock' = clock, born' = born, table' = table, log' = log, seen' = seen, apart' = apart,
           lost' \in 0 .. MaxLost, NEW w \in Runners, NEW x \in Round, round' = [round EXCEPT ![w] = x],
           x.pushed <= Len(log[InstallOf[w]]), x.pulled <= Len(log[Server]),
           x.pc # "idle" => RoundFits(InstallOf[w], x),
           links' \in [Devices -> LinkRow],
           \A d \in Devices : links'[d].gen = links[d].gen /\ LinkFits(d, links'[d])
    PROVE  SyncInv'
<1>1. round \in [Runners -> Round] /\ round' \in [Runners -> Round] /\ SyncTypeOK
  BY DEF SyncInv, SyncTypeOK
<1>2. round'[w] = x /\ \A v \in Runners : v # w => round'[v] = round[v]
  BY <1>1
<1>3. SyncTypeOK'
  <2>1. \A v \in Runners : round'[v].pushed <= Len(log'[InstallOf[v]]) /\ round'[v].pulled <= Len(log'[Server])
    BY <1>1, <1>2 DEF SyncTypeOK
  <2> QED BY <1>1, <2>1 DEF SyncTypeOK, LinkRow
<1>4. \A d \in Devices : links'[d].gen >= links[d].gen
  BY SyncAssumption DEF SyncInv, SyncTypeOK
<1>5. LinksSound'
  <2> SUFFICES ASSUME NEW d \in Devices PROVE LinkFits(d, links[d])'
    BY DEF LinksSound
  <2>1. PICK l : l = links'[d]
    OBVIOUS
  <2>2. LinkFits(d, l)'
    BY <2>1, FitsStay
  <2> QED BY <2>1, <2>2
<1>6. RoundsSound'
  <2> SUFFICES ASSUME NEW v \in Runners, round'[v].pc # "idle" PROVE RoundFits(InstallOf[v], round[v])'
    BY DEF RoundsSound, RoundSound
  <2>1. PICK d \in Devices : d = InstallOf[v]
    BY SitesAre
  <2>2. PICK y : y = round'[v]
    OBVIOUS
  <2>3. RoundFits(d, y)
    <3>1. CASE v = w
      BY <1>2, <2>1, <2>2, <3>1
    <3>2. CASE v # w
      BY <1>2, <2>1, <2>2, <3>2 DEF SyncInv, RoundsSound, RoundSound
    <3> QED BY <3>1, <3>2
  <2>4. RoundFits(d, y)'
    BY <1>1, <1>3, <1>4, <2>3, FitsStay
  <2> QED BY <2>1, <2>2, <2>4
<1> QED BY <1>3, <1>4, <1>5, <1>6, QuietKeeps

LEMMA RoundIs ==
    ASSUME SyncInv, NEW w \in Runners
    PROVE  /\ InstallOf[w] \in Devices /\ InstallOf[w] \in Sites /\ Server \in Sites
           /\ round[w] \in Round /\ round[w].pushed \in Nat /\ round[w].pulled \in Nat /\ round[w].top \in Nat
           /\ round[w].batch \in Seq(Change) /\ round[w].gen \in Nat
           /\ round[w].pushed <= Len(log[InstallOf[w]]) /\ round[w].pulled <= Len(log[Server])
           /\ Len(log[InstallOf[w]]) \in Nat /\ Len(log[Server]) \in Nat
           /\ round[w].pc # "idle" => RoundFits(InstallOf[w], round[w])
           /\ lost \in 0 .. MaxLost
           /\ links \in [Devices -> LinkRow]
           /\ \A d \in Devices : LinkFits(d, links[d])
<1>1. SyncTypeOK
  BY DEF SyncInv
<1>2. round[w] \in Round
  BY <1>1 DEF SyncTypeOK
<1>3. /\ round[w].pushed \in Nat /\ round[w].pulled \in Nat /\ round[w].top \in Nat
      /\ round[w].batch \in Seq(Change) /\ round[w].gen \in 0 .. MaxLinks
  BY <1>2 DEF Round
<1>4. links \in [Devices -> LinkRow]
  BY <1>1 DEF SyncTypeOK, LinkRow
<1>5. round[w].gen \in Nat
  BY <1>3, SyncAssumption
<1>6. Len(log[InstallOf[w]]) \in Nat /\ Len(log[Server]) \in Nat
  BY <1>1, SitesAre, LogIs
<1>7. round[w].pushed <= Len(log[InstallOf[w]]) /\ round[w].pulled <= Len(log[Server]) /\ lost \in 0 .. MaxLost
  BY <1>1 DEF SyncTypeOK
<1>8. round[w].pc # "idle" => RoundFits(InstallOf[w], round[w])
  BY DEF SyncInv, RoundsSound, RoundSound
<1>9. \A d \in Devices : LinkFits(d, links[d])
  BY DEF SyncInv, LinksSound
<1> QED BY <1>2, <1>3, <1>4, <1>5, <1>6, <1>7, <1>8, <1>9, SitesAre

\* Nothing is before the first place of a log.
LEMMA NothingBefore ==
    ASSUME SyncTypeOK, NEW d \in Devices
    PROVE  /\ Covers(Server, d, 0) /\ Covers(d, Server, 0)
           /\ 0 <= Len(log[d]) /\ 0 <= Len(log[Server])
<1>1. d \in Sites /\ Server \in Sites
  BY SitesAre
<1>2. Len(log[d]) \in Nat /\ Len(log[Server]) \in Nat
  BY <1>1, LogIs
<1> QED BY <1>2 DEF Covers, CoveredBy

LEMMA QuietIs ==
    ASSUME SyncTypeOK, NEW w \in Runners
    PROVE  /\ Quiet \in Round /\ Quiet.pc = "idle"
           /\ Quiet.pushed <= Len(log[InstallOf[w]]) /\ Quiet.pulled <= Len(log[Server])
<1>1. <<>> \in Seq(Change) /\ 0 \in 0 .. MaxLinks
  BY SyncAssumption
<1>2. InstallOf[w] \in Devices
  BY SitesAre
<1> QED BY <1>1, <1>2, NothingBefore DEF Quiet, Round

LEMMA LinkKeeps ==
    ASSUME SyncInv, NEW d \in Devices, Link(d) \/ Unlink(d)
    PROVE  SyncInv'
<1>1. SyncTypeOK /\ links \in [Devices -> LinkRow] /\ \A e \in Devices : LinkFits(e, links[e])
  BY DEF SyncInv, SyncTypeOK, LinkRow, LinksSound
<1>2. MaxLinks \in Nat /\ links[d].gen \in Nat
  BY <1>1, SyncAssumption DEF LinkRow
<1>3. CASE Link(d)
  <2>1. PICK l : l = [links[d] EXCEPT !.on = TRUE, !.gen = @ + 1]
    OBVIOUS
  <2>2. /\ l.on = TRUE /\ l.gen = links[d].gen + 1 /\ l.pushed = links[d].pushed /\ l.pulled = links[d].pulled
        /\ l \in LinkRow
    BY <1>1, <1>2, <1>3, <2>1 DEF Link, LinkRow
  <2>3. links' = [links EXCEPT ![d] = l]
    BY <1>1, <1>3, <2>1 DEF Link
  <2>4. LinkFits(d, l)
    BY <1>1, <1>2, <2>2 DEF LinkFits
  <2>5. links' \in [Devices -> LinkRow] /\ \A e \in Devices : links'[e] = IF e = d THEN l ELSE links[e]
    BY <1>1, <2>2, <2>3
  <2>6. ASSUME NEW e \in Devices PROVE links'[e].gen >= links[e].gen /\ LinkFits(e, links'[e])
    <3>1. links[e].gen \in Nat
      BY <1>1, SyncAssumption DEF LinkRow
    <3>2. links'[e].gen >= links[e].gen
      BY <2>2, <2>5, <3>1
    <3>3. LinkFits(e, links'[e])
      BY <1>1, <2>4, <2>5
    <3> QED BY <3>2, <3>3
  <2> QED BY <1>3, <2>5, <2>6, LinkStep DEF Link
<1>4. CASE Unlink(d)
  <2>1. PICK l : l = [links[d] EXCEPT !.on = FALSE, !.pushed = 0, !.pulled = 0]
    OBVIOUS
  <2>2. l.on = FALSE /\ l.gen = links[d].gen /\ l.pushed = 0 /\ l.pulled = 0 /\ l \in LinkRow
    BY <1>1, <1>2, <2>1 DEF LinkRow
  <2>3. links' = [links EXCEPT ![d] = l]
    BY <1>1, <1>4, <2>1 DEF Unlink
  <2>4. LinkFits(d, l)
    BY <1>1, <2>2, NothingBefore DEF LinkFits
  <2>5. links' \in [Devices -> LinkRow] /\ \A e \in Devices : links'[e] = IF e = d THEN l ELSE links[e]
    BY <1>1, <2>2, <2>3
  <2>6. ASSUME NEW e \in Devices PROVE links'[e].gen >= links[e].gen /\ LinkFits(e, links'[e])
    <3>1. links[e].gen \in Nat
      BY <1>1, SyncAssumption DEF LinkRow
    <3>2. links'[e].gen >= links[e].gen
      BY <2>2, <2>5, <3>1
    <3>3. LinkFits(e, links'[e])
      BY <1>1, <2>4, <2>5
    <3> QED BY <3>2, <3>3
  <2> QED BY <1>4, <2>5, <2>6, LinkStep DEF Unlink
<1> QED BY <1>3, <1>4

LEMMA LoadKeeps ==
    ASSUME SyncInv, NEW w \in Runners, LoadLink(w)
    PROVE  SyncInv'
<1>1. PICK d \in Devices : d = InstallOf[w]
  BY SitesAre
<1>2. PICK l : l = links[d]
  OBVIOUS
<1>3. PICK x : x = [Quiet EXCEPT !.pc = "push", !.gen = l.gen, !.pushed = l.pushed, !.pulled = l.pulled]
  OBVIOUS
<1>4. /\ l \in LinkRow /\ LinkFits(d, l) /\ lost \in 0 .. MaxLost /\ links \in [Devices -> LinkRow]
      /\ \A e \in Devices : LinkFits(e, links[e])
  BY <1>2, RoundIs
<1>5. l.on /\ round' = [round EXCEPT ![w] = x]
  BY <1>1, <1>2, <1>3 DEF LoadLink, Proceeds
<1>6. /\ clock' = clock /\ born' = born /\ table' = table /\ log' = log /\ seen' = seen /\ apart' = apart
      /\ lost' = lost /\ links' = links
  BY DEF LoadLink
<1>7. /\ x.pc = "push" /\ x.gen = l.gen /\ x.pushed = l.pushed /\ x.pulled = l.pulled
      /\ x.batch = <<>> /\ x.top = 0 /\ x.more = FALSE
  BY <1>3 DEF Quiet
<1>8. x \in Round
  <2>1. l.gen \in 0 .. MaxLinks /\ l.pushed \in Nat /\ l.pulled \in Nat
    BY <1>4 DEF LinkRow
  <2>2. <<>> \in Seq(Change)
    OBVIOUS
  <2>3. x = [pc |-> "push", gen |-> l.gen, pushed |-> l.pushed, pulled |-> l.pulled,
             batch |-> <<>>, top |-> 0, more |-> FALSE]
    BY <1>3 DEF Quiet
  <2> QED BY <2>1, <2>2, <2>3 DEF Round
<1>9. RoundFits(d, x)
  <2>1. l.gen \in Nat /\ l.gen > 0
    BY <1>4, <1>5, SyncAssumption DEF LinkFits, LinkRow
  <2>2. x.gen \in 1 .. links[d].gen
    BY <1>2, <1>7, <2>1
  <2> QED BY <1>4, <1>7, <2>2 DEF RoundFits, LinkFits
<1>10. x.pushed <= Len(log[d]) /\ x.pulled <= Len(log[Server])
  BY <1>4, <1>7 DEF LinkFits
<1> QED BY <1>1, <1>4, <1>5, <1>6, <1>8, <1>9, <1>10, RoundStep

LEMMA StopKeeps ==
    ASSUME SyncInv, NEW w \in Runners, StopRound(w)
    PROVE  SyncInv'
<1>1. /\ Quiet \in Round /\ Quiet.pc = "idle"
      /\ Quiet.pushed <= Len(log[InstallOf[w]]) /\ Quiet.pulled <= Len(log[Server])
  BY QuietIs DEF SyncInv
<1>2. lost \in 0 .. MaxLost /\ links \in [Devices -> LinkRow] /\ \A e \in Devices : LinkFits(e, links[e])
  BY RoundIs
<1>3. lost' \in 0 .. MaxLost
  BY <1>2, SyncAssumption DEF StopRound
<1>4. /\ clock' = clock /\ born' = born /\ table' = table /\ log' = log /\ seen' = seen /\ apart' = apart
      /\ links' = links /\ round' = [round EXCEPT ![w] = Quiet]
  BY DEF StopRound, Proceeds
<1> QED BY <1>1, <1>2, <1>3, <1>4, RoundStep

LEMMA SavePushedKeeps ==
    ASSUME SyncInv, NEW w \in Runners, SavePushed(w)
    PROVE  SyncInv'
<1>1. PICK d \in Devices : d = InstallOf[w]
  BY SitesAre
<1>2. PICK y : y = round[w]
  OBVIOUS
<1>3. PICK l : l = links[d]
  OBVIOUS
<1>4. PICK x : x = [y EXCEPT !.pc = "push", !.pushed = y.top, !.batch = <<>>, !.top = 0]
  OBVIOUS
<1>5. /\ l \in LinkRow /\ LinkFits(d, l) /\ lost \in 0 .. MaxLost /\ links \in [Devices -> LinkRow]
      /\ \A e \in Devices : LinkFits(e, links[e])
      /\ y \in Round /\ y.top \in Nat /\ y.pulled <= Len(log[Server])
  BY <1>2, <1>3, RoundIs
<1>6. /\ y.pc = "sent" /\ round' = [round EXCEPT ![w] = x]
      /\ links' = IF links[d].on THEN [links EXCEPT ![d].pushed = y.top] ELSE links
  BY <1>1, <1>2, <1>4 DEF SavePushed, Proceeds
<1>7. /\ clock' = clock /\ born' = born /\ table' = table /\ log' = log /\ seen' = seen /\ apart' = apart
      /\ lost' = lost
  BY DEF SavePushed
<1>8. RoundFits(d, y)
  BY <1>1, <1>2, <1>6, RoundIs
<1>9. /\ x.pc = "push" /\ x.gen = y.gen /\ x.pushed = y.top /\ x.pulled = y.pulled
      /\ x.batch = <<>> /\ x.top = 0 /\ x.more = y.more /\ x \in Round
  <2>1. <<>> \in Seq(Change)
    OBVIOUS
  <2> QED BY <1>4, <1>5, <2>1 DEF Round
<1>10. y.top <= Len(log[d]) /\ Covers(Server, d, y.top)
  BY <1>6, <1>8 DEF RoundFits
<1>11. RoundFits(d, x)
  BY <1>8, <1>9, <1>10 DEF RoundFits
<1>12. PICK m : m = IF l.on THEN [l EXCEPT !.pushed = y.top] ELSE l
  OBVIOUS
<1>13. m \in LinkRow /\ m.gen = l.gen /\ LinkFits(d, m)
  BY <1>5, <1>10, <1>12 DEF LinkRow, LinkFits
<1>14. links' \in [Devices -> LinkRow] /\ \A e \in Devices : links'[e] = IF e = d THEN m ELSE links[e]
  BY <1>3, <1>5, <1>6, <1>12, <1>13
<1>15. \A e \in Devices : links'[e].gen = links[e].gen /\ LinkFits(e, links'[e])
  BY <1>3, <1>5, <1>13, <1>14
<1>16. x.pushed <= Len(log[InstallOf[w]]) /\ x.pulled <= Len(log[Server]) /\ RoundFits(InstallOf[w], x)
  BY <1>1, <1>5, <1>9, <1>10, <1>11
<1>17. lost' \in 0 .. MaxLost
  BY <1>5, <1>7
<1> QED BY <1>6, <1>7, <1>9, <1>14, <1>15, <1>16, <1>17, RoundStep

LEMMA SavePulledKeeps ==
    ASSUME SyncInv, NEW w \in Runners, SavePulled(w)
    PROVE  SyncInv'
<1>1. PICK d \in Devices : d = InstallOf[w]
  BY SitesAre
<1>2. PICK y : y = round[w]
  OBVIOUS
<1>3. PICK l : l = links[d]
  OBVIOUS
<1>4. PICK z : z = [y EXCEPT !.pc = "pull", !.pulled = y.top, !.batch = <<>>, !.top = 0, !.more = FALSE]
  OBVIOUS
<1>5. PICK x : x = IF y.more THEN z ELSE Quiet
  OBVIOUS
<1>6. /\ l \in LinkRow /\ LinkFits(d, l) /\ lost \in 0 .. MaxLost /\ links \in [Devices -> LinkRow]
      /\ \A e \in Devices : LinkFits(e, links[e])
      /\ y \in Round /\ y.top \in Nat /\ y.pushed <= Len(log[d])
  BY <1>1, <1>2, <1>3, RoundIs
<1>7. /\ y.pc = "applied" /\ round' = [round EXCEPT ![w] = x]
      /\ links' = IF links[d].on THEN [links EXCEPT ![d].pulled = y.top] ELSE links
  BY <1>1, <1>2, <1>4, <1>5 DEF SavePulled, Proceeds
<1>8. /\ clock' = clock /\ born' = born /\ table' = table /\ log' = log /\ seen' = seen /\ apart' = apart
      /\ lost' = lost
  BY DEF SavePulled
<1>9. RoundFits(d, y)
  BY <1>1, <1>2, <1>7, RoundIs
<1>10. /\ z.pc = "pull" /\ z.gen = y.gen /\ z.pushed = y.pushed /\ z.pulled = y.top
       /\ z.batch = <<>> /\ z.top = 0 /\ z.more = FALSE /\ z \in Round
  <2>1. <<>> \in Seq(Change)
    OBVIOUS
  <2> QED BY <1>4, <1>6, <2>1 DEF Round
<1>11. y.top <= Len(log[Server]) /\ Covers(d, Server, y.top)
  BY <1>7, <1>9 DEF RoundFits
<1>12. RoundFits(d, z)
  BY <1>9, <1>10, <1>11 DEF RoundFits
<1>13. /\ Quiet \in Round /\ Quiet.pc = "idle"
       /\ Quiet.pushed <= Len(log[InstallOf[w]]) /\ Quiet.pulled <= Len(log[Server])
  BY QuietIs DEF SyncInv
<1>14. x \in Round /\ (x.pc # "idle" => RoundFits(InstallOf[w], x))
       /\ x.pushed <= Len(log[InstallOf[w]]) /\ x.pulled <= Len(log[Server])
  BY <1>1, <1>5, <1>6, <1>10, <1>11, <1>12, <1>13
<1>15. PICK m : m = IF l.on THEN [l EXCEPT !.pulled = y.top] ELSE l
  OBVIOUS
<1>16. m \in LinkRow /\ m.gen = l.gen /\ LinkFits(d, m)
  BY <1>6, <1>11, <1>15 DEF LinkRow, LinkFits
<1>17. links' \in [Devices -> LinkRow] /\ \A e \in Devices : links'[e] = IF e = d THEN m ELSE links[e]
  BY <1>3, <1>6, <1>7, <1>15, <1>16
<1>18. \A e \in Devices : links'[e].gen = links[e].gen /\ LinkFits(e, links'[e])
  BY <1>3, <1>6, <1>16, <1>17
<1>19. lost' \in 0 .. MaxLost
  BY <1>6, <1>8
<1> QED BY <1>7, <1>8, <1>14, <1>17, <1>18, <1>19, RoundStep

LEMMA ReadKeeps ==
    ASSUME SyncInv, NEW w \in Runners, ReadLog(w)
    PROVE  SyncInv'
<1>1. PICK d \in Devices : d = InstallOf[w]
  BY SitesAre
<1>2. PICK y : y = round[w]
  OBVIOUS
<1>3. PICK found : found = Own(d, After(d, y.pushed))
  OBVIOUS
<1>4. PICK page : page = PageOf(found)
  OBVIOUS
<1>5. PICK batch : batch = Changes(d, page)
  OBVIOUS
<1>6. PICK x : x = IF page = {} THEN [y EXCEPT !.pc = "pull"]
                   ELSE [y EXCEPT !.pc = "send", !.batch = batch, !.top = Max(page)]
  OBVIOUS
<1>7. /\ lost \in 0 .. MaxLost /\ links \in [Devices -> LinkRow] /\ \A e \in Devices : LinkFits(e, links[e])
      /\ y \in Round /\ y.pushed \in Nat /\ y.top \in Nat /\ y.pushed <= Len(log[d]) /\ y.pulled <= Len(log[Server])
      /\ Len(log[d]) \in Nat /\ d \in Sites
  BY <1>1, <1>2, RoundIs
<1>8. y.pc = "push" /\ round' = [round EXCEPT ![w] = x]
  BY <1>1, <1>2, <1>3, <1>4, <1>5, <1>6 DEF ReadLog, Proceeds
<1>9. /\ clock' = clock /\ born' = born /\ table' = table /\ log' = log /\ seen' = seen /\ apart' = apart
      /\ lost' = lost /\ links' = links
  BY DEF ReadLog
<1>10. RoundFits(d, y)
  BY <1>1, <1>2, <1>8, RoundIs
<1>11. \A i : i \in found <=>
          i \in 1 .. Len(log[d]) /\ i > y.pushed /\ log[d][i].state = "done" /\ log[d][i].origin = <<>>
  BY <1>3, <1>7, LogIs DEF Own, After, SyncInv
<1>12. found \subseteq 1 .. Len(log[d])
  BY <1>11
<1>13. /\ page \subseteq found
       /\ \A i \in found, m \in page : i <= m => i \in page
  BY <1>4, <1>7, <1>12, PageIs
<1>14. /\ batch \in Seq(Change)
       /\ \A k \in 1 .. Len(batch) : \E i \in 1 .. Len(log[d]) : i \in page /\ batch[k] = log[d][i]
       /\ \A i \in 1 .. Len(log[d]) : i \in page => \E k \in 1 .. Len(batch) : batch[k] = log[d][i]
  <2>1. log[d] \in Seq(Change)
    BY <1>7, LogIs DEF SyncInv
  <2>2. IsBatch(batch, log[d], page)
    BY <1>5, <2>1, ChangesAre
  <2> QED BY <2>2 DEF IsBatch
<1>15. CASE page = {}
  <2>1. /\ x.pc = "pull" /\ x.gen = y.gen /\ x.pushed = y.pushed /\ x.pulled = y.pulled
        /\ x.batch = y.batch /\ x.top = y.top /\ x.more = y.more /\ x \in Round
    BY <1>6, <1>7, <1>15 DEF Round
  <2>2. RoundFits(d, x)
    BY <1>10, <2>1 DEF RoundFits
  <2>3. x.pushed <= Len(log[InstallOf[w]]) /\ x.pulled <= Len(log[Server]) /\ RoundFits(InstallOf[w], x)
    BY <1>1, <1>7, <2>1, <2>2
  <2> QED BY <1>7, <1>8, <1>9, <2>1, <2>3, RoundStep
<1>16. CASE page # {}
  <2>1. PICK top : top = Max(page)
    OBVIOUS
  <2>2. top \in page /\ \A i \in page : i <= top
    <3>1. page \subseteq 1 .. Len(log[d])
      BY <1>12, <1>13
    <3> QED BY <1>7, <1>16, <2>1, <3>1, GreatestIs
  <2>3. top \in Nat /\ top <= Len(log[d]) /\ top > y.pushed
    BY <1>7, <1>11, <1>13, <2>2
  <2>4. /\ x.pc = "send" /\ x.gen = y.gen /\ x.pushed = y.pushed /\ x.pulled = y.pulled
        /\ x.batch = batch /\ x.top = top /\ x.more = y.more /\ x \in Round
    <3>1. x = [y EXCEPT !.pc = "send", !.batch = batch, !.top = top]
      BY <1>6, <1>16, <2>1
    <3> QED BY <1>7, <1>14, <2>3, <3>1 DEF Round
  <2>5. \A k \in 1 .. Len(batch) : \E i \in 1 .. Len(log[d]) : log[d][i] = batch[k] /\ log[d][i].state = "done"
    <3> SUFFICES ASSUME NEW k \in 1 .. Len(batch)
                 PROVE  \E i \in 1 .. Len(log[d]) : log[d][i] = batch[k] /\ log[d][i].state = "done"
      OBVIOUS
    <3>1. PICK i \in 1 .. Len(log[d]) : i \in page /\ batch[k] = log[d][i]
      BY <1>14
    <3> QED BY <1>11, <1>13, <3>1
  <2>6. ASSUME NEW i \in 1 .. Len(log[d]), i <= top, log[d][i].state = "done"
        PROVE  TakenIn(table[Server], seen[Server], apart, log[d][i]) \/ \E k \in 1 .. Len(batch) : batch[k] = log[d][i]
    <3>1. CASE i <= y.pushed
      BY <1>10, <2>6, <3>1 DEF RoundFits, Covers, CoveredBy
    <3>2. CASE i > y.pushed
      <4>1. log[d][i].origin = <<>>
        BY DEF SyncInv, AuthorsSound
      <4>2. i \in page
        BY <1>11, <1>13, <2>2, <2>6, <3>2, <4>1
      <4> QED BY <1>14, <4>2
    <3> QED BY <1>7, <3>1, <3>2
  <2>7. BatchSound(Server, d, batch, top)
    BY <2>3, <2>5, <2>6 DEF BatchSound, BatchFits
  <2>8. RoundFits(d, x)
    BY <1>10, <2>3, <2>4, <2>7 DEF RoundFits
  <2>9. x.pushed <= Len(log[InstallOf[w]]) /\ x.pulled <= Len(log[Server]) /\ RoundFits(InstallOf[w], x)
    BY <1>1, <1>7, <2>4, <2>8
  <2> QED BY <1>7, <1>8, <1>9, <2>4, <2>9, RoundStep
<1> QED BY <1>15, <1>16

LEMMA PullKeeps ==
    ASSUME SyncInv, NEW w \in Runners, Pull(w)
    PROVE  SyncInv'
<1>1. PICK d \in Devices : d = InstallOf[w]
  BY SitesAre
<1>2. PICK y : y = round[w]
  OBVIOUS
<1>3. PICK found : found = After(Server, y.pulled)
  OBVIOUS
<1>4. PICK page : page = PageOf(found)
  OBVIOUS
<1>5. PICK others : others = Others(w, page)
  OBVIOUS
<1>6. PICK batch : batch = Changes(Server, others)
  OBVIOUS
<1>7. PICK top : top = Cursor(Server, page, others, y.pulled)
  OBVIOUS
<1>8. PICK more : more = (Cardinality(found) > Page)
  OBVIOUS
<1>9. PICK x : x = [y EXCEPT !.pc = IF others = {} THEN "applied" ELSE "apply",
                             !.batch = batch, !.top = top, !.more = more]
  OBVIOUS
<1>10. /\ lost \in 0 .. MaxLost /\ links \in [Devices -> LinkRow] /\ \A e \in Devices : LinkFits(e, links[e])
       /\ y \in Round /\ y.pulled \in Nat /\ y.pushed <= Len(log[d]) /\ y.pulled <= Len(log[Server])
       /\ Len(log[Server]) \in Nat /\ d \in Sites /\ Server \in Sites
  BY <1>1, <1>2, RoundIs
<1>11. y.pc = "pull" /\ round' = [round EXCEPT ![w] = x]
  BY <1>2, <1>3, <1>4, <1>5, <1>6, <1>7, <1>8, <1>9 DEF Pull, Proceeds
<1>12. /\ clock' = clock /\ born' = born /\ table' = table /\ log' = log /\ seen' = seen /\ apart' = apart
       /\ lost' = lost /\ links' = links
  BY DEF Pull
<1>13. RoundFits(d, y)
  BY <1>1, <1>2, <1>11, RoundIs
<1>14. \A i : i \in found <=> i \in 1 .. Len(log[Server]) /\ i > y.pulled /\ log[Server][i].state = "done"
  BY <1>3, <1>10, LogIs DEF After, SyncInv
<1>15. found \subseteq 1 .. Len(log[Server])
  BY <1>14
<1>16. /\ page \subseteq found /\ (found # {} => page # {})
       /\ more => found # {}
       /\ \A i \in found, m \in page : i <= m => i \in page
  BY <1>4, <1>8, <1>10, <1>15, PageIs
<1>17. /\ batch \in Seq(Change)
       /\ \A k \in 1 .. Len(batch) : \E i \in 1 .. Len(log[Server]) : i \in others /\ batch[k] = log[Server][i]
       /\ \A i \in 1 .. Len(log[Server]) : i \in others => \E k \in 1 .. Len(batch) : batch[k] = log[Server][i]
  <2>1. log[Server] \in Seq(Change)
    BY <1>10, LogIs DEF SyncInv
  <2>2. IsBatch(batch, log[Server], others)
    BY <1>6, <2>1, ChangesAre
  <2> QED BY <2>2 DEF IsBatch
<1>18. \A i : i \in others <=> i \in page /\ log[Server][i].origin # <<d, y.gen>>
  BY <1>1, <1>2, <1>5 DEF Others
<1>19. /\ top \in Nat /\ top <= Len(log[Server]) /\ (page # {} => top > y.pulled)
       /\ \A i \in page : i <= top
       /\ \A i \in found : i <= top => i \in page
  <2>1. CASE page = {}
    <3>1. top = y.pulled /\ found = {}
      BY <1>7, <1>16, <2>1 DEF Cursor
    <3> QED BY <1>10, <2>1, <3>1
  <2>2. CASE page # {}
    <3>1. top = Max(page)
      BY <1>7, <2>2 DEF Cursor
    <3>2. page \subseteq 1 .. Len(log[Server])
      BY <1>15, <1>16
    <3>3. top \in page /\ \A i \in page : i <= top
      BY <1>10, <2>2, <3>1, <3>2, GreatestIs
    <3>4. top \in Nat /\ top <= Len(log[Server]) /\ top > y.pulled
      BY <1>10, <1>14, <1>16, <3>3
    <3> QED BY <1>16, <3>3, <3>4
  <2> QED BY <2>1, <2>2
<1>20. /\ x.pc = (IF others = {} THEN "applied" ELSE "apply")
       /\ x.gen = y.gen /\ x.pushed = y.pushed /\ x.pulled = y.pulled
       /\ x.batch = batch /\ x.top = top /\ x.more = more /\ x \in Round
  <2>1. more \in BOOLEAN
    BY <1>8
  <2> QED BY <1>9, <1>10, <1>17, <1>19, <2>1 DEF Round
<1>21. ASSUME NEW i \in 1 .. Len(log[Server]), i <= top, log[Server][i].state = "done", i \notin others
       PROVE  TakenIn(table[d], seen[d], apart, log[Server][i])
  <2>1. CASE i <= y.pulled
    BY <1>13, <1>21, <2>1 DEF RoundFits, Covers, CoveredBy
  <2>2. CASE i > y.pulled
    <3>1. i \in page
      BY <1>14, <1>19, <1>21, <2>2
    <3>2. log[Server][i].origin = <<d, y.gen>>
      BY <1>18, <1>21, <3>1
    <3>3. log[Server][i].by = d
      <4>1. <<d, y.gen>> # <<>>
        OBVIOUS
      <4>2. log[Server][i].origin # <<>>
        BY <3>2, <4>1
      <4>3. \E g : log[Server][i].origin = <<log[Server][i].by, g>>
        BY <4>2 DEF SyncInv, AuthorsSound
      <4> QED BY <3>2, <4>3
    <3> QED BY <1>10, <1>21, <3>3 DEF SyncInv, LogsSettled, Settled
  <2> QED BY <1>10, <2>1, <2>2
<1>22. others # {} => BatchSound(d, Server, batch, top)
  <2>1. \A k \in 1 .. Len(batch) :
           \E i \in 1 .. Len(log[Server]) : log[Server][i] = batch[k] /\ log[Server][i].state = "done"
    <3> SUFFICES ASSUME NEW k \in 1 .. Len(batch)
                 PROVE  \E i \in 1 .. Len(log[Server]) : log[Server][i] = batch[k] /\ log[Server][i].state = "done"
      OBVIOUS
    <3>1. PICK i \in 1 .. Len(log[Server]) : i \in others /\ batch[k] = log[Server][i]
      BY <1>17
    <3> QED BY <1>14, <1>16, <1>18, <3>1
  <2>2. \A i \in 1 .. Len(log[Server]) : i <= top /\ log[Server][i].state = "done" =>
           TakenIn(table[d], seen[d], apart, log[Server][i]) \/ \E k \in 1 .. Len(batch) : batch[k] = log[Server][i]
    BY <1>17, <1>21
  <2> QED BY <1>19, <2>1, <2>2 DEF BatchSound, BatchFits
<1>23. others = {} => Covers(d, Server, top)
  BY <1>21 DEF Covers, CoveredBy
<1>24. \A k \in 1 .. Len(batch) : batch[k].origin # <<d, y.gen>>
  BY <1>17, <1>18
<1>25. more => top > y.pulled
  BY <1>16, <1>19
<1>26. RoundFits(d, x)
  <2>1. x.gen \in 1 .. links[d].gen /\ Covers(Server, d, x.pushed) /\ Covers(d, Server, x.pulled)
    BY <1>13, <1>20 DEF RoundFits
  <2>2. CASE others = {}
    BY <1>19, <1>20, <1>23, <1>25, <2>1, <2>2 DEF RoundFits
  <2>3. CASE others # {}
    BY <1>20, <1>22, <1>24, <1>25, <2>1, <2>3 DEF RoundFits
  <2> QED BY <2>2, <2>3
<1>27. x.pushed <= Len(log[InstallOf[w]]) /\ x.pulled <= Len(log[Server]) /\ RoundFits(InstallOf[w], x)
  BY <1>1, <1>10, <1>20, <1>26
<1>28. lost' \in 0 .. MaxLost /\ links' \in [Devices -> LinkRow]
       /\ \A e \in Devices : links'[e].gen = links[e].gen /\ LinkFits(e, links'[e])
  BY <1>10, <1>12
<1> QED BY <1>11, <1>12, <1>20, <1>27, <1>28, RoundStep

-----------------------------------------------------------------------------
(* A batch lands *)

\* The batch b of the changes C of the log of x lands in the rows of s.
LandsHere(s, x, batch, top, origin, C, b) ==
    /\ s \in Sites /\ x \in Sites /\ batch \in Seq(Change) /\ origin \in Origins
    /\ BatchFits(log[x], table[s], seen[s], apart, batch, top)
    /\ ~Busy(s, {batch[i].row : i \in DOMAIN batch})
    /\ C = {batch[k] : k \in 1 .. Len(batch)} /\ b = ApplyBatch(s, batch, origin)
    /\ table' = [table EXCEPT ![s] = b.table] /\ seen' = [seen EXCEPT ![s] = b.had] /\ apart' = b.apart

\* What that changes in the rows, and what it does not.
LEMMA LandsIs ==
    ASSUME SyncInv, NEW s, NEW x, NEW batch, NEW top, NEW origin, NEW C, NEW b,
           LandsHere(s, x, batch, top, origin, C, b)
    PROVE  /\ b \in BatchState /\ BatchInv(Before(s), C, origin, b)
           /\ \A c \in C : \E i \in 1 .. Len(log[x]) : log[x][i] = c /\ log[x][i].state = "done"
           /\ \A k \in 1 .. Len(batch) : TakenIn(b.table, b.had, b.apart, batch[k])
           /\ table' \in [Sites -> [Rows -> Moments]] /\ seen' \in [Sites -> SUBSET Rows]
           /\ apart \subseteq apart' /\ apart' \subseteq Rows
           /\ table'[s] = b.table /\ seen'[s] = b.had
           /\ \A t \in Sites : t # s => table'[t] = table[t] /\ seen'[t] = seen[t]
           /\ SettledKept
           /\ \A i \in 1 .. Len(log[s]) : log[s][i].state = "open" =>
                 /\ \A c \in C : c.row # log[s][i].row
                 /\ b.table[log[s][i].row] = table[s][log[s][i].row]
                 /\ log[s][i].row \in b.had => log[s][i].row \in seen[s]
<1>0. /\ s \in Sites /\ x \in Sites /\ batch \in Seq(Change) /\ origin \in Origins
      /\ BatchFits(log[x], table[s], seen[s], apart, batch, top)
      /\ ~Busy(s, {batch[i].row : i \in DOMAIN batch})
      /\ C = {batch[k] : k \in 1 .. Len(batch)} /\ b = ApplyBatch(s, batch, origin)
      /\ table' = [table EXCEPT ![s] = b.table] /\ seen' = [seen EXCEPT ![s] = b.had] /\ apart' = b.apart
  BY DEF LandsHere
<1> USE <1>0
<1>1. /\ SyncTypeOK /\ TablesSound
      /\ table \in [Sites -> [Rows -> Moments]] /\ seen \in [Sites -> SUBSET Rows] /\ apart \subseteq Rows
  BY DEF SyncInv, SyncTypeOK
<1>2. \A c \in C : c \in Change
  BY ElementOfSeq
<1>3. ASSUME NEW c \in C PROVE \E i \in 1 .. Len(log[x]) : log[x][i] = c /\ log[x][i].state = "done"
  <2>1. PICK k \in 1 .. Len(batch) : c = batch[k]
    OBVIOUS
  <2> QED BY <2>1 DEF BatchFits
<1>4. OneTime(C)
  <2> SUFFICES ASSUME NEW c \in C, NEW e \in C, c.row = e.row, c.row \notin Dated, c.at > 0, e.at > 0
               PROVE  c.at = e.at
    BY DEF OneTime
  <2>1. PICK i \in 1 .. Len(log[x]) : log[x][i] = c
    BY <1>3
  <2>2. PICK j \in 1 .. Len(log[x]) : log[x][j] = e
    BY <1>3
  <2> QED BY <2>1, <2>2 DEF SyncInv, TimesSound
<1>5. ASSUME NEW c \in C, c.row \notin Dated, c.at > 0, table[s][c.row] > 0 PROVE table[s][c.row] = c.at
  <2>1. c.row \in Rows
    BY <1>2, ChangeIs
  <2>2. Logged(s, c.row)
    BY <1>5, <2>1, TableTimes
  <2>3. PICK y \in {s, Server} : \E i \in 1 .. Len(log[y]) :
           log[y][i].state = "done" /\ log[y][i].row = c.row /\ log[y][i].at = table[s][c.row]
    BY <2>2 DEF Logged
  <2>4. PICK i \in 1 .. Len(log[y]) : log[y][i].row = c.row /\ log[y][i].at = table[s][c.row]
    BY <2>3
  <2>5. PICK j \in 1 .. Len(log[x]) : log[x][j] = c
    BY <1>3
  <2>6. y \in Sites
    BY SitesAre
  <2>7. log[y][i].row = log[x][j].row /\ log[y][i].row \notin Dated /\ log[y][i].at > 0 /\ log[x][j].at > 0
    BY <1>5, <2>4, <2>5
  <2>8. log[y][i].at = log[x][j].at
    BY <2>6, <2>7 DEF SyncInv, TimesSound
  <2> QED BY <2>4, <2>5, <2>8
<1>6. PICK st : st = Before(s)
  OBVIOUS
<1>7. /\ BatchInv(st, C, origin, b) /\ st \in BatchState
      /\ \A k \in 1 .. Len(batch) : Taken(b, batch[k])
  BY <1>1, <1>4, <1>5, <1>6, ApplyBatchKeeps
<1>8. st.table = table[s] /\ st.had = seen[s] /\ st.apart = apart
  BY <1>6 DEF Before
<1>9. /\ b \in BatchState /\ BatchTables(st, C, b) /\ Keeps(st, b) /\ st.had \subseteq b.had /\ st.apart \subseteq b.apart
  BY <1>7 DEF BatchInv
<1>10. b.table \in [Rows -> Moments] /\ b.had \subseteq Rows /\ b.apart \subseteq Rows
  BY <1>9 DEF BatchState
<1>11. /\ table' \in [Sites -> [Rows -> Moments]] /\ seen' \in [Sites -> SUBSET Rows]
       /\ table'[s] = b.table /\ seen'[s] = b.had
       /\ \A t \in Sites : t # s => table'[t] = table[t] /\ seen'[t] = seen[t]
  BY <1>1, <1>10
<1>12. apart \subseteq apart' /\ apart' \subseteq Rows
  BY <1>8, <1>9, <1>10
<1>13. SettledKept
  <2> SUFFICES ASSUME NEW t \in Sites, NEW c \in Change, TakenIn(table[t], seen[t], apart, c)
               PROVE  TakenIn(table'[t], seen'[t], apart', c)
    BY DEF SettledKept
  <2>1. CASE t = s
    <3>1. Taken(st, c)
      BY <1>8, <2>1 DEF Taken
    <3>2. Taken(b, c)
      BY <1>9, <3>1 DEF Keeps
    <3> QED BY <1>11, <2>1, <3>2 DEF Taken
  <2>2. CASE t # s
    BY <1>11, <1>12, <2>2 DEF TakenIn
  <2> QED BY <2>1, <2>2
<1>14. ASSUME NEW i \in 1 .. Len(log[s]), log[s][i].state = "open"
       PROVE  /\ \A c \in C : c.row # log[s][i].row
              /\ b.table[log[s][i].row] = table[s][log[s][i].row]
              /\ log[s][i].row \in b.had => log[s][i].row \in seen[s]
  <2>1. PICK r : r = log[s][i].row
    OBVIOUS
  <2>2. r \in Rows /\ i \in DOMAIN log[s]
    BY <1>1, <2>1, LogIs, ChangeIs
  <2>3. ASSUME NEW c \in C, c.row = r PROVE FALSE
    <3>1. PICK k \in 1 .. Len(batch) : c = batch[k]
      OBVIOUS
    <3>2. k \in DOMAIN batch
      BY LenProperties
    <3>3. r \in {batch[j].row : j \in DOMAIN batch}
      BY <2>3, <3>1, <3>2
    <3>4. Meets(r, log[s][i].row)
      BY <2>1 DEF Meets
    <3> QED BY <1>14, <2>2, <3>3, <3>4 DEF Busy
  <2>4. ~Brought(C, b, r)
    BY <2>3 DEF Brought
  <2>5. b.table[r] = st.table[r] /\ (r \in b.had => r \in st.had)
    BY <1>9, <2>2, <2>4 DEF BatchTables
  <2> QED BY <1>8, <2>1, <2>3, <2>5
<1>15. \A k \in 1 .. Len(batch) : TakenIn(b.table, b.had, b.apart, batch[k])
  BY <1>7 DEF Taken
<1> QED BY <1>3, <1>6, <1>7, <1>9, <1>11, <1>12, <1>13, <1>14, <1>15

\* Then the cursors are as sound as they were, and so is a round that was not the one.
LEMMA LandedKeeps ==
    ASSUME SyncInv, SyncTypeOK', LogGrows, SettledKept, LateIsApart, links' = links,
           NEW w \in Runners, NEW x \in Round, round' = [round EXCEPT ![w] = x],
           x.pc # "idle" => RoundFits(InstallOf[w], x)'
    PROVE  LinksSound' /\ RoundsSound'
<1>1. round \in [Runners -> Round]
  BY DEF SyncInv, SyncTypeOK
<1>2. LinksSound' /\ \A v \in Runners : round'[v] = round[v] /\ round[v].pc # "idle" => RoundSound(v)'
  BY CursorsStay
<1>3. RoundsSound'
  <2> SUFFICES ASSUME NEW v \in Runners, round'[v].pc # "idle" PROVE RoundSound(v)'
    BY DEF RoundsSound
  <2>1. CASE v = w
    <3>1. round'[v] = x
      BY <1>1, <2>1
    <3>2. RoundFits(InstallOf[v], x)'
      BY <2>1, <3>1
    <3> QED BY <3>1, <3>2 DEF RoundSound
  <2>2. CASE v # w
    <3>1. round'[v] = round[v]
      BY <1>1, <2>2
    <3> QED BY <1>2, <3>1
  <2> QED BY <2>1, <2>2
<1> QED BY <1>2, <1>3

\* What is before the cursors of a round, and the end of a batch that landed, is taken in.
LEMMA RoundLands ==
    ASSUME SyncInv, SyncTypeOK', LogGrows, SettledKept, LateIsApart, links' = links,
           NEW w \in Runners, round[w].pc # "idle"
    PROVE  LET d == InstallOf[w] IN
           /\ CoveredBy(log'[d], table'[Server], seen'[Server], apart', round[w].pushed)
           /\ CoveredBy(log'[Server], table'[d], seen'[d], apart', round[w].pulled)
           /\ round[w].gen \in 1 .. links'[d].gen
<1>1. PICK d \in Devices : d = InstallOf[w]
  BY SitesAre
<1>2. PICK y : y = round[w]
  OBVIOUS
<1>3. /\ SyncTypeOK /\ d \in Sites /\ Server \in Sites /\ y.pushed \in Nat /\ y.pulled \in Nat
      /\ RoundFits(d, y)
  BY <1>1, <1>2, RoundIs DEF SyncInv
<1>4. /\ CoveredBy(log[d], table[Server], seen[Server], apart, y.pushed)
      /\ CoveredBy(log[Server], table[d], seen[d], apart, y.pulled)
      /\ y.gen \in 1 .. links[d].gen
  BY <1>3 DEF RoundFits, Covers
<1>5. \A i : i <= y.pushed => Passed(d, i)
  BY <1>1, <1>2, <1>3 DEF Passed
<1>6. \A i : i <= y.pulled => Passed(Server, i)
  BY <1>2, <1>3 DEF Passed
<1>7. CoveredBy(log'[d], table'[Server], seen'[Server], apart', y.pushed)
  BY <1>3, <1>4, <1>5, CoverStays
<1>8. CoveredBy(log'[Server], table'[d], seen'[d], apart', y.pulled)
  BY <1>3, <1>4, <1>6, CoverStays
<1> QED BY <1>1, <1>2, <1>4, <1>7, <1>8

LEMMA BatchCovered ==
    ASSUME SyncTypeOK, LogGrows, SettledKept, LateIsApart, NEW s \in Sites, NEW t \in Sites,
           NEW batch, NEW top \in Nat, BatchFits(log[s], table[t], seen[t], apart, batch, top),
           \A k \in 1 .. Len(batch) : TakenIn(table'[t], seen'[t], apart', batch[k]),
           \A i \in 1 .. Len(log'[s]) : i <= top => Passed(s, i)
    PROVE  CoveredBy(log'[s], table'[t], seen'[t], apart', top)
<1> SUFFICES ASSUME NEW i \in 1 .. Len(log'[s]), i <= top, log'[s][i].state = "done"
             PROVE  TakenIn(table'[t], seen'[t], apart', log'[s][i])
  BY DEF CoveredBy
<1>1. CASE i \in 1 .. Len(log[s]) /\ log[s][i].state = "done"
  <2>1. log'[s][i] = log[s][i] /\ log[s][i] \in Change
    BY <1>1, LogIs DEF LogGrows
  <2>2. TakenIn(table[t], seen[t], apart, log[s][i]) \/ \E k \in 1 .. Len(batch) : batch[k] = log[s][i]
    BY <1>1 DEF BatchFits
  <2> QED BY <2>1, <2>2 DEF SettledKept
<1>2. CASE log'[s][i].row \in apart'
  BY <1>2 DEF TakenIn
<1> QED BY <1>1, <1>2 DEF LateIsApart

LEMMA ApplyPulledKeeps ==
    ASSUME SyncInv, NEW w \in Runners, ApplyPulled(w)
    PROVE  SyncInv'
<1>1. PICK d \in Devices : d = InstallOf[w]
  BY SitesAre
<1>2. PICK y : y = round[w]
  OBVIOUS
<1>3. PICK batch : batch = y.batch
  OBVIOUS
<1>4. PICK b : b = ApplyBatch(d, batch, <<>>)
  OBVIOUS
<1>5. PICK x : x = [y EXCEPT !.pc = "applied"]
  OBVIOUS
<1>6. PICK C : C = {batch[k] : k \in 1 .. Len(batch)}
  OBVIOUS
<1>7. /\ d \in Sites /\ Server \in Sites /\ d # Server /\ y \in Round /\ y.top \in Nat /\ y.pulled \in Nat
      /\ y.pushed <= Len(log[d]) /\ y.pulled <= Len(log[Server]) /\ batch \in Seq(Change)
      /\ Len(log[Server]) \in Nat /\ SyncTypeOK
  BY <1>1, <1>2, <1>3, RoundIs, SitesAre DEF SyncInv
<1>8. /\ y.pc = "apply" /\ ~Busy(d, {batch[i].row : i \in DOMAIN batch})
      /\ table' = [table EXCEPT ![d] = b.table] /\ seen' = [seen EXCEPT ![d] = b.had] /\ apart' = b.apart
      /\ log' = log /\ clock' = clock /\ born' = born /\ links' = links /\ lost' = lost
      /\ round' = [round EXCEPT ![w] = x]
  BY <1>1, <1>2, <1>3, <1>4, <1>5 DEF ApplyPulled, Lands, Proceeds
<1>9. RoundFits(d, y)
  BY <1>1, <1>2, <1>8, RoundIs
<1>10. BatchFits(log[Server], table[d], seen[d], apart, batch, y.top)
  BY <1>3, <1>8, <1>9 DEF RoundFits, BatchSound
<1>11. <<>> \in Origins
  BY DEF Origins
<1>12. /\ b \in BatchState /\ BatchInv(Before(d), C, <<>>, b)
       /\ \A c \in C : \E i \in 1 .. Len(log[Server]) : log[Server][i] = c /\ log[Server][i].state = "done"
       /\ \A k \in 1 .. Len(batch) : TakenIn(b.table, b.had, b.apart, batch[k])
       /\ table' \in [Sites -> [Rows -> Moments]] /\ seen' \in [Sites -> SUBSET Rows]
       /\ apart \subseteq apart' /\ apart' \subseteq Rows
       /\ table'[d] = b.table /\ seen'[d] = b.had
       /\ \A t \in Sites : t # d => table'[t] = table[t] /\ seen'[t] = seen[t]
       /\ SettledKept
       /\ \A i \in 1 .. Len(log[d]) : log[d][i].state = "open" =>
             /\ \A c \in C : c.row # log[d][i].row
             /\ b.table[log[d][i].row] = table[d][log[d][i].row]
             /\ log[d][i].row \in b.had => log[d][i].row \in seen[d]
  <2>1. LandsHere(d, Server, batch, y.top, <<>>, C, b)
    BY <1>4, <1>6, <1>7, <1>8, <1>10, <1>11 DEF LandsHere
  <2> QED BY <2>1, LandsIs
<1>13. x \in Round /\ x.pc = "applied" /\ x.gen = y.gen /\ x.pushed = y.pushed /\ x.pulled = y.pulled
       /\ x.top = y.top /\ x.more = y.more /\ x.batch = y.batch
  BY <1>5, <1>7 DEF Round
<1>14. SyncTypeOK'
  <2>1. round \in [Runners -> Round]
    BY <1>7 DEF SyncTypeOK
  <2>2. round'[w] = x /\ \A v \in Runners : v # w => round'[v] = round[v]
    BY <1>8, <2>1
  <2>3. round' \in [Runners -> Round]
    BY <1>8, <1>13, <2>1
  <2>4. \A v \in Runners : round'[v].pushed <= Len(log'[InstallOf[v]]) /\ round'[v].pulled <= Len(log'[Server])
    BY <1>1, <1>7, <1>8, <1>13, <2>2 DEF SyncTypeOK
  <2> QED BY <1>7, <1>8, <1>12, <2>3, <2>4 DEF SyncTypeOK
<1>15. LogGrows
  BY <1>7, <1>8, LogIs DEF LogGrows
<1>16. LateIsApart
  BY <1>8 DEF LateIsApart
<1>17. RoundFits(d, x)'
  <2>1. /\ CoveredBy(log'[d], table'[Server], seen'[Server], apart', y.pushed)
        /\ CoveredBy(log'[Server], table'[d], seen'[d], apart', y.pulled)
        /\ y.gen \in 1 .. links'[d].gen
    BY <1>1, <1>2, <1>8, <1>12, <1>14, <1>15, <1>16, RoundLands
  <2>2. \A i : i <= y.top => Passed(Server, i)
    BY <1>2, <1>7, <1>8 DEF Passed
  <2>3. \A k \in 1 .. Len(batch) : TakenIn(table'[d], seen'[d], apart', batch[k])
    BY <1>8, <1>12
  <2>4. CoveredBy(log'[Server], table'[d], seen'[d], apart', y.top)
    BY <1>7, <1>10, <1>12, <1>15, <1>16, <2>2, <2>3, BatchCovered
  <2>5. y.top <= Len(log'[Server])
    BY <1>8, <1>10 DEF BatchFits
  <2>6. y.more => y.top > y.pulled
    BY <1>8, <1>9 DEF RoundFits
  <2> QED BY <1>13, <2>1, <2>4, <2>5, <2>6 DEF RoundFits, Covers
<1>18. LinksSound' /\ RoundsSound'
  <2>1. x.pc # "idle" => RoundFits(InstallOf[w], x)'
    BY <1>1, <1>17
  <2> QED BY <1>8, <1>12, <1>13, <1>14, <1>15, <1>16, <2>1, LandedKeeps
<1>19. AuthorsSound' /\ TimesSound' /\ LoggedOnce'
  <2>1. AuthorsSound'
    BY <1>8 DEF SyncInv, AuthorsSound
  <2>2. TimesSound'
    BY <1>8, <1>12 DEF SyncInv, TimesSound
  <2>3. LoggedOnce'
    BY <1>8, <1>12 DEF SyncInv, LoggedOnce
  <2> QED BY <2>1, <2>2, <2>3
<1>20. TablesSound'
  <2>1. BatchTables(Before(d), C, b)
    BY <1>12 DEF BatchInv
  <2>2. Before(d).table = table[d] /\ Before(d).had = seen[d]
    BY DEF Before
  <2>3. ASSUME NEW t \in Sites, NEW r \in Rows, table'[t][r] > 0 PROVE r \in seen'[t]
    <3>1. CASE t = d
      BY <1>12, <2>1, <2>3, <3>1 DEF BatchTables
    <3>2. CASE t # d
      BY <1>12, <2>3, <3>2 DEF SyncInv, TablesSound
    <3> QED BY <3>1, <3>2
  <2>4. ASSUME NEW t \in Sites, NEW r \in Rows, r \in seen'[t] PROVE Logged(t, r)'
    <3>1. CASE table'[t][r] = table[t][r] /\ r \in seen[t]
      <4>1. Logged(t, r)
        BY <3>1 DEF SyncInv, TablesSound
      <4> QED BY <1>8, <3>1, <4>1 DEF Logged
    <3>2. CASE t = d /\ Brought(C, b, r)
      <4>1. PICK c \in C : c.row = r /\ c.at = b.table[r]
        BY <3>2 DEF Brought
      <4>2. PICK i \in 1 .. Len(log[Server]) : log[Server][i] = c /\ log[Server][i].state = "done"
        BY <1>12
      <4>3. /\ i \in 1 .. Len(log'[Server]) /\ log'[Server][i].state = "done"
            /\ log'[Server][i].row = r /\ log'[Server][i].at = table'[t][r]
        BY <1>8, <1>12, <3>2, <4>1, <4>2
      <4> QED BY <4>3 DEF Logged
    <3> QED BY <1>12, <2>1, <2>2, <2>4, <3>1, <3>2 DEF BatchTables
  <2> QED BY <2>3, <2>4 DEF TablesSound
<1>21. OpenSound'
  <2> SUFFICES ASSUME NEW t \in Sites, NEW i \in 1 .. Len(log[t]), log[t][i].state = "open"
               PROVE  /\ log[t][i].at > 0 => log[t][i].at > table'[t][log[t][i].row] \/ log[t][i].row \in apart'
                      /\ \/ table'[t][log[t][i].row] > 0
                         \/ log[t][i].at > 0 /\ log[t][i].row \notin seen'[t]
                      /\ \A j \in 1 .. Len(log[t]) : log[t][j].state = "open" /\ log[t][j].row = log[t][i].row => i = j
    BY <1>8 DEF OpenSound
  <2>1. /\ table'[t][log[t][i].row] = table[t][log[t][i].row]
        /\ log[t][i].row \in seen'[t] => log[t][i].row \in seen[t]
    BY <1>12
  <2> QED BY <1>12, <2>1 DEF SyncInv, OpenSound
<1>22. LogsSettled'
  <2> SUFFICES ASSUME NEW t \in Sites, NEW i \in 1 .. Len(log[t]), log[t][i].state = "done"
               PROVE  /\ TakenIn(table'[t], seen'[t], apart', log[t][i])
                      /\ TakenIn(table'[log[t][i].by], seen'[log[t][i].by], apart', log[t][i])
    BY <1>8 DEF LogsSettled, Settled
  <2>1. log[t][i] \in Change /\ log[t][i].by \in Sites
    BY <1>7, LogIs, ChangeIs
  <2>2. /\ TakenIn(table[t], seen[t], apart, log[t][i])
        /\ TakenIn(table[log[t][i].by], seen[log[t][i].by], apart, log[t][i])
    BY DEF SyncInv, LogsSettled, Settled
  <2> QED BY <1>12, <2>1, <2>2 DEF SettledKept
<1> QED BY <1>14, <1>18, <1>19, <1>20, <1>21, <1>22 DEF SyncInv

\* A log that a push was added to.
LEMMA ServerLogIs ==
    ASSUME SyncTypeOK, NEW l \in Seq(Change), log' = [log EXCEPT ![Server] = @ \o l]
    PROVE  /\ log' \in [Sites -> Seq(Change)] /\ Len(log[Server]) \in Nat /\ Len(l) \in Nat
           /\ \A t \in Sites : /\ Len(log[t]) \in Nat /\ Len(log'[t]) \in Nat /\ Len(log[t]) <= Len(log'[t])
                               /\ \A i \in 1 .. Len(log[t]) : log'[t][i] = log[t][i]
           /\ \A k \in 1 .. Len(l) : Len(log[Server]) + k \in 1 .. Len(log'[Server])
                                     /\ log'[Server][Len(log[Server]) + k] = l[k]
           /\ \A t \in Sites : \A i \in 1 .. Len(log'[t]) :
                 \/ i \in 1 .. Len(log[t]) /\ log'[t][i] = log[t][i]
                 \/ t = Server /\ \E k \in 1 .. Len(l) : i = Len(log[Server]) + k /\ log'[t][i] = l[k]
<1>1. /\ log \in [Sites -> Seq(Change)] /\ \A t \in Sites : log[t] \in Seq(Change) /\ Len(log[t]) \in Nat
      /\ Server \in Sites
  BY LogIs, SitesAre DEF SyncTypeOK
<1>2. PICK old : old = log[Server]
  OBVIOUS
<1>3. PICK m : m = old \o l
  OBVIOUS
<1>4. log' = [log EXCEPT ![Server] = m]
  BY <1>2, <1>3
<1>5. old \in Seq(Change) /\ Len(old) \in Nat /\ Len(l) \in Nat
  BY <1>1, <1>2, LenProperties
<1>6. /\ m \in Seq(Change) /\ Len(m) = Len(old) + Len(l)
      /\ \A i \in 1 .. Len(old) + Len(l) : m[i] = IF i <= Len(old) THEN old[i] ELSE l[i - Len(old)]
  BY <1>3, <1>5, ConcatProperties
<1>7. \A i \in 1 .. Len(old) : m[i] = old[i]
  BY <1>5, <1>6
<1>8. \A k \in 1 .. Len(l) : Len(old) + k \in 1 .. Len(m) /\ m[Len(old) + k] = l[k]
  <2> SUFFICES ASSUME NEW k \in 1 .. Len(l) PROVE Len(old) + k \in 1 .. Len(m) /\ m[Len(old) + k] = l[k]
    OBVIOUS
  <2>1. Len(old) + k \in 1 .. Len(old) + Len(l) /\ ~(Len(old) + k <= Len(old)) /\ (Len(old) + k) - Len(old) = k
    BY <1>5
  <2> QED BY <1>6, <2>1
<1>9. \A i \in 1 .. Len(m) : i \in 1 .. Len(old) \/ \E k \in 1 .. Len(l) : i = Len(old) + k
  <2> SUFFICES ASSUME NEW i \in 1 .. Len(m), i \notin 1 .. Len(old) PROVE \E k \in 1 .. Len(l) : i = Len(old) + k
    OBVIOUS
  <2>1. i - Len(old) \in 1 .. Len(l) /\ i = Len(old) + (i - Len(old))
    BY <1>5, <1>6
  <2> QED BY <2>1
<1>10. log'[Server] = m /\ (\A t \in Sites : t # Server => log'[t] = log[t]) /\ log' \in [Sites -> Seq(Change)]
  BY <1>1, <1>4, <1>6
<1>11. ASSUME NEW t \in Sites
       PROVE  /\ Len(log[t]) \in Nat /\ Len(log'[t]) \in Nat /\ Len(log[t]) <= Len(log'[t])
              /\ \A i \in 1 .. Len(log[t]) : log'[t][i] = log[t][i]
              /\ \A i \in 1 .. Len(log'[t]) :
                   \/ i \in 1 .. Len(log[t]) /\ log'[t][i] = log[t][i]
                   \/ t = Server /\ \E k \in 1 .. Len(l) : i = Len(log[Server]) + k /\ log'[t][i] = l[k]
  <2>1. CASE t = Server
    <3>1. Len(m) \in Nat /\ Len(old) <= Len(m)
      BY <1>5, <1>6
    <3>2. \A i \in 1 .. Len(m) : \/ i \in 1 .. Len(old) /\ m[i] = old[i]
                                 \/ \E k \in 1 .. Len(l) : i = Len(old) + k /\ m[i] = l[k]
      BY <1>7, <1>8, <1>9
    <3> QED BY <1>2, <1>5, <1>7, <1>10, <2>1, <3>1, <3>2
  <2>2. CASE t # Server
    BY <1>1, <1>10, <2>2
  <2> QED BY <2>1, <2>2
<1> QED BY <1>2, <1>5, <1>8, <1>10, <1>11

LEMMA PushKeeps ==
    ASSUME SyncInv, NEW w \in Runners, Push(w)
    PROVE  SyncInv'
<1>1. PICK d \in Devices : d = InstallOf[w]
  BY SitesAre
<1>2. PICK y : y = round[w]
  OBVIOUS
<1>3. PICK batch : batch = y.batch
  OBVIOUS
<1>4. PICK origin : origin = <<d, y.gen>>
  OBVIOUS
<1>5. PICK b : b = ApplyBatch(Server, batch, origin)
  OBVIOUS
<1>6. PICK C : C = {batch[k] : k \in 1 .. Len(batch)}
  OBVIOUS
<1>7. PICK l : l = b.logged
  OBVIOUS
<1>8. PICK st : st = Before(Server)
  OBVIOUS
<1>9. /\ d \in Sites /\ Server \in Sites /\ d # Server /\ y \in Round /\ y.top \in Nat /\ y.pushed \in Nat
      /\ y.pushed <= Len(log[d]) /\ y.pulled <= Len(log[Server]) /\ batch \in Seq(Change) /\ y.pulled \in Nat
      /\ Len(log[d]) \in Nat /\ Len(log[Server]) \in Nat /\ SyncTypeOK /\ lost \in 0 .. MaxLost
  BY <1>1, <1>2, <1>3, RoundIs, SitesAre DEF SyncInv
<1>10. /\ y.pc = "send" /\ ~Busy(Server, {batch[i].row : i \in DOMAIN batch})
       /\ table' = [table EXCEPT ![Server] = b.table] /\ seen' = [seen EXCEPT ![Server] = b.had] /\ apart' = b.apart
       /\ log' = [log EXCEPT ![Server] = @ \o l] /\ clock' = clock /\ born' = born /\ links' = links
  BY <1>1, <1>2, <1>3, <1>4, <1>5, <1>7 DEF Push, Lands
<1>11. PICK x : /\ round' = [round EXCEPT ![w] = x]
                /\ \/ x = [y EXCEPT !.pc = "sent"] /\ lost' = lost
                   \/ x = Quiet /\ lost < MaxLost /\ lost' = lost + 1
  BY <1>2 DEF Push, Proceeds
<1>12. RoundFits(d, y)
  BY <1>1, <1>2, <1>10, RoundIs
<1>13. BatchFits(log[d], table[Server], seen[Server], apart, batch, y.top)
  BY <1>3, <1>10, <1>12 DEF RoundFits, BatchSound
<1>14. y.gen \in 1 .. links[d].gen /\ origin \in Origins
  <2>1. y.gen \in 1 .. links[d].gen /\ links[d].gen \in 0 .. MaxLinks
    BY <1>9, <1>12 DEF RoundFits, SyncTypeOK
  <2>2. y.gen \in 1 .. MaxLinks
    BY <2>1, SyncAssumption
  <2> QED BY <1>4, <2>1, <2>2 DEF Origins
<1>15. /\ b \in BatchState /\ BatchInv(st, C, origin, b)
       /\ \A c \in C : \E i \in 1 .. Len(log[d]) : log[d][i] = c /\ log[d][i].state = "done"
       /\ \A k \in 1 .. Len(batch) : TakenIn(b.table, b.had, b.apart, batch[k])
       /\ table' \in [Sites -> [Rows -> Moments]] /\ seen' \in [Sites -> SUBSET Rows]
       /\ apart \subseteq apart' /\ apart' \subseteq Rows
       /\ table'[Server] = b.table /\ seen'[Server] = b.had
       /\ \A t \in Sites : t # Server => table'[t] = table[t] /\ seen'[t] = seen[t]
       /\ SettledKept
       /\ \A i \in 1 .. Len(log[Server]) : log[Server][i].state = "open" =>
             /\ \A c \in C : c.row # log[Server][i].row
             /\ b.table[log[Server][i].row] = table[Server][log[Server][i].row]
             /\ log[Server][i].row \in b.had => log[Server][i].row \in seen[Server]
  <2>1. LandsHere(Server, d, batch, y.top, origin, C, b)
    BY <1>5, <1>6, <1>9, <1>10, <1>13, <1>14 DEF LandsHere
  <2> QED BY <1>8, <2>1, LandsIs
<1>16. /\ BatchTables(st, C, b) /\ BatchLog(st, C, origin, b) /\ l \in Seq(Change)
       /\ st.table = table[Server] /\ st.had = seen[Server] /\ st.apart = apart
  BY <1>7, <1>8, <1>15 DEF BatchInv, BatchState, Before
<1>17. /\ log' \in [Sites -> Seq(Change)] /\ Len(l) \in Nat
       /\ \A t \in Sites : /\ Len(log[t]) \in Nat /\ Len(log'[t]) \in Nat /\ Len(log[t]) <= Len(log'[t])
                           /\ \A i \in 1 .. Len(log[t]) : log'[t][i] = log[t][i]
       /\ \A k \in 1 .. Len(l) : Len(log[Server]) + k \in 1 .. Len(log'[Server])
                                 /\ log'[Server][Len(log[Server]) + k] = l[k]
       /\ \A t \in Sites : \A i \in 1 .. Len(log'[t]) :
             \/ i \in 1 .. Len(log[t]) /\ log'[t][i] = log[t][i]
             \/ t = Server /\ \E k \in 1 .. Len(l) : i = Len(log[Server]) + k /\ log'[t][i] = l[k]
  BY <1>9, <1>10, <1>16, ServerLogIs
\* What the push adds to the server's log is in the device's.
<1>18. ASSUME NEW k \in 1 .. Len(l)
       PROVE  \E c \in C : \E i \in 1 .. Len(log[d]) :
                 /\ log[d][i] = c /\ log[d][i].state = "done" /\ c \in Change
                 /\ l[k].row = c.row /\ l[k].at = c.at /\ l[k].by = c.by
                 /\ l[k].origin = origin /\ l[k].state = "done" /\ c.by = d /\ l[k] \in Change
  <2>1. PICK c \in C : l[k] = LogEntry(c.row, c.at, c.by, origin, "done")
    BY <1>7, <1>16 DEF BatchLog
  <2>2. PICK i \in 1 .. Len(log[d]) : log[d][i] = c /\ log[d][i].state = "done"
    BY <1>15
  <2>3. c \in Change /\ c.by = d /\ l[k] \in Change
    BY <1>9, <1>16, <2>2, LogIs, ElementOfSeq DEF SyncInv, AuthorsSound
  <2> QED BY <2>1, <2>2, <2>3 DEF LogEntry
<1>19. ASSUME NEW t \in Sites, NEW i \in 1 .. Len(log'[t])
       PROVE  \E u \in Sites : \E j \in 1 .. Len(log[u]) :
                 log'[t][i].row = log[u][j].row /\ log'[t][i].at = log[u][j].at /\ log'[t][i].by = log[u][j].by
  <2>1. CASE i \in 1 .. Len(log[t]) /\ log'[t][i] = log[t][i]
    BY <2>1
  <2>2. CASE t = Server /\ \E k \in 1 .. Len(l) : i = Len(log[Server]) + k /\ log'[t][i] = l[k]
    <3>1. PICK k \in 1 .. Len(l) : log'[t][i] = l[k]
      BY <2>2
    <3>2. PICK c \in C : \E j \in 1 .. Len(log[d]) :
             log[d][j] = c /\ l[k].row = c.row /\ l[k].at = c.at /\ l[k].by = c.by
      BY <1>18
    <3>3. PICK j \in 1 .. Len(log[d]) : log[d][j] = c
      BY <3>2
    <3> QED BY <1>9, <3>1, <3>2, <3>3
  <2> QED BY <1>17, <2>1, <2>2
<1>20. PICK top : top = y.top
  OBVIOUS
<1>21. x \in Round /\ lost' \in 0 .. MaxLost
       /\ x.pushed <= Len(log'[d]) /\ x.pulled <= Len(log'[Server])
  <2>1. Len(log[d]) <= Len(log'[d]) /\ Len(log[Server]) <= Len(log'[Server])
        /\ Len(log'[d]) \in Nat /\ Len(log'[Server]) \in Nat
    BY <1>9, <1>17
  <2>2. CASE x = [y EXCEPT !.pc = "sent"] /\ lost' = lost
    <3>1. x \in Round /\ x.pushed = y.pushed /\ x.pulled = y.pulled
      BY <1>9, <2>2 DEF Round
    <3> QED BY <1>9, <2>1, <2>2, <3>1
  <2>3. CASE x = Quiet /\ lost < MaxLost /\ lost' = lost + 1
    <3>1. Quiet \in Round /\ Quiet.pushed = 0 /\ Quiet.pulled = 0
      BY <1>9, QuietIs DEF Quiet
    <3>2. lost' \in 0 .. MaxLost
      BY <1>9, <2>3, SyncAssumption
    <3> QED BY <2>1, <2>3, <3>1, <3>2
  <2> QED BY <1>11, <2>2, <2>3
<1>22. SyncTypeOK'
  <2>1. round \in [Runners -> Round]
    BY <1>9 DEF SyncTypeOK
  <2>2. round'[w] = x /\ \A v \in Runners : v # w => round'[v] = round[v]
    BY <1>11, <2>1
  <2>3. round' \in [Runners -> Round]
    BY <1>11, <1>21, <2>1
  <2>4. ASSUME NEW v \in Runners
        PROVE  round'[v].pushed <= Len(log'[InstallOf[v]]) /\ round'[v].pulled <= Len(log'[Server])
    <3>1. CASE v = w
      BY <1>1, <1>21, <2>2, <3>1
    <3>2. CASE v # w
      <4>1. PICK e \in Sites : e = InstallOf[v]
        BY SitesAre
      <4>2. /\ round[v].pushed \in Nat /\ round[v].pulled \in Nat
            /\ round[v].pushed <= Len(log[e]) /\ round[v].pulled <= Len(log[Server])
        BY <4>1, RoundIs
      <4>3. /\ Len(log[e]) \in Nat /\ Len(log'[e]) \in Nat /\ Len(log[e]) <= Len(log'[e])
            /\ Len(log[Server]) \in Nat /\ Len(log'[Server]) \in Nat /\ Len(log[Server]) <= Len(log'[Server])
        BY <1>9, <1>17
      <4>4. round[v].pushed <= Len(log'[e]) /\ round[v].pulled <= Len(log'[Server])
        BY <4>2, <4>3
      <4> QED BY <2>2, <3>2, <4>1, <4>4
    <3> QED BY <3>1, <3>2
  <2> QED BY <1>9, <1>10, <1>15, <1>17, <1>21, <2>3, <2>4 DEF SyncTypeOK
<1>23. LogGrows
  BY <1>17 DEF LogGrows
<1>24. LateIsApart
  <2> SUFFICES ASSUME NEW t \in Sites, NEW i \in 1 .. Len(log'[t]), log'[t][i].state = "done", Passed(t, i)
               PROVE  i \in 1 .. Len(log[t]) /\ log[t][i].state = "done"
    BY DEF LateIsApart
  <2>1. i \in Nat
    BY <1>17
  <2>2. i <= Len(log[t])
    BY <2>1, PassedIsOld
  <2>3. i \in 1 .. Len(log[t])
    BY <1>17, <2>1, <2>2
  <2> QED BY <1>17, <2>3
<1>25. x.pc # "idle" => RoundFits(d, x)'
  <2> SUFFICES ASSUME x.pc # "idle" PROVE RoundFits(d, x)'
    OBVIOUS
  <2>1. x.pc = "sent" /\ x.gen = y.gen /\ x.pushed = y.pushed /\ x.pulled = y.pulled /\ x.top = top
    BY <1>9, <1>11, <1>20 DEF Round, Quiet
  <2>2. /\ CoveredBy(log'[d], table'[Server], seen'[Server], apart', y.pushed)
        /\ CoveredBy(log'[Server], table'[d], seen'[d], apart', y.pulled)
        /\ y.gen \in 1 .. links'[d].gen
    BY <1>1, <1>2, <1>10, <1>15, <1>22, <1>23, <1>24, RoundLands
  <2>3. \A i : i <= top => Passed(d, i)
    BY <1>1, <1>2, <1>9, <1>10, <1>20 DEF Passed
  <2>4. \A k \in 1 .. Len(batch) : TakenIn(table'[Server], seen'[Server], apart', batch[k])
    BY <1>10, <1>15
  <2>5. BatchFits(log[d], table[Server], seen[Server], apart, batch, top) /\ top \in Nat
    BY <1>9, <1>13, <1>20
  <2>6. CoveredBy(log'[d], table'[Server], seen'[Server], apart', top)
    BY <1>9, <1>15, <1>23, <1>24, <2>3, <2>4, <2>5, BatchCovered
  <2>7. top <= Len(log'[d])
    BY <1>9, <1>17, <2>5 DEF BatchFits
  <2>8. top > y.pushed
    BY <1>10, <1>12, <1>20 DEF RoundFits
  <2> QED BY <2>1, <2>2, <2>6, <2>7, <2>8 DEF RoundFits, Covers
<1>26. LinksSound' /\ RoundsSound'
  <2>1. x.pc # "idle" => RoundFits(InstallOf[w], x)'
    BY <1>1, <1>25
  <2> QED BY <1>10, <1>11, <1>15, <1>21, <1>22, <1>23, <1>24, <2>1, LandedKeeps
<1>27. AuthorsSound'
  <2>1. ASSUME NEW e \in Devices, NEW i \in 1 .. Len(log'[e])
        PROVE  log'[e][i].by = e /\ log'[e][i].origin = <<>>
    <3>1. i \in 1 .. Len(log[e]) /\ log'[e][i] = log[e][i]
      BY <1>17, SitesAre
    <3> QED BY <3>1 DEF SyncInv, AuthorsSound
  <2>2. ASSUME NEW i \in 1 .. Len(log'[Server])
        PROVE  \/ log'[Server][i].by = Server /\ log'[Server][i].origin = <<>>
               \/ /\ log'[Server][i].by \in Devices /\ log'[Server][i].state = "done"
                  /\ \E g \in 1 .. links'[log'[Server][i].by].gen : log'[Server][i].origin = <<log'[Server][i].by, g>>
    <3>1. CASE i \in 1 .. Len(log[Server]) /\ log'[Server][i] = log[Server][i]
      BY <1>10, <3>1 DEF SyncInv, AuthorsSound
    <3>2. CASE \E k \in 1 .. Len(l) : i = Len(log[Server]) + k /\ log'[Server][i] = l[k]
      <4>1. PICK k \in 1 .. Len(l) : log'[Server][i] = l[k]
        BY <3>2
      <4>2. l[k].by = d /\ l[k].origin = <<d, y.gen>> /\ l[k].state = "done"
        BY <1>4, <1>18
      <4> QED BY <1>10, <1>14, <4>1, <4>2
    <3> QED BY <1>9, <1>17, <3>1, <3>2
  <2> QED BY <2>1, <2>2 DEF AuthorsSound
<1>28. TimesSound'
  <2>1. ASSUME NEW t \in Sites, NEW i \in 1 .. Len(log'[t])
        PROVE  log'[t][i].row \in born' /\ log'[t][i].at <= clock'
    <3>1. PICK u \in Sites : \E j \in 1 .. Len(log[u]) : log'[t][i].row = log[u][j].row /\ log'[t][i].at = log[u][j].at
      BY <1>19
    <3>2. PICK j \in 1 .. Len(log[u]) : log'[t][i].row = log[u][j].row /\ log'[t][i].at = log[u][j].at
      BY <3>1
    <3> QED BY <1>10, <3>2 DEF SyncInv, TimesSound
  <2>2. ASSUME NEW t \in Sites, NEW v \in Sites, NEW i \in 1 .. Len(log'[t]), NEW k \in 1 .. Len(log'[v])
        PROVE  /\ log'[t][i].at > 0 /\ log'[t][i].at = log'[v][k].at
                     => log'[t][i].by = log'[v][k].by \/ log'[t][i].row \in apart' \/ log'[v][k].row \in apart'
               /\ log'[t][i].row = log'[v][k].row /\ log'[t][i].row \notin Dated
                     /\ log'[t][i].at > 0 /\ log'[v][k].at > 0 => log'[t][i].at = log'[v][k].at
    <3>1. PICK u \in Sites : \E j \in 1 .. Len(log[u]) :
             log'[t][i].row = log[u][j].row /\ log'[t][i].at = log[u][j].at /\ log'[t][i].by = log[u][j].by
      BY <1>19
    <3>2. PICK j \in 1 .. Len(log[u]) :
             log'[t][i].row = log[u][j].row /\ log'[t][i].at = log[u][j].at /\ log'[t][i].by = log[u][j].by
      BY <3>1
    <3>3. PICK z \in Sites : \E j2 \in 1 .. Len(log[z]) :
             log'[v][k].row = log[z][j2].row /\ log'[v][k].at = log[z][j2].at /\ log'[v][k].by = log[z][j2].by
      BY <1>19
    <3>4. PICK j2 \in 1 .. Len(log[z]) :
             log'[v][k].row = log[z][j2].row /\ log'[v][k].at = log[z][j2].at /\ log'[v][k].by = log[z][j2].by
      BY <3>3
    <3>5. /\ log[u][j].at > 0 /\ log[u][j].at = log[z][j2].at
                => log[u][j].by = log[z][j2].by \/ log[u][j].row \in apart \/ log[z][j2].row \in apart
          /\ log[u][j].row = log[z][j2].row /\ log[u][j].row \notin Dated /\ log[u][j].at > 0 /\ log[z][j2].at > 0
                => log[u][j].at = log[z][j2].at
      BY DEF SyncInv, TimesSound
    <3> QED BY <1>15, <3>2, <3>4, <3>5
  <2> QED BY <2>1, <2>2 DEF TimesSound
<1>29. TablesSound'
  <2>1. ASSUME NEW t \in Sites, NEW r \in Rows, table'[t][r] > 0 PROVE r \in seen'[t]
    <3>1. CASE t = Server
      BY <1>15, <1>16, <2>1, <3>1 DEF BatchTables
    <3>2. CASE t # Server
      BY <1>15, <2>1, <3>2 DEF SyncInv, TablesSound
    <3> QED BY <3>1, <3>2
  <2>2. ASSUME NEW t \in Sites, NEW r \in Rows, r \in seen'[t] PROVE Logged(t, r)'
    <3>1. CASE table'[t][r] = table[t][r] /\ r \in seen[t]
      <4>1. Logged(t, r)
        BY <3>1 DEF SyncInv, TablesSound
      <4>2. PICK u \in {t, Server} : \E i \in 1 .. Len(log[u]) :
               log[u][i].state = "done" /\ log[u][i].row = r /\ log[u][i].at = table[t][r]
        BY <4>1 DEF Logged
      <4>3. PICK i \in 1 .. Len(log[u]) : log[u][i].state = "done" /\ log[u][i].row = r /\ log[u][i].at = table[t][r]
        BY <4>2
      <4>4. i \in 1 .. Len(log'[u]) /\ log'[u][i] = log[u][i]
        BY <1>9, <1>17, <4>3
      <4> QED BY <3>1, <4>3, <4>4 DEF Logged
    <3>2. CASE t = Server /\ Brought(C, b, r)
      <4>1. PICK k \in 1 .. Len(l) : l[k].row = r /\ l[k].at = b.table[r]
        BY <1>7, <3>2 DEF Brought
      <4>2. l[k].state = "done"
        BY <1>18
      <4>3. PICK i : i = Len(log[Server]) + k
        OBVIOUS
      <4>4. i \in 1 .. Len(log'[Server]) /\ log'[Server][i] = l[k]
        BY <1>17, <4>3
      <4> QED BY <1>15, <3>2, <4>1, <4>2, <4>4 DEF Logged
    <3> QED BY <1>15, <1>16, <2>2, <3>1, <3>2 DEF BatchTables
  <2> QED BY <2>1, <2>2 DEF TablesSound
<1>30. ASSUME NEW t \in Sites, NEW i \in 1 .. Len(log'[t]), log'[t][i].state # "done"
       PROVE  i \in 1 .. Len(log[t]) /\ log'[t][i] = log[t][i]
  <2>1. ~\E k \in 1 .. Len(l) : i = Len(log[Server]) + k /\ log'[t][i] = l[k]
    BY <1>18, <1>30
  <2> QED BY <1>17, <2>1
<1>31. OpenSound'
  <2> SUFFICES ASSUME NEW t \in Sites, NEW i \in 1 .. Len(log'[t]), log'[t][i].state = "open"
               PROVE  /\ log'[t][i].at > 0 => log'[t][i].at > table'[t][log'[t][i].row] \/ log'[t][i].row \in apart'
                      /\ \/ table'[t][log'[t][i].row] > 0
                         \/ log'[t][i].at > 0 /\ log'[t][i].row \notin seen'[t]
                      /\ \A j \in 1 .. Len(log'[t]) :
                            log'[t][j].state = "open" /\ log'[t][j].row = log'[t][i].row => i = j
    BY DEF OpenSound
  <2>1. i \in 1 .. Len(log[t]) /\ log'[t][i] = log[t][i] /\ log[t][i].state = "open"
    BY <1>30
  <2>2. /\ table'[t][log[t][i].row] = table[t][log[t][i].row]
        /\ log[t][i].row \in seen'[t] => log[t][i].row \in seen[t]
    BY <1>15, <2>1
  <2>3. /\ log[t][i].at > 0 => log[t][i].at > table[t][log[t][i].row] \/ log[t][i].row \in apart
        /\ table[t][log[t][i].row] > 0 \/ (log[t][i].at > 0 /\ log[t][i].row \notin seen[t])
        /\ \A j \in 1 .. Len(log[t]) : log[t][j].state = "open" /\ log[t][j].row = log[t][i].row => i = j
    BY <2>1 DEF SyncInv, OpenSound
  <2>4. ASSUME NEW j \in 1 .. Len(log'[t]), log'[t][j].state = "open", log'[t][j].row = log'[t][i].row PROVE i = j
    <3>1. j \in 1 .. Len(log[t]) /\ log'[t][j] = log[t][j]
      BY <1>30, <2>4
    <3> QED BY <2>1, <2>3, <2>4, <3>1
  <2> QED BY <1>15, <2>1, <2>2, <2>3, <2>4
<1>32. LogsSettled'
  <2> SUFFICES ASSUME NEW t \in Sites, NEW i \in 1 .. Len(log'[t]), log'[t][i].state = "done"
               PROVE  /\ TakenIn(table'[t], seen'[t], apart', log'[t][i])
                      /\ TakenIn(table'[log'[t][i].by], seen'[log'[t][i].by], apart', log'[t][i])
    BY DEF LogsSettled, Settled
  <2>1. CASE i \in 1 .. Len(log[t]) /\ log'[t][i] = log[t][i]
    <3>1. log[t][i] \in Change /\ log[t][i].by \in Sites /\ log[t][i].state = "done"
      BY <1>9, <2>1, LogIs, ChangeIs
    <3>2. /\ TakenIn(table[t], seen[t], apart, log[t][i])
          /\ TakenIn(table[log[t][i].by], seen[log[t][i].by], apart, log[t][i])
      BY <2>1, <3>1 DEF SyncInv, LogsSettled, Settled
    <3> QED BY <1>15, <2>1, <3>1, <3>2 DEF SettledKept
  <2>2. CASE t = Server /\ \E k \in 1 .. Len(l) : i = Len(log[Server]) + k /\ log'[t][i] = l[k]
    <3>1. PICK k \in 1 .. Len(l) : log'[t][i] = l[k]
      BY <2>2
    <3>2. PICK c \in C : \E j \in 1 .. Len(log[d]) :
             /\ log[d][j] = c /\ log[d][j].state = "done" /\ c \in Change
             /\ l[k].row = c.row /\ l[k].at = c.at /\ l[k].by = d /\ l[k] \in Change
      BY <1>18
    <3>3. PICK j \in 1 .. Len(log[d]) : log[d][j] = c /\ log[d][j].state = "done"
      BY <3>2
    <3>4. TakenIn(table[d], seen[d], apart, c)
      BY <1>9, <3>3 DEF SyncInv, LogsSettled, Settled
    <3>5. TakenIn(table'[d], seen'[d], apart', c)
      BY <1>9, <1>15, <3>2, <3>4 DEF SettledKept
    <3>6. TakenIn(table'[d], seen'[d], apart', l[k])
      BY <3>2, <3>5 DEF TakenIn
    <3>7. Taken(b, l[k])
      BY <1>7, <1>16 DEF BatchLog
    <3>8. TakenIn(table'[Server], seen'[Server], apart', l[k])
      BY <1>10, <1>15, <3>7 DEF Taken
    <3> QED BY <2>2, <3>1, <3>2, <3>6, <3>8
  <2> QED BY <1>17, <2>1, <2>2
<1>33. LoggedOnce'
  <2>1. ASSUME NEW i \in 1 .. Len(log[Server]), NEW k \in 1 .. Len(l), l[k].row \notin apart', l[k].at > 0,
               log[Server][i].row = l[k].row, log[Server][i].at = l[k].at
        PROVE  FALSE
    <3>1. PICK c \in C : \E j \in 1 .. Len(log[d]) :
             log[d][j] = c /\ l[k].row = c.row /\ l[k].at = c.at /\ c.by = d
      BY <1>18
    <3>2. PICK j \in 1 .. Len(log[d]) : log[d][j] = c
      BY <3>1
    <3>3. ~Taken(st, l[k])
      BY <1>7, <1>10, <1>16, <2>1 DEF BatchLog
    <3>4. log[Server][i].state # "done"
      <4> SUFFICES ASSUME log[Server][i].state = "done" PROVE FALSE
        OBVIOUS
      <4>1. TakenIn(table[Server], seen[Server], apart, log[Server][i])
        BY <1>9 DEF SyncInv, LogsSettled, Settled
      <4>2. TakenIn(table[Server], seen[Server], apart, l[k])
        BY <2>1, <4>1 DEF TakenIn
      <4> QED BY <1>16, <3>3, <4>2 DEF Taken
    <3>5. log[Server][i].by = Server
      BY <3>4 DEF SyncInv, AuthorsSound
    <3>6. log[d][j].at > 0 /\ log[d][j].at = log[Server][i].at
      BY <2>1, <3>1, <3>2
    <3>7. log[d][j].by = log[Server][i].by
      BY <1>9, <1>15, <2>1, <3>1, <3>2, <3>6 DEF SyncInv, TimesSound
    <3> QED BY <1>9, <3>1, <3>2, <3>5, <3>7
  <2>2. ASSUME NEW j \in 1 .. Len(l), NEW k \in 1 .. Len(l), j # k, l[j].row = l[k].row, l[j].at = l[k].at,
               l[j].at > 0, l[j].row \notin apart'
        PROVE  FALSE
    <3>1. j < k \/ k < j
      BY <1>17, <2>2
    <3> QED BY <1>7, <1>10, <1>16, <2>2, <3>1 DEF BatchLog
  <2> SUFFICES ASSUME NEW t \in Sites, NEW i \in DOMAIN log'[t], NEW j \in DOMAIN log'[t],
                      log'[t][i].row = log'[t][j].row, log'[t][i].at = log'[t][j].at, log'[t][i].at > 0,
                      log'[t][i].row \notin apart'
               PROVE  i = j
    BY DEF LoggedOnce
  <2>3. i \in 1 .. Len(log'[t]) /\ j \in 1 .. Len(log'[t])
    <3>1. log'[t] \in Seq(Change)
      BY <1>17
    <3> QED BY <3>1, LenProperties
  <2>4. CASE i \in 1 .. Len(log[t]) /\ log'[t][i] = log[t][i] /\ j \in 1 .. Len(log[t]) /\ log'[t][j] = log[t][j]
    <3>1. i \in DOMAIN log[t] /\ j \in DOMAIN log[t]
      BY <1>9, <2>4, LogIs
    <3> QED BY <1>15, <2>4, <3>1 DEF SyncInv, LoggedOnce
  <2>5. ~(i \in 1 .. Len(log[t]) /\ log'[t][i] = log[t][i]) =>
           t = Server /\ \E k \in 1 .. Len(l) : i = Len(log[Server]) + k /\ log'[t][i] = l[k]
    BY <1>17, <2>3
  <2>6. ~(j \in 1 .. Len(log[t]) /\ log'[t][j] = log[t][j]) =>
           t = Server /\ \E k \in 1 .. Len(l) : j = Len(log[Server]) + k /\ log'[t][j] = l[k]
    BY <1>17, <2>3
  <2>7. CASE /\ ~(i \in 1 .. Len(log[t]) /\ log'[t][i] = log[t][i])
             /\ j \in 1 .. Len(log[t]) /\ log'[t][j] = log[t][j]
    BY <2>1, <2>5, <2>7
  <2>8. CASE /\ i \in 1 .. Len(log[t]) /\ log'[t][i] = log[t][i]
             /\ ~(j \in 1 .. Len(log[t]) /\ log'[t][j] = log[t][j])
    BY <2>1, <2>6, <2>8
  <2>9. CASE /\ ~(i \in 1 .. Len(log[t]) /\ log'[t][i] = log[t][i])
             /\ ~(j \in 1 .. Len(log[t]) /\ log'[t][j] = log[t][j])
    <3>1. PICK k \in 1 .. Len(l) : i = Len(log[Server]) + k /\ log'[t][i] = l[k]
      BY <2>5, <2>9
    <3>2. PICK m \in 1 .. Len(l) : j = Len(log[Server]) + m /\ log'[t][j] = l[m]
      BY <2>6, <2>9
    <3>3. k = m
      BY <2>2, <3>1, <3>2
    <3> QED BY <3>1, <3>2, <3>3
  <2> QED BY <2>4, <2>7, <2>8, <2>9
<1> QED BY <1>22, <1>26, <1>27, <1>28, <1>29, <1>31, <1>32, <1>33 DEF SyncInv

-----------------------------------------------------------------------------
(* The invariant, and what follows from it *)

LEMMA SyncInitKeeps == SyncInit => SyncInv
<1> SUFFICES ASSUME SyncInit PROVE SyncInv
  OBVIOUS
<1>1. /\ clock = 0 /\ born = {} /\ lost = 0 /\ apart = {}
      /\ \A s \in Sites : table[s] = [r \in Rows |-> 0] /\ log[s] = <<>> /\ seen[s] = {}
      /\ \A w \in Runners : round[w] = Quiet
      /\ \A d \in Devices : links[d] = [on |-> FALSE, gen |-> 0, pushed |-> 0, pulled |-> 0]
  BY DEF SyncInit
<1>2. \A s \in Sites : Len(log[s]) = 0 /\ 1 .. Len(log[s]) = {} /\ DOMAIN log[s] = {}
  BY <1>1
<1>3. SyncTypeOK
  <2>1. 0 \in Moments /\ 0 \in 0 .. MaxLinks /\ 0 \in 0 .. MaxLost /\ <<>> \in Seq(Change)
    BY SyncAssumption DEF Moments
  <2>2. Quiet \in Round /\ Quiet.pushed = 0 /\ Quiet.pulled = 0
    BY <2>1 DEF Quiet, Round
  <2>3. \A w \in Runners : round[w].pushed <= Len(log[InstallOf[w]]) /\ round[w].pulled <= Len(log[Server])
    BY <1>1, <1>2, <2>2, SitesAre
  <2>4. table \in [Sites -> [Rows -> Moments]] /\ log \in [Sites -> Seq(Change)] /\ seen \in [Sites -> SUBSET Rows]
    BY <2>1 DEF SyncInit
  <2>5. links \in [Devices -> [on : BOOLEAN, gen : 0 .. MaxLinks, pushed : Nat, pulled : Nat]]
    BY <2>1 DEF SyncInit
  <2>6. round \in [Runners -> Round]
    BY <2>2 DEF SyncInit
  <2> QED BY <1>1, <2>1, <2>3, <2>4, <2>5, <2>6 DEF SyncTypeOK
<1>4. AuthorsSound
  BY <1>2, SitesAre DEF AuthorsSound
<1>5. TimesSound /\ OpenSound /\ LogsSettled
  BY <1>2 DEF TimesSound, OpenSound, LogsSettled
<1>6. TablesSound
  BY <1>1 DEF TablesSound
<1>7. LinksSound
  <2>1. \A d \in Devices : Covers(Server, d, 0) /\ Covers(d, Server, 0) /\ 0 <= Len(log[d]) /\ 0 <= Len(log[Server])
    BY <1>3, NothingBefore
  <2> QED BY <1>1, <2>1 DEF LinksSound, LinkFits
<1>8. RoundsSound
  BY <1>1 DEF RoundsSound, Quiet
<1>9. LoggedOnce
  BY <1>2 DEF LoggedOnce
<1> QED BY <1>3, <1>4, <1>5, <1>6, <1>7, <1>8, <1>9 DEF SyncInv

LEMMA SyncNextKeeps == SyncInv /\ [SyncNext]_syncVars => SyncInv'
<1> SUFFICES ASSUME SyncInv, [SyncNext]_syncVars PROVE SyncInv'
  OBVIOUS
<1>1. ASSUME NEW s \in Sites, NEW r \in Rows, Edit(s, r) \/ SetStatus(s, r) PROVE SyncInv'
  BY <1>1, EditKeeps
<1>2. ASSUME NEW s \in Sites, NEW i \in DOMAIN log[s], CommitEdit(s, i) \/ AbortEdit(s, i) PROVE SyncInv'
  BY <1>2, CommitKeeps, AbortKeeps
<1>3. ASSUME NEW d \in Devices, Link(d) \/ Unlink(d) PROVE SyncInv'
  BY <1>3, LinkKeeps
<1>4. ASSUME NEW w \in Runners, Step(w) PROVE SyncInv'
  BY <1>4, LoadKeeps, ReadKeeps, PushKeeps, SavePushedKeeps, PullKeeps, ApplyPulledKeeps, SavePulledKeeps DEF Step
<1>5. ASSUME NEW w \in Runners, StopRound(w) PROVE SyncInv'
  BY <1>5, StopKeeps
<1>6. CASE UNCHANGED syncVars
  <2>1. /\ clock' = clock /\ born' = born /\ table' = table /\ log' = log /\ links' = links /\ round' = round
        /\ lost' = lost /\ seen' = seen /\ apart' = apart
    BY <1>6 DEF syncVars
  <2>2. \A d \in Devices : links'[d].gen >= links[d].gen /\ LinkFits(d, links'[d])
    BY <2>1, SyncAssumption DEF SyncInv, SyncTypeOK, LinksSound
  <2>3. links' \in [Devices -> LinkRow]
    BY <2>1 DEF SyncInv, SyncTypeOK, LinkRow
  <2> QED BY <2>1, <2>2, <2>3, LinkStep
<1> QED BY <1>1, <1>2, <1>3, <1>4, <1>5, <1>6 DEF SyncNext

\* The inductive invariant of the synchronisation: every cursor has behind it only
\* what the other site has taken in, or what went apart (datasync.go, Push and Pull;
\* client.go, round).
THEOREM SyncInvHolds == SyncSpec => []SyncInv
<1>1. SyncInit => SyncInv
  BY SyncInitKeeps
<1>2. SyncInv /\ [SyncNext]_syncVars => SyncInv'
  BY SyncNextKeeps
<1> QED BY <1>1, <1>2, PTL DEF SyncSpec

LEMMA EchoNever == SyncInv => NoEcho
<1> SUFFICES ASSUME SyncInv PROVE NoEcho
  OBVIOUS
<1>1. ASSUME NEW d \in Devices, NEW i \in DOMAIN log[d] PROVE log[d][i].by = d
  <2>1. i \in 1 .. Len(log[d])
    BY LogIs, SitesAre DEF SyncInv
  <2> QED BY <2>1 DEF SyncInv, AuthorsSound
<1>2. ASSUME NEW w \in Runners, NEW i \in DOMAIN round[w].batch, round[w].pc = "apply",
             round[w].batch[i].by = InstallOf[w]
      PROVE  links[InstallOf[w]].gen > 1
  <2>1. PICK d \in Devices : d = InstallOf[w]
    BY SitesAre
  <2>2. PICK y : y = round[w]
    OBVIOUS
  <2>3. /\ y.batch \in Seq(Change) /\ RoundFits(d, y) /\ y.gen \in Nat /\ d # Server
    BY <1>2, <2>1, <2>2, RoundIs, SitesAre
  <2>4. i \in 1 .. Len(y.batch)
    BY <2>2, <2>3, LenProperties
  <2>5. PICK j \in 1 .. Len(log[Server]) : log[Server][j] = y.batch[i]
    BY <1>2, <2>2, <2>3, <2>4 DEF RoundFits, BatchSound, BatchFits
  <2>6. log[Server][j].by = d /\ log[Server][j].origin # <<d, y.gen>>
    BY <1>2, <2>1, <2>2, <2>3, <2>4, <2>5 DEF RoundFits
  <2>7. PICK g \in 1 .. links[d].gen : log[Server][j].origin = <<d, g>>
    BY <2>3, <2>6 DEF SyncInv, AuthorsSound
  <2>8. g # y.gen /\ y.gen \in 1 .. links[d].gen
    BY <2>3, <2>6, <2>7 DEF RoundFits
  <2>9. links[d].gen \in Nat
    BY SyncAssumption DEF SyncInv, SyncTypeOK
  <2> QED BY <2>1, <2>8, <2>9
<1> QED BY <1>1, <1>2 DEF NoEcho

LEMMA CaughtUpAgree == SyncInv => AlikeUnlessApart
<1> SUFFICES ASSUME SyncInv, NEW d \in Devices, CaughtUp(d), NEW r \in Rows \ apart
             PROVE  table[d][r] = table[Server][r]
  BY DEF AlikeUnlessApart
<1>1. /\ SyncTypeOK /\ d \in Sites /\ Server \in Sites /\ Len(log[d]) \in Nat /\ Len(log[Server]) \in Nat
      /\ DOMAIN log[d] = 1 .. Len(log[d]) /\ DOMAIN log[Server] = 1 .. Len(log[Server])
  BY SitesAre, LogIs DEF SyncInv
<1>2. /\ LinkFits(d, links[d]) /\ links[d].pushed \in Nat /\ links[d].pulled \in Nat
  BY <1>1 DEF SyncInv, LinksSound, SyncTypeOK
<1>3. /\ table[d][r] \in Nat /\ (table[d][r] > 0 => r \in seen[d]) /\ (r \in seen[d] => Logged(d, r))
      /\ table[Server][r] \in Nat /\ (table[Server][r] > 0 => r \in seen[Server])
      /\ r \in seen[Server] => Logged(Server, r)
  BY <1>1, TableTimes
<1>4. ASSUME NEW i \in 1 .. Len(log[d]), log[d][i].state = "done"
      PROVE  TakenIn(table[Server], seen[Server], apart, log[d][i])
  <2>1. log[d][i].origin = <<>>
    BY DEF SyncInv, AuthorsSound
  <2>2. i <= links[d].pushed
    BY <1>1, <1>2, <1>4, <2>1 DEF CaughtUp, Own, After
  <2> QED BY <1>2, <1>4, <2>2 DEF LinkFits, Covers, CoveredBy
<1>5. ASSUME NEW i \in 1 .. Len(log[Server]), log[Server][i].state = "done"
      PROVE  /\ TakenIn(table[d], seen[d], apart, log[Server][i])
             /\ TakenIn(table[Server], seen[Server], apart, log[Server][i])
  <2>1. i <= links[d].pulled
    BY <1>1, <1>2, <1>5 DEF CaughtUp, After
  <2>2. TakenIn(table[d], seen[d], apart, log[Server][i])
    BY <1>2, <1>5, <2>1 DEF LinkFits, Covers, CoveredBy
  <2>3. TakenIn(table[Server], seen[Server], apart, log[Server][i])
    BY <1>1, <1>5 DEF SyncInv, LogsSettled, Settled
  <2> QED BY <2>2, <2>3
<1>6. ASSUME r \in seen[d]
      PROVE  r \in seen[Server] /\ (table[Server][r] = 0 \/ (table[d][r] > 0 /\ table[Server][r] >= table[d][r]))
  <2>1. PICK x \in {d, Server} : \E i \in 1 .. Len(log[x]) :
           log[x][i].state = "done" /\ log[x][i].row = r /\ log[x][i].at = table[d][r]
    BY <1>3, <1>6 DEF Logged
  <2>2. PICK i \in 1 .. Len(log[x]) : log[x][i].state = "done" /\ log[x][i].row = r /\ log[x][i].at = table[d][r]
    BY <2>1
  <2>3. TakenIn(table[Server], seen[Server], apart, log[x][i])
    BY <1>4, <1>5, <2>2
  <2> QED BY <2>2, <2>3 DEF TakenIn
<1>7. ASSUME r \in seen[Server]
      PROVE  r \in seen[d] /\ (table[d][r] = 0 \/ (table[Server][r] > 0 /\ table[d][r] >= table[Server][r]))
  <2>1. PICK i \in 1 .. Len(log[Server]) :
           log[Server][i].state = "done" /\ log[Server][i].row = r /\ log[Server][i].at = table[Server][r]
    BY <1>3, <1>7 DEF Logged
  <2>2. TakenIn(table[d], seen[d], apart, log[Server][i])
    BY <1>5, <2>1
  <2> QED BY <2>1, <2>2 DEF TakenIn
<1> QED BY <1>3, <1>6, <1>7

\* Installs that have caught up hold the same rows unless these went apart, no write
\* goes back to where it was made, and none is logged twice (datasync.go, applyIn and
\* Pull; migration 0062, sync_capture).
THEOREM InstallsAgreeHolds == SyncSpec => []InstallsAgree
<1>1. SyncInv => InstallsAgree
  BY EchoNever, CaughtUpAgree DEF SyncInv, InstallsAgree, NothingTwice
<1> QED BY <1>1, SyncInvHolds, PTL

LEMMA RoundMoves ==
    ASSUME SyncInv, SyncNext, NEW w \in Runners
    PROVE  /\ round[w].pc = "sent" /\ round'[w].pc = "push" => round'[w].pushed > round[w].pushed
           /\ round[w].pc = "applied" /\ round'[w].pc = "pull" => round'[w].pulled > round[w].pulled
<1>1. /\ round \in [Runners -> Round]
      /\ round[w].pc # "idle" => RoundFits(InstallOf[w], round[w])
  BY RoundIs DEF SyncInv, SyncTypeOK
<1>2. PICK y : y = round[w]
  OBVIOUS
<1>3. y \in Round /\ (y.pc # "idle" => RoundFits(InstallOf[w], y))
  BY <1>1, <1>2
<1>4. CASE round' = round
  BY <1>4
<1>5. ASSUME NEW v \in Runners, v # w, Step(v) \/ StopRound(v) PROVE round'[w] = round[w]
  <2>1. \E x : round' = [round EXCEPT ![v] = x]
    BY <1>5 DEF Step, StopRound, LoadLink, ReadLog, Push, SavePushed, Pull, ApplyPulled, SavePulled, Proceeds
  <2> QED BY <1>1, <1>5, <2>1
<1>6. CASE StopRound(w)
  <2>1. round'[w] = Quiet
    BY <1>1, <1>6 DEF StopRound, Proceeds
  <2> QED BY <2>1 DEF Quiet
<1>7. CASE LoadLink(w) \/ ReadLog(w) \/ Push(w) \/ Pull(w) \/ ApplyPulled(w)
  <2>1. y.pc \in {"idle", "push", "send", "pull", "apply"}
    BY <1>2, <1>7 DEF LoadLink, ReadLog, Push, Pull, ApplyPulled
  <2> QED BY <1>2, <2>1
<1>8. CASE SavePushed(w)
  <2>1. PICK x : x = [y EXCEPT !.pc = "push", !.pushed = y.top, !.batch = <<>>, !.top = 0]
    OBVIOUS
  <2>2. y.pc = "sent" /\ round'[w] = x
    BY <1>1, <1>2, <1>8, <2>1 DEF SavePushed, Proceeds
  <2>3. x.pushed = y.top /\ y.top > y.pushed
    BY <1>3, <2>1, <2>2 DEF Round, RoundFits
  <2> QED BY <1>2, <2>2, <2>3
<1>9. CASE SavePulled(w)
  <2>1. PICK x : x = [y EXCEPT !.pc = "pull", !.pulled = y.top, !.batch = <<>>, !.top = 0, !.more = FALSE]
    OBVIOUS
  <2>2. y.pc = "applied" /\ round'[w] = IF y.more THEN x ELSE Quiet
    BY <1>1, <1>2, <1>9, <2>1 DEF SavePulled, Proceeds
  <2>3. CASE y.more
    <3>1. x.pulled = y.top /\ y.top > y.pulled
      BY <1>3, <2>1, <2>2, <2>3 DEF Round, RoundFits
    <3> QED BY <1>2, <2>2, <2>3, <3>1
  <2>4. CASE ~y.more
    BY <1>2, <2>2, <2>4 DEF Quiet
  <2> QED BY <2>3, <2>4
<1>10. \/ round' = round
       \/ \E v \in Runners : Step(v) \/ StopRound(v)
  BY DEF SyncNext, Edit, SetStatus, CommitEdit, AbortEdit, Link, Unlink
<1> QED BY <1>4, <1>5, <1>6, <1>7, <1>8, <1>9, <1>10 DEF Step

\* Every page of a round lies beyond the one before, so that it comes to an end
\* (client.go, round; datasync.go, Pull).
THEOREM RoundAdvancesHolds == SyncSpec => RoundAdvances
<1>1. SyncInv /\ [SyncNext]_syncVars =>
         [\A w \in Runners :
             /\ round[w].pc = "sent" /\ round'[w].pc = "push" => round'[w].pushed > round[w].pushed
             /\ round[w].pc = "applied" /\ round'[w].pc = "pull" => round'[w].pulled > round[w].pulled]_syncVars
  BY RoundMoves
<1> QED BY <1>1, SyncInvHolds, PTL DEF SyncSpec, RoundAdvances
=============================================================================
