------------------------------ MODULE Purchases ------------------------------
(***************************************************************************)
(* Supplier documents: internal/modules/purchases, with what finalising    *)
(* and cancelling one does to the stock and its average cost               *)
(* (inventory), to the payable (accounting) and to the selling price       *)
(* (pricerules).                                                           *)
(*                                                                         *)
(* Every request is one transaction.  It reads the document without a      *)
(* lock; its stock movements lock the warehouse's balance row until the    *)
(* commit, if there is one: who finds none locks nothing, and inserts or   *)
(* writes over a row that came up since.  The status is written by id,     *)
(* whatever it is by then.                                                 *)
(*                                                                         *)
(* Abstractions: one product in its base unit; the tax is not split off    *)
(* the amount; cost lots and single movements are in StockLedger.          *)
(***************************************************************************)
EXTENDS Integers, Sequences, FiniteSetsExt, Sums

CONSTANTS
    Papers,         \* purchase documents
    Warehouses,
    Buyers,         \* requests
    Types,          \* document types in use
    Amounts,        \* quantities of a line
    UnitCosts,      \* prices of a line
    MaxPaperLines,  \* bound
    MaxSold,        \* bound: quantity sold from each warehouse
    Nobody

ASSUME PurchasesAssumption ==
    /\ Types \subseteq {"PURCHASE_ORDER", "GOODS_RECEIPT", "PURCHASE_INVOICE", "PURCHASE_RETURN", "DEBIT_NOTE"}
    /\ Amounts \subseteq Nat \ {0} /\ UnitCosts \subseteq Nat \ {0}
    /\ MaxPaperLines \in Nat /\ MaxSold \in Nat
    /\ IsFiniteSet(Papers) /\ IsFiniteSet(UnitCosts) /\ UnitCosts # {}
    /\ Nobody \notin Papers \cup Buyers

VARIABLES
    paper,      \* purchase_documents with their lines
    counter,    \* purchase_document_counters: the next number of a type
    stock,      \* stock_balances of a warehouse: quantity, average cost
    sold,       \* history: what was sold from a warehouse
    negative,   \* the policy allows negative stock
    payable,    \* balance of accounts payable
    journal,    \* the amount of the latest journal of a document
    rule,       \* purchase_price_rules: enabled, mode
    price,      \* the default list's price of the product; 0: none
    buyer,      \* what each request has read
    held,       \* who holds a warehouse's balance row
    shelved,    \* warehouses that have a balance row
    unseen,     \* requests that found none to lock
    blotted,    \* history: warehouses whose balance was written over from nothing
    met,        \* history: documents two requests worked on at once
    abreast     \* history: two warehouses were locked at once

purchaseVars == <<paper, counter, stock, sold, negative, payable, journal, rule, price, buyer, held,
                 shelved, unseen, blotted, met, abreast>>

shelfVars == <<shelved, unseen, blotted>>

PaperStatuses == {"NONE", "DRAFT", "FINALIZED", "CANCELLED"}
NoPaper == [type |-> "PURCHASE_ORDER", wh |-> CHOOSE w \in Warehouses : TRUE, ref |-> FALSE,
            status |-> "NONE", number |-> 0, lines |-> <<>>]
NoShelf == [qty |-> 0, avg |-> <<0, 1>>]
Off == [op |-> "none", doc |-> Nobody, lines |-> <<>>, price |-> 0]

PaperLine == [qty : Amounts, cost : UnitCosts]

PurchasesTypeOK ==
    /\ \A d \in Papers : /\ paper[d].status \in PaperStatuses
                         /\ paper[d].lines \in Seq(PaperLine)
                         /\ paper[d].type \in Types \cup {"PURCHASE_ORDER"}
                         /\ paper[d].number < counter[paper[d].type]
    /\ \A w \in Warehouses : stock[w].qty \in Int /\ stock[w].avg[2] \in Nat \ {0}
    /\ \A w \in Warehouses : ~negative => stock[w].qty >= 0
    /\ payable \in Int /\ price \in Nat
    /\ \A c, d \in Papers : c # d /\ paper[c].type = paper[d].type /\ paper[c].status # "NONE"
                              => paper[c].number # paper[d].number

\* A rational in lowest terms.
Ratio(n, d) ==
    LET g == CHOOSE k \in 1..d : /\ n % k = 0 /\ d % k = 0
                                 /\ \A j \in (k + 1)..d : ~(n % j = 0 /\ d % j = 0)
    IN  <<n \div g, d \div g>>

PurchasesInit ==
    /\ paper = [d \in Papers |-> NoPaper]
    /\ counter = [t \in Types \cup {"PURCHASE_ORDER"} |-> 1]
    /\ stock = [w \in Warehouses |-> NoShelf]
    /\ shelved = {} /\ unseen = {} /\ blotted = {}
    /\ sold = [w \in Warehouses |-> 0]
    /\ negative \in BOOLEAN
    /\ payable = 0
    /\ journal = [d \in Papers |-> 0]
    /\ rule \in [on : BOOLEAN, raiseOnly : BOOLEAN]
    /\ price = 0
    /\ buyer = [b \in Buyers |-> Off]
    /\ held = [w \in Warehouses |-> Nobody]
    /\ met = {} /\ abreast = FALSE

-----------------------------------------------------------------------------
(* What a type of document does *)

\* Variant: an invoice for goods already received receives them again.
StockAffectingAlways(p) == p.type \in {"GOODS_RECEIPT", "PURCHASE_RETURN", "PURCHASE_INVOICE"}

StockAffecting(p) ==
    p.type \in {"GOODS_RECEIPT", "PURCHASE_RETURN"} \/ (p.type = "PURCHASE_INVOICE" /\ ~p.ref)
AccountingAffecting(p) == p.type \in {"PURCHASE_INVOICE", "PURCHASE_RETURN", "DEBIT_NOTE"}
ReducesPayable(p) == p.type \in {"PURCHASE_RETURN", "DEBIT_NOTE"}

Total(lines) == SumOver([i \in DOMAIN lines |-> lines[i].qty * lines[i].cost])
Count(lines) == SumOver([i \in DOMAIN lines |-> lines[i].qty])

\* Variant: the average is taken over the receipts alone.
OnReceiptUnweighted(qty, avg, q, c) == Ratio(avg[1] + c * avg[2], 2 * avg[2])

\* WeightedAverageCostingStrategy: nothing in sum gives zero.
OnReceipt(qty, avg, q, c) ==
    IF qty + q = 0 THEN <<0, 1>>
    ELSE LET n == qty * avg[1] + q * c * avg[2]
             d == (qty + q) * avg[2]
         IN  IF d > 0 THEN Ratio(n, d) ELSE Ratio(-n, -d)

Restocked(s, line) == [qty |-> s.qty + line.qty, avg |-> OnReceipt(s.qty, s.avg, line.qty, line.cost)]

\* RecordMovementForOtherModule line by line: receipts move the average.
Receive(lines, s) ==
    LET after[i \in 0..Len(lines)] == IF i = 0 THEN s ELSE Restocked(after[i - 1], lines[i])
    IN  after[Len(lines)]

Issue(lines, s) == [s EXCEPT !.qty = @ - Count(lines)]

\* The receipt or the return of a document's lines.
Moved(s, lines, in) == IF in THEN Receive(lines, s) ELSE Issue(lines, s)

-----------------------------------------------------------------------------
(* Requests *)

\* NextNumber: the counter row is locked to the commit.
CreateDocument(d) ==
    /\ paper[d].status = "NONE"
    /\ \E t \in Types, w \in Warehouses, ref \in BOOLEAN :
         /\ ref => t = "PURCHASE_INVOICE"
         /\ paper' = [paper EXCEPT ![d] = [NoPaper EXCEPT !.type = t, !.wh = w, !.ref = ref,
                                             !.status = "DRAFT", !.number = counter[t]]]
         /\ counter' = [counter EXCEPT ![t] = @ + 1]
    /\ UNCHANGED <<stock, sold, negative, payable, journal, rule, price, buyer, held, met, abreast, shelfVars>>

\* GetByID and ListByDocument, without a lock.
ReadPaper(b, d, op, status) ==
    /\ buyer[b] = Off
    /\ paper[d].status = status
    /\ buyer' = [buyer EXCEPT ![b] = [op |-> op, doc |-> d, lines |-> paper[d].lines, price |-> 0]]
    /\ met' = IF \E o \in Buyers : buyer[o].doc = d THEN met \cup {d} ELSE met
    /\ UNCHANGED <<paper, counter, stock, sold, negative, payable, journal, rule, price, held, abreast, shelfVars>>

BeginLine(b, d) == ReadPaper(b, d, "line", "DRAFT") /\ Len(paper[d].lines) < MaxPaperLines

BeginFinalize(b, d) == ReadPaper(b, d, "finalize", "DRAFT") /\ paper[d].lines # <<>>
BeginCancel(b, d) == ReadPaper(b, d, "cancel", "FINALIZED")

AddLine(b) ==
    /\ buyer[b].op = "line"
    /\ \E q \in Amounts, c \in UnitCosts :
         paper' = [paper EXCEPT ![buyer[b].doc].lines = Append(@, [qty |-> q, cost |-> c])]
    /\ buyer' = [buyer EXCEPT ![b] = Off]
    /\ UNCHANGED <<counter, stock, sold, negative, payable, journal, rule, price, held, met, abreast, shelfVars>>

\* Goods come in when a receipt is finalised, or a return cancelled.
Incoming(b) == (buyer[b].op = "finalize") = (paper[buyer[b].doc].type # "PURCHASE_RETURN")

Locks(b) == {w \in Warehouses : held[w] = b}

\* What b's movements start from.
Base(b) == IF b \in unseen THEN NoShelf ELSE stock[paper[buyer[b].doc].wh]

\* GetForUpdate on a product the warehouse never had: nothing in stock, no lock.
FindNoRow(b) ==
    LET p == paper[buyer[b].doc] IN
    /\ buyer[b].op \in {"finalize", "cancel"} /\ StockAffecting(p) /\ Locks(b) = {}
    /\ p.wh \notin shelved
    /\ unseen' = unseen \cup {b}
    /\ UNCHANGED <<paper, counter, stock, sold, negative, payable, journal, rule, price, buyer, held, shelved, blotted, met, abreast>>

\* The first movement takes the balance row, with GetForUpdate if it found one,
\* else with its Upsert; ApplyPurchase then reads the price that is there, before
\* this transaction has written its own.
MoveStock(b) ==
    LET p == paper[buyer[b].doc] IN
    /\ buyer[b].op \in {"finalize", "cancel"} /\ StockAffecting(p) /\ Locks(b) = {}
    /\ p.wh \in shelved \/ b \in unseen
    /\ held[p.wh] = Nobody
    /\ held' = [held EXCEPT ![p.wh] = b]
    /\ buyer' = [buyer EXCEPT ![b].price = price]
    /\ abreast' = (abreast \/ \E w \in Warehouses : held[w] # Nobody)
    /\ UNCHANGED <<paper, counter, stock, sold, negative, payable, journal, rule, price, met, shelfVars>>

\* Variant: without the rule's mode.
PriceAfterAlways(b) == buyer[b].lines[Len(buyer[b].lines)].cost * 2

\* ApplyPurchase: cost plus markup (100 percent here), line by line; in the mode
\* RAISE_ONLY a line only counts if it is above the price that was read.
PriceAfter(b) ==
    LET costs == {buyer[b].lines[i].cost * 2 : i \in DOMAIN buyer[b].lines} IN
    IF rule.raiseOnly
    THEN IF Max(costs) > buyer[b].price THEN Max(costs) ELSE price
    ELSE buyer[b].lines[Len(buyer[b].lines)].cost * 2

\* Variant: a cancelled document keeps its journal.
BookKept(p, b) == IF buyer[b].op = "cancel" THEN 0 ELSE Total(buyer[b].lines)

\* The document's journal, swapped for what reduces the payable; cancelling
\* swaps the latest journal of the document (ReverseJournalForSourceTx).
Book(p, b) ==
    IF ~AccountingAffecting(p) THEN 0
    ELSE IF buyer[b].op = "cancel" THEN -journal[buyer[b].doc]
    ELSE IF ReducesPayable(p) THEN -Total(buyer[b].lines) ELSE Total(buyer[b].lines)

\* The rest of FinalizeDocument and CancelDocument, and the commit.
CommitDocument(b) ==
    LET d == buyer[b].doc  p == paper[d]  moves == StockAffecting(p)
        after == Moved(Base(b), buyer[b].lines, Incoming(b))
    IN
    /\ buyer[b].op \in {"finalize", "cancel"}
    /\ moves => Locks(b) # {}
    /\ moves /\ ~Incoming(b) => negative \/ after.qty >= 0
    /\ stock' = IF moves THEN [stock EXCEPT ![p.wh] = after] ELSE stock
    /\ shelved' = IF moves THEN shelved \cup {p.wh} ELSE shelved
    /\ blotted' = IF moves /\ Base(b) # stock[p.wh] THEN blotted \cup {p.wh} ELSE blotted
    /\ unseen' = unseen \ {b}
    /\ price' = IF moves /\ rule.on /\ buyer[b].op = "finalize" /\ Incoming(b) THEN PriceAfter(b) ELSE price
    /\ payable' = payable + Book(p, b)
    /\ journal' = IF buyer[b].op = "finalize" THEN [journal EXCEPT ![d] = Book(p, b)] ELSE journal
    /\ paper' = [paper EXCEPT ![d].status = IF buyer[b].op = "finalize" THEN "FINALIZED" ELSE "CANCELLED"]
    /\ buyer' = [buyer EXCEPT ![b] = Off]
    /\ held' = [w \in Warehouses |-> IF held[w] = b THEN Nobody ELSE held[w]]
    /\ UNCHANGED <<counter, sold, negative, rule, met, abreast>>

\* Refused (too little stock to send back), or the connection is lost.
AbortDocument(b) ==
    /\ buyer[b] # Off
    /\ buyer' = [buyer EXCEPT ![b] = Off]
    /\ held' = [w \in Warehouses |-> IF held[w] = b THEN Nobody ELSE held[w]]
    /\ unseen' = unseen \ {b}
    /\ UNCHANGED <<paper, counter, stock, sold, negative, payable, journal, rule, price, shelved, blotted, met, abreast>>

\* Sales take goods out at the average cost; a sale, too, may have looked before
\* there was a row.
Sell(w) ==
    /\ held[w] = Nobody
    /\ sold[w] < MaxSold
    /\ \E base \in {stock[w], NoShelf} :
         /\ negative \/ base.qty > 0
         /\ stock' = [stock EXCEPT ![w] = [base EXCEPT !.qty = @ - 1]]
         /\ blotted' = IF base # stock[w] THEN blotted \cup {w} ELSE blotted
    /\ shelved' = shelved \cup {w}
    /\ sold' = [sold EXCEPT ![w] = @ + 1]
    /\ UNCHANGED <<paper, counter, negative, payable, journal, rule, price, buyer, held, unseen, met, abreast>>

PurchasesNext ==
    \/ \E d \in Papers : CreateDocument(d)
    \/ \E b \in Buyers :
         \/ \E d \in Papers : BeginLine(b, d) \/ BeginFinalize(b, d) \/ BeginCancel(b, d)
         \/ AddLine(b) \/ FindNoRow(b) \/ MoveStock(b) \/ CommitDocument(b) \/ AbortDocument(b)
    \/ \E w \in Warehouses : Sell(w)

PurchasesSpec == PurchasesInit /\ [][PurchasesNext]_purchaseVars
-----------------------------------------------------------------------------
(* Properties *)

Stands(p) == p.status = "FINALIZED"

\* What a document that stands put on the shelf of w.
OnShelf(p, w) ==
    IF Stands(p) /\ p.wh = w /\ p.type \notin {"DEBIT_NOTE", "PURCHASE_ORDER"} /\ ~p.ref
    THEN IF p.type = "PURCHASE_RETURN" THEN -Count(p.lines) ELSE Count(p.lines)
    ELSE 0

Received(w) == SumOver([d \in Papers |-> OnShelf(paper[d], w)])

\* What a document that stands added to the payable.
Owed(p) ==
    IF Stands(p) /\ AccountingAffecting(p)
    THEN IF ReducesPayable(p) THEN -Total(p.lines) ELSE Total(p.lines)
    ELSE 0

\* The shelf holds what stands received less what was sold, and a cancelled
\* document leaves nothing behind, unless two requests worked on one document at
\* once (the status is read without a lock, purchases/app/service.go:405) or the
\* warehouse's first movements crossed, and the last wrote over the others
\* (inventory/pg/pg.go:112-145).
StockFollowsPurchases ==
    met = {} => \A w \in Warehouses \ blotted : stock[w].qty = Received(w) - sold[w]

\* The payable is what the standing invoices ask less what returns and debit
\* notes give back, with the same exception.
PayableFollowsPurchases ==
    met = {} => payable = SumOver([d \in Papers |-> Owed(paper[d])])

\* The average cost lies between the cheapest and the dearest purchase, whatever
\* the order of receipts, sales, returns and cancellations, as long as the
\* stock may not go below zero (costing.go:25).
AverageWithinCosts ==
    ~negative => \A w \in Warehouses : stock[w].qty > 0 =>
        /\ stock[w].avg[1] >= Min(UnitCosts) * stock[w].avg[2]
        /\ stock[w].avg[1] <= Max(UnitCosts) * stock[w].avg[2]

\* In the mode RAISE_ONLY a purchase never lowers the selling price, as long as
\* no two purchases of the product were finalised at once in two warehouses (the
\* warehouse's row lock is all that keeps them apart, pricerules.go:121).
RaiseOnlyRaises ==
    [][rule.raiseOnly /\ ~abreast => price' >= price]_purchaseVars

\* The shelf, its cost and the payable all follow the standing documents.
LedgersFollowPurchases ==
    PurchasesTypeOK /\ StockFollowsPurchases /\ PayableFollowsPurchases /\ AverageWithinCosts
=============================================================================
