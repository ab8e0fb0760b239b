--------------------------------- MODULE Shop ---------------------------------
(***************************************************************************)
(* The web shop: internal/modules/shop.  A visitor's cart becomes a draft  *)
(* sales order and a shop order, the team moves the order along and makes  *)
(* an invoice of it.  PlaceOrder and CreateInvoice are runs of several     *)
(* transactions; SetOrderStatus is one guarded update.  The sales order is *)
(* an ordinary document of the sales module as well, where the team may    *)
(* edit, finalise, convert or cancel it as any other (SalesDocuments).     *)
(*                                                                         *)
(* Abstractions: one shop in one currency; an order is named by the        *)
(* visitor who places it, a quantity is 1 per entry of the cart; what      *)
(* finalising the invoice does is in SalesDocuments.  A request of the     *)
(* sales module reads the document's status without a lock and is one step *)
(* here, its write: whatever came after its read may have changed it.      *)
(***************************************************************************)
EXTENDS Sums, Sequences

CONSTANTS
    Visitors,      \* visitors, each with one cart
    Clerks,        \* CreateInvoice requests
    Products,
    Emails,
    Prices,
    MaxCart,       \* bound: entries of a cart
    MaxEdits,      \* bound: changes of the price list, the shop and the sales orders
    MaxFailures    \* bound: transactions that fail

ASSUME ShopAssumption ==
    Visitors # {} /\ Emails # {} /\ Prices \subseteq Nat \ {0} /\ MaxCart \in Nat

VARIABLES
    enabled,    \* shop_settings.enabled
    published,  \* shop_products.published
    priceOf,    \* price_list_items of the shop's list; 0: none
    parties,    \* active customers: how many with an email
    visitor,    \* PlaceOrder of each visitor
    salesOrder, \* the sales order document of a visitor's order
    order,      \* shop_orders
    made,       \* history: invoices converted from an order
    clerk,      \* CreateInvoice of each clerk
    shared,     \* history: orders on which the staff's requests overlapped
    together,   \* history: emails that two visitors used at once
    edited,     \* history: orders whose document was edited in the sales module
    billed,     \* history: orders whose document was converted there
    edits, failures

shopVars == <<enabled, published, priceOf, parties, visitor, salesOrder, order, made, clerk, shared, together,
              edited, billed, edits, failures>>

OrderStatuses == {"NEW", "CONFIRMED", "PROCESSING", "DISPATCHED", "DELIVERED", "CANCELLED"}

NoVisit == [at |-> "away", email |-> CHOOSE e \in Emails : TRUE, lines |-> {}, added |-> {}, known |-> FALSE]
NoClerk == [at |-> "idle", doc |-> "none", order |-> CHOOSE v \in Visitors : TRUE]

\* A line of an order: the entries of one product merged, at the price read.
Line == [product : Products, qty : 1..MaxCart, price : Prices]

ShopTypeOK ==
    /\ \A p \in Products : priceOf[p] \in Prices \cup {0}
    /\ \A v \in Visitors :
         /\ visitor[v].at \in {"away", "customer", "party", "document", "lines", "order", "done"}
         /\ visitor[v].lines \subseteq Line /\ visitor[v].added \subseteq visitor[v].lines
         /\ salesOrder[v] \in [status : {"none", "DRAFT", "FINALIZED", "CANCELLED"}, lines : SUBSET Line]
         /\ order[v].status \in OrderStatuses \cup {"none"} /\ order[v].total \in Nat
         /\ order[v].invoice \in 0..made[v]
         /\ order[v].status \in {"none", "NEW"} => made[v] = 0 \/ v \in billed
    /\ \A c \in Clerks : clerk[c].at \in {"idle", "finalize", "convert", "remember"}

ShopInit ==
    /\ enabled = TRUE
    /\ published = Products
    /\ priceOf \in [Products -> Prices]
    /\ parties = [e \in Emails |-> 0]
    /\ visitor = [v \in Visitors |-> NoVisit]
    /\ salesOrder = [v \in Visitors |-> [status |-> "none", lines |-> {}]]
    /\ order = [v \in Visitors |-> [status |-> "none", total |-> 0, invoice |-> 0]]
    /\ made = [v \in Visitors |-> 0]
    /\ clerk = [c \in Clerks |-> NoClerk]
    /\ shared = {} /\ together = {} /\ edited = {} /\ billed = {} /\ edits = 0 /\ failures = 0

-----------------------------------------------------------------------------
(* The shop's settings *)

SalesUnchanged == UNCHANGED <<edited, billed>>
OfficeUnchanged ==
    UNCHANGED <<parties, visitor, salesOrder, order, made, clerk, shared, together, failures>> /\ SalesUnchanged

SaveSettings ==
    /\ edits < MaxEdits /\ edits' = edits + 1
    /\ enabled' = ~enabled
    /\ UNCHANGED <<published, priceOf>> /\ OfficeUnchanged

SetPublished(p) ==
    /\ edits < MaxEdits /\ edits' = edits + 1
    /\ published' = IF p \in published THEN published \ {p} ELSE published \cup {p}
    /\ UNCHANGED <<enabled, priceOf>> /\ OfficeUnchanged

\* SetPriceListItem of the pricing module.
SetPrice(p, x) ==
    /\ edits < MaxEdits /\ edits' = edits + 1
    /\ x # priceOf[p] /\ priceOf' = [priceOf EXCEPT ![p] = x]
    /\ UNCHANGED <<enabled, published>> /\ OfficeUnchanged

-----------------------------------------------------------------------------
(* PlaceOrder *)

ShopUnchanged == UNCHANGED <<enabled, published, priceOf, edits>> /\ SalesUnchanged

\* resolve and the first transaction: entries of one product are merged, prices
\* come from the list, and a product that is not on offer refuses the cart.
ReadCart(v) ==
    /\ visitor[v].at = "away" /\ enabled
    /\ \E cart \in UNION {[1..n -> Products] : n \in 1..MaxCart}, e \in Emails :
         LET wanted == {cart[i] : i \in DOMAIN cart} IN
         /\ wanted \subseteq {p \in published : priceOf[p] # 0}
         /\ visitor' = [visitor EXCEPT ![v] =
              [NoVisit EXCEPT !.at = "customer", !.email = e,
                 !.lines = {[product |-> p, qty |-> Cardinality({i \in DOMAIN cart : cart[i] = p}), price |-> priceOf[p]] : p \in wanted}]]
         /\ together' = IF \E u \in Visitors \ {v} : visitor[u].at \in {"customer", "party"} /\ visitor[u].email = e
                        THEN together \cup {e} ELSE together
    /\ ShopUnchanged /\ UNCHANGED <<parties, salesOrder, order, made, clerk, shared, failures>>

FindCustomer(v) ==
    /\ visitor[v].at = "customer"
    /\ visitor' = [visitor EXCEPT ![v] = [@ EXCEPT !.at = "party", !.known = parties[visitor[v].email] > 0]]
    /\ ShopUnchanged /\ UNCHANGED <<parties, salesOrder, order, made, clerk, shared, together, failures>>

\* CreateParty, when nobody was found.
CreateCustomer(v) ==
    /\ visitor[v].at = "party"
    /\ parties' = IF visitor[v].known THEN parties ELSE [parties EXCEPT ![visitor[v].email] = @ + 1]
    /\ visitor' = [visitor EXCEPT ![v].at = "document"]
    /\ ShopUnchanged /\ UNCHANGED <<salesOrder, order, made, clerk, shared, together, failures>>

CreateSalesOrder(v) ==
    /\ visitor[v].at = "document"
    /\ salesOrder' = [salesOrder EXCEPT ![v] = [status |-> "DRAFT", lines |-> {}]]
    /\ visitor' = [visitor EXCEPT ![v].at = "lines"]
    /\ ShopUnchanged /\ UNCHANGED <<parties, order, made, clerk, shared, together, failures>>

\* One AddLine per product, in the order of a Go map: any.  A document that is not a
\* draft any more refuses it, unless the line's request had read it before.
AddOrderLine(v) ==
    LET left == visitor[v].lines \ visitor[v].added IN
    /\ visitor[v].at = "lines"
    /\ \E l \in left :
         /\ salesOrder' = [salesOrder EXCEPT ![v].lines = @ \cup {l}]
         /\ visitor' = [visitor EXCEPT ![v] = [@ EXCEPT !.added = visitor[v].added \cup {l},
                                                        !.at = IF left = {l} THEN "order" ELSE "lines"]]
    /\ ShopUnchanged /\ UNCHANGED <<parties, order, made, clerk, shared, together, failures>>

\* Variant: the total counts every product once.
TotalOnce(lines) == SumOver([l \in lines |-> l.price])

TotalOf(lines) == SumOver([l \in lines |-> l.price * l.qty])

LineIsRefused(v) ==
    /\ visitor[v].at = "lines" /\ salesOrder[v].status # "DRAFT"
    /\ visitor' = [visitor EXCEPT ![v].at = "done"]
    /\ ShopUnchanged /\ UNCHANGED <<parties, salesOrder, order, made, clerk, shared, together, failures>>

InsertOrder(v) ==
    /\ visitor[v].at = "order"
    /\ order' = [order EXCEPT ![v] = [status |-> "NEW", total |-> TotalOf(visitor[v].lines), invoice |-> 0]]
    /\ visitor' = [visitor EXCEPT ![v].at = "done"]
    /\ ShopUnchanged /\ UNCHANGED <<parties, salesOrder, made, clerk, shared, together, failures>>

\* A step fails: what earlier ones committed stays, and there is no order.
PlaceOrderFails(v) ==
    /\ visitor[v].at \notin {"away", "done"}
    /\ failures < MaxFailures /\ failures' = failures + 1
    /\ visitor' = [visitor EXCEPT ![v].at = "done"]
    /\ ShopUnchanged /\ UNCHANGED <<parties, salesOrder, order, made, clerk, shared, together>>

-----------------------------------------------------------------------------
(* The team *)

\* orderNext read backwards: the statuses an order may come from.
OrdersMovingTo(status) ==
    CASE status = "CONFIRMED"  -> {"NEW"}
      [] status = "PROCESSING" -> {"CONFIRMED"}
      [] status = "DISPATCHED" -> {"PROCESSING"}
      [] status = "DELIVERED"  -> {"DISPATCHED"}
      [] status = "CANCELLED"  -> {"NEW", "CONFIRMED", "PROCESSING"}

InWork(v) == \E c \in Clerks : clerk[c].at # "idle" /\ clerk[c].order = v

\* Variant: an invoiced order is cancelled too.
SetStatusFreely(v, status) ==
    /\ order[v].status \in OrdersMovingTo(status)
    /\ order' = [order EXCEPT ![v].status = status]
    /\ shared' = IF InWork(v) THEN shared \cup {v} ELSE shared
    /\ ShopUnchanged /\ UNCHANGED <<parties, visitor, salesOrder, made, clerk, together, failures>>

\* "An order that already has an invoice is cancelled by cancelling the invoice."
SetOrderStatus(v, status) ==
    /\ order[v].status \in OrdersMovingTo(status)
    /\ status # "CANCELLED" \/ order[v].invoice = 0
    /\ order' = [order EXCEPT ![v].status = status]
    /\ shared' = IF InWork(v) THEN shared \cup {v} ELSE shared
    /\ ShopUnchanged /\ UNCHANGED <<parties, visitor, salesOrder, made, clerk, together, failures>>

\* Variant: what was read does not stop a second invoice.
ReadOrderOnly(c, v) ==
    /\ clerk[c].at = "idle" /\ order[v].status \notin {"none", "NEW", "CANCELLED"}
    /\ clerk' = [clerk EXCEPT ![c] = [at |-> "finalize", doc |-> salesOrder[v].status, order |-> v]]
    /\ shared' = IF InWork(v) THEN shared \cup {v} ELSE shared
    /\ ShopUnchanged /\ UNCHANGED <<parties, visitor, salesOrder, order, made, together, failures>>

\* The order, then its sales order, are read; an order that names an invoice
\* answers with it, and a new or a cancelled one is refused.
ReadOrder(c, v) ==
    /\ clerk[c].at = "idle" /\ order[v].status \notin {"none", "NEW", "CANCELLED"} /\ order[v].invoice = 0
    /\ clerk' = [clerk EXCEPT ![c] = [at |-> "finalize", doc |-> salesOrder[v].status, order |-> v]]
    /\ shared' = IF InWork(v) THEN shared \cup {v} ELSE shared
    /\ ShopUnchanged /\ UNCHANGED <<parties, visitor, salesOrder, order, made, together, failures>>

\* A draft that was read is finalised; FinalizeDocument reads it once more, and refuses
\* one that has no lines or that is not a draft any more, if it sees it.
FinalizeSalesOrder(c) ==
    LET v == clerk[c].order
        draft == clerk[c].doc = "DRAFT" IN
    /\ clerk[c].at = "finalize"
    /\ \/ /\ draft /\ (salesOrder[v].status # "DRAFT" \/ salesOrder[v].lines = {})
          /\ clerk' = [clerk EXCEPT ![c] = NoClerk] /\ UNCHANGED salesOrder
       \/ /\ draft => salesOrder[v].lines # {}
          /\ clerk' = [clerk EXCEPT ![c].at = "convert"]
          /\ salesOrder' = IF draft THEN [salesOrder EXCEPT ![v].status = "FINALIZED"] ELSE salesOrder
    /\ ShopUnchanged /\ UNCHANGED <<parties, visitor, order, made, shared, together, failures>>

\* ConvertDocument asks for a finalised document; one that was cancelled after the
\* request had read it is converted nevertheless.
ConvertToInvoice(c) ==
    LET v == clerk[c].order IN
    /\ clerk[c].at = "convert"
    /\ \/ /\ salesOrder[v].status = "FINALIZED" \/ clerk[c].doc # "CANCELLED"
          /\ made' = [made EXCEPT ![v] = @ + 1]
          /\ clerk' = [clerk EXCEPT ![c] = [@ EXCEPT !.at = "remember", !.doc = made[v] + 1]]
       \/ /\ salesOrder[v].status # "FINALIZED"
          /\ clerk' = [clerk EXCEPT ![c] = NoClerk] /\ UNCHANGED made
    /\ ShopUnchanged /\ UNCHANGED <<parties, visitor, salesOrder, order, shared, together, failures>>

\* The invoice is written only where there is none, and the answer is its own
\* invoice either way.
RememberInvoice(c) ==
    LET v == clerk[c].order IN
    /\ clerk[c].at = "remember"
    /\ order' = [order EXCEPT ![v].invoice = IF @ = 0 THEN clerk[c].doc ELSE @]
    /\ clerk' = [clerk EXCEPT ![c] = NoClerk]
    /\ ShopUnchanged /\ UNCHANGED <<parties, visitor, salesOrder, made, shared, together, failures>>

\* A step fails after earlier ones committed; the team will try again.
CreateInvoiceFails(c) ==
    /\ clerk[c].at # "idle"
    /\ failures < MaxFailures /\ failures' = failures + 1
    /\ shared' = shared \cup {clerk[c].order}
    /\ clerk' = [clerk EXCEPT ![c] = NoClerk]
    /\ ShopUnchanged /\ UNCHANGED <<parties, visitor, salesOrder, order, made, together>>

-----------------------------------------------------------------------------
(* The team in the sales module *)

SalesOnly == UNCHANGED <<enabled, published, priceOf, parties, visitor, order, clerk, shared, together, failures>>

\* AddLine, UpdateLine, DeleteLine.
EditSalesOrder(v) ==
    /\ salesOrder[v].status # "none"
    /\ edits < MaxEdits /\ edits' = edits + 1
    /\ \E l \in Line : \E rest \in {salesOrder[v].lines} \cup {salesOrder[v].lines \ {k} : k \in salesOrder[v].lines} :
         \E new \in {rest, rest \cup {l}} :
            new # salesOrder[v].lines /\ salesOrder' = [salesOrder EXCEPT ![v].lines = new]
    /\ edited' = edited \cup {v}
    /\ SalesOnly /\ UNCHANGED <<made, billed>>

\* FinalizeDocument; a slow one overtaken by another and its cancellation writes its status over it.
FinalizeInSales(v) ==
    /\ salesOrder[v].status # "none" /\ salesOrder[v].lines # {}
    /\ salesOrder' = [salesOrder EXCEPT ![v].status = "FINALIZED"]
    /\ SalesOnly /\ SalesUnchanged /\ UNCHANGED <<made, edits>>

CancelInSales(v) ==
    /\ salesOrder[v].status = "FINALIZED"
    /\ salesOrder' = [salesOrder EXCEPT ![v].status = "CANCELLED"]
    /\ SalesOnly /\ SalesUnchanged /\ UNCHANGED <<made, edits>>

\* ConvertDocument knows nothing of the shop's order: the invoice is one more.
ConvertInSales(v) ==
    /\ salesOrder[v].status \in {"FINALIZED", "CANCELLED"}
    /\ edits < MaxEdits /\ edits' = edits + 1
    /\ made' = [made EXCEPT ![v] = @ + 1]
    /\ billed' = billed \cup {v}
    /\ SalesOnly /\ UNCHANGED <<salesOrder, edited>>

ShopNext ==
    \/ SaveSettings \/ \E p \in Products : SetPublished(p) \/ \E x \in Prices : SetPrice(p, x)
    \/ \E v \in Visitors :
         \/ ReadCart(v) \/ FindCustomer(v) \/ CreateCustomer(v) \/ CreateSalesOrder(v)
         \/ AddOrderLine(v) \/ LineIsRefused(v) \/ InsertOrder(v) \/ PlaceOrderFails(v)
         \/ EditSalesOrder(v) \/ FinalizeInSales(v) \/ CancelInSales(v) \/ ConvertInSales(v)
         \/ \E status \in OrderStatuses \ {"NEW"} : SetOrderStatus(v, status)
    \/ \E c \in Clerks :
         \/ \E v \in Visitors : ReadOrder(c, v)
         \/ FinalizeSalesOrder(c) \/ ConvertToInvoice(c) \/ RememberInvoice(c) \/ CreateInvoiceFails(c)

ShopSpec == ShopInit /\ [][ShopNext]_shopVars
-----------------------------------------------------------------------------
(* Properties *)

\* What the team sees of an order is its cart at the prices that were read, and their
\* sum, whatever the price list has become and however the entries were repeated
\* (shop.go:536); and so is its sales order, unless the team edited that one.
OrderIsItsDocument ==
    \A v \in Visitors : order[v].status # "none" =>
        /\ salesOrder[v].lines = visitor[v].lines \/ v \in edited
        /\ order[v].total = SumOver([l \in visitor[v].lines |-> l.price * l.qty])

\* A returning customer keeps one record, unless two orders with that email were
\* being placed at once (found and created in two transactions, shop.go:556).
OneCustomerPerEmail == \A e \in Emails : parties[e] <= 1 \/ e \in together

\* An order is invoiced once, unless the team's requests for it overlapped, one of
\* them was cut short between its conversion and the order's update, or the team
\* converted its document in the sales module, which the order never learns of
\* (shop.go:376 looks at the order's own invoice alone).  Editing, finalising or
\* cancelling the document there makes no second invoice.
InvoicedOnceUnlessShared == \A v \in Visitors : made[v] <= 1 \/ v \in shared \cup billed

\* A cancelled order has no invoice, with the same exceptions: the update of the
\* invoice does not ask for the status (shop.go:402).
CancelledIsNotInvoiced ==
    \A v \in Visitors : order[v].status = "CANCELLED" => made[v] = 0 \/ v \in shared \cup billed

\* An order is its document, of one customer, and invoiced once or cancelled.
OrdersInvoicedOnce ==
    ShopTypeOK /\ OrderIsItsDocument /\ OneCustomerPerEmail /\ InvoicedOnceUnlessShared /\ CancelledIsNotInvoiced
=============================================================================
