----------------------------- MODULE MCBackOffice -----------------------------
(***************************************************************************)
(* Purchases and EWayBill on small instances, one part at a time: "one" is *)
(* every document type in one warehouse, with sales, without the price     *)
(* rule; "two" is invoices in two warehouses under the price rule, until   *)
(* two requests meet on one document; "eway" is one invoice's bills.       *)
(***************************************************************************)
EXTENDS Purchases, EWayBill, TLC

CONSTANT Second     \* the warehouse of "two" only

VARIABLE part

MCInit ==
    /\ PurchasesInit /\ EWayBillInit
    /\ part \in {"one", "two", "eway"}
    /\ part # "two" => ~rule.on /\ ~rule.raiseOnly
    /\ part = "two" => rule.on
    /\ part # "one" => ~negative
    /\ part # "eway" => company.seller /\ company.required

\* Once two requests met on one document, or a balance was written over, nobody
\* begins another.
MCPurchases ==
    /\ PurchasesNext
    /\ met # {} \/ blotted # {} => \A b \in Buyers : buyer[b] = Off => buyer'[b] = Off
    /\ part = "one" => \A d \in Papers : paper'[d].status # "NONE" => paper'[d].wh # Second
    /\ part = "two" =>
         /\ \A d \in Papers : paper'[d].type \in {"PURCHASE_ORDER", "PURCHASE_INVOICE"} /\ ~paper'[d].ref
         /\ met' = {} /\ sold' = sold

\* Nor once two requests were at work on one invoice.
MCEWay ==
    /\ EWayBillNext
    /\ crossed => \A c \in Carriers : trip[c] = Resting => trip'[c] = Resting

MCNext ==
    /\ UNCHANGED part
    /\ \/ part \in {"one", "two"} /\ MCPurchases /\ UNCHANGED ewayVars
       \/ part = "eway" /\ MCEWay /\ UNCHANGED purchaseVars

MCSpec == MCInit /\ [][MCNext]_<<purchaseVars, ewayVars, part>>

\* Documents and requests are interchangeable.
MCSymmetry == Permutations(Papers) \cup Permutations(Buyers) \cup Permutations(Carriers)
=============================================================================
