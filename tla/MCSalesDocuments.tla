-------------------------- MODULE MCSalesDocuments ---------------------------
(***************************************************************************)
(* Instances of SalesDocuments for TLC.  MCSpec has two parts: "flow" is   *)
(* challans and invoices of quantity one, converted into each other;       *)
(* "edit" is one document, an invoice or a return, whose lines change      *)
(* between the quantities.                                                 *)
(***************************************************************************)
EXTENDS SalesDocuments, TLC

VARIABLE part

MCInit == Init /\ part \in {"flow", "edit"}

MCNext ==
    /\ Next
    /\ UNCHANGED part
    /\ part = "flow" => \A t \in Txs : work'[t].type # "SALES_RETURN" /\ work'[t].qty <= 1
    /\ part = "edit" =>
         /\ \A t \in Txs : work'[t].type # "DELIVERY_CHALLAN"
         /\ Cardinality({d \in Docs : doc'[d].status # "NONE"}) <= 1

MCSpec == MCInit /\ [][MCNext]_<<vars, part>>

\* Documents, lines, branches and requests are interchangeable.
MCSymmetry == Permutations(Docs) \cup Permutations(LineIds)
              \cup Permutations(Branches) \cup Permutations(Txs)
=============================================================================
