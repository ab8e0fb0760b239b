------------------------------ MODULE MCFilings ------------------------------
(* EInvoice and the webhooks it feeds, on a small instance. *)
EXTENDS Webhooks

MCSpec == FilingInit /\ [][FilingNext]_filingVars /\ EInvoiceFairness /\ WebhooksFairness
=============================================================================
