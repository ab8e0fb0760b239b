----------------------------- MODULE Collections -----------------------------
(***************************************************************************)
(* Money that reaches an invoice through somebody else: payment links      *)
(* (internal/modules/onlinepay) and SEPA direct debits                     *)
(* (internal/modules/sepa), over the receipts of Books.                    *)
(*                                                                         *)
(* markPaid and Result each hold a transaction of their own open while     *)
(* RecordReceipt runs in another one, on another connection: the receipt   *)
(* is committed before the link or the collection knows of it.  A call may *)
(* die at any point (a crash, a lost connection); its open transaction is  *)
(* rolled back and what has committed stays.                               *)
(*                                                                         *)
(* Abstractions: the payment providers and the bank are what customers can *)
(* make them do; signatures, currencies and provider settings are in       *)
(* order; a customer gives one mandate; the amount of a webhook is its       *)
(* link's (HandleStripeWebhook refuses any other).                         *)
(***************************************************************************)
EXTENDS Books, FiniteSets

CONSTANTS
    MaxLinks,   \* payment links created, a bound
    MaxBatches, \* direct-debit batches built, a bound
    MaxCuts     \* calls that die in the middle, a bound

ASSUME BoundsAssumption == MaxLinks \in Nat /\ MaxBatches \in Nat /\ MaxCuts \in Nat

Batches == 1 .. MaxBatches

VARIABLES
    links,      \* payment_links rows
    holder,     \* who holds the row of a link it has updated
    money,      \* at the provider: unpaid, paid or approved, captured
    batch,      \* sepa_batches rows
    debit,      \* sepa_collections rows of a batch, by invoice
    mandate,    \* sepa_mandates: status and whether used once
    bookedFor,  \* history: on whose behalf each receipt was booked
    cuts,       \* history: calls that died
    doubled     \* history: debits two requests answered as collected at once

collectVars == <<links, holder, money, batch, debit, mandate, cuts, doubled>>
vars == <<booksVars, collectVars, bookedFor>>

Link == [doc : Docs, provider : {"STRIPE", "PAYPAL"}, amount : Nat, mayPost : BOOLEAN,
         status : {"PENDING", "PAID"}, receipt : Nat, note : BOOLEAN]
BatchStatuses == {"none", "building", "failed", "DRAFT", "SENT", "gone"}
DebitRow == [status : {"none", "PENDING", "COLLECTED", "REJECTED"}, amount : Nat,
             seq : {"FRST", "RCUR"}, receipt : Nat]
NoDebit == [status |-> "none", amount |-> 0, seq |-> "FRST", receipt |-> 0]

TypeOK ==
    /\ BooksTypeOK
    /\ links \in Seq(Link)
    /\ holder \in [1 .. Len(links) -> Calls \cup {None}]
    /\ money \in [1 .. Len(links) -> {"unpaid", "paid", "captured"}]
    /\ batch \in [Batches -> [status : BatchStatuses, discarding : BOOLEAN]]
    /\ debit \in [Batches -> [Docs -> DebitRow]]
    /\ mandate \in [Docs -> [status : {"none", "ACTIVE", "REVOKED"}, used : BOOLEAN]]
    /\ Len(bookedFor) = Len(receipts)
    /\ cuts \in Nat /\ doubled \subseteq Batches \X Docs

Init ==
    /\ BooksInit
    /\ links = <<>> /\ holder = <<>> /\ money = <<>>
    /\ batch = [b \in Batches |-> [status |-> "none", discarding |-> FALSE]]
    /\ debit = [b \in Batches |-> [d \in Docs |-> NoDebit]]
    /\ mandate = [d \in Docs |-> [status |-> "none", used |-> FALSE]]
    /\ bookedFor = <<>>
    /\ cuts = 0 /\ doubled = {}

Outstanding(d) == Total[d] - Received(d)

\* Every receipt booked in a step is booked for the call that takes the step.
NoteBooking(c) ==
    bookedFor' = IF Len(receipts') = Len(receipts) THEN bookedFor
                 ELSE Append(bookedFor, [op |-> call[c].op, item |-> call[c].item])

-----------------------------------------------------------------------------
(* Payment links *)

CreateLink(d, provider, mayPost) ==
    /\ d \in issued
    /\ Len(links) < MaxLinks
    /\ Outstanding(d) > 0
    /\ links' = Append(links, [doc |-> d, provider |-> provider, amount |-> Outstanding(d),
                               mayPost |-> mayPost, status |-> "PENDING", receipt |-> 0,
                               note |-> FALSE])
    /\ holder' = Append(holder, None)
    /\ money' = Append(money, "unpaid")
    /\ UNCHANGED <<booksVars, batch, debit, mandate, bookedFor, cuts, doubled>>

\* The customer pays at Stripe, or approves the order at PayPal.
Pay(l) ==
    /\ money[l] = "unpaid"
    /\ money' = [money EXCEPT ![l] = "paid"]
    /\ UNCHANGED <<booksVars, links, holder, batch, debit, mandate, bookedFor, cuts, doubled>>

\* A request about link l that goes on at pc.
About(c, l, pc) ==
    Becomes(c, [Idle EXCEPT !.op = "link", !.pc = pc, !.item = l, !.doc = links[l].doc,
                           !.amount = links[l].amount, !.day = today])

\* Stripe tells us, as often as it likes.
HandleStripeWebhook(c, l) ==
    /\ call[c].pc = "idle"
    /\ links[l].provider = "STRIPE" /\ money[l] = "paid"
    /\ About(c, l, "claim")
    /\ UNCHANGED <<booksRest, collectVars, bookedFor>>

\* The customer comes back from PayPal: the link's status is read first.
CompletePayPal(c, l) ==
    /\ call[c].pc = "idle"
    /\ links[l].provider = "PAYPAL" /\ money[l] # "unpaid"
    /\ IF links[l].status = "PAID" THEN Ends(c) ELSE About(c, l, "capture")
    /\ UNCHANGED <<booksRest, collectVars, bookedFor>>

\* PayPal captures once; asked again it answers that it has, without the capture.
Capture(c) ==
    LET l == call[c].item IN
    /\ call[c].pc = "capture"
    /\ IF money[l] = "paid" THEN Goes(c, "claim") ELSE Ends(c)
    /\ money' = [money EXCEPT ![l] = "captured"]
    /\ UNCHANGED <<booksRest, links, holder, batch, debit, mandate, bookedFor, cuts, doubled>>

\* Variant: the update does not ask for PENDING.
MarkPaidAnyStatus(c) ==
    LET l == call[c].item IN
    /\ call[c].pc = "claim"
    /\ holder[l] = None
    /\ IF links[l].mayPost THEN Goes(c, "asked") ELSE Goes(c, "refused")
    /\ holder' = [holder EXCEPT ![l] = c]
    /\ UNCHANGED <<booksRest, links, money, batch, debit, mandate, bookedFor, cuts, doubled>>

\* markPaid's update, which waits for the row and takes it only while PENDING;
\* then RecordReceipt, which asks whether the link's author may post.
MarkPaid(c) ==
    LET l == call[c].item IN
    /\ call[c].pc = "claim"
    /\ holder[l] = None
    /\ IF links[l].status # "PENDING"
         THEN Ends(c) /\ UNCHANGED holder
         ELSE /\ IF links[l].mayPost THEN Goes(c, "asked") ELSE Goes(c, "refused")
              /\ holder' = [holder EXCEPT ![l] = c]
    /\ UNCHANGED <<booksRest, links, money, batch, debit, mandate, bookedFor, cuts, doubled>>

\* Variant: a refused receipt leaves no note.
CloseLinkSilently(c) ==
    LET l == call[c].item IN
    /\ call[c].op = "link" /\ call[c].pc \in {"booked", "refused"}
    /\ links' = [links EXCEPT ![l].status = "PAID",
                              ![l].receipt = IF call[c].pc = "booked" THEN call[c].found ELSE 0]
    /\ holder' = [holder EXCEPT ![l] = None]
    /\ Ends(c)
    /\ UNCHANGED <<booksRest, money, batch, debit, mandate, bookedFor, cuts, doubled>>

\* The end of markPaid: the receipt's id, or a note that there is none.
CloseLink(c) ==
    LET l == call[c].item IN
    /\ call[c].op = "link" /\ call[c].pc \in {"booked", "refused"}
    /\ links' = [links EXCEPT ![l].status = "PAID",
                              ![l].receipt = IF call[c].pc = "booked" THEN call[c].found ELSE 0,
                              ![l].note = call[c].pc = "refused"]
    /\ holder' = [holder EXCEPT ![l] = None]
    /\ Ends(c)
    /\ UNCHANGED <<booksRest, money, batch, debit, mandate, bookedFor, cuts, doubled>>

-----------------------------------------------------------------------------
(* Direct debits *)

CreateMandate(d) ==
    /\ mandate[d].status = "none"
    /\ mandate' = [mandate EXCEPT ![d] = [status |-> "ACTIVE", used |-> FALSE]]
    /\ UNCHANGED <<booksVars, links, holder, money, batch, debit, bookedFor, cuts, doubled>>

RevokeMandate(d) ==
    /\ mandate[d].status = "ACTIVE"
    /\ mandate' = [mandate EXCEPT ![d].status = "REVOKED"]
    /\ UNCHANGED <<booksVars, links, holder, money, batch, debit, bookedFor, cuts, doubled>>

Committed == {b \in Batches : batch[b].status \in {"DRAFT", "SENT"}}

\* The batches that hold an open or collected debit of an invoice.
OpenDebits(d) == {b \in Committed : debit[b][d].status \in {"PENDING", "COLLECTED"}}

\* CreateBatch reads, for every chosen invoice, what is outstanding, the mandate
\* and whether it is in a direct debit already.
BuildBatch(b, docs) ==
    /\ batch[b].status = "none"
    /\ \A d \in docs : /\ d \in issued /\ Outstanding(d) > 0
                       /\ mandate[d].status = "ACTIVE" /\ OpenDebits(d) = {}
    /\ batch' = [batch EXCEPT ![b].status = "building"]
    /\ debit' = [debit EXCEPT ![b] =
                   [d \in Docs |-> IF d \in docs
                      THEN [status |-> "PENDING", amount |-> Outstanding(d), receipt |-> 0,
                            seq |-> IF mandate[d].used THEN "RCUR" ELSE "FRST"]
                      ELSE NoDebit]]
    /\ UNCHANGED <<booksVars, links, holder, money, mandate, bookedFor, cuts, doubled>>

\* Variant: no index keeps an invoice out of a second open debit.
CommitBatchAnyway(b) ==
    /\ batch[b].status = "building"
    /\ batch' = [batch EXCEPT ![b].status = "DRAFT"]
    /\ UNCHANGED <<booksVars, links, holder, money, debit, mandate, bookedFor, cuts, doubled>>

\* Its inserts and its commit; uq_sepa_collection_open refuses an invoice that
\* another batch has taken meanwhile.
CommitBatch(b) ==
    /\ batch[b].status = "building"
    /\ batch' = [batch EXCEPT ![b].status =
                   IF \E d \in Docs : debit[b][d].status = "PENDING" /\ OpenDebits(d) # {}
                     THEN "failed" ELSE "DRAFT"]
    /\ UNCHANGED <<booksVars, links, holder, money, debit, mandate, bookedFor, cuts, doubled>>

MarkSent(b) ==
    /\ batch[b].status = "DRAFT"
    /\ batch' = [batch EXCEPT ![b].status = "SENT"]
    /\ mandate' = [d \in Docs |-> IF debit[b][d].status # "none"
                                    THEN [mandate[d] EXCEPT !.used = TRUE] ELSE mandate[d]]
    /\ UNCHANGED <<booksVars, links, holder, money, debit, bookedFor, cuts, doubled>>

\* Discard reads the status, and deletes by the batch's id alone.
ReadToDiscard(b) ==
    /\ batch[b].status = "DRAFT" /\ ~batch[b].discarding
    /\ batch' = [batch EXCEPT ![b].discarding = TRUE]
    /\ UNCHANGED <<booksVars, links, holder, money, debit, mandate, bookedFor, cuts, doubled>>

Discard(b) ==
    /\ batch[b].discarding
    /\ batch' = [batch EXCEPT ![b] = [status |-> "gone", discarding |-> FALSE]]
    /\ debit' = [debit EXCEPT ![b] = [d \in Docs |-> NoDebit]]
    /\ UNCHANGED <<booksVars, links, holder, money, mandate, bookedFor, cuts, doubled>>

\* A call that collects an invoice's debit of a batch.
Collects(c, b, d) ==
    call[c].op = "debit" /\ call[c].pc # "reject" /\ call[c].item = b /\ call[c].doc = d

\* The bank's answer for one collection: Result reads the collection and its batch
\* without a lock, then books the receipt in a transaction of its own and without
\* a reference, or writes the rejection.
Result(c, b, d, collected) ==
    /\ call[c].pc = "idle"
    /\ batch[b].status = "SENT" /\ debit[b][d].status = "PENDING"
    /\ Becomes(c, [Idle EXCEPT !.op = "debit", !.item = b, !.doc = d, !.day = today,
                               !.amount = debit[b][d].amount, !.bank = "BANK",
                               !.pc = IF collected THEN "asked" ELSE "reject"])
    /\ doubled' = IF collected /\ \E o \in Calls : Collects(o, b, d) THEN doubled \cup {<<b, d>>} ELSE doubled
    /\ UNCHANGED <<booksRest, links, holder, money, batch, debit, mandate, bookedFor, cuts>>

\* The update that ends it names the collection alone, not the status it read;
\* uq_sepa_collection_open refuses a second open debit, and the receipt stays.
CloseDebit(c) ==
    LET b == call[c].item
        d == call[c].doc
        row == IF call[c].pc = "booked"
                 THEN [debit[b][d] EXCEPT !.status = "COLLECTED", !.receipt = call[c].found]
                 ELSE [debit[b][d] EXCEPT !.status = "REJECTED"]
        stored == debit[b][d].status # "none"
                  /\ (call[c].pc = "booked" => OpenDebits(d) \subseteq {b}) IN
    /\ call[c].op = "debit" /\ call[c].pc \in {"booked", "reject"}
    /\ debit' = IF stored THEN [debit EXCEPT ![b][d] = row] ELSE debit
    /\ Ends(c)
    /\ UNCHANGED <<booksRest, links, holder, money, batch, mandate, bookedFor, cuts, doubled>>

\* A call dies: its open transaction is rolled back.
Cut(c) ==
    /\ call[c].op \in {"link", "debit"}
    /\ call[c].pc # "idle"
    /\ cuts < MaxCuts
    /\ cuts' = cuts + 1
    /\ Ends(c)
    /\ holder' = [l \in 1 .. Len(links) |-> IF holder[l] = c THEN None ELSE holder[l]]
    /\ UNCHANGED <<booksRest, links, money, batch, debit, mandate, bookedFor, doubled>>

CollectSteps(c) ==
    \/ \E l \in 1 .. Len(links) : HandleStripeWebhook(c, l) \/ CompletePayPal(c, l)
    \/ Capture(c) \/ MarkPaid(c) \/ CloseLink(c)
    \/ \E b \in Batches, d \in Docs, collected \in BOOLEAN : Result(c, b, d, collected)
    \/ CloseDebit(c) \/ Cut(c)

Next ==
    \/ \E c \in Calls : BooksSteps(c) /\ NoteBooking(c) /\ UNCHANGED collectVars
    \/ BooksEvents /\ UNCHANGED <<collectVars, bookedFor>>
    \/ \E c \in Calls : CollectSteps(c)
    \/ \E d \in Docs, provider \in {"STRIPE", "PAYPAL"}, mayPost \in BOOLEAN :
          CreateLink(d, provider, mayPost)
    \/ \E l \in 1 .. Len(links) : Pay(l)
    \/ \E d \in Docs : CreateMandate(d) \/ RevokeMandate(d)
    \/ \E b \in Batches :
          \/ \E docs \in SUBSET Docs \ {{}} : BuildBatch(b, docs)
          \/ CommitBatch(b) \/ MarkSent(b) \/ ReadToDiscard(b) \/ Discard(b)

Spec == Init /\ [][Next]_vars

-----------------------------------------------------------------------------
(* Properties *)

\* markPaid "records a confirmed payment exactly once" (onlinepay/service.go:316):
\* repeated and racing webhooks, and PayPal returns, book one receipt, and only a
\* call that died in the middle can add another.  So it is for a direct debit,
\* unless two requests answered it at once: the status is read without a lock and
\* the receipt carries no reference (sepa/service.go:531, 545).
BookedFor(l) == {i \in 1 .. Len(bookedFor) : bookedFor[i] = [op |-> "link", item |-> l]}
DebitReceipts(b, d) ==
    {i \in 1 .. Len(bookedFor) : bookedFor[i] = [op |-> "debit", item |-> b] /\ receipts[i].doc = d}
BookedOnceUnlessCut ==
    /\ \A l \in 1 .. Len(links) : Cardinality(BookedFor(l)) <= 1 + cuts
    /\ \A b \in Batches, d \in Docs : <<b, d>> \in doubled \/ Cardinality(DebitReceipts(b, d)) <= 1 + cuts

\* A paid link leads to its money: to a receipt of its invoice and amount, or to
\* the note that tells the user to record it by hand (service.go:337-341).
PaidLinkIsBookedOrNoted ==
    \A l \in 1 .. Len(links) : links[l].status = "PAID" =>
        IF links[l].note THEN links[l].receipt = 0
        ELSE /\ links[l].receipt \in BookedFor(l)
             /\ receipts[links[l].receipt].doc = links[l].doc
             /\ receipts[links[l].receipt].amount = links[l].amount

\* An invoice is in one direct debit at most that is open or collected, whatever
\* batches are built, sent and discarded at the same time (service.go:294-296).
InOneDirectDebit == \A d \in Docs : Cardinality(OpenDebits(d)) <= 1

\* A collected debit has the receipt of its invoice and amount (service.go:507).
CollectedIsBooked ==
    \A b \in Committed, d \in Docs : debit[b][d].status = "COLLECTED" =>
        /\ debit[b][d].receipt \in 1 .. Len(receipts)
        /\ receipts[debit[b][d].receipt].doc = d
        /\ receipts[debit[b][d].receipt].amount = debit[b][d].amount

\* Money that came through a link or a direct debit is in the books, once,
\* and no invoice is asked for by two direct debits.
CollectedOnce ==
    TypeOK /\ BookedOnceUnlessCut /\ PaidLinkIsBookedOrNoted /\ CollectedIsBooked /\ InOneDirectDebit
=============================================================================
