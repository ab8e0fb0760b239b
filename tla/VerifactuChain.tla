--------------------------- MODULE VerifactuChain ---------------------------
(***************************************************************************)
(* The Spanish register of invoices: internal/modules/verifactu.           *)
(*                                                                         *)
(* Finalising or cancelling an invoice appends a record to its company's   *)
(* chain in the same transaction, behind the row lock of the chain's head. *)
(* Each record queues an event; the worker's handler, or SendNow, sends    *)
(* all records the tax agency (AEAT) has not answered for, in chain order, *)
(* and writes the answers in the transaction it began before the call.     *)
(*                                                                         *)
(* Abstractions: a hash is the tuple of what is hashed, so two are equal   *)
(* exactly when their fields and previous hashes are; time is a counter;   *)
(* next_attempt_at is past ("now") or to come ("later").                   *)
(***************************************************************************)
EXTENDS Naturals, Sequences, FiniteSets

CONSTANTS
    Invoices,
    NoInvoice,
    Clerks,         \* requests that finalise or cancel
    Senders,        \* processes that call the agency
    Poller,         \* the sender that handles outbox events; the others are SendNow
    BatchSize,      \* batchSize (1000 in the code)
    MaxRecords,     \* bound on the chain
    MaxTime,        \* bound on the clock
    MaxFaults       \* bound on failed calls, lost transactions and switching off

ASSUME ChainAssumption ==
    /\ NoInvoice \notin Invoices /\ Poller \in Senders
    /\ BatchSize \in Nat \ {0} /\ MaxRecords \in Nat /\ MaxTime \in Nat /\ MaxFaults \in Nat

VARIABLES
    settings,   \* verifactu_settings: enabled, and whether a certificate is stored
    invoice,    \* the sales document's status
    chain,      \* verifactu_records by seq
    head,       \* verifactu_chain_heads: last_seq, last_hash
    clerk,      \* what each request is doing
    now,        \* the clock
    sub,        \* verifactu_submissions by seq
    event,      \* the submit event of each record
    sender,     \* what each sender is doing
    agency,     \* external: records the agency has registered
    sent,       \* history: records that were sent at least once
    doubled,    \* history: records sent by two senders at the same time
    raced,      \* history: invoices two requests worked on at the same time
    unchained,  \* history: invoices finalised or cancelled without a record
    ignored,    \* history: events handled while the register was off
    faults      \* history: failed calls, lost transactions and switching off

chainVars == <<settings, invoice, chain, head, clerk, now, sub, event, sender, agency>>
chainHistory == <<sent, doubled, raced, unchained, ignored, faults>>
verifactuVars == <<chainVars, chainHistory>>

Positions == 1..Len(chain)
Free == [pc |-> "idle", doc |-> NoInvoice, type |-> "none", at |-> 0]
Quiet == [pc |-> "idle", batch |-> {}, answer |-> <<>>, for |-> 0]

Record(d, t, at, prev) == [doc |-> d, type |-> t, at |-> at, prev |-> prev]

\* domain.AltaHash, domain.CancelHash: over the record's fields and the previous hash.
Hash(r) == <<r.type, r.doc, r.at, r.prev>>

Of(d, t) == {i \in Positions : chain[i].doc = d /\ chain[i].type = t}
AltaForDocument(d) == Of(d, "ALTA") # {}
HasCancellation(d) == Of(d, "ANULACION") # {}

Unsent == {i \in Positions : sub[i].status \in {"PENDING", "ERROR"}}

VerifactuTypeOK ==
    /\ settings \in [enabled : BOOLEAN, cert : BOOLEAN]
    /\ invoice \in [Invoices -> {"DRAFT", "FINALIZED", "CANCELLED"}]
    /\ Len(chain) = Len(sub) /\ Len(chain) = Len(event) /\ Len(chain) <= MaxRecords
    /\ \A i \in Positions :
         /\ sub[i] \in [status : {"PENDING", "ACCEPTED", "REJECTED", "ERROR"}, due : {"now", "later"}]
         /\ event[i] \in {"open", "stuck", "done"}
    /\ clerk \in [Clerks -> [pc : {"idle", "read", "locked"}, doc : Invoices \cup {NoInvoice},
                             type : {"none", "ALTA", "ANULACION", "skip"}, at : 0..MaxTime]]
    /\ \A s \in Senders : sender[s].pc \in {"idle", "sending", "answered"} /\ sender[s].batch \subseteq Positions
    /\ now \in 0..MaxTime
    /\ agency \subseteq Positions /\ faults \in 0..MaxFaults

VerifactuInit ==
    /\ settings = [enabled |-> FALSE, cert |-> FALSE]
    /\ invoice = [d \in Invoices |-> "DRAFT"]
    /\ chain = <<>> /\ sub = <<>> /\ event = <<>>
    /\ head = [seq |-> 0, hash |-> <<>>]
    /\ clerk = [c \in Clerks |-> Free]
    /\ now = 0
    /\ sender = [s \in Senders |-> Quiet]
    /\ agency = {}
    /\ sent = {} /\ doubled = {} /\ raced = {} /\ unchained = {} /\ ignored = {} /\ faults = 0

-----------------------------------------------------------------------------
(* Settings *)

\* SaveSettings turns the register on, or off.
SaveSettings ==
    /\ settings' = [settings EXCEPT !.enabled = ~@]
    /\ settings.enabled => faults < MaxFaults
    /\ faults' = IF settings.enabled THEN faults + 1 ELSE faults
    /\ UNCHANGED <<invoice, chain, head, clerk, now, sub, event, sender, agency,
                   sent, doubled, raced, unchained, ignored>>

UploadCertificate ==
    /\ ~settings.cert
    /\ settings' = [settings EXCEPT !.cert = TRUE]
    /\ UNCHANGED <<invoice, chain, head, clerk, now, sub, event, sender, agency, chainHistory>>

-----------------------------------------------------------------------------
(* The chain *)

BeginAs(c, d, t, at) ==
    /\ clerk[c].pc = "idle"
    /\ clerk' = [clerk EXCEPT ![c] = [pc |-> "read", doc |-> d, type |-> t, at |-> at]]
    /\ raced' = IF \E o \in Clerks : clerk[o].doc = d THEN raced \cup {d} ELSE raced
    /\ UNCHANGED <<settings, invoice, chain, head, now, sub, event, sender, agency,
                   sent, doubled, unchained, ignored, faults>>

\* FinalizeDocument has read DRAFT, without a lock, and RecordIssued the settings.
RecordIssued(c, d) ==
    /\ invoice[d] = "DRAFT"
    /\ BeginAs(c, d, IF settings.enabled THEN "ALTA" ELSE "skip", 0)

\* Variant: an earlier cancellation is not looked for.
CancelBlindly(c, d) ==
    /\ invoice[d] # "DRAFT"
    /\ BeginAs(c, d, IF settings.enabled /\ AltaForDocument(d) THEN "ANULACION" ELSE "skip", 0)

\* CancelDocument has read FINALIZED; RecordCancelled reads the settings, the
\* invoice's record and an earlier cancellation, all before it locks the head.
RecordCancelled(c, d) ==
    /\ invoice[d] = "FINALIZED"
    /\ BeginAs(c, d, IF settings.enabled /\ AltaForDocument(d) /\ ~HasCancellation(d)
                     THEN "ANULACION" ELSE "skip", 0)

\* Variant: the head is read without FOR UPDATE.
LockHeadShared(c) ==
    /\ clerk[c].pc = "read" /\ clerk[c].type # "skip"
    /\ clerk' = [clerk EXCEPT ![c] = [@ EXCEPT !.pc = "locked", !.at = now]]
    /\ UNCHANGED <<settings, invoice, chain, head, now, sub, event, sender, agency, chainHistory>>

\* SELECT ... FOR UPDATE, and then the record's timestamp.
LockHead(c) ==
    /\ clerk[c].pc = "read" /\ clerk[c].type # "skip"
    /\ \A o \in Clerks : clerk[o].pc # "locked"
    /\ clerk' = [clerk EXCEPT ![c] = [@ EXCEPT !.pc = "locked", !.at = now]]
    /\ UNCHANGED <<settings, invoice, chain, head, now, sub, event, sender, agency, chainHistory>>

Becomes(c) ==
    invoice' = [invoice EXCEPT ![clerk[c].doc] =
                  IF @ = "DRAFT" THEN "FINALIZED"
                  ELSE IF clerk[c].type = "ANULACION" THEN "CANCELLED" ELSE @]

\* The trigger verifactu_records_chain_check and UNIQUE (legal_entity_id, seq).
Continues(seq, r) ==
    /\ seq = Len(chain) + 1
    /\ r.prev = IF seq = 1 THEN <<>> ELSE Hash(chain[seq - 1])

\* append, Repo.Append and the commit of the finalising or cancelling request.
AppendRecord(c) ==
    LET r == Record(clerk[c].doc, clerk[c].type, clerk[c].at, head.hash) IN
    /\ clerk[c].pc = "locked"
    /\ Len(chain) < MaxRecords
    /\ Continues(head.seq + 1, r)
    /\ chain' = Append(chain, r)
    /\ head' = [seq |-> head.seq + 1, hash |-> Hash(r)]
    /\ sub' = Append(sub, [status |-> "PENDING", due |-> "now"])
    /\ event' = Append(event, "open")
    /\ Becomes(c)
    /\ clerk' = [clerk EXCEPT ![c] = Free]
    /\ UNCHANGED <<settings, now, sender, agency, chainHistory>>

\* Disabled, or nothing in the chain to cancel: the document goes on alone.
CommitUnrecorded(c) ==
    LET d == clerk[c].doc IN
    /\ clerk[c].pc = "read" /\ clerk[c].type = "skip"
    /\ invoice' = [invoice EXCEPT ![d] = IF @ = "DRAFT" THEN "FINALIZED" ELSE "CANCELLED"]
    /\ unchained' = unchained \cup {d}
    /\ clerk' = [clerk EXCEPT ![c] = Free]
    /\ UNCHANGED <<settings, chain, head, now, sub, event, sender, agency,
                   sent, doubled, raced, ignored, faults>>

\* The request fails or is abandoned: its lock, record and status go with it.
Abandon(c) ==
    /\ clerk[c].pc # "idle"
    /\ clerk' = [clerk EXCEPT ![c] = Free]
    /\ UNCHANGED <<settings, invoice, chain, head, now, sub, event, sender, agency, chainHistory>>

Tick ==
    /\ now < MaxTime
    /\ now' = now + 1
    /\ UNCHANGED <<settings, invoice, chain, head, clerk, sub, event, sender, agency, chainHistory>>

-----------------------------------------------------------------------------
(* Submission *)

\* Variant: only the records whose own time has come are sent.
DueOnly == {i \in Unsent : sub[i].due = "now"}

\* Repo.Due: the oldest unsent records, whatever their own next_attempt_at.
Due == {i \in Unsent : Cardinality({j \in Unsent : j < i}) < BatchSize}

\* Repo.EarliestDue looks at the oldest of them.
EarliestDue == \E i \in Unsent : sub[i].due = "now" /\ \A j \in Unsent : i <= j

\* RetryNow has locked the unsent rows until SendNow's commit.
RowsLocked(s) == \E o \in Senders \ {s, Poller} : sender[o].pc # "idle"

Send(s, i) ==
    /\ sender' = [sender EXCEPT ![s] = [pc |-> "sending", batch |-> Due, answer |-> <<>>, for |-> i]]
    /\ sent' = sent \cup Due
    /\ doubled' = doubled \cup {j \in Due : \E o \in Senders : j \in sender[o].batch}
    /\ UNCHANGED <<settings, invoice, chain, head, clerk, now, sub, event, agency, raced, unchained, ignored, faults>>

Handles(i) == i \in Positions /\ sender[Poller].pc = "idle" /\ event[i] = "open"

\* Handler, SubmitPending: with the register disabled the event is done all the
\* same; with nothing left to send too.
HandleNothing(i) ==
    /\ Handles(i)
    /\ ~settings.enabled \/ Unsent = {}
    /\ event' = [event EXCEPT ![i] = "done"]
    /\ ignored' = IF settings.enabled THEN ignored ELSE ignored \cup {i}
    /\ UNCHANGED <<settings, invoice, chain, head, clerk, now, sub, sender, agency,
                   sent, doubled, raced, unchained, faults>>

\* Without a certificate, and while AEAT's waiting time lasts, the event fails
\* and comes back; else the batch is sent.
SubmitPending(i) ==
    /\ Handles(i)
    /\ settings.enabled /\ EarliestDue /\ settings.cert
    /\ Send(Poller, i)

\* SendNow: RetryNow waits for rows another transaction has written.
SendNow(s) ==
    /\ s # Poller /\ sender[s].pc = "idle" /\ ~RowsLocked(s)
    /\ settings.enabled /\ settings.cert /\ Unsent # {}
    /\ Send(s, 0)

\* RetryNow alone, when SubmitPending then finds no certificate or is disabled.
RetryNow(s) ==
    /\ s # Poller /\ sender[s].pc = "idle" /\ ~RowsLocked(s)
    /\ ~(settings.enabled /\ settings.cert) /\ Unsent # {}
    /\ sub' = [i \in Positions |-> IF i \in Unsent THEN [sub[i] EXCEPT !.due = "now"] ELSE sub[i]]
    /\ UNCHANGED <<settings, invoice, chain, head, clerk, now, event, sender, agency, chainHistory>>

\* AEAT answers for each record: a duplicate is refused, another is accepted or not
\* (one that an answer of Correcto does not list is accepted).
Verdicts(i) == IF i \in agency THEN {"REJECTED"} ELSE {"ACCEPTED", "REJECTED"}

AgencyAnswers(s) ==
    /\ sender[s].pc = "sending"
    /\ \E a \in [sender[s].batch -> {"ACCEPTED", "REJECTED"}] :
         /\ \A i \in sender[s].batch : a[i] \in Verdicts(i)
         /\ sender' = [sender EXCEPT ![s] = [@ EXCEPT !.pc = "answered", !.answer = a]]
         /\ agency' = agency \cup {i \in sender[s].batch : a[i] = "ACCEPTED"}
    /\ UNCHANGED <<settings, invoice, chain, head, clerk, now, sub, event, chainHistory>>

\* The call fails, or its answer is lost after the agency registered the batch.
CallFails(s) ==
    /\ sender[s].pc = "sending"
    /\ faults < MaxFaults
    /\ faults' = faults + 1
    /\ sender' = [sender EXCEPT ![s] = [@ EXCEPT !.pc = "answered", !.answer = [i \in sender[s].batch |-> "ERROR"]]]
    /\ agency' \in {agency, agency \cup sender[s].batch}
    /\ UNCHANGED <<settings, invoice, chain, head, clerk, now, sub, event, sent, doubled, raced, unchained, ignored>>

\* An answer that is not Correcto leaves records out: they are errors, whatever the
\* agency did with them.
AnswerIsShort(s) ==
    /\ sender[s].pc = "sending"
    /\ faults < MaxFaults
    /\ faults' = faults + 1
    /\ \E a \in [sender[s].batch -> {"ACCEPTED", "REJECTED", "ERROR"}] :
         /\ \A i \in sender[s].batch : a[i] \in Verdicts(i) \cup {"ERROR"}
         /\ sender' = [sender EXCEPT ![s] = [@ EXCEPT !.pc = "answered", !.answer = a]]
         /\ \E kept \in SUBSET {i \in sender[s].batch : a[i] = "ERROR"} :
              agency' = agency \cup kept \cup {i \in sender[s].batch : a[i] = "ACCEPTED"}
    /\ UNCHANGED <<settings, invoice, chain, head, clerk, now, sub, event, sent, doubled, raced, unchained, ignored>>

\* SetOutcome for every record of the batch, by id, whatever its status is now.
SetOutcome(s) ==
    [i \in Positions |->
        IF i \in sender[s].batch THEN [status |-> sender[s].answer[i], due |-> "later"]
        ELSE IF s # Poller /\ i \in Unsent THEN [sub[i] EXCEPT !.due = "now"] ELSE sub[i]]

\* Variant: the event is done as soon as its batch was answered for.
MarkEarly(s, after) ==
    IF s # Poller THEN event ELSE [event EXCEPT ![sender[s].for] = "done"]

\* Variant: records that failed do not count as left to send.
MarkForgetful(s, after) ==
    IF s # Poller \/ \E i \in Positions : after[i].status = "PENDING"
    THEN event ELSE [event EXCEPT ![sender[s].for] = "done"]

\* The event is done when nothing is left to send, else it comes back (ErrWaiting).
MarkEvent(s, after) ==
    IF s # Poller \/ \E i \in Positions : after[i].status \in {"PENDING", "ERROR"}
    THEN event ELSE [event EXCEPT ![sender[s].for] = "done"]

CommitOutcome(s) ==
    /\ sender[s].pc = "answered"
    /\ s = Poller => \A o \in Senders \ {Poller} : sender[o].pc = "idle"
    /\ sub' = SetOutcome(s)
    /\ event' = MarkEvent(s, sub')
    /\ sender' = [sender EXCEPT ![s] = Quiet]
    /\ UNCHANGED <<settings, invoice, chain, head, clerk, now, agency, chainHistory>>

\* The process dies with its transaction; the poller's event stays PROCESSING.
LoseSender(s) ==
    /\ sender[s].pc # "idle"
    /\ faults < MaxFaults
    /\ faults' = faults + 1
    /\ event' = IF s = Poller THEN [event EXCEPT ![sender[s].for] = "stuck"] ELSE event
    /\ sender' = [sender EXCEPT ![s] = Quiet]
    /\ UNCHANGED <<settings, invoice, chain, head, clerk, now, sub, agency, sent, doubled, raced, unchained, ignored>>

\* The waiting time dictated by AEAT, or five minutes, is over.
WaitOver(i) ==
    /\ i \in Unsent /\ sub[i].due = "later"
    /\ sub' = [sub EXCEPT ![i].due = "now"]
    /\ UNCHANGED <<settings, invoice, chain, head, clerk, now, event, sender, agency, chainHistory>>

Poll == \E i \in 1..MaxRecords : HandleNothing(i) \/ SubmitPending(i)
Conclude(s) == AgencyAnswers(s) \/ CommitOutcome(s)

VerifactuNext ==
    \/ SaveSettings \/ UploadCertificate \/ Tick
    \/ \E c \in Clerks :
         \/ \E d \in Invoices : RecordIssued(c, d) \/ RecordCancelled(c, d)
         \/ LockHead(c) \/ AppendRecord(c) \/ CommitUnrecorded(c) \/ Abandon(c)
    \/ Poll
    \/ \E s \in Senders : SendNow(s) \/ RetryNow(s) \/ Conclude(s) \/ CallFails(s) \/ AnswerIsShort(s) \/ LoseSender(s)
    \/ \E i \in 1..MaxRecords : WaitOver(i)

\* The poller never stops, a call returns, a waiting time ends.
VerifactuFairness ==
    /\ SF_verifactuVars(Poll)
    /\ \A s \in Senders : SF_verifactuVars(Conclude(s))
    /\ \A i \in 1..MaxRecords : WF_verifactuVars(WaitOver(i))
-----------------------------------------------------------------------------
(* Properties *)

\* VerifyChain: every record's hash follows from its fields, and its previous
\* hash is its predecessor's; the head names the last one.
VerifyChain ==
    /\ \A i \in Positions : chain[i].prev = IF i = 1 THEN <<>> ELSE Hash(chain[i - 1])
    /\ head = [seq |-> Len(chain), hash |-> IF chain = <<>> THEN <<>> ELSE Hash(chain[Len(chain)])]

\* The register reads in order of time (the records' timestamps never go back),
\* although requests start in another order than they commit in.
ChainInOrder ==
    /\ VerifyChain
    /\ \A i, j \in Positions : i < j => chain[i].at <= chain[j].at

\* An invoice finalised while the register was on has its record, once, and its
\* cancellation, if any, once and after it; unless two requests worked on the
\* invoice at once (the status and HasCancellation are read without a lock).
RecordedOnce ==
    \A d \in Invoices \ raced :
        /\ AltaForDocument(d) => invoice[d] # "DRAFT" /\ Cardinality(Of(d, "ALTA")) = 1
        /\ HasCancellation(d) => /\ invoice[d] = "CANCELLED" /\ Cardinality(Of(d, "ANULACION")) = 1
                                 /\ AltaForDocument(d)
                                 /\ \A i \in Of(d, "ALTA"), j \in Of(d, "ANULACION") : i < j
        /\ invoice[d] # "DRAFT" /\ d \notin unchained => AltaForDocument(d)
        /\ invoice[d] = "CANCELLED" /\ d \notin unchained => HasCancellation(d)

\* The agency hears of the records in chain order: no record is sent for the
\* first time before one that precedes it.
SentInChainOrder == \A i \in sent : \A j \in 1..(i - 1) : j \in sent

\* What is still to be sent is remembered by an event that comes back, unless the
\* event was handled while the register was off, was lost with a worker, or the
\* record was sent twice at once and the later answer undid the earlier one.
UnsentIsQueued ==
    \A i \in Unsent \ doubled :
        \/ \E j \in Positions : event[j] \in {"open", "stuck"}
        \/ ignored # {}

\* A record is eventually answered for, once the register stays on with a
\* certificate and nothing was handled while it was off or lost with a worker.
EventuallySent ==
    (<>[](settings.enabled /\ settings.cert))
      => \A i \in 1..MaxRecords :
           (i \in Unsent) ~> \/ i \notin Unsent \/ i \in doubled \/ ignored # {}
                              \/ \E j \in Positions : event[j] = "stuck"

\* The register as the law wants it: a chain in order of time with every invoice
\* in it once; and what is sent follows it, nothing forgotten.
RegisterIsSound ==
    VerifactuTypeOK /\ ChainInOrder /\ RecordedOnce /\ SentInChainOrder /\ UnsentIsQueued
=============================================================================
