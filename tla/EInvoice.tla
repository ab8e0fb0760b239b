------------------------------ MODULE EInvoice ------------------------------
(***************************************************************************)
(* IRN generation: internal/modules/einvoice.                              *)
(*                                                                         *)
(* Finalising an invoice queues one einvoice.generate event (see           *)
(* SalesDocuments); a worker runs its handler in one transaction, which    *)
(* the poller commits whether the handler failed or not.  A user may retry *)
(* a failed record in a transaction of the request.  The record's row is   *)
(* locked from its first UPDATE to the commit, so it is locked while the   *)
(* provider is asked, and SUBMITTING is never seen by anybody else.        *)
(*                                                                         *)
(* Abstractions: the queued event is a job that is open until its handler  *)
(* gives a final answer (DurableJobs); the request's content is whether    *)
(* it can be built at all (the seller has a GSTIN); an IRN is there or     *)
(* not, for the number is a function of the document.                      *)
(***************************************************************************)
EXTENDS Naturals, FiniteSets

CONSTANTS
    Docs,           \* finalised invoices
    NoDoc,
    IrnWorkers,     \* apps/worker processes
    Users,          \* requests that retry
    MaxTrouble,     \* bound: how often the provider or the network fails
    MaxCut          \* bound: how many transactions are lost

ASSUME IrnAssumption ==
    /\ NoDoc \notin Docs /\ IrnWorkers \cap Users = {}
    /\ MaxTrouble \in Nat /\ MaxCut \in Nat

VARIABLES
    entity,      \* the seller: has a GSTIN; its stored NIC credentials
    irn,         \* einvoice_records by document: status, and whether irn is set
    irnJob,      \* the einvoice.generate event of each document
    call,        \* what each process is doing
    registered,  \* external: documents the tax portal has given an IRN to
    announced,   \* outbox rows of einvoice's own events: <<type, document>>
    trouble,     \* history: provider failures so far
    cut          \* history: lost transactions so far

irnVars == <<entity, irn, irnJob, call, registered, announced, trouble, cut>>

Processes == IrnWorkers \cup Users
Outcomes == {"einvoice.generated", "einvoice.failed"}

\* Domain: Status.Terminal.
Terminal(s) == s \in {"GENERATED", "FAILED_FINAL"}

Retryable(s) == s \in {"FAILED_FINAL", "FAILED_RETRYABLE"}

Idle == [pc |-> "idle", doc |-> NoDoc, provider |-> "none", answer |-> "none"]

EInvoiceTypeOK ==
    /\ entity \in [gstin : BOOLEAN, credentials : {"none", "stored", "unreadable"}]
    /\ irn \in [Docs -> [status : {"NONE", "GENERATED", "FAILED_RETRYABLE", "FAILED_FINAL"},
                         number : BOOLEAN]]
    /\ irnJob \in [Docs -> {"open", "stuck", "done", "dead"}]
    /\ call \in [Processes -> [pc : {"idle", "read", "asking", "answered"},
                               doc : Docs \cup {NoDoc},
                               provider : {"none", "default", "nic"},
                               answer : {"none", "irn", "error"}]]
    /\ registered \subseteq Docs
    /\ announced \subseteq Outcomes \X Docs
    /\ trouble \in 0..MaxTrouble
    /\ cut \in 0..MaxCut

EInvoiceInit ==
    /\ entity = [gstin |-> FALSE, credentials |-> "none"]
    /\ irn = [d \in Docs |-> [status |-> "NONE", number |-> FALSE]]
    /\ irnJob = [d \in Docs |-> "open"]
    /\ call = [p \in Processes |-> Idle]
    /\ registered = {}
    /\ announced = {}
    /\ trouble = 0
    /\ cut = 0

-----------------------------------------------------------------------------
(* Settings *)

\* The legal entity is given its GSTIN (organisation), the cure of FAILED_FINAL.
SetGSTIN ==
    /\ ~entity.gstin
    /\ entity' = [entity EXCEPT !.gstin = TRUE]
    /\ UNCHANGED <<irn, irnJob, call, registered, announced, trouble, cut>>

SaveSandboxCredentials ==
    /\ entity.credentials # "stored"
    /\ entity' = [entity EXCEPT !.credentials = "stored"]
    /\ UNCHANGED <<irn, irnJob, call, registered, announced, trouble, cut>>

DeleteCredentials ==
    /\ entity.credentials # "none"
    /\ entity' = [entity EXCEPT !.credentials = "none"]
    /\ UNCHANGED <<irn, irnJob, call, registered, announced, trouble, cut>>

\* AEAD_ENCRYPTION_KEY is changed without saving the credentials again.
RotateKey ==
    /\ entity.credentials = "stored"
    /\ trouble < MaxTrouble
    /\ trouble' = trouble + 1
    /\ entity' = [entity EXCEPT !.credentials = "unreadable"]
    /\ UNCHANGED <<irn, irnJob, call, registered, announced, cut>>

-----------------------------------------------------------------------------
(* One attempt *)

Read(p, d) == call' = [call EXCEPT ![p] = [Idle EXCEPT !.pc = "read", !.doc = d]]

\* Variant: only an event that was never tried is claimed.
ClaimsNew(w, d) ==
    /\ call[w].pc = "idle"
    /\ irnJob[d] = "open" /\ irn[d].status = "NONE"
    /\ \A v \in IrnWorkers : call[v].doc # d

\* The worker has claimed the event of d and no other worker has.
Claims(w, d) ==
    /\ call[w].pc = "idle"
    /\ irnJob[d] = "open"
    /\ \A v \in IrnWorkers : call[v].doc # d

\* GenerateForDocument finds the record handled: the event is done.
SkipHandled(w, d) ==
    /\ Claims(w, d)
    /\ Terminal(irn[d].status)
    /\ irnJob' = [irnJob EXCEPT ![d] = "done"]
    /\ UNCHANGED <<entity, irn, call, registered, announced, trouble, cut>>

GenerateForDocument(w, d) ==
    /\ Claims(w, d)
    /\ ~Terminal(irn[d].status)
    /\ Read(w, d)
    /\ UNCHANGED <<entity, irn, irnJob, registered, announced, trouble, cut>>

RetryDocument(u, d) ==
    /\ call[u].pc = "idle"
    /\ Retryable(irn[d].status)
    /\ Read(u, d)
    /\ UNCHANGED <<entity, irn, irnJob, registered, announced, trouble, cut>>

\* The row is free: an UPDATE waits for the transaction that has changed it.
RowFree(p) == \A q \in Processes \ {p} :
    call[q].doc = call[p].doc => call[q].pc \notin {"asking", "answered"}

\* Variant: a nil field empties its column.
UpdateStatusPlain(d, s, number) == [irn EXCEPT ![d] = [status |-> s, number |-> number]]

\* UpdateStatus: COALESCE leaves the irn that is there.
UpdateStatus(d, s, number) ==
    [irn EXCEPT ![d] = [status |-> s, number |-> @.number \/ number]]

\* ON CONFLICT DO NOTHING on webhook-source:<type>:<record>.
EnqueueWebhookEvent(type, d) == announced' = announced \cup {<<type, d>>}

\* The poller's mark: only a worker's call ends the event.
Mark(p, d, outcome) ==
    irnJob' = IF p \in IrnWorkers THEN [irnJob EXCEPT ![d] = outcome] ELSE irnJob

\* buildIRNRequest fails: FAILED_FINAL, and the event fails for good.
BuildFails(p) ==
    LET d == call[p].doc IN
    /\ call[p].pc = "read" /\ RowFree(p)
    /\ ~entity.gstin
    /\ irn' = UpdateStatus(d, "FAILED_FINAL", FALSE)
    /\ EnqueueWebhookEvent("einvoice.failed", d)
    /\ Mark(p, d, "dead")
    /\ call' = [call EXCEPT ![p] = Idle]
    /\ UNCHANGED <<entity, registered, trouble, cut>>

\* resolveProvider fails: stored credentials that cannot be decrypted.
ResolveFails(p) ==
    LET d == call[p].doc IN
    /\ call[p].pc = "read" /\ RowFree(p)
    /\ entity.gstin /\ entity.credentials = "unreadable"
    /\ irn' = UpdateStatus(d, "FAILED_RETRYABLE", FALSE)
    /\ call' = [call EXCEPT ![p] = Idle]
    /\ UNCHANGED <<entity, irnJob, registered, announced, trouble, cut>>

\* resolveProvider: stored credentials, else the server's own provider.
ResolveProvider == IF entity.credentials = "stored" THEN "nic" ELSE "default"

\* SUBMITTING, uncommitted: the row is locked and the provider is asked.
Submit(p) ==
    /\ call[p].pc = "read" /\ RowFree(p)
    /\ entity.gstin /\ entity.credentials # "unreadable"
    /\ call' = [call EXCEPT ![p] = [@ EXCEPT !.pc = "asking", !.provider = ResolveProvider]]
    /\ UNCHANGED <<entity, irn, irnJob, registered, announced, trouble, cut>>

Answered(p, a) == call' = [call EXCEPT ![p] = [@ EXCEPT !.pc = "answered", !.answer = a]]

\* The built-in provider gives a document the same IRN every time, NIC only
\* the first time: after that it refuses the document as a duplicate.
GenerateIRN(p) ==
    LET d == call[p].doc IN
    /\ call[p].pc = "asking"
    /\ Answered(p, IF call[p].provider = "nic" /\ d \in registered THEN "error" ELSE "irn")
    /\ registered' = registered \cup {d}
    /\ UNCHANGED <<entity, irn, irnJob, announced, trouble, cut>>

\* The call fails, before the portal has registered the document or after.
ProviderFails(p) ==
    /\ call[p].pc = "asking"
    /\ trouble < MaxTrouble
    /\ trouble' = trouble + 1
    /\ Answered(p, "error")
    /\ registered' \in {registered, registered \cup {call[p].doc}}
    /\ UNCHANGED <<entity, irn, irnJob, announced, cut>>

\* Variant: the webhook event is queued on failures too.
RecordRefusalLoudly(p) ==
    LET d == call[p].doc IN
    /\ call[p].pc = "answered" /\ call[p].answer = "error"
    /\ irn' = UpdateStatus(d, "FAILED_RETRYABLE", FALSE)
    /\ EnqueueWebhookEvent("einvoice.generated", d)
    /\ call' = [call EXCEPT ![p] = Idle]
    /\ UNCHANGED <<entity, irnJob, registered, trouble, cut>>

\* FAILED_RETRYABLE commits with the failed attempt.
RecordRefusal(p) ==
    LET d == call[p].doc IN
    /\ call[p].pc = "answered" /\ call[p].answer = "error"
    /\ irn' = UpdateStatus(d, "FAILED_RETRYABLE", FALSE)
    /\ call' = [call EXCEPT ![p] = Idle]
    /\ UNCHANGED <<entity, irnJob, registered, announced, trouble, cut>>

\* GENERATED, the webhook event and the poller's DONE commit together.
RecordIRN(p) ==
    LET d == call[p].doc IN
    /\ call[p].pc = "answered" /\ call[p].answer = "irn"
    /\ irn' = UpdateStatus(d, "GENERATED", TRUE)
    /\ EnqueueWebhookEvent("einvoice.generated", d)
    /\ Mark(p, d, "done")
    /\ call' = [call EXCEPT ![p] = Idle]
    /\ UNCHANGED <<entity, registered, trouble, cut>>

\* The process dies or its transaction fails to commit: nothing is recorded,
\* and a worker's event stays PROCESSING (see Outbox).
CutOff(p) ==
    /\ call[p].pc # "idle"
    /\ cut < MaxCut
    /\ cut' = cut + 1
    /\ Mark(p, call[p].doc, "stuck")
    /\ call' = [call EXCEPT ![p] = Idle]
    /\ UNCHANGED <<entity, irn, registered, announced, trouble>>

Attempt(p) == BuildFails(p) \/ ResolveFails(p) \/ Submit(p) \/ GenerateIRN(p)
                \/ RecordRefusal(p) \/ RecordIRN(p)

Handle(w) == \E d \in Docs : SkipHandled(w, d) \/ GenerateForDocument(w, d)

EInvoiceNext ==
    \/ SetGSTIN \/ SaveSandboxCredentials \/ DeleteCredentials \/ RotateKey
    \/ \E w \in IrnWorkers : Handle(w)
    \/ \E u \in Users, d \in Docs : RetryDocument(u, d)
    \/ \E p \in Processes : Attempt(p) \/ ProviderFails(p) \/ CutOff(p)

\* Workers poll for ever, a call returns, and an UPDATE that waits for a row is
\* served in its turn (SF); users and settings owe nothing.
EInvoiceFairness ==
    /\ \A w \in IrnWorkers : WF_irnVars(Handle(w))
    /\ \A p \in Processes : SF_irnVars(Attempt(p))

EInvoiceSpec == EInvoiceInit /\ [][EInvoiceNext]_irnVars /\ EInvoiceFairness
-----------------------------------------------------------------------------
(* Properties *)

\* Every end of the event has been announced, and truly: a record has its IRN
\* exactly when einvoice.generated is queued for it, and an event ends without
\* one only after einvoice.failed (service.go:329-393).
OutcomeAnnounced ==
    \A d \in Docs :
        /\ irn[d].number <=> <<"einvoice.generated", d>> \in announced
        /\ irn[d].number => d \in registered
        /\ irnJob[d] \in {"done", "dead"} /\ ~irn[d].number
             => <<"einvoice.failed", d>> \in announced

\* An IRN the portal gave is never lost from its record, though a second
\* attempt that read the record earlier may write a failure over it.
IrnIsKept == [][\A d \in Docs : irn[d].number => irn'[d].number]_irnVars

\* Every queued event ends, whoever else retries its record, unless NIC goes on
\* being asked for a document it has already registered (an answer was lost, or
\* another attempt was quicker) or the credentials cannot be read again and again.
EventuallyFiled ==
    \A d \in Docs :
        \/ <>(irnJob[d] # "open")
        \/ []<>(d \in registered /\ entity.credentials = "stored")
        \/ []<>(entity.credentials = "unreadable")
=============================================================================
