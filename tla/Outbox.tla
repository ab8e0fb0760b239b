-------------------------------- MODULE Outbox --------------------------------
(***************************************************************************)
(* The transactional outbox: internal/platform/outbox and the table and    *)
(* function of migrations/0023_outbox.up.sql.                              *)
(*                                                                         *)
(* Callers (sales.FinalizeDocument, the notification request, ...) insert  *)
(* event rows inside their own database transaction.  The workers of       *)
(* apps/worker each run Poller.ProcessOnce in a loop: claim one due row in *)
(* a statement of its own, then open a second transaction in which the     *)
(* event's handler runs and the row is marked DONE or FAILED.  A handler   *)
(* may itself enqueue events (webhook fan-out, einvoice.generated).        *)
(*                                                                         *)
(* Abstractions: an event is its (organisation, idempotency key); payload, *)
(* event type and error text are left out; next_attempt_at is seen from    *)
(* now() as "due", "backoff" (in the future, comes due) or "never" (the    *)
(* hundred years of Permanent); of the rows that are due, any may be       *)
(* claimed (created_at order is one of the orders explored).               *)
(***************************************************************************)
EXTENDS Naturals, FiniteSets

CONSTANTS
    Keys,          \* the events: (organisation_id, idempotency_key)
    Txs,           \* transactions of the callers that enqueue
    Workers,       \* apps/worker processes
    NoKey,         \* a worker that holds no event
    MaxAttempts,   \* bound: a handler fails transiently fewer times than this
    MaxLost        \* bound: how many worker transactions are lost

ASSUME ActorsAssumption == Txs \cap Workers = {}
ASSUME NoKeyAssumption == NoKey \notin Keys
ASSUME BoundsAssumption == MaxAttempts \in Nat \ {0} /\ MaxLost \in Nat

VARIABLES
    status,     \* status column; "NONE": no such row
    attempts,   \* attempts column
    wait,       \* next_attempt_at seen from now()
    phase,      \* each caller's transaction
    staged,     \* rows an open transaction has inserted and not yet committed
    asked,      \* keys an open transaction has enqueued, inserted or not
    pc,         \* each worker: idle, holding a claim, its handler running or answered
    holds,      \* the event a worker claimed
    verdict,    \* what the handler returned
    promised,   \* history: keys enqueued by a transaction that committed
    runs,       \* history: how often the event's handler was started
    applied,    \* history: how often its successful writes were committed
    lost        \* history: claims and worker transactions lost so far

row == <<status, attempts, wait>>
callers == <<phase>>
buffers == <<staged, asked>>
polls == <<pc, holds, verdict>>
history == <<promised, runs, applied, lost>>
vars == <<row, callers, buffers, polls, history>>

Actors == Txs \cup Workers
Statuses == {"NONE", "PENDING", "PROCESSING", "DONE", "FAILED"}
Waits == {"due", "backoff", "never"}
Verdicts == {"none", "ok", "transient", "permanent"}

Rows == {k \in Keys : status[k] # "NONE"}

\* FAILED with next_attempt_at a hundred years away.
Dead(k) == status[k] = "FAILED" /\ wait[k] = "never"

Settled(k) == status[k] = "DONE" \/ Dead(k)

TypeOK ==
    /\ status \in [Keys -> Statuses]
    /\ attempts \in [Keys -> Nat]
    /\ wait \in [Keys -> Waits]
    /\ phase \in [Txs -> {"idle", "open", "committed", "rolledback"}]
    /\ staged \in [Actors -> SUBSET Keys]
    /\ asked \in [Actors -> SUBSET Keys]
    /\ pc \in [Workers -> {"idle", "claimed", "handling", "settling"}]
    /\ holds \in [Workers -> Keys \cup {NoKey}]
    /\ verdict \in [Workers -> Verdicts]
    /\ promised \in SUBSET Keys
    /\ runs \in [Keys -> Nat]
    /\ applied \in [Keys -> Nat]
    /\ lost \in Nat

Init ==
    /\ status = [k \in Keys |-> "NONE"]
    /\ attempts = [k \in Keys |-> 0]
    /\ wait = [k \in Keys |-> "due"]
    /\ phase = [t \in Txs |-> "idle"]
    /\ staged = [a \in Actors |-> {}]
    /\ asked = [a \in Actors |-> {}]
    /\ pc = [w \in Workers |-> "idle"]
    /\ holds = [w \in Workers |-> NoKey]
    /\ verdict = [w \in Workers |-> "none"]
    /\ promised = {}
    /\ runs = [k \in Keys |-> 0]
    /\ applied = [k \in Keys |-> 0]
    /\ lost = 0

-----------------------------------------------------------------------------
(* Transactions *)

InTransaction(a) ==
    \/ a \in Txs /\ phase[a] = "open"
    \/ a \in Workers /\ pc[a] = "handling"

\* The status column once the rows an actor inserted are committed.
WithStaged(a) == [k \in Keys |-> IF k \in staged[a] THEN "PENDING" ELSE status[k]]

Forget(a) ==
    /\ staged' = [staged EXCEPT ![a] = {}]
    /\ asked' = [asked EXCEPT ![a] = {}]

Begin(t) ==
    /\ phase[t] = "idle"
    /\ phase' = [phase EXCEPT ![t] = "open"]
    /\ UNCHANGED <<row, buffers, polls, history>>

\* Variant: the insert runs on the pool and not on the caller's transaction.
EnqueueOutside(a, k) ==
    /\ InTransaction(a)
    /\ k \notin asked[a]
    /\ asked' = [asked EXCEPT ![a] = @ \cup {k}]
    /\ status' = [status EXCEPT ![k] = IF @ = "NONE" THEN "PENDING" ELSE @]
    /\ UNCHANGED <<attempts, wait, staged, callers, polls, history>>

\* INSERT ... ON CONFLICT DO NOTHING: waits while another transaction holds
\* an uncommitted row of the same key, and inserts nothing over a committed one.
Enqueue(a, k) ==
    /\ InTransaction(a)
    /\ \A b \in Actors \ {a} : k \notin staged[b]
    /\ k \notin asked[a]
    /\ asked' = [asked EXCEPT ![a] = @ \cup {k}]
    /\ staged' = [staged EXCEPT ![a] = IF status[k] = "NONE" THEN @ \cup {k} ELSE @]
    /\ UNCHANGED <<row, callers, polls, history>>

Commit(t) ==
    /\ phase[t] = "open"
    /\ phase' = [phase EXCEPT ![t] = "committed"]
    /\ status' = WithStaged(t)
    /\ promised' = promised \cup asked[t]
    /\ Forget(t)
    /\ UNCHANGED <<attempts, wait, polls, runs, applied, lost>>

\* An error in the caller, a deadlock victim, or the server going down.
Rollback(t) ==
    /\ phase[t] = "open"
    /\ phase' = [phase EXCEPT ![t] = "rolledback"]
    /\ Forget(t)
    /\ UNCHANGED <<row, polls, history>>

-----------------------------------------------------------------------------
(* Poller.ProcessOnce *)

\* Variant: a claim takes back rows that are being processed.
ClaimableInFlight(k) == status[k] \in {"PENDING", "FAILED", "PROCESSING"} /\ wait[k] = "due"

\* Variant: the poll query looks at new rows only.
ClaimableNew(k) == status[k] = "PENDING" /\ wait[k] = "due"

Claimable(k) == status[k] \in {"PENDING", "FAILED"} /\ wait[k] = "due"

\* Variant: the mark counts the attempt, not the claim.
ClaimUncounted(w, k) ==
    /\ pc[w] = "idle"
    /\ Claimable(k)
    /\ status' = [status EXCEPT ![k] = "PROCESSING"]
    /\ pc' = [pc EXCEPT ![w] = "claimed"]
    /\ holds' = [holds EXCEPT ![w] = k]
    /\ UNCHANGED <<attempts, wait, callers, buffers, verdict, history>>

\* SELECT * FROM outbox_claim_next(): one statement, committed on its own.
Claim(w, k) ==
    /\ pc[w] = "idle"
    /\ Claimable(k)
    /\ status' = [status EXCEPT ![k] = "PROCESSING"]
    /\ attempts' = [attempts EXCEPT ![k] = @ + 1]
    /\ pc' = [pc EXCEPT ![w] = "claimed"]
    /\ holds' = [holds EXCEPT ![w] = k]
    /\ UNCHANGED <<wait, callers, buffers, verdict, history>>

\* RunScoped opens the second transaction and the handler is entered.
Enter(w) ==
    /\ pc[w] = "claimed"
    /\ pc' = [pc EXCEPT ![w] = "handling"]
    /\ runs' = [runs EXCEPT ![holds[w]] = @ + 1]
    /\ UNCHANGED <<row, callers, buffers, holds, verdict, promised, applied, lost>>

\* The handler returns nil, an error, or an error wrapped in Permanent.  An
\* event type without a handler returns a transient error like any other.
Return(w, v) ==
    /\ pc[w] = "handling"
    /\ v = "transient" => attempts[holds[w]] < MaxAttempts
    /\ pc' = [pc EXCEPT ![w] = "settling"]
    /\ verdict' = [verdict EXCEPT ![w] = v]
    /\ UNCHANGED <<row, callers, buffers, holds, history>>

Release(w) ==
    /\ pc' = [pc EXCEPT ![w] = "idle"]
    /\ holds' = [holds EXCEPT ![w] = NoKey]
    /\ verdict' = [verdict EXCEPT ![w] = "none"]
    /\ Forget(w)

\* MarkDone / MarkFailed: the row's columns after the handler's verdict.
MarkStatus(v) == IF v = "ok" THEN "DONE" ELSE "FAILED"

MarkWait(v, was) ==
    CASE v = "transient" -> "backoff"
      [] v = "permanent" -> "never"
      [] OTHER -> was

\* Variant: the handler's writes commit with its verdict but the row is left
\* for another attempt, as if MarkDone were a later transaction.
SettleUnmarked(w) ==
    LET k == holds[w] IN
    /\ pc[w] = "settling"
    /\ status' = [WithStaged(w) EXCEPT ![k] = "FAILED"]
    /\ promised' = promised \cup asked[w]
    /\ applied' = [applied EXCEPT ![k] = IF verdict[w] = "ok" THEN @ + 1 ELSE @]
    /\ Release(w)
    /\ UNCHANGED <<wait, attempts, callers, runs, lost>>

\* The mark and whatever the handler wrote commit together: on a returned
\* error too, the events it enqueued before the error are committed.
Settle(w) ==
    LET k == holds[w] IN
    /\ pc[w] = "settling"
    /\ status' = [WithStaged(w) EXCEPT ![k] = MarkStatus(verdict[w])]
    /\ wait' = [wait EXCEPT ![k] = MarkWait(verdict[w], @)]
    /\ promised' = promised \cup asked[w]
    /\ applied' = [applied EXCEPT ![k] = IF verdict[w] = "ok" THEN @ + 1 ELSE @]
    /\ Release(w)
    /\ UNCHANGED <<attempts, callers, runs, lost>>

\* Variant: a lost transaction takes the event with it.
LoseEvent(w) ==
    /\ pc[w] # "idle"
    /\ lost < MaxLost
    /\ lost' = lost + 1
    /\ status' = [status EXCEPT ![holds[w]] = "NONE"]
    /\ Release(w)
    /\ UNCHANGED <<attempts, wait, callers, promised, runs, applied>>

\* The worker's transaction is lost: the process stops (ctx cancelled at a
\* deploy, a crash), the transaction cannot be opened, a statement of the
\* handler aborts it so that the mark fails too, or the commit fails.
\* Everything rolls back but the claim, which was committed on its own.
LoseTransaction(w) ==
    /\ pc[w] # "idle"
    /\ lost < MaxLost
    /\ lost' = lost + 1
    /\ Release(w)
    /\ UNCHANGED <<row, callers, promised, runs, applied>>

\* now() passes the retry's next_attempt_at.
BackoffElapses(k) ==
    /\ wait[k] = "backoff"
    /\ wait' = [wait EXCEPT ![k] = "due"]
    /\ UNCHANGED <<status, attempts, callers, buffers, polls, history>>

CallerStep(t) == Begin(t) \/ Commit(t) \/ Rollback(t)

WorkerStep(w) ==
    \/ \E k \in Keys : Claim(w, k)
    \/ Enter(w)
    \/ \E v \in Verdicts \ {"none"} : Return(w, v)
    \/ Settle(w)

Next ==
    \/ \E t \in Txs : CallerStep(t)
    \/ \E a \in Actors, k \in Keys : Enqueue(a, k)
    \/ \E w \in Workers : WorkerStep(w) \/ LoseTransaction(w)
    \/ \E k \in Keys : BackoffElapses(k)

Spec == Init /\ [][Next]_vars

\* Poller.Run never stops polling, a handler returns, and time passes.  The
\* callers owe nothing: a request may be abandoned.
Fairness ==
    /\ \A w \in Workers :
         /\ WF_vars(\E k \in Keys : Claim(w, k))
         /\ WF_vars(Enter(w))
         /\ WF_vars(\E v \in Verdicts \ {"none"} : Return(w, v))
         /\ WF_vars(Settle(w))
    /\ \A k \in Keys : WF_vars(BackoffElapses(k))

FairSpec == Spec /\ Fairness
-----------------------------------------------------------------------------
(* Properties *)

\* Enqueueing is atomic with the caller's change (outbox.go:99-104, 1-9): the
\* rows are exactly the keys that committed transactions enqueued.  An event
\* is not lost when its key was already being inserted by another transaction
\* that then rolled back, and none outlives the transaction that wrote it.
QueuedIffCommitted == Rows = promised

\* FOR UPDATE SKIP LOCKED hands an event to one worker at a time: no two
\* workers ever run the handler of the same event concurrently, and the event
\* a worker holds stays PROCESSING under it.
OneWorkerPerEvent ==
    \A v, w \in Workers :
        /\ pc[w] # "idle" => status[holds[w]] = "PROCESSING"
        /\ v # w /\ pc[v] # "idle" /\ pc[w] # "idle" => holds[v] # holds[w]

\* Marking is atomic with the handler's writes (poller.go:25-32): an event is
\* DONE exactly when its handler's successful writes were committed, and they
\* were committed once, whatever was lost or retried in between.
AppliedOnce ==
    \A k \in Keys : applied[k] = IF status[k] = "DONE" THEN 1 ELSE 0

\* Every start of a handler was counted by a claim of its own before it, also when
\* the claim's worker died in between: a handler that gives up at the n-th attempt
\* (webhooks' maxDeliveryAttempts) is never started an n+1st time (outbox_claim_next).
AttemptsCoverRuns ==
    \A k \in Keys :
        /\ runs[k] <= attempts[k]
        /\ \A w \in Workers : pc[w] = "claimed" /\ holds[w] = k => runs[k] < attempts[k]

\* An outcome is final: no step of anyone claims, reopens or deletes a row that
\* is DONE or was failed permanently.
OutcomeIsFinal ==
    [][\A k \in Keys : Settled(k) => UNCHANGED <<status[k], attempts[k], wait[k]>>]_vars

\* The outbox keeps the promise of DurableJobs.
JobOf(k) ==
    CASE status[k] = "NONE" -> "absent"
      [] status[k] = "DONE" -> "done"
      [] Dead(k) -> "dead"
      [] OTHER -> "open"

Jobs == INSTANCE DurableJobs WITH job <- [k \in Keys |-> JobOf(k)]

ImplementsDurableJobs == Jobs!Spec

\* The claim of k was committed and its worker is gone.
Abandoned(k) == status[k] = "PROCESSING" /\ \A w \in Workers : pc[w] = "idle" \/ holds[w] # k

\* Every queued event is eventually settled, DONE or FAILED for good: the poll
\* loop retries a transient failure until the handler gives a final answer.  The
\* exception is the event whose worker was lost after the claim committed.
EventuallySettled ==
    \A k \in Keys : (status[k] = "PENDING") ~> (Settled(k) \/ Abandoned(k))

=============================================================================
