--------------------------- MODULE AutomationProofs ---------------------------
(***************************************************************************)
(* Theorems about what happens without anybody at the keyboard: the outbox *)
(* with its pollers, the shop's orders, the worker's loops.  They hold for *)
(* every set of events, callers, visitors, requests, products, plans,      *)
(* schedules and worker processes, and every bound on retries and losses.  *)
(***************************************************************************)
EXTENDS Outbox, Shop, FieldService, Reminders, Recurring, SumsProofs

-----------------------------------------------------------------------------
(* Outbox *)

\* What an open transaction has buffered: its uncommitted rows are its own, no
\* committed row has their keys, and every other key it enqueued has a row.
Buffers ==
    /\ \A a \in Actors :
         /\ \A k \in staged[a] : status[k] = "NONE"
         /\ \A k \in asked[a] : k \in staged[a] \/ status[k] # "NONE"
         /\ staged[a] \subseteq asked[a]
    /\ \A a, b \in Actors : a # b => staged[a] \cap staged[b] = {}

\* next_attempt_at lies in the future only for a FAILED row.
WaitsWhenFailed == \A k \in Keys : status[k] # "FAILED" => wait[k] = "due"

Holding == \A w \in Workers : pc[w] # "idle" => holds[w] \in Keys

OutboxInv ==
    /\ TypeOK
    /\ Buffers
    /\ WaitsWhenFailed
    /\ Holding
    /\ QueuedIffCommitted
    /\ OneWorkerPerEvent
    /\ AppliedOnce

\* The inductive invariant holds initially: there is no row and no transaction.
LEMMA OutboxInit == Init => OutboxInv
BY DEF Init, OutboxInv, TypeOK, Buffers, WaitsWhenFailed, Holding, QueuedIffCommitted,
       OneWorkerPerEvent, AppliedOnce, Rows, Actors, Statuses, Waits, Verdicts

\* Every step of callers, workers and time preserves the inductive invariant.
LEMMA OutboxNext == OutboxInv /\ [Next]_vars => OutboxInv'
<1> SUFFICES ASSUME OutboxInv, [Next]_vars PROVE OutboxInv'
  OBVIOUS
<1> USE DEF OutboxInv, Actors, Statuses, Waits, Verdicts
<1>1. ASSUME NEW t \in Txs, Begin(t) PROVE OutboxInv'
  BY <1>1 DEF Begin, TypeOK, Buffers, WaitsWhenFailed, Holding, QueuedIffCommitted,
     OneWorkerPerEvent, AppliedOnce, Rows, row, buffers, polls, history
<1>2. ASSUME NEW t \in Txs, Commit(t) PROVE OutboxInv'
  <2> USE <1>2 DEF Commit, WithStaged, Forget, polls
  <2>1. TypeOK'
    BY DEF TypeOK
  <2>2. Buffers'
    BY DEF TypeOK, Buffers
  <2>3. WaitsWhenFailed'
    BY DEF TypeOK, Buffers, WaitsWhenFailed
  <2>4. Holding' /\ OneWorkerPerEvent'
    BY DEF TypeOK, Buffers, Holding, OneWorkerPerEvent
  <2>5. QueuedIffCommitted'
    BY DEF TypeOK, Buffers, QueuedIffCommitted, Rows
  <2>6. AppliedOnce'
    BY DEF TypeOK, Buffers, AppliedOnce
  <2> QED BY <2>1, <2>2, <2>3, <2>4, <2>5, <2>6
<1>3. ASSUME NEW t \in Txs, Rollback(t) PROVE OutboxInv'
  BY <1>3 DEF Rollback, Forget, TypeOK, Buffers, WaitsWhenFailed, Holding,
     QueuedIffCommitted, OneWorkerPerEvent, AppliedOnce, Rows, row, polls, history
<1>4. ASSUME NEW a \in Actors, NEW k \in Keys, Enqueue(a, k) PROVE OutboxInv'
  <2> USE <1>4 DEF Enqueue, row, callers, polls, history
  <2>1. TypeOK'
    BY DEF TypeOK
  <2>2. Buffers'
    BY DEF TypeOK, Buffers
  <2> QED BY <2>1, <2>2 DEF WaitsWhenFailed, Holding, QueuedIffCommitted, Rows,
                            OneWorkerPerEvent, AppliedOnce
<1>5. ASSUME NEW w \in Workers, NEW k \in Keys, Claim(w, k) PROVE OutboxInv'
  <2> USE <1>5 DEF Claim, Claimable, callers, buffers, history
  <2>1. TypeOK'
    BY DEF TypeOK
  <2>2. Buffers'
    BY DEF TypeOK, Buffers
  <2>3. WaitsWhenFailed' /\ AppliedOnce'
    BY DEF TypeOK, WaitsWhenFailed, AppliedOnce
  <2>4. Holding' /\ OneWorkerPerEvent'
    BY DEF TypeOK, Holding, OneWorkerPerEvent
  <2>5. QueuedIffCommitted'
    BY DEF TypeOK, QueuedIffCommitted, Rows
  <2> QED BY <2>1, <2>2, <2>3, <2>4, <2>5
<1>6. ASSUME NEW w \in Workers, Enter(w) PROVE OutboxInv'
  BY <1>6 DEF Enter, TypeOK, Buffers, WaitsWhenFailed, Holding, QueuedIffCommitted,
     OneWorkerPerEvent, AppliedOnce, Rows, row, callers, buffers
<1>7. ASSUME NEW w \in Workers, NEW v \in Verdicts \ {"none"}, Return(w, v) PROVE OutboxInv'
  BY <1>7 DEF Return, TypeOK, Buffers, WaitsWhenFailed, Holding, QueuedIffCommitted,
     OneWorkerPerEvent, AppliedOnce, Rows, row, callers, buffers, history
<1>8. ASSUME NEW w \in Workers, Settle(w) PROVE OutboxInv'
  <2> USE <1>8 DEF Settle, Release, Forget, WithStaged, MarkStatus, MarkWait, callers
  <2>1. holds[w] \in Keys /\ status[holds[w]] = "PROCESSING" /\ pc[w] # "idle"
    BY DEF Holding, OneWorkerPerEvent
  <2>2. TypeOK'
    BY <2>1 DEF TypeOK
  <2>3. Buffers'
    BY <2>1 DEF TypeOK, Buffers
  <2>4. WaitsWhenFailed'
    BY <2>1 DEF TypeOK, Buffers, WaitsWhenFailed
  <2>5. Holding' /\ OneWorkerPerEvent'
    BY <2>1 DEF TypeOK, Buffers, Holding, OneWorkerPerEvent
  <2>6. QueuedIffCommitted'
    BY <2>1 DEF TypeOK, Buffers, QueuedIffCommitted, Rows
  <2>7. AppliedOnce'
    BY <2>1 DEF TypeOK, Buffers, AppliedOnce
  <2> QED BY <2>2, <2>3, <2>4, <2>5, <2>6, <2>7
<1>9. ASSUME NEW w \in Workers, LoseTransaction(w) PROVE OutboxInv'
  BY <1>9 DEF LoseTransaction, Release, Forget, TypeOK, Buffers, WaitsWhenFailed,
     Holding, QueuedIffCommitted, OneWorkerPerEvent, AppliedOnce, Rows, row, callers
<1>10. ASSUME NEW k \in Keys, BackoffElapses(k) PROVE OutboxInv'
  BY <1>10 DEF BackoffElapses, TypeOK, Buffers, WaitsWhenFailed, Holding,
     QueuedIffCommitted, OneWorkerPerEvent, AppliedOnce, Rows, callers, buffers,
     polls, history
<1>11. CASE UNCHANGED vars
  BY <1>11 DEF vars, row, callers, buffers, polls, history, TypeOK, Buffers,
     WaitsWhenFailed, Holding, QueuedIffCommitted, OneWorkerPerEvent, AppliedOnce, Rows
<1> QED
  BY <1>1, <1>2, <1>3, <1>4, <1>5, <1>6, <1>7, <1>8, <1>9, <1>10, <1>11
  DEF Next, CallerStep, WorkerStep

\* The inductive invariant is an invariant of the specification.
THEOREM OutboxInvariance == Spec => []OutboxInv
BY OutboxInit, OutboxNext, PTL DEF Spec

\* Type correctness, for every instance.
THEOREM OutboxTypes == Spec => []TypeOK
BY OutboxInvariance, PTL DEF OutboxInv

\* Enqueueing is atomic with the caller's change: the rows are exactly the keys
\* that committed transactions enqueued, through every conflict and rollback.
THEOREM NothingLostOrInvented == Spec => []QueuedIffCommitted
BY OutboxInvariance, PTL DEF OutboxInv

\* No two workers run the handler of one event at a time.
THEOREM ExclusiveClaims == Spec => []OneWorkerPerEvent
BY OutboxInvariance, PTL DEF OutboxInv

\* An event is DONE exactly when its handler's writes were committed, once.
THEOREM EffectsOnce == Spec => []AppliedOnce
BY OutboxInvariance, PTL DEF OutboxInv

\* A claim counts an attempt, entering the handler uses one up, and no other worker
\* has one of the same event to use.
LEMMA CountedNext == OutboxInv /\ AttemptsCoverRuns /\ [Next]_vars => AttemptsCoverRuns'
<1> SUFFICES ASSUME OutboxInv, AttemptsCoverRuns, [Next]_vars PROVE AttemptsCoverRuns'
  OBVIOUS
<1> USE DEF OutboxInv, AttemptsCoverRuns
<1>1. ASSUME NEW t \in Txs, CallerStep(t) PROVE AttemptsCoverRuns'
  BY <1>1 DEF CallerStep, Begin, Commit, Rollback, row, polls, history
<1>2. ASSUME NEW a \in Actors, NEW k \in Keys, Enqueue(a, k) PROVE AttemptsCoverRuns'
  BY <1>2 DEF Enqueue, row, polls, history
<1>3. ASSUME NEW w \in Workers, NEW k \in Keys, Claim(w, k) PROVE AttemptsCoverRuns'
  BY <1>3 DEF Claim, TypeOK, history
<1>4. ASSUME NEW w \in Workers, Enter(w) PROVE AttemptsCoverRuns'
  <2>1. holds[w] \in Keys /\ \A v \in Workers \ {w} : pc[v] # "idle" => holds[v] # holds[w]
    BY <1>4 DEF Enter, Holding, OneWorkerPerEvent
  <2> QED BY <1>4, <2>1 DEF Enter, TypeOK, row
<1>5. ASSUME NEW w \in Workers, NEW v \in Verdicts \ {"none"}, Return(w, v) PROVE AttemptsCoverRuns'
  BY <1>5 DEF Return, TypeOK, row, history
<1>6. ASSUME NEW w \in Workers, Settle(w) \/ LoseTransaction(w) PROVE AttemptsCoverRuns'
  BY <1>6 DEF Settle, LoseTransaction, Release, TypeOK, row
<1>7. ASSUME NEW k \in Keys, BackoffElapses(k) PROVE AttemptsCoverRuns'
  BY <1>7 DEF BackoffElapses, polls, history
<1>8. CASE UNCHANGED vars
  BY <1>8 DEF vars, row, polls, history
<1> QED BY <1>1, <1>2, <1>3, <1>4, <1>5, <1>6, <1>7, <1>8 DEF Next, WorkerStep

\* No handler is started more often than its event was claimed, whatever claims and
\* transactions are lost (outbox_claim_next; poller.go, ProcessOnce).
THEOREM StartsAreCounted == Spec => []AttemptsCoverRuns
<1>1. Init => AttemptsCoverRuns
  BY DEF Init, AttemptsCoverRuns
<1> QED BY <1>1, CountedNext, OutboxInvariance, PTL DEF Spec

\* A settled event is never claimed, reopened or deleted.
THEOREM FinalOutcomes == Spec => OutcomeIsFinal
<1>1. ASSUME OutboxInv, [Next]_vars, NEW k \in Keys, Settled(k)
      PROVE UNCHANGED <<status[k], attempts[k], wait[k]>>
  <2> USE <1>1 DEF Settled, Dead
  <2>0. UNCHANGED row => UNCHANGED <<status[k], attempts[k], wait[k]>>
    BY DEF row
  <2>1. ASSUME NEW t \in Txs, CallerStep(t)
        PROVE UNCHANGED <<status[k], attempts[k], wait[k]>>
    BY <2>0, <2>1 DEF CallerStep, Begin, Commit, Rollback, WithStaged, OutboxInv, TypeOK,
       Buffers, Actors
  <2>2. ASSUME NEW a \in Actors, NEW j \in Keys, Enqueue(a, j)
        PROVE UNCHANGED <<status[k], attempts[k], wait[k]>>
    BY <2>0, <2>2 DEF Enqueue
  <2>3. ASSUME NEW w \in Workers, NEW j \in Keys, Claim(w, j)
        PROVE UNCHANGED <<status[k], attempts[k], wait[k]>>
    BY <2>3 DEF Claim, Claimable, OutboxInv, TypeOK, WaitsWhenFailed
  <2>4. ASSUME NEW w \in Workers, Settle(w)
        PROVE UNCHANGED <<status[k], attempts[k], wait[k]>>
    <3>1. holds[w] \in Keys /\ status[holds[w]] = "PROCESSING"
      BY <2>4 DEF Settle, OutboxInv, Holding, OneWorkerPerEvent
    <3>2. k \notin staged[w]
      BY DEF OutboxInv, Buffers, Actors
    <3> QED BY <2>4, <3>1, <3>2 DEF Settle, WithStaged, OutboxInv, TypeOK
  <2>5. ASSUME NEW w \in Workers,
               Enter(w) \/ LoseTransaction(w)
                 \/ \E v \in Verdicts \ {"none"} : Return(w, v)
        PROVE UNCHANGED <<status[k], attempts[k], wait[k]>>
    BY <2>0, <2>5 DEF Enter, LoseTransaction, Return
  <2>6. ASSUME NEW j \in Keys, BackoffElapses(j)
        PROVE UNCHANGED <<status[k], attempts[k], wait[k]>>
    BY <2>6 DEF BackoffElapses, OutboxInv, TypeOK, WaitsWhenFailed
  <2>7. CASE UNCHANGED vars
    BY <2>0, <2>7 DEF vars
  <2> QED BY <2>1, <2>2, <2>3, <2>4, <2>5, <2>6, <2>7 DEF Next, WorkerStep
<1>2. OutboxInv /\ [Next]_vars
        => [\A k \in Keys : Settled(k) => UNCHANGED <<status[k], attempts[k], wait[k]>>]_vars
  BY <1>1
<1> QED BY <1>2, OutboxInvariance, PTL DEF Spec, OutcomeIsFinal

-----------------------------------------------------------------------------
(* OutboxRefinement *)

\* The initial states map to the abstract initial states.
LEMMA OutboxInitRefines == Init => Jobs!Init
<1> SUFFICES ASSUME Init PROVE Jobs!Init
  OBVIOUS
<1>1. ASSUME NEW k \in Keys PROVE JobOf(k) = "absent"
  <2>1. status[k] = "NONE"
    BY DEF Init
  <2> QED BY <2>1 DEF JobOf, Dead
<1> QED BY <1>1 DEF Jobs!Init

\* Every step maps to a commit of the abstract queue, to the end of a job, or
\* to no step at all.
LEMMA OutboxStepRefines == OutboxInv /\ [Next]_vars => [Jobs!Next]_[k \in Keys |-> JobOf(k)]
<1> SUFFICES ASSUME OutboxInv, [Next]_vars
             PROVE  [Jobs!Next]_[k \in Keys |-> JobOf(k)]
  OBVIOUS
<1> DEFINE job == [k \in Keys |-> JobOf(k)]
<1>0. UNCHANGED row => UNCHANGED job
  BY DEF row, JobOf, Dead
<1>1. ASSUME NEW t \in Txs, Commit(t) PROVE [Jobs!Next]_job
  <2>1. staged[t] \in SUBSET Keys
    BY DEF OutboxInv, TypeOK, Actors
  <2>2. ASSUME NEW k \in Keys
        PROVE JobOf(k)' = IF k \in staged[t] /\ JobOf(k) = "absent" THEN "open" ELSE JobOf(k)
    BY <1>1 DEF Commit, WithStaged, JobOf, Dead, OutboxInv, TypeOK, Buffers, Actors
  <2>3. Jobs!Submit(staged[t])
    BY <2>2 DEF Jobs!Submit, Jobs!Opened
  <2> QED BY <2>1, <2>3 DEF Jobs!Next
<1>2. ASSUME NEW w \in Workers, NEW k \in Keys, Claim(w, k) PROVE [Jobs!Next]_job
  <2>1. ASSUME NEW j \in Keys PROVE JobOf(j)' = JobOf(j)
    BY <1>2 DEF Claim, Claimable, JobOf, Dead, OutboxInv, TypeOK
  <2> QED BY <2>1
<1>3. ASSUME NEW w \in Workers, Settle(w) PROVE [Jobs!Next]_job
  <2>0. PICK h \in Keys : h = holds[w]
    BY <1>3 DEF Settle, OutboxInv, Holding
  <2>1. status[h] = "PROCESSING" /\ wait[h] = "due"
    BY <1>3, <2>0 DEF Settle, OutboxInv, OneWorkerPerEvent, WaitsWhenFailed
  <2>2. staged[w] \in SUBSET Keys /\ verdict[w] \in Verdicts
    BY DEF OutboxInv, TypeOK, Actors
  <2>3. ASSUME NEW k \in Keys, k # h
        PROVE JobOf(k)' = IF k \in staged[w] /\ JobOf(k) = "absent" THEN "open" ELSE JobOf(k)
    BY <1>3, <2>0, <2>1, <2>3 DEF Settle, WithStaged, JobOf, Dead, OutboxInv, TypeOK, Buffers, Actors
  <2>4. JobOf(h) = "open"
    BY <2>1 DEF JobOf, Dead
  <2>5. status'[h] = MarkStatus(verdict[w]) /\ wait'[h] = MarkWait(verdict[w], "due")
    BY <1>3, <2>0, <2>1 DEF Settle, WithStaged, OutboxInv, TypeOK
  <2>6. CASE verdict[w] \in {"ok", "permanent"}
    <3> DEFINE outcome == IF verdict[w] = "ok" THEN "done" ELSE "dead"
    <3>1. JobOf(h)' = outcome
      BY <2>5, <2>6 DEF JobOf, Dead, MarkStatus, MarkWait
    <3>2. Jobs!Finish(h, outcome, staged[w])
      BY <2>1, <2>3, <2>4, <3>1 DEF Jobs!Finish, Jobs!Opened
    <3> QED BY <2>1, <2>2, <3>2 DEF Jobs!Next
  <2>7. CASE verdict[w] \notin {"ok", "permanent"}
    <3>1. JobOf(h)' = "open"
      BY <2>2, <2>5, <2>7 DEF JobOf, Dead, MarkStatus, MarkWait, Verdicts
    <3>2. Jobs!Submit(staged[w])
      BY <2>1, <2>3, <2>4, <3>1 DEF Jobs!Submit, Jobs!Opened
    <3> QED BY <2>2, <3>2 DEF Jobs!Next
  <2> QED BY <2>6, <2>7
<1>4. ASSUME NEW k \in Keys, BackoffElapses(k) PROVE [Jobs!Next]_job
  <2>1. ASSUME NEW j \in Keys PROVE JobOf(j)' = JobOf(j)
    BY <1>4 DEF BackoffElapses, JobOf, Dead, OutboxInv, TypeOK, WaitsWhenFailed
  <2> QED BY <2>1
<1>5. ASSUME NEW t \in Txs, Begin(t) \/ Rollback(t) PROVE UNCHANGED job
  BY <1>0, <1>5 DEF Begin, Rollback
<1>6. ASSUME NEW a \in Actors, NEW k \in Keys, Enqueue(a, k) PROVE UNCHANGED job
  BY <1>0, <1>6 DEF Enqueue
<1>7. ASSUME NEW w \in Workers,
             Enter(w) \/ LoseTransaction(w)
               \/ \E v \in Verdicts \ {"none"} : Return(w, v)
      PROVE UNCHANGED job
  BY <1>0, <1>7 DEF Enter, LoseTransaction, Return
<1>8. CASE UNCHANGED vars
  BY <1>0, <1>8 DEF vars
<1> QED
  BY <1>1, <1>2, <1>3, <1>4, <1>5, <1>6, <1>7, <1>8 DEF Next, CallerStep, WorkerStep

\* The outbox implements the abstract queue of durable jobs: what a committed
\* transaction submitted exists, ends at most once and with one outcome, in
\* spite of crashes, lost transactions, retries and conflicting keys.
THEOREM OutboxRefinement == Spec => ImplementsDurableJobs
BY OutboxInitRefines, OutboxStepRefines, OutboxInvariance, PTL DEF Spec, ImplementsDurableJobs, Jobs!Spec

-----------------------------------------------------------------------------
(* Shop *)

Visits ==
    [at : {"away", "customer", "party", "document", "lines", "order", "done"}, email : Emails,
     lines : SUBSET Line, added : SUBSET Line, known : BOOLEAN]
SalesOrders == [status : {"none", "DRAFT", "FINALIZED", "CANCELLED"}, lines : SUBSET Line]
Orders == [status : OrderStatuses \cup {"none"}, total : Nat, invoice : Nat]
ClerkStates == [at : {"idle", "finalize", "convert", "remember"}, doc : {"none", "DRAFT", "FINALIZED", "CANCELLED"} \cup Nat,
                order : Visitors]

ShopTyped ==
    /\ priceOf \in [Products -> Prices \cup {0}] /\ parties \in [Emails -> Nat]
    /\ visitor \in [Visitors -> Visits] /\ salesOrder \in [Visitors -> SalesOrders]
    /\ order \in [Visitors -> Orders] /\ made \in [Visitors -> Nat] /\ clerk \in [Clerks -> ClerkStates]

\* The lines of a visitor's cart become those of the sales order, one by one, and then
\* there is an order; whoever edits the document changes its lines alone.
CartFollowed ==
    \A v \in Visitors :
        /\ IsFiniteSet(visitor[v].lines) /\ visitor[v].added \subseteq visitor[v].lines
        /\ visitor[v].at \in {"customer", "party", "document"} => visitor[v].added = {}
        /\ visitor[v].at \in {"lines", "order"} => salesOrder[v].lines = visitor[v].added \/ v \in edited
        /\ visitor[v].at = "order" => visitor[v].added = visitor[v].lines
        /\ visitor[v].at # "done" => order[v].status = "none"
        /\ order[v].status # "none" =>
             /\ salesOrder[v].lines = visitor[v].lines \/ v \in edited
             /\ order[v].total = TotalOf(visitor[v].lines)

Looking(v, e) == visitor[v].at \in {"customer", "party"} /\ visitor[v].email = e

\* While one visitor at a time looks for the customer of an address, what it found holds.
OneLooks ==
    \A e \in Emails \ together :
        /\ parties[e] <= 1
        /\ \A u, v \in Visitors : Looking(u, e) /\ Looking(v, e) => u = v
        /\ \A v \in Visitors : visitor[v].at = "party" /\ visitor[v].email = e => (visitor[v].known <=> parties[e] > 0)

AtWork(c, v) == clerk[c].at # "idle" /\ clerk[c].order = v

\* Orders that more than one hand may have invoiced.
Excused == shared \cup billed

\* Requests of the team work on orders that were accepted; while one at a time does, and
\* nobody converts the document in the sales module, what it read of the invoice holds.
OneInvoices ==
    /\ \A v \in Visitors : /\ order[v].invoice <= made[v]
                           /\ order[v].status \in {"none", "NEW"} =>
                                order[v].invoice = 0 /\ (made[v] = 0 \/ v \in billed)
    /\ \A c \in Clerks : clerk[c].at # "idle" => ~(order[clerk[c].order].status \in {"none", "NEW"})
    /\ \A c \in Clerks : clerk[c].at = "remember" => clerk[c].doc \in 1..made[clerk[c].order]
    /\ \A v \in Visitors \ Excused :
         /\ \A c, d \in Clerks : AtWork(c, v) /\ AtWork(d, v) => c = d
         /\ \A c \in Clerks : AtWork(c, v) => /\ order[v].status # "CANCELLED" /\ order[v].invoice = 0
                                              /\ made[v] = IF clerk[c].at = "remember" THEN 1 ELSE 0
         /\ (\A c \in Clerks : ~AtWork(c, v)) => made[v] = order[v].invoice
         /\ made[v] <= 1 /\ (order[v].status = "CANCELLED" => made[v] = 0)

ShopInv == ShopTyped /\ CartFollowed /\ OneLooks /\ OneInvoices

LEMMA ShopInvHolds == ShopInv => OrdersInvoicedOnce
<1> SUFFICES ASSUME ShopInv PROVE OrdersInvoicedOnce
  OBVIOUS
<1> USE DEF ShopInv
<1>1. ShopTypeOK
  <2>1. \A v \in Visitors : /\ visitor[v] \in Visits /\ salesOrder[v] \in SalesOrders /\ order[v] \in Orders
                            /\ made[v] \in Nat /\ order[v].invoice \in 0..made[v]
    BY DEF ShopTyped, OneInvoices, Orders
  <2>2. \A c \in Clerks : clerk[c].at \in {"idle", "finalize", "convert", "remember"}
    BY DEF ShopTyped, ClerkStates
  <2>3. \A p \in Products : priceOf[p] \in Prices \cup {0}
    BY DEF ShopTyped
  <2> QED BY <2>1, <2>2, <2>3 DEF ShopTypeOK, Visits, SalesOrders, Orders, CartFollowed, OneInvoices
<1>2. OrderIsItsDocument
  BY DEF OrderIsItsDocument, CartFollowed, TotalOf
<1>3. OneCustomerPerEmail /\ InvoicedOnceUnlessShared /\ CancelledIsNotInvoiced
  BY DEF OneCustomerPerEmail, InvoicedOnceUnlessShared, CancelledIsNotInvoiced, OneLooks, OneInvoices, Excused
<1> QED BY <1>1, <1>2, <1>3 DEF OrdersInvoicedOnce

LEMMA FirstOnes == NoVisit \in Visits /\ NoVisit.at = "away" /\ NoVisit.lines = {} /\ NoVisit.added = {}
                   /\ NoClerk \in ClerkStates /\ NoClerk.at = "idle"
BY ShopAssumption DEF NoVisit, NoClerk, Visits, ClerkStates

LEMMA ShopInitInv == ShopInit => ShopInv
<1> SUFFICES ASSUME ShopInit PROVE ShopInv
  OBVIOUS
<1>1. /\ \A v \in Visitors : /\ visitor[v] = NoVisit /\ order[v].status = "none" /\ order[v].invoice = 0
                             /\ made[v] = 0 /\ IsFiniteSet(visitor[v].lines)
      /\ \A c \in Clerks : clerk[c] = NoClerk
      /\ \A e \in Emails : parties[e] = 0
  BY FirstOnes, FS_EmptySet DEF ShopInit
<1>2. ShopTyped
  BY FirstOnes DEF ShopInit, ShopTyped, SalesOrders, Orders
<1>3. CartFollowed /\ OneLooks /\ OneInvoices
  BY <1>1, FirstOnes DEF CartFollowed, OneLooks, OneInvoices, Looking, AtWork
<1> QED BY <1>2, <1>3 DEF ShopInv

\* What the settings change is read and not kept.
LEMMA SettingsInv ==
    ASSUME ShopInv, SaveSettings \/ \E p \in Products : SetPublished(p) \/ \E x \in Prices : SetPrice(p, x)
    PROVE  ShopInv'
<1>1. UNCHANGED <<parties, visitor, salesOrder, order, made, clerk, shared, together, edited, billed>>
  BY DEF SaveSettings, SetPublished, SetPrice, OfficeUnchanged, SalesUnchanged
<1>2. priceOf' \in [Products -> Prices \cup {0}]
  BY DEF SaveSettings, SetPublished, SetPrice, ShopInv, ShopTyped
<1> QED BY <1>1, <1>2 DEF ShopInv, ShopTyped, CartFollowed, OneLooks, OneInvoices, Looking, AtWork, Excused

\* A total is a number.
LEMMA TotalIsNat ==
    ASSUME NEW lines \in SUBSET Line, IsFiniteSet(lines)
    PROVE  TotalOf(lines) \in Nat
<1> DEFINE f == [l \in lines |-> l.price * l.qty]
<1>1. \A l \in lines : l.price * l.qty \in Nat
  <2> SUFFICES ASSUME NEW l \in lines PROVE l.price * l.qty \in Nat
    OBVIOUS
  <2>1. l \in Line
    OBVIOUS
  <2>2. l.price \in Prices /\ l.qty \in 1..MaxCart
    BY <2>1 DEF Line
  <2>3. l.price \in Nat
    BY <2>2, ShopAssumption
  <2>4. l.qty \in Nat
    BY <2>2
  <2> HIDE DEF f
  <2> QED BY <2>3, <2>4
<1>2. Summable(f) /\ DOMAIN f = lines /\ \A l \in DOMAIN f : f[l] >= 0
  BY <1>1 DEF Summable
<1>3. SumOver(f) \in Int /\ SumOver(f) >= 0
  BY <1>2, SumIsInt, SumOfPositive
<1> QED BY <1>3 DEF TotalOf

\* The lines of a cart: as many as products, each with the entries counted.
LEMMA CartLines ==
    ASSUME ShopTyped, NEW n \in 1..MaxCart, NEW cart \in [1..n -> Products], NEW L,
           L = {[product |-> p, qty |-> Cardinality({i \in DOMAIN cart : cart[i] = p}), price |-> priceOf[p]] :
                    p \in {cart[i] : i \in DOMAIN cart}},
           \A i \in 1..n : priceOf[cart[i]] # 0
    PROVE  L \in SUBSET Line /\ IsFiniteSet(L)
<1> DEFINE entries(p) == {i \in 1..n : cart[i] = p}
           line(p) == [product |-> p, qty |-> Cardinality(entries(p)), price |-> priceOf[p]]
<1>1. DOMAIN cart = 1..n /\ n \in Nat /\ n <= MaxCart
  BY ShopAssumption
<1>8. \A i \in 1..n : line(cart[i]) \in L
  BY <1>1
<1>9. \A l \in L : \E i \in 1..n : l = line(cart[i])
  BY <1>1
<1> HIDE DEF line
<1>2. IsFiniteSet(1..n) /\ Cardinality(1..n) = n
  BY <1>1, FS_Interval
<1>3. ASSUME NEW i \in 1..n PROVE line(cart[i]) \in Line
  <2>1. entries(cart[i]) \subseteq 1..n /\ entries(cart[i]) # {}
    BY <1>3
  <2>2. IsFiniteSet(entries(cart[i])) /\ Cardinality(entries(cart[i])) <= n
    BY <1>2, <2>1, FS_Subset
  <2>3. Cardinality(entries(cart[i])) \in Nat /\ Cardinality(entries(cart[i])) # 0
    BY <2>1, <2>2, FS_CardinalityType, FS_EmptySet
  <2>4. priceOf[cart[i]] \in Prices /\ cart[i] \in Products
    BY <1>3 DEF ShopTyped
  <2>5. Cardinality(entries(cart[i])) \in 1..MaxCart
    BY <1>1, <2>2, <2>3, ShopAssumption
  <2> HIDE DEF entries
  <2> QED BY <2>4, <2>5 DEF Line, line
<1>4. L \in SUBSET Line
  BY <1>9, <1>3
<1>5. PICK f : f = [i \in 1..n |-> line(cart[i])]
  OBVIOUS
<1>6. f \in Surjection(1..n, L)
  BY <1>5, <1>8, <1>9 DEF Surjection
<1>7. IsFiniteSet(L)
  BY <1>2, <1>6, FS_Surjection
<1> QED BY <1>4, <1>7

\* A visitor goes on with the order of its cart.
VisitorIs(v, x) == visitor' = [visitor EXCEPT ![v] = x]

LEMMA OneVisitorMoves ==
    ASSUME ShopInv, NEW v \in Visitors, NEW x \in Visits, VisitorIs(v, x)
    PROVE  visitor' \in [Visitors -> Visits] /\ \A u \in Visitors : visitor'[u] = IF u = v THEN x ELSE visitor[u]
BY DEF ShopInv, ShopTyped, VisitorIs

\* Its place in the sequence of steps, and what goes with it; e: its document was edited.
Placed(x, o, s, e) ==
    /\ IsFiniteSet(x.lines) /\ x.added \subseteq x.lines
    /\ x.at \in {"customer", "party", "document"} => x.added = {}
    /\ x.at \in {"lines", "order"} => s.lines = x.added \/ e
    /\ x.at = "order" => x.added = x.lines
    /\ x.at # "done" => o.status = "none"
    /\ o.status # "none" => (s.lines = x.lines \/ e) /\ o.total = TotalOf(x.lines)

\* Nothing is invoiced by what a visitor does.
LEMMA VisitInv ==
    ASSUME ShopInv, NEW v \in Visitors, NEW x \in Visits, VisitorIs(v, x),
           salesOrder' \in [Visitors -> SalesOrders], order' \in [Visitors -> Orders], parties' \in [Emails -> Nat],
           \A u \in Visitors \ {v} : salesOrder'[u] = salesOrder[u] /\ order'[u] = order[u],
           Placed(x, order'[v], salesOrder'[v], v \in edited),
           order'[v].invoice = order[v].invoice,
           order'[v].status = order[v].status \/ (order[v].status = "none" /\ order'[v].status = "NEW"),
           UNCHANGED <<priceOf, made, clerk, shared, edited, billed>>, OneLooks'
    PROVE  ShopInv'
<1> USE DEF ShopInv
<1>1. visitor' \in [Visitors -> Visits] /\ \A u \in Visitors : visitor'[u] = IF u = v THEN x ELSE visitor[u]
  BY OneVisitorMoves
<1>2. ShopTyped'
  BY <1>1 DEF ShopTyped
<1>3. CartFollowed'
  <2> SUFFICES ASSUME NEW u \in Visitors PROVE Placed(visitor'[u], order'[u], salesOrder'[u], u \in edited)
    BY DEF CartFollowed, Placed
  <2>1. CASE u = v
    BY <1>1, <2>1
  <2>2. CASE u # v
    <3>1. visitor'[u] = visitor[u] /\ order'[u] = order[u] /\ salesOrder'[u] = salesOrder[u]
      BY <1>1, <2>2
    <3>2. Placed(visitor[u], order[u], salesOrder[u], u \in edited)
      BY DEF CartFollowed, Placed
    <3> QED BY <3>1, <3>2
  <2> QED BY <2>1, <2>2
<1>4. OneInvoices'
  <2>1. \A u \in Visitors : /\ order'[u].invoice = order[u].invoice
                            /\ order'[u].status = order[u].status \/ (order[u].status = "none" /\ order'[u].status = "NEW")
    <3> SUFFICES ASSUME NEW u \in Visitors, u # v PROVE order'[u] = order[u]
      OBVIOUS
    <3> QED OBVIOUS
  <2>2. \A c \in Clerks : \A u : AtWork(c, u)' <=> AtWork(c, u)
    BY DEF AtWork
  <2>3. \A c \in Clerks : clerk[c].order \in Visitors
    BY DEF ShopTyped, ClerkStates
  <2> QED BY <2>1, <2>2, <2>3 DEF OneInvoices, Excused
<1> QED BY <1>2, <1>3, <1>4

LEMMA VisitorStepsInv ==
    ASSUME ShopInv, NEW v \in Visitors,
           FindCustomer(v) \/ CreateCustomer(v) \/ CreateSalesOrder(v) \/ AddOrderLine(v) \/ InsertOrder(v)
           \/ PlaceOrderFails(v) \/ LineIsRefused(v)
    PROVE  ShopInv'
<1> USE DEF ShopInv
<1>1. /\ visitor[v] \in Visits /\ salesOrder[v] \in SalesOrders /\ order[v] \in Orders /\ visitor[v].email \in Emails
      /\ Placed(visitor[v], order[v], salesOrder[v], v \in edited)
      /\ salesOrder \in [Visitors -> SalesOrders] /\ order \in [Visitors -> Orders] /\ parties \in [Emails -> Nat]
  BY DEF ShopTyped, Visits, CartFollowed, Placed
<1>2. UNCHANGED <<priceOf, made, clerk, shared, together, edited, billed>>
  BY DEF FindCustomer, CreateCustomer, CreateSalesOrder, AddOrderLine, InsertOrder, PlaceOrderFails, LineIsRefused,
     ShopUnchanged, SalesUnchanged
\* Whoever looks for a customer found what there is.
<1>3. ASSUME NEW x \in Visits, VisitorIs(v, x), parties' = parties,
             ~(x.at \in {"customer", "party"}) \/ (x.at = "party" /\ visitor[v].at = "customer" /\ x.email = visitor[v].email
                                                   /\ x.known = (parties[x.email] > 0))
      PROVE  OneLooks'
  <2>1. \A u \in Visitors : visitor'[u] = IF u = v THEN x ELSE visitor[u]
    BY <1>3, OneVisitorMoves
  <2>2. \A u \in Visitors : \A e : Looking(u, e)' => Looking(u, e)
    BY <1>3, <2>1 DEF Looking
  <2>3. ASSUME NEW e \in Emails \ together, NEW u \in Visitors, visitor'[u].at = "party", visitor'[u].email = e
        PROVE  visitor'[u].known <=> parties[e] > 0
    BY <1>3, <2>1, <2>3 DEF OneLooks
  <2> QED BY <1>2, <1>3, <2>2, <2>3 DEF OneLooks
<1>4. CASE FindCustomer(v)
  <2>1. PICK x : x = [visitor[v] EXCEPT !.at = "party", !.known = parties[visitor[v].email] > 0]
    OBVIOUS
  <2>2. /\ x \in Visits /\ x.at = "party" /\ x.email = visitor[v].email /\ x.known = (parties[x.email] > 0)
        /\ x.lines = visitor[v].lines /\ x.added = visitor[v].added
    <3>1. PICK k \in BOOLEAN : k = (parties[visitor[v].email] > 0)
      <4>1. CASE parties[visitor[v].email] > 0
        <5> WITNESS TRUE \in BOOLEAN
        <5> QED BY <4>1
      <4>2. CASE ~(parties[visitor[v].email] > 0)
        <5> WITNESS FALSE \in BOOLEAN
        <5>1. PICK n \in Nat : n = parties[visitor[v].email]
          BY <1>1
        <5>2. ~(n > 0)
          BY <4>2, <5>1
        <5>3. FALSE = (n > 0)
          BY <5>2, SMT
        <5> QED BY <5>1, <5>3
      <4> QED BY <4>1, <4>2
    <3>2. x = [visitor[v] EXCEPT !.at = "party", !.known = k]
      BY <2>1, <3>1
    <3>3. /\ x \in Visits /\ x.at = "party" /\ x.email = visitor[v].email /\ x.known = k
          /\ x.lines = visitor[v].lines /\ x.added = visitor[v].added
      BY <1>1, <3>2 DEF Visits
    <3> QED BY <3>1, <3>3
  <2>3. VisitorIs(v, x) /\ UNCHANGED <<parties, salesOrder, order>> /\ visitor[v].at = "customer"
    BY <1>4, <2>1 DEF FindCustomer, VisitorIs
  <2>4. Placed(x, order[v], salesOrder[v], v \in edited)
    BY <1>1, <2>2, <2>3 DEF Placed
  <2>5. OneLooks'
    BY <1>3, <2>2, <2>3
  <2> QED BY <1>1, <1>2, <2>2, <2>3, <2>4, <2>5, VisitInv
<1>5. CASE CreateSalesOrder(v)
  <2>1. PICK x : x = [visitor[v] EXCEPT !.at = "lines"]
    OBVIOUS
  <2>2. x \in Visits /\ x.at = "lines" /\ x.lines = visitor[v].lines /\ x.added = visitor[v].added
    BY <1>1, <2>1 DEF Visits
  <2>3. /\ VisitorIs(v, x) /\ UNCHANGED <<parties, order>> /\ visitor[v].at = "document"
        /\ salesOrder' = [salesOrder EXCEPT ![v] = [status |-> "DRAFT", lines |-> {}]]
    BY <1>5, <2>1 DEF CreateSalesOrder, VisitorIs
  <2>4. /\ salesOrder' \in [Visitors -> SalesOrders] /\ salesOrder'[v].lines = {}
        /\ \A u \in Visitors \ {v} : salesOrder'[u] = salesOrder[u]
    BY <1>1, <2>3 DEF SalesOrders
  <2>5. Placed(x, order[v], salesOrder'[v], v \in edited)
    BY <1>1, <2>2, <2>3, <2>4 DEF Placed
  <2>6. OneLooks'
    BY <1>3, <2>2, <2>3
  <2> QED BY <1>1, <1>2, <2>2, <2>3, <2>4, <2>5, <2>6, VisitInv
<1>6. CASE AddOrderLine(v)
  <2>1. PICK l \in visitor[v].lines \ visitor[v].added :
           /\ salesOrder' = [salesOrder EXCEPT ![v].lines = @ \cup {l}]
           /\ visitor' = [visitor EXCEPT ![v] = [@ EXCEPT !.added = visitor[v].added \cup {l},
                            !.at = IF visitor[v].lines \ visitor[v].added = {l} THEN "order" ELSE "lines"]]
    BY <1>6 DEF AddOrderLine
  <2>2. PICK x : x = [visitor[v] EXCEPT !.added = visitor[v].added \cup {l},
                            !.at = IF visitor[v].lines \ visitor[v].added = {l} THEN "order" ELSE "lines"]
    OBVIOUS
  <2>3. /\ x \in Visits /\ x.lines = visitor[v].lines /\ x.added = visitor[v].added \cup {l}
        /\ x.at = IF visitor[v].lines \ visitor[v].added = {l} THEN "order" ELSE "lines"
    BY <1>1, <2>1, <2>2 DEF Visits
  <2>4. VisitorIs(v, x) /\ UNCHANGED <<parties, order>> /\ visitor[v].at = "lines"
    BY <1>6, <2>1, <2>2 DEF AddOrderLine, VisitorIs
  <2>5. PICK s : s = [salesOrder[v] EXCEPT !.lines = salesOrder[v].lines \cup {l}]
    OBVIOUS
  <2>6. s \in SalesOrders /\ s.lines = salesOrder[v].lines \cup {l}
    BY <1>1, <2>1, <2>5 DEF SalesOrders, Visits
  <2>7. /\ salesOrder' \in [Visitors -> SalesOrders] /\ salesOrder'[v] = s
        /\ \A u \in Visitors \ {v} : salesOrder'[u] = salesOrder[u]
    BY <1>1, <2>1, <2>5, <2>6
  <2>8. Placed(x, order[v], s, v \in edited)
    BY <1>1, <2>1, <2>3, <2>4, <2>6 DEF Placed
  <2>9. OneLooks'
    BY <1>3, <2>3, <2>4
  <2> QED BY <1>1, <1>2, <2>3, <2>4, <2>7, <2>8, <2>9, VisitInv
<1>7. CASE InsertOrder(v)
  <2>1. PICK x : x = [visitor[v] EXCEPT !.at = "done"]
    OBVIOUS
  <2>2. x \in Visits /\ x.at = "done" /\ x.lines = visitor[v].lines /\ x.added = visitor[v].added
    BY <1>1, <2>1 DEF Visits
  <2>3. PICK o : o = [status |-> "NEW", total |-> TotalOf(visitor[v].lines), invoice |-> 0]
    OBVIOUS
  <2>4. /\ VisitorIs(v, x) /\ UNCHANGED <<parties, salesOrder>> /\ visitor[v].at = "order"
        /\ order' = [order EXCEPT ![v] = o]
    BY <1>7, <2>1, <2>3 DEF InsertOrder, VisitorIs
  <2>5. o \in Orders /\ o.status = "NEW" /\ o.invoice = 0 /\ o.total = TotalOf(visitor[v].lines)
    <3>1. TotalOf(visitor[v].lines) \in Nat
      BY <1>1, TotalIsNat DEF Placed, Visits
    <3> QED BY <2>3, <3>1 DEF Orders, OrderStatuses
  <2>6. /\ order' \in [Visitors -> Orders] /\ order'[v] = o
        /\ \A u \in Visitors \ {v} : order'[u] = order[u]
    BY <1>1, <2>4, <2>5
  <2>7. Placed(x, o, salesOrder[v], v \in edited) /\ order[v].status = "none"
    BY <1>1, <2>2, <2>4, <2>5 DEF Placed
  <2>8. order[v].invoice = 0
    BY <2>7 DEF OneInvoices
  <2>9. OneLooks'
    BY <1>3, <2>2, <2>4
  <2> QED BY <1>1, <1>2, <2>2, <2>4, <2>5, <2>6, <2>7, <2>8, <2>9, VisitInv
<1>8. CASE PlaceOrderFails(v) \/ LineIsRefused(v)
  <2>1. PICK x : x = [visitor[v] EXCEPT !.at = "done"]
    OBVIOUS
  <2>2. x \in Visits /\ x.at = "done" /\ x.lines = visitor[v].lines /\ x.added = visitor[v].added
    BY <1>1, <2>1 DEF Visits
  <2>3. VisitorIs(v, x) /\ UNCHANGED <<parties, salesOrder, order>>
    BY <1>8, <2>1 DEF PlaceOrderFails, LineIsRefused, VisitorIs
  <2>4. Placed(x, order[v], salesOrder[v], v \in edited)
    BY <1>1, <2>2 DEF Placed
  <2>5. OneLooks'
    BY <1>3, <2>2, <2>3
  <2> QED BY <1>1, <1>2, <2>2, <2>3, <2>4, <2>5, VisitInv
<1>9. CASE CreateCustomer(v)
  <2>1. PICK x : x = [visitor[v] EXCEPT !.at = "document"]
    OBVIOUS
  <2>2. x \in Visits /\ x.at = "document" /\ x.lines = visitor[v].lines /\ x.added = visitor[v].added
    BY <1>1, <2>1 DEF Visits
  <2>3. PICK e : e = visitor[v].email /\ e \in Emails
    BY <1>1
  <2>4. /\ VisitorIs(v, x) /\ UNCHANGED <<salesOrder, order>> /\ visitor[v].at = "party"
        /\ parties' = IF visitor[v].known THEN parties ELSE [parties EXCEPT ![e] = parties[e] + 1]
    BY <1>9, <2>1, <2>3 DEF CreateCustomer, VisitorIs
  <2>5. /\ parties' \in [Emails -> Nat] /\ \A f \in Emails \ {e} : parties'[f] = parties[f]
        /\ parties'[e] = IF visitor[v].known THEN parties[e] ELSE parties[e] + 1
    BY <1>1, <2>3, <2>4
  <2>6. Placed(x, order[v], salesOrder[v], v \in edited)
    BY <1>1, <2>2, <2>4 DEF Placed
  <2>7. OneLooks'
    <3>1. \A u \in Visitors : visitor'[u] = IF u = v THEN x ELSE visitor[u]
      BY <2>2, <2>4, OneVisitorMoves
    <3>2. \A u \in Visitors : \A f : Looking(u, f)' => Looking(u, f) /\ u # v
      BY <2>2, <3>1 DEF Looking
    <3>3. Looking(v, e)
      BY <2>3, <2>4 DEF Looking
    <3>4. ASSUME NEW f \in Emails \ together, f # e
          PROVE  /\ parties'[f] <= 1
                 /\ \A u \in Visitors : visitor'[u].at = "party" /\ visitor'[u].email = f => (visitor'[u].known <=> parties'[f] > 0)
      BY <2>2, <2>5, <3>1, <3>4 DEF OneLooks
    <3>5. ASSUME e \notin together
          PROVE  /\ parties'[e] <= 1
                 /\ \A u \in Visitors : ~(visitor'[u].at = "party" /\ visitor'[u].email = e)
      <4>1. parties[e] <= 1 /\ (visitor[v].known <=> parties[e] > 0) /\ parties[e] \in Nat
        BY <1>1, <2>3, <2>4, <3>5 DEF OneLooks
      <4>2. \A u \in Visitors : ~(visitor'[u].at = "party" /\ visitor'[u].email = e)
        BY <2>2, <2>3, <3>1, <3>2, <3>3, <3>5 DEF OneLooks, Looking
      <4> QED BY <2>5, <4>1, <4>2
    <3> QED BY <1>2, <2>3, <3>2, <3>4, <3>5 DEF OneLooks
  <2> QED BY <1>1, <1>2, <2>2, <2>4, <2>5, <2>6, <2>7, VisitInv
<1> QED BY <1>4, <1>5, <1>6, <1>7, <1>8, <1>9

LEMMA ReadCartInv ==
    ASSUME ShopInv, NEW v \in Visitors, ReadCart(v)
    PROVE  ShopInv'
<1> USE DEF ShopInv
<1>1. PICK cart \in UNION {[1..n -> Products] : n \in 1..MaxCart}, e \in Emails :
         /\ {cart[i] : i \in DOMAIN cart} \subseteq {p \in published : priceOf[p] # 0}
         /\ visitor' = [visitor EXCEPT ![v] =
              [NoVisit EXCEPT !.at = "customer", !.email = e,
                 !.lines = {[product |-> p, qty |-> Cardinality({i \in DOMAIN cart : cart[i] = p}), price |-> priceOf[p]] :
                              p \in {cart[i] : i \in DOMAIN cart}}]]
         /\ together' = IF \E u \in Visitors \ {v} : visitor[u].at \in {"customer", "party"} /\ visitor[u].email = e
                        THEN together \cup {e} ELSE together
  BY DEF ReadCart
<1>13. PICK n \in 1..MaxCart : cart \in [1..n -> Products]
  OBVIOUS
<1>2. PICK L : L = {[product |-> p, qty |-> Cardinality({i \in DOMAIN cart : cart[i] = p}), price |-> priceOf[p]] :
                      p \in {cart[i] : i \in DOMAIN cart}}
  OBVIOUS
<1>3. \A i \in 1..n : priceOf[cart[i]] # 0
  BY <1>1, <1>13
<1>4. L \in SUBSET Line /\ IsFiniteSet(L)
  BY <1>2, <1>3, <1>13, CartLines
<1>5. PICK x : x = [NoVisit EXCEPT !.at = "customer", !.email = e, !.lines = L]
  OBVIOUS
<1>6. x \in Visits /\ x.at = "customer" /\ x.email = e /\ x.lines = L /\ x.added = {}
  BY <1>4, <1>5, FirstOnes DEF Visits
<1>7. VisitorIs(v, x)
  BY <1>1, <1>2, <1>5 DEF VisitorIs
<1>8. /\ visitor[v].at = "away"
      /\ UNCHANGED <<priceOf, parties, salesOrder, order, made, clerk, shared, edited, billed>>
  BY DEF ReadCart, ShopUnchanged, SalesUnchanged
<1>9. Placed(x, order[v], salesOrder[v], v \in edited)
  BY <1>4, <1>6, <1>8 DEF Placed, CartFollowed
<1>10. \A u \in Visitors : visitor'[u] = IF u = v THEN x ELSE visitor[u]
  BY <1>6, <1>7, OneVisitorMoves
<1>11. OneLooks'
  <2>1. ASSUME NEW f \in Emails \ together', f # e
        PROVE  /\ parties'[f] <= 1
               /\ \A u, w \in Visitors : Looking(u, f)' /\ Looking(w, f)' => u = w
               /\ \A u \in Visitors : visitor'[u].at = "party" /\ visitor'[u].email = f => (visitor'[u].known <=> parties'[f] > 0)
    <3>1. f \in Emails \ together
      BY <1>1, <2>1
    <3>2. \A u \in Visitors : Looking(u, f)' => Looking(u, f)
      BY <1>6, <1>10, <2>1 DEF Looking
    <3>3. \A u \in Visitors : visitor'[u].at = "party" => visitor'[u] = visitor[u]
      BY <1>6, <1>10
    <3> QED BY <1>8, <3>1, <3>2, <3>3 DEF OneLooks
  <2>2. ASSUME e \notin together'
        PROVE  /\ parties'[e] <= 1
               /\ \A u \in Visitors : Looking(u, e)' => u = v
               /\ \A u \in Visitors : ~(visitor'[u].at = "party" /\ visitor'[u].email = e)
    <3>1. e \notin together /\ \A u \in Visitors \ {v} : ~Looking(u, e)
      BY <1>1, <2>2 DEF Looking
    <3>2. \A u \in Visitors : Looking(u, e)' => u = v
      BY <1>10, <3>1 DEF Looking
    <3>3. \A u \in Visitors : ~(visitor'[u].at = "party" /\ visitor'[u].email = e)
      BY <1>6, <1>10, <3>1 DEF Looking
    <3> QED BY <1>8, <3>1, <3>2, <3>3 DEF OneLooks
  <2> QED BY <2>1, <2>2 DEF OneLooks
<1>12. salesOrder \in [Visitors -> SalesOrders] /\ order \in [Visitors -> Orders] /\ parties \in [Emails -> Nat]
  BY DEF ShopTyped
<1> QED BY <1>6, <1>7, <1>8, <1>9, <1>11, <1>12, VisitInv

\* A request of the team goes on.
ClerkIs(c, r) == clerk' = [clerk EXCEPT ![c] = r]

LEMMA OneClerkMoves ==
    ASSUME ShopInv, NEW c \in Clerks, NEW r \in ClerkStates, ClerkIs(c, r)
    PROVE  clerk' \in [Clerks -> ClerkStates] /\ \A d \in Clerks : clerk'[d] = IF d = c THEN r ELSE clerk[d]
BY DEF ShopInv, ShopTyped, ClerkIs

\* What the team does leaves the carts and what was ordered alone.
LEMMA OfficeInv ==
    ASSUME ShopInv, UNCHANGED <<priceOf, parties, visitor, together>>, edited \subseteq edited',
           salesOrder' \in [Visitors -> SalesOrders], order' \in [Visitors -> Orders],
           made' \in [Visitors -> Nat], clerk' \in [Clerks -> ClerkStates],
           \A v \in Visitors : /\ salesOrder'[v].lines = salesOrder[v].lines \/ v \in edited'
                               /\ order'[v].total = order[v].total
                               /\ order'[v].status = "none" <=> order[v].status = "none",
           OneInvoices'
    PROVE  ShopInv'
<1>1. ShopTyped'
  BY DEF ShopInv, ShopTyped
<1>2. CartFollowed'
  BY DEF ShopInv, CartFollowed
<1>3. OneLooks'
  BY DEF ShopInv, OneLooks, Looking
<1> QED BY <1>1, <1>2, <1>3 DEF ShopInv

LEMMA SetOrderStatusInv ==
    ASSUME ShopInv, NEW v \in Visitors, NEW st \in OrderStatuses \ {"NEW"}, SetOrderStatus(v, st)
    PROVE  ShopInv'
<1> USE DEF ShopInv
<1>1. /\ order \in [Visitors -> Orders] /\ order[v] \in Orders /\ salesOrder \in [Visitors -> SalesOrders]
      /\ made \in [Visitors -> Nat] /\ clerk \in [Clerks -> ClerkStates]
      /\ \A c \in Clerks : clerk[c].order \in Visitors
  BY DEF ShopTyped, ClerkStates
<1>2. /\ order' = [order EXCEPT ![v].status = st]
      /\ shared' = IF InWork(v) THEN shared \cup {v} ELSE shared
      /\ UNCHANGED <<priceOf, parties, visitor, salesOrder, made, clerk, together, edited, billed>>
      /\ order[v].status \in OrdersMovingTo(st) /\ (st # "CANCELLED" \/ order[v].invoice = 0)
  BY DEF SetOrderStatus, ShopUnchanged, SalesUnchanged
<1>3. PICK o : o = [order[v] EXCEPT !.status = st]
  OBVIOUS
<1>4. o \in Orders /\ o.status = st /\ o.total = order[v].total /\ o.invoice = order[v].invoice
  BY <1>1, <1>3 DEF Orders
<1>5. order' \in [Visitors -> Orders] /\ \A u \in Visitors : order'[u] = IF u = v THEN o ELSE order[u]
  BY <1>1, <1>2, <1>3, <1>4
<1>6. order[v].status # "none" /\ st \notin {"none", "NEW"}
  BY <1>2 DEF OrdersMovingTo, OrderStatuses
<1>7. OneInvoices'
  <2>1. \A c \in Clerks : \A u : AtWork(c, u)' <=> AtWork(c, u)
    BY <1>2 DEF AtWork
  <2>2. \A u \in Visitors : order'[u].invoice = order[u].invoice /\ (u # v => order'[u].status = order[u].status)
    BY <1>4, <1>5
  <2>3. order'[v].status = st
    BY <1>4, <1>5
  <2>4. v \notin Excused' => v \notin Excused /\ \A c \in Clerks : ~AtWork(c, v)
    BY <1>2 DEF InWork, AtWork, Excused
  <2>5. \A u \in Visitors \ {v} : u \notin Excused' => u \notin Excused
    BY <1>2 DEF Excused
  <2>6. \A u \in Visitors \ Excused' :
         /\ \A c, d \in Clerks : AtWork(c, u)' /\ AtWork(d, u)' => c = d
         /\ \A c \in Clerks : AtWork(c, u)' => /\ order'[u].status # "CANCELLED" /\ order'[u].invoice = 0
                                              /\ made'[u] = IF clerk'[c].at = "remember" THEN 1 ELSE 0
         /\ (\A c \in Clerks : ~AtWork(c, u)') => made'[u] = order'[u].invoice
         /\ made'[u] <= 1 /\ (order'[u].status = "CANCELLED" => made'[u] = 0)
    <3> SUFFICES ASSUME NEW u \in Visitors \ Excused'
                 PROVE  /\ \A c, d \in Clerks : AtWork(c, u) /\ AtWork(d, u) => c = d
                        /\ \A c \in Clerks : AtWork(c, u) => /\ order'[u].status # "CANCELLED" /\ order[u].invoice = 0
                                                             /\ made[u] = IF clerk[c].at = "remember" THEN 1 ELSE 0
                        /\ (\A c \in Clerks : ~AtWork(c, u)) => made[u] = order[u].invoice
                        /\ made[u] <= 1 /\ (order'[u].status = "CANCELLED" => made[u] = 0)
      BY <1>2, <2>1, <2>2
    <3>1. CASE u = v
      BY <1>2, <2>3, <2>4, <3>1 DEF OneInvoices
    <3>2. CASE u # v
      BY <2>2, <2>5, <3>2 DEF OneInvoices
    <3> QED BY <3>1, <3>2
  <2>7. \A u \in Visitors : order'[u].invoice <= made'[u] /\ (order'[u].status \in {"none", "NEW"} =>
                             order'[u].invoice = 0 /\ (made'[u] = 0 \/ u \in billed'))
    BY <1>2, <1>6, <2>2, <2>3 DEF OneInvoices
  <2>8. \A c \in Clerks : clerk'[c].at # "idle" => ~(order'[clerk'[c].order].status \in {"none", "NEW"})
    BY <1>1, <1>2, <1>6, <2>2, <2>3 DEF OneInvoices
  <2>9. \A c \in Clerks : clerk'[c].at = "remember" => clerk'[c].doc \in 1..made'[clerk'[c].order]
    BY <1>2 DEF OneInvoices
  <2> QED BY <2>6, <2>7, <2>8, <2>9 DEF OneInvoices
<1>8. \A u \in Visitors : /\ salesOrder'[u].lines = salesOrder[u].lines /\ order'[u].total = order[u].total
                          /\ order'[u].status = "none" <=> order[u].status = "none"
  BY <1>2, <1>4, <1>5, <1>6
<1> QED BY <1>1, <1>2, <1>5, <1>7, <1>8, OfficeInv

\* What one request does to one order: the others are as they were.
LEMMA ClerkInv ==
    ASSUME ShopInv, UNCHANGED billed, NEW c \in Clerks, NEW v \in Visitors, NEW r \in ClerkStates, NEW o \in Orders, NEW m \in Nat,
           ClerkIs(c, r), r.at # "idle" => r.order = v,
           clerk[c].at # "idle" => clerk[c].order = v,
           \A u \in Visitors : order'[u] = IF u = v THEN o ELSE order[u],
           \A u \in Visitors : made'[u] = IF u = v THEN m ELSE made[u],
           \A u \in Visitors \ {v} : u \notin Excused' => u \notin Excused,
           o.status = order[v].status, made[v] <= m, o.invoice <= m,
           ~(o.status \in {"none", "NEW"}),
           r.at = "remember" => r.doc \in 1..m,
           v \notin Excused' =>
             /\ \A d \in Clerks \ {c} : ~AtWork(d, v)
             /\ m <= 1 /\ (o.status = "CANCELLED" => m = 0)
             /\ r.at # "idle" => /\ o.status # "CANCELLED" /\ o.invoice = 0
                                 /\ m = IF r.at = "remember" THEN 1 ELSE 0
             /\ r.at = "idle" => m = o.invoice
    PROVE  OneInvoices'
<1> USE DEF ShopInv
<1>1. \A d \in Clerks : clerk'[d] = IF d = c THEN r ELSE clerk[d]
  BY OneClerkMoves
<1>2. \A d \in Clerks : clerk[d].order \in Visitors
  BY DEF ShopTyped, ClerkStates
<1>3. \A u \in Visitors : /\ order'[u].invoice <= made'[u]
                          /\ order'[u].status \in {"none", "NEW"} =>
                               order'[u].invoice = 0 /\ (made'[u] = 0 \/ u \in billed')
  BY DEF OneInvoices
<1>4. ASSUME NEW d \in Clerks
      PROVE  /\ clerk'[d].at # "idle" => ~(order'[clerk'[d].order].status \in {"none", "NEW"})
             /\ clerk'[d].at = "remember" => clerk'[d].doc \in 1..made'[clerk'[d].order]
  <2>1. CASE d = c
    BY <1>1, <2>1
  <2>2. CASE d # c
    <3>1. clerk'[d] = clerk[d] /\ clerk[d].order \in Visitors
      BY <1>1, <1>2, <2>2
    <3>2. /\ clerk[d].at # "idle" => ~(order[clerk[d].order].status \in {"none", "NEW"})
          /\ clerk[d].at = "remember" => clerk[d].doc \in 1..made[clerk[d].order]
      BY DEF OneInvoices
    <3>3. made[clerk[d].order] \in Nat /\ made'[clerk[d].order] \in Nat /\ made[clerk[d].order] <= made'[clerk[d].order]
      BY <3>1 DEF ShopTyped
    <3>4. order'[clerk[d].order].status = order[clerk[d].order].status
      BY <3>1
    <3> QED BY <3>1, <3>2, <3>3, <3>4
  <2> QED BY <2>1, <2>2
<1>5. ASSUME NEW u \in Visitors \ Excused'
      PROVE  /\ \A a, d \in Clerks : AtWork(a, u)' /\ AtWork(d, u)' => a = d
             /\ \A d \in Clerks : AtWork(d, u)' => /\ order'[u].status # "CANCELLED" /\ order'[u].invoice = 0
                                                   /\ made'[u] = IF clerk'[d].at = "remember" THEN 1 ELSE 0
             /\ (\A d \in Clerks : ~AtWork(d, u)') => made'[u] = order'[u].invoice
             /\ made'[u] <= 1 /\ (order'[u].status = "CANCELLED" => made'[u] = 0)
  <2>1. CASE u = v
    <3>1. \A d \in Clerks : AtWork(d, v)' <=> d = c /\ r.at # "idle"
      BY <1>1, <1>5, <2>1 DEF AtWork
    <3> QED BY <1>1, <1>5, <2>1, <3>1
  <2>2. CASE u # v
    <3>1. \A d \in Clerks : AtWork(d, u)' <=> AtWork(d, u)
      BY <1>1, <2>2 DEF AtWork
    <3>2. \A d \in Clerks : AtWork(d, u) => clerk'[d] = clerk[d]
      BY <1>1, <2>2 DEF AtWork
    <3>3. order'[u] = order[u] /\ made'[u] = made[u] /\ u \in Visitors \ Excused
      BY <1>5, <2>2
    <3> QED BY <3>1, <3>2, <3>3 DEF OneInvoices
  <2> QED BY <2>1, <2>2
<1> QED BY <1>3, <1>4, <1>5 DEF OneInvoices

LEMMA ReadOrderInv ==
    ASSUME ShopInv, NEW c \in Clerks, NEW v \in Visitors, ReadOrder(c, v)
    PROVE  ShopInv'
<1> USE DEF ShopInv
<1>1. /\ order \in [Visitors -> Orders] /\ order[v] \in Orders /\ salesOrder \in [Visitors -> SalesOrders]
      /\ made \in [Visitors -> Nat] /\ made[v] \in Nat /\ salesOrder[v].status \in {"none", "DRAFT", "FINALIZED", "CANCELLED"}
  BY DEF ShopTyped, SalesOrders
<1>2. PICK r : r = [at |-> "finalize", doc |-> salesOrder[v].status, order |-> v]
  OBVIOUS
<1>3. r \in ClerkStates /\ r.at = "finalize" /\ r.order = v
  BY <1>1, <1>2 DEF ClerkStates
<1>4. /\ clerk[c].at = "idle" /\ order[v].status \notin {"none", "NEW", "CANCELLED"} /\ order[v].invoice = 0
      /\ ClerkIs(c, r) /\ shared' = IF InWork(v) THEN shared \cup {v} ELSE shared
      /\ UNCHANGED <<priceOf, parties, visitor, salesOrder, order, made, together, edited, billed>>
  BY <1>2 DEF ReadOrder, ClerkIs, ShopUnchanged, SalesUnchanged
<1>5. clerk' \in [Clerks -> ClerkStates]
  BY <1>3, <1>4, OneClerkMoves
<1>6. order[v].invoice <= made[v]
  BY DEF OneInvoices
<1>7. v \notin Excused' => /\ \A d \in Clerks : ~AtWork(d, v)
                          /\ made[v] = 0
  BY <1>4 DEF InWork, AtWork, OneInvoices, Excused
<1>9. UNCHANGED billed /\ \A u \in Visitors \ {v} : u \notin Excused' => u \notin Excused
  BY <1>4 DEF Excused
<1>8. OneInvoices'
  BY <1>1, <1>3, <1>4, <1>6, <1>7, <1>9, ClerkInv
<1> QED BY <1>1, <1>4, <1>5, <1>8, OfficeInv

LEMMA FinalizeSalesOrderInv ==
    ASSUME ShopInv, NEW c \in Clerks, FinalizeSalesOrder(c)
    PROVE  ShopInv'
<1> USE DEF ShopInv
<1>1. PICK v \in Visitors : v = clerk[c].order
  BY DEF ShopTyped, ClerkStates
<1>2. /\ order \in [Visitors -> Orders] /\ order[v] \in Orders /\ salesOrder \in [Visitors -> SalesOrders]
      /\ made \in [Visitors -> Nat] /\ made[v] \in Nat /\ clerk[c] \in ClerkStates
  BY DEF ShopTyped
<1>3. /\ clerk[c].at = "finalize" /\ AtWork(c, v)
      /\ UNCHANGED <<priceOf, parties, visitor, order, made, shared, together, edited, billed>>
  BY <1>1 DEF FinalizeSalesOrder, ShopUnchanged, SalesUnchanged, AtWork
<1>4. PICK r \in ClerkStates :
         /\ r.at \in {"idle", "convert"} /\ (r.at # "idle" => r.order = v) /\ ClerkIs(c, r)
         /\ \/ UNCHANGED salesOrder
            \/ salesOrder' = [salesOrder EXCEPT ![v].status = "FINALIZED"]
  <2>1. CASE clerk' = [clerk EXCEPT ![c] = NoClerk] /\ UNCHANGED salesOrder
    BY <2>1, FirstOnes DEF ClerkIs
  <2>2. CASE /\ clerk' = [clerk EXCEPT ![c].at = "convert"]
             /\ UNCHANGED salesOrder \/ salesOrder' = [salesOrder EXCEPT ![v].status = "FINALIZED"]
    <3>1. PICK r : r = [clerk[c] EXCEPT !.at = "convert"]
      OBVIOUS
    <3>2. r \in ClerkStates /\ r.at = "convert" /\ r.order = v
      BY <1>1, <1>2, <3>1 DEF ClerkStates
    <3> QED BY <2>2, <3>1, <3>2 DEF ClerkIs
  <2> QED BY <1>1, <2>1, <2>2 DEF FinalizeSalesOrder
<1>5. clerk' \in [Clerks -> ClerkStates]
  BY <1>4, OneClerkMoves
<1>6. salesOrder' \in [Visitors -> SalesOrders] /\ \A u \in Visitors : salesOrder'[u].lines = salesOrder[u].lines
  BY <1>2, <1>4 DEF SalesOrders
<1>7. /\ order[v].invoice <= made[v] /\ ~(order[v].status \in {"none", "NEW"})
      /\ v \notin Excused => /\ \A d \in Clerks \ {c} : ~AtWork(d, v)
                            /\ order[v].status # "CANCELLED" /\ order[v].invoice = 0 /\ made[v] = 0
  BY <1>1, <1>3 DEF OneInvoices
<1>9. UNCHANGED billed /\ Excused' = Excused
  BY <1>3 DEF Excused
<1>8. OneInvoices'
  BY <1>1, <1>2, <1>3, <1>4, <1>7, <1>9, ClerkInv
<1> QED BY <1>2, <1>3, <1>5, <1>6, <1>8, OfficeInv

LEMMA ConvertToInvoiceInv ==
    ASSUME ShopInv, NEW c \in Clerks, ConvertToInvoice(c)
    PROVE  ShopInv'
<1> USE DEF ShopInv
<1>1. PICK v \in Visitors : v = clerk[c].order
  BY DEF ShopTyped, ClerkStates
<1>2. /\ order \in [Visitors -> Orders] /\ order[v] \in Orders /\ salesOrder \in [Visitors -> SalesOrders]
      /\ made \in [Visitors -> Nat] /\ made[v] \in Nat /\ clerk[c] \in ClerkStates
  BY DEF ShopTyped
<1>3. /\ clerk[c].at = "convert" /\ AtWork(c, v)
      /\ UNCHANGED <<priceOf, parties, visitor, salesOrder, order, shared, together, edited, billed>>
  BY <1>1 DEF ConvertToInvoice, ShopUnchanged, SalesUnchanged, AtWork
\* It is converted, or refused.
<1>4. PICK r \in ClerkStates, m \in Nat :
         /\ ClerkIs(c, r) /\ (r.at # "idle" => r.order = v) /\ made' = [made EXCEPT ![v] = m]
         /\ \/ r.at = "remember" /\ r.doc = m /\ m = made[v] + 1
            \/ r.at = "idle" /\ m = made[v]
  <2>1. CASE /\ made' = [made EXCEPT ![v] = @ + 1]
             /\ clerk' = [clerk EXCEPT ![c] = [@ EXCEPT !.at = "remember", !.doc = made[v] + 1]]
    <3>1. PICK m \in Nat : m = made[v] + 1
      BY <1>2
    <3>2. PICK r : r = [clerk[c] EXCEPT !.at = "remember", !.doc = m]
      OBVIOUS
    <3>3. r \in ClerkStates /\ r.at = "remember" /\ r.order = v /\ r.doc = m
      BY <1>1, <1>2, <3>2 DEF ClerkStates
    <3> QED BY <2>1, <3>1, <3>2, <3>3 DEF ClerkIs
  <2>2. CASE clerk' = [clerk EXCEPT ![c] = NoClerk] /\ UNCHANGED made
    <3>1. made' = [made EXCEPT ![v] = made[v]]
      BY <1>2, <2>2
    <3> QED BY <1>2, <2>2, <3>1, FirstOnes DEF ClerkIs
  <2> QED BY <1>1, <2>1, <2>2 DEF ConvertToInvoice
<1>6. clerk' \in [Clerks -> ClerkStates] /\ made' \in [Visitors -> Nat]
      /\ \A u \in Visitors : made'[u] = IF u = v THEN m ELSE made[u]
  BY <1>2, <1>4, OneClerkMoves
<1>7. /\ order[v].invoice <= made[v] /\ ~(order[v].status \in {"none", "NEW"}) /\ order[v].invoice \in Nat
      /\ v \notin Excused => /\ \A d \in Clerks \ {c} : ~AtWork(d, v)
                             /\ order[v].status # "CANCELLED" /\ order[v].invoice = 0 /\ made[v] = 0
  BY <1>1, <1>2, <1>3 DEF OneInvoices, Orders
<1>8. made[v] <= m /\ order[v].invoice <= m /\ (r.at = "remember" => r.doc \in 1..m)
  BY <1>2, <1>4, <1>7
<1>12. v \notin Excused => m = IF r.at = "remember" THEN 1 ELSE 0
  BY <1>4, <1>7
<1>13. \A u \in Visitors : order'[u] = IF u = v THEN order[v] ELSE order[u]
  BY <1>3
<1>14. clerk[c].at # "idle" => clerk[c].order = v
  BY <1>1
<1>15. UNCHANGED <<shared, billed>> /\ Excused' = Excused
  BY <1>3 DEF Excused
<1> HIDE DEF ShopInv
<1>9. OneInvoices'
  <2>1. PICK o \in Orders : o = order[v]
    BY <1>2
  <2>2. /\ \A u \in Visitors : order'[u] = IF u = v THEN o ELSE order[u]
        /\ \A u \in Visitors : made'[u] = IF u = v THEN m ELSE made[u]
        /\ \A u \in Visitors \ {v} : u \notin Excused' => u \notin Excused
    BY <1>6, <1>13, <1>15, <2>1
  <2>3. /\ o.status = order[v].status /\ made[v] <= m /\ o.invoice <= m
        /\ ~(o.status \in {"none", "NEW"})
        /\ r.at = "remember" => r.doc \in 1..m
    BY <1>7, <1>8, <2>1
  <2>4. v \notin Excused' =>
             /\ \A d \in Clerks \ {c} : ~AtWork(d, v)
             /\ m <= 1 /\ (o.status = "CANCELLED" => m = 0)
             /\ r.at # "idle" => /\ o.status # "CANCELLED" /\ o.invoice = 0
                                 /\ m = IF r.at = "remember" THEN 1 ELSE 0
             /\ r.at = "idle" => m = o.invoice
    BY <1>4, <1>7, <1>12, <1>15, <2>1
  <2> QED BY <1>4, <1>14, <1>15, <2>2, <2>3, <2>4, ClerkInv
<1> QED BY <1>2, <1>3, <1>6, <1>9, OfficeInv

LEMMA RememberInvoiceInv ==
    ASSUME ShopInv, NEW c \in Clerks, RememberInvoice(c)
    PROVE  ShopInv'
<1> USE DEF ShopInv
<1>1. PICK v \in Visitors : v = clerk[c].order
  BY DEF ShopTyped, ClerkStates
<1>2. /\ order \in [Visitors -> Orders] /\ order[v] \in Orders /\ salesOrder \in [Visitors -> SalesOrders]
      /\ made \in [Visitors -> Nat] /\ made[v] \in Nat
  BY DEF ShopTyped
<1>3. PICK i : i = IF order[v].invoice = 0 THEN clerk[c].doc ELSE order[v].invoice
  OBVIOUS
<1>4. /\ clerk[c].at = "remember" /\ AtWork(c, v) /\ ClerkIs(c, NoClerk)
      /\ order' = [order EXCEPT ![v].invoice = i]
      /\ UNCHANGED <<priceOf, parties, visitor, salesOrder, made, shared, together, edited, billed>>
  BY <1>1, <1>3 DEF RememberInvoice, ShopUnchanged, SalesUnchanged, AtWork, ClerkIs
<1>5. /\ order[v].invoice <= made[v] /\ ~(order[v].status \in {"none", "NEW"}) /\ clerk[c].doc \in 1..made[v]
      /\ v \notin Excused => /\ \A d \in Clerks \ {c} : ~AtWork(d, v)
                            /\ order[v].status # "CANCELLED" /\ order[v].invoice = 0 /\ made[v] = 1
  BY <1>1, <1>4 DEF OneInvoices
<1>6. i \in Nat /\ i <= made[v] /\ (v \notin Excused => i = 1)
  BY <1>2, <1>3, <1>5 DEF Orders
<1>7. PICK o : o = [order[v] EXCEPT !.invoice = i]
  OBVIOUS
<1>8. o \in Orders /\ o.invoice = i /\ o.status = order[v].status /\ o.total = order[v].total
  BY <1>2, <1>6, <1>7 DEF Orders
<1>9. order' \in [Visitors -> Orders] /\ \A u \in Visitors : order'[u] = IF u = v THEN o ELSE order[u]
  BY <1>2, <1>4, <1>7, <1>8
<1>10. clerk' \in [Clerks -> ClerkStates]
  BY <1>4, FirstOnes, OneClerkMoves
<1>12. \A u \in Visitors : made'[u] = IF u = v THEN made[v] ELSE made[u]
  BY <1>4
<1>13. o.invoice <= made[v] /\ ~(o.status \in {"none", "NEW"}) /\ made[v] <= made[v]
  BY <1>2, <1>5, <1>6, <1>8
<1>19. UNCHANGED billed /\ Excused' = Excused
  BY <1>4 DEF Excused
<1>14. v \notin Excused' => /\ \A d \in Clerks \ {c} : ~AtWork(d, v)
                          /\ made[v] <= 1 /\ o.status # "CANCELLED" /\ made[v] = o.invoice
  BY <1>5, <1>6, <1>8, <1>19
<1>15. \A u \in Visitors \ {v} : u \notin Excused' => u \notin Excused
  BY <1>19
<1>16. PICK r \in ClerkStates : r.at = "idle" /\ ClerkIs(c, r)
  BY <1>4, FirstOnes
<1>17. clerk[c].at # "idle" => clerk[c].order = v
  BY <1>1
<1>18. \A u \in Visitors : order'[u] = IF u = v THEN o ELSE order[u]
  BY <1>9
<1> HIDE DEF ShopInv
<1>11. OneInvoices'
  BY <1>2, <1>8, <1>12, <1>13, <1>14, <1>15, <1>16, <1>17, <1>18, <1>19, ClerkInv
<1> QED BY <1>2, <1>4, <1>8, <1>9, <1>10, <1>11, OfficeInv

LEMMA CreateInvoiceFailsInv ==
    ASSUME ShopInv, NEW c \in Clerks, CreateInvoiceFails(c)
    PROVE  ShopInv'
<1> USE DEF ShopInv
<1>1. PICK v \in Visitors : v = clerk[c].order
  BY DEF ShopTyped, ClerkStates
<1>2. /\ order \in [Visitors -> Orders] /\ order[v] \in Orders /\ salesOrder \in [Visitors -> SalesOrders]
      /\ made \in [Visitors -> Nat] /\ made[v] \in Nat
  BY DEF ShopTyped
<1>3. /\ clerk[c].at # "idle" /\ ClerkIs(c, NoClerk) /\ shared' = shared \cup {v}
      /\ UNCHANGED <<priceOf, parties, visitor, salesOrder, order, made, together, edited, billed>>
  BY <1>1 DEF CreateInvoiceFails, ShopUnchanged, SalesUnchanged, ClerkIs
<1>4. order[v].invoice <= made[v] /\ ~(order[v].status \in {"none", "NEW"})
  BY <1>1, <1>3 DEF OneInvoices
<1>5. clerk' \in [Clerks -> ClerkStates]
  BY <1>3, FirstOnes, OneClerkMoves
<1>7. UNCHANGED billed /\ v \in Excused' /\ \A u \in Visitors \ {v} : u \notin Excused' => u \notin Excused
  BY <1>3 DEF Excused
<1>6. OneInvoices'
  BY <1>1, <1>2, <1>3, <1>4, <1>7, FirstOnes, ClerkInv
<1> QED BY <1>2, <1>3, <1>5, <1>6, OfficeInv

\* In the sales module nothing of the shop's own is written.
LEMMA SalesStepsInv ==
    ASSUME ShopInv, NEW v \in Visitors,
           EditSalesOrder(v) \/ FinalizeInSales(v) \/ CancelInSales(v) \/ ConvertInSales(v)
    PROVE  ShopInv'
<1> USE DEF ShopInv
<1>1. /\ order \in [Visitors -> Orders] /\ salesOrder \in [Visitors -> SalesOrders]
      /\ made \in [Visitors -> Nat] /\ made[v] \in Nat /\ clerk \in [Clerks -> ClerkStates]
      /\ salesOrder[v] \in SalesOrders /\ \A c \in Clerks : clerk[c].order \in Visitors
  BY DEF ShopTyped, ClerkStates
<1>2. UNCHANGED <<priceOf, parties, visitor, order, clerk, shared, together>>
  BY DEF EditSalesOrder, FinalizeInSales, CancelInSales, ConvertInSales, SalesOnly
<1>3. CASE EditSalesOrder(v)
  <2>1. PICK new : new \in SUBSET Line /\ salesOrder' = [salesOrder EXCEPT ![v].lines = new]
    <3>1. PICK l \in Line, rest \in {salesOrder[v].lines} \cup {salesOrder[v].lines \ {k} : k \in salesOrder[v].lines} :
             \E n \in {rest, rest \cup {l}} : salesOrder' = [salesOrder EXCEPT ![v].lines = n]
      BY <1>3 DEF EditSalesOrder
    <3>2. salesOrder[v].lines \in SUBSET Line
      BY <1>1 DEF SalesOrders
    <3>3. rest \in SUBSET Line /\ rest \cup {l} \in SUBSET Line
      BY <3>1, <3>2
    <3> QED BY <3>1, <3>3
  <2>2. edited' = edited \cup {v} /\ UNCHANGED <<made, billed>>
    BY <1>3 DEF EditSalesOrder
  <2>3. salesOrder' \in [Visitors -> SalesOrders] /\ \A u \in Visitors \ {v} : salesOrder'[u] = salesOrder[u]
    BY <1>1, <2>1 DEF SalesOrders
  <2>4. OneInvoices'
    BY <1>2, <2>2 DEF OneInvoices, Excused, AtWork
  <2> QED BY <1>1, <1>2, <2>2, <2>3, <2>4, OfficeInv
<1>4. CASE FinalizeInSales(v) \/ CancelInSales(v)
  <2>1. PICK st \in {"FINALIZED", "CANCELLED"} : salesOrder' = [salesOrder EXCEPT ![v].status = st]
    BY <1>4 DEF FinalizeInSales, CancelInSales
  <2>2. UNCHANGED <<made, edited, billed>>
    BY <1>4 DEF FinalizeInSales, CancelInSales, SalesUnchanged
  <2>3. salesOrder' \in [Visitors -> SalesOrders] /\ \A u \in Visitors : salesOrder'[u].lines = salesOrder[u].lines
    BY <1>1, <2>1 DEF SalesOrders
  <2>4. OneInvoices'
    BY <1>2, <2>2 DEF OneInvoices, Excused, AtWork
  <2> QED BY <1>1, <1>2, <2>2, <2>3, <2>4, OfficeInv
<1>5. CASE ConvertInSales(v)
  <2>1. made' = [made EXCEPT ![v] = made[v] + 1] /\ billed' = billed \cup {v} /\ UNCHANGED <<salesOrder, edited>>
    BY <1>5 DEF ConvertInSales
  <2>2. made' \in [Visitors -> Nat] /\ \A u \in Visitors : made'[u] = IF u = v THEN made[v] + 1 ELSE made[u]
    BY <1>1, <2>1
  <2>3. OneInvoices'
    <3>1. \A u \in Visitors : /\ order'[u].invoice <= made'[u]
                              /\ order'[u].status \in {"none", "NEW"} =>
                                   order'[u].invoice = 0 /\ (made'[u] = 0 \/ u \in billed')
      <4> SUFFICES ASSUME NEW u \in Visitors
                   PROVE  /\ order[u].invoice <= made'[u]
                          /\ order[u].status \in {"none", "NEW"} =>
                               order[u].invoice = 0 /\ (made'[u] = 0 \/ u \in billed')
        BY <1>2
      <4>1. /\ order[u].invoice <= made[u] /\ order[u].invoice \in Nat /\ made[u] \in Nat
            /\ order[u].status \in {"none", "NEW"} => order[u].invoice = 0 /\ (made[u] = 0 \/ u \in billed)
        BY <1>1 DEF OneInvoices, Orders
      <4> QED BY <2>1, <2>2, <4>1
    <3>2. \A c \in Clerks : clerk'[c].at # "idle" => ~(order'[clerk'[c].order].status \in {"none", "NEW"})
      BY <1>2 DEF OneInvoices
    <3>3. ASSUME NEW c \in Clerks, clerk'[c].at = "remember"
          PROVE  clerk'[c].doc \in 1..made'[clerk'[c].order]
      <4>1. clerk[c].doc \in 1..made[clerk[c].order] /\ clerk' = clerk
        BY <1>2, <3>3 DEF OneInvoices
      <4>2. clerk[c].order \in Visitors /\ made[clerk[c].order] \in Nat
        BY <1>1
      <4>3. made'[clerk[c].order] \in Nat /\ made[clerk[c].order] <= made'[clerk[c].order]
        BY <2>2, <4>2
      <4> QED BY <4>1, <4>2, <4>3
    <3>4. Excused' = Excused \cup {v} /\ \A u \in Visitors \ Excused' : made'[u] = made[u] /\ u \in Visitors \ Excused
      BY <1>2, <2>1, <2>2 DEF Excused
    <3>5. \A c \in Clerks : \A u : AtWork(c, u)' <=> AtWork(c, u)
      BY <1>2 DEF AtWork
    <3> QED BY <1>2, <3>1, <3>2, <3>3, <3>4, <3>5 DEF OneInvoices
  <2> QED BY <1>1, <1>2, <2>1, <2>2, <2>3, OfficeInv
<1> QED BY <1>3, <1>4, <1>5

LEMMA ShopNextInv == ShopInv /\ [ShopNext]_shopVars => ShopInv'
<1> SUFFICES ASSUME ShopInv, [ShopNext]_shopVars PROVE ShopInv'
  OBVIOUS
<1>1. CASE UNCHANGED shopVars
  BY <1>1 DEF shopVars, ShopInv, ShopTyped, CartFollowed, OneLooks, OneInvoices, Looking, AtWork, Excused
<1>2. CASE ShopNext
  BY <1>2, SettingsInv, ReadCartInv, VisitorStepsInv, SetOrderStatusInv, ReadOrderInv, FinalizeSalesOrderInv,
     ConvertToInvoiceInv, RememberInvoiceInv, CreateInvoiceFailsInv, SalesStepsInv DEF ShopNext
<1> QED BY <1>1, <1>2

\* An order of the shop is its cart, line by line and in total, and so is its sales order
\* unless the team edited that; its customer is one record unless two visitors gave one
\* address at once, and it is invoiced once, and not when it is cancelled, unless requests
\* of the team overlapped on it, one was cut short or its document was converted in the
\* sales module, which may also edit, finalise and cancel it at any time (PlaceOrder,
\* SetOrderStatus and CreateInvoice of shop.go).
THEOREM OrdersStay == ShopSpec => []OrdersInvoicedOnce
<1>1. ShopSpec => []ShopInv
  BY ShopInitInv, ShopNextInv, PTL DEF ShopSpec
<1> QED BY <1>1, ShopInvHolds, PTL

-----------------------------------------------------------------------------
(* FieldService *)

PlanRows == [state : {"none", "live", "gone"}, asset : Assets, every : Rests \cup {1}, first : Nat, due : Nat, active : BOOLEAN]
IncidentRows == [number : Nat, plan : Plans \cup {Manual}, due : Nat, day : Nat, status : IncidentStatuses, resolved : Nat]
Holds == [plans : SUBSET Plans, alive : SUBSET Assets]

FieldTyped ==
    /\ date \in Days /\ utc \in Days /\ utc - date \in {-1, 0, 1} /\ asset \in [Assets -> {"ACTIVE", "RETIRED"}]
    /\ plan \in [Plans -> PlanRows] /\ incident \in Seq(IncidentRows) /\ keeper \in [Keepers -> Holds]

\* An incident has the number of its place, and is resolved on a day it was there.
NumberedAndStamped ==
    /\ nextNumber = Len(incident) + 1
    /\ \A i \in DOMAIN incident :
         /\ incident[i].number = i /\ incident[i].day <= date
         /\ incident[i].resolved # 0 <=> incident[i].status \in Over
         /\ incident[i].resolved # 0 => incident[i].day <= incident[i].resolved /\ incident[i].resolved <= date

\* Every plan whose rows a worker holds is due, and no other worker holds it.
HeldIsDue ==
    /\ \A w, u \in Keepers : w # u => keeper[w].plans \cap keeper[u].plans = {}
    /\ \A w \in Keepers : \A p \in keeper[w].plans : plan[p].state = "live" /\ plan[p].due <= date

\* A plan's next date is after the due dates and the days of the incidents it has raised,
\* if the database's day had come in UTC by then.
PlansAhead ==
    \A i \in DOMAIN incident : incident[i].plan # Manual /\ i \notin ahead =>
        /\ plan[incident[i].plan].state # "none"
        /\ incident[i].due < plan[incident[i].plan].due /\ incident[i].day < plan[incident[i].plan].due

FieldInv == FieldTyped /\ NumberedAndStamped /\ HeldIsDue /\ PlansAhead /\ OneNotABacklog

LEMMA FieldInvHolds == FieldInv => ServicedOnce
<1> SUFFICES ASSUME FieldInv PROVE FieldTypeOK
  BY DEF ServicedOnce, FieldInv
<1> USE DEF FieldInv
<1>1. /\ date \in Days /\ utc \in Days /\ utc - date \in {-1, 0, 1} /\ asset \in [Assets -> {"ACTIVE", "RETIRED"}]
      /\ nextNumber = Len(incident) + 1 /\ date \in Nat
  BY FieldAssumption DEF FieldTyped, NumberedAndStamped, Days
<1>2. \A p \in Plans : plan[p].state \in {"none", "live", "gone"} /\ plan[p].every \in Rests \cup {1}
  BY DEF FieldTyped, PlanRows
<1>3. ASSUME NEW i \in DOMAIN incident
      PROVE  /\ incident[i].number = i
             /\ incident[i].status \in IncidentStatuses
             /\ incident[i].resolved # 0 <=> incident[i].status \in Over
             /\ incident[i].resolved # 0 => incident[i].resolved \in incident[i].day..date
  <2>1. incident[i] \in IncidentRows
    BY LenProperties DEF FieldTyped
  <2>2. incident[i].status \in IncidentStatuses /\ incident[i].resolved \in Nat /\ incident[i].day \in Nat
    BY <2>1 DEF IncidentRows
  <2> QED BY <1>1, <2>2 DEF NumberedAndStamped
<1> QED BY <1>1, <1>2, <1>3 DEF FieldTypeOK

LEMMA FieldInitInv == FieldInit => FieldInv
<1> SUFFICES ASSUME FieldInit PROVE FieldInv
  OBVIOUS
<1>1. NoPlan \in PlanRows /\ NoHold \in Holds /\ NoHold.plans = {}
  BY FieldAssumption DEF NoPlan, PlanRows, NoHold, Holds
<1>2. incident = <<>> /\ Len(incident) = 0 /\ incident \in Seq(IncidentRows) /\ DOMAIN incident = {}
  BY DEF FieldInit
<1>3. FieldTyped
  BY <1>1, <1>2, FieldAssumption DEF FieldInit, FieldTyped, Days
<1>4. NumberedAndStamped /\ HeldIsDue /\ PlansAhead /\ OneNotABacklog
  BY <1>1, <1>2 DEF FieldInit, NumberedAndStamped, HeldIsDue, PlansAhead, OneNotABacklog
<1> QED BY <1>3, <1>4 DEF FieldInv

\* What is known of a row.
LEMMA FieldRows ==
    ASSUME FieldInv
    PROVE  /\ date \in Nat /\ date # 0 /\ utc \in Nat /\ DOMAIN incident = 1..Len(incident) /\ Len(incident) \in Nat
           /\ \A i \in DOMAIN incident : incident[i] \in IncidentRows /\ incident[i].due \in Nat /\ incident[i].day \in Nat
                                         /\ incident[i].resolved \in Nat
           /\ \A p \in Plans : plan[p] \in PlanRows /\ plan[p].due \in Nat
<1>1. date \in Nat /\ date # 0 /\ utc \in Nat
  BY FieldAssumption DEF FieldInv, FieldTyped, Days
<1>2. DOMAIN incident = 1..Len(incident) /\ Len(incident) \in Nat /\ \A i \in DOMAIN incident : incident[i] \in IncidentRows
  BY LenProperties DEF FieldInv, FieldTyped
<1>3. \A i \in DOMAIN incident : incident[i].due \in Nat /\ incident[i].day \in Nat /\ incident[i].resolved \in Nat
  BY <1>2 DEF IncidentRows
<1>4. \A p \in Plans : plan[p] \in PlanRows /\ plan[p].due \in Nat
  BY DEF FieldInv, FieldTyped, PlanRows
<1> QED BY <1>1, <1>2, <1>3, <1>4

\* Assets, the clocks and the loss of a transaction.
LEMMA RestInv ==
    ASSUME FieldInv, (\E a \in Assets : UpdateAsset(a)) \/ Midnight \/ UtcMidnight \/ \E w \in Keepers : RaiseFails(w)
    PROVE  FieldInv'
<1> USE DEF FieldInv
<1>1. UNCHANGED <<plan, incident, nextNumber, ahead>>
  BY DEF UpdateAsset, Midnight, UtcMidnight, TimeOnly, RaiseFails
<1>2. /\ date' \in Days /\ utc' \in Days /\ utc' - date' \in {-1, 0, 1} /\ asset' \in [Assets -> {"ACTIVE", "RETIRED"}] /\ keeper' \in [Keepers -> Holds]
      /\ date' \in Nat /\ date <= date' /\ \A w \in Keepers : keeper'[w].plans \subseteq keeper[w].plans
  <2>1. CASE \E a \in Assets : UpdateAsset(a)
    BY <2>1, FieldRows DEF UpdateAsset, FieldTyped, clocks
  <2>2. CASE Midnight \/ UtcMidnight
    <3>1. /\ asset' \in [Assets -> {"ACTIVE", "RETIRED"}] /\ keeper' \in [Keepers -> Holds]
          /\ \A w \in Keepers : keeper'[w].plans \subseteq keeper[w].plans
      BY <2>2 DEF Midnight, UtcMidnight, TimeOnly, FieldTyped
    <3>2. date \in Days /\ utc \in Days /\ utc - date \in {-1, 0, 1} /\ LastDay \in Nat \ {0}
      BY FieldAssumption DEF FieldTyped
    <3>3. CASE Midnight
      <4>1. date < LastDay /\ date <= utc /\ date' = date + 1 /\ utc' = utc
        BY <3>3 DEF Midnight
      <4> QED BY <3>1, <3>2, <4>1 DEF Days
    <3>4. CASE UtcMidnight
      <4>1. utc < LastDay /\ utc <= date /\ utc' = utc + 1 /\ date' = date
        BY <3>4 DEF UtcMidnight
      <4> QED BY <3>1, <3>2, <4>1 DEF Days
    <3> QED BY <2>2, <3>3, <3>4
  <2>3. CASE \E w \in Keepers : RaiseFails(w)
    <3>1. NoHold \in Holds /\ NoHold.plans = {}
      BY DEF NoHold, Holds
    <3> QED BY <2>3, <3>1, FieldRows DEF RaiseFails, FieldTyped, clocks
  <2> QED BY <2>1, <2>2, <2>3
<1>3. FieldTyped'
  BY <1>1, <1>2 DEF FieldTyped
<1>4. NumberedAndStamped'
  BY <1>1, <1>2, FieldRows DEF NumberedAndStamped
<1>5. HeldIsDue'
  <2>1. \A w, u \in Keepers : w # u => keeper'[w].plans \cap keeper'[u].plans = {}
    BY <1>2 DEF HeldIsDue
  <2>2. ASSUME NEW w \in Keepers, NEW p \in keeper'[w].plans PROVE plan'[p].state = "live" /\ plan'[p].due <= date'
    <3>1. p \in Plans /\ plan[p].state = "live" /\ plan[p].due <= date
      BY <1>2, <2>2 DEF HeldIsDue, FieldTyped, Holds
    <3> QED BY <1>1, <1>2, <3>1, FieldRows
  <2> QED BY <2>1, <2>2 DEF HeldIsDue
<1>6. PlansAhead' /\ OneNotABacklog'
  BY <1>1 DEF PlansAhead, OneNotABacklog
<1> QED BY <1>3, <1>4, <1>5, <1>6

\* A plan that no worker holds is changed.
LEMMA PlanChangesInv ==
    ASSUME FieldInv, NEW p \in Plans, NEW x \in PlanRows, plan' = [plan EXCEPT ![p] = x],
           UNCHANGED <<date, utc, asset, incident, nextNumber, keeper, ahead>>,
           \A w \in Keepers : p \notin keeper[w].plans,
           x.state # "none", plan[p].state = "none" \/ x.due = plan[p].due
    PROVE  FieldInv'
<1> USE DEF FieldInv
<1>1. FieldTyped'
  BY DEF FieldTyped
<1>2. plan'[p] = x /\ \A q \in Plans \ {p} : plan'[q] = plan[q]
  BY DEF FieldTyped
<1>3. NumberedAndStamped' /\ OneNotABacklog'
  BY DEF NumberedAndStamped, OneNotABacklog
<1>4. HeldIsDue'
  <2>1. ASSUME NEW w \in Keepers, NEW q \in keeper[w].plans PROVE plan'[q] = plan[q]
    <3>1. q \in Plans
      BY <2>1 DEF FieldTyped, Holds
    <3> QED BY <1>2, <3>1
  <2> QED BY <2>1 DEF HeldIsDue
<1>5. PlansAhead'
  <2> SUFFICES ASSUME NEW i \in DOMAIN incident, incident[i].plan # Manual, i \notin ahead
               PROVE  /\ plan'[incident[i].plan].state # "none"
                      /\ incident[i].due < plan'[incident[i].plan].due /\ incident[i].day < plan'[incident[i].plan].due
    BY DEF PlansAhead
  <2>1. incident[i].plan \in Plans
    BY FieldRows DEF IncidentRows
  <2>2. /\ plan[incident[i].plan].state # "none"
        /\ incident[i].due < plan[incident[i].plan].due /\ incident[i].day < plan[incident[i].plan].due
    BY DEF PlansAhead
  <2> QED BY <1>2, <2>1, <2>2
<1> QED BY <1>1, <1>3, <1>4, <1>5

LEMMA PlansInv ==
    ASSUME FieldInv, NEW p \in Plans, CreatePlan(p) \/ SetPlanActive(p) \/ DeletePlan(p)
    PROVE  FieldInv'
<1> USE DEF FieldInv
<1>1. plan[p] \in PlanRows
  BY FieldRows
<1>2. UNCHANGED <<date, utc, asset, incident, nextNumber, keeper, ahead>>
  BY DEF CreatePlan, SetPlanActive, DeletePlan, clocks
<1>3. PICK x \in PlanRows : plan' = [plan EXCEPT ![p] = x] /\ x.state # "none" /\ (plan[p].state = "none" \/ x.due = plan[p].due)
  <2>1. CASE CreatePlan(p)
    <3>1. PICK a \in Assets, e \in Rests, d \in Days :
             plan' = [plan EXCEPT ![p] = [state |-> "live", asset |-> a, every |-> e, first |-> d, due |-> d, active |-> TRUE]]
      BY <2>1 DEF CreatePlan
    <3>2. d \in Nat
      BY DEF Days
    <3>3. [state |-> "live", asset |-> a, every |-> e, first |-> d, due |-> d, active |-> TRUE] \in PlanRows
      BY <3>2 DEF PlanRows
    <3> QED BY <2>1, <3>1, <3>3 DEF CreatePlan
  <2>2. CASE SetPlanActive(p)
    <3>1. PICK k \in BOOLEAN : k = ~plan[p].active
      OBVIOUS
    <3>2. PICK x : x = [plan[p] EXCEPT !.active = k]
      OBVIOUS
    <3>3. x \in PlanRows /\ x.state = plan[p].state /\ x.due = plan[p].due
      BY <1>1, <3>2 DEF PlanRows
    <3>4. plan' = [plan EXCEPT ![p] = x] /\ plan[p].state = "live"
      BY <2>2, <3>1, <3>2 DEF SetPlanActive
    <3> QED BY <3>3, <3>4
  <2>3. CASE DeletePlan(p)
    <3>1. PICK x : x = [plan[p] EXCEPT !.state = "gone"]
      OBVIOUS
    <3>2. x \in PlanRows /\ x.state = "gone" /\ x.due = plan[p].due
      BY <1>1, <3>1 DEF PlanRows
    <3> QED BY <2>3, <3>1, <3>2 DEF DeletePlan
  <2> QED BY <2>1, <2>2, <2>3
<1>4. \A w \in Keepers : p \notin keeper[w].plans
  BY DEF CreatePlan, SetPlanActive, DeletePlan, Held, HeldIsDue
<1> HIDE DEF FieldInv
<1> QED BY <1>2, <1>3, <1>4, PlanChangesInv

LEMMA SetStatusInv ==
    ASSUME FieldInv, NEW i \in DOMAIN incident, NEW st \in IncidentStatuses, SetStatus(i, st)
    PROVE  FieldInv'
<1> USE DEF FieldInv
<1>1. incident[i] \in IncidentRows /\ incident \in Seq(IncidentRows) /\ incident[i].day \in Nat /\ date \in Nat
  BY FieldRows DEF FieldTyped
<1>2. PICK stamp : stamp = Stamp(i, st)
  OBVIOUS
<1>3. /\ stamp \in Nat /\ (stamp # 0 <=> st \in Over)
      /\ stamp # 0 => incident[i].day <= stamp /\ stamp <= date
  BY <1>1, <1>2, FieldRows DEF Stamp, NumberedAndStamped
<1>4. PICK x : x = [incident[i] EXCEPT !.status = st, !.resolved = stamp]
  OBVIOUS
<1>5. /\ x \in IncidentRows /\ x.number = incident[i].number /\ x.plan = incident[i].plan /\ x.due = incident[i].due
      /\ x.day = incident[i].day /\ x.status = st /\ x.resolved = stamp
  BY <1>1, <1>3, <1>4 DEF IncidentRows
<1>6. incident' = [incident EXCEPT ![i] = x] /\ UNCHANGED <<date, utc, asset, plan, nextNumber, keeper, ahead>>
  BY <1>2, <1>4 DEF SetStatus, clocks
<1>7. incident' \in Seq(IncidentRows) /\ Len(incident') = Len(incident) /\ DOMAIN incident' = DOMAIN incident
  <2>1. [incident EXCEPT ![i] = x] \in [DOMAIN incident -> IncidentRows]
    BY <1>1, <1>5, FieldRows
  <2> QED BY <1>1, <1>6, <2>1, SamePositions
<1>8. \A j \in DOMAIN incident : incident'[j] = IF j = i THEN x ELSE incident[j]
  BY <1>6
<1>9. FieldTyped' /\ HeldIsDue'
  BY <1>6, <1>7 DEF FieldTyped, HeldIsDue
<1>10. NumberedAndStamped'
  <2> SUFFICES ASSUME NEW j \in DOMAIN incident
               PROVE  /\ incident'[j].number = j /\ incident'[j].day <= date
                      /\ incident'[j].resolved # 0 <=> incident'[j].status \in Over
                      /\ incident'[j].resolved # 0 => incident'[j].day <= incident'[j].resolved /\ incident'[j].resolved <= date
    BY <1>6, <1>7 DEF NumberedAndStamped
  <2> QED BY <1>3, <1>5, <1>8 DEF NumberedAndStamped
<1>11. \A j \in DOMAIN incident : /\ incident'[j].plan = incident[j].plan /\ incident'[j].due = incident[j].due
                                  /\ incident'[j].day = incident[j].day
  BY <1>5, <1>8
<1>12. PlansAhead' /\ OneNotABacklog'
  BY <1>6, <1>7, <1>11 DEF PlansAhead, OneNotABacklog
<1> QED BY <1>9, <1>10, <1>12

LEMMA CreateIncidentInv ==
    ASSUME FieldInv, CreateIncident
    PROVE  FieldInv'
<1> USE DEF FieldInv
<1>1. PICK x : x = Incident(Numbered(1), Manual, 0)
  OBVIOUS
<1>2. /\ x \in IncidentRows /\ x.number = Len(incident) + 1 /\ x.plan = Manual /\ x.day = date
      /\ x.status = "OPEN" /\ x.resolved = 0
  <2>1. Numbered(1) = Len(incident) + 1 /\ Numbered(1) \in Nat /\ date \in Nat
    BY FieldRows DEF Numbered, NumberedAndStamped
  <2> QED BY <1>1, <2>1 DEF Incident, IncidentRows, IncidentStatuses
<1>3. incident' = Append(incident, x) /\ nextNumber' = nextNumber + 1 /\ UNCHANGED <<date, utc, asset, plan, keeper, ahead>>
  BY <1>1 DEF CreateIncident, clocks
<1>4. /\ incident' \in Seq(IncidentRows) /\ Len(incident') = Len(incident) + 1
      /\ DOMAIN incident' = DOMAIN incident \cup {Len(incident) + 1} /\ Len(incident) + 1 \notin DOMAIN incident
      /\ \A j \in DOMAIN incident : incident'[j] = incident[j]
      /\ incident'[Len(incident) + 1] = x
  BY <1>2, <1>3, AddAtEnd DEF FieldTyped
<1>5. FieldTyped' /\ HeldIsDue'
  BY <1>3, <1>4 DEF FieldTyped, HeldIsDue
<1>6. NumberedAndStamped'
  BY <1>2, <1>3, <1>4, FieldRows DEF NumberedAndStamped, Over
<1>7. PlansAhead'
  BY <1>2, <1>3, <1>4 DEF PlansAhead
<1>8. OneNotABacklog'
  BY <1>2, <1>3, <1>4, FieldRows DEF OneNotABacklog
<1> QED BY <1>5, <1>6, <1>7, <1>8

LEMMA FindDueInv ==
    ASSUME FieldInv, NEW w \in Keepers, FindDue(w)
    PROVE  FieldInv'
<1> USE DEF FieldInv
<1>1. PICK x : x = [plans |-> DuePlans, alive |-> {a \in Assets : asset[a] = "ACTIVE"}]
  OBVIOUS
<1>2. x \in Holds /\ x.plans = DuePlans /\ DuePlans \subseteq Plans
  BY <1>1 DEF Holds, DuePlans
<1>3. keeper' = [keeper EXCEPT ![w] = x] /\ UNCHANGED <<date, utc, asset, plan, incident, nextNumber, ahead>>
      /\ DuePlans \cap Held = {}
  BY <1>1 DEF FindDue, clocks
<1>4. \A u \in Keepers : keeper'[u] = IF u = w THEN x ELSE keeper[u]
  BY <1>3 DEF FieldTyped
<1>5. FieldTyped'
  BY <1>2, <1>3 DEF FieldTyped
<1>6. NumberedAndStamped' /\ PlansAhead' /\ OneNotABacklog'
  BY <1>3 DEF NumberedAndStamped, PlansAhead, OneNotABacklog
<1>7. HeldIsDue'
  <2>1. \A u \in Keepers : DuePlans \cap keeper[u].plans = {}
    BY <1>3 DEF Held
  <2>2. \A p \in DuePlans : plan[p].state = "live" /\ plan[p].due <= date
    BY DEF DuePlans
  <2> QED BY <1>2, <1>3, <1>4, <2>1, <2>2 DEF HeldIsDue
<1> QED BY <1>5, <1>6, <1>7

\* Counting on from a date that has come leads past today.
LEMMA CountsPast ==
    ASSUME NEW a \in Nat, NEW t \in Nat, NEW e \in Nat \ {0}, a <= t
    PROVE  a + e * ((t - a) \div e + 1) \in Nat /\ a + e * ((t - a) \div e + 1) > t
<1>1. PICK x \in Nat : x = t - a
  OBVIOUS
<1>2. PICK q : q = x \div e
  OBVIOUS
<1>3. q \in Int /\ x < e * (q + 1)
  <2>1. q \in Int
    BY <1>2
  <2>2. x \in e * q .. e * q + e - 1
    BY <1>2, SMTT(30)
  <2> QED BY <2>1, <2>2, SMTT(30)
<1>4. e * (q + 1) \in Int
  BY <1>3
<1> QED BY <1>1, <1>2, <1>3, <1>4

LEMMA RaiseDueInv ==
    ASSUME FieldInv, NEW w \in Keepers, RaiseDue(w)
    PROVE  FieldInv'
<1> USE DEF FieldInv
<1>1. PICK S : S = Serviced(w)
  OBVIOUS
<1>2. S \subseteq keeper[w].plans /\ keeper[w].plans \subseteq Plans /\ S \subseteq Plans
  BY <1>1 DEF Serviced, FieldTyped, Holds
<1>3. PICK n \in Nat : n = Cardinality(S)
  <2>1. IsFiniteSet(S)
    BY <1>2, FieldAssumption, FS_Subset
  <2> QED BY <2>1, FS_CardinalityType
<1>4. PICK raised \in SetToSeqs(S) :
         incident' = incident \o [i \in DOMAIN raised |-> Incident(Numbered(i), raised[i], plan[raised[i]].due)]
  BY <1>1 DEF RaiseDue
<1>5. /\ raised \in [1..n -> S] /\ DOMAIN raised = 1..n
      /\ \A i, j \in 1..n : i # j => raised[i] # raised[j]
  BY <1>3, <1>4 DEF SetToSeqs
<1>6. /\ nextNumber' = nextNumber + n /\ keeper' = [keeper EXCEPT ![w] = NoHold] /\ UNCHANGED <<date, utc, asset>>
      /\ ahead' = IF date > utc THEN ahead \cup Len(incident) + 1 .. Len(incident) + n ELSE ahead
      /\ plan' = [p \in Plans |-> IF p \in keeper[w].plans THEN [plan[p] EXCEPT !.due = NextDue(p)] ELSE plan[p]]
  BY <1>1, <1>3 DEF RaiseDue, MovedPlans, clocks
\* The new incidents.
<1>7. PICK new : new = [i \in 1..n |-> Incident(Numbered(i), raised[i], plan[raised[i]].due)]
  OBVIOUS
<1>8. ASSUME NEW i \in 1..n
      PROVE  /\ new[i] \in IncidentRows /\ new[i].number = Len(incident) + i /\ new[i].plan = raised[i]
             /\ new[i].due = plan[raised[i]].due /\ new[i].day = date /\ new[i].status = "OPEN" /\ new[i].resolved = 0
             /\ raised[i] \in S
  <2>1. raised[i] \in S /\ raised[i] \in Plans /\ plan[raised[i]].due \in Nat /\ date \in Nat
    BY <1>2, <1>5, FieldRows
  <2>2. Numbered(i) = Len(incident) + i /\ Numbered(i) \in Nat
    BY FieldRows DEF Numbered, NumberedAndStamped
  <2> QED BY <1>7, <2>1, <2>2 DEF Incident, IncidentRows, IncidentStatuses
<1>9. new \in Seq(IncidentRows) /\ Len(new) = n
  <2>1. new \in [1..n -> IncidentRows]
    BY <1>7, <1>8
  <2> QED BY <2>1
<1>10. incident \in Seq(IncidentRows) /\ incident' = incident \o new
  BY <1>4, <1>5, <1>7 DEF FieldTyped
<1>11. /\ incident' \in Seq(IncidentRows) /\ Len(incident') = Len(incident) + n
       /\ \A i \in 1..(Len(incident) + n) :
            incident'[i] = IF i <= Len(incident) THEN incident[i] ELSE new[i - Len(incident)]
  BY <1>9, <1>10, ConcatProperties
<1>12. /\ DOMAIN incident' = 1..(Len(incident) + n)
       /\ \A i \in DOMAIN incident' : \/ i \in DOMAIN incident /\ incident'[i] = incident[i]
                                      \/ \E k \in 1..n : i = Len(incident) + k /\ incident'[i] = new[k]
  <2>1. DOMAIN incident' = 1..(Len(incident) + n)
    BY <1>11, LenProperties
  <2>2. ASSUME NEW i \in DOMAIN incident'
        PROVE  \/ i \in DOMAIN incident /\ incident'[i] = incident[i]
               \/ \E k \in 1..n : i = Len(incident) + k /\ incident'[i] = new[k]
    <3>1. CASE i <= Len(incident)
      BY <1>11, <2>1, <3>1, FieldRows
    <3>2. CASE ~(i <= Len(incident))
      <4>1. i - Len(incident) \in 1..n /\ i = Len(incident) + (i - Len(incident)) /\ incident'[i] = new[i - Len(incident)]
        BY <1>11, <2>1, <3>2, FieldRows
      <4> QED BY <4>1
    <3> QED BY <3>1, <3>2
  <2> QED BY <2>1, <2>2
\* The plans that are moved on.
<1>13. ASSUME NEW p \in keeper[w].plans
       PROVE  /\ plan[p].state = "live" /\ plan[p].due <= date
              /\ plan'[p] \in PlanRows /\ plan'[p].state = plan[p].state
              /\ plan'[p].due >= plan[p].due /\ plan'[p].due > utc
  <2>1. p \in Plans /\ plan[p].state = "live" /\ plan[p].due <= date /\ plan[p] \in PlanRows /\ plan[p].due \in Nat /\ utc \in Nat
    BY <1>2, FieldRows DEF HeldIsDue
  <2>2. plan[p].every \in Nat \ {0}
    <3>1. plan[p].every \in Rests \cup {1}
      BY <2>1 DEF PlanRows
    <3>2. \A e \in Rests \cup {1} : e \in Nat \ {0}
      <4>1. \A e \in Rests : e \in Nat \ {0}
        BY FieldAssumption
      <4> QED BY <4>1
    <3> QED BY <3>1, <3>2
  <2>3. PICK d : d = NextDue(p)
    OBVIOUS
  <2>4. d \in Nat /\ d > utc /\ d >= plan[p].due
    <3>1. CASE plan[p].due > utc
      BY <2>1, <2>3, <3>1 DEF NextDue
    <3>2. CASE plan[p].due <= utc
      <4>1. d = plan[p].due + plan[p].every * ((utc - plan[p].due) \div plan[p].every + 1)
        BY <2>1, <2>3, <3>2 DEF NextDue
      <4>2. d \in Nat /\ d > utc
        BY <2>1, <2>2, <3>2, <4>1, CountsPast
      <4> QED BY <2>1, <3>2, <4>2
    <3> QED BY <2>1, <3>1, <3>2
  <2>5. plan'[p] = [plan[p] EXCEPT !.due = d]
    BY <1>6, <2>1, <2>3
  <2> QED BY <2>1, <2>4, <2>5 DEF PlanRows
<1>14. \A p \in Plans \ keeper[w].plans : plan'[p] = plan[p]
  BY <1>6
<1>15. \A u \in Keepers : keeper'[u] = IF u = w THEN NoHold ELSE keeper[u]
  BY <1>6 DEF FieldTyped
<1>16. FieldTyped'
  <2>1. plan' \in [Plans -> PlanRows]
    <3>1. ASSUME NEW p \in Plans PROVE plan'[p] \in PlanRows
      BY <1>13, <1>14, FieldRows
    <3> QED BY <1>6, <3>1
  <2>2. keeper' \in [Keepers -> Holds]
    <3>1. NoHold \in Holds
      BY DEF NoHold, Holds
    <3> QED BY <1>6, <3>1 DEF FieldTyped
  <2> QED BY <1>6, <1>11, <2>1, <2>2 DEF FieldTyped
<1>17. NumberedAndStamped'
  <2>1. nextNumber' = Len(incident') + 1
    BY <1>6, <1>11, FieldRows DEF NumberedAndStamped
  <2>2. ASSUME NEW i \in DOMAIN incident'
        PROVE  /\ incident'[i].number = i /\ incident'[i].day <= date
               /\ incident'[i].resolved # 0 <=> incident'[i].status \in Over
               /\ incident'[i].resolved # 0 => incident'[i].day <= incident'[i].resolved /\ incident'[i].resolved <= date
    <3>1. CASE i \in DOMAIN incident /\ incident'[i] = incident[i]
      BY <3>1 DEF NumberedAndStamped
    <3>2. ASSUME NEW k \in 1..n, i = Len(incident) + k /\ incident'[i] = new[k]
          PROVE  /\ incident'[i].number = i /\ incident'[i].day <= date
                 /\ incident'[i].resolved = 0 /\ incident'[i].status \notin Over
      BY <1>8, <3>2, FieldRows DEF Over
    <3> QED BY <1>12, <3>1, <3>2
  <2> QED BY <1>6, <2>1, <2>2 DEF NumberedAndStamped
<1>18. HeldIsDue'
  <2>1. NoHold.plans = {}
    BY DEF NoHold
  <2>2. ASSUME NEW u \in Keepers, NEW p \in keeper'[u].plans PROVE plan'[p].state = "live" /\ plan'[p].due <= date
    <3>1. u # w /\ p \in keeper[u].plans
      BY <1>15, <2>1, <2>2
    <3>2. p \in Plans \ keeper[w].plans
      BY <3>1 DEF HeldIsDue, FieldTyped, Holds
    <3> QED BY <1>14, <3>1, <3>2 DEF HeldIsDue
  <2>3. \A u, v \in Keepers : u # v => keeper'[u].plans \cap keeper'[v].plans = {}
    BY <1>15, <2>1 DEF HeldIsDue
  <2> QED BY <1>6, <2>2, <2>3 DEF HeldIsDue
\* What was raised before is before the dates that are due now.
<1>22. \A i \in DOMAIN incident : i \notin ahead' => i \notin ahead
  BY <1>6
<1>23. \A k \in 1..n : Len(incident) + k \notin ahead' => date <= utc
  <2>1. Len(incident) \in Nat /\ date \in Nat /\ utc \in Nat
    BY FieldRows
  <2>2. \A k \in 1..n : Len(incident) + k \in Len(incident) + 1 .. Len(incident) + n
    BY <1>3, <2>1
  <2> QED BY <1>6, <2>1, <2>2
<1>19. ASSUME NEW i \in DOMAIN incident, incident[i].plan # Manual, i \notin ahead
       PROVE  /\ incident[i].plan \in Plans /\ incident[i].due \in Nat /\ incident[i].day \in Nat
              /\ plan[incident[i].plan].state # "none"
              /\ incident[i].due < plan[incident[i].plan].due /\ incident[i].day < plan[incident[i].plan].due
  <2>1. incident[i].plan \in Plans
    BY <1>19, FieldRows DEF IncidentRows
  <2> QED BY <1>19, <2>1, FieldRows DEF PlansAhead
<1>20. PlansAhead'
  <2> SUFFICES ASSUME NEW i \in DOMAIN incident', incident'[i].plan # Manual, i \notin ahead'
               PROVE  /\ plan'[incident'[i].plan].state # "none"
                      /\ incident'[i].due < plan'[incident'[i].plan].due /\ incident'[i].day < plan'[incident'[i].plan].due
    BY DEF PlansAhead
  <2>1. CASE i \in DOMAIN incident /\ incident'[i] = incident[i]
    <3>1. PICK p \in Plans : p = incident[i].plan
      BY <1>19, <1>22, <2>1
    <3>2. /\ plan[p].due \in Nat /\ plan[p].state # "none"
          /\ incident[i].due \in Nat /\ incident[i].day \in Nat
          /\ incident[i].due < plan[p].due /\ incident[i].day < plan[p].due
      BY <1>19, <1>22, <2>1, <3>1, FieldRows
    <3>3. CASE p \in keeper[w].plans
      <4>1. plan'[p].due \in Nat /\ plan[p].due <= plan'[p].due /\ plan'[p].state # "none"
        BY <1>13, <3>2, <3>3 DEF PlanRows
      <4> QED BY <2>1, <3>1, <3>2, <4>1
    <3>4. CASE p \notin keeper[w].plans
      BY <1>14, <2>1, <3>1, <3>2, <3>4
    <3> QED BY <3>3, <3>4
  <2>2. ASSUME NEW k \in 1..n, i = Len(incident) + k /\ incident'[i] = new[k]
        PROVE  /\ plan'[incident'[i].plan].state # "none"
               /\ incident'[i].due < plan'[incident'[i].plan].due /\ incident'[i].day < plan'[incident'[i].plan].due
    <3>1. /\ raised[k] \in keeper[w].plans /\ plan[raised[k]].due \in Nat /\ date \in Nat /\ utc \in Nat
          /\ date <= utc
      BY <1>2, <1>8, <1>23, <2>2, FieldRows
    <3>2. plan'[raised[k]].due \in Nat /\ plan'[raised[k]].due > utc /\ plan[raised[k]].due <= date
          /\ plan'[raised[k]].state # "none"
      BY <1>13, <3>1 DEF PlanRows
    <3> QED BY <1>8, <2>2, <3>1, <3>2
  <2> QED BY <1>12, <2>1, <2>2
<1>21. OneNotABacklog'
  <2> SUFFICES ASSUME NEW i \in DOMAIN incident', NEW j \in DOMAIN incident', i < j,
                      incident'[i].plan = incident'[j].plan, incident'[i].plan # Manual, i \notin ahead'
               PROVE  incident'[i].day # incident'[j].day /\ incident'[i].due # incident'[j].due
    BY DEF OneNotABacklog
  <2>1. CASE (i \in DOMAIN incident /\ incident'[i] = incident[i]) /\ (j \in DOMAIN incident /\ incident'[j] = incident[j])
    BY <1>22, <2>1 DEF OneNotABacklog
  <2>2. ASSUME NEW a \in DOMAIN incident, NEW k \in 1..n, incident[a].plan = new[k].plan, incident[a].plan # Manual,
               a \notin ahead'
        PROVE  incident[a].day # new[k].day /\ incident[a].due # new[k].due
    <3>1. raised[k] \in keeper[w].plans /\ plan[raised[k]].due \in Nat /\ date \in Nat
      BY <1>2, <1>8, FieldRows
    <3>2. plan[raised[k]].due <= date /\ new[k].plan = raised[k] /\ new[k].due = plan[raised[k]].due /\ new[k].day = date
      BY <1>8, <1>13, <3>1
    <3> QED BY <1>19, <1>22, <2>2, <3>1, <3>2
  <2>3. ASSUME NEW k \in 1..n, NEW l \in 1..n, k # l PROVE new[k].plan # new[l].plan
    BY <1>5, <1>8, <2>3
  <2>4. ~(j \in DOMAIN incident /\ \E k \in 1..n : i = Len(incident) + k)
    BY FieldRows
  <2>5. CASE i \in DOMAIN incident /\ incident'[i] = incident[i] /\ ~(j \in DOMAIN incident /\ incident'[j] = incident[j])
    <3>1. PICK k \in 1..n : j = Len(incident) + k /\ incident'[j] = new[k]
      BY <1>12, <2>5
    <3> QED BY <2>2, <2>5, <3>1
  <2>6. CASE ~(i \in DOMAIN incident /\ incident'[i] = incident[i])
    <3>1. PICK k \in 1..n : i = Len(incident) + k /\ incident'[i] = new[k]
      BY <1>12, <2>6
    <3>2. PICK l \in 1..n : j = Len(incident) + l /\ incident'[j] = new[l]
      BY <1>12, <2>4, <3>1
    <3> QED BY <2>3, <3>1, <3>2
  <2> QED BY <2>1, <2>5, <2>6
<1> QED BY <1>16, <1>17, <1>18, <1>20, <1>21

LEMMA FieldNextInv == FieldInv /\ [FieldNext]_fieldVars => FieldInv'
<1> SUFFICES ASSUME FieldInv, [FieldNext]_fieldVars PROVE FieldInv'
  OBVIOUS
<1>1. CASE UNCHANGED fieldVars
  BY <1>1 DEF fieldVars, FieldInv, FieldTyped, NumberedAndStamped, HeldIsDue, PlansAhead, OneNotABacklog
<1>2. CASE FieldNext
  BY <1>2, RestInv, PlansInv, CreateIncidentInv, SetStatusInv, FindDueInv, RaiseDueInv DEF FieldNext
<1> QED BY <1>1, <1>2

\* However far behind a plan is and however many workers run the loop, it raises no two
\* incidents on one day or for one due date, unless the date of the database was ahead of
\* the process's in UTC when the first was raised; and incidents are numbered without a gap
\* (RunMaintenance's FOR UPDATE, its two clocks and createIncident of fieldservice.go).
THEOREM ServicingStays == FieldSpec => []ServicedOnce
<1>1. FieldSpec => []FieldInv
  BY FieldInitInv, FieldNextInv, PTL DEF FieldSpec
<1> QED BY <1>1, FieldInvHolds, PTL

-----------------------------------------------------------------------------
(* Reminders *)

SettingRows == [enabled : BOOLEAN, after : After, every : Every, max : Limits]
LinkRows == [bill : Bills, expires : Nat, revoked : BOOLEAN, views : Nat, seen : Nat]
MailRows == [bill : Bills, on : Nat, read : Nat, link : Nat]
LogRows == [bill : Bills, on : Nat]
LoopRows == [at : {"rest", "link", "queue", "log"}, items : Seq(Bills), on : Nat, link : Nat]
Bounds == [max : Int, every : Int]

RemindersTyped ==
    /\ now \in 1..LastDate /\ settings \in SettingRows /\ open \subseteq Bills /\ paidOn \in [Bills -> Nat]
    /\ sentLog \in Seq(LogRows) /\ links \in Seq(LinkRows) /\ mails \in Seq(MailRows)
    /\ loop \in [Loops -> LoopRows] /\ loosest \in Bounds

\* A link is seen while it is valid, and a mail has a link to its own invoice.
LinksAndMails ==
    /\ \A i \in DOMAIN links : links[i].seen <= links[i].expires /\ (links[i].seen = 0 <=> links[i].views = 0)
    /\ \A i \in DOMAIN mails : /\ mails[i].link \in DOMAIN links /\ links[mails[i].link].bill = mails[i].bill
                               /\ mails[i].on <= now /\ mails[i].read <= now
    /\ \A w \in Loops : /\ loop[w].at = "rest" <=> loop[w].items = <<>>
                        /\ loop[w].on <= now
                        /\ loop[w].at = "queue" => loop[w].link \in DOMAIN links /\ links[loop[w].link].bill = Item(w)

\* What a run still has in hand was open when it read it, and so was what it mailed.
ReadAsOpen ==
    /\ \A b \in open : paidOn[b] = 0
    /\ \A w \in Loops : \A i \in DOMAIN loop[w].items :
         LET p == paidOn[loop[w].items[i]] IN p = 0 \/ p >= loop[w].on
    /\ NoReminderAfterPayment

LoosestYet == settings.max <= loosest.max /\ loosest.every <= settings.every

\* An invoice of a run: to be mailed, or mailed and not yet logged.
Has(w, i, b) == i \in DOMAIN loop[w].items /\ loop[w].items[i] = b
ToMail(w, b) == \E i \in DOMAIN loop[w].items : loop[w].items[i] = b /\ ~(i = 1 /\ loop[w].at = "log")
ToLog(w, b) == loop[w].at = "log" /\ Has(w, 1, b)

\* One run has the invoice in hand, once.
OnceInHand(b) ==
    \A w, u \in Loops : \A i \in DOMAIN loop[w].items : \A j \in DOMAIN loop[u].items :
        loop[w].items[i] = b /\ loop[u].items[j] = b => w = u /\ i = j

\* A mail that is due is below the limit and far enough from those before.
MayMail(b) ==
    \A w \in Loops : ToMail(w, b) =>
        /\ Cardinality(Reminders(b)) < loosest.max
        /\ \A i \in Reminders(b) : loop[w].on - mails[i].on >= loosest.every

\* Between a mail and its log nothing else is mailed; otherwise each mail has a log.
Accounted(b) ==
    /\ (\A w \in Loops : ~ToLog(w, b)) =>
         /\ Cardinality(Reminders(b)) <= Cardinality(Logged(b))
         /\ \A i \in Reminders(b) : \E l \in Logged(b) : mails[i].on <= sentLog[l].on
    /\ Cardinality(Reminders(b)) <= Cardinality(Logged(b)) + 1

Paced(b) ==
    /\ Cardinality(Reminders(b)) <= loosest.max
    /\ \A i, j \in Reminders(b) : i < j => mails[j].read - mails[i].on >= loosest.every

Pace == \A b \in Bills \ excused : OnceInHand(b) /\ MayMail(b) /\ Accounted(b) /\ Paced(b)

RemindersInv == RemindersTyped /\ LinksAndMails /\ ReadAsOpen /\ LoosestYet /\ Pace

LEMMA RemindersInvHolds == RemindersInv => RemindedRightly
<1> SUFFICES ASSUME RemindersInv PROVE RemindedRightly
  OBVIOUS
<1>1. RemindersTypeOK
  <2>1. \A w \in Loops : loop[w] \in LoopRows
    BY DEF RemindersInv, RemindersTyped
  <2>2. \A w \in Loops : loop[w].at \in {"rest", "link", "queue", "log"}
    BY <2>1 DEF LoopRows
  <2> QED BY <2>2 DEF RemindersInv, RemindersTyped, LinksAndMails, RemindersTypeOK, SettingRows
<1>2. RemindedAsConfigured
  BY DEF RemindersInv, Pace, Paced, RemindedAsConfigured
<1> QED BY <1>1, <1>2 DEF RemindersInv, ReadAsOpen, RemindedRightly

\* What is known of the rows.
LEMMA ReminderRows ==
    ASSUME RemindersInv
    PROVE  /\ now \in Nat /\ now # 0 /\ settings.every \in Nat /\ settings.max \in Nat
           /\ loosest.max \in Int /\ loosest.every \in Int
           /\ \A w \in Loops : /\ loop[w] \in LoopRows /\ loop[w].items \in Seq(Bills) /\ loop[w].on \in Nat
                               /\ Len(loop[w].items) \in Nat /\ DOMAIN loop[w].items = 1..Len(loop[w].items)
                               /\ \A i \in DOMAIN loop[w].items : loop[w].items[i] \in Bills
                               /\ loop[w].at # "rest" => Len(loop[w].items) >= 1 /\ Item(w) \in Bills
           /\ \A i \in DOMAIN mails : mails[i] \in MailRows /\ mails[i].on \in Nat /\ mails[i].read \in Nat /\ mails[i].bill \in Bills
           /\ \A i \in DOMAIN sentLog : sentLog[i] \in LogRows /\ sentLog[i].on \in Nat
           /\ \A i \in DOMAIN links : links[i] \in LinkRows
<1>1. now \in Nat /\ now # 0
  BY RemindersAssumption DEF RemindersInv, RemindersTyped
<1>2. settings.every \in Nat /\ settings.max \in Nat
  <2>1. settings.every \in Every /\ settings.max \in Limits
    BY DEF RemindersInv, RemindersTyped, SettingRows
  <2>2. (\A e \in Every : e \in Nat) /\ \A e \in Limits : e \in Nat
    BY RemindersAssumption
  <2> QED BY <2>1, <2>2
<1>3. loosest.max \in Int /\ loosest.every \in Int
  BY DEF RemindersInv, RemindersTyped, Bounds
<1>4. ASSUME NEW w \in Loops
      PROVE  /\ loop[w] \in LoopRows /\ loop[w].items \in Seq(Bills) /\ loop[w].on \in Nat
             /\ Len(loop[w].items) \in Nat /\ DOMAIN loop[w].items = 1..Len(loop[w].items)
             /\ \A i \in DOMAIN loop[w].items : loop[w].items[i] \in Bills
             /\ loop[w].at # "rest" => Len(loop[w].items) >= 1 /\ Item(w) \in Bills
  <2>1. loop[w] \in LoopRows /\ loop[w].items \in Seq(Bills) /\ loop[w].on \in Nat
    BY DEF RemindersInv, RemindersTyped, LoopRows
  <2>2. /\ Len(loop[w].items) \in Nat /\ DOMAIN loop[w].items = 1..Len(loop[w].items)
        /\ \A i \in DOMAIN loop[w].items : loop[w].items[i] \in Bills
    BY <2>1, LenProperties, ElementOfSeq
  <2>3. loop[w].at # "rest" => Len(loop[w].items) >= 1 /\ Item(w) \in Bills
    <3>1. loop[w].at # "rest" => loop[w].items # <<>>
      BY DEF RemindersInv, LinksAndMails
    <3> QED BY <2>1, <2>2, <3>1, EmptySeq DEF Item
  <2> QED BY <2>1, <2>2, <2>3
<1>5. \A i \in DOMAIN mails : mails[i] \in MailRows /\ mails[i].on \in Nat /\ mails[i].read \in Nat /\ mails[i].bill \in Bills
  <2>1. \A i \in DOMAIN mails : mails[i] \in MailRows
    BY LenProperties, ElementOfSeq DEF RemindersInv, RemindersTyped
  <2> QED BY <2>1 DEF MailRows
<1>6. \A i \in DOMAIN sentLog : sentLog[i] \in LogRows /\ sentLog[i].on \in Nat
  <2>1. \A i \in DOMAIN sentLog : sentLog[i] \in LogRows
    BY LenProperties, ElementOfSeq DEF RemindersInv, RemindersTyped
  <2> QED BY <2>1 DEF LogRows
<1>7. \A i \in DOMAIN links : links[i] \in LinkRows
  BY LenProperties, ElementOfSeq DEF RemindersInv, RemindersTyped
<1> QED BY <1>1, <1>2, <1>3, <1>4, <1>5, <1>6, <1>7

\* The mails and the log of an invoice can be counted.
LEMMA FewOfEach ==
    ASSUME RemindersInv, NEW b
    PROVE  /\ Reminders(b) \subseteq DOMAIN mails /\ IsFiniteSet(Reminders(b)) /\ Cardinality(Reminders(b)) \in Nat
           /\ Logged(b) \subseteq DOMAIN sentLog /\ IsFiniteSet(Logged(b)) /\ Cardinality(Logged(b)) \in Nat
<1>1. DOMAIN mails = 1..Len(mails) /\ Len(mails) \in Nat /\ DOMAIN sentLog = 1..Len(sentLog) /\ Len(sentLog) \in Nat
  BY LenProperties DEF RemindersInv, RemindersTyped
<1>2. IsFiniteSet(1..Len(mails)) /\ IsFiniteSet(1..Len(sentLog))
  BY <1>1, FS_Interval
<1>3. Reminders(b) \subseteq 1..Len(mails) /\ Logged(b) \subseteq 1..Len(sentLog)
  BY <1>1 DEF Reminders, Logged
<1>4. IsFiniteSet(Reminders(b)) /\ IsFiniteSet(Logged(b))
  BY <1>2, <1>3, FS_Subset
<1> QED BY <1>1, <1>3, <1>4, FS_CardinalityType

LEMMA RemindersInitInv == RemindersInit => RemindersInv
<1> SUFFICES ASSUME RemindersInit PROVE RemindersInv
  OBVIOUS
<1>1. Resting \in LoopRows /\ Resting.items = <<>> /\ Resting.at = "rest" /\ Resting.on = 0 /\ DOMAIN Resting.items = {}
  BY DEF Resting, LoopRows
<1>2. \A w \in Loops : loop[w] = Resting
  BY DEF RemindersInit
<1>3. /\ sentLog = <<>> /\ links = <<>> /\ mails = <<>> /\ DOMAIN sentLog = {} /\ DOMAIN links = {} /\ DOMAIN mails = {}
      /\ now = 1 /\ settings \in SettingRows /\ loosest = [max |-> settings.max, every |-> settings.every]
  BY DEF RemindersInit, SettingRows
<1>4. settings.every \in Nat /\ settings.max \in Nat
  <2>1. settings.every \in Every /\ settings.max \in Limits
    BY <1>3 DEF SettingRows
  <2>2. (\A e \in Every : e \in Nat) /\ \A e \in Limits : e \in Nat
    BY RemindersAssumption
  <2> QED BY <2>1, <2>2
<1>5. RemindersTyped
  BY <1>1, <1>3, <1>4, RemindersAssumption DEF RemindersInit, RemindersTyped, Bounds
<1>6. LinksAndMails /\ LoosestYet
  BY <1>1, <1>2, <1>3, <1>4 DEF LinksAndMails, LoosestYet
<1>7. ReadAsOpen
  BY <1>1, <1>2, <1>3 DEF RemindersInit, ReadAsOpen, NoReminderAfterPayment
<1>8. Pace
  <2>1. \A b \in Bills : Reminders(b) = {} /\ Logged(b) = {} /\ Cardinality(Reminders(b)) = 0 /\ Cardinality(Logged(b)) = 0
    BY <1>3, FS_EmptySet DEF Reminders, Logged
  <2> QED BY <1>1, <1>2, <1>3, <1>4, <2>1 DEF Pace, OnceInHand, MayMail, Accounted, Paced, ToMail, ToLog, Has
<1> QED BY <1>5, <1>6, <1>7, <1>8 DEF RemindersInv

\* Users and the clock.
LEMMA SaveRemindersInv ==
    ASSUME RemindersInv, SaveReminders
    PROVE  RemindersInv'
<1> USE DEF RemindersInv
<1>1. /\ settings' \in SettingRows
      /\ loosest' = [max |-> Max({loosest.max, settings'.max}), every |-> Min({loosest.every, settings'.every})]
      /\ UNCHANGED <<now, due, open, paidOn, sentLog, links, mails, loop, excused>>
  BY DEF SaveReminders, SettingRows
<1>2. settings'.every \in Nat /\ settings'.max \in Nat /\ loosest.max \in Int /\ loosest.every \in Int
  <2>1. settings'.every \in Every /\ settings'.max \in Limits
    BY <1>1 DEF SettingRows
  <2>2. (\A e \in Every : e \in Nat) /\ \A e \in Limits : e \in Nat
    BY RemindersAssumption
  <2> QED BY <2>1, <2>2, ReminderRows
<1>3. \A a, b \in Int : /\ Max({a, b}) \in Int /\ Max({a, b}) >= a /\ Max({a, b}) >= b
                        /\ Min({a, b}) \in Int /\ Min({a, b}) <= a /\ Min({a, b}) <= b
  <2> SUFFICES ASSUME NEW a \in Int, NEW b \in Int
               PROVE  /\ Max({a, b}) \in Int /\ Max({a, b}) >= a /\ Max({a, b}) >= b
                      /\ Min({a, b}) \in Int /\ Min({a, b}) <= a /\ Min({a, b}) <= b
    OBVIOUS
  <2>1. \E x \in {a, b} : \A y \in {a, b} : x >= y
    OBVIOUS
  <2>2. \E x \in {a, b} : \A y \in {a, b} : x <= y
    OBVIOUS
  <2>3. Max({a, b}) \in {a, b} /\ \A y \in {a, b} : Max({a, b}) >= y
    BY <2>1 DEF Max
  <2>4. Min({a, b}) \in {a, b} /\ \A y \in {a, b} : Min({a, b}) <= y
    BY <2>2 DEF Min
  <2> QED BY <2>3, <2>4
<1>4. PICK m \in Int, e \in Int : /\ loosest' = [max |-> m, every |-> e]
                                  /\ m >= loosest.max /\ m >= settings'.max /\ e <= loosest.every /\ e <= settings'.every
  <2>1. PICK m : m = Max({loosest.max, settings'.max})
    OBVIOUS
  <2>2. PICK e : e = Min({loosest.every, settings'.every})
    OBVIOUS
  <2>3. m \in Int /\ m >= loosest.max /\ m >= settings'.max
    <3>1. PICK a \in Int, b \in Int : a = loosest.max /\ b = settings'.max
      BY <1>2
    <3>2. m = Max({a, b})
      BY <2>1, <3>1
    <3> QED BY <1>3, <3>1, <3>2
  <2>4. e \in Int /\ e <= loosest.every /\ e <= settings'.every
    <3>1. PICK a \in Int, b \in Int : a = loosest.every /\ b = settings'.every
      BY <1>2
    <3>2. e = Min({a, b})
      BY <2>2, <3>1
    <3> QED BY <1>3, <3>1, <3>2
  <2> QED BY <1>1, <2>1, <2>2, <2>3, <2>4
<1>5. RemindersTyped' /\ LinksAndMails' /\ ReadAsOpen' /\ LoosestYet'
  BY <1>1, <1>2, <1>4 DEF RemindersTyped, LinksAndMails, ReadAsOpen, LoosestYet, NoReminderAfterPayment, Bounds, Item
<1>6. Pace'
  <2> SUFFICES ASSUME NEW b \in Bills \ excused PROVE (OnceInHand(b) /\ MayMail(b) /\ Accounted(b) /\ Paced(b))'
    BY <1>1 DEF Pace
  <2>1. OnceInHand(b) /\ MayMail(b) /\ Accounted(b) /\ Paced(b)
    BY DEF Pace
  <2>2. Reminders(b)' = Reminders(b) /\ Logged(b)' = Logged(b) /\ (\A w : ToMail(w, b)' <=> ToMail(w, b)) /\ (\A w : ToLog(w, b)' <=> ToLog(w, b))
    BY <1>1 DEF Reminders, Logged, ToMail, ToLog, Has
  <2>3. OnceInHand(b)' /\ Accounted(b)'
    BY <1>1, <2>1, <2>2 DEF OnceInHand, Accounted
  <2>4. Cardinality(Reminders(b)) \in Nat /\ \A i \in Reminders(b) : i \in DOMAIN mails
    BY FewOfEach
  <2>5. Paced(b)'
    BY <1>1, <1>2, <1>4, <2>1, <2>2, <2>4, ReminderRows DEF Paced
  <2>6. MayMail(b)'
    BY <1>1, <1>2, <1>4, <2>1, <2>2, <2>4, ReminderRows DEF MayMail
  <2> QED BY <2>3, <2>5, <2>6
<1> QED BY <1>5, <1>6

\* Nothing of a run changes.
LEMMA PaceUnmoved ==
    ASSUME RemindersInv, UNCHANGED <<mails, sentLog, loop, loosest, excused>>
    PROVE  Pace'
<1>1. \A b : /\ Reminders(b)' = Reminders(b) /\ Logged(b)' = Logged(b)
             /\ \A w : (ToMail(w, b)' <=> ToMail(w, b)) /\ (ToLog(w, b)' <=> ToLog(w, b))
  BY DEF Reminders, Logged, ToMail, ToLog, Has
<1> QED BY <1>1 DEF RemindersInv, Pace, OnceInHand, MayMail, Accounted, Paced

LEMMA UsersInv ==
    ASSUME RemindersInv, NextDay \/ \E b \in Bills : Pay(b)
    PROVE  RemindersInv'
<1> USE DEF RemindersInv
<1>1. UNCHANGED <<settings, sentLog, links, mails, loop, loosest, excused>>
  BY DEF NextDay, Pay
<1>2. /\ now' \in 1..LastDate /\ now <= now' /\ now \in Nat /\ now' \in Nat /\ open' \subseteq open /\ paidOn' \in [Bills -> Nat]
      /\ \A b \in open' : paidOn'[b] = paidOn[b]
      /\ \A b \in Bills : paidOn'[b] = paidOn[b] \/ (paidOn[b] = 0 /\ paidOn'[b] >= now)
  <2>1. CASE NextDay
    BY <2>1, ReminderRows, RemindersAssumption DEF NextDay, RemindersTyped
  <2>2. ASSUME NEW b \in Bills, Pay(b)
        PROVE  /\ now' = now /\ open' \subseteq open /\ paidOn' \in [Bills -> Nat]
               /\ \A c \in open' : paidOn'[c] = paidOn[c]
               /\ \A c \in Bills : paidOn'[c] = paidOn[c] \/ (paidOn[c] = 0 /\ paidOn'[c] >= now)
    BY <2>2, ReminderRows DEF Pay, RemindersTyped, ReadAsOpen
  <2> QED BY <2>1, <2>2, ReminderRows DEF RemindersTyped
<1>3. RemindersTyped' /\ LoosestYet'
  BY <1>1, <1>2 DEF RemindersTyped, LoosestYet
<1>4. LinksAndMails'
  <2>1. \A w \in Loops : loop[w].on \in Nat /\ Item(w)' = Item(w)
    BY <1>1, ReminderRows DEF Item
  <2>2. \A i \in DOMAIN mails : mails[i].on <= now' /\ mails[i].read <= now'
    BY <1>2, ReminderRows DEF LinksAndMails
  <2>3. \A w \in Loops : loop[w].on <= now'
    BY <1>2, <2>1 DEF LinksAndMails
  <2> QED BY <1>1, <2>1, <2>2, <2>3 DEF LinksAndMails
<1>5. ReadAsOpen'
  <2>1. \A b \in open' : paidOn'[b] = 0
    BY <1>2 DEF ReadAsOpen
  <2>2. ASSUME NEW w \in Loops, NEW i \in DOMAIN loop[w].items
        PROVE  paidOn'[loop[w].items[i]] = 0 \/ paidOn'[loop[w].items[i]] >= loop[w].on
    <3>1. PICK b \in Bills : b = loop[w].items[i]
      BY ReminderRows
    <3>2. (paidOn[b] = 0 \/ paidOn[b] >= loop[w].on) /\ loop[w].on <= now /\ loop[w].on \in Nat
      BY <3>1, ReminderRows DEF ReadAsOpen, LinksAndMails
    <3>3. paidOn'[b] \in Nat
      BY <1>2
    <3> QED BY <1>2, <3>1, <3>2, <3>3
  <2>3. ASSUME NEW i \in DOMAIN mails
        PROVE  paidOn'[mails[i].bill] = 0 \/ paidOn'[mails[i].bill] >= mails[i].read
    <3>1. PICK b \in Bills : b = mails[i].bill
      BY ReminderRows
    <3>2. (paidOn[b] = 0 \/ paidOn[b] >= mails[i].read) /\ mails[i].read <= now /\ mails[i].read \in Nat
      BY <3>1, ReminderRows DEF ReadAsOpen, NoReminderAfterPayment, LinksAndMails
    <3>3. paidOn'[b] \in Nat
      BY <1>2
    <3> QED BY <1>2, <3>1, <3>2, <3>3
  <2> QED BY <1>1, <2>1, <2>2, <2>3 DEF ReadAsOpen, NoReminderAfterPayment
<1> QED BY <1>1, <1>3, <1>4, <1>5, PaceUnmoved

\* Customers and users of links.
LEMMA LinkUsersInv ==
    ASSUME RemindersInv, NEW i \in DOMAIN links, RevokeShareLink(i) \/ Redeem(i)
    PROVE  RemindersInv'
<1> USE DEF RemindersInv
<1>1. UNCHANGED <<now, settings, open, paidOn, sentLog, mails, loop, loosest, excused>>
  BY DEF RevokeShareLink, Redeem
<1>2. links[i] \in LinkRows /\ links \in Seq(LinkRows) /\ now \in Nat /\ now # 0
      /\ links[i].seen <= links[i].expires /\ (links[i].seen = 0 <=> links[i].views = 0)
  BY ReminderRows DEF RemindersTyped, LinksAndMails
<1>3. PICK x \in LinkRows : /\ links' = [links EXCEPT ![i] = x] /\ x.bill = links[i].bill
                            /\ x.seen <= x.expires /\ (x.seen = 0 <=> x.views = 0)
  <2>1. CASE RevokeShareLink(i)
    <3>1. PICK x : x = [links[i] EXCEPT !.revoked = TRUE]
      OBVIOUS
    <3>2. x \in LinkRows /\ x.bill = links[i].bill /\ x.seen = links[i].seen /\ x.expires = links[i].expires /\ x.views = links[i].views
      BY <1>2, <3>1 DEF LinkRows
    <3> QED BY <1>2, <2>1, <3>1, <3>2 DEF RevokeShareLink
  <2>2. CASE Redeem(i)
    <3>1. PICK x : x = [links[i] EXCEPT !.views = 1, !.seen = now]
      OBVIOUS
    <3>2. x \in LinkRows /\ x.bill = links[i].bill /\ x.seen = now /\ x.expires = links[i].expires /\ x.views = 1
      BY <1>2, <3>1 DEF LinkRows
    <3>3. links' = [links EXCEPT ![i] = x] /\ now <= links[i].expires
      BY <2>2, <3>1 DEF Redeem, Usable
    <3>4. x.seen <= x.expires /\ x.seen # 0 /\ x.views # 0
      BY <1>2, <3>2, <3>3
    <3> QED BY <3>2, <3>3, <3>4
  <2> QED BY <2>1, <2>2
<1>4. links' \in Seq(LinkRows) /\ DOMAIN links' = DOMAIN links /\ \A j \in DOMAIN links : links'[j] = IF j = i THEN x ELSE links[j]
  <2>1. [links EXCEPT ![i] = x] \in [DOMAIN links -> LinkRows]
    BY <1>2, ReminderRows
  <2> QED BY <1>2, <1>3, <2>1, SamePositions
<1>5. RemindersTyped' /\ LoosestYet' /\ ReadAsOpen'
  BY <1>1, <1>4 DEF RemindersTyped, LoosestYet, ReadAsOpen, NoReminderAfterPayment
<1>6. LinksAndMails'
  <2>1. \A j \in DOMAIN links : links'[j].bill = links[j].bill /\ links'[j].seen <= links'[j].expires /\ (links'[j].seen = 0 <=> links'[j].views = 0)
    BY <1>3, <1>4 DEF LinksAndMails
  <2>2. \A w \in Loops : Item(w)' = Item(w)
    BY <1>1 DEF Item
  <2> QED BY <1>1, <1>4, <2>1, <2>2 DEF LinksAndMails
<1> QED BY <1>1, <1>5, <1>6, PaceUnmoved

\* A run goes on.
LoopIs(w, r) == loop' = [loop EXCEPT ![w] = r]

LEMMA OneLoopMoves ==
    ASSUME RemindersInv, NEW w \in Loops, NEW r \in LoopRows, LoopIs(w, r)
    PROVE  loop' \in [Loops -> LoopRows] /\ \A u \in Loops : loop'[u] = IF u = w THEN r ELSE loop[u]
BY DEF RemindersInv, RemindersTyped, LoopIs

LEMMA LoopStepInv ==
    ASSUME RemindersInv, NEW w \in Loops, NEW r \in LoopRows, LoopIs(w, r),
           UNCHANGED <<now, settings, open, paidOn, loosest>>,
           links' \in Seq(LinkRows), \A i \in DOMAIN links : i \in DOMAIN links' /\ links'[i].bill = links[i].bill,
           \A i \in DOMAIN links' : links'[i].seen <= links'[i].expires /\ (links'[i].seen = 0 <=> links'[i].views = 0),
           mails' \in Seq(MailRows), sentLog' \in Seq(LogRows),
           \A i \in DOMAIN mails' : \/ i \in DOMAIN mails /\ mails'[i] = mails[i]
                                    \/ /\ mails'[i].link \in DOMAIN links' /\ links'[mails'[i].link].bill = mails'[i].bill
                                       /\ mails'[i].on <= now /\ mails'[i].read <= now
                                       /\ paidOn[mails'[i].bill] = 0 \/ paidOn[mails'[i].bill] >= mails'[i].read,
           r.at = "rest" <=> r.items = <<>>, r.on <= now,
           r.at = "queue" => r.link \in DOMAIN links' /\ links'[r.link].bill = r.items[1],
           \A i \in DOMAIN r.items : paidOn[r.items[i]] = 0 \/ paidOn[r.items[i]] >= r.on,
           Pace'
    PROVE  RemindersInv'
<1> USE DEF RemindersInv
<1>1. loop' \in [Loops -> LoopRows] /\ \A u \in Loops : loop'[u] = IF u = w THEN r ELSE loop[u]
  BY OneLoopMoves
<1>2. RemindersTyped' /\ LoosestYet'
  BY <1>1 DEF RemindersTyped, LoosestYet
<1>3. LinksAndMails'
  <2>1. ASSUME NEW i \in DOMAIN mails'
        PROVE  /\ mails'[i].link \in DOMAIN links' /\ links'[mails'[i].link].bill = mails'[i].bill
               /\ mails'[i].on <= now /\ mails'[i].read <= now
    BY DEF LinksAndMails
  <2>2. ASSUME NEW u \in Loops
        PROVE  /\ loop'[u].at = "rest" <=> loop'[u].items = <<>>
               /\ loop'[u].on <= now
               /\ loop'[u].at = "queue" => loop'[u].link \in DOMAIN links' /\ links'[loop'[u].link].bill = loop'[u].items[1]
    <3>1. CASE u = w
      BY <1>1, <3>1
    <3>2. CASE u # w
      BY <1>1, <3>2 DEF LinksAndMails, Item
    <3> QED BY <3>1, <3>2
  <2> QED BY <2>1, <2>2 DEF LinksAndMails, Item
<1>4. ReadAsOpen'
  <2>1. ASSUME NEW i \in DOMAIN mails' PROVE paidOn[mails'[i].bill] = 0 \/ paidOn[mails'[i].bill] >= mails'[i].read
    BY DEF ReadAsOpen, NoReminderAfterPayment
  <2>2. ASSUME NEW u \in Loops, NEW i \in DOMAIN loop'[u].items
        PROVE  paidOn[loop'[u].items[i]] = 0 \/ paidOn[loop'[u].items[i]] >= loop'[u].on
    <3>1. CASE u = w
      BY <1>1, <2>2, <3>1
    <3>2. CASE u # w
      BY <1>1, <2>2, <3>2 DEF ReadAsOpen
    <3> QED BY <3>1, <3>2
  <2> QED BY <2>1, <2>2 DEF ReadAsOpen, NoReminderAfterPayment
<1> QED BY <1>2, <1>3, <1>4

\* The invoices a run still has, counted from its next one or from the one after it.
Onwards(w, r, s) ==
    \A i \in DOMAIN r.items : i + s \in DOMAIN loop[w].items /\ r.items[i] = loop[w].items[i + s]

LEMMA PaceMoves ==
    ASSUME RemindersInv, NEW w \in Loops, NEW r \in LoopRows, LoopIs(w, r), NEW s \in {0, 1}, Onwards(w, r, s),
           UNCHANGED <<mails, sentLog, loosest>>, excused \subseteq excused', r.at # "log",
           loop[w].at = "log" => Item(w) \in excused',
           r.items # <<>> => r.on = loop[w].on
    PROVE  Pace'
<1>1. \A u \in Loops : loop'[u] = IF u = w THEN r ELSE loop[u]
  BY OneLoopMoves
<1>2. DOMAIN r.items = 1..Len(r.items) /\ Len(r.items) \in Nat /\ (r.items = <<>> => DOMAIN r.items = {})
  <2>1. r.items \in Seq(Bills)
    BY DEF LoopRows
  <2> QED BY <2>1, LenProperties
<1> SUFFICES ASSUME NEW b \in Bills \ excused'
             PROVE  (OnceInHand(b) /\ MayMail(b) /\ Accounted(b) /\ Paced(b))'
  BY DEF Pace
<1>3. OnceInHand(b) /\ MayMail(b) /\ Accounted(b) /\ Paced(b)
  BY DEF RemindersInv, Pace
<1>4. Reminders(b)' = Reminders(b) /\ Logged(b)' = Logged(b)
  BY DEF Reminders, Logged
<1>5. \A u \in Loops : ToMail(u, b)' => ToMail(u, b) /\ loop'[u].on = loop[u].on
  <2> SUFFICES ASSUME NEW u \in Loops, ToMail(u, b)' PROVE ToMail(u, b) /\ loop'[u].on = loop[u].on
    OBVIOUS
  <2>1. CASE u # w
    BY <1>1, <2>1 DEF ToMail
  <2>2. CASE u = w
    <3>1. PICK i \in DOMAIN r.items : r.items[i] = b
      BY <1>1, <2>2 DEF ToMail
    <3>2. i + s \in DOMAIN loop[w].items /\ loop[w].items[i + s] = b
      BY <3>1 DEF Onwards
    <3>3. i + s = 1 => loop[w].at # "log"
      BY <3>2 DEF Item
    <3> QED BY <1>1, <1>2, <2>2, <3>1, <3>2, <3>3 DEF ToMail
  <2> QED BY <2>1, <2>2
<1>6. \A u \in Loops : ToLog(u, b)' <=> ToLog(u, b)
  BY <1>1 DEF ToLog, Has, Item
<1>7. OnceInHand(b)'
  <2> SUFFICES ASSUME NEW u \in Loops, NEW v \in Loops, NEW i \in DOMAIN loop'[u].items, NEW j \in DOMAIN loop'[v].items,
                      loop'[u].items[i] = b, loop'[v].items[j] = b
               PROVE  u = v /\ i = j
    BY DEF OnceInHand
  <2>1. PICK k \in DOMAIN loop[u].items : loop[u].items[k] = b /\ k = IF u = w THEN i + s ELSE i
    BY <1>1 DEF Onwards
  <2>2. PICK l \in DOMAIN loop[v].items : loop[v].items[l] = b /\ l = IF v = w THEN j + s ELSE j
    BY <1>1 DEF Onwards
  <2>3. u = v /\ k = l
    BY <1>3, <2>1, <2>2 DEF OnceInHand
  <2>4. CASE u # w
    BY <2>1, <2>2, <2>3, <2>4
  <2>5. CASE u = w
    BY <1>1, <1>2, <2>1, <2>2, <2>3, <2>5
  <2> QED BY <2>4, <2>5
<1>8. MayMail(b)' /\ Accounted(b)' /\ Paced(b)'
  BY <1>3, <1>4, <1>5, <1>6 DEF MayMail, Accounted, Paced
<1> QED BY <1>7, <1>8

\* The run goes on to its next invoice, or rests.
LEMMA GoesOn ==
    ASSUME RemindersInv, NEW w \in Loops, loop[w].at # "rest", GoOn(w)
    PROVE  \E r \in LoopRows : /\ LoopIs(w, r) /\ r.at \in {"rest", "link"} /\ (r.at = "rest" <=> r.items = <<>>)
                               /\ r.on <= now /\ (r.items # <<>> => r.on = loop[w].on) /\ Onwards(w, r, 1)
<1>1. /\ loop[w] \in LoopRows /\ loop[w].items \in Seq(Bills) /\ Len(loop[w].items) \in Nat /\ Len(loop[w].items) >= 1
      /\ DOMAIN loop[w].items = 1..Len(loop[w].items) /\ loop[w].items # <<>> /\ loop[w].on <= now /\ now \in Nat
  BY ReminderRows, EmptySeq DEF RemindersInv, LinksAndMails
<1>2. PICK r : r = NextItem(loop[w])
  OBVIOUS
<1>3. LoopIs(w, r)
  BY <1>2 DEF GoOn, LoopIs
<1>4. CASE Len(loop[w].items) = 1
  <2>1. r = Resting
    BY <1>2, <1>4 DEF NextItem
  <2>2. r \in LoopRows /\ r.at = "rest" /\ r.items = <<>> /\ r.on = 0 /\ DOMAIN r.items = {}
    BY <2>1 DEF Resting, LoopRows
  <2> QED BY <1>1, <1>3, <2>2 DEF Onwards
<1>5. CASE Len(loop[w].items) # 1
  <2>1. PICK t : t = Tail(loop[w].items)
    OBVIOUS
  <2>2. /\ t \in Seq(Bills) /\ Len(t) = Len(loop[w].items) - 1
        /\ \A i \in 1..Len(t) : t[i] = loop[w].items[i + 1]
    BY <1>1, <2>1, HeadTailProperties
  <2>3. DOMAIN t = 1..Len(t) /\ Len(t) \in Nat /\ Len(t) >= 1 /\ t # <<>>
    <3>1. DOMAIN t = 1..Len(t) /\ Len(t) \in Nat
      BY <2>2, LenProperties
    <3>2. Len(t) >= 1
      <4>1. PICK n \in Nat : n = Len(loop[w].items) /\ n >= 1 /\ n # 1
        BY <1>1, <1>5
      <4>2. Len(t) = n - 1
        BY <2>2, <4>1
      <4>3. \A m \in Nat : m >= 1 /\ m # 1 => m - 1 >= 1
        OBVIOUS
      <4>4. n - 1 >= 1
        BY <4>1, <4>3, Zenon
      <4> QED BY <4>2, <4>4
    <3>3. t # <<>>
      BY <3>2, EmptySeq
    <3> QED BY <3>1, <3>2, <3>3
  <2>4. r = [loop[w] EXCEPT !.at = "link", !.items = t]
    BY <1>2, <1>5, <2>1 DEF NextItem
  <2>5. r \in LoopRows /\ r.at = "link" /\ r.items = t /\ r.on = loop[w].on
    BY <1>1, <2>2, <2>4 DEF LoopRows
  <2>6. Onwards(w, r, 1)
    BY <1>1, <2>2, <2>3, <2>5 DEF Onwards
  <2> QED BY <1>1, <1>3, <2>3, <2>5, <2>6
<1> QED BY <1>4, <1>5

\* A run ends, or goes on, without a mail and without a log.
LEMMA DropsInv ==
    ASSUME RemindersInv, NEW w \in Loops, NEW r \in LoopRows, LoopIs(w, r), r.at \in {"rest", "link"},
           r.at = "rest" <=> r.items = <<>>, r.on <= now, r.items # <<>> => r.on = loop[w].on, Onwards(w, r, 1),
           UNCHANGED <<now, settings, open, paidOn, loosest, links, mails, sentLog>>, excused \subseteq excused',
           loop[w].at = "log" => Item(w) \in excused'
    PROVE  RemindersInv'
<1>1. Pace'
  BY PaceMoves
<1>2. ASSUME NEW i \in DOMAIN r.items PROVE paidOn[r.items[i]] = 0 \/ paidOn[r.items[i]] >= r.on
  <2>1. r.items # <<>>
    BY <1>2
  <2> QED BY <1>2, <2>1 DEF Onwards, RemindersInv, ReadAsOpen
<1>3. /\ links \in Seq(LinkRows) /\ mails \in Seq(MailRows) /\ sentLog \in Seq(LogRows)
      /\ \A i \in DOMAIN links : links[i].seen <= links[i].expires /\ (links[i].seen = 0 <=> links[i].views = 0)
  BY DEF RemindersInv, RemindersTyped, LinksAndMails
<1> QED BY <1>1, <1>2, <1>3, LoopStepInv

LEMMA LoopDiesInv ==
    ASSUME RemindersInv, NEW w \in Loops, LoopDies(w)
    PROVE  RemindersInv'
<1>1. PICK r : r = Resting
  OBVIOUS
<1>2. r \in LoopRows /\ r.at = "rest" /\ r.items = <<>> /\ r.on = 0 /\ DOMAIN r.items = {}
  BY <1>1 DEF Resting, LoopRows
<1>3. /\ LoopIs(w, r) /\ UNCHANGED <<now, settings, open, paidOn, loosest, links, mails, sentLog>>
      /\ excused' = IF loop[w].at = "log" THEN excused \cup {Item(w)} ELSE excused
  BY <1>1 DEF LoopDies, LoopIs
<1>4. r.on <= now /\ Onwards(w, r, 1)
  BY <1>2, ReminderRows DEF Onwards
<1> QED BY <1>2, <1>3, <1>4, DropsInv

LEMMA CreateShareLinkInv ==
    ASSUME RemindersInv, NEW w \in Loops, CreateShareLink(w)
    PROVE  RemindersInv'
<1>1. loop[w].at = "link" /\ UNCHANGED <<now, settings, open, paidOn, sentLog, mails, loosest, excused>>
  BY DEF CreateShareLink
<1>2. CASE GoOn(w) /\ UNCHANGED links
  <2>1. PICK r \in LoopRows : /\ LoopIs(w, r) /\ r.at \in {"rest", "link"} /\ (r.at = "rest" <=> r.items = <<>>)
                              /\ r.on <= now /\ (r.items # <<>> => r.on = loop[w].on) /\ Onwards(w, r, 1)
    BY <1>1, <1>2, GoesOn
  <2> QED BY <1>1, <1>2, <2>1, DropsInv
<1>3. CASE /\ links' = Append(links, NewLink(Item(w)))
           /\ loop' = [loop EXCEPT ![w] = [@ EXCEPT !.at = "queue", !.link = Len(links) + 1]]
  <2>1. /\ loop[w] \in LoopRows /\ Item(w) \in Bills /\ now \in Nat /\ now + LinkDays \in Nat
        /\ links \in Seq(LinkRows) /\ Len(links) \in Nat /\ loop[w].items # <<>> /\ loop[w].on <= now
    <3>1. loop[w] \in LoopRows /\ Item(w) \in Bills /\ now \in Nat /\ loop[w].items # <<>> /\ loop[w].on <= now
      BY <1>1, ReminderRows, RemindersAssumption DEF RemindersInv, RemindersTyped, LinksAndMails
    <3>2. links \in Seq(LinkRows)
      BY DEF RemindersInv, RemindersTyped
    <3>3. Len(links) \in Nat
      BY <3>2, LenProperties
    <3>4. now + LinkDays \in Nat
      BY <3>1, RemindersAssumption
    <3> QED BY <3>1, <3>2, <3>3, <3>4
  <2>2. PICK x : x = NewLink(Item(w))
    OBVIOUS
  <2>3. x \in LinkRows /\ x.bill = Item(w) /\ x.seen = 0 /\ x.views = 0 /\ x.seen <= x.expires
    BY <2>1, <2>2 DEF NewLink, LinkRows
  <2>4. /\ links' \in Seq(LinkRows) /\ Len(links) + 1 \in DOMAIN links'
        /\ DOMAIN links' = DOMAIN links \cup {Len(links) + 1}
        /\ \A i \in DOMAIN links : links'[i] = links[i]
        /\ links'[Len(links) + 1] = x
    BY <1>3, <2>1, <2>2, <2>3, AddAtEnd
  <2>14. PICK n \in Nat : n = Len(links) + 1
    BY <2>1
  <2>5. PICK r : r = [loop[w] EXCEPT !.at = "queue", !.link = n]
    OBVIOUS
  <2>6. /\ r \in LoopRows /\ r.at = "queue" /\ r.link = Len(links) + 1 /\ r.items = loop[w].items /\ r.on = loop[w].on
    BY <2>1, <2>5, <2>14 DEF LoopRows
  <2>7. LoopIs(w, r)
    BY <1>3, <2>5, <2>14 DEF LoopIs
  <2>8. Onwards(w, r, 0)
    BY <2>6, ReminderRows DEF Onwards
  <2>9. Pace'
    BY <1>1, <2>6, <2>7, <2>8, PaceMoves
  <2>10. \A i \in DOMAIN r.items : paidOn[r.items[i]] = 0 \/ paidOn[r.items[i]] >= r.on
    BY <2>6 DEF RemindersInv, ReadAsOpen
  <2>11. r.at = "queue" => r.link \in DOMAIN links' /\ links'[r.link].bill = r.items[1]
    BY <2>3, <2>4, <2>6 DEF Item
  <2>12. /\ \A i \in DOMAIN links : i \in DOMAIN links' /\ links'[i].bill = links[i].bill
         /\ \A i \in DOMAIN links' : links'[i].seen <= links'[i].expires /\ (links'[i].seen = 0 <=> links'[i].views = 0)
    BY <2>3, <2>4 DEF RemindersInv, LinksAndMails
  <2>13. mails \in Seq(MailRows) /\ sentLog \in Seq(LogRows)
    BY DEF RemindersInv, RemindersTyped
  <2> QED BY <1>1, <2>1, <2>4, <2>6, <2>7, <2>9, <2>10, <2>11, <2>12, <2>13, LoopStepInv
<1> QED BY <1>2, <1>3 DEF CreateShareLink

QueuedMail(w) == mails' = Append(mails, Mail(w, loop[w].link)) /\ loop' = [loop EXCEPT ![w].at = "log"]

\* A mail is queued: its invoice waits for its log.
LEMMA QueuedInv ==
    ASSUME RemindersInv, NEW w \in Loops, loop[w].at = "queue", QueuedMail(w),
           UNCHANGED <<now, settings, open, paidOn, sentLog, links, loosest, excused>>
    PROVE  RemindersInv'
<1>1. /\ loop[w] \in LoopRows /\ loop[w].items \in Seq(Bills) /\ Item(w) \in Bills /\ now \in Nat /\ loop[w].on \in Nat /\ loop[w].on <= now
      /\ 1 \in DOMAIN loop[w].items /\ loop[w].items # <<>> /\ loop[w].link \in Nat
      /\ loop[w].link \in DOMAIN links /\ links[loop[w].link].bill = Item(w)
  <2>1. /\ loop[w] \in LoopRows /\ loop[w].items \in Seq(Bills) /\ Item(w) \in Bills /\ now \in Nat /\ loop[w].on \in Nat
        /\ 1 \in DOMAIN loop[w].items
    BY ReminderRows
  <2>2. loop[w].on <= now /\ loop[w].items # <<>> /\ loop[w].link \in DOMAIN links /\ links[loop[w].link].bill = Item(w)
    BY DEF RemindersInv, LinksAndMails
  <2> QED BY <2>1, <2>2 DEF LoopRows
<1>2. PICK b \in Bills : b = Item(w)
  BY <1>1
<1>3. PICK x : x = Mail(w, loop[w].link)
  OBVIOUS
<1>4. x \in MailRows /\ x.bill = b /\ x.on = now /\ x.read = loop[w].on /\ x.link = loop[w].link
  BY <1>1, <1>2, <1>3 DEF Mail, MailRows
<1>5. PICK n \in Nat : n = Len(mails) + 1 /\ \A i \in DOMAIN mails : i < n
  BY LenProperties DEF RemindersInv, RemindersTyped
<1>6. /\ mails' \in Seq(MailRows) /\ DOMAIN mails' = DOMAIN mails \cup {n} /\ n \notin DOMAIN mails
      /\ \A i \in DOMAIN mails : mails'[i] = mails[i]
      /\ mails'[n] = x
  BY <1>3, <1>4, <1>5, AddAtEnd DEF RemindersInv, RemindersTyped, QueuedMail
<1>7. PICK r : r = [loop[w] EXCEPT !.at = "log"]
  OBVIOUS
<1>8. r \in LoopRows /\ r.at = "log" /\ r.items = loop[w].items /\ r.on = loop[w].on
  BY <1>1, <1>7 DEF LoopRows
<1>9. LoopIs(w, r)
  BY <1>7 DEF LoopIs, QueuedMail
<1>10. \A u \in Loops : loop'[u] = IF u = w THEN r ELSE loop[u]
  BY <1>8, <1>9, OneLoopMoves
<1>11. Pace'
  <2> SUFFICES ASSUME NEW c \in Bills \ excused PROVE (OnceInHand(c) /\ MayMail(c) /\ Accounted(c) /\ Paced(c))'
    BY DEF Pace
  <2>1. OnceInHand(c) /\ MayMail(c) /\ Accounted(c) /\ Paced(c)
    BY DEF RemindersInv, Pace
  <2>2. Logged(c)' = Logged(c)
    BY DEF Logged
  <2>3. OnceInHand(c)'
    <3>1. \A u \in Loops : loop'[u].items = loop[u].items
      BY <1>8, <1>10
    <3> QED BY <2>1, <3>1 DEF OnceInHand
  <2>4. \A u \in Loops : /\ ToMail(u, c)' => ToMail(u, c) /\ ~(u = w /\ c = b /\ ToMail(w, b)')
                         /\ loop'[u].on = loop[u].on
    <3>1. \A u \in Loops : (ToMail(u, c)' => ToMail(u, c)) /\ loop'[u].on = loop[u].on
      BY <1>8, <1>10 DEF ToMail
    <3>2. ASSUME c = b, ToMail(w, b)' PROVE FALSE
      <4>1. PICK i \in DOMAIN loop[w].items : loop[w].items[i] = b /\ i # 1
        BY <1>8, <1>10, <3>2 DEF ToMail
      <4>2. loop[w].items[1] = b
        BY <1>2 DEF Item
      <4> QED BY <1>1, <2>1, <3>2, <4>1, <4>2 DEF OnceInHand
    <3> QED BY <3>1, <3>2
  <2>5. CASE c # b
    <3>1. Reminders(c)' = Reminders(c) /\ \A i \in Reminders(c) : mails'[i] = mails[i]
      BY <1>4, <1>6, <2>5 DEF Reminders
    <3>2. \A u \in Loops : ToLog(u, c)' <=> ToLog(u, c)
      BY <1>2, <1>8, <1>10, <2>5 DEF ToLog, Has, Item
    <3>3. MayMail(c)' /\ Accounted(c)' /\ Paced(c)'
      BY <2>1, <2>2, <2>4, <3>1, <3>2 DEF MayMail, Accounted, Paced
    <3> QED BY <2>3, <3>3
  <2>6. CASE c = b
    <3>1. /\ Reminders(b)' = Reminders(b) \cup {n} /\ n \notin Reminders(b)
          /\ \A i \in Reminders(b) : mails'[i] = mails[i] /\ i < n /\ i \in DOMAIN mails
      BY <1>4, <1>5, <1>6 DEF Reminders
    <3>2. PICK k \in Nat : k = Cardinality(Reminders(b)) /\ Cardinality(Reminders(b)') = k + 1
      <4>1. IsFiniteSet(Reminders(b)) /\ Cardinality(Reminders(b)) \in Nat
        BY FewOfEach
      <4>2. Cardinality(Reminders(b) \cup {n}) = Cardinality(Reminders(b)) + 1
        BY <3>1, <4>1, FS_AddElement
      <4> QED BY <3>1, <4>1, <4>2
    <3>3. ToMail(w, b) /\ ToLog(w, b)'
      <4>1. loop[w].items[1] = b
        BY <1>2 DEF Item
      <4> QED BY <1>1, <1>8, <1>10, <4>1 DEF ToMail, ToLog, Has
    <3>4. k < loosest.max /\ \A i \in Reminders(b) : loop[w].on - mails[i].on >= loosest.every
      BY <2>1, <2>6, <3>2, <3>3 DEF MayMail
    <3>5. \A u \in Loops : ~ToMail(u, b)'
      <4>1. \A u \in Loops : ToMail(u, b) => u = w
        <5>1. loop[w].items[1] = b
          BY <1>2 DEF Item
        <5> QED BY <1>1, <2>1, <2>6, <5>1 DEF ToMail, OnceInHand
      <4> QED BY <2>4, <2>6, <4>1
    <3>6. \A u \in Loops : ~ToLog(u, b)
      <4>1. loop[w].items[1] = b
        BY <1>2 DEF Item
      <4> QED BY <1>1, <2>1, <2>6, <4>1 DEF ToLog, Has, OnceInHand
    <3>7. k <= Cardinality(Logged(b))
      BY <2>1, <2>6, <3>2, <3>6 DEF Accounted
    <3>8. MayMail(b)'
      BY <3>5 DEF MayMail
    <3>9. Accounted(b)'
      <4>1. Cardinality(Logged(b)) \in Nat
        BY FewOfEach
      <4> QED BY <2>2, <2>6, <3>2, <3>3, <3>7, <4>1 DEF Accounted
    <3>10. Paced(b)'
      <4>1. Cardinality(Reminders(b)') <= loosest.max
        BY <3>2, <3>4, ReminderRows
      <4>2. ASSUME NEW i \in Reminders(b)', NEW j \in Reminders(b)', i < j
            PROVE  mails'[j].read - mails'[i].on >= loosest.every
        <5>1. i # n
          BY <1>5, <3>1, <4>2
        <5>2. CASE j = n
          BY <1>4, <1>6, <3>1, <3>4, <5>1, <5>2
        <5>3. CASE j # n
          BY <2>1, <2>6, <3>1, <4>2, <5>1, <5>3 DEF Paced
        <5> QED BY <5>2, <5>3
      <4> QED BY <4>1, <4>2 DEF Paced
    <3> QED BY <2>3, <2>6, <3>8, <3>9, <3>10
  <2> QED BY <2>5, <2>6
<1>12. \A i \in DOMAIN mails' : \/ i \in DOMAIN mails /\ mails'[i] = mails[i]
                                \/ /\ mails'[i].link \in DOMAIN links /\ links[mails'[i].link].bill = mails'[i].bill
                                   /\ mails'[i].on <= now /\ mails'[i].read <= now
                                   /\ paidOn[mails'[i].bill] = 0 \/ paidOn[mails'[i].bill] >= mails'[i].read
  <2>1. paidOn[b] = 0 \/ paidOn[b] >= loop[w].on
    BY <1>1, <1>2 DEF RemindersInv, ReadAsOpen, Item
  <2> QED BY <1>1, <1>2, <1>4, <1>6, <2>1
<1>13. /\ links \in Seq(LinkRows) /\ sentLog \in Seq(LogRows)
       /\ \A i \in DOMAIN links : links[i].seen <= links[i].expires /\ (links[i].seen = 0 <=> links[i].views = 0)
       /\ \A i \in DOMAIN r.items : paidOn[r.items[i]] = 0 \/ paidOn[r.items[i]] >= r.on
  BY <1>8 DEF RemindersInv, RemindersTyped, LinksAndMails, ReadAsOpen
<1> QED BY <1>1, <1>6, <1>8, <1>9, <1>11, <1>12, <1>13, LoopStepInv

LEMMA QueueSendInv ==
    ASSUME RemindersInv, NEW w \in Loops, QueueSend(w)
    PROVE  RemindersInv'
<1>1. loop[w].at = "queue" /\ UNCHANGED <<now, settings, open, paidOn, sentLog, links, loosest, excused>>
  BY DEF QueueSend
<1>2. CASE GoOn(w) /\ UNCHANGED mails
  <2>1. PICK r \in LoopRows : /\ LoopIs(w, r) /\ r.at \in {"rest", "link"} /\ (r.at = "rest" <=> r.items = <<>>)
                              /\ r.on <= now /\ (r.items # <<>> => r.on = loop[w].on) /\ Onwards(w, r, 1)
    BY <1>1, <1>2, GoesOn
  <2> QED BY <1>1, <1>2, <2>1, DropsInv
<1>3. CASE QueuedMail(w)
  BY <1>1, <1>3, QueuedInv
<1> QED BY <1>2, <1>3 DEF QueueSend, QueuedMail

LoggedMail(w) == sentLog' = Append(sentLog, [bill |-> Item(w), on |-> now]) /\ GoOn(w)

\* A mail is logged: its invoice is out of the run's hands.
LEMMA LoggedInv ==
    ASSUME RemindersInv, NEW w \in Loops, loop[w].at = "log", LoggedMail(w),
           UNCHANGED <<now, settings, open, paidOn, links, mails, loosest, excused>>
    PROVE  RemindersInv'
<1>1. PICK r \in LoopRows : /\ LoopIs(w, r) /\ r.at \in {"rest", "link"} /\ (r.at = "rest" <=> r.items = <<>>)
                            /\ r.on <= now /\ (r.items # <<>> => r.on = loop[w].on) /\ Onwards(w, r, 1)
  BY GoesOn DEF LoggedMail
<1>2. PICK b \in Bills : b = Item(w) /\ b = loop[w].items[1] /\ 1 \in DOMAIN loop[w].items
  BY ReminderRows DEF Item
<1>3. PICK x : x = [bill |-> b, on |-> now]
  OBVIOUS
<1>4. x \in LogRows /\ x.bill = b /\ x.on = now
  BY <1>3, ReminderRows DEF LogRows
<1>5. PICK n \in Nat : n = Len(sentLog) + 1
  BY LenProperties DEF RemindersInv, RemindersTyped
<1>6. /\ sentLog' \in Seq(LogRows) /\ DOMAIN sentLog' = DOMAIN sentLog \cup {n} /\ n \notin DOMAIN sentLog
      /\ \A i \in DOMAIN sentLog : sentLog'[i] = sentLog[i]
      /\ sentLog'[n] = x
  BY <1>2, <1>3, <1>4, <1>5, AddAtEnd DEF RemindersInv, RemindersTyped, LoggedMail
<1>7. \A u \in Loops : loop'[u] = IF u = w THEN r ELSE loop[u]
  BY <1>1, OneLoopMoves
<1>8. DOMAIN r.items = 1..Len(r.items) /\ Len(r.items) \in Nat /\ (r.items = <<>> => DOMAIN r.items = {})
  <2>1. r.items \in Seq(Bills)
    BY DEF LoopRows
  <2> QED BY <2>1, LenProperties
<1>9. Pace'
  <2> SUFFICES ASSUME NEW c \in Bills \ excused PROVE (OnceInHand(c) /\ MayMail(c) /\ Accounted(c) /\ Paced(c))'
    BY DEF Pace
  <2>1. OnceInHand(c) /\ MayMail(c) /\ Accounted(c) /\ Paced(c)
    BY DEF RemindersInv, Pace
  <2>2. Reminders(c)' = Reminders(c)
    BY DEF Reminders
  <2>3. OnceInHand(c)'
    <3> SUFFICES ASSUME NEW u \in Loops, NEW v \in Loops, NEW i \in DOMAIN loop'[u].items, NEW j \in DOMAIN loop'[v].items,
                        loop'[u].items[i] = c, loop'[v].items[j] = c
                 PROVE  u = v /\ i = j
      BY DEF OnceInHand
    <3>1. PICK k \in DOMAIN loop[u].items : loop[u].items[k] = c /\ k = IF u = w THEN i + 1 ELSE i
      BY <1>1, <1>7 DEF Onwards
    <3>2. PICK l \in DOMAIN loop[v].items : loop[v].items[l] = c /\ l = IF v = w THEN j + 1 ELSE j
      BY <1>1, <1>7 DEF Onwards
    <3>3. u = v /\ k = l
      BY <2>1, <3>1, <3>2 DEF OnceInHand
    <3>4. CASE u # w
      BY <3>1, <3>2, <3>3, <3>4
    <3>5. CASE u = w
      BY <1>7, <1>8, <3>1, <3>2, <3>3, <3>5
    <3> QED BY <3>4, <3>5
  <2>4. \A u \in Loops : ToMail(u, c)' => ToMail(u, c) /\ loop'[u].on = loop[u].on
    <3> SUFFICES ASSUME NEW u \in Loops, ToMail(u, c)' PROVE ToMail(u, c) /\ loop'[u].on = loop[u].on
      OBVIOUS
    <3>1. CASE u # w
      BY <1>7, <3>1 DEF ToMail
    <3>2. CASE u = w
      <4>1. PICK i \in DOMAIN r.items : r.items[i] = c
        BY <1>7, <3>2 DEF ToMail
      <4>2. i + 1 \in DOMAIN loop[w].items /\ loop[w].items[i + 1] = c /\ i + 1 # 1
        BY <1>1, <1>8, <4>1 DEF Onwards
      <4> QED BY <1>1, <1>7, <1>8, <3>2, <4>1, <4>2 DEF ToMail
    <3> QED BY <3>1, <3>2
  <2>5. MayMail(c)' /\ Paced(c)'
    BY <2>1, <2>2, <2>4 DEF MayMail, Paced
  <2>6. CASE c # b
    <3>1. Logged(c)' = Logged(c) /\ \A i \in Logged(c) : sentLog'[i] = sentLog[i]
      BY <1>4, <1>6, <2>6 DEF Logged
    <3>2. \A u \in Loops : ToLog(u, c)' <=> ToLog(u, c)
      BY <1>1, <1>2, <1>7, <2>6 DEF ToLog, Has
    <3> QED BY <2>1, <2>2, <2>3, <2>5, <3>1, <3>2 DEF Accounted
  <2>7. CASE c = b
    <3>1. Logged(b)' = Logged(b) \cup {n} /\ n \notin Logged(b)
      BY <1>4, <1>6 DEF Logged
    <3>2. Cardinality(Logged(b)') = Cardinality(Logged(b)) + 1 /\ Cardinality(Logged(b)) \in Nat /\ Cardinality(Reminders(b)) \in Nat
      <4>1. IsFiniteSet(Logged(b)) /\ Cardinality(Logged(b)) \in Nat /\ Cardinality(Reminders(b)) \in Nat
        BY FewOfEach
      <4> QED BY <3>1, <4>1, FS_AddElement
    <3>3. Cardinality(Reminders(b)) <= Cardinality(Logged(b)) + 1
      BY <2>1, <2>7 DEF Accounted
    <3>4. \A i \in Reminders(b) : n \in Logged(b)' /\ mails[i].on <= sentLog'[n].on
      BY <1>4, <1>6, <3>1 DEF RemindersInv, LinksAndMails, Reminders
    <3>5. Cardinality(Reminders(b)) <= Cardinality(Logged(b)') /\ Cardinality(Reminders(b)) <= Cardinality(Logged(b)') + 1
      BY <3>2, <3>3
    <3> QED BY <2>2, <2>3, <2>5, <2>7, <3>4, <3>5 DEF Accounted
  <2> QED BY <2>6, <2>7
<1>10. ASSUME NEW i \in DOMAIN r.items PROVE paidOn[r.items[i]] = 0 \/ paidOn[r.items[i]] >= r.on
  <2>1. r.items # <<>>
    BY <1>10
  <2> QED BY <1>1, <1>10, <2>1 DEF Onwards, RemindersInv, ReadAsOpen
<1>11. /\ links \in Seq(LinkRows) /\ mails \in Seq(MailRows)
       /\ \A i \in DOMAIN links : links[i].seen <= links[i].expires /\ (links[i].seen = 0 <=> links[i].views = 0)
  BY DEF RemindersInv, RemindersTyped, LinksAndMails
<1> QED BY <1>1, <1>6, <1>9, <1>10, <1>11, LoopStepInv

LEMMA LogReminderInv ==
    ASSUME RemindersInv, NEW w \in Loops, LogReminder(w)
    PROVE  RemindersInv'
<1>1. loop[w].at = "log" /\ UNCHANGED <<now, settings, open, paidOn, links, mails, loosest>>
  BY DEF LogReminder
<1>2. CASE excused' = excused \cup {Item(w)} /\ loop' = [loop EXCEPT ![w] = Resting] /\ UNCHANGED sentLog
  <2>1. PICK r : r = Resting
    OBVIOUS
  <2>2. r \in LoopRows /\ r.at = "rest" /\ r.items = <<>> /\ r.on = 0 /\ DOMAIN r.items = {}
    BY <2>1 DEF Resting, LoopRows
  <2>3. LoopIs(w, r)
    BY <1>2, <2>1 DEF LoopIs
  <2>4. r.on <= now /\ Onwards(w, r, 1)
    BY <2>2, ReminderRows DEF Onwards
  <2> QED BY <1>1, <1>2, <2>2, <2>3, <2>4, DropsInv
<1>3. CASE LoggedMail(w) /\ UNCHANGED excused
  BY <1>1, <1>3, LoggedInv
<1> QED BY <1>2, <1>3 DEF LogReminder, LoggedMail

LEMMA ReadOverdueInv ==
    ASSUME RemindersInv, NEW w \in Loops, ReadOverdue(w)
    PROVE  RemindersInv'
<1>1. PICK items \in SetToSeqs(Overdue) :
         loop' = [loop EXCEPT ![w] = [at |-> "link", on |-> now, link |-> 0, items |-> items]]
  BY DEF ReadOverdue
<1>2. /\ loop[w] = Resting /\ Overdue # {} /\ Overdue \subseteq open /\ Overdue \subseteq Bills
      /\ excused' = excused \cup {b \in Overdue : \E o \in Loops : \E i \in DOMAIN loop[o].items : loop[o].items[i] = b}
      /\ UNCHANGED <<now, settings, open, paidOn, sentLog, links, mails, loosest>>
  BY DEF ReadOverdue, Overdue, RemindersInv, RemindersTyped
<1>3. PICK n \in Nat : n = Cardinality(Overdue) /\ n # 0
  <2>1. IsFiniteSet(Overdue)
    BY <1>2, RemindersAssumption, FS_Subset
  <2> QED BY <1>2, <2>1, FS_CardinalityType, FS_EmptySet
<1>4. /\ items \in [1..n -> Overdue] /\ DOMAIN items = 1..n
      /\ \A i, j \in 1..n : i # j => items[i] # items[j]
  BY <1>3 DEF SetToSeqs
<1>5. items \in Seq(Bills) /\ items # <<>>
  <2>1. items \in [1..n -> Bills]
    BY <1>2, <1>4
  <2>2. items \in Seq(Bills)
    BY <2>1
  <2>3. 1 \in DOMAIN items
    BY <1>3, <1>4
  <2> QED BY <2>2, <2>3
<1>6. PICK r : r = [at |-> "link", on |-> now, link |-> 0, items |-> items]
  OBVIOUS
<1>7. r \in LoopRows /\ r.at = "link" /\ r.on = now /\ r.items = items /\ LoopIs(w, r)
  BY <1>1, <1>5, <1>6, ReminderRows DEF LoopRows, LoopIs
<1>8. \A u \in Loops : loop'[u] = IF u = w THEN r ELSE loop[u]
  BY <1>7, OneLoopMoves
<1>9. loop[w].items = <<>> /\ DOMAIN loop[w].items = {} /\ loop[w].at = "rest"
  BY <1>2 DEF Resting
<1>10. Pace'
  <2> SUFFICES ASSUME NEW b \in Bills \ excused' PROVE (OnceInHand(b) /\ MayMail(b) /\ Accounted(b) /\ Paced(b))'
    BY DEF Pace
  <2>1. b \in Bills \ excused /\ OnceInHand(b) /\ MayMail(b) /\ Accounted(b) /\ Paced(b)
    BY <1>2 DEF RemindersInv, Pace
  <2>2. Reminders(b)' = Reminders(b) /\ Logged(b)' = Logged(b)
    BY <1>2 DEF Reminders, Logged
  <2>3. \A u \in Loops : ToLog(u, b)' <=> ToLog(u, b)
    BY <1>7, <1>8, <1>9 DEF ToLog, Has
  <2>4. Accounted(b)' /\ Paced(b)'
    BY <1>2, <2>1, <2>2, <2>3 DEF Accounted, Paced
  <2>5. CASE b \notin Overdue
    <3>1. \A i \in DOMAIN r.items : r.items[i] # b
      BY <1>4, <1>7, <2>5
    <3>2. OnceInHand(b)'
      BY <1>8, <2>1, <3>1 DEF OnceInHand
    <3>3. \A u \in Loops : ToMail(u, b)' => ToMail(u, b) /\ loop'[u].on = loop[u].on
      BY <1>8, <3>1 DEF ToMail
    <3>4. MayMail(b)'
      BY <1>2, <2>1, <2>2, <3>3 DEF MayMail
    <3> QED BY <2>4, <3>2, <3>4
  <2>6. CASE b \in Overdue
    <3>1. \A u \in Loops : \A i \in DOMAIN loop[u].items : loop[u].items[i] # b
      BY <1>2, <2>6
    <3>2. OnceInHand(b)'
      <4> SUFFICES ASSUME NEW u \in Loops, NEW v \in Loops, NEW i \in DOMAIN loop'[u].items, NEW j \in DOMAIN loop'[v].items,
                          loop'[u].items[i] = b, loop'[v].items[j] = b
                   PROVE  u = v /\ i = j
        BY DEF OnceInHand
      <4>1. u = w /\ v = w
        BY <1>8, <3>1
      <4> QED BY <1>4, <1>7, <1>8, <4>1
    <3>3. \A u \in Loops : ToMail(u, b)' => u = w
      BY <1>8, <3>1 DEF ToMail
    <3>4. \A u \in Loops : ~ToLog(u, b)
      BY <3>1 DEF ToLog, Has
    <3>5. /\ Cardinality(Reminders(b)) <= Cardinality(Logged(b))
          /\ \A i \in Reminders(b) : \E l \in Logged(b) : mails[i].on <= sentLog[l].on
      BY <2>1, <3>4 DEF Accounted
    <3>6. /\ Cardinality(Logged(b)) < settings.max
          /\ \A l \in Logged(b) : ~(sentLog[l].on > now - settings.every)
      BY <2>6 DEF Overdue, BelowLimit, Recently
    <3>7. Cardinality(Reminders(b)) < loosest.max
      <4>1. Cardinality(Reminders(b)) \in Nat /\ Cardinality(Logged(b)) \in Nat
        BY FewOfEach
      <4>2. settings.max <= loosest.max /\ settings.max \in Nat /\ loosest.max \in Int
        BY ReminderRows DEF RemindersInv, LoosestYet
      <4> QED BY <3>5, <3>6, <4>1, <4>2
    <3>8. ASSUME NEW i \in Reminders(b) PROVE now - mails[i].on >= loosest.every
      <4>1. PICK l \in Logged(b) : mails[i].on <= sentLog[l].on
        BY <3>5
      <4>2. mails[i].on \in Nat /\ sentLog[l].on \in Nat
        BY FewOfEach, ReminderRows
      <4>3. loosest.every <= settings.every /\ settings.every \in Nat /\ loosest.every \in Int /\ now \in Nat
        BY ReminderRows DEF RemindersInv, LoosestYet
      <4>4. ~(sentLog[l].on > now - settings.every)
        BY <3>6
      <4> QED BY <4>1, <4>2, <4>3, <4>4
    <3>9. MayMail(b)'
      BY <1>2, <1>7, <1>8, <2>2, <3>3, <3>7, <3>8 DEF MayMail
    <3> QED BY <2>4, <3>2, <3>9
  <2> QED BY <2>5, <2>6
<1>11. \A i \in DOMAIN r.items : paidOn[r.items[i]] = 0 \/ paidOn[r.items[i]] >= r.on
  BY <1>2, <1>4, <1>7 DEF RemindersInv, ReadAsOpen
<1>12. /\ links \in Seq(LinkRows) /\ mails \in Seq(MailRows) /\ sentLog \in Seq(LogRows)
       /\ \A i \in DOMAIN links : links[i].seen <= links[i].expires /\ (links[i].seen = 0 <=> links[i].views = 0)
  BY DEF RemindersInv, RemindersTyped, LinksAndMails
<1>13. r.on <= now
  BY <1>7, ReminderRows
<1> QED BY <1>2, <1>5, <1>7, <1>10, <1>11, <1>12, <1>13, LoopStepInv

LEMMA RemindersNextInv == RemindersInv /\ [RemindersNext]_reminderVars => RemindersInv'
<1> SUFFICES ASSUME RemindersInv, [RemindersNext]_reminderVars PROVE RemindersInv'
  OBVIOUS
<1>1. CASE UNCHANGED reminderVars
  <2>1. Pace'
    BY <1>1, PaceUnmoved DEF reminderVars
  <2> QED BY <1>1, <2>1 DEF reminderVars, RemindersInv, RemindersTyped, LinksAndMails, ReadAsOpen, LoosestYet,
                            NoReminderAfterPayment, Item
<1>2. CASE RemindersNext
  BY <1>2, SaveRemindersInv, UsersInv, LinkUsersInv, ReadOverdueInv, CreateShareLinkInv, QueueSendInv, LogReminderInv,
     LoopDiesInv DEF RemindersNext, LoopStep
<1> QED BY <1>1, <1>2

\* An invoice is reminded of as the settings said, in number and in pace, unless a mail was
\* queued and its log lost or two workers had it in hand, and never because of a balance that
\* was paid before the run read it; a mail's link shows its own invoice (RunOnce of
\* reminders.go, EmailDocument of notifications).
THEOREM RemindersStay == RemindersSpec => []RemindedRightly
<1>1. RemindersSpec => []RemindersInv
  BY RemindersInitInv, RemindersNextInv, PTL DEF RemindersSpec
<1> QED BY <1>1, RemindersInvHolds, PTL
-----------------------------------------------------------------------------
(* Recurring *)

\* A month has 28 to 31 days, whatever the year.
LEMMA MonthsAreMonths == \A m : MonthLength(m) \in 28..31
BY DEF MonthLength

\* One step of carrying over: a day of the month stays, one beyond it goes to the
\* next month.
Carried(f, d) == IF d[2] <= MonthLength(d[1]) THEN d ELSE f[<<d[1] + 1, d[2] - MonthLength(d[1])>>]

\* f carries over every day up to n.
CarriesTo(f, n) == f = [d \in Nat \X (0..n) |-> Carried(f, d)]

\* What is carried over is nearer to the beginning of its month.
LEMMA CarryOn ==
    ASSUME NEW n \in Nat, NEW d \in Nat \X (0..n), ~(d[2] <= MonthLength(d[1]))
    PROVE  /\ <<d[1] + 1, d[2] - MonthLength(d[1])>> \in Nat \X (0..(n - 1))
           /\ <<d[1] + 1, d[2] - MonthLength(d[1])>> \in Nat \X (0..d[2])
           /\ d[2] - MonthLength(d[1]) \in Nat /\ d[2] - MonthLength(d[1]) < d[2]
           /\ n - 1 \in Nat /\ d[2] \in Nat /\ d[2] <= n
<1>1. d[1] \in Nat /\ d[2] \in 0..n
  OBVIOUS
<1>2. PICK l \in 28..31 : l = MonthLength(d[1])
  BY MonthsAreMonths
<1> QED BY <1>1, <1>2

\* Days up to any n can be carried over: a least n of which that is not so would
\* have a function for n - 1 to build on.
LEMMA CarryExistsUpto == \A n \in Nat : \E f : CarriesTo(f, n)
<1> DEFINE B == {n \in Nat : ~\E f : CarriesTo(f, n)}
<1> SUFFICES ASSUME B # {} PROVE FALSE
  OBVIOUS
<1>1. PICK m \in B : \A n \in B : m <= n
  <2>1. B \subseteq Nat
    OBVIOUS
  <2> HIDE DEF B
  <2> QED BY <2>1, LeastNat
<1>2. m \in Nat /\ ~\E f : CarriesTo(f, m)
  OBVIOUS
<1>3. m # 0
  <2> SUFFICES ASSUME m = 0 PROVE FALSE
    OBVIOUS
  <2>1. PICK f : f = [d \in Nat \X (0..0) |-> d]
    OBVIOUS
  <2>2. ASSUME NEW d \in Nat \X (0..0) PROVE Carried(f, d) = d
    <3>1. d[2] = 0
      OBVIOUS
    <3>2. PICK l \in 28..31 : l = MonthLength(d[1])
      BY MonthsAreMonths
    <3> QED BY <3>1, <3>2 DEF Carried
  <2>3. CarriesTo(f, 0)
    BY <2>1, <2>2 DEF CarriesTo
  <2> QED BY <1>2, <2>3
<1>4. m - 1 \in Nat /\ \E f : CarriesTo(f, m - 1)
  <2>1. m - 1 \in Nat /\ ~(m <= m - 1)
    BY <1>2, <1>3
  <2>2. m - 1 \notin B
    BY <1>1, <2>1
  <2> QED BY <2>1, <2>2
<1>5. PICK f : CarriesTo(f, m - 1)
  BY <1>4
<1>6. PICK h : h = [d \in Nat \X (0..m) |-> Carried(f, d)]
  OBVIOUS
<1>7. \A d \in Nat \X (0..(m - 1)) : d \in Nat \X (0..m) /\ h[d] = f[d]
  BY <1>2, <1>4, <1>5, <1>6 DEF CarriesTo
<1>8. ASSUME NEW d \in Nat \X (0..m) PROVE Carried(f, d) = Carried(h, d)
  <2>1. CASE d[2] <= MonthLength(d[1])
    BY <2>1 DEF Carried
  <2>2. CASE ~(d[2] <= MonthLength(d[1]))
    <3>1. <<d[1] + 1, d[2] - MonthLength(d[1])>> \in Nat \X (0..(m - 1))
      BY <1>2, <2>2, CarryOn
    <3>2. h[<<d[1] + 1, d[2] - MonthLength(d[1])>>] = f[<<d[1] + 1, d[2] - MonthLength(d[1])>>]
      BY <1>7, <3>1
    <3> QED BY <2>2, <3>2 DEF Carried
  <2> QED BY <2>1, <2>2
<1>9. CarriesTo(h, m)
  BY <1>6, <1>8 DEF CarriesTo
<1> QED BY <1>2, <1>9

\* Two ways of carrying over agree where both are defined.
LEMMA CarryAgrees ==
    ASSUME NEW m \in Nat, NEW n \in Nat, NEW f, NEW g, CarriesTo(f, m), CarriesTo(g, n)
    PROVE  \A d \in Nat \X Nat : d[2] <= m /\ d[2] <= n => f[d] = g[d]
<1> DEFINE Off(d) == d[2] <= m /\ d[2] <= n /\ f[d] # g[d]
           B == {x \in Nat : \E d \in Nat \X Nat : d[2] = x /\ Off(d)}
<1> SUFFICES ASSUME B # {} PROVE FALSE
  <2>1. \A d \in Nat \X Nat : Off(d) => d[2] \in B
    OBVIOUS
  <2> QED BY <2>1
<1>1. PICK x \in B : \A y \in B : x <= y
  <2>1. B \subseteq Nat
    OBVIOUS
  <2> HIDE DEF B
  <2> QED BY <2>1, LeastNat
<1>2. PICK d \in Nat \X Nat : d[2] = x /\ Off(d)
  OBVIOUS
<1>3. d \in Nat \X (0..m) /\ d \in Nat \X (0..n)
  BY <1>2
<1>4. f[d] = Carried(f, d) /\ g[d] = Carried(g, d)
  BY <1>3 DEF CarriesTo
<1>5. ~(d[2] <= MonthLength(d[1]))
  BY <1>2, <1>4 DEF Carried
<1>6. PICK e : e = <<d[1] + 1, d[2] - MonthLength(d[1])>>
  OBVIOUS
<1>7. e \in Nat \X Nat /\ e[2] < x /\ e[2] <= m /\ e[2] <= n
  <2>1. e[1] = d[1] + 1 /\ e[2] = d[2] - MonthLength(d[1])
    BY <1>6
  <2>2. d[2] - MonthLength(d[1]) \in Nat /\ d[2] - MonthLength(d[1]) < d[2] /\ d[1] + 1 \in Nat
    BY <1>3, <1>5, CarryOn
  <2> QED BY <1>2, <1>6, <2>1, <2>2
<1>8. f[e] = g[e]
  BY <1>1, <1>7
<1> QED BY <1>2, <1>4, <1>5, <1>6, <1>8 DEF Carried

\* Hence the recursion of AddDate is what its definition says it is.
LEMMA CarryIs == Carry = [d \in Nat \X Nat |-> Carried(Carry, d)]
<1> DEFINE F(n) == CHOOSE f : CarriesTo(f, n)
<1>1. \A n \in Nat : CarriesTo(F(n), n)
  BY CarryExistsUpto
<1> HIDE DEF F
<1>2. PICK g : g = [d \in Nat \X Nat |-> F(d[2])[d]]
  OBVIOUS
<1>3. ASSUME NEW d \in Nat \X Nat PROVE g[d] = Carried(g, d)
  <2>1. d[2] \in Nat /\ d \in Nat \X (0..d[2]) /\ g[d] = F(d[2])[d] /\ CarriesTo(F(d[2]), d[2])
    BY <1>1, <1>2
  <2>2. g[d] = Carried(F(d[2]), d)
    BY <2>1 DEF CarriesTo
  <2>3. CASE d[2] <= MonthLength(d[1])
    BY <2>2, <2>3 DEF Carried
  <2>4. CASE ~(d[2] <= MonthLength(d[1]))
    <3>1. PICK e : e = <<d[1] + 1, d[2] - MonthLength(d[1])>>
      OBVIOUS
    <3>2. e \in Nat \X Nat /\ e[2] \in Nat /\ e[2] <= d[2]
      <4>1. e[1] = d[1] + 1 /\ e[2] = d[2] - MonthLength(d[1])
        BY <3>1
      <4>2. d[2] - MonthLength(d[1]) \in Nat /\ d[2] - MonthLength(d[1]) < d[2] /\ d[1] + 1 \in Nat
        BY <2>1, <2>4, CarryOn
      <4> QED BY <2>1, <3>1, <4>1, <4>2
    <3>3. g[e] = F(e[2])[e] /\ CarriesTo(F(e[2]), e[2])
      BY <1>1, <1>2, <3>2
    <3>4. F(e[2])[e] = F(d[2])[e]
      <4>1. PICK a, b, m, n : a = F(e[2]) /\ b = F(d[2]) /\ m = e[2] /\ n = d[2]
        OBVIOUS
      <4>2. m \in Nat /\ n \in Nat /\ CarriesTo(a, m) /\ CarriesTo(b, n) /\ e[2] <= m /\ e[2] <= n
        BY <2>1, <3>2, <3>3, <4>1
      <4>3. \A c \in Nat \X Nat : c[2] <= m /\ c[2] <= n => a[c] = b[c]
        <5>1. m \in Nat /\ n \in Nat /\ CarriesTo(a, m) /\ CarriesTo(b, n)
          BY <4>2
        <5> QED BY <5>1, CarryAgrees
      <4>4. a[e] = b[e]
        BY <3>2, <4>2, <4>3
      <4> QED BY <4>1, <4>4
    <3> QED BY <2>2, <2>4, <3>1, <3>3, <3>4 DEF Carried
  <2> QED BY <2>3, <2>4
<1>4. g = [d \in Nat \X Nat |-> Carried(g, d)]
  BY <1>2, <1>3
<1>5. \E f : f = [d \in Nat \X Nat |-> IF d[2] <= MonthLength(d[1]) THEN d ELSE f[<<d[1] + 1, d[2] - MonthLength(d[1])>>]]
  BY <1>4 DEF Carried
<1> QED BY <1>5 DEF Carry, Carried

\* Dates are ordered.
LEMMA BeforeOn ==
    ASSUME NEW c \in Nat \X Nat, NEW d \in Nat \X Nat, NEW e \in Nat \X Nat, Before(c, d), Before(d, e)
    PROVE  Before(c, e)
<1>1. c[1] \in Nat /\ c[2] \in Nat /\ d[1] \in Nat /\ d[2] \in Nat /\ e[1] \in Nat /\ e[2] \in Nat
  OBVIOUS
<1> QED BY <1>1 DEF Before

\* The day x of month m is a date, and the day after it comes later.
CarriesOver(m, x) ==
    /\ Carry[<<m, x>>] \in Nat \X Nat
    /\ Before(Carry[<<m, x>>], Carry[<<m, x + 1>>])

\* A day of the month is that date.
LEMMA CarryHere ==
    ASSUME NEW m \in Nat, NEW x \in Nat, x <= MonthLength(m)
    PROVE  Carry[<<m, x>>] = <<m, x>>
<1>1. PICK d \in Nat \X Nat : d = <<m, x>>
  OBVIOUS
<1>2. d[1] = m /\ d[2] = x
  BY <1>1
<1>3. Carry[d] = Carried(Carry, d)
  BY CarryIs
<1> QED BY <1>1, <1>2, <1>3 DEF Carried

\* A day beyond the month is a day of the next one.
LEMMA CarryThere ==
    ASSUME NEW m \in Nat, NEW x \in Nat, ~(x <= MonthLength(m))
    PROVE  Carry[<<m, x>>] = Carry[<<m + 1, x - MonthLength(m)>>]
<1>1. PICK d \in Nat \X Nat : d = <<m, x>>
  OBVIOUS
<1>2. d[1] = m /\ d[2] = x
  BY <1>1
<1>3. Carry[d] = Carried(Carry, d)
  BY CarryIs
<1> QED BY <1>1, <1>2, <1>3 DEF Carried

\* Every day is a date before the next day's, by way of the least day that is not.
LEMMA CarryNext == \A x \in Nat : \A m \in Nat : CarriesOver(m, x)
<1> DEFINE B == {x \in Nat : \E m \in Nat : ~CarriesOver(m, x)}
<1> SUFFICES ASSUME B # {} PROVE FALSE
  OBVIOUS
<1>1. PICK x \in B : \A y \in B : x <= y
  <2>1. B \subseteq Nat
    OBVIOUS
  <2> HIDE DEF B
  <2> QED BY <2>1, LeastNat
<1>2. PICK m \in Nat : ~CarriesOver(m, x)
  OBVIOUS
<1>3. x \in Nat /\ x + 1 \in Nat
  OBVIOUS
<1>4. PICK l \in 28..31 : l = MonthLength(m)
  BY MonthsAreMonths
<1>5. CASE x + 1 <= l
  <2>1. Carry[<<m, x>>] = <<m, x>> /\ Carry[<<m, x + 1>>] = <<m, x + 1>>
    <3>1. x <= l
      BY <1>3, <1>4, <1>5
    <3> QED BY <1>3, <1>4, <1>5, <3>1, CarryHere
  <2>2. <<m, x>> \in Nat \X Nat /\ Before(<<m, x>>, <<m, x + 1>>)
    BY <1>3 DEF Before
  <2> QED BY <1>2, <2>1, <2>2 DEF CarriesOver
<1>6. CASE x = l
  <2>1. Carry[<<m, x>>] = <<m, x>>
    BY <1>3, <1>4, <1>6, CarryHere
  <2>2. Carry[<<m, x + 1>>] = Carry[<<m + 1, 1>>]
    <3>1. ~(x + 1 <= l) /\ (x + 1) - l = 1
      BY <1>3, <1>4, <1>6
    <3> QED BY <1>3, <1>4, <3>1, CarryThere
  <2>3. Carry[<<m + 1, 1>>] = <<m + 1, 1>>
    <3>1. PICK k \in 28..31 : k = MonthLength(m + 1)
      BY MonthsAreMonths
    <3>2. 1 <= MonthLength(m + 1)
      BY <3>1
    <3> QED BY <3>2, CarryHere
  <2>4. <<m, x>> \in Nat \X Nat /\ Before(<<m, x>>, <<m + 1, 1>>)
    BY <1>3 DEF Before
  <2> QED BY <1>2, <2>1, <2>2, <2>3, <2>4 DEF CarriesOver
<1>7. CASE x > l
  <2>1. PICK y \in Nat : y = x - l /\ y < x /\ (x + 1) - l = y + 1 /\ ~(x <= l) /\ ~(x + 1 <= l)
    BY <1>3, <1>4, <1>7
  <2>2. Carry[<<m, x>>] = Carry[<<m + 1, y>>] /\ Carry[<<m, x + 1>>] = Carry[<<m + 1, y + 1>>]
    BY <1>3, <1>4, <2>1, CarryThere
  <2>3. y \notin B
    BY <1>1, <1>3, <2>1
  <2>4. CarriesOver(m + 1, y)
    BY <2>3
  <2> QED BY <1>2, <2>2, <2>4 DEF CarriesOver
<1> QED BY <1>3, <1>4, <1>5, <1>6, <1>7

\* Later days are later dates.
LEMMA CarryLater ==
    ASSUME NEW m \in Nat, NEW x \in Nat, NEW y \in Nat, x < y
    PROVE  Before(Carry[<<m, x>>], Carry[<<m, y>>])
<1> DEFINE B == {z \in Nat : x < z /\ ~Before(Carry[<<m, x>>], Carry[<<m, z>>])}
<1> SUFFICES ASSUME B # {} PROVE FALSE
  OBVIOUS
<1>1. PICK z \in B : \A u \in B : z <= u
  <2>1. B \subseteq Nat
    OBVIOUS
  <2> HIDE DEF B
  <2> QED BY <2>1, LeastNat
<1>2. PICK u \in Nat : z = u + 1 /\ x <= u
  <2>1. z - 1 \in Nat /\ z = (z - 1) + 1 /\ x <= z - 1
    OBVIOUS
  <2> QED BY <2>1
<1>3. /\ Carry[<<m, x>>] \in Nat \X Nat /\ Carry[<<m, u>>] \in Nat \X Nat /\ Carry[<<m, z>>] \in Nat \X Nat
      /\ Before(Carry[<<m, u>>], Carry[<<m, z>>])
  <2>1. CarriesOver(m, x) /\ CarriesOver(m, u) /\ CarriesOver(m, z)
    BY <1>2, CarryNext
  <2> QED BY <1>2, <2>1 DEF CarriesOver
<1>4. CASE x = u
  BY <1>3, <1>4
<1>5. CASE x < u
  <2>1. u \notin B
    BY <1>1, <1>2
  <2>2. Before(Carry[<<m, x>>], Carry[<<m, u>>])
    BY <1>5, <2>1
  <2> QED BY <1>3, <2>2, BeforeOn
<1> QED BY <1>2, <1>4, <1>5

\* Multiples of a positive count grow.
LEMMA TimesLater ==
    ASSUME NEW c \in Nat \ {0}, NEW j \in Nat, NEW k \in Nat, j < k
    PROVE  c * j \in Nat /\ c * k \in Nat /\ c * j < c * k
<1>1. PICK n \in Nat : n = k - j /\ n >= 1 /\ k = j + n
  OBVIOUS
<1>2. c * j \in Nat /\ c * n \in Nat /\ c * k \in Nat
  BY SMTT(30)
<1>3. c * k = c * j + c * n
  BY <1>1, SMTT(30)
<1>4. c * n >= 1
  BY <1>1, SMTT(30)
<1> QED BY <1>2, <1>3, <1>4

\* No two periods of a schedule fall on the same date.
LEMMA NthDates ==
    ASSUME NEW anchor \in Dates, NEW rhythm \in Rhythms, NEW j \in Nat, NEW k \in Nat, j < k
    PROVE  Nth(anchor, rhythm, j) # Nth(anchor, rhythm, k)
<1>1. PICK m \in Nat, x \in 1..31 : anchor = <<m, x>> /\ anchor[1] = m /\ anchor[2] = x
  BY DEF Dates
<1>2. PICK f \in Frequencies, c \in 1..24 : rhythm = <<f, c>> /\ rhythm[1] = f /\ rhythm[2] = c
  <2>1. rhythm \in Frequencies \X (1..24)
    BY RecurringAssumption
  <2> QED BY <2>1
<1>3. PICK p, q \in Nat : p = c * j /\ q = c * k /\ p < q
  BY <1>2, TimesLater
<1>4. CASE f = "WEEKLY"
  <2>1. PICK y \in Nat, z \in Nat : y = x + 7 * p /\ z = x + 7 * q /\ y < z
    BY <1>1, <1>3
  <2>2. Nth(anchor, rhythm, j) = Carry[<<m, y>>] /\ Nth(anchor, rhythm, k) = Carry[<<m, z>>]
    BY <1>1, <1>2, <1>3, <1>4, <2>1 DEF Nth
  <2>3. Before(Carry[<<m, y>>], Carry[<<m, z>>])
    BY <2>1, CarryLater
  <2>4. Carry[<<m, y>>] \in Nat \X Nat
    BY <2>1, CarryNext DEF CarriesOver
  <2>5. \A d \in Nat \X Nat : ~Before(d, d)
    BY DEF Before
  <2> QED BY <2>2, <2>3, <2>4, <2>5
<1>5. CASE f # "WEEKLY"
  <2>1. PICK u \in 1..12 : /\ Nth(anchor, rhythm, j) = AddMonths(anchor, u * p)
                           /\ Nth(anchor, rhythm, k) = AddMonths(anchor, u * q)
    <3>1. CASE f = "MONTHLY"
      <4>1. Nth(anchor, rhythm, j) = AddMonths(anchor, 1 * p) /\ Nth(anchor, rhythm, k) = AddMonths(anchor, 1 * q)
        BY <1>2, <1>3, <3>1 DEF Nth
      <4> QED BY <4>1
    <3>2. CASE f = "QUARTERLY"
      <4>1. Nth(anchor, rhythm, j) = AddMonths(anchor, 3 * p) /\ Nth(anchor, rhythm, k) = AddMonths(anchor, 3 * q)
        BY <1>2, <1>3, <3>2 DEF Nth
      <4> QED BY <4>1
    <3>3. CASE f = "YEARLY"
      <4>1. Nth(anchor, rhythm, j) = AddMonths(anchor, 12 * p) /\ Nth(anchor, rhythm, k) = AddMonths(anchor, 12 * q)
        BY <1>2, <1>3, <3>3 DEF Nth
      <4> QED BY <4>1
    <3> QED BY <1>5, <3>1, <3>2, <3>3 DEF Frequencies
  <2>2. u * p < u * q /\ u * p \in Nat /\ u * q \in Nat
    BY <1>3, <2>1, TimesLater
  <2>3. AddMonths(anchor, u * p)[1] = m + u * p /\ AddMonths(anchor, u * q)[1] = m + u * q
    BY <1>1 DEF AddMonths
  <2>4. PICK a \in Nat, b \in Nat : a = u * p /\ b = u * q
    BY <2>2
  <2>5. m + a # m + b
    BY <2>2, <2>4
  <2> QED BY <2>1, <2>3, <2>4, <2>5
<1> QED BY <1>4, <1>5

\* Periods counted in months fall on the anchor's day, or on the last one of a
\* short month.
LEMMA NthDay ==
    ASSUME NEW anchor \in Dates, NEW rhythm \in Rhythms, NEW k \in Nat, rhythm[1] # "WEEKLY",
           NEW d, d = Nth(anchor, rhythm, k)
    PROVE  d[2] = anchor[2] \/ (d[2] < anchor[2] /\ d[2] = MonthLength(d[1]))
<1>1. PICK n : d = AddMonths(anchor, n)
  BY RecurringAssumption DEF Nth, Frequencies
<1>2. PICK m : d = <<m, IF anchor[2] > MonthLength(m) THEN MonthLength(m) ELSE anchor[2]>>
  BY <1>1 DEF AddMonths
<1>3. d[1] = m /\ d[2] = IF anchor[2] > MonthLength(m) THEN MonthLength(m) ELSE anchor[2]
  BY <1>2
<1>4. PICK a \in 1..31 : a = anchor[2]
  BY DEF Dates
<1>5. PICK l \in 28..31 : l = MonthLength(m)
  BY MonthsAreMonths
<1>6. d[1] = m /\ d[2] = IF a > l THEN l ELSE a
  BY <1>3, <1>4, <1>5
<1>7. CASE a > l
  <2>1. d[2] = l /\ l < a
    BY <1>4, <1>5, <1>6, <1>7
  <2>2. d[2] < anchor[2] /\ d[2] = MonthLength(d[1])
    BY <2>1, <1>4, <1>5, <1>6
  <2> QED BY <2>2
<1>8. CASE ~(a > l)
  BY <1>4, <1>6, <1>8
<1> QED BY <1>7, <1>8

\* The first period falls on the anchor.
LEMMA NthFirst ==
    ASSUME NEW anchor \in Dates, NEW rhythm \in Rhythms
    PROVE  Nth(anchor, rhythm, 0) = anchor
<1>1. PICK m \in Nat, x \in 1..31 : anchor = <<m, x>> /\ anchor[1] = m /\ anchor[2] = x /\ x <= MonthLength(m)
  BY DEF Dates
<1>2. PICK f \in Frequencies, c \in 1..24 : rhythm = <<f, c>> /\ rhythm[1] = f /\ rhythm[2] = c /\ c * 0 = 0
  <2>1. rhythm \in Frequencies \X (1..24)
    BY RecurringAssumption
  <2> QED BY <2>1
<1>3. CASE f = "WEEKLY"
  <2>1. Nth(anchor, rhythm, 0) = Carry[<<m, x + 7 * 0>>] /\ x + 7 * 0 = x
    BY <1>1, <1>2, <1>3 DEF Nth
  <2>2. Carry[<<m, x>>] = <<m, x>>
    BY <1>1, CarryHere
  <2> QED BY <1>1, <2>1, <2>2
<1>4. CASE f # "WEEKLY"
  <2>1. Nth(anchor, rhythm, 0) = AddMonths(anchor, 0)
    BY <1>2, <1>4 DEF Nth, Frequencies
  <2>2. PICK l \in 28..31 : l = MonthLength(m)
    BY MonthsAreMonths
  <2>3. m + 0 = m /\ ~(x > MonthLength(m))
    BY <1>1, <2>2
  <2>4. AddMonths(anchor, 0) = <<m, x>>
    BY <1>1, <2>3 DEF AddMonths
  <2> QED BY <1>1, <2>1, <2>4
<1> QED BY <1>3, <1>4

\* What a schedule can be, and what a worker has read of one.
ScheduleRows ==
    [state : {"none", "live", "gone"}, rhythm : Rhythms \cup {<<"MONTHLY", 1>>}, anchor : Dates, next : Nat \X Nat,
     end : EndDates \cup {Never}, finalize : BOOLEAN, active : BOOLEAN, done : Nat]

\* What a worker has read of a schedule.
LoadedRows ==
    [id : Schedules, rhythm : Rhythms, anchor : Dates, next : Nat \X Nat,
     end : EndDates \cup {Never}, finalize : BOOLEAN, done : Nat, tries : Nat]

\* What a worker of RunOnce can be at.
WorkerStates == [at : {"idle", "convert", "finalize", "record", "advance"}, rows : Seq(LoadedRows), ok : BOOLEAN]

\* The schedule has not been deleted.
Live(s) == schedule[s].state = "live"

\* The date of a schedule's k-th period.
DateOf(s, k) == Nth(schedule[s].anchor, schedule[s].rhythm, k)

\* No period from the n-th on has an invoice yet, unless a run of it was cut short.
Untouched(s, n) ==
    \A k \in Nat : k >= n /\ DateOf(s, k) \in DOMAIN invoices[s] => <<s, DateOf(s, k)>> \in cut

\* Every period before the n-th has its invoice and its record.
MadeUpTo(s, n) ==
    \A k \in 0..(n - 1) :
        LET d == DateOf(s, k) IN
        d \in DOMAIN invoices[s] /\ d \in DOMAIN run[s] /\ (run[s][d] # "FAILED" \/ s \in doubled)

\* A row as it was read: past is 1 once its conversion has been tried, told is 1 once
\* that is recorded.
RowOK(r, past, told) ==
    /\ schedule[r.id].state # "none"
    /\ r.rhythm = schedule[r.id].rhythm /\ r.anchor = schedule[r.id].anchor
    /\ r.end = schedule[r.id].end /\ r.finalize = schedule[r.id].finalize
    /\ r.next = Nth(r.anchor, r.rhythm, r.done)
    /\ r.tries < MaxCatchUp /\ WithinEnd(r.next, r.end)
    /\ r.id \notin doubled => Untouched(r.id, r.done + past) /\ (Live(r.id) => r.done = schedule[r.id].done)
    /\ Live(r.id) => MadeUpTo(r.id, r.done + told) /\ (wish[r.id] \/ r.id \in late)

\* What a worker has in hand.
WorkerOK(x) ==
    /\ x \in WorkerStates
    /\ x.at = "idle" <=> x.rows = <<>>
    /\ \A i, j \in DOMAIN x.rows : x.rows[i].id = x.rows[j].id => i = j
    /\ \A i \in DOMAIN x.rows :
          IF i = 1 THEN RowOK(x.rows[1], IF x.at = "convert" THEN 0 ELSE 1, IF x.at = "advance" THEN 1 ELSE 0)
                   ELSE RowOK(x.rows[i], 0, 0)
    /\ x.at # "record" => x.ok
    /\ x.at \notin {"idle", "convert"} =>
          LET r == x.rows[1] IN
          IF x.ok THEN r.next \in DOMAIN invoices[r.id] ELSE <<r.id, r.next>> \in cut

\* The worker has the schedule in hand.
HasInHand(x, s) == \E i \in DOMAIN x.rows : x.rows[i].id = s

\* A schedule and what has become of it.
ScheduleOK(s) ==
    /\ schedule[s] \in ScheduleRows
    /\ schedule[s].state = "none" => DOMAIN invoices[s] = {}
    /\ schedule[s].state # "none" =>
          /\ schedule[s].rhythm \in Rhythms
          /\ schedule[s].next = DateOf(s, schedule[s].done)
    /\ Live(s) => /\ MadeUpTo(s, schedule[s].done)
                  /\ schedule[s].active => wish[s] \/ s \in late
                  /\ s \notin doubled /\ ~InHand(s) => Untouched(s, schedule[s].done)
    /\ \A d \in DOMAIN run[s] : run[s][d] \in {"CREATED", "FINALIZED", "FAILED"}
    /\ \A d \in DOMAIN invoices[s] :
          /\ invoices[s][d] \in Nat \ {0}
          /\ invoices[s][d] = 1 \/ <<s, d>> \in cut \/ s \in doubled
          /\ WithinEnd(d, schedule[s].end)
          /\ schedule[s].rhythm[1] # "WEEKLY" =>
               \/ d[2] = schedule[s].anchor[2]
               \/ d[2] < schedule[s].anchor[2] /\ d[2] = MonthLength(d[1])

\* What the variables are.
RecurringTyped ==
    /\ day \in DOMAIN Calendar
    /\ schedule = [s \in Schedules |-> schedule[s]] /\ run = [s \in Schedules |-> run[s]]
    /\ invoices = [s \in Schedules |-> invoices[s]] /\ worker = [w \in RecurringWorkers |-> worker[w]]
    /\ wish \in [Schedules -> BOOLEAN] /\ doubled \subseteq Schedules

\* The inductive invariant: every schedule and every worker is in order, and two
\* workers hold the same schedule only if that is noted.
RecurringInv ==
    /\ RecurringTyped
    /\ \A s \in Schedules : ScheduleOK(s)
    /\ \A w \in RecurringWorkers : WorkerOK(worker[w])
    /\ \A v, w \in RecurringWorkers : \A s \in Schedules \ doubled : HasInHand(worker[v], s) /\ HasInHand(worker[w], s) => v = w

\* The date of a period is a month and a day.
LEMMA NthIsPair ==
    ASSUME NEW anchor \in Dates, NEW rhythm \in Rhythms, NEW k \in Nat
    PROVE  Nth(anchor, rhythm, k) \in Nat \X Nat
<1>1. PICK m \in Nat, x \in 1..31 : anchor = <<m, x>> /\ anchor[1] = m /\ anchor[2] = x
  BY DEF Dates
<1>2. PICK f \in Frequencies, c \in 1..24 : rhythm = <<f, c>> /\ rhythm[1] = f /\ rhythm[2] = c
  <2>1. rhythm \in Frequencies \X (1..24)
    BY RecurringAssumption
  <2> QED BY <2>1
<1>3. PICK p \in Nat : p = c * k
  <2>1. c * k \in Nat
    BY SMTT(30)
  <2> QED BY <2>1
<1>4. CASE f = "WEEKLY"
  <2>1. PICK y \in Nat : y = x + 7 * p
    BY <1>1, <1>3
  <2>2. Nth(anchor, rhythm, k) = Carry[<<m, y>>]
    BY <1>1, <1>2, <1>3, <1>4, <2>1 DEF Nth
  <2> QED BY <2>1, <2>2, CarryNext DEF CarriesOver
<1>5. CASE f # "WEEKLY"
  <2>1. PICK n \in Nat : Nth(anchor, rhythm, k) = AddMonths(anchor, n)
    <3>1. p \in Nat /\ 3 * p \in Nat /\ 12 * p \in Nat
      OBVIOUS
    <3>2. CASE f = "MONTHLY"
      BY <1>2, <1>3, <3>1, <3>2 DEF Nth
    <3>3. CASE f = "QUARTERLY"
      BY <1>2, <1>3, <3>1, <3>3 DEF Nth
    <3>4. CASE f = "YEARLY"
      BY <1>2, <1>3, <3>1, <3>4 DEF Nth
    <3> QED BY <1>5, <3>2, <3>3, <3>4 DEF Frequencies
  <2>2. PICK l \in 28..31 : l = MonthLength(m + n)
    BY MonthsAreMonths
  <2>3. AddMonths(anchor, n) = <<m + n, IF x > l THEN l ELSE x>>
    BY <1>1, <2>2 DEF AddMonths
  <2> QED BY <2>1, <2>2, <2>3
<1> QED BY <1>4, <1>5

\* Nothing is taken back of a schedule.
Smooth(q) ==
    /\ schedule'[q].rhythm = schedule[q].rhythm /\ schedule'[q].anchor = schedule[q].anchor
    /\ schedule'[q].end = schedule[q].end /\ schedule'[q].finalize = schedule[q].finalize
    /\ schedule[q].state # "none" => schedule'[q].state # "none"
    /\ schedule'[q].state = "live" => schedule[q].state = "live"
    /\ DOMAIN invoices[q] \subseteq DOMAIN invoices'[q] /\ cut \subseteq cut' /\ doubled \subseteq doubled'
    /\ schedule'[q].state = "live" =>
          /\ wish[q] \/ q \in late => wish'[q] \/ q \in late'
          /\ \A d \in DOMAIN run[q] :
                /\ d \in DOMAIN run'[q]
                /\ run'[q][d] # "FAILED" \/ run[q][d] = "FAILED" \/ q \in doubled'
    /\ q \notin doubled' => schedule'[q].done = schedule[q].done /\ DOMAIN invoices'[q] \subseteq DOMAIN invoices[q]

\* What has been made stays made when nothing is taken back.
LEMMA MadeStays ==
    ASSUME NEW q, NEW n, Smooth(q), Live(q)', MadeUpTo(q, n)
    PROVE  MadeUpTo(q, n)'
<1> SUFFICES ASSUME NEW k \in 0..(n - 1), NEW d, d = DateOf(q, k)
             PROVE  d \in DOMAIN invoices'[q] /\ d \in DOMAIN run'[q] /\ (run'[q][d] # "FAILED" \/ q \in doubled')
  <2>1. \A k : DateOf(q, k)' = DateOf(q, k)
    BY DEF Smooth, DateOf
  <2> QED BY <2>1 DEF MadeUpTo
<1>1. d \in DOMAIN invoices[q] /\ d \in DOMAIN run[q] /\ (run[q][d] # "FAILED" \/ q \in doubled)
  BY DEF MadeUpTo
<1>2. schedule'[q].state = "live"
  BY DEF Live
<1> QED BY <1>1, <1>2 DEF Smooth

\* A row that was read stays right when nothing is taken back.
LEMMA RowStays ==
    ASSUME NEW r, NEW p, NEW t, RowOK(r, p, t), Smooth(r.id)
    PROVE  RowOK(r, p, t)'
<1>1. PICK q : q = r.id
  OBVIOUS
<1>2. \A k : DateOf(q, k)' = DateOf(q, k)
  BY <1>1 DEF Smooth, DateOf
<1>3. /\ schedule'[q].state # "none"
      /\ r.rhythm = schedule'[q].rhythm /\ r.anchor = schedule'[q].anchor
      /\ r.end = schedule'[q].end /\ r.finalize = schedule'[q].finalize
      /\ r.next = Nth(r.anchor, r.rhythm, r.done)
      /\ r.tries < MaxCatchUp /\ WithinEnd(r.next, r.end)
  BY <1>1 DEF RowOK, Smooth
<1>4. ASSUME q \notin doubled' PROVE Untouched(q, r.done + p)' /\ (Live(q)' => r.done = schedule'[q].done)
  <2>1. q \notin doubled /\ schedule'[q].done = schedule[q].done /\ DOMAIN invoices'[q] \subseteq DOMAIN invoices[q] /\ cut \subseteq cut'
    BY <1>1, <1>4 DEF Smooth
  <2>2. Untouched(q, r.done + p) /\ (Live(q) => r.done = schedule[q].done)
    BY <1>1, <2>1 DEF RowOK
  <2>3. Live(q)' => Live(q)
    BY <1>1 DEF Smooth, Live
  <2>4. Untouched(q, r.done + p)'
    BY <1>2, <2>1, <2>2 DEF Untouched
  <2> QED BY <2>1, <2>2, <2>3, <2>4
<1>5. ASSUME Live(q)' PROVE MadeUpTo(q, r.done + t)' /\ (wish'[q] \/ q \in late')
  <2>1. Live(q) /\ schedule'[q].state = "live"
    BY <1>1, <1>5 DEF Smooth, Live
  <2>2. MadeUpTo(q, r.done + t) /\ (wish[q] \/ q \in late)
    BY <1>1, <2>1 DEF RowOK
  <2>3. MadeUpTo(q, r.done + t)'
    BY <1>1, <1>5, <2>2, MadeStays
  <2> QED BY <1>1, <2>1, <2>2, <2>3 DEF Smooth
<1> QED BY <1>1, <1>3, <1>4, <1>5 DEF RowOK

\* So does all that a worker has in hand.
LEMMA WorkerStays ==
    ASSUME NEW x, WorkerOK(x), \A i \in DOMAIN x.rows : Smooth(x.rows[i].id)
    PROVE  WorkerOK(x)'
<1>1. /\ x \in WorkerStates
      /\ x.at = "idle" <=> x.rows = <<>>
      /\ \A i, j \in DOMAIN x.rows : x.rows[i].id = x.rows[j].id => i = j
      /\ x.at # "record" => x.ok
  BY DEF WorkerOK
<1>2. ASSUME NEW i \in DOMAIN x.rows
      PROVE  IF i = 1 THEN RowOK(x.rows[1], IF x.at = "convert" THEN 0 ELSE 1, IF x.at = "advance" THEN 1 ELSE 0)'
                      ELSE RowOK(x.rows[i], 0, 0)'
  <2>1. PICK r, p, t : r = x.rows[i] /\ p = (IF x.at = "convert" THEN 0 ELSE 1) /\ t = (IF x.at = "advance" THEN 1 ELSE 0)
    OBVIOUS
  <2>2. Smooth(r.id)
    BY <2>1
  <2>3. CASE i = 1
    <3>1. RowOK(r, p, t)
      BY <2>1, <2>3 DEF WorkerOK
    <3>2. RowOK(r, p, t)'
      BY <2>2, <3>1, RowStays
    <3> QED BY <2>1, <2>3, <3>2
  <2>4. CASE i # 1
    <3>1. RowOK(r, 0, 0)
      BY <2>1, <2>4 DEF WorkerOK
    <3>2. RowOK(r, 0, 0)'
      BY <2>2, <3>1, RowStays
    <3> QED BY <2>1, <2>4, <3>2
  <2> QED BY <2>3, <2>4
<1>3. ASSUME x.at \notin {"idle", "convert"}
      PROVE  IF x.ok THEN x.rows[1].next \in DOMAIN invoices'[x.rows[1].id] ELSE <<x.rows[1].id, x.rows[1].next>> \in cut'
  <2>1. 1 \in DOMAIN x.rows
    <3>1. x.rows # <<>> /\ x.rows \in Seq(LoadedRows)
      BY <1>1, <1>3 DEF WorkerStates
    <3>2. PICK rows : rows = x.rows
      OBVIOUS
    <3>3. DOMAIN rows = 1..Len(rows) /\ Len(rows) \in Nat /\ Len(rows) # 0
      BY <3>1, <3>2, LenProperties, EmptySeq
    <3> QED BY <3>2, <3>3
  <2>2. PICK r : r = x.rows[1]
    OBVIOUS
  <2>3. DOMAIN invoices[r.id] \subseteq DOMAIN invoices'[r.id] /\ cut \subseteq cut'
    BY <2>1, <2>2 DEF Smooth
  <2>4. IF x.ok THEN r.next \in DOMAIN invoices[r.id] ELSE <<r.id, r.next>> \in cut
    BY <1>3, <2>2 DEF WorkerOK
  <2> QED BY <2>2, <2>3, <2>4
<1> QED BY <1>1, <1>2, <1>3 DEF WorkerOK

\* A schedule nobody touches stays in order.
LEMMA ScheduleStays ==
    ASSUME NEW q, ScheduleOK(q), schedule'[q] = schedule[q], run'[q] = run[q], invoices'[q] = invoices[q],
           wish'[q] \/ q \in late' \/ ~(wish[q] \/ q \in late), cut \subseteq cut', doubled \subseteq doubled',
           InHand(q) => InHand(q)'
    PROVE  ScheduleOK(q)'
<1>1. \A k : DateOf(q, k)' = DateOf(q, k)
  BY DEF DateOf
<1>2. ASSUME Live(q)
      PROVE  /\ MadeUpTo(q, schedule[q].done)'
             /\ schedule'[q].active => wish'[q] \/ q \in late'
             /\ q \notin doubled' /\ ~InHand(q)' => Untouched(q, schedule[q].done)'
  <2>1. /\ MadeUpTo(q, schedule[q].done)
        /\ schedule[q].active => wish[q] \/ q \in late
        /\ q \notin doubled /\ ~InHand(q) => Untouched(q, schedule[q].done)
    BY <1>2 DEF ScheduleOK
  <2>2. MadeUpTo(q, schedule[q].done)'
    BY <1>1, <2>1 DEF MadeUpTo
  <2>3. Untouched(q, schedule[q].done) => Untouched(q, schedule[q].done)'
    BY <1>1 DEF Untouched
  <2> QED BY <2>1, <2>2, <2>3
<1> QED BY <1>1, <1>2 DEF ScheduleOK, Live

\* What a worker has in hand is of schedules that exist and were asked for.
LEMMA WorkersFine ==
    ASSUME RecurringInv, NEW w \in RecurringWorkers, NEW x, x = worker[w]
    PROVE  /\ WorkerOK(x) /\ x.rows \in Seq(LoadedRows)
           /\ \A i \in DOMAIN x.rows :
                 /\ x.rows[i] \in LoadedRows /\ InHand(x.rows[i].id)
                 /\ schedule[x.rows[i].id].state # "none"
                 /\ Live(x.rows[i].id) => wish[x.rows[i].id] \/ x.rows[i].id \in late
<1>1. WorkerOK(x) /\ x \in WorkerStates
  BY DEF RecurringInv, WorkerOK
<1>2. ASSUME NEW i \in DOMAIN x.rows
      PROVE  /\ InHand(x.rows[i].id) /\ schedule[x.rows[i].id].state # "none"
             /\ Live(x.rows[i].id) => wish[x.rows[i].id] \/ x.rows[i].id \in late
  <2>1. PICK r, p, t : r = x.rows[i] /\ RowOK(r, p, t)
    BY <1>1 DEF WorkerOK
  <2> QED BY <2>1 DEF RowOK, InHand
<1>3. x.rows \in Seq(LoadedRows)
  BY <1>1 DEF WorkerStates
<1>4. \A i \in DOMAIN x.rows : x.rows[i] \in LoadedRows
  BY <1>3, ElementOfSeq, LenProperties
<1> QED BY <1>1, <1>2, <1>3, <1>4

\* A step of a user, which moves no worker, keeps the invariant if the schedules
\* stay in order.
LEMMA UsersPass ==
    ASSUME RecurringInv, UNCHANGED <<worker, doubled>>, RecurringTyped',
           \A q \in Schedules : InHand(q) => Smooth(q),
           \A q \in Schedules : ScheduleOK(q)'
    PROVE  RecurringInv'
<1>1. ASSUME NEW w \in RecurringWorkers PROVE WorkerOK(worker[w])'
  <2>1. PICK x : x = worker[w]
    OBVIOUS
  <2>2. WorkerOK(x) /\ \A i \in DOMAIN x.rows : x.rows[i] \in LoadedRows /\ InHand(x.rows[i].id)
    BY <2>1, WorkersFine
  <2>3. \A i \in DOMAIN x.rows : x.rows[i].id \in Schedules
    BY <2>2 DEF LoadedRows
  <2>4. WorkerOK(x)'
    BY <2>2, <2>3, WorkerStays
  <2>5. worker'[w] = x
    BY <2>1
  <2> QED BY <2>4, <2>5
<1>2. \A v, w \in RecurringWorkers : \A s \in Schedules \ doubled' : HasInHand(worker'[v], s) /\ HasInHand(worker'[w], s) => v = w
  BY DEF RecurringInv
<1> QED BY <1>1, <1>2 DEF RecurringInv

\* What does not change takes nothing back.
LEMMA SmoothSame ==
    ASSUME NEW q, schedule'[q] = schedule[q], run'[q] = run[q], invoices'[q] = invoices[q],
           wish[q] \/ q \in late => wish'[q] \/ q \in late', cut \subseteq cut', doubled \subseteq doubled'
    PROVE  Smooth(q)
BY DEF Smooth

\* The invariant of one schedule.
LEMMA ScheduleIs ==
    ASSUME RecurringInv, NEW s \in Schedules
    PROVE  ScheduleOK(s) /\ schedule[s] \in ScheduleRows
BY DEF RecurringInv, ScheduleOK

\* Creating a schedule keeps the invariant.
LEMMA CreatePasses ==
    ASSUME RecurringInv, NEW s \in Schedules, Create(s)
    PROVE  RecurringInv'
<1>1. PICK rhythm \in Rhythms, first \in FirstDates, end \in EndDates, f \in BOOLEAN :
         schedule' = [schedule EXCEPT ![s] = [state |-> "live", rhythm |-> rhythm, anchor |-> first, next |-> first,
                                                end |-> end, finalize |-> f, active |-> TRUE, done |-> 0]]
  BY DEF Create
<1>2. PICK x : x = [state |-> "live", rhythm |-> rhythm, anchor |-> first, next |-> first,
                    end |-> end, finalize |-> f, active |-> TRUE, done |-> 0]
  OBVIOUS
<1>3. first \in Dates /\ first \in Nat \X Nat
  <2>1. first \in Dates
    BY RecurringAssumption
  <2> QED BY <2>1 DEF Dates
<1>4. x \in ScheduleRows /\ x.state = "live" /\ x.rhythm = rhythm /\ x.anchor = first /\ x.next = first /\ x.done = 0
  BY <1>2, <1>3 DEF ScheduleRows
<1>5. /\ schedule[s].state = "none" /\ schedule' = [schedule EXCEPT ![s] = x] /\ wish' = [wish EXCEPT ![s] = TRUE]
      /\ UNCHANGED <<day, run, invoices, worker, late, doubled, cut, cuts, toggles>>
  BY <1>1, <1>2 DEF Create
<1>6. /\ schedule'[s] = x /\ \A q \in Schedules : q # s => schedule'[q] = schedule[q] /\ wish'[q] = wish[q]
      /\ wish'[s] = TRUE /\ RecurringTyped'
  BY <1>5 DEF RecurringInv, RecurringTyped
<1>7. ~InHand(s)
  <2> SUFFICES ASSUME NEW w \in RecurringWorkers, NEW i \in DOMAIN worker[w].rows, worker[w].rows[i].id = s PROVE FALSE
    BY DEF InHand
  <2> QED BY <1>5, WorkersFine
<1>8. ASSUME NEW q \in Schedules PROVE InHand(q) => Smooth(q)
  BY <1>5, <1>6, <1>7, SmoothSame
<1>9. ASSUME NEW q \in Schedules PROVE ScheduleOK(q)'
  <2>1. CASE q # s
    <3>1. InHand(q) => InHand(q)'
      BY <1>5 DEF InHand
    <3>2. ScheduleOK(q)
      BY ScheduleIs
    <3> QED BY <1>5, <1>6, <2>1, <3>1, <3>2, ScheduleStays
  <2>2. CASE q = s
    <3>1. DOMAIN invoices'[s] = {} /\ run'[s] = run[s] /\ \A d \in DOMAIN run[s] : run[s][d] \in {"CREATED", "FINALIZED", "FAILED"}
      BY <1>5, ScheduleIs DEF ScheduleOK
    <3>2. DateOf(s, 0)' = first
      BY <1>3, <1>4, <1>6, NthFirst DEF DateOf
    <3>3. MadeUpTo(s, 0)'
      <4>1. 0..(0 - 1) = {}
        OBVIOUS
      <4> QED BY <4>1 DEF MadeUpTo
    <3>4. Untouched(s, 0)'
      BY <3>1 DEF Untouched
    <3> QED BY <1>4, <1>6, <2>2, <3>1, <3>2, <3>3, <3>4 DEF ScheduleOK, Live
  <2> QED BY <2>1, <2>2
<1> QED BY <1>5, <1>6, <1>8, <1>9, UsersPass

\* Pausing and resuming keep the invariant.
LEMMA SetActivePasses ==
    ASSUME RecurringInv, NEW s \in Schedules, NEW on \in BOOLEAN, SetActive(s, on)
    PROVE  RecurringInv'
<1>1. PICK x : x = [schedule[s] EXCEPT !.active = on]
  OBVIOUS
<1>2. schedule[s] \in ScheduleRows
  BY ScheduleIs
<1>3. /\ x \in ScheduleRows /\ x.active = on /\ x.state = schedule[s].state /\ x.rhythm = schedule[s].rhythm
      /\ x.anchor = schedule[s].anchor /\ x.next = schedule[s].next /\ x.end = schedule[s].end
      /\ x.finalize = schedule[s].finalize /\ x.done = schedule[s].done
  BY <1>1, <1>2 DEF ScheduleRows
<1>4. /\ schedule[s].state = "live" /\ schedule' = [schedule EXCEPT ![s] = x] /\ wish' = [wish EXCEPT ![s] = on]
      /\ late' = IF InHand(s) THEN late \cup {s} ELSE late \ {s}
      /\ UNCHANGED <<day, run, invoices, worker, doubled, cut, cuts>>
  BY <1>1 DEF SetActive
<1>5. /\ schedule'[s] = x /\ wish'[s] = on
      /\ \A q \in Schedules : q # s => /\ schedule'[q] = schedule[q] /\ wish'[q] = wish[q]
                                       /\ q \in late' <=> q \in late
      /\ RecurringTyped'
  BY <1>4 DEF RecurringInv, RecurringTyped
<1>6. ASSUME NEW q \in Schedules, InHand(q) PROVE Smooth(q)
  <2>1. CASE q # s
    BY <1>4, <1>5, <2>1, SmoothSame
  <2>2. CASE q = s
    <3>1. q \in late'
      BY <1>4, <1>6, <2>2
    <3> QED BY <1>3, <1>4, <1>5, <2>2, <3>1 DEF Smooth
  <2> QED BY <2>1, <2>2
<1>7. ASSUME NEW q \in Schedules PROVE ScheduleOK(q)'
  <2>0. (InHand(q)' <=> InHand(q)) /\ ScheduleOK(q)
    BY <1>4, ScheduleIs DEF InHand
  <2>1. CASE q # s
    BY <1>4, <1>5, <2>0, <2>1, ScheduleStays
  <2>2. CASE q = s
    <3>1. \A k : DateOf(s, k)' = DateOf(s, k)
      BY <1>3, <1>5 DEF DateOf
    <3>2. MadeUpTo(s, x.done)'
      <4>1. MadeUpTo(s, x.done)
        BY <1>3, <1>4, <2>0, <2>2 DEF ScheduleOK, Live
      <4> QED BY <1>4, <3>1, <4>1 DEF MadeUpTo
    <3>3. s \notin doubled' /\ ~InHand(s)' => Untouched(s, x.done)'
      <4>1. s \notin doubled /\ ~InHand(s) => Untouched(s, x.done)
        BY <1>3, <1>4, <2>0, <2>2 DEF ScheduleOK, Live
      <4> QED BY <1>4, <2>0, <2>2, <3>1, <4>1 DEF Untouched
    <3>4. x.active => wish'[s] \/ s \in late'
      BY <1>3, <1>5
    <3>5. x.rhythm \in Rhythms /\ x.next = DateOf(s, x.done)'
      BY <1>3, <1>4, <2>0, <2>2, <3>1 DEF ScheduleOK
    <3>6. /\ \A d \in DOMAIN run'[s] : run'[s][d] \in {"CREATED", "FINALIZED", "FAILED"}
          /\ \A d \in DOMAIN invoices'[s] :
                /\ invoices'[s][d] \in Nat \ {0}
                /\ invoices'[s][d] = 1 \/ <<s, d>> \in cut' \/ s \in doubled'
                /\ WithinEnd(d, x.end)
                /\ x.rhythm[1] # "WEEKLY" => \/ d[2] = x.anchor[2]
                                             \/ d[2] < x.anchor[2] /\ d[2] = MonthLength(d[1])
      BY <1>3, <1>4, <2>0, <2>2 DEF ScheduleOK
    <3>7. schedule'[s] = x /\ x \in ScheduleRows /\ x.state = "live"
      BY <1>3, <1>4, <1>5
    <3> QED BY <2>2, <3>2, <3>3, <3>4, <3>5, <3>6, <3>7 DEF ScheduleOK, Live
  <2> QED BY <2>1, <2>2
<1> QED BY <1>4, <1>5, <1>6, <1>7, UsersPass

\* Deleting a schedule keeps the invariant.
LEMMA DeletePasses ==
    ASSUME RecurringInv, NEW s \in Schedules, Delete(s)
    PROVE  RecurringInv'
<1>1. PICK x : x = [schedule[s] EXCEPT !.state = "gone"]
  OBVIOUS
<1>2. schedule[s] \in ScheduleRows /\ ScheduleOK(s)
  BY ScheduleIs
<1>3. /\ x \in ScheduleRows /\ x.active = schedule[s].active /\ x.state = "gone" /\ x.rhythm = schedule[s].rhythm
      /\ x.anchor = schedule[s].anchor /\ x.next = schedule[s].next /\ x.end = schedule[s].end
      /\ x.finalize = schedule[s].finalize /\ x.done = schedule[s].done
  BY <1>1, <1>2 DEF ScheduleRows
<1>4. /\ schedule[s].state = "live" /\ schedule' = [schedule EXCEPT ![s] = x]
      /\ run' = [run EXCEPT ![s] = << >>]
      /\ UNCHANGED <<day, invoices, worker, wish, late, doubled, cut, cuts, toggles>>
  BY <1>1 DEF Delete
<1>5. /\ schedule'[s] = x /\ run'[s] = << >>
      /\ \A q \in Schedules : q # s => schedule'[q] = schedule[q] /\ run'[q] = run[q]
      /\ RecurringTyped'
  BY <1>4 DEF RecurringInv, RecurringTyped
<1>6. ASSUME NEW q \in Schedules, InHand(q) PROVE Smooth(q)
  <2>1. CASE q # s
    BY <1>4, <1>5, <2>1, SmoothSame
  <2>2. CASE q = s
    BY <1>3, <1>4, <1>5, <2>2 DEF Smooth
  <2> QED BY <2>1, <2>2
<1>7. ASSUME NEW q \in Schedules PROVE ScheduleOK(q)'
  <2>0. (InHand(q)' <=> InHand(q)) /\ ScheduleOK(q)
    BY <1>4, ScheduleIs DEF InHand
  <2>1. CASE q # s
    BY <1>4, <1>5, <2>0, <2>1, ScheduleStays
  <2>2. CASE q = s
    <3>1. \A k : DateOf(s, k)' = DateOf(s, k)
      BY <1>3, <1>5 DEF DateOf
    <3>2. x.rhythm \in Rhythms /\ x.next = DateOf(s, x.done)'
      BY <1>2, <1>3, <1>4, <3>1 DEF ScheduleOK
    <3>3. DOMAIN run'[s] = {}
      BY <1>5
    <3>4. \A d \in DOMAIN invoices'[s] :
                /\ invoices'[s][d] \in Nat \ {0}
                /\ invoices'[s][d] = 1 \/ <<s, d>> \in cut' \/ s \in doubled'
                /\ WithinEnd(d, x.end)
                /\ x.rhythm[1] # "WEEKLY" => \/ d[2] = x.anchor[2]
                                             \/ d[2] < x.anchor[2] /\ d[2] = MonthLength(d[1])
      BY <1>2, <1>3, <1>4 DEF ScheduleOK
    <3> QED BY <1>3, <1>5, <2>2, <3>2, <3>3, <3>4 DEF ScheduleOK, Live
  <2> QED BY <2>1, <2>2
<1> QED BY <1>4, <1>5, <1>6, <1>7, UsersPass

\* The next day keeps the invariant.
LEMMA TickPasses ==
    ASSUME RecurringInv, Tick
    PROVE  RecurringInv'
<1>1. UNCHANGED <<schedule, run, invoices, worker, wish, late, doubled, cut, cuts, toggles>> /\ day' \in DOMAIN Calendar
  <2>1. DOMAIN Calendar = 1..Len(Calendar) /\ Len(Calendar) \in Nat
    BY RecurringAssumption, LenProperties
  <2> QED BY <2>1 DEF Tick, RecurringInv, RecurringTyped
<1>2. RecurringTyped'
  BY <1>1 DEF RecurringInv, RecurringTyped
<1>3. \A q \in Schedules : InHand(q) => Smooth(q)
  BY <1>1, SmoothSame
<1>4. ASSUME NEW q \in Schedules PROVE ScheduleOK(q)'
  <2>1. ScheduleOK(q) /\ (InHand(q) => InHand(q)')
    BY <1>1, ScheduleIs DEF InHand
  <2> QED BY <1>1, <2>1, ScheduleStays
<1> QED BY <1>1, <1>2, <1>3, <1>4, UsersPass

\* A schedule is in hand when some worker holds it.
LEMMA InHandIs ==
    ASSUME NEW q
    PROVE  InHand(q) <=> \E w \in RecurringWorkers : HasInHand(worker[w], q)
BY DEF InHand, HasInHand

\* A step of one worker keeps the invariant if its new state and the schedules are
\* in order and what the others hold is not taken back.
LEMMA WorkerPasses ==
    ASSUME RecurringInv, NEW w \in RecurringWorkers, NEW x, worker' = [worker EXCEPT ![w] = x], WorkerOK(x)',
           RecurringTyped', doubled \subseteq doubled',
           \A v \in RecurringWorkers \ {w} : \A i \in DOMAIN worker[v].rows : Smooth(worker[v].rows[i].id),
           \A q \in Schedules \ doubled' : HasInHand(x, q) => HasInHand(worker[w], q) \/ ~InHand(q),
           \A q \in Schedules : ScheduleOK(q)'
    PROVE  RecurringInv'
<1>1. worker'[w] = x /\ \A v \in RecurringWorkers \ {w} : worker'[v] = worker[v]
  BY DEF RecurringInv, RecurringTyped
<1>2. ASSUME NEW v \in RecurringWorkers PROVE WorkerOK(worker[v])'
  <2>1. CASE v = w
    <3>1. worker'[v] = x
      BY <1>1, <2>1
    <3> QED BY <3>1
  <2>2. CASE v # w
    <3>1. PICK y : y = worker[v]
      OBVIOUS
    <3>2. WorkerOK(y) /\ \A i \in DOMAIN y.rows : Smooth(y.rows[i].id)
      BY <2>2, <3>1 DEF RecurringInv
    <3>3. WorkerOK(y)'
      BY <3>2, WorkerStays
    <3>4. worker'[v] = y
      BY <1>1, <2>2, <3>1
    <3> QED BY <3>3, <3>4
  <2> QED BY <2>1, <2>2
<1>3. ASSUME NEW u \in RecurringWorkers, NEW v \in RecurringWorkers, NEW s \in Schedules \ doubled', HasInHand(worker'[u], s), HasInHand(worker'[v], s)
      PROVE  u = v
  <2>1. s \in Schedules \ doubled
    OBVIOUS
  <2>2. \A z \in RecurringWorkers : HasInHand(worker'[z], s) => HasInHand(worker[z], s) \/ (z = w /\ ~InHand(s))
    BY <1>1
  <2>3. \A z \in RecurringWorkers : HasInHand(worker[z], s) => InHand(s)
    BY InHandIs
  <2>4. \A y, z \in RecurringWorkers : HasInHand(worker[y], s) /\ HasInHand(worker[z], s) => y = z
    BY <2>1 DEF RecurringInv
  <2> QED BY <1>3, <2>2, <2>3, <2>4
<1> QED BY <1>2, <1>3 DEF RecurringInv

\* Others have the schedule in hand only when it was doubled.
LEMMA OthersSmooth ==
    ASSUME RecurringInv, NEW w \in RecurringWorkers, NEW s, HasInHand(worker[w], s),
           \A q \in Schedules : q # s \/ q \in doubled => Smooth(q)
    PROVE  \A v \in RecurringWorkers \ {w} : \A i \in DOMAIN worker[v].rows : Smooth(worker[v].rows[i].id)
<1> SUFFICES ASSUME NEW v \in RecurringWorkers \ {w}, NEW i \in DOMAIN worker[v].rows PROVE Smooth(worker[v].rows[i].id)
  OBVIOUS
<1>1. PICK q : q = worker[v].rows[i].id
  OBVIOUS
<1>2. q \in Schedules
  BY <1>1, WorkersFine DEF LoadedRows
<1>3. HasInHand(worker[v], q)
  BY <1>1 DEF HasInHand
<1>4. q # s \/ q \in doubled
  BY <1>2, <1>3 DEF RecurringInv
<1> QED BY <1>1, <1>2, <1>4

\* A schedule that is let go of stays in order if nothing from its next period on
\* has an invoice.
LEMMA ScheduleDropped ==
    ASSUME NEW q, ScheduleOK(q), schedule'[q] = schedule[q], run'[q] = run[q], invoices'[q] = invoices[q],
           wish'[q] \/ q \in late' \/ ~(wish[q] \/ q \in late), cut \subseteq cut', doubled \subseteq doubled',
           Live(q) /\ q \notin doubled' => Untouched(q, schedule[q].done)'
    PROVE  ScheduleOK(q)'
<1>1. \A k : DateOf(q, k)' = DateOf(q, k)
  BY DEF DateOf
<1>2. ASSUME Live(q)
      PROVE  /\ MadeUpTo(q, schedule[q].done)'
             /\ schedule'[q].active => wish'[q] \/ q \in late'
             /\ q \notin doubled' => Untouched(q, schedule[q].done)'
  <2>1. /\ MadeUpTo(q, schedule[q].done)
        /\ schedule[q].active => wish[q] \/ q \in late
    BY <1>2 DEF ScheduleOK
  <2>2. MadeUpTo(q, schedule[q].done)'
    BY <1>1, <2>1 DEF MadeUpTo
  <2> QED BY <1>2, <2>1, <2>2
<1> QED BY <1>1, <1>2 DEF ScheduleOK, Live

\* More invoices take nothing from what has been made.
LEMMA MadeGrows ==
    ASSUME NEW q, NEW n, MadeUpTo(q, n), \A k : DateOf(q, k)' = DateOf(q, k),
           DOMAIN invoices[q] \subseteq DOMAIN invoices'[q], run'[q] = run[q], doubled \subseteq doubled'
    PROVE  MadeUpTo(q, n)'
BY DEF MadeUpTo

\* The rows behind the current one.
LEMMA RestStays ==
    ASSUME NEW y, WorkerOK(y), NEW s, 1 \in DOMAIN y.rows, s = y.rows[1].id,
           \A q \in Schedules : q # s => Smooth(q)
    PROVE  \A i \in DOMAIN y.rows : i # 1 => y.rows[i].id # s /\ y.rows[i] \in LoadedRows /\ RowOK(y.rows[i], 0, 0)'
<1> SUFFICES ASSUME NEW i \in DOMAIN y.rows, i # 1
             PROVE  y.rows[i].id # s /\ y.rows[i] \in LoadedRows /\ RowOK(y.rows[i], 0, 0)'
  OBVIOUS
<1>1. PICK r, rows : rows = y.rows /\ r = rows[i] /\ i \in DOMAIN rows
  OBVIOUS
<1>2. RowOK(r, 0, 0) /\ r.id # s /\ rows \in Seq(LoadedRows)
  BY <1>1 DEF WorkerOK, WorkerStates
<1>3. r \in LoadedRows
  BY <1>1, <1>2, ElementOfSeq, LenProperties
<1>4. r.id \in Schedules
  BY <1>3 DEF LoadedRows
<1>5. RowOK(r, 0, 0)'
  BY <1>2, <1>4, RowStays
<1> QED BY <1>1, <1>2, <1>3, <1>5

\* What is at hand when a worker is not idle.
LEMMA CurrentIs ==
    ASSUME RecurringInv, NEW w \in RecurringWorkers, worker[w].at # "idle"
    PROVE  /\ worker[w] \in WorkerStates /\ worker[w].rows \in Seq(LoadedRows) /\ worker[w].rows # <<>>
           /\ 1 \in DOMAIN worker[w].rows /\ Current(w) \in LoadedRows /\ Current(w).id \in Schedules
           /\ HasInHand(worker[w], Current(w).id) /\ InHand(Current(w).id)
           /\ RowOK(Current(w), IF worker[w].at = "convert" THEN 0 ELSE 1, IF worker[w].at = "advance" THEN 1 ELSE 0)
           /\ WorkerOK(worker[w])
<1>1. PICK y : y = worker[w]
  OBVIOUS
<1>2. WorkerOK(y) /\ y \in WorkerStates /\ y.rows # <<>> /\ y.rows \in Seq(LoadedRows)
  BY <1>1 DEF RecurringInv, WorkerOK, WorkerStates
<1>3. PICK rows : rows = y.rows
  OBVIOUS
<1>4. DOMAIN rows = 1..Len(rows) /\ Len(rows) \in Nat /\ Len(rows) # 0
  BY <1>2, <1>3, LenProperties, EmptySeq
<1>5. 1 \in DOMAIN rows
  BY <1>4
<1>6. rows[1] \in LoadedRows
  BY <1>2, <1>3, <1>4, ElementOfSeq
<1>7. rows[1].id \in Schedules
  BY <1>6 DEF LoadedRows
<1>8. HasInHand(y, rows[1].id)
  BY <1>3, <1>5 DEF HasInHand
<1>9. RowOK(rows[1], IF y.at = "convert" THEN 0 ELSE 1, IF y.at = "advance" THEN 1 ELSE 0)
  BY <1>2, <1>3, <1>5 DEF WorkerOK
<1>10. InHand(rows[1].id)
  BY <1>1, <1>8, InHandIs
<1> QED BY <1>1, <1>2, <1>3, <1>5, <1>6, <1>7, <1>8, <1>9, <1>10 DEF Current

\* A worker with nothing in hand is in order.
LEMMA IdleOK == WorkerOK(Idle)'
<1>1. Idle \in WorkerStates /\ Idle.rows = <<>> /\ Idle.at = "idle" /\ Idle.ok = TRUE /\ DOMAIN <<>> = {}
  BY DEF Idle, WorkerStates
<1> QED BY <1>1 DEF WorkerOK

\* A worker that drops everything keeps the invariant: what it was half through
\* with is excused.
LEMMA DropsAll ==
    ASSUME RecurringInv, NEW w \in RecurringWorkers, worker[w].at # "idle", worker' = [worker EXCEPT ![w] = Idle],
           UNCHANGED <<day, schedule, run, invoices, wish, late, doubled>>, cut \subseteq cut',
           worker[w].at = "convert" \/ ~Live(Current(w).id) \/ <<Current(w).id, Current(w).next>> \in cut'
    PROVE  RecurringInv'
<1>1. \A q \in Schedules : Smooth(q)
  BY SmoothSame
<1>2. \A v \in RecurringWorkers \ {w} : \A i \in DOMAIN worker[v].rows : Smooth(worker[v].rows[i].id)
  <2> SUFFICES ASSUME NEW v \in RecurringWorkers \ {w}, NEW i \in DOMAIN worker[v].rows PROVE Smooth(worker[v].rows[i].id)
    OBVIOUS
  <2>1. worker[v].rows[i].id \in Schedules
    BY WorkersFine DEF LoadedRows
  <2> QED BY <1>1, <2>1
<1>3. ASSUME NEW q \in Schedules PROVE ScheduleOK(q)'
  <2>1. CASE ~HasInHand(worker[w], q)
    <3>1. InHand(q) => InHand(q)'
      <4> SUFFICES ASSUME NEW v \in RecurringWorkers, NEW i \in DOMAIN worker[v].rows, worker[v].rows[i].id = q PROVE InHand(q)'
        BY DEF InHand
      <4>1. v # w
        BY <2>1 DEF HasInHand
      <4>2. worker'[v] = worker[v]
        BY <4>1 DEF RecurringInv, RecurringTyped
      <4> QED BY <4>2 DEF InHand
    <3> QED BY <3>1, ScheduleIs, ScheduleStays
  <2>2. CASE HasInHand(worker[w], q)
    <3>1. PICK i \in DOMAIN worker[w].rows : worker[w].rows[i].id = q
      BY <2>2 DEF HasInHand
    <3>2. ASSUME Live(q), q \notin doubled' PROVE Untouched(q, schedule[q].done)'
      <4>1. \A k : DateOf(q, k)' = DateOf(q, k)
        BY DEF DateOf
      <4>2. PICK r, p : /\ r = worker[w].rows[i] /\ p = (IF i = 1 /\ worker[w].at # "convert" THEN 1 ELSE 0)
                        /\ r \in LoadedRows
        BY <3>1, WorkersFine
      <4>3. PICK t : RowOK(r, p, t)
        <5>1. WorkerOK(worker[w])
          BY CurrentIs
        <5> QED BY <3>1, <4>2, <5>1 DEF WorkerOK
      <4>4. /\ Untouched(q, r.done + p) /\ r.done = schedule[q].done /\ r.done \in Nat
            /\ r.next = DateOf(q, r.done) /\ r.id = q
        BY <3>1, <3>2, <4>2, <4>3 DEF RowOK, LoadedRows, DateOf
      <4>5. Untouched(q, r.done + p)'
        BY <4>1, <4>4 DEF Untouched
      <4>6. CASE p = 0
        BY <4>4, <4>5, <4>6
      <4>7. CASE p # 0
        <5>1. i = 1 /\ p = 1 /\ worker[w].at # "convert" /\ Current(w) = r
          BY <4>2, <4>7 DEF Current
        <5>2. <<q, DateOf(q, r.done)>> \in cut'
          BY <3>2, <4>4, <5>1
        <5>3. Untouched(q, r.done)'
          <6>1. PICK n \in Nat : n = r.done
            BY <4>4
          <6>2. Untouched(q, n + 1)' /\ <<q, DateOf(q, n)'>> \in cut'
            BY <4>1, <4>5, <5>1, <5>2, <6>1
          <6>3. Untouched(q, n)'
            <7> SUFFICES ASSUME NEW k \in Nat, k >= n, DateOf(q, k)' \in DOMAIN invoices'[q]
                         PROVE  <<q, DateOf(q, k)'>> \in cut'
              BY DEF Untouched
            <7>1. k = n \/ k >= n + 1
              OBVIOUS
            <7> QED BY <6>2, <7>1 DEF Untouched
          <6> QED BY <6>1, <6>3
        <5> QED BY <4>4, <5>3
      <4> QED BY <4>6, <4>7
    <3> QED BY <3>2, ScheduleIs, ScheduleDropped
  <2> QED BY <2>1, <2>2
<1>4. RecurringTyped'
  BY DEF RecurringInv, RecurringTyped
<1>5. \A q : ~HasInHand(Idle, q)
  BY DEF HasInHand, Idle
<1> QED
  <2>1. PICK x : x = Idle
    OBVIOUS
  <2>2. WorkerOK(x)'
    BY <2>1, IdleOK
  <2>3. doubled \subseteq doubled' /\ worker' = [worker EXCEPT ![w] = x] /\ \A q : ~HasInHand(x, q)
    BY <1>5, <2>1
  <2> QED BY <1>2, <1>3, <1>4, <2>2, <2>3, WorkerPasses

\* A worker that is idle has nothing in hand.
LEMMA IdleIs ==
    ASSUME RecurringInv, NEW w \in RecurringWorkers
    PROVE  worker[w].at = "idle" <=> worker[w] = Idle
<1>1. worker[w] \in WorkerStates /\ (worker[w].at = "idle" <=> worker[w].rows = <<>>) /\ (worker[w].at # "record" => worker[w].ok)
  BY DEF RecurringInv, WorkerOK
<1>2. ASSUME worker[w].at = "idle" PROVE worker[w] = Idle
  <2>1. worker[w].rows = <<>> /\ worker[w].ok = TRUE
    BY <1>1, <1>2 DEF WorkerStates
  <2> QED BY <1>1, <1>2, <2>1 DEF WorkerStates, Idle
<1> QED BY <1>2 DEF Idle

\* A crash keeps the invariant.
LEMMA CutShortPasses ==
    ASSUME RecurringInv, NEW w \in RecurringWorkers, CutShort(w)
    PROVE  RecurringInv'
<1>1. worker[w].at # "idle"
  BY IdleIs DEF CutShort
<1>2. /\ worker' = [worker EXCEPT ![w] = Idle] /\ UNCHANGED <<day, schedule, run, invoices, wish, late, doubled>>
      /\ cut \subseteq cut' /\ (worker[w].at = "convert" \/ <<Current(w).id, Current(w).next>> \in cut')
  BY DEF CutShort, At, Excuse
<1> QED BY <1>1, <1>2, DropsAll

\* A run of a schedule deleted meanwhile keeps the invariant.
LEMMA RecordOrphanPasses ==
    ASSUME RecurringInv, NEW w \in RecurringWorkers, RecordOrphan(w)
    PROVE  RecurringInv'
<1>1. /\ worker[w].at # "idle" /\ worker' = [worker EXCEPT ![w] = Idle]
      /\ UNCHANGED <<day, schedule, run, invoices, wish, late, doubled>> /\ cut \subseteq cut'
  BY DEF RecordOrphan, At
<1>2. ~Live(Current(w).id)
  BY DEF RecordOrphan, Live
<1> QED BY <1>1, <1>2, DropsAll

\* What a worker keeps in hand stays in hand.
LEMMA InHandStays ==
    ASSUME RecurringInv, NEW w \in RecurringWorkers, NEW x, worker' = [worker EXCEPT ![w] = x], NEW q,
           HasInHand(worker[w], q) => HasInHand(x, q)
    PROVE  InHand(q) => InHand(q)'
<1>1. worker'[w] = x /\ \A v \in RecurringWorkers \ {w} : worker'[v] = worker[v]
  BY DEF RecurringInv, RecurringTyped
<1>2. ASSUME NEW v \in RecurringWorkers, HasInHand(worker[v], q) PROVE \E u \in RecurringWorkers : HasInHand(worker'[u], q)
  BY <1>1, <1>2
<1>3. InHand(q)' <=> \E u \in RecurringWorkers : HasInHand(worker'[u], q)
  BY DEF InHand, HasInHand
<1> QED BY <1>2, <1>3, InHandIs

\* The row in hand is carried a step on.
LEMMA SameRows ==
    ASSUME RecurringInv, NEW w \in RecurringWorkers, worker[w].at # "idle",
           NEW a \in {"finalize", "record", "advance"}, NEW b \in BOOLEAN,
           worker' = [worker EXCEPT ![w] = [at |-> a, rows |-> worker[w].rows, ok |-> b]],
           NEW r, r = Current(w), NEW s, s = r.id, RecurringTyped', doubled' = doubled, cut \subseteq cut',
           RowOK(r, 1, IF a = "advance" THEN 1 ELSE 0)', a = "record" \/ b,
           IF b THEN r.next \in DOMAIN invoices'[s] ELSE <<s, r.next>> \in cut',
           Smooth(s) \/ s \notin doubled, ScheduleOK(s)',
           \A q \in Schedules \ {s} : /\ schedule'[q] = schedule[q] /\ run'[q] = run[q] /\ invoices'[q] = invoices[q]
                                      /\ wish'[q] = wish[q] /\ (q \in late' <=> q \in late)
    PROVE  RecurringInv'
<1>1. PICK y, rows, x : y = worker[w] /\ rows = y.rows /\ x = [at |-> a, rows |-> rows, ok |-> b]
  OBVIOUS
<1>2. /\ y \in WorkerStates /\ rows \in Seq(LoadedRows) /\ rows # <<>> /\ 1 \in DOMAIN rows /\ WorkerOK(y)
      /\ r = rows[1] /\ r.id = s /\ HasInHand(y, s)
  BY <1>1, CurrentIs DEF Current
<1>3. x.at = a /\ x.rows = rows /\ x.ok = b /\ x \in WorkerStates
  BY <1>1, <1>2 DEF WorkerStates
<1>4. \A q \in Schedules : q # s \/ q \in doubled => Smooth(q)
  <2> SUFFICES ASSUME NEW q \in Schedules, q # s \/ q \in doubled PROVE Smooth(q)
    OBVIOUS
  <2>1. CASE q = s
    BY <2>1
  <2>2. CASE q # s
    BY <2>2, SmoothSame
  <2> QED BY <2>1, <2>2
<1>5. \A i \in DOMAIN rows : i # 1 => RowOK(rows[i], 0, 0)'
  <2>1. WorkerOK(y) /\ 1 \in DOMAIN y.rows /\ s = y.rows[1].id /\ \A q \in Schedules : q # s => Smooth(q)
    BY <1>1, <1>2, <1>4
  <2>2. \A i \in DOMAIN y.rows : i # 1 => RowOK(y.rows[i], 0, 0)'
    BY <2>1, RestStays
  <2> QED BY <1>1, <2>2
<1>6. \A i, j \in DOMAIN rows : rows[i].id = rows[j].id => i = j
  BY <1>1, <1>2 DEF WorkerOK
<1>7. RowOK(rows[1], 1, IF a = "advance" THEN 1 ELSE 0)'
  <2>1. PICK t : t = IF a = "advance" THEN 1 ELSE 0
    OBVIOUS
  <2>2. RowOK(r, 1, t)'
    BY <2>1
  <2> QED BY <1>2, <2>1, <2>2
<1>8. WorkerOK(x)'
  <2>1. PICK t : t = IF a = "advance" THEN 1 ELSE 0
    OBVIOUS
  <2>2. RowOK(rows[1], 1, t)' /\ x.at # "convert" /\ x.at # "idle" /\ t = IF x.at = "advance" THEN 1 ELSE 0
    BY <1>3, <1>7, <2>1
  <2>3. \A i \in DOMAIN x.rows :
           IF i = 1 THEN RowOK(x.rows[1], IF x.at = "convert" THEN 0 ELSE 1, IF x.at = "advance" THEN 1 ELSE 0)'
                    ELSE RowOK(x.rows[i], 0, 0)'
    BY <1>3, <1>5, <2>2
  <2>4. LET u == x.rows[1] IN
           IF x.ok THEN u.next \in DOMAIN invoices'[u.id] ELSE <<u.id, u.next>> \in cut'
    BY <1>1, <1>2, <1>3
  <2>5. /\ x.at = "idle" <=> x.rows = <<>>
        /\ \A i, j \in DOMAIN x.rows : x.rows[i].id = x.rows[j].id => i = j
        /\ x.at # "record" => x.ok
    BY <1>2, <1>3, <1>6, <2>2
  <2> QED BY <1>3, <2>3, <2>4, <2>5 DEF WorkerOK
<1>9. \A q : HasInHand(x, q) <=> HasInHand(y, q)
  BY <1>1, <1>3 DEF HasInHand
<1>10. \A v \in RecurringWorkers \ {w} : \A i \in DOMAIN worker[v].rows : Smooth(worker[v].rows[i].id)
  BY <1>1, <1>2, <1>4, OthersSmooth
<1>11. worker' = [worker EXCEPT ![w] = x]
  BY <1>1
<1>12. ASSUME NEW q \in Schedules PROVE ScheduleOK(q)'
  <2>1. CASE q = s
    BY <2>1
  <2>2. CASE q # s
    <3>1. InHand(q) => InHand(q)'
      BY <1>1, <1>9, <1>11, InHandStays
    <3>2. ScheduleOK(q)
      BY ScheduleIs
    <3> QED BY <2>2, <3>1, <3>2, ScheduleStays
  <2> QED BY <2>1, <2>2
<1> QED BY <1>1, <1>8, <1>9, <1>10, <1>11, <1>12, WorkerPasses

\* Finalising an invoice keeps the invariant.
LEMMA FinalizePasses ==
    ASSUME RecurringInv, NEW w \in RecurringWorkers, Finalize(w)
    PROVE  RecurringInv'
<1>1. PICK b \in BOOLEAN :
         /\ worker' = [worker EXCEPT ![w] = [at |-> "record", rows |-> worker[w].rows, ok |-> b]]
         /\ cut \subseteq cut' /\ (b \/ <<Current(w).id, Current(w).next>> \in cut')
         /\ UNCHANGED <<day, schedule, run, invoices, wish, late, doubled, toggles>>
  <2>1. worker[w].at # "idle"
    BY DEF Finalize
  <2>2. worker[w].rows # <<>>
    BY <2>1, CurrentIs
  <2>3. CASE At(w, "record", worker[w].rows, TRUE) /\ UNCHANGED <<cut, cuts>>
    BY <2>2, <2>3 DEF Finalize, At
  <2>4. CASE At(w, "record", worker[w].rows, FALSE) /\ Excuse(w)
    BY <2>2, <2>4 DEF Finalize, At, Excuse
  <2> QED BY <2>3, <2>4 DEF Finalize
<1>2. PICK r, s : r = Current(w) /\ s = r.id
  OBVIOUS
<1>3. /\ worker[w].at = "finalize" /\ s \in Schedules /\ RowOK(r, 1, 0) /\ WorkerOK(worker[w])
      /\ worker[w].rows # <<>> /\ InHand(s)
  <2>1. worker[w].at = "finalize"
    BY DEF Finalize
  <2> QED BY <1>2, <2>1, CurrentIs
<1>4. Smooth(s)
  BY <1>1, SmoothSame
<1>5. RowOK(r, 1, 0)'
  BY <1>2, <1>3, <1>4, RowStays
<1>6. r.next \in DOMAIN invoices[s]
  BY <1>2, <1>3 DEF WorkerOK, Current
<1>7. ScheduleOK(s)'
  <2>1. PICK x : x = [at |-> "record", rows |-> worker[w].rows, ok |-> b]
    OBVIOUS
  <2>2. InHand(s) => InHand(s)'
    <3>1. HasInHand(worker[w], s) => HasInHand(x, s)
      BY <2>1 DEF HasInHand
    <3> QED BY <1>1, <2>1, <3>1, InHandStays
  <2> QED BY <1>1, <1>3, <2>2, ScheduleIs, ScheduleStays
<1>8. RecurringTyped'
  BY <1>1 DEF RecurringInv, RecurringTyped
<1>9. IF b THEN r.next \in DOMAIN invoices'[s] ELSE <<s, r.next>> \in cut'
  BY <1>1, <1>2, <1>6
<1> QED BY <1>1, <1>2, <1>3, <1>4, <1>5, <1>7, <1>8, <1>9, SameRows

\* What a conversion does to what is known of its schedule.
LEMMA InvoiceMade ==
    ASSUME NEW r \in LoadedRows, NEW s, s = r.id, RowOK(r, 0, 0), s \in Schedules, ScheduleOK(s),
           UNCHANGED <<schedule, run, wish, late, doubled>>, cut \subseteq cut',
           \/ invoices'[s] = Put(invoices[s], r.next, MadeFor(s, r.next) + 1)
           \/ invoices'[s] = invoices[s] /\ <<s, r.next>> \in cut',
           InHand(s)'
    PROVE  RowOK(r, 1, 0)' /\ ScheduleOK(s)'
<1>1. PICK d, n : d = r.next /\ n = r.done
  OBVIOUS
<1>2. \A k : DateOf(s, k)' = DateOf(s, k)
  BY DEF DateOf
<1>3. /\ n \in Nat /\ d = DateOf(s, n) /\ schedule[s].state # "none"
      /\ schedule[s].rhythm \in Rhythms /\ schedule[s].anchor \in Dates /\ r.end = schedule[s].end
      /\ WithinEnd(d, schedule[s].end) /\ r.id = s
  BY <1>1 DEF RowOK, LoadedRows, DateOf
<1>4. \A k \in Nat : k >= n + 1 => DateOf(s, k) # d
  BY <1>3, NthDates DEF DateOf
<1>5. DOMAIN invoices[s] \subseteq DOMAIN invoices'[s] /\ DOMAIN invoices'[s] \subseteq DOMAIN invoices[s] \cup {d}
  BY <1>1 DEF Put
<1>6. ASSUME s \notin doubled PROVE Untouched(s, n) /\ Untouched(s, n + 1)' /\ (Live(s) => n = schedule[s].done)
  <2>1. Untouched(s, n) /\ (Live(s) => n = schedule[s].done)
    <3>1. n + 0 = n
      BY <1>3
    <3> QED BY <1>1, <1>3, <1>6, <3>1 DEF RowOK
  <2>2. ASSUME NEW k \in Nat, k >= n + 1, DateOf(s, k) \in DOMAIN invoices'[s] PROVE <<s, DateOf(s, k)>> \in cut'
    <3>1. DateOf(s, k) \in DOMAIN invoices[s] /\ k >= n
      BY <1>3, <1>4, <1>5, <2>2
    <3> QED BY <2>1, <3>1 DEF Untouched
  <2>3. Untouched(s, n + 1)'
    BY <1>2, <2>2 DEF Untouched
  <2> QED BY <2>1, <2>3
<1>7. ASSUME Live(s) PROVE MadeUpTo(s, r.done + 0)' /\ MadeUpTo(s, schedule[s].done)' /\ (wish[s] \/ s \in late)
  <2>1. MadeUpTo(s, r.done + 0) /\ MadeUpTo(s, schedule[s].done) /\ (wish[s] \/ s \in late)
    BY <1>3, <1>7 DEF RowOK, ScheduleOK
  <2> QED BY <1>2, <1>5, <2>1, MadeGrows
<1>8. RowOK(r, 1, 0)'
  BY <1>1, <1>3, <1>6, <1>7 DEF RowOK, Live
<1>9. ASSUME NEW e \in DOMAIN invoices'[s]
      PROVE  /\ invoices'[s][e] \in Nat \ {0}
             /\ invoices'[s][e] = 1 \/ <<s, e>> \in cut' \/ s \in doubled
             /\ WithinEnd(e, schedule[s].end)
             /\ schedule[s].rhythm[1] # "WEEKLY" =>
                  \/ e[2] = schedule[s].anchor[2]
                  \/ e[2] < schedule[s].anchor[2] /\ e[2] = MonthLength(e[1])
  <2>1. CASE e \in DOMAIN invoices[s] /\ invoices'[s][e] = invoices[s][e]
    BY <2>1 DEF ScheduleOK
  <2>2. CASE e = d /\ invoices'[s][e] = MadeFor(s, d) + 1
    <3>1. WithinEnd(e, schedule[s].end)
      BY <1>3, <2>2
    <3>2. schedule[s].rhythm[1] # "WEEKLY" =>
                  \/ e[2] = schedule[s].anchor[2]
                  \/ e[2] < schedule[s].anchor[2] /\ e[2] = MonthLength(e[1])
      BY <1>3, <2>2, NthDay DEF DateOf
    <3>3. CASE d \in DOMAIN invoices[s]
      <4>1. MadeFor(s, d) \in Nat \ {0}
        BY <3>3 DEF MadeFor, ScheduleOK
      <4>2. MadeFor(s, d) + 1 \in Nat \ {0}
        BY <4>1
      <4>3. s \in doubled \/ <<s, d>> \in cut'
        BY <1>3, <1>6, <3>3 DEF Untouched
      <4> QED BY <2>2, <3>1, <3>2, <4>2, <4>3
    <3>4. CASE d \notin DOMAIN invoices[s]
      <4>1. MadeFor(s, d) + 1 = 1
        BY <3>4 DEF MadeFor
      <4> QED BY <2>2, <3>1, <3>2, <4>1
    <3> QED BY <3>3, <3>4
  <2> QED BY <1>1, <2>1, <2>2 DEF Put
<1>10. ScheduleOK(s)'
  <2>1. /\ schedule'[s] = schedule[s] /\ run'[s] = run[s] /\ schedule[s] \in ScheduleRows
        /\ schedule[s].next = DateOf(s, schedule[s].done)'
        /\ \A e \in DOMAIN run[s] : run[s][e] \in {"CREATED", "FINALIZED", "FAILED"}
    BY <1>2, <1>3 DEF ScheduleOK
  <2>2. Live(s)' <=> Live(s)
    BY DEF Live
  <2>3. Live(s) => MadeUpTo(s, schedule[s].done)' /\ (wish'[s] \/ s \in late')
    BY <1>7
  <2> QED BY <1>3, <1>9, <2>1, <2>2, <2>3 DEF ScheduleOK
<1> QED BY <1>8, <1>10

\* The rows behind the first.
LeftOf(rows) == Tail(rows)

\* They are the rows from the second on.
LEMMA TailRows ==
    ASSUME NEW S, NEW rows \in Seq(S), 1 \in DOMAIN rows, NEW rest, rest = LeftOf(rows)
    PROVE  /\ rest \in Seq(S)
           /\ \A i \in DOMAIN rest : i + 1 \in DOMAIN rows /\ i + 1 # 1 /\ rest[i] = rows[i + 1] /\ i \in Nat
           /\ \A i \in DOMAIN rows : i # 1 => i - 1 \in DOMAIN rest /\ rest[i - 1] = rows[i]
<1>1. DOMAIN rows = 1..Len(rows) /\ Len(rows) \in Nat /\ rows # <<>>
  BY LenProperties, EmptySeq
<1>2. rest \in Seq(S) /\ Len(rest) = Len(rows) - 1 /\ \A i \in 1..Len(rest) : rest[i] = rows[i + 1]
  BY <1>1, HeadTailProperties DEF LeftOf
<1>3. DOMAIN rest = 1..Len(rest) /\ Len(rest) \in Nat
  BY <1>2, LenProperties
<1>4. PICK n \in Nat, m \in Nat : n = Len(rows) /\ m = Len(rest) /\ m = n - 1
  BY <1>1, <1>2, <1>3
<1>5. \A i \in 1..m : i + 1 \in 1..n /\ i + 1 # 1 /\ i \in Nat
  BY <1>4
<1>6. \A i \in 1..n : i # 1 => i - 1 \in 1..m /\ (i - 1) + 1 = i
  BY <1>4
<1>7. \A i \in DOMAIN rows : i # 1 => i - 1 \in DOMAIN rest /\ rest[i - 1] = rows[i]
  BY <1>1, <1>2, <1>3, <1>4, <1>6
<1> QED BY <1>1, <1>2, <1>3, <1>4, <1>5, <1>7

\* The rows with another one in the place of the first.
LEMMA FirstReplaced ==
    ASSUME NEW S, NEW rows \in Seq(S), 1 \in DOMAIN rows, NEW r \in S, NEW again, again = <<r>> \o Tail(rows)
    PROVE  /\ again \in Seq(S) /\ DOMAIN again = DOMAIN rows /\ again[1] = r
           /\ \A i \in DOMAIN rows : i # 1 => again[i] = rows[i]
<1>1. DOMAIN rows = 1..Len(rows) /\ Len(rows) \in Nat /\ rows # <<>>
  BY LenProperties, EmptySeq
<1>2. PICK rest : rest = Tail(rows)
  OBVIOUS
<1>3. rest \in Seq(S) /\ Len(rest) = Len(rows) - 1 /\ \A i \in 1..Len(rest) : rest[i] = rows[i + 1]
  BY <1>1, <1>2, HeadTailProperties
<1>4. PICK one : one = <<r>> /\ one \in Seq(S) /\ Len(one) = 1 /\ one[1] = r
  <2>1. PICK one : one = <<r>>
    OBVIOUS
  <2>2. Len(<<r>>) = 1 /\ <<r>>[1] = r
    OBVIOUS
  <2>3. <<r>> \in Seq(S)
    OBVIOUS
  <2> QED BY <2>1, <2>2, <2>3
<1>5. again = one \o rest
  BY <1>2, <1>4
<1>6. /\ again \in Seq(S) /\ Len(again) = Len(one) + Len(rest)
      /\ \A i \in 1..(Len(one) + Len(rest)) : again[i] = IF i <= Len(one) THEN one[i] ELSE rest[i - Len(one)]
  BY <1>3, <1>4, <1>5, ConcatProperties
<1>7. PICK n \in Nat, m \in Nat : n = Len(rows) /\ m = Len(rest) /\ m = n - 1 /\ n >= 1
  <2>1. Len(rest) \in Nat /\ Len(rows) >= 1
    BY <1>1, <1>3, LenProperties
  <2> QED BY <1>1, <1>3, <2>1
<1>8. Len(again) = n /\ DOMAIN again = 1..n /\ \A i \in 1..n : again[i] = IF i <= 1 THEN one[i] ELSE rest[i - 1]
  <2>1. 1 + m = n
    BY <1>7
  <2> QED BY <1>4, <1>6, <1>7, <2>1, LenProperties
<1>9. ASSUME NEW i \in 1..n, i # 1 PROVE again[i] = rows[i]
  <2>1. i - 1 \in 1..m /\ (i - 1) + 1 = i /\ ~(i <= 1)
    BY <1>7, <1>9
  <2>2. again[i] = rest[i - 1] /\ rest[i - 1] = rows[(i - 1) + 1]
    BY <1>3, <1>7, <1>8, <2>1
  <2> QED BY <2>1, <2>2
<1>10. again[1] = r
  BY <1>4, <1>7, <1>8
<1> QED BY <1>1, <1>6, <1>7, <1>8, <1>9, <1>10

\* A worker goes on with the rows it has left.
LEMMA GoesOnWith ==
    ASSUME RecurringInv, NEW w \in RecurringWorkers, NEW rows \in Seq(LoadedRows),
           worker' = [worker EXCEPT ![w] = IF rows = <<>> THEN Idle ELSE [at |-> "convert", rows |-> rows, ok |-> TRUE]],
           NEW s, HasInHand(worker[w], s), RecurringTyped', doubled' = doubled, cut \subseteq cut',
           Smooth(s) \/ s \notin doubled, ScheduleOK(s)',
           \A q \in Schedules \ {s} : /\ schedule'[q] = schedule[q] /\ run'[q] = run[q] /\ invoices'[q] = invoices[q]
                                      /\ wish'[q] = wish[q] /\ (q \in late' <=> q \in late),
           \A i, j \in DOMAIN rows : rows[i].id = rows[j].id => i = j,
           \A i \in DOMAIN rows : RowOK(rows[i], 0, 0)' /\ HasInHand(worker[w], rows[i].id),
           \A q \in Schedules \ {s} : HasInHand(worker[w], q) => \E i \in DOMAIN rows : rows[i].id = q
    PROVE  RecurringInv'
<1>1. PICK x : x = IF rows = <<>> THEN Idle ELSE [at |-> "convert", rows |-> rows, ok |-> TRUE]
  OBVIOUS
<1>2. x.rows = rows /\ x \in WorkerStates /\ (x.at = "idle" <=> rows = <<>>) /\ x.at \in {"idle", "convert"} /\ x.ok
  BY <1>1 DEF Idle, WorkerStates
<1>3. WorkerOK(x)'
  <2>1. DOMAIN rows = 1..Len(rows) /\ Len(rows) \in Nat /\ (rows = <<>> <=> Len(rows) = 0)
    BY LenProperties, EmptySeq
  <2>2. \A i \in DOMAIN rows : x.at = "convert"
    BY <1>2, <2>1
  <2>3. \A i \in DOMAIN x.rows :
           IF i = 1 THEN RowOK(x.rows[1], IF x.at = "convert" THEN 0 ELSE 1, IF x.at = "advance" THEN 1 ELSE 0)'
                    ELSE RowOK(x.rows[i], 0, 0)'
    BY <1>2, <2>2
  <2> QED BY <1>2, <2>3 DEF WorkerOK
<1>4. \A q \in Schedules : q # s \/ q \in doubled => Smooth(q)
  <2> SUFFICES ASSUME NEW q \in Schedules, q # s \/ q \in doubled PROVE Smooth(q)
    OBVIOUS
  <2>1. CASE q = s
    BY <2>1
  <2>2. CASE q # s
    BY <2>2, SmoothSame
  <2> QED BY <2>1, <2>2
<1>5. \A v \in RecurringWorkers \ {w} : \A i \in DOMAIN worker[v].rows : Smooth(worker[v].rows[i].id)
  BY <1>4, OthersSmooth
<1>6. worker' = [worker EXCEPT ![w] = x]
  BY <1>1
<1>7. \A q : HasInHand(x, q) => HasInHand(worker[w], q)
  BY <1>2 DEF HasInHand
<1>8. \A q \in Schedules \ {s} : HasInHand(worker[w], q) => HasInHand(x, q)
  BY <1>2 DEF HasInHand
<1>9. ASSUME NEW q \in Schedules PROVE ScheduleOK(q)'
  <2>1. CASE q = s
    BY <2>1
  <2>2. CASE q # s
    <3>1. InHand(q) => InHand(q)'
      BY <1>6, <1>8, <2>2, InHandStays
    <3>2. ScheduleOK(q)
      BY ScheduleIs
    <3> QED BY <2>2, <3>1, <3>2, ScheduleStays
  <2> QED BY <2>1, <2>2
<1> QED BY <1>3, <1>5, <1>6, <1>7, <1>9, WorkerPasses

\* Converting the document, or failing to, keeps the invariant.
LEMMA ConvertPasses ==
    ASSUME RecurringInv, NEW w \in RecurringWorkers, Convert(w)
    PROVE  RecurringInv'
<1>1. PICK r, s : r = Current(w) /\ s = r.id
  OBVIOUS
<1>2. worker[w].at = "convert" /\ UNCHANGED <<day, schedule, run, wish, late, doubled, toggles>>
  BY DEF Convert
<1>3. /\ r \in LoadedRows /\ s \in Schedules /\ worker[w].rows # <<>> /\ RowOK(r, 0, 0) /\ HasInHand(worker[w], s)
      /\ ScheduleOK(s)
  BY <1>1, <1>2, CurrentIs, ScheduleIs
<1>4. PICK a \in {"finalize", "record"}, b \in BOOLEAN :
        /\ worker' = [worker EXCEPT ![w] = [at |-> a, rows |-> worker[w].rows, ok |-> b]]
        /\ cut \subseteq cut' /\ (b \/ <<s, r.next>> \in cut') /\ (a = "record" \/ b)
        /\ \/ invoices' = [invoices EXCEPT ![s] = Put(invoices[s], r.next, MadeFor(s, r.next) + 1)]
           \/ invoices' = invoices /\ <<s, r.next>> \in cut' /\ ~b
  <2>1. CASE /\ CountInvoice(w)
             /\ At(w, IF Current(w).finalize THEN "finalize" ELSE "record", worker[w].rows, TRUE)
             /\ UNCHANGED <<cut, cuts>>
    <3>1. PICK a \in {"finalize", "record"} : a = IF Current(w).finalize THEN "finalize" ELSE "record"
      OBVIOUS
    <3>2. worker' = [worker EXCEPT ![w] = [at |-> a, rows |-> worker[w].rows, ok |-> TRUE]]
      BY <1>3, <2>1, <3>1 DEF At
    <3>3. invoices' = [invoices EXCEPT ![s] = Put(invoices[s], r.next, MadeFor(s, r.next) + 1)]
      BY <1>1, <2>1 DEF CountInvoice
    <3> QED BY <2>1, <3>2, <3>3
  <2>2. CASE /\ CountInvoice(w) \/ UNCHANGED invoices
             /\ At(w, "record", worker[w].rows, FALSE) /\ Excuse(w)
    <3>1. worker' = [worker EXCEPT ![w] = [at |-> "record", rows |-> worker[w].rows, ok |-> FALSE]]
      BY <1>3, <2>2 DEF At
    <3>2. cut \subseteq cut' /\ <<s, r.next>> \in cut'
      BY <1>1, <2>2 DEF Excuse
    <3>3. \/ invoices' = [invoices EXCEPT ![s] = Put(invoices[s], r.next, MadeFor(s, r.next) + 1)]
          \/ invoices' = invoices
      BY <1>1, <2>2 DEF CountInvoice
    <3> QED BY <3>1, <3>2, <3>3
  <2> QED BY <2>1, <2>2 DEF Convert
<1>5. /\ \/ invoices'[s] = Put(invoices[s], r.next, MadeFor(s, r.next) + 1)
         \/ invoices'[s] = invoices[s] /\ <<s, r.next>> \in cut'
      /\ \A q \in Schedules \ {s} : invoices'[q] = invoices[q]
      /\ DOMAIN invoices[s] \subseteq DOMAIN invoices'[s]
      /\ b => r.next \in DOMAIN invoices'[s]
      /\ invoices' = [q \in Schedules |-> invoices'[q]]
  <2>1. invoices = [q \in Schedules |-> invoices[q]]
    BY DEF RecurringInv, RecurringTyped
  <2>2. CASE invoices' = [invoices EXCEPT ![s] = Put(invoices[s], r.next, MadeFor(s, r.next) + 1)]
    <3>1. invoices'[s] = Put(invoices[s], r.next, MadeFor(s, r.next) + 1)
      BY <1>3, <2>1, <2>2
    <3>2. DOMAIN invoices[s] \subseteq DOMAIN invoices'[s] /\ r.next \in DOMAIN invoices'[s]
      BY <3>1 DEF Put
    <3> QED BY <2>1, <2>2, <3>1, <3>2
  <2>3. CASE invoices' = invoices /\ <<s, r.next>> \in cut' /\ ~b
    BY <2>1, <2>3
  <2> QED BY <1>4, <2>2, <2>3
<1>6. InHand(s)'
  <2>1. PICK x : x = [at |-> a, rows |-> worker[w].rows, ok |-> b]
    OBVIOUS
  <2>2. HasInHand(worker[w], s) => HasInHand(x, s)
    BY <2>1 DEF HasInHand
  <2>3. InHand(s) => InHand(s)'
    BY <1>4, <2>1, <2>2, InHandStays
  <2> QED BY <1>3, <2>3, InHandIs
<1>7. RowOK(r, 1, 0)' /\ ScheduleOK(s)'
  BY <1>1, <1>2, <1>3, <1>4, <1>5, <1>6, InvoiceMade
<1>8. RecurringTyped'
  BY <1>2, <1>4, <1>5 DEF RecurringInv, RecurringTyped
<1>9. Smooth(s) \/ s \notin doubled
  BY <1>2, <1>4, <1>5 DEF Smooth
<1>10. worker[w].at # "idle" /\ a # "advance"
  BY <1>2
<1> QED BY <1>1, <1>2, <1>4, <1>5, <1>7, <1>8, <1>9, <1>10, SameRows

\* What is recorded of a schedule's run leaves the schedule in order.
LEMMA RunTold ==
    ASSUME NEW q \in Schedules, ScheduleOK(q), schedule'[q] = schedule[q], invoices'[q] = invoices[q],
           NEW d, NEW v \in {"CREATED", "FINALIZED", "FAILED"}, run'[q] = Put(run[q], d, v),
           wish'[q] \/ q \in late' \/ ~(wish[q] \/ q \in late), cut \subseteq cut', doubled \subseteq doubled',
           Live(q) => MadeUpTo(q, schedule[q].done)',
           q \notin doubled' /\ ~InHand(q)' => Untouched(q, schedule[q].done)'
    PROVE  ScheduleOK(q)'
<1>1. \A k : DateOf(q, k)' = DateOf(q, k)
  BY DEF DateOf
<1>2. \A e \in DOMAIN run'[q] : run'[q][e] \in {"CREATED", "FINALIZED", "FAILED"}
  BY DEF Put, ScheduleOK
<1>3. Live(q) => (schedule'[q].active => wish'[q] \/ q \in late')
  BY DEF ScheduleOK
<1> QED BY <1>1, <1>2, <1>3 DEF ScheduleOK, Live

\* Recording a run as made keeps the invariant.
LEMMA RecordMadePasses ==
    ASSUME RecurringInv, NEW w \in RecurringWorkers, Record(w), worker[w].ok
    PROVE  RecurringInv'
<1>1. PICK r, s, v : r = Current(w) /\ s = r.id /\ v = Status(w)
  OBVIOUS
<1>2. /\ worker[w].at = "record" /\ Live(s) /\ v \in {"CREATED", "FINALIZED"}
      /\ run' = [run EXCEPT ![s] = Put(run[s], r.next, v)]
      /\ UNCHANGED <<day, schedule, invoices, wish, late, doubled, cut, cuts, toggles>>
  BY <1>1 DEF Record, Status, Live
<1>3. /\ r \in LoadedRows /\ s \in Schedules /\ worker[w].rows # <<>> /\ RowOK(r, 1, 0) /\ HasInHand(worker[w], s)
      /\ ScheduleOK(s) /\ InHand(s) /\ WorkerOK(worker[w])
  BY <1>1, <1>2, CurrentIs, ScheduleIs
<1>4. worker' = [worker EXCEPT ![w] = [at |-> "advance", rows |-> worker[w].rows, ok |-> TRUE]]
  BY <1>3 DEF Record, At
<1>5. /\ run'[s] = Put(run[s], r.next, v) /\ \A q \in Schedules \ {s} : run'[q] = run[q]
      /\ run' = [q \in Schedules |-> run'[q]]
  <2>1. run = [q \in Schedules |-> run[q]]
    BY DEF RecurringInv, RecurringTyped
  <2> QED BY <1>2, <1>3, <2>1
<1>6. Smooth(s)
  <2>1. \A d \in DOMAIN run[s] : d \in DOMAIN run'[s] /\ (run'[s][d] # "FAILED" \/ run[s][d] = "FAILED")
    BY <1>2, <1>5 DEF Put
  <2> QED BY <1>2, <2>1 DEF Smooth
<1>7. RowOK(r, 1, 0)'
  BY <1>1, <1>3, <1>6, RowStays
<1>8. r.next \in DOMAIN invoices[s]
  BY <1>1, <1>2, <1>3 DEF WorkerOK, Current
<1>9. PICK n \in Nat : n = r.done /\ r.next = DateOf(s, n)
  BY <1>1, <1>3 DEF RowOK, LoadedRows, DateOf
<1>10. \A k : DateOf(s, k)' = DateOf(s, k)
  BY <1>2 DEF DateOf
<1>11. Live(s)'
  BY <1>2 DEF Live
<1>12. MadeUpTo(s, n + 1)'
  <2>1. MadeUpTo(s, n)'
    <3>1. n + 0 = n
      OBVIOUS
    <3> QED BY <1>1, <1>7, <1>9, <1>11, <3>1 DEF RowOK
  <2>2. r.next \in DOMAIN invoices'[s] /\ r.next \in DOMAIN run'[s] /\ run'[s][r.next] # "FAILED"
    BY <1>2, <1>5, <1>8 DEF Put
  <2>3. \A k \in 0..((n + 1) - 1) : k \in 0..(n - 1) \/ k = n
    OBVIOUS
  <2> QED BY <1>9, <1>10, <2>1, <2>2, <2>3 DEF MadeUpTo
<1>13. RowOK(r, 1, 1)'
  BY <1>1, <1>7, <1>9, <1>12 DEF RowOK
<1>14. InHand(s)'
  <2>1. PICK x : x = [at |-> "advance", rows |-> worker[w].rows, ok |-> TRUE]
    OBVIOUS
  <2>2. HasInHand(worker[w], s) => HasInHand(x, s)
    BY <2>1 DEF HasInHand
  <2>3. InHand(s) => InHand(s)'
    BY <1>4, <2>1, <2>2, InHandStays
  <2> QED BY <1>3, <2>3
<1>15. ScheduleOK(s)'
  <2>1. MadeUpTo(s, schedule[s].done)'
    <3>1. MadeUpTo(s, schedule[s].done)
      BY <1>2, <1>3 DEF ScheduleOK
    <3> QED BY <1>2, <1>6, <1>11, <3>1, MadeStays
  <2> QED BY <1>2, <1>3, <1>5, <1>14, <2>1, RunTold
<1>16. RecurringTyped'
  BY <1>2, <1>4, <1>5 DEF RecurringInv, RecurringTyped
<1>17. r.next \in DOMAIN invoices'[s] /\ worker[w].at # "idle"
  BY <1>2, <1>8
<1>18. PICK a \in {"finalize", "record", "advance"}, b \in BOOLEAN : a = "advance" /\ b = TRUE
  OBVIOUS
<1> QED BY <1>1, <1>2, <1>4, <1>5, <1>6, <1>13, <1>15, <1>16, <1>17, <1>18, SameRows

\* The rows that are left when the current one is done with.
RestFine(w, s, rest) ==
    /\ rest \in Seq(LoadedRows)
    /\ \A i, j \in DOMAIN rest : rest[i].id = rest[j].id => i = j
    /\ \A i \in DOMAIN rest : RowOK(rest[i], 0, 0)' /\ HasInHand(worker[w], rest[i].id) /\ rest[i].id # s
    /\ \A q \in Schedules \ {s} : HasInHand(worker[w], q) => \E i \in DOMAIN rest : rest[i].id = q

\* They are in order, and they are all that the worker holds besides the current
\* schedule.
LEMMA RestGoesOn ==
    ASSUME RecurringInv, NEW w \in RecurringWorkers, worker[w].at # "idle", NEW s, s = Current(w).id,
           NEW rest, rest = LeftOf(worker[w].rows),
           \A q \in Schedules : q # s => Smooth(q)
    PROVE  RestFine(w, s, rest)
<1>1. PICK y, rows : y = worker[w] /\ rows = y.rows
  OBVIOUS
<1>2. /\ rows \in Seq(LoadedRows) /\ 1 \in DOMAIN rows /\ WorkerOK(y) /\ rows[1].id = s
  BY <1>1, CurrentIs DEF Current
<1>3. /\ rest \in Seq(LoadedRows)
      /\ \A i \in DOMAIN rest : i + 1 \in DOMAIN rows /\ i + 1 # 1 /\ rest[i] = rows[i + 1] /\ i \in Nat
      /\ \A i \in DOMAIN rows : i # 1 => i - 1 \in DOMAIN rest /\ rest[i - 1] = rows[i]
  <2>1. rest = LeftOf(rows)
    BY <1>1
  <2>2. rows \in Seq(LoadedRows) /\ 1 \in DOMAIN rows
    BY <1>2
  <2> QED BY <2>1, <2>2, TailRows
<1>4. \A i \in DOMAIN rows : i # 1 => rows[i].id # s /\ RowOK(rows[i], 0, 0)'
  <2>1. 1 \in DOMAIN y.rows /\ s = y.rows[1].id
    BY <1>1, <1>2
  <2>2. \A i \in DOMAIN y.rows : i # 1 => y.rows[i].id # s /\ RowOK(y.rows[i], 0, 0)'
    BY <1>2, <2>1, RestStays
  <2> QED BY <1>1, <2>2
<1>5. \A i, j \in DOMAIN rows : rows[i].id = rows[j].id => i = j
  BY <1>1, <1>2 DEF WorkerOK
<1>6. ASSUME NEW i \in DOMAIN rest, NEW j \in DOMAIN rest, rest[i].id = rest[j].id PROVE i = j
  <2>1. i + 1 = j + 1 /\ i \in Nat /\ j \in Nat
    BY <1>3, <1>5, <1>6
  <2> QED BY <2>1
<1>7. ASSUME NEW i \in DOMAIN rest PROVE RowOK(rest[i], 0, 0)' /\ HasInHand(worker[w], rest[i].id) /\ rest[i].id # s
  <2>1. PICK j \in DOMAIN rows : j # 1 /\ rest[i] = rows[j]
    BY <1>3
  <2>2. PICK u : u = rest[i] /\ u = rows[j]
    BY <2>1
  <2>3. RowOK(u, 0, 0)' /\ u.id # s
    BY <1>4, <2>1, <2>2
  <2>4. HasInHand(worker[w], u.id)
    BY <1>1, <2>2 DEF HasInHand
  <2> QED BY <2>2, <2>3, <2>4
<1>8. ASSUME NEW q \in Schedules \ {s}, HasInHand(worker[w], q) PROVE \E i \in DOMAIN rest : rest[i].id = q
  <2>1. PICK j \in DOMAIN rows : rows[j].id = q
    BY <1>1, <1>8 DEF HasInHand
  <2>2. j # 1
    BY <1>2, <2>1
  <2> QED BY <1>3, <2>1, <2>2
<1> QED BY <1>3, <1>6, <1>7, <1>8 DEF RestFine

\* Recording a run as failed keeps the invariant: the row is left behind and its
\* period excused.
LEMMA RecordFailedPasses ==
    ASSUME RecurringInv, NEW w \in RecurringWorkers, Record(w), ~worker[w].ok
    PROVE  RecurringInv'
<1>1. PICK r, s, rest : r = Current(w) /\ s = r.id /\ rest = LeftOf(worker[w].rows)
  OBVIOUS
<1>2. /\ worker[w].at = "record" /\ worker[w].at # "idle" /\ Live(s)
      /\ run' = [run EXCEPT ![s] = Put(run[s], r.next, "FAILED")]
      /\ UNCHANGED <<day, schedule, invoices, wish, late, doubled, cut, cuts, toggles>>
  BY <1>1 DEF Record, Status, Live
<1>3. /\ r \in LoadedRows /\ s \in Schedules /\ worker[w].rows # <<>> /\ RowOK(r, 1, 0) /\ HasInHand(worker[w], s)
      /\ ScheduleOK(s) /\ WorkerOK(worker[w])
  BY <1>1, <1>2, CurrentIs, ScheduleIs
<1>4. worker' = [worker EXCEPT ![w] = IF rest = <<>> THEN Idle ELSE [at |-> "convert", rows |-> rest, ok |-> TRUE]]
  BY <1>1 DEF Record, At, LeftOf
<1>5. /\ run'[s] = Put(run[s], r.next, "FAILED") /\ \A q \in Schedules \ {s} : run'[q] = run[q]
      /\ run' = [q \in Schedules |-> run'[q]]
  <2>1. run = [q \in Schedules |-> run[q]]
    BY DEF RecurringInv, RecurringTyped
  <2> QED BY <1>2, <1>3, <2>1
<1>6. PICK n \in Nat : n = r.done /\ r.next = DateOf(s, n)
  BY <1>1, <1>3 DEF RowOK, LoadedRows, DateOf
<1>7. <<s, r.next>> \in cut
  BY <1>1, <1>2, <1>3 DEF WorkerOK, Current
<1>8. \A k : DateOf(s, k)' = DateOf(s, k)
  BY <1>2 DEF DateOf
<1>9. s \in doubled => Smooth(s)
  <2>1. \A d \in DOMAIN run[s] : d \in DOMAIN run'[s]
    BY <1>5 DEF Put
  <2> QED BY <1>2, <2>1 DEF Smooth
<1>10. s \notin doubled => n = schedule[s].done /\ Untouched(s, n + 1)
  BY <1>1, <1>2, <1>3, <1>6 DEF RowOK
<1>11. MadeUpTo(s, schedule[s].done)'
  <2>1. MadeUpTo(s, schedule[s].done)
    BY <1>2, <1>3 DEF ScheduleOK
  <2>2. CASE s \in doubled
    <3>1. Live(s)'
      BY <1>2 DEF Live
    <3> QED BY <1>2, <1>9, <2>1, <2>2, <3>1, MadeStays
  <2>3. CASE s \notin doubled
    <3>1. MadeUpTo(s, n)
      BY <1>10, <2>1, <2>3
    <3>2. ASSUME NEW k \in 0..(n - 1) PROVE DateOf(s, k) # r.next
      <4>1. schedule[s].anchor \in Dates /\ schedule[s].rhythm \in Rhythms /\ k \in Nat /\ k < n
        BY <1>2, <1>3 DEF ScheduleOK, ScheduleRows, Live
      <4> QED BY <1>6, <4>1, NthDates DEF DateOf
    <3>3. MadeUpTo(s, n)'
      <4> SUFFICES ASSUME NEW k \in 0..(n - 1), NEW d, d = DateOf(s, k)
                   PROVE  d \in DOMAIN invoices'[s] /\ d \in DOMAIN run'[s] /\ (run'[s][d] # "FAILED" \/ s \in doubled')
        BY <1>8 DEF MadeUpTo
      <4>1. d \in DOMAIN invoices[s] /\ d \in DOMAIN run[s] /\ (run[s][d] # "FAILED" \/ s \in doubled) /\ d # r.next
        BY <3>1, <3>2 DEF MadeUpTo
      <4> QED BY <1>2, <1>5, <4>1 DEF Put
    <3> QED BY <1>2, <1>10, <2>3, <3>3
  <2> QED BY <2>2, <2>3
<1>12. s \notin doubled => Untouched(s, schedule[s].done)'
  <2> SUFFICES ASSUME s \notin doubled, NEW k \in Nat, k >= n, DateOf(s, k) \in DOMAIN invoices'[s]
               PROVE  <<s, DateOf(s, k)>> \in cut'
    BY <1>2, <1>8, <1>10 DEF Untouched
  <2>1. k = n \/ k >= n + 1
    OBVIOUS
  <2> QED BY <1>2, <1>6, <1>7, <1>10, <2>1 DEF Untouched
<1>13. ScheduleOK(s)'
  <2>1. PICK v \in {"CREATED", "FINALIZED", "FAILED"} : run'[s] = Put(run[s], r.next, v)
    BY <1>5
  <2> QED BY <1>2, <1>3, <1>11, <1>12, <2>1, RunTold
<1>14. \A q \in Schedules : q # s => Smooth(q)
  BY <1>2, <1>5, SmoothSame
<1>15. RestFine(w, s, rest)
  BY <1>1, <1>2, <1>14, RestGoesOn
<1>16. RecurringTyped'
  BY <1>2, <1>4, <1>5 DEF RecurringInv, RecurringTyped
<1>17. /\ rest \in Seq(LoadedRows)
       /\ \A i, j \in DOMAIN rest : rest[i].id = rest[j].id => i = j
       /\ \A i \in DOMAIN rest : RowOK(rest[i], 0, 0)' /\ HasInHand(worker[w], rest[i].id)
       /\ \A q \in Schedules \ {s} : HasInHand(worker[w], q) => \E i \in DOMAIN rest : rest[i].id = q
  BY <1>15 DEF RestFine
<1> QED BY <1>2, <1>3, <1>4, <1>5, <1>9, <1>13, <1>16, <1>17, GoesOnWith

\* Recording a run keeps the invariant.
LEMMA RecordPasses ==
    ASSUME RecurringInv, NEW w \in RecurringWorkers, Record(w)
    PROVE  RecurringInv'
BY RecordMadePasses, RecordFailedPasses

\* The row stepped on by a period.
LEMMA StepIs ==
    ASSUME NEW c \in LoadedRows, NEW r, r = Step(c)
    PROVE  /\ r \in LoadedRows /\ r.id = c.id /\ r.rhythm = c.rhythm /\ r.anchor = c.anchor /\ r.end = c.end
           /\ r.finalize = c.finalize /\ r.done = c.done + 1 /\ r.tries = c.tries + 1
           /\ r.next = Nth(c.anchor, c.rhythm, c.done + 1)
<1>1. PICK n, t, d : n = c.done + 1 /\ t = c.tries + 1 /\ d = Nth(c.anchor, c.rhythm, c.done + 1)
  OBVIOUS
<1>2. n \in Nat /\ t \in Nat /\ d \in Nat \X Nat
  <2>1. c.done \in Nat /\ c.tries \in Nat /\ c.anchor \in Dates /\ c.rhythm \in Rhythms
    BY DEF LoadedRows
  <2>2. n \in Nat /\ t \in Nat
    BY <1>1, <2>1
  <2> QED BY <1>1, <2>1, <2>2, NthIsPair
<1>3. r = [c EXCEPT !.done = n, !.tries = t, !.next = d]
  BY <1>1 DEF Step
<1>4. /\ r \in LoadedRows /\ r.id = c.id /\ r.rhythm = c.rhythm /\ r.anchor = c.anchor /\ r.end = c.end
      /\ r.finalize = c.finalize /\ r.done = n /\ r.tries = t /\ r.next = d
  BY <1>2, <1>3 DEF LoadedRows
<1> QED BY <1>1, <1>4

\* Advancing a schedule keeps the invariant, also one that another worker has
\* advanced already.
LEMMA AdvancePasses ==
    ASSUME RecurringInv, NEW w \in RecurringWorkers, Advance(w)
    PROVE  RecurringInv'
<1>1. PICK c, s, r, rest : c = Current(w) /\ s = c.id /\ r = Step(c) /\ rest = LeftOf(worker[w].rows)
  OBVIOUS
<1>2. worker[w].at = "advance" /\ UNCHANGED <<day, run, invoices, wish, late, doubled, cut, cuts, toggles>>
  BY DEF Advance
<1>3. /\ c \in LoadedRows /\ s \in Schedules /\ worker[w].rows # <<>> /\ RowOK(c, 1, 1) /\ HasInHand(worker[w], s)
      /\ ScheduleOK(s) /\ worker[w].rows \in Seq(LoadedRows) /\ 1 \in DOMAIN worker[w].rows
      /\ worker[w].at # "idle"
  BY <1>1, <1>2, CurrentIs, ScheduleIs
<1>4. /\ r \in LoadedRows /\ r.id = s /\ r.rhythm = c.rhythm /\ r.anchor = c.anchor /\ r.end = c.end
      /\ r.finalize = c.finalize /\ r.done = c.done + 1 /\ r.next = Nth(c.anchor, c.rhythm, c.done + 1)
  BY <1>1, <1>3, StepIs
<1>5. PICK rows : /\ rows = IF Continues(r) THEN <<r>> \o rest ELSE rest
                  /\ worker' = [worker EXCEPT ![w] = IF rows = <<>> THEN Idle ELSE [at |-> "convert", rows |-> rows, ok |-> TRUE]]
  BY <1>1 DEF Advance, At, Ahead, LeftOf
<1>6. PICK n \in Nat, on \in BOOLEAN :
         /\ n = c.done + 1 /\ r.done = n /\ r.next = Nth(c.anchor, c.rhythm, n) /\ on = WithinEnd(r.next, r.end)
  <2>1. c.done + 1 \in Nat
    BY <1>3 DEF LoadedRows
  <2>2. WithinEnd(r.next, r.end) \in BOOLEAN
    BY DEF WithinEnd
  <2> QED BY <1>4, <2>1, <2>2
<1>7. /\ schedule[s].state # "none" /\ r.rhythm = schedule[s].rhythm /\ r.anchor = schedule[s].anchor
      /\ r.end = schedule[s].end /\ r.finalize = schedule[s].finalize
      /\ s \notin doubled => Untouched(s, n)
      /\ Live(s) => MadeUpTo(s, n) /\ (wish[s] \/ s \in late)
  BY <1>1, <1>3, <1>4, <1>6 DEF RowOK
<1>8. PICK z : z = IF Live(s) THEN [schedule[s] EXCEPT !.next = r.next, !.done = r.done, !.active = on] ELSE schedule[s]
  OBVIOUS
<1>9. schedule[s] \in ScheduleRows /\ schedule = [q \in Schedules |-> schedule[q]]
  BY <1>3, ScheduleIs DEF RecurringInv, RecurringTyped
<1>10. /\ z \in ScheduleRows /\ z.state = schedule[s].state /\ z.rhythm = schedule[s].rhythm
       /\ z.anchor = schedule[s].anchor /\ z.end = schedule[s].end /\ z.finalize = schedule[s].finalize
       /\ Live(s) => z.next = r.next /\ z.done = n
       /\ ~Live(s) => z = schedule[s]
  <2>1. CASE Live(s)
    <3>1. PICK d : d = r.next /\ d \in Nat \X Nat
      BY <1>4 DEF LoadedRows
    <3>2. z = [schedule[s] EXCEPT !.next = d, !.done = n, !.active = on]
      BY <1>6, <1>8, <2>1, <3>1
    <3> QED BY <1>9, <2>1, <3>1, <3>2 DEF ScheduleRows
  <2>2. CASE ~Live(s)
    BY <1>8, <1>9, <2>2
  <2> QED BY <2>1, <2>2
<1>11. schedule' = [schedule EXCEPT ![s] = z]
  <2>1. CASE Live(s)
    <3>1. schedule' = [schedule EXCEPT ![s].next = r.next, ![s].done = r.done, ![s].active = WithinEnd(r.next, r.end)]
      BY <1>1, <1>4, <2>1 DEF Advance, Live
    <3>2. PICK d, b : d = r.next /\ b = WithinEnd(r.next, r.end)
      OBVIOUS
    <3>3. schedule' = [schedule EXCEPT ![s] = [schedule[s] EXCEPT !.next = d, !.done = n, !.active = b]]
      BY <1>3, <1>6, <1>9, <3>1, <3>2
    <3>4. b = on
      BY <1>6, <3>2
    <3>5. z = [schedule[s] EXCEPT !.next = d, !.done = n, !.active = b]
      BY <1>6, <1>8, <2>1, <3>2, <3>4
    <3> QED BY <3>3, <3>5
  <2>2. CASE ~Live(s)
    <3>1. schedule' = schedule
      BY <1>1, <1>4, <2>2 DEF Advance, Live
    <3> QED BY <1>3, <1>8, <1>9, <2>2, <3>1
  <2> QED BY <2>1, <2>2
<1>12. /\ schedule'[s] = z /\ \A q \in Schedules \ {s} : schedule'[q] = schedule[q]
       /\ schedule' = [q \in Schedules |-> schedule'[q]]
  BY <1>3, <1>9, <1>11
<1>13. \A k : DateOf(s, k)' = DateOf(s, k)
  BY <1>10, <1>12 DEF DateOf
<1>14. MadeUpTo(s, n) => MadeUpTo(s, n)'
  BY <1>2, <1>13 DEF MadeUpTo
<1>15. Untouched(s, n) => Untouched(s, n)'
  BY <1>2, <1>13 DEF Untouched
<1>16. r.next = DateOf(s, n)'
  BY <1>4, <1>6, <1>7, <1>10, <1>12 DEF DateOf
<1>17. Live(s)' <=> Live(s)
  BY <1>10, <1>12 DEF Live
<1>18. ScheduleOK(s)'
  <2>1. CASE Live(s)
    <3>1. MadeUpTo(s, n)' /\ (wish'[s] \/ s \in late') /\ (s \notin doubled' => Untouched(s, n)')
      BY <1>2, <1>7, <1>14, <1>15, <2>1
    <3>2. /\ \A d \in DOMAIN run'[s] : run'[s][d] \in {"CREATED", "FINALIZED", "FAILED"}
          /\ \A d \in DOMAIN invoices'[s] :
                /\ invoices'[s][d] \in Nat \ {0}
                /\ invoices'[s][d] = 1 \/ <<s, d>> \in cut' \/ s \in doubled'
                /\ WithinEnd(d, z.end)
                /\ z.rhythm[1] # "WEEKLY" => \/ d[2] = z.anchor[2]
                                             \/ d[2] < z.anchor[2] /\ d[2] = MonthLength(d[1])
      BY <1>2, <1>3, <1>10 DEF ScheduleOK
    <3>3. z.state = "live" /\ z.rhythm \in Rhythms /\ z.next = DateOf(s, z.done)' /\ z.done = n
      BY <1>3, <1>10, <1>16, <2>1 DEF ScheduleOK, Live
    <3> QED BY <1>10, <1>12, <3>1, <3>2, <3>3 DEF ScheduleOK, Live
  <2>2. CASE ~Live(s)
    <3>1. schedule'[s] = schedule[s]
      BY <1>10, <1>12, <2>2
    <3> QED BY <1>2, <1>3, <2>2, <3>1, ScheduleDropped
  <2> QED BY <2>1, <2>2
<1>19. RowOK(r, 0, 0)' \/ ~Continues(r)
  <2> SUFFICES ASSUME Continues(r) PROVE RowOK(r, 0, 0)'
    OBVIOUS
  <2>1. r.tries < MaxCatchUp /\ WithinEnd(r.next, r.end)
    BY DEF Continues
  <2>2. r.done + 0 = n
    BY <1>6
  <2>3. s \notin doubled' => Untouched(s, r.done + 0)' /\ (Live(s)' => r.done = z.done)
    BY <1>2, <1>6, <1>7, <1>10, <1>15, <1>17, <2>2
  <2>4. Live(s)' => MadeUpTo(s, r.done + 0)' /\ (wish'[s] \/ s \in late')
    BY <1>2, <1>7, <1>14, <1>17, <2>2
  <2>5. /\ z.state # "none" /\ r.rhythm = z.rhythm /\ r.anchor = z.anchor /\ r.end = z.end /\ r.finalize = z.finalize
        /\ r.next = Nth(r.anchor, r.rhythm, r.done)
    BY <1>4, <1>6, <1>7, <1>10
  <2> QED BY <1>4, <1>12, <2>1, <2>3, <2>4, <2>5 DEF RowOK
<1>20. Smooth(s) \/ s \notin doubled
  <2>1. \A d \in DOMAIN run[s] : d \in DOMAIN run'[s] /\ run'[s][d] = run[s][d]
    BY <1>2
  <2> QED BY <1>2, <1>10, <1>12, <2>1 DEF Smooth
<1>21. \A q \in Schedules : q # s => Smooth(q)
  BY <1>2, <1>12, SmoothSame
<1>22. RestFine(w, s, rest)
  BY <1>1, <1>3, <1>21, RestGoesOn
<1>23. RecurringTyped'
  BY <1>2, <1>5, <1>12 DEF RecurringInv, RecurringTyped
<1>24. /\ doubled' = doubled /\ cut \subseteq cut' /\ HasInHand(worker[w], s) /\ s \in Schedules
       /\ \A q \in Schedules \ {s} : /\ schedule'[q] = schedule[q] /\ run'[q] = run[q] /\ invoices'[q] = invoices[q]
                                      /\ wish'[q] = wish[q] /\ (q \in late' <=> q \in late)
       /\ worker' = [worker EXCEPT ![w] = IF rows = <<>> THEN Idle ELSE [at |-> "convert", rows |-> rows, ok |-> TRUE]]
  BY <1>2, <1>3, <1>5, <1>12
<1>25. CASE ~Continues(r)
  <2>1. /\ rest \in Seq(LoadedRows)
        /\ \A i, j \in DOMAIN rest : rest[i].id = rest[j].id => i = j
        /\ \A i \in DOMAIN rest : RowOK(rest[i], 0, 0)' /\ HasInHand(worker[w], rest[i].id)
        /\ \A q \in Schedules \ {s} : HasInHand(worker[w], q) => \E i \in DOMAIN rest : rest[i].id = q
    BY <1>22 DEF RestFine
  <2>2. rows = rest
    BY <1>5, <1>25
  <2>3. /\ rows \in Seq(LoadedRows)
        /\ \A i, j \in DOMAIN rows : rows[i].id = rows[j].id => i = j
        /\ \A i \in DOMAIN rows : RowOK(rows[i], 0, 0)' /\ HasInHand(worker[w], rows[i].id)
        /\ \A q \in Schedules \ {s} : HasInHand(worker[w], q) => \E i \in DOMAIN rows : rows[i].id = q
    BY <2>1, <2>2
  <2> QED BY <1>18, <1>20, <1>23, <1>24, <2>3, GoesOnWith
<1>26. CASE Continues(r)
  <2>1. PICK old : old = worker[w].rows
    OBVIOUS
  <2>2. rows = <<r>> \o Tail(old) /\ old \in Seq(LoadedRows) /\ 1 \in DOMAIN old
    BY <1>1, <1>3, <1>5, <1>26, <2>1 DEF LeftOf
  <2>3. /\ rows \in Seq(LoadedRows) /\ DOMAIN rows = DOMAIN old /\ rows[1] = r
        /\ \A i \in DOMAIN old : i # 1 => rows[i] = old[i]
    BY <1>4, <2>2, FirstReplaced
  <2>4. PICK y : y = worker[w]
    OBVIOUS
  <2>5. WorkerOK(y) /\ y.rows = old /\ old[1] = c /\ HasInHand(y, s)
    BY <1>1, <1>3, <2>1, <2>4, CurrentIs DEF Current
  <2>6. \A i \in DOMAIN old : i # 1 => old[i].id # s /\ RowOK(old[i], 0, 0)'
    <3>1. 1 \in DOMAIN y.rows /\ s = y.rows[1].id
      BY <1>1, <2>2, <2>5
    <3>2. \A i \in DOMAIN y.rows : i # 1 => y.rows[i].id # s /\ RowOK(y.rows[i], 0, 0)'
      BY <1>21, <2>5, <3>1, RestStays
    <3> QED BY <2>5, <3>2
  <2>7. \A i \in DOMAIN rows : rows[i].id = old[i].id
    BY <1>1, <1>4, <2>3, <2>5
  <2>8. \A i, j \in DOMAIN rows : rows[i].id = rows[j].id => i = j
    BY <2>3, <2>5, <2>7 DEF WorkerOK
  <2>9. ASSUME NEW i \in DOMAIN rows PROVE RowOK(rows[i], 0, 0)' /\ HasInHand(y, rows[i].id)
    <3>1. HasInHand(y, rows[i].id)
      BY <2>3, <2>5, <2>7 DEF HasInHand
    <3>2. CASE i = 1
      <4>1. PICK u : u = rows[i] /\ u = r
        BY <2>3, <3>2
      <4>2. RowOK(u, 0, 0)'
        BY <1>19, <1>26, <4>1
      <4> QED BY <3>1, <4>1, <4>2
    <3>3. CASE i # 1
      <4>1. PICK u : u = rows[i] /\ u = old[i] /\ i \in DOMAIN old
        BY <2>3, <3>3
      <4>2. RowOK(u, 0, 0)'
        BY <2>6, <3>3, <4>1
      <4> QED BY <3>1, <4>1, <4>2
    <3> QED BY <3>2, <3>3
  <2>10. \A q \in Schedules \ {s} : HasInHand(y, q) => \E i \in DOMAIN rows : rows[i].id = q
    BY <2>3, <2>5, <2>7 DEF HasInHand
  <2>11. /\ rows \in Seq(LoadedRows)
         /\ \A i \in DOMAIN rows : RowOK(rows[i], 0, 0)' /\ HasInHand(worker[w], rows[i].id)
         /\ \A q \in Schedules \ {s} : HasInHand(worker[w], q) => \E i \in DOMAIN rows : rows[i].id = q
    BY <2>3, <2>4, <2>9, <2>10
  <2> QED BY <1>18, <1>20, <1>23, <1>24, <2>8, <2>11, GoesOnWith
<1> QED BY <1>25, <1>26

\* A schedule that is due is read as it is, and its row is right unless another
\* worker has it in hand too.
LEMMA DueRows ==
    ASSUME RecurringInv, NEW s \in Due, NEW r, r = Row(s)
    PROVE  /\ r \in LoadedRows /\ r.id = s /\ s \in Schedules /\ Live(s)
           /\ Continues(r) /\ (s \notin doubled => ~InHand(s)) => RowOK(r, 0, 0)
<1>1. s \in Schedules /\ schedule[s].state = "live" /\ schedule[s].active
  BY DEF Due
<1>2. ScheduleOK(s) /\ schedule[s] \in ScheduleRows
  BY <1>1, ScheduleIs
<1>3. schedule[s].rhythm \in Rhythms /\ schedule[s].next = DateOf(s, schedule[s].done)
  BY <1>1, <1>2 DEF ScheduleOK
<1>4. /\ r \in LoadedRows /\ r.id = s /\ r.rhythm = schedule[s].rhythm /\ r.anchor = schedule[s].anchor
      /\ r.next = schedule[s].next /\ r.end = schedule[s].end /\ r.finalize = schedule[s].finalize
      /\ r.done = schedule[s].done
  BY <1>1, <1>2, <1>3 DEF Row, LoadedRows, ScheduleRows
<1>5. PICK n \in Nat : n = r.done /\ n = schedule[s].done /\ n + 0 = n
  BY <1>2, <1>4 DEF ScheduleRows
<1>6. MadeUpTo(s, n) /\ (wish[s] \/ s \in late) /\ (s \notin doubled /\ ~InHand(s) => Untouched(s, n))
  BY <1>1, <1>2, <1>5 DEF ScheduleOK, Live
<1>7. ASSUME Continues(r), s \notin doubled => ~InHand(s) PROVE RowOK(r, 0, 0)
  <2>1. r.tries < MaxCatchUp /\ WithinEnd(r.next, r.end)
    BY <1>7 DEF Continues
  <2>2. r.next = Nth(r.anchor, r.rhythm, r.done)
    BY <1>3, <1>4 DEF DateOf
  <2> QED BY <1>1, <1>4, <1>5, <1>6, <1>7, <2>1, <2>2 DEF RowOK
<1> QED BY <1>1, <1>4, <1>7 DEF Live

\* The rows in an order are a sequence of them, each once.
LEMMA ListingsAre ==
    ASSUME NEW rows, IsFiniteSet(rows), NEW list \in Listings(rows)
    PROVE  /\ list \in Seq(rows)
           /\ \A i, j \in DOMAIN list : i # j => list[i] # list[j]
<1>1. PICK n \in Nat : n = Cardinality(rows)
  BY FS_CardinalityType
<1>2. list \in [1..n -> rows] /\ \A i, j \in DOMAIN list : i < j => list[i] # list[j]
  BY <1>1 DEF Listings
<1>3. list \in Seq(rows)
  BY <1>2, SeqDef
<1>4. \A i, j \in 1..n : i # j => i < j \/ j < i
  OBVIOUS
<1> QED BY <1>2, <1>3, <1>4

\* Loading what is due keeps the invariant, in every order.
LEMMA LoadPasses ==
    ASSUME RecurringInv, NEW w \in RecurringWorkers, Load(w)
    PROVE  RecurringInv'
<1>1. PICK rows : rows = {r \in {Row(s) : s \in Due} : Continues(r)}
  OBVIOUS
<1>2. PICK list \in Listings(rows) : At(w, "convert", list, TRUE)
  BY <1>1 DEF Load
<1>3. /\ worker[w] = Idle /\ doubled' = doubled \cup {s \in Due : InHand(s)}
      /\ UNCHANGED <<day, schedule, run, invoices, wish, late, cut, cuts, toggles>>
  BY DEF Load
<1>4. IsFiniteSet(rows)
  <2>1. IsFiniteSet(Due)
    <3>1. Due \subseteq Schedules
      BY DEF Due
    <3> QED BY <3>1, RecurringAssumption, FS_Subset
  <2>2. PICK all : all = {Row(s) : s \in Due}
    OBVIOUS
  <2>3. IsFiniteSet(all)
    <3>1. PICK f : f = [s \in Due |-> Row(s)]
      OBVIOUS
    <3>2. f \in Surjection(Due, all)
      BY <2>2, <3>1 DEF Surjection
    <3> QED BY <2>1, <3>2, FS_Surjection
  <2>4. rows \subseteq all
    BY <1>1, <2>2
  <2> QED BY <2>3, <2>4, FS_Subset
<1>5. list \in Seq(rows) /\ \A i, j \in DOMAIN list : i # j => list[i] # list[j]
  BY <1>2, <1>4, ListingsAre
<1>6. ASSUME NEW i \in DOMAIN list
      PROVE  /\ list[i] \in LoadedRows /\ list[i].id \in Due /\ list[i] = Row(list[i].id) /\ Continues(list[i])
             /\ list[i].id \in doubled' \/ ~InHand(list[i].id)
  <2>1. list[i] \in rows
    BY <1>5, ElementOfSeq, LenProperties
  <2>2. PICK s \in Due : list[i] = Row(s) /\ Continues(list[i])
    BY <1>1, <2>1
  <2>3. list[i] \in LoadedRows /\ list[i].id = s
    BY <2>2, DueRows
  <2> QED BY <1>3, <2>2, <2>3
<1>7. list \in Seq(LoadedRows)
  <2>1. list \in [1..Len(list) -> rows] /\ Len(list) \in Nat /\ DOMAIN list = 1..Len(list)
    BY <1>5, LenProperties
  <2>2. list \in [1..Len(list) -> LoadedRows]
    BY <1>6, <2>1
  <2> QED BY <2>1, <2>2, SeqDef
<1>8. \A i, j \in DOMAIN list : list[i].id = list[j].id => i = j
  BY <1>5, <1>6
<1>9. doubled \subseteq doubled' /\ doubled' \subseteq Schedules
  BY <1>3 DEF Due, RecurringInv, RecurringTyped
<1>10. \A q : Smooth(q)
  <2> SUFFICES ASSUME NEW q PROVE Smooth(q)
    OBVIOUS
  <2> QED BY <1>3, <1>9, SmoothSame
<1>11. ASSUME NEW i \in DOMAIN list PROVE RowOK(list[i], 0, 0)'
  <2>1. PICK r, s : r = list[i] /\ s = r.id
    OBVIOUS
  <2>2. s \in Due /\ r = Row(s) /\ Continues(r) /\ (s \in doubled' \/ ~InHand(s))
    BY <1>6, <2>1
  <2>3. CASE s \notin doubled /\ InHand(s)
    <3>1. s \in Schedules /\ schedule[s].state = "live" /\ schedule[s].active /\ ScheduleOK(s) /\ schedule[s] \in ScheduleRows
      BY <2>2, ScheduleIs DEF Due
    <3>2. /\ r.rhythm = schedule[s].rhythm /\ r.anchor = schedule[s].anchor
          /\ r.next = schedule[s].next /\ r.end = schedule[s].end /\ r.finalize = schedule[s].finalize
          /\ r.done = schedule[s].done
      BY <2>2 DEF Row
    <3>3. PICK n \in Nat : n = r.done /\ n + 0 = n
      BY <3>1, <3>2 DEF ScheduleRows
    <3>4. r.tries < MaxCatchUp /\ WithinEnd(r.next, r.end) /\ r.next = Nth(r.anchor, r.rhythm, r.done)
      BY <2>2, <3>1, <3>2 DEF Continues, ScheduleOK, DateOf
    <3>5. MadeUpTo(s, n) /\ (wish[s] \/ s \in late) /\ Live(s) /\ Live(s)' /\ s \in doubled'
      BY <1>3, <2>2, <2>3, <3>1, <3>2, <3>3 DEF ScheduleOK, Live
    <3>6. MadeUpTo(s, n)'
      BY <1>10, <3>5, MadeStays
    <3> QED BY <1>3, <2>1, <3>1, <3>2, <3>3, <3>4, <3>5, <3>6 DEF RowOK
  <2>4. CASE s \in doubled \/ ~InHand(s)
    <3>1. RowOK(r, 0, 0)
      BY <2>2, <2>4, DueRows
    <3>2. RowOK(r, 0, 0)'
      BY <1>10, <3>1, RowStays
    <3> QED BY <2>1, <3>2
  <2> QED BY <2>3, <2>4
<1>12. PICK x : x = IF list = <<>> THEN Idle ELSE [at |-> "convert", rows |-> list, ok |-> TRUE]
  OBVIOUS
<1>13. worker' = [worker EXCEPT ![w] = x]
  BY <1>2, <1>12 DEF At
<1>14. x.rows = list /\ x \in WorkerStates /\ (x.at = "idle" <=> list = <<>>) /\ x.at \in {"idle", "convert"} /\ x.ok
  BY <1>7, <1>12 DEF Idle, WorkerStates
<1>15. WorkerOK(x)'
  <2>1. DOMAIN list = 1..Len(list) /\ Len(list) \in Nat /\ (list = <<>> <=> Len(list) = 0)
    BY <1>7, LenProperties, EmptySeq
  <2>2. \A i \in DOMAIN list : x.at = "convert"
    BY <1>14, <2>1
  <2>3. \A i \in DOMAIN x.rows :
           IF i = 1 THEN RowOK(x.rows[1], IF x.at = "convert" THEN 0 ELSE 1, IF x.at = "advance" THEN 1 ELSE 0)'
                    ELSE RowOK(x.rows[i], 0, 0)'
    BY <1>11, <1>14, <2>2
  <2> QED BY <1>8, <1>14, <2>3 DEF WorkerOK
<1>16. \A q : ~HasInHand(worker[w], q)
  BY <1>3 DEF Idle, HasInHand
<1>17. \A q \in Schedules \ doubled' : HasInHand(x, q) => ~InHand(q)
  BY <1>6, <1>14 DEF HasInHand
<1>18. ASSUME NEW q \in Schedules PROVE ScheduleOK(q)'
  <2>1. InHand(q) => InHand(q)'
    BY <1>13, <1>16, InHandStays
  <2> QED BY <1>3, <1>9, <2>1, ScheduleIs, ScheduleStays
<1>19. RecurringTyped'
  BY <1>3, <1>9, <1>13 DEF RecurringInv, RecurringTyped
<1> QED BY <1>9, <1>10, <1>13, <1>15, <1>17, <1>18, <1>19, WorkerPasses

\* The invariant holds when there are no schedules yet.
LEMMA RecurringStarts == RecurringInit => RecurringInv
<1> SUFFICES ASSUME RecurringInit PROVE RecurringInv
  OBVIOUS
<1>1. NoSchedule \in ScheduleRows /\ NoSchedule.state = "none"
  <2>1. MonthLength(0) \in 28..31
    BY MonthsAreMonths
  <2>2. PICK d : d = <<0, 1>> /\ d \in Nat \X Nat /\ d[1] = 0 /\ d[2] = 1
    <3>1. <<0, 1>> \in Nat \X Nat
      OBVIOUS
    <3>2. <<0, 1>>[1] = 0 /\ <<0, 1>>[2] = 1
      OBVIOUS
    <3>3. PICK d : d = <<0, 1>>
      OBVIOUS
    <3> QED BY <3>1, <3>2, <3>3
  <2>3. d \in Dates
    BY <2>1, <2>2 DEF Dates
  <2> QED BY <2>2, <2>3 DEF NoSchedule, ScheduleRows
<1>2. 1 \in DOMAIN Calendar
  <2>1. DOMAIN Calendar = 1..Len(Calendar) /\ Len(Calendar) \in Nat /\ Len(Calendar) # 0
    BY RecurringAssumption, LenProperties, EmptySeq
  <2> QED BY <2>1
<1>3. RecurringTyped
  BY <1>2 DEF RecurringInit, RecurringTyped
<1>4. \A s \in Schedules : ScheduleOK(s)
  <2>1. DOMAIN << >> = {}
    OBVIOUS
  <2> QED BY <1>1, <2>1 DEF RecurringInit, ScheduleOK, Live
<1>5. WorkerOK(Idle)
  <2>1. Idle \in WorkerStates /\ Idle.rows = <<>> /\ Idle.at = "idle" /\ Idle.ok = TRUE /\ DOMAIN <<>> = {}
    BY DEF Idle, WorkerStates
  <2> QED BY <2>1 DEF WorkerOK
<1>6. \A w \in RecurringWorkers : worker[w] = Idle
  BY DEF RecurringInit
<1>7. \A s : ~HasInHand(Idle, s)
  BY DEF HasInHand, Idle
<1> QED BY <1>3, <1>4, <1>5, <1>6, <1>7 DEF RecurringInv

\* Every step of users, workers and the calendar keeps it.
LEMMA RecurringSteps == RecurringInv /\ [RecurringNext]_recurringVars => RecurringInv'
<1> SUFFICES ASSUME RecurringInv, [RecurringNext]_recurringVars PROVE RecurringInv'
  OBVIOUS
<1>1. CASE \E s \in Schedules : Create(s)
  BY <1>1, CreatePasses
<1>2. CASE \E s \in Schedules : Delete(s)
  BY <1>2, DeletePasses
<1>3. CASE \E s \in Schedules, on \in BOOLEAN : SetActive(s, on)
  BY <1>3, SetActivePasses
<1>4. CASE \E w \in RecurringWorkers : Load(w)
  BY <1>4, LoadPasses
<1>5. CASE \E w \in RecurringWorkers : Convert(w)
  BY <1>5, ConvertPasses
<1>6. CASE \E w \in RecurringWorkers : Finalize(w)
  BY <1>6, FinalizePasses
<1>7. CASE \E w \in RecurringWorkers : Record(w)
  BY <1>7, RecordPasses
<1>8. CASE \E w \in RecurringWorkers : RecordOrphan(w)
  BY <1>8, RecordOrphanPasses
<1>9. CASE \E w \in RecurringWorkers : Advance(w)
  BY <1>9, AdvancePasses
<1>10. CASE \E w \in RecurringWorkers : CutShort(w)
  BY <1>10, CutShortPasses
<1>11. CASE Tick
  BY <1>11, TickPasses
<1>12. CASE UNCHANGED recurringVars
  <2>1. UNCHANGED <<day, schedule, run, invoices, worker, wish, late, doubled, cut, cuts, toggles>>
    BY <1>12 DEF recurringVars
  <2>2. RecurringTyped' /\ \A q \in Schedules : Smooth(q)
    BY <2>1, SmoothSame DEF RecurringInv, RecurringTyped
  <2>3. ASSUME NEW q \in Schedules PROVE ScheduleOK(q)'
    <3>1. ScheduleOK(q) /\ (InHand(q) => InHand(q)')
      BY <2>1, ScheduleIs DEF InHand
    <3> QED BY <2>1, <3>1, ScheduleStays
  <2> QED BY <2>1, <2>2, <2>3, UsersPass
<1> QED BY <1>1, <1>2, <1>3, <1>4, <1>5, <1>6, <1>7, <1>8, <1>9, <1>10, <1>11, <1>12 DEF RecurringNext, RunStep

\* It implies what a schedule promises.
LEMMA RecurringPromises == RecurringInv => InvoicedAsScheduled
<1> SUFFICES ASSUME RecurringInv PROVE InvoicedAsScheduled
  OBVIOUS
<1>1. RecurringTypeOK
  <2>1. ASSUME NEW s \in Schedules
        PROVE  /\ schedule[s].state \in {"none", "live", "gone"}
               /\ schedule[s].state = "live" =>
                    schedule[s].next = Nth(schedule[s].anchor, schedule[s].rhythm, schedule[s].done)
               /\ \A d \in DOMAIN run[s] : run[s][d] \in {"CREATED", "FINALIZED", "FAILED"}
    BY ScheduleIs DEF ScheduleOK, ScheduleRows, DateOf
  <2>2. ASSUME NEW w \in RecurringWorkers
        PROVE  /\ worker[w].at \in {"idle", "convert", "finalize", "record", "advance"}
               /\ worker[w].at = "idle" <=> worker[w].rows = <<>>
               /\ \A i \in DOMAIN worker[w].rows : worker[w].rows[i].tries < MaxCatchUp
    <3>1. PICK x : x = worker[w]
      OBVIOUS
    <3>2. WorkerOK(x)
      BY <3>1, WorkersFine
    <3>3. ASSUME NEW i \in DOMAIN x.rows PROVE x.rows[i].tries < MaxCatchUp
      <4>1. PICK r, p, t : r = x.rows[i] /\ RowOK(r, p, t)
        BY <3>2 DEF WorkerOK
      <4> QED BY <4>1 DEF RowOK
    <3> QED BY <3>1, <3>2, <3>3 DEF WorkerOK, WorkerStates
  <2> QED BY <2>1, <2>2 DEF RecurringTypeOK, RecurringInv, RecurringTyped
<1>2. OneInvoicePerPeriod
  BY ScheduleIs DEF OneInvoicePerPeriod, ScheduleOK
<1>3. NonePassedOver
  <2> SUFFICES ASSUME NEW s \in Schedules, schedule[s].state = "live", NEW k \in 0..(schedule[s].done - 1),
                      NEW d, d = Nth(schedule[s].anchor, schedule[s].rhythm, k)
               PROVE  MadeFor(s, d) > 0 /\ d \in DOMAIN run[s] /\ (run[s][d] # "FAILED" \/ s \in doubled)
    BY DEF NonePassedOver
  <2>1. d \in DOMAIN invoices[s] /\ d \in DOMAIN run[s] /\ (run[s][d] # "FAILED" \/ s \in doubled)
    BY ScheduleIs DEF ScheduleOK, Live, MadeUpTo, DateOf
  <2>2. invoices[s][d] \in Nat \ {0}
    BY <2>1, ScheduleIs DEF ScheduleOK
  <2> QED BY <2>1, <2>2 DEF MadeFor
<1>4. OnTheFirstDatesDay
  BY ScheduleIs DEF OnTheFirstDatesDay, ScheduleOK
<1>5. PauseHolds
  BY ScheduleIs DEF PauseHolds, ScheduleOK, Live
<1> QED BY <1>1, <1>2, <1>3, <1>4, <1>5 DEF InvoicedAsScheduled

\* A schedule's customer gets the invoices of its periods, each once, on its day,
\* none passed over and none in a pause, with any number of workers, schedules and
\* failures; what a crash or a second worker can do to that is what the property
\* excuses (recurring.go, RunOnce, createOne, advance).
THEOREM InvoicesStay == RecurringSpec => []InvoicedAsScheduled
<1>1. RecurringInit => RecurringInv
  BY RecurringStarts
<1>2. RecurringInv /\ [RecurringNext]_recurringVars => RecurringInv'
  BY RecurringSteps
<1>3. RecurringInv => InvoicedAsScheduled
  BY RecurringPromises
<1> QED BY <1>1, <1>2, <1>3, PTL DEF RecurringSpec
=============================================================================
