----------------------------- MODULE DurableJobs -----------------------------
(***************************************************************************)
(* What the transactional outbox promises to the modules that use it       *)
(* (package doc of internal/platform/outbox/outbox.go): a job submitted by *)
(* a committed transaction exists from then on, is finished at most once,  *)
(* with one outcome, and never changes after that.  Nothing is said of     *)
(* workers, claims, retries or crashes: those are Outbox's business.       *)
(***************************************************************************)
CONSTANT Keys

VARIABLE job

JobStates == {"absent", "open", "done", "dead"}

TypeOK == job \in [Keys -> JobStates]

Init == job = [k \in Keys |-> "absent"]

\* Jobs a transaction brings into being are open from its commit on.
Opened(S) == [k \in Keys |-> IF k \in S /\ job[k] = "absent" THEN "open" ELSE job[k]]

\* A transaction commits: every job it submitted appears at once.
Submit(S) == job' = Opened(S)

\* A job ends, in the same commit as the jobs its handler submitted.
Finish(k, outcome, S) ==
    /\ job[k] = "open"
    /\ job' = [Opened(S) EXCEPT ![k] = outcome]

Next ==
    \/ \E S \in SUBSET Keys : Submit(S)
    \/ \E k \in Keys, S \in SUBSET Keys, outcome \in {"done", "dead"} :
          Finish(k, outcome, S)

Spec == Init /\ [][Next]_job
=============================================================================
