SPECIFICATION FairSpec
CONSTANTS
    Keys = {k1, k2}
    Txs = {t1, t2}
    Workers = {w1, w2}
    NoKey = none
    MaxAttempts = 2
    MaxLost = 1
CHECK_DEADLOCK FALSE
INVARIANTS
    QueuedIffCommitted
    OneWorkerPerEvent
    AppliedOnce
    AttemptsCoverRuns
PROPERTIES
    ImplementsDurableJobs
    EventuallySettled
