\* A worker that reclaims its own job.
CONSTANTS
    j1 = j1
    j2 = j2
    j3 = j3
    w1 = w1
    w2 = w2
    w3 = w3
    f1 = f1
    f2 = f2
    f3 = f3
    Jobs = {j1, j2}
    NoJob = NoJob
    Parent <- NoParents
    Dependencies <- NoBarriers
    RunOnFailure <- NoHandlers
    Workers = {w1}
    NoWorker = NoWorker
    Futures = {f1, f2, f3}
    Concurrency = 2
    MaxRetries = 1
    HasTimeout = {j1}
    AttemptBound = 2

SPECIFICATION QuietSpec
\* TLC stops at the first; without it, it finds the next.
INVARIANTS
    PoolNotOverfilled
PROPERTIES
    ClearsOnlyItsOwnClaim
SYMMETRY Interchangeable
\* Every process may be dead, or every job settled: the system may stop.
CHECK_DEADLOCK FALSE
