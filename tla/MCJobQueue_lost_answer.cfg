\* One job with a timeout and three workers, finalizations whose answer is lost.
CONSTANTS
    j1 = j1
    j2 = j2
    j3 = j3
    w1 = w1
    w2 = w2
    w3 = w3
    f1 = f1
    f2 = f2
    f3 = f3
    Jobs = {j1}
    NoJob = NoJob
    Parent <- NoParents
    Dependencies <- NoBarriers
    RunOnFailure <- NoHandlers
    Workers = {w1, w2, w3}
    NoWorker = NoWorker
    Futures = {f1, f2}
    Concurrency = 1
    MaxRetries = 2
    HasTimeout = {j1}
    AttemptBound = 3

SPECIFICATION LossySpec
PROPERTIES
    DoneIsFinal
SYMMETRY Interchangeable
\* Every process may be dead, or every job settled: the system may stop.
CHECK_DEADLOCK FALSE
