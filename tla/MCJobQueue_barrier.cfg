\* A group of two and its callback, a pool of two with room in its queue,
\* heartbeats on time.
CONSTANTS
    j1 = j1
    j2 = j2
    j3 = j3
    w1 = w1
    w2 = w2
    w3 = w3
    f1 = f1
    f2 = f2
    f3 = f3
    Jobs = {j1, j2, j3}
    NoJob = NoJob
    Parent <- NoParents
    Dependencies <- BarrierOfTwo
    RunOnFailure <- NoHandlers
    Workers = {w1}
    NoWorker = NoWorker
    Futures = {f1, f2, f3}
    Concurrency = 2
    MaxRetries = 1
    HasTimeout = {}
    AttemptBound = 2

SPECIFICATION QuietSpec
INVARIANTS
    ExclusiveExecution
PROPERTIES
    ImplementsGraph
SYMMETRY Interchangeable
\* Every process may be dead, or every job settled: the system may stop.
CHECK_DEADLOCK FALSE
