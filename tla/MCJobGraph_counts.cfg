\* A done group member that is requeued and completes again, and a group that
\* holds the same row twice.
CONSTANTS
    a = a
    b = b
    c = c
    d = d
    e = e
    g = g
    x = x
    y = y
    z = z
    Jobs = {a, b, c, d}
    NoJob = NoJob
    Parent <- Alone
    Dependencies <- CountedBarriers
    RunOnFailure <- Never

SPECIFICATION RequeueSpec
\* TLC stops at the first; without it, it finds the next.
INVARIANTS
    CompletedGroupReleases
PROPERTIES
    BarrierWaitsForAll
\* Every row may have reached a terminal state.
CHECK_DEADLOCK FALSE
