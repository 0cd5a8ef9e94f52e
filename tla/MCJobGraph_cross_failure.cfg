\* A failure that has to cross from one axis to the other.
CONSTANTS
    a = a
    b = b
    c = c
    d = d
    e = e
    g = g
    x = x
    y = y
    z = z
    Jobs = {a, b, x, y, c, d, e}
    NoJob = NoJob
    Parent <- CrossParent
    Dependencies <- CrossBarriers
    RunOnFailure <- Never

SPECIFICATION HandledSpec
INVARIANTS
    FailureReachesCallbacks
\* Every row may have reached a terminal state.
CHECK_DEADLOCK FALSE
