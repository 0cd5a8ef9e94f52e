\* A chain whose first worker dies once too often.
CONSTANTS
    a = a
    b = b
    c = c
    d = d
    e = e
    g = g
    x = x
    y = y
    z = z
    Jobs = {a, b, c}
    NoJob = NoJob
    Parent <- ThreeParent
    Dependencies <- Free
    RunOnFailure <- Never

SPECIFICATION AutoSpec
INVARIANTS
    FailureReachesCallbacks
\* Every row may have reached a terminal state.
CHECK_DEADLOCK FALSE
