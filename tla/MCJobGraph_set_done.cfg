\* A parent set to done by the operator.
CONSTANTS
    a = a
    b = b
    c = c
    d = d
    e = e
    g = g
    x = x
    y = y
    z = z
    Jobs = {a, b}
    NoJob = NoJob
    Parent <- ThreeParent
    Dependencies <- Free
    RunOnFailure <- Never

SPECIFICATION Spec
PROPERTIES
    SuccessReachesChildren
\* Every row may have reached a terminal state.
CHECK_DEADLOCK FALSE
