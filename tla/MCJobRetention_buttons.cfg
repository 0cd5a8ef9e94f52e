\* A group with handlers on both axes under every button, with its timestamps.
CONSTANTS
    a = a
    b = b
    c = c
    x = x
    y = y
    Jobs = {a, b, x, y}
    NoJob = NoJob
    Parent <- AxesParent
    Dependencies <- AxesBarriers
    RunOnFailure <- AxesHandlers

SPECIFICATION RetentionSpec
INVARIANTS
    TypeOK
    NoStrandedBarrier
    DoneAndCancelledCollectable
\* Every row may have reached a terminal state.
CHECK_DEADLOCK FALSE
