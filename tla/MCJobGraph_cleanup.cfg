\* The callback of a group failure handler that is not needed.
CONSTANTS
    a = a
    b = b
    c = c
    d = d
    e = e
    g = g
    x = x
    y = y
    z = z
    Jobs = {a, b, x, y}
    NoJob = NoJob
    Parent <- CleanupParent
    Dependencies <- CleanupBarriers
    RunOnFailure <- CleanupHandlers

SPECIFICATION HandledSpec
INVARIANTS
    NoStrandedRow
\* Every row may have reached a terminal state.
CHECK_DEADLOCK FALSE
