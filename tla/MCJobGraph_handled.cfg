\* Chains, callbacks and handlers under a group; every failure is handled by a living worker.
CONSTANTS
    a = a
    b = b
    c = c
    d = d
    e = e
    g = g
    x = x
    y = y
    z = z
    Jobs = {a, b, c, d, e, g, x, y, z}
    NoJob = NoJob
    Parent <- TreeParent
    Dependencies <- TreeBarriers
    RunOnFailure <- TreeHandlers

SPECIFICATION HandledSpec
INVARIANTS
    NoStrandedRow
    CounterIsExact
PROPERTIES
    RightOutcomeReleases
    BarrierWaitsForAll
\* Every row may have reached a terminal state.
CHECK_DEADLOCK FALSE
