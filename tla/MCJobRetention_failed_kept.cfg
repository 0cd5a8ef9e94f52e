\* A row that fails because its group failed.
CONSTANTS
    a = a
    b = b
    c = c
    x = x
    y = y
    Jobs = {a, b, c, x}
    NoJob = NoJob
    Parent <- Alone
    Dependencies <- PairBarriers
    RunOnFailure <- PairHandlers

SPECIFICATION RetentionSpec
INVARIANTS
    TerminalCollectable
\* Every row may have reached a terminal state.
CHECK_DEADLOCK FALSE
