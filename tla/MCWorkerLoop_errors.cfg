\* Errors that come often, or at the wrong moment.
CONSTANTS
    Concurrency = 2
    MaxQueue = 1
    Interval = 2
    Overdue = 3
    RegInterval = 3
    Threshold = 2
    Stall = 2
    AcquireLimit = 1
    MaxStreak = 1
    None = None
SPECIFICATION OverflowSpec
\* TLC stops at the first; without it, it finds the next.
INVARIANTS
    LoopNeverEnds
PROPERTIES
    ReloadedOnResume
CHECK_DEADLOCK FALSE
