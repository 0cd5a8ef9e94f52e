\* A drain that does not end.
CONSTANTS
    Concurrency = 2
    MaxQueue = 1
    Interval = 2
    Overdue = 3
    RegInterval = 3
    Threshold = 2
    Stall = 2
    AcquireLimit = 1
    MaxStreak = 1
    None = None
SPECIFICATION FairSpec
\* TLC stops at the first; without it, it finds the next.
PROPERTIES
    WatchdogSparesBusyLoops
    DegradedOnlyInTrouble
    RegistryChecked
CHECK_DEADLOCK FALSE
