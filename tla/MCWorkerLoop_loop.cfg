CONSTANTS
    Concurrency = 2
    MaxQueue = 1
    Interval = 2
    Overdue = 3
    RegInterval = 3
    Threshold = 2
    Stall = 2
    AcquireLimit = 1
    MaxStreak = 1
    None = None
SPECIFICATION FairSpec
INVARIANTS
    TypeOK
PROPERTIES
    PausesForUpgrade
    ReloadsBeforeServing
    WedgedIsReported
    PauseIsReported
    HealthyAgain
    ServesCurrentCode
    ServesAgain
    WatchdogSparesSlowJobs
CHECK_DEADLOCK FALSE
