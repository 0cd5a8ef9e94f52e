\* A database that stays out of reach, and an upgrade of job_worker itself that does not end.
CONSTANTS
    p1 = p1
    p2 = p2
    t1 = t1
    t2 = t2
    t3 = t3
    d1 = d1
    Processes = {p1}
    Databases = {d1}
    Threads = {t1}
    NoProcess = NoProcess
    NoDatabase = NoDatabase
    NoThread = NoThread
    MaxFailures = 2
    StampBound = 2

SPECIFICATION FairSpec
\* TLC stops at the first; without it, it finds the next.
PROPERTIES
    UnreachableIsReported
    StuckUpgradeIsReported
