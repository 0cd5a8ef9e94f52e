\* Threads may hang, and may outlive the join.
CONSTANTS
    p1 = p1
    p2 = p2
    t1 = t1
    t2 = t2
    t3 = t3
    d1 = d1
    Processes = {p1, p2}
    Databases = {d1}
    Threads = {t1, t2}
    NoProcess = NoProcess
    NoDatabase = NoDatabase
    NoThread = NoThread
    MaxFailures = 2
    StampBound = 2

SPECIFICATION LateSpec
INVARIANTS
    OneServer
    ChargedOnce
SYMMETRY Interchangeable
