\* One worker process; jobs succeed, fail, overrun and are retried.
CONSTANTS
    j1 = j1
    j2 = j2
    j3 = j3
    j4 = j4
    j5 = j5
    w1 = w1
    w2 = w2
    c1 = c1
    c2 = c2
    Jobs = {j1, j2, j3}
    Workers = {w1}
    NoWorker = NoWorker
    Channel <- TwoChannels
    Limit <- Limits
    Rate <- Rates

SPECIFICATION Spec
INVARIANTS
    PunctualLimitHolds
    LastingStartsLimited
SYMMETRY Alike
\* Every job may be done.
CHECK_DEADLOCK FALSE
