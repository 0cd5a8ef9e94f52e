\* Two worker processes look at the same time.
CONSTANTS
    j1 = j1
    j2 = j2
    j3 = j3
    j4 = j4
    j5 = j5
    w1 = w1
    w2 = w2
    c1 = c1
    c2 = c2
    Jobs = {j1, j2, j3, j4, j5}
    Workers = {w1, w2}
    NoWorker = NoWorker
    Channel <- TwoChannels
    Limit <- Limits
    Rate <- Rates

SPECIFICATION Spec
INVARIANTS
    ChannelLimitHolds
SYMMETRY Alike
\* Every job may be done.
CHECK_DEADLOCK FALSE
