CONSTANTS
    MaxRows = 5
    c1 = c1
    Clients = {c1, c2}
    NoClient = NoClient
    k1 = k1
    k2 = k2
    NoKey = NoKey
    Programs <- MCPrograms
SPECIFICATION Spec
INVARIANTS
    TypeOK
    OneLivePerKey
    StrandedOnlyByDedupe
PROPERTIES
    BarrierWaitsForAll
CHECK_DEADLOCK FALSE
