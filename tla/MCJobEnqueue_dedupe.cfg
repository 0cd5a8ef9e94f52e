\* What deduplication and cancellation are said to do.
CONSTANTS
    MaxRows = 5
    c1 = c1
    Clients = {c1, c2}
    NoClient = NoClient
    k1 = k1
    k2 = k2
    NoKey = NoKey
    Programs <- MCPrograms
SPECIFICATION Spec
\* TLC stops at the first; without it, it finds the next.
INVARIANTS
    NobodyStranded
PROPERTIES
    DedupeNeverFails
    ReturnsLiveJob
    CancelledStays
CHECK_DEADLOCK FALSE
