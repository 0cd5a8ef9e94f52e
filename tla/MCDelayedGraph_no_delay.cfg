CONSTANTS
    Size = 3
    MaxJobs = 3
    Cases <- SupportedCases
SPECIFICATION Spec
INVARIANTS
    NoDelayKeepsOrder
CHECK_DEADLOCK FALSE
