CONSTANTS
    Size = 4
    MaxJobs = 4
    Cases <- SupportedCases
SPECIFICATION Spec
INVARIANTS
    EndsAsWritten
    GraphsAreWellWired
PROPERTIES
    StartsInOrder
CHECK_DEADLOCK FALSE
