CONSTANTS
    Size = 3
    MaxJobs = 3
    Cases <- CasesOnOneAxis
SPECIFICATION Spec
INVARIANTS
    EndsAsWritten
CHECK_DEADLOCK FALSE
