SPECIFICATION Spec
CONSTANTS
    Ids <- MCOneId
    MaxPending = 1
    MaxAge = 1
    MaxWrites = 1
    MaxNow = 1
    MaxFaults = 0
INVARIANT EveryOutcomeReported
