SPECIFICATION FairSpec
CONSTANTS
    Ids <- MCIds
    MaxPending = 2
    MaxAge = 1
    MaxWrites = 2
    MaxNow = 0
    MaxFaults = 2
PROPERTIES EveryBatchAnswered SpoolDrains
