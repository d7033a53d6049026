SPECIFICATION Spec
CONSTANTS
    Ids <- MCIds
    MaxPending = 2
    MaxAge = 0
    MaxWrites = 3
    MaxNow = 1
    MaxFaults = 1
INVARIANTS TypeOK AtMostOnce NotReplayable HonestOutcomes NothingVanishes
PROPERTY TimelyRun
