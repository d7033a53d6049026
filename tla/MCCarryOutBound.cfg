SPECIFICATION Spec
CONSTANTS
    Areas = {a1, a2}
    CommandTimeout = 1
    StartTimeout = 2
    CleanTimeout = 3
    PurgeTimeout = 3
    MaintainTimeout = 4
    MaxBatch = 2
    MaxStarts = 2
INVARIANT
    NotCutShort
CHECK_DEADLOCK FALSE
