SPECIFICATION Spec
CONSTANTS
    Readings <- MCReadings
    Results <- MCResults
    Capacity = 3
    MaxSends = 2
    Interval = 2
    MinInterval = 1
    MaxInterval = 3
    MaxBackoff = 4
    RetryAfters = {0, 5}
    MaxSpent = 1
    MaxFailures = 3
    MaxReadings = 5
    MaxResults = 2
    Wishes = {0, 4}
    MaxLost = 2
    MaxRestarts = 1
INVARIANTS TypeOK StoredInOrder OutcomesAreTold
PROPERTIES BackoffEnds ImplementsFeed
