SPECIFICATION FairSpec
CONSTANTS
    Inodes <- MCInodes
    MaxRead = 3
    MaxLines = 3
    MaxTruncations = 1
    MaxFaults = 1
INVARIANTS TypeOK CountedOnceInOrder NoLineOverlooked
PROPERTY CatchesUp
