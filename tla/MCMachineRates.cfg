SPECIFICATION Spec
CONSTANTS
    Links = {"eth0"}
    Disks = {"sda"}
    p1 = p1
    p2 = p2
    p3 = p3
    Procs <- MCProcs
    Home <- MCHome
    MaxReported = 1
    WordSize = 16
    MaxNow = 4
    MaxEvents = 2
    MaxFaults = 1
SYMMETRY Twins
INVARIANTS TypeOK RatesAreExact BoxSharesAreExact
CHECK_DEADLOCK FALSE
