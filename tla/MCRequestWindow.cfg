SPECIFICATION Spec
CONSTANTS
    Hosts <- MCHosts
    Lines <- MCLines
    MaxTracked = 3
    MaxReported = 2
    Candidates = {"traefik"}
    MaxLines = 4
    MaxSwitches = 0
    MaxFaults = 0
    Bounds <- MCBounds
INVARIANTS RowsAreExact BusiestFirst PercentilesAreHonest
