SPECIFICATION FairSpec
CONSTANTS
    Hosts <- MCOneHost
    Lines <- MCFewLines
    MaxTracked = 1
    MaxReported = 1
    Candidates = {"traefik", "nginx"}
    MaxLines = 1
    MaxSwitches = 3
    MaxFaults = 2
    Bounds <- MCBounds
INVARIANTS TypeOK StopsWhenAsked
PROPERTIES FollowsTheSetting SkipsAreSaid
