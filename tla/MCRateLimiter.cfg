SPECIFICATION Spec
CONSTANTS
    ip1 = ip1  ip2 = ip2
    NONE = NONE
    IPs <- MCTwoIPs
    Burst = 2
    Period = 2
    StaleAfter = 4
    SweepInterval = 2
    SweepDelay = 1
    MaxClock = 8
SYMMETRY Symmetry
INVARIANTS
    TypeOK
    WindowBound
    RefusalsJustified
    EntriesExpire
PROPERTIES
    ImplementsBucket
