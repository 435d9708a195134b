SPECIFICATION Spec
CONSTANTS
    ip1 = ip1  ip2 = ip2
    NONE = NONE
    IPs <- MCOneIP
    Burst = 2
    Period = 2
    StaleAfter = 4
    SweepInterval = 3
    SweepDelay = 1
    MaxClock = 12
SYMMETRY Symmetry
INVARIANTS
    AtMostBurstPerWindow
