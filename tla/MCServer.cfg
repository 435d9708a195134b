SPECIFICATION FairSpec
CONSTANTS
    r1 = r1  r2 = r2  r3 = r3
    NONE = NONE
    Requests <- MCRequests
    MaxConns = 2
INVARIANTS
    TypeOK
    NeverAllBlocked
    CleanExit
PROPERTIES
    EveryRequestEnds
    ProcessExits
