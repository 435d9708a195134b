SPECIFICATION AccessSpec
CONSTANTS
    u1 = u1
    b1 = b1
    s1 = s1
    t1 = t1  t2 = t2  t3 = t3
    NONE = NONE
    Users <- MCUsers
    Staff <- MCUsers
    Browsers <- MCBrowsers
    Slots <- MCSlots
    Tokens <- MCTokens
    AccessTTL = 1
    RefreshTTL = 2
    MaxLatency = 1
    MaxClock = 3
    MaxFaults = 2
SYMMETRY Symmetry
INVARIANTS
    TypeOK
    StaleRoleBound
    ClearedIsDead
    DecisionsByRecentAdmins
PROPERTIES
    EndedSessionsStayEnded
