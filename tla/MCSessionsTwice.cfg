SPECIFICATION ReplaySpec
CONSTANTS
    u1 = u1  u2 = u2
    b1 = b1  b2 = b2
    s1 = s1  s2 = s2
    t1 = t1  t2 = t2  t3 = t3  t4 = t4
    NONE = NONE
    Users <- MCOneUser
    Staff <- MCNobody
    Browsers <- MCOneBrowser
    Slots <- MCTwoSlots
    Tokens <- MCFourTokens
    AccessTTL = 1
    RefreshTTL = 2
    MaxLatency = 1
    MaxClock = 0
    MaxFaults = 0
SYMMETRY Symmetry
INVARIANTS
    UsedOnce
