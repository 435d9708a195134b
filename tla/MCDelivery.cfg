SPECIFICATION TimedFairSpec
CONSTANTS
    o1 = o1  o2 = o2
    a1 = a1
    r1 = r1  r2 = r2
    NONE = NONE
    Orders <- MCOrders
    Admins <- MCAdmins
    Requests <- MCRequests
    PhoneOrders <- MCPhoneOrders
    MaxCrashes = 1
    Budget = 3
    ClientTimeout = 2
INVARIANTS
    SmsGetsItsTurn
    EveryChannelTried
PROPERTIES
    EveryRequestAnswered
    OkIsFollowedUp
