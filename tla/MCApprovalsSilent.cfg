SPECIFICATION FairSpec
CONSTANTS
    o1 = o1  o2 = o2
    a1 = a1
    r1 = r1  r2 = r2  r3 = r3
    NONE = NONE
    Orders <- MCOneOrder
    Admins <- MCAdmins
    Requests <- MCTwoRequests
    PhoneOrders <- MCPhoneOrders
    MaxCrashes = 0
PROPERTIES
    EveryDecisionDispatched
