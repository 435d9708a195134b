SPECIFICATION Spec
CONSTANTS
    u1 = u1  u2 = u2
    q1 = q1  q2 = q2  q3 = q3
    NONE = NONE
    Users <- MCUsers
    Admins <- MCAdmins
    Requests <- MCRequests
    Bodies <- MCBodies
    MaxAmount = 1600000
    MaxQuantity = 10
    MaxCrashes = 1
SYMMETRY Symmetry
INVARIANTS
    TypeOK
    OrdersComplete
    AnswersAreTrue
    PagesAreComplete
    OwnersOnly
    NothingForgotten
    EstimateOffByExtraBytes
PROPERTIES
    ImplementsOrderBook
