SPECIFICATION Spec
CONSTANTS
    o1 = o1  o2 = o2
    a1 = a1
    r1 = r1  r2 = r2  r3 = r3
    NONE = NONE
    Orders <- MCOrders
    Admins <- MCAdmins
    Requests <- MCRequests
    PhoneOrders <- MCPhoneOrders
    MaxCrashes = 1
SYMMETRY Symmetry
INVARIANTS
    TypeOK
    AuditMatchesStatus
    CustomerHearsTheDecision
    AnswerIsTrue
    DeclinesAreExplained
PROPERTIES
    ImplementsLifecycle
