SPECIFICATION Spec
CONSTANTS
    t1 = t1
    t2 = t2
    t3 = t3
    b1 = b1
    b2 = b2
    Txns = {t1, t2, t3}
    Bookings = {b1, b2}
    AgencyOf <- TwoAgencies
    NightsOf <- OneNightShared
    Operations <- OperationNames
SYMMETRY SessionSymmetry
INVARIANT NoDeadlock
