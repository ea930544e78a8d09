SPECIFICATION FairSpec
CONSTANTS
    b1 = b1
    b2 = b2
    h1 = h1
    h2 = h2
    r1 = r1
    r2 = r2
    Bookings = {b1, b2}
    Holds = {h1, h2}
    HoldOf <- OwnHolds
    Requests = {r1, r2}
    KeyOf <- OwnKeys
    Sweepers = {s1}
    BatchSize = 2
    Price = 1
    Funds = 1
    MaxTries = 1
    MaxFaults = 0
INVARIANTS UnobservedKeepsItsClaims
    
CHECK_DEADLOCK FALSE
