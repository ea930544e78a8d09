SPECIFICATION Spec
CONSTANTS
    b1 = b1
    b2 = b2
    h1 = h1
    h2 = h2
    r1 = r1
    r2 = r2
    Bookings = {b1, b2}
    Holds = {h1}
    HoldOf <- OneHold
    Requests = {r1, r2}
    KeyOf <- OwnKeys
    Sweepers = {s1}
    BatchSize = 1
    Price = 1
    Funds = 1
    MaxTries = 2
    MaxFaults = 1
INVARIANTS HoldChargedOnce NeverOverdrawn
CHECK_DEADLOCK FALSE
