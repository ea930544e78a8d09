SPECIFICATION Spec
CONSTANTS
    b1 = b1
    b2 = b2
    h1 = h1
    h2 = h2
    r1 = r1
    r2 = r2
    Bookings = {b1}
    Holds = {h1}
    HoldOf <- OneKey
    Requests = {r1, r2}
    KeyOf <- SameKey
    Sweepers = {s1, s2}
    BatchSize = 1
    Price = 2
    Funds = 3
    MaxTries = 2
    MaxFaults = 0
INVARIANTS TypeOK CalledAtMostOnce  ChargeHasItsRooms RefundWithinCharge
PROPERTIES ImplementsBookingOutcome
CHECK_DEADLOCK FALSE
