SPECIFICATION Spec
CONSTANTS
    Plans = {p1}
    Pools = {q1}
    Nights = {1}
    Holds = {h1, h2}
    Stays <- MCStays
    Terms <- MCTerms
    MaxRooms = 2
    MaxCapacity = 2
    BatchSize = 1
    MaxCrashes = 0
    NoPool = NoPool
    NoCap = NoCap
SYMMETRY HoldSymmetry
INVARIANTS TypeOK CountersMatchHolds NeverOversold MovesNeverRefused
PROPERTIES ClaimedHoldIsSafe GivenBackIsFinal ImplementsRoomStock
CHECK_DEADLOCK FALSE
