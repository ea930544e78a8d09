SPECIFICATION FairSpec
CONSTANTS
    Plans = {p1}
    Pools = {}
    Nights = {1, 2}
    Holds = {h1, h2}
    Stays <- MCStays
    Terms <- MCCapTerms
    MaxRooms = 1
    MaxCapacity = 1
    BatchSize = 1
    MaxCrashes = 1
    NoPool = NoPool
    NoCap = NoCap
PROPERTIES LapsedHoldsAreGivenBack
CHECK_DEADLOCK FALSE
