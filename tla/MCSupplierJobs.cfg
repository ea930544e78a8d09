SPECIFICATION FairSpec
CONSTANTS
    r1 = r1
    r2 = r2
    Runners = {r1, r2}
    MaxJobs = 2
    MaxAttempts = 2
    Faults = {"crash", "db", "config"}
CHECK_DEADLOCK FALSE
INVARIANT TypeOK
INVARIANT OneActiveJob
INVARIANT OneReservation
INVARIANT FinanceFollowsStatus
PROPERTY ClosedIsFrozen
PROPERTY RunnerFailsNothingHeld
PROPERTY JobsEnd
