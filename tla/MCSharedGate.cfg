SPECIFICATION FairSpec
CONSTANTS
    s1 = s1
    s2 = s2
    s3 = s3
    s4 = s4
    s5 = s5
    None = None
    SlotIds = {s1, s2, s3, s4, s5}
    MaxConcurrent = 3
    FailureThreshold = 3
    OpenTicks = 2
PROPERTY KeepsTheContract
PROPERTY ProbesAgain
