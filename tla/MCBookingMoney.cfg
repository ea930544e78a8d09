SPECIFICATION FairSpec
CONSTANTS
    o1 = o1
    o2 = o2
    Sell = 2
    Sells = {1, 2}
    Net = 1
    Operators = {o1, o2}
    MaxEvents = 4
CHECK_DEADLOCK FALSE
INVARIANT TypeOK
INVARIANT BooksTieOut
 
 
