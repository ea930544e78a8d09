SPECIFICATION Spec
CONSTANTS
    p1 = p1
    p2 = p2
    q1 = q1
    q2 = q2
    c1 = c1
    c2 = c2
    l1 = l1
    l2 = l2
    People = {p1, p2}
    Requests = {q1, q2}
    Limits = {l1, l2}
    Calls = {c1, c2}
    NoLimit = NoLimit
    Batch = 2
    Faults = {"crash", "run"}
SYMMETRY ApprovalSymmetry
INVARIANT UsedWhenApplied
PROPERTY StatusMovesForward
 
