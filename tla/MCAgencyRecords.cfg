SPECIFICATION Spec
CONSTANTS
    p1 = p1
    p2 = p2
    p3 = p3
    q1 = q1
    q2 = q2
    People = {p1, p2, p3}
    Requests = {q1, q2}
    Kinds = {"REVERSAL", "COMMISSION", "CREDIT_NOTE"}
    Paid = 2
    Charge = 2
SYMMETRY PersonSymmetry
CHECK_DEADLOCK FALSE
INVARIANT EntriesAreDecided
INVARIANT GivenBackWithinPaid
