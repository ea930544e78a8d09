----------------------------- MODULE MCApprovals -----------------------------
(***************************************************************************)
(* A small instance of Approvals: people, requests, calls and limits are    *)
(* interchangeable.                                                         *)
(***************************************************************************)
EXTENDS Approvals, TLC

CONSTANTS p1, p2, q1, q2, c1, c2, l1, l2

ApprovalSymmetry ==
    Permutations(People) \cup Permutations(Requests) \cup Permutations(Calls) \cup Permutations(Limits)
=============================================================================
