--------------------------- MODULE MCAgencyRecords ---------------------------
(***************************************************************************)
(* Instances of AgencyRecords.  People and request ids are interchangeable. *)
(***************************************************************************)
EXTENDS AgencyRecords, TLC

CONSTANTS p1, p2, p3, q1, q2

PersonSymmetry == Permutations(People) \cup Permutations(Requests)
=============================================================================
