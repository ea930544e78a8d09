--------------------------- MODULE MCAccountLocks ---------------------------
(***************************************************************************)
(* Instances of AccountLocks: three sessions and two bookings of different  *)
(* agencies whose stays meet on one night.                                  *)
(***************************************************************************)
EXTENDS AccountLocks, TLC

CONSTANTS t1, t2, t3, b1, b2

OneNightShared == (b1 :> <<1, 2>>) @@ (b2 :> <<2, 3>>)
TwoAgencies    == (b1 :> "a1") @@ (b2 :> "a2")

\* Every operation but the finance posting worker's.
WithoutPosting == OperationNames \ {"post"}

SessionSymmetry == Permutations(Txns)
=============================================================================
