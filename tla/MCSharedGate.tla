---------------------------- MODULE MCSharedGate ----------------------------
(***************************************************************************)
(* A small instance of SharedGate: five slot ids for three permits, so that *)
(* a lapsed permit's id is still around when its place is taken.            *)
(***************************************************************************)
EXTENDS SharedGate

CONSTANTS s1, s2, s3, s4, s5
=============================================================================
