-------------------------- MODULE MCInventoryHolds --------------------------
(* Small instances of InventoryHolds for TLC.                              *)
EXTENDS InventoryHolds, TLC

\* Allotment and unforced free sale, open or stopped.
MCTerms ==
    [mode : {"ALLOTMENT", "FREE_SALE"}, open : BOOLEAN, force : {FALSE}, cap : {NoCap}]

\* Allotment with and without a cap of one room.
MCCapTerms == [mode : {"ALLOTMENT"}, open : BOOLEAN, force : {FALSE}, cap : {NoCap, 1}]

MCStays == SUBSET Nights \ {{}}

HoldSymmetry == Permutations(Holds)
=============================================================================
