--------------------------- MODULE MCSupplierJobs ---------------------------
(***************************************************************************)
(* A small instance of SupplierJobs: two runners that share a table of jobs *)
(* for one booking.                                                         *)
(***************************************************************************)
EXTENDS SupplierJobs

CONSTANTS r1, r2
=============================================================================
