--------------------------- MODULE MCBookingMoney ---------------------------
(***************************************************************************)
(* A small instance of BookingMoney: a booking of two minor units, so that  *)
(* a penalty can be nothing, a part and all of it, and two operators.       *)
(***************************************************************************)
EXTENDS BookingMoney

CONSTANTS o1, o2
=============================================================================
