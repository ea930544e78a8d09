--------------------------- MODULE BookingOutcome ---------------------------
(***************************************************************************)
(* What the booking flow promises an agency about its money, with no        *)
(* requests, journal, retries or recovery in it: each booking reserves its  *)
(* price once, within the wallet; the reservation is then either returned   *)
(* or becomes the charge, and only one booking is charged for a hold; a     *)
(* charge is refunded at most in full and never taken back.                 *)
(*                                                                         *)
(* BookingSaga is shown to implement this module.                           *)
(***************************************************************************)
EXTENDS Integers, FiniteSets

CONSTANTS Bookings, HoldOf, Price, Funds

VARIABLES money,    \* "none", "reserved", "returned" or "charged", per booking
          refunds   \* the refunded units of each booking, one by one

vars == <<money, refunds>>

\* What the wallet has given away.
Spent == Price * Cardinality({b \in Bookings : money[b] \in {"reserved", "charged"}})
            - Cardinality(refunds)

Init ==
    /\ money = [b \in Bookings |-> "none"]
    /\ refunds = {}

Reserve(b) ==
    /\ money[b] = "none"
    /\ Spent + Price <= Funds
    /\ money' = [money EXCEPT ![b] = "reserved"]
    /\ UNCHANGED refunds

Return(b) ==
    /\ money[b] = "reserved"
    /\ money' = [money EXCEPT ![b] = "returned"]
    /\ UNCHANGED refunds

Charge(b) ==
    /\ money[b] = "reserved"
    /\ \A c \in Bookings : HoldOf[c] = HoldOf[b] => money[c] # "charged"
    /\ money' = [money EXCEPT ![b] = "charged"]
    /\ UNCHANGED refunds

\* The refunded amount grows to n units.
Refund(b, n) ==
    /\ money[b] = "charged"
    /\ refunds' = refunds \cup ({b} \X (1..n))
    /\ UNCHANGED money

Next ==
    \E b \in Bookings : Reserve(b) \/ Return(b) \/ Charge(b) \/ \E n \in 1..Price : Refund(b, n)

Spec == Init /\ [][Next]_vars
=============================================================================
