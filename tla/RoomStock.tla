----------------------------- MODULE RoomStock -----------------------------
(***************************************************************************)
(* What the inventory promises, with no counters in it: a night's stock is *)
(* a capacity, and what is out of it is exactly the rooms of the holds     *)
(* that drew on it and have not given them back.  A hold is taken only if  *)
(* its rooms fit on every counter it draws on; it then moves forward or is *)
(* given back, once; a capacity never drops below what is out.             *)
(*                                                                         *)
(* InventoryHolds, the code's design with running held/sold counters, a    *)
(* sweeper and administrators, is shown to implement this module.          *)
(***************************************************************************)
EXTENDS Naturals, FiniteSets

CONSTANTS Counters,   \* plan rows and pool days, each for one night
          Holds,      \* hold identifiers
          MaxRooms    \* the largest room quantity one hold may take

VARIABLES status,     \* the life of each hold
          draw,       \* the counters each hold drew on
          rooms,      \* the rooms it drew on each of them
          capacity    \* the stock of each counter

vars == <<status, draw, rooms, capacity>>

\* Statuses in which a hold still occupies the stock it drew.
Occupying == {"HELD", "PROCESSING", "CONFIRMED"}

\* The rooms of the holds in S, as a set of units so that it can be counted.
UnitsOf(S, q) == {u \in S \X (1..MaxRooms) : u[2] <= q[u[1]]}

Out(c) == Cardinality(UnitsOf({h \in Holds : status[h] \in Occupying /\ c \in draw[h]}, rooms))

Init ==
    /\ status = [h \in Holds |-> "NONE"]
    /\ draw = [h \in Holds |-> {}]
    /\ rooms = [h \in Holds |-> 0]
    /\ capacity \in [Counters -> Nat]

Take(h, D, q) ==
    /\ status[h] = "NONE"
    /\ \A c \in D : Out(c) + q <= capacity[c]
    /\ status' = [status EXCEPT ![h] = "HELD"]
    /\ draw' = [draw EXCEPT ![h] = D]
    /\ rooms' = [rooms EXCEPT ![h] = q]
    /\ UNCHANGED capacity

Claim(h) ==
    /\ status[h] = "HELD"
    /\ status' = [status EXCEPT ![h] = "PROCESSING"]
    /\ UNCHANGED <<draw, rooms, capacity>>

Sell(h) ==
    /\ status[h] = "PROCESSING"
    /\ status' = [status EXCEPT ![h] = "CONFIRMED"]
    /\ UNCHANGED <<draw, rooms, capacity>>

\* An unclaimed hold may lapse; a claimed or sold one is only ever released.
GiveBack(h, to) ==
    /\ status[h] \in Occupying
    /\ to = "EXPIRED" => status[h] = "HELD"
    /\ status' = [status EXCEPT ![h] = to]
    /\ UNCHANGED <<draw, rooms, capacity>>

\* One counter gets another capacity, never below what is out.
Resize(c) ==
    /\ capacity' \in [Counters -> Nat]
    /\ \A x \in Counters \ {c} : capacity'[x] = capacity[x]
    /\ Out(c) <= capacity'[c]
    /\ UNCHANGED <<status, draw, rooms>>

Next ==
    \/ \E h \in Holds, D \in SUBSET Counters, q \in 1..MaxRooms : Take(h, D, q)
    \/ \E h \in Holds : Claim(h) \/ Sell(h)
    \/ \E h \in Holds, to \in {"RELEASED", "EXPIRED"} : GiveBack(h, to)
    \/ \E c \in Counters : Resize(c)

Spec == Init /\ [][Next]_vars
=============================================================================
