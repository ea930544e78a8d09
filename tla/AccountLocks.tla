---------------------------- MODULE AccountLocks ----------------------------
(***************************************************************************)
(* The locks the money and inventory transactions take, in the order their  *)
(* statements take them.  Each transaction is the sequence of the locks it  *)
(* requests: advisory locks (agency credit, agency account, posting of a    *)
(* booking), rows locked FOR UPDATE, rows updated, and rows a foreign key   *)
(* of an inserted row points at.  A transaction keeps what it took until it *)
(* commits or rolls back, as PostgreSQL does.                               *)
(*                                                                         *)
(* Amounts are left out: what a transaction writes decides no lock here,    *)
(* except the stage a booking and its hold have reached, which the code     *)
(* tests under its locks.  One booking has one hold and one paid receipt.   *)
(***************************************************************************)
EXTENDS Naturals, Sequences, FiniteSets, Functions

CONSTANTS
    Txns,       \* database sessions
    Bookings,
    AgencyOf,   \* the agency, hence the wallet, of each booking
    NightsOf,   \* the nights of each booking's hold, ascending
    Operations  \* the operations that run, see OperationNames

OperationNames ==
    {"createHold", "releaseHold", "openAccount", "authorize", "releaseFunds", "confirm", "cancel",
     "settle", "creditNote", "debit", "adjust", "setLimit", "fund", "reverse", "post"}

ASSUME LocksConstantsOK ==
    /\ IsFiniteSet(Txns) /\ IsFiniteSet(Bookings)
    /\ NightsOf \in [Bookings -> Seq(Nat)]
    /\ \A b \in Bookings : \A i, j \in DOMAIN NightsOf[b] : i < j => NightsOf[b][i] < NightsOf[b][j]
    /\ Operations \subseteq OperationNames

VARIABLES
    txn,    \* what each session is doing: its operation, the locks it holds, the locks it still needs
    stage   \* how far each booking and its hold have come, as committed

vars == <<txn, stage>>

Stages == {"none", "held", "released", "confirmed", "cancelled"}

(***************************************************************************)
(* Locks.  "update" is FOR UPDATE or an advisory lock, "noKey" is what an   *)
(* UPDATE of other columns takes, "keyShare" what a foreign key takes.      *)
(***************************************************************************)
Conflict(m, n) == "update" \in {m, n} \/ {m, n} = {"noKey"}

Lock(kind, id, mode) == [row |-> <<kind, id>>, mode |-> mode]

Credit(b)   == Lock("credit", AgencyOf[b], "update")    \* lockAgencyCredit
Account(b)  == Lock("account", AgencyOf[b], "update")   \* accountLockKey
Wallet(b)   == Lock("wallet", AgencyOf[b], "update")    \* lockWalletRow
Booking(b)  == Lock("booking", b, "update")
Receipt(b)  == Lock("receipt", b, "update")
Nights(s)   == [i \in DOMAIN s |-> Lock("night", s[i], "noKey")]

\* MUTANT of settleLocks: the wallet is locked before the booking it settles.
settleLocksSwapped(b) == <<Wallet(b), Booking(b)>>
settleLocks(b) == <<Booking(b), Wallet(b)>>
creditNoteLocks(b) == <<Booking(b), Wallet(b)>>
authorizeLocks(b) == <<Credit(b), Wallet(b)>>

\* A hold: credit check, the unique key of the insert, then each night; reserveNight locks the night FOR UPDATE.
createHoldLocks(b) ==
    <<Credit(b), Wallet(b), Lock("holdKey", b, "update")>>
        \o [i \in DOMAIN NightsOf[b] |-> Lock("night", NightsOf[b][i], "update")]

releaseHoldLocks(b) == <<Lock("hold", b, "noKey")>> \o Nights(NightsOf[b])

\* The nights are read without an ORDER BY: they come in any order.
confirmLocks(b, s) == <<Booking(b), Lock("hold", b, "update"), Wallet(b)>> \o Nights(s)
cancelLocks(b, s)  == <<Booking(b), Wallet(b)>> \o Nights(s) \o <<Lock("hold", b, "noKey")>>

\* The posting row, the payable and the cancellation it inserts point at the booking.
postLocks(b) ==
    <<Lock("posting", b, "update"), Account(b), Wallet(b), Lock("booking", b, "keyShare")>>

\* The entry points at the wallet, then the hash chain's trigger locks it.
fundLocks(b) ==
    <<Receipt(b), Account(b), Lock("wallet", AgencyOf[b], "keyShare"), Lock("wallet", AgencyOf[b], "noKey")>>

reverseLocks(b) == <<Receipt(b), Wallet(b)>>

NightOrders(b) == Bijection(DOMAIN NightsOf[b], Range(NightsOf[b]))

\* The lock sequences an operation on a booking may take.
Plans(op, b) ==
    CASE op = "createHold"   -> {createHoldLocks(b)}
      [] op = "releaseHold"  -> {releaseHoldLocks(b)}
      [] op = "openAccount"  -> {<<Account(b)>>}
      [] op = "authorize"    -> {authorizeLocks(b)}
      [] op = "releaseFunds" -> {<<Wallet(b)>>}
      [] op = "confirm"      -> {confirmLocks(b, s) : s \in NightOrders(b)}
      [] op = "cancel"       -> {cancelLocks(b, s) : s \in NightOrders(b)}
      [] op = "settle"       -> {settleLocks(b)}
      [] op = "creditNote"   -> {creditNoteLocks(b)}
      [] op = "debit"        -> {<<Credit(b), Wallet(b)>>}
      [] op = "adjust"       -> {<<Wallet(b)>>}
      [] op = "setLimit"     -> {<<Credit(b)>>}
      [] op = "fund"         -> {fundLocks(b)}
      [] op = "reverse"      -> {reverseLocks(b)}
      [] op = "post"         -> {postLocks(b)}

(***************************************************************************)
(* What an operation tests, and after which of its locks.                   *)
(***************************************************************************)
Admits(op) ==
    CASE op = "createHold"                 -> {"none"}
      [] op \in {"releaseHold", "confirm"} -> {"held"}
      [] op \in {"cancel", "creditNote"}   -> {"confirmed"}
      [] op = "settle"                     -> {"cancelled"}
      [] op = "post"                       -> {"confirmed", "cancelled"}  \* a finance event exists
      [] OTHER                             -> Stages

TestsAfter(op) ==
    CASE op = "createHold"                 -> "holdKey"
      [] op \in {"releaseHold", "confirm"} -> "hold"
      [] op = "post"                       -> "posting"
      [] OTHER                             -> "booking"

Passes(t) == stage[txn[t].booking] \in Admits(txn[t].op)

\* The stage a committed operation leaves.
Leaves(op, s) ==
    CASE op = "createHold"  -> "held"
      [] op = "releaseHold" -> "released"
      [] op = "confirm"     -> "confirmed"
      [] op = "cancel"      -> "cancelled"
      [] OTHER              -> s

-----------------------------------------------------------------------------
NoTxn == [op |-> "idle"]

Running(t) == txn[t] # NoTxn

\* UPDATE ... WHERE status IN (...) does not wait for a row whose committed status does not match.
Skips(t) == txn[t].op = "releaseHold" /\ txn[t].holds = {} /\ ~ Passes(t)

\* t waits for a lock u holds.
WaitsFor(t, u) ==
    /\ t # u /\ Running(t) /\ Running(u)
    /\ txn[t].needs # <<>> /\ ~ Skips(t)
    /\ \E l \in txn[u].holds :
           l.row = Head(txn[t].needs).row /\ Conflict(l.mode, Head(txn[t].needs).mode)

Init ==
    /\ txn = [t \in Txns |-> NoTxn]
    /\ stage = [b \in Bookings |-> "none"]

begin(t) ==
    /\ ~ Running(t)
    /\ \E op \in Operations, b \in Bookings : \E p \in Plans(op, b) :
           txn' = [txn EXCEPT ![t] = [op |-> op, booking |-> b, holds |-> {}, needs |-> p]]
    /\ UNCHANGED stage

\* A transaction with its next lock granted.
Granted(x) == [x EXCEPT !.holds = @ \cup {Head(x.needs)}, !.needs = Tail(@)]

\* The next lock is free.  The test that follows it decides whether the transaction goes on.
takeLock(t) ==
    /\ Running(t) /\ txn[t].needs # <<>> /\ ~ Skips(t)
    /\ \A u \in Txns : ~ WaitsFor(t, u)
    /\ txn' = [txn EXCEPT ![t] =
           IF Head(@.needs).row[1] = TestsAfter(@.op) /\ ~ Passes(t) THEN NoTxn ELSE Granted(@)]
    /\ UNCHANGED stage

commit(t) ==
    /\ Running(t) /\ txn[t].needs = <<>>
    /\ stage' = [stage EXCEPT ![txn[t].booking] = Leaves(txn[t].op, @)]
    /\ txn' = [txn EXCEPT ![t] = NoTxn]

\* A refusal, an early return, an error or a lost connection.
rollback(t) ==
    /\ Running(t)
    /\ txn' = [txn EXCEPT ![t] = NoTxn]
    /\ UNCHANGED stage

Next == \E t \in Txns : begin(t) \/ takeLock(t) \/ commit(t) \/ rollback(t)

Spec == Init /\ [][Next]_vars

-----------------------------------------------------------------------------
(***************************************************************************)
(* No set of transactions in which each waits for another of the set: the   *)
(* orders in which confirmation, cancellation, settlement, holds, credit    *)
(* notes and the agency account's operations take their locks never close a *)
(* cycle, so PostgreSQL never has to abort one of them (ADR 0075: a path    *)
(* out of order and "two transactions can deadlock").                       *)
(***************************************************************************)
NoDeadlock ==
    \A S \in (SUBSET Txns) \ {{}} : \E t \in S : \A u \in S : ~ WaitsFor(t, u)
=============================================================================
