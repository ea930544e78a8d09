------------------------- MODULE AccountLocksProofs -------------------------
(***************************************************************************)
(* Theorems about AccountLocks, for every number of sessions, bookings,     *)
(* agencies and nights.  Without the posting worker every operation takes   *)
(* its locks along one order of their kinds (Rank), with three exceptions:  *)
(* the nights among themselves, the second wallet lock of a funding, and    *)
(* the hold that a cancellation updates last.  The last two never wait, for *)
(* reasons that lie in the locks already held and in the stage of the       *)
(* booking; so whoever deadlocks, deadlocks on nights.                      *)
(***************************************************************************)
EXTENDS AccountLocks, FiniteSetTheorems, SequenceTheorems, WellFoundedInduction, TLAPS

Kinds == {"booking", "receipt", "hold", "credit", "account", "wallet", "holdKey", "night", "posting"}
Ids == Bookings \cup Nat \cup {AgencyOf[b] : b \in Bookings}
Locks == [row : Kinds \X Ids, mode : {"update", "noKey", "keyShare"}]

\* The order of ADR 0075, from the first lock of a transaction to the last.
Rank(l) ==
    CASE l.row[1] \in {"booking", "receipt"} -> 1
      [] l.row[1] = "hold"    -> 2
      [] l.row[1] = "credit"  -> 3
      [] l.row[1] = "account" -> 4
      [] l.row[1] = "wallet"  -> 5
      [] l.row[1] = "holdKey" -> 6
      [] OTHER                -> 7

\* The operations that move the stage of a booking, each under the lock after which it tests that stage.
Changing == {"createHold", "releaseHold", "confirm", "cancel"}

IsNight(l) == l.row[1] = "night"

-----------------------------------------------------------------------------
(* The plans.                                                               *)

\* What the proofs need to know of the sequence p of locks of an operation on b.
InOrder(op, b, p) ==
    \A i, j \in 1..Len(p) : i < j =>
        \/ Rank(p[i]) < Rank(p[j])
        \/ op = "cancel" /\ p[j] = Lock("hold", b, "noKey")
        \/ op = "fund" /\ i = 3 /\ j = 4
        \/ IsNight(p[i]) /\ IsNight(p[j]) /\ p[i].row # p[j].row

TestsFirst(op, b, p) ==
    /\ op \in Changing => \E i \in 1..Len(p) : p[i].row[1] = TestsAfter(op)
    /\ op \in Changing => \A i \in 1..Len(p) :
           p[i].row[1] = TestsAfter(op) => p[i].row[2] = b /\ p[i].mode \in {"update", "noKey"}
    /\ \A j \in 1..Len(p) : p[j].row[1] \in {"hold", "night"} =>
           op \in Changing /\ \E i \in 1..j : p[i].row[1] = TestsAfter(op) /\ (op = "cancel" => i < j)

RowsOf(op, b, p) ==
    \A i \in 1..Len(p) :
        /\ IsNight(p[i]) => p[i].row[2] \in Range(NightsOf[b])
        /\ p[i].row[1] = "hold" => p[i].row[2] = b
        /\ p[i].row[1] = "wallet" /\ p[i].mode = "noKey" => op = "fund" /\ i = 4

PlanOK(op, b, p) == p \in Seq(Locks) /\ InOrder(op, b, p) /\ TestsFirst(op, b, p) /\ RowsOf(op, b, p)

\* The nights of a hold in the order s, as locks.
LEMMA NightLocks ==
    ASSUME NEW b \in Bookings, NEW s \in NightOrders(b) \cup {NightsOf[b]}, NEW mode \in {"update", "noKey"},
           NEW q, q = [i \in DOMAIN s |-> Lock("night", s[i], mode)]
    PROVE  /\ q \in Seq(Locks) /\ Len(q) \in Nat
           /\ \A i \in 1..Len(q) : q[i].row[1] = "night" /\ q[i].row[2] \in Range(NightsOf[b])
           /\ \A i, j \in 1..Len(q) : i < j => q[i].row # q[j].row
<1> DEFINE n == Len(NightsOf[b])
<1>1. NightsOf[b] \in Seq(Nat) /\ n \in Nat /\ DOMAIN NightsOf[b] = 1..n /\ \A i \in 1..n : NightsOf[b][i] \in Nat
    BY LocksConstantsOK
<1>2. \A i, j \in 1..n : i # j => NightsOf[b][i] # NightsOf[b][j]
    BY <1>1, LocksConstantsOK
<1>3. DOMAIN s = 1..n /\ (\A i \in 1..n : s[i] \in Range(NightsOf[b])) /\ \A i, j \in 1..n : i # j => s[i] # s[j]
    BY <1>1, <1>2 DEF NightOrders, Bijection, Injection, Surjection, IsInjective, Range
<1>4. Range(NightsOf[b]) \subseteq Nat
    BY <1>1 DEF Range
<1>5. \A i \in 1..n : Lock("night", s[i], mode) \in Locks
    BY <1>3, <1>4 DEF Lock, Locks, Ids, Kinds
<1>6. q \in Seq(Locks) /\ Len(q) = n
    BY <1>1, <1>3, <1>5
<1>7. \A i \in 1..n : q[i].row = <<"night", s[i]>> /\ q[i].mode = mode
    BY <1>3 DEF Lock
<1> HIDE DEF n
<1>8. \A i \in 1..n : q[i].row[1] = "night" /\ q[i].row[2] = s[i]
    BY <1>7
<1>9. \A i, j \in 1..n : i < j => q[i].row # q[j].row
    BY <1>1, <1>3, <1>8
<1> QED BY <1>1, <1>3, <1>6, <1>8, <1>9

\* A few locks of its own, then the nights: an order of the head is an order of the whole.
LEMMA HeadThenNights ==
    ASSUME NEW op \in Changing, NEW b \in Bookings, NEW h \in Seq(Locks), NEW q \in Seq(Locks),
           \A i, j \in 1..Len(h) : i < j => Rank(h[i]) < Rank(h[j]),
           \A i \in 1..Len(h) : Rank(h[i]) < 7 /\ ~IsNight(h[i]),
           \A i \in 1..Len(q) : IsNight(q[i]) /\ q[i].row[2] \in Range(NightsOf[b]),
           \A i, j \in 1..Len(q) : i < j => q[i].row # q[j].row,
           \A i \in 1..Len(h) : h[i].row[1] = "hold" => h[i].row[2] = b /\ op # "cancel" /\ TestsAfter(op) = "hold",
           \A i \in 1..Len(h) : h[i].row[1] = "wallet" => h[i].mode # "noKey",
           \A i \in 1..Len(h) : h[i].row[1] = TestsAfter(op) => h[i].row[2] = b /\ h[i].mode \in {"update", "noKey"},
           \E i \in 1..Len(h) : h[i].row[1] = TestsAfter(op)
    PROVE  PlanOK(op, b, h \o q)
<1> DEFINE p == h \o q
<1>1. p \in Seq(Locks) /\ Len(p) = Len(h) + Len(q) /\ Len(h) \in Nat /\ Len(q) \in Nat
    BY ConcatProperties, LenProperties
<1>2. \A i \in 1..Len(p) : (i \in 1..Len(h) /\ p[i] = h[i]) \/ (i > Len(h) /\ i - Len(h) \in 1..Len(q) /\ p[i] = q[i - Len(h)])
    BY <1>1, ConcatProperties
<1>3. \A i \in 1..Len(h) : i \in 1..Len(p) /\ p[i] = h[i]
    BY <1>1, ConcatProperties
<1> HIDE DEF p
<1>4. TestsAfter(op) # "night"
    BY DEF TestsAfter, Changing
<1>5. \A i \in 1..Len(q) : Rank(q[i]) = 7
    BY DEF Rank, IsNight
<1>6. InOrder(op, b, p)
    <2> SUFFICES ASSUME NEW i \in 1..Len(p), NEW j \in 1..Len(p), i < j
                 PROVE  Rank(p[i]) < Rank(p[j]) \/ (IsNight(p[i]) /\ IsNight(p[j]) /\ p[i].row # p[j].row)
        BY DEF InOrder
    <2>1. CASE i > Len(h)
        <3>1. j - Len(h) \in 1..Len(q) /\ i - Len(h) \in 1..Len(q) /\ i - Len(h) < j - Len(h)
            BY <1>1, <1>2, <2>1
        <3>2. p[i] = q[i - Len(h)] /\ p[j] = q[j - Len(h)]
            BY <1>1, <1>2, <2>1
        <3> QED BY <3>1, <3>2
    <2>2. CASE i <= Len(h) /\ j > Len(h)
        <3>1. i \in 1..Len(h) /\ p[i] = h[i] /\ j - Len(h) \in 1..Len(q) /\ p[j] = q[j - Len(h)]
            BY <1>1, <1>2, <2>2
        <3> QED BY <1>5, <3>1
    <2>3. CASE j <= Len(h)
        BY <1>1, <1>2, <2>3
    <2> QED BY <1>1, <2>1, <2>2, <2>3
<1>7. TestsFirst(op, b, p)
    <2>1. PICK m \in 1..Len(h) : h[m].row[1] = TestsAfter(op)
        OBVIOUS
    <2>2. \A i \in 1..Len(p) : p[i].row[1] = TestsAfter(op) => p[i].row[2] = b /\ p[i].mode \in {"update", "noKey"}
        BY <1>2, <1>4 DEF IsNight
    <2>3. ASSUME NEW j \in 1..Len(p), p[j].row[1] \in {"hold", "night"}
          PROVE  \E i \in 1..j : p[i].row[1] = TestsAfter(op) /\ (op = "cancel" => i < j)
        <3>1. CASE j <= Len(h)
            BY <1>1, <1>2, <2>3, <3>1 DEF IsNight
        <3>2. CASE j > Len(h)
            <4>1. m \in 1..j /\ m < j /\ p[m].row[1] = TestsAfter(op)
                BY <1>1, <1>3, <2>1, <3>2
            <4> QED BY <4>1
        <3> QED BY <1>1, <3>1, <3>2
    <2> QED BY <1>3, <2>1, <2>2, <2>3 DEF TestsFirst
<1>8. RowsOf(op, b, p)
    BY <1>2 DEF RowsOf, IsNight
<1> QED BY <1>1, <1>6, <1>7, <1>8 DEF p, PlanOK

LEMMA CreateHoldPlan == ASSUME NEW b \in Bookings PROVE PlanOK("createHold", b, createHoldLocks(b))
<1> DEFINE h == <<Credit(b), Wallet(b), Lock("holdKey", b, "update")>>
<1>q. PICK q : q = [i \in DOMAIN NightsOf[b] |-> Lock("night", NightsOf[b][i], "update")]
    OBVIOUS
<1>1. h \in Seq(Locks) /\ Len(h) = 3
    BY DEF Credit, Wallet, Lock, Locks, Ids, Kinds
<1>2. \A i \in 1..3 : Rank(h[i]) < 7 /\ ~IsNight(h[i]) /\ h[i].row[1] # "hold" /\ h[i].mode # "noKey"
    BY DEF Credit, Wallet, Lock, Rank, IsNight
<1>3. \A i, j \in 1..3 : i < j => Rank(h[i]) < Rank(h[j])
    BY DEF Credit, Wallet, Lock, Rank
<1>4. \A i \in 1..3 : h[i].row[1] = "holdKey" <=> i = 3
    BY DEF Credit, Wallet, Lock
<1>5. h[3].row[2] = b /\ h[3].mode = "update"
    BY DEF Lock
<1>6. /\ q \in Seq(Locks) /\ Len(q) \in Nat
      /\ \A i \in 1..Len(q) : q[i].row[1] = "night" /\ q[i].row[2] \in Range(NightsOf[b])
      /\ \A i, j \in 1..Len(q) : i < j => q[i].row # q[j].row
    BY <1>q, NightLocks
<1>7. createHoldLocks(b) = h \o q
    BY <1>q DEF createHoldLocks
<1>8. TestsAfter("createHold") = "holdKey" /\ "createHold" \in Changing
    BY DEF TestsAfter, Changing
<1> HIDE DEF h
<1>9. /\ \A i \in 1..Len(q) : IsNight(q[i]) /\ q[i].row[2] \in Range(NightsOf[b])
      /\ \A i \in 1..Len(h) : h[i].row[1] = TestsAfter("createHold") => h[i].row[2] = b /\ h[i].mode \in {"update", "noKey"}
      /\ \E i \in 1..Len(h) : h[i].row[1] = TestsAfter("createHold")
    BY <1>1, <1>4, <1>5, <1>6, <1>8 DEF IsNight
<1>10. PlanOK("createHold", b, h \o q)
    BY <1>1, <1>2, <1>3, <1>6, <1>8, <1>9, HeadThenNights
<1> QED BY <1>7, <1>10

LEMMA ReleaseHoldPlan == ASSUME NEW b \in Bookings PROVE PlanOK("releaseHold", b, releaseHoldLocks(b))
<1> DEFINE h == <<Lock("hold", b, "noKey")>>
<1>q. PICK q : q = [i \in DOMAIN NightsOf[b] |-> Lock("night", NightsOf[b][i], "noKey")]
    OBVIOUS
<1>1. h \in Seq(Locks) /\ Len(h) = 1
    BY DEF Lock, Locks, Ids, Kinds
<1>2. h[1].row[1] = "hold" /\ h[1].row[2] = b /\ h[1].mode = "noKey" /\ Rank(h[1]) < 7
    BY DEF Lock, Rank
<1>3. /\ q \in Seq(Locks) /\ Len(q) \in Nat
      /\ \A i \in 1..Len(q) : q[i].row[1] = "night" /\ q[i].row[2] \in Range(NightsOf[b])
      /\ \A i, j \in 1..Len(q) : i < j => q[i].row # q[j].row
    BY <1>q, NightLocks
<1>4. releaseHoldLocks(b) = h \o q
    BY <1>q DEF releaseHoldLocks, Nights
<1>5. TestsAfter("releaseHold") = "hold" /\ "releaseHold" \in Changing
    BY DEF TestsAfter, Changing
<1> HIDE DEF h
<1>6. /\ \A i \in 1..Len(q) : IsNight(q[i]) /\ q[i].row[2] \in Range(NightsOf[b])
      /\ \A i, j \in 1..Len(h) : i < j => Rank(h[i]) < Rank(h[j])
      /\ \A i \in 1..Len(h) : Rank(h[i]) < 7 /\ ~IsNight(h[i]) /\ h[i].row[1] # "wallet"
      /\ \A i \in 1..Len(h) : h[i].row[2] = b /\ h[i].mode \in {"update", "noKey"}
      /\ \E i \in 1..Len(h) : h[i].row[1] = TestsAfter("releaseHold")
    BY <1>1, <1>2, <1>3, <1>5 DEF IsNight
<1>7. PlanOK("releaseHold", b, h \o q)
    BY <1>1, <1>3, <1>5, <1>6, HeadThenNights
<1> QED BY <1>4, <1>7

LEMMA ConfirmPlan ==
    ASSUME NEW b \in Bookings, NEW s \in NightOrders(b)
    PROVE  PlanOK("confirm", b, confirmLocks(b, s))
<1> DEFINE h == <<Booking(b), Lock("hold", b, "update"), Wallet(b)>>
<1>q. PICK q : q = [i \in DOMAIN s |-> Lock("night", s[i], "noKey")]
    OBVIOUS
<1>1. h \in Seq(Locks) /\ Len(h) = 3
    BY DEF Booking, Wallet, Lock, Locks, Ids, Kinds
<1>2. \A i \in 1..3 : Rank(h[i]) < 7 /\ ~IsNight(h[i]) /\ h[i].mode = "update"
    BY DEF Booking, Wallet, Lock, Rank, IsNight
<1>3. \A i, j \in 1..3 : i < j => Rank(h[i]) < Rank(h[j])
    BY DEF Booking, Wallet, Lock, Rank
<1>4. \A i \in 1..3 : h[i].row[1] = "hold" <=> i = 2
    BY DEF Booking, Wallet, Lock
<1>5. h[2].row[2] = b
    BY DEF Lock
<1>6. /\ q \in Seq(Locks) /\ Len(q) \in Nat
      /\ \A i \in 1..Len(q) : q[i].row[1] = "night" /\ q[i].row[2] \in Range(NightsOf[b])
      /\ \A i, j \in 1..Len(q) : i < j => q[i].row # q[j].row
    BY <1>q, NightLocks
<1>7. confirmLocks(b, s) = h \o q
    BY <1>q DEF confirmLocks, Nights
<1>8. TestsAfter("confirm") = "hold" /\ "confirm" \in Changing
    BY DEF TestsAfter, Changing
<1> HIDE DEF h
<1>9. /\ \A i \in 1..Len(q) : IsNight(q[i]) /\ q[i].row[2] \in Range(NightsOf[b])
      /\ \A i \in 1..Len(h) : h[i].row[1] = "hold" => h[i].row[2] = b
      /\ \A i \in 1..Len(h) : h[i].mode = "update" /\ h[i].mode # "noKey" /\ h[i].mode \in {"update", "noKey"}
      /\ \E i \in 1..Len(h) : h[i].row[1] = TestsAfter("confirm")
    BY <1>1, <1>2, <1>4, <1>5, <1>6, <1>8 DEF IsNight
<1>10. PlanOK("confirm", b, h \o q)
    BY <1>1, <1>2, <1>3, <1>6, <1>8, <1>9, HeadThenNights
<1> QED BY <1>7, <1>10

\* A cancellation: booking, wallet and nights in order, then the hold.
LEMMA CancelPlan ==
    ASSUME NEW b \in Bookings, NEW s \in NightOrders(b)
    PROVE  PlanOK("cancel", b, cancelLocks(b, s))
<1> DEFINE h == <<Booking(b), Wallet(b)>>
           e == <<Lock("hold", b, "noKey")>>
<1>q. PICK q : q = [i \in DOMAIN s |-> Lock("night", s[i], "noKey")]
    OBVIOUS
<1>1. h \in Seq(Locks) /\ Len(h) = 2 /\ e \in Seq(Locks) /\ Len(e) = 1 /\ e[1] = Lock("hold", b, "noKey")
    BY DEF Booking, Wallet, Lock, Locks, Ids, Kinds
<1>2. \A i \in 1..2 : Rank(h[i]) < 7 /\ ~IsNight(h[i]) /\ h[i].mode = "update" /\ h[i].row[1] # "hold"
    BY DEF Booking, Wallet, Lock, Rank, IsNight
<1>3. \A i, j \in 1..2 : i < j => Rank(h[i]) < Rank(h[j])
    BY DEF Booking, Wallet, Lock, Rank
<1>4. \A i \in 1..2 : h[i].row[1] = "booking" <=> i = 1
    BY DEF Booking, Wallet, Lock
<1>5. h[1].row[2] = b
    BY DEF Booking, Lock
<1>6. /\ q \in Seq(Locks) /\ Len(q) \in Nat
      /\ \A i \in 1..Len(q) : q[i].row[1] = "night" /\ q[i].row[2] \in Range(NightsOf[b])
      /\ \A i, j \in 1..Len(q) : i < j => q[i].row # q[j].row
    BY <1>q, NightLocks
<1>7. cancelLocks(b, s) = (h \o q) \o e
    BY <1>q DEF cancelLocks, Nights
<1>8. TestsAfter("cancel") = "booking" /\ "cancel" \in Changing
    BY DEF TestsAfter, Changing
<1>9. e[1].row[1] = "hold" /\ e[1].row[2] = b
    BY DEF Lock
<1> HIDE DEF h, e
<1>10. /\ \A i \in 1..Len(q) : IsNight(q[i]) /\ q[i].row[2] \in Range(NightsOf[b])
       /\ \A i \in 1..Len(h) : h[i].row[1] = TestsAfter("cancel") => h[i].row[2] = b
       /\ \A i \in 1..Len(h) : h[i].mode = "update" /\ h[i].mode # "noKey" /\ h[i].mode \in {"update", "noKey"}
       /\ \E i \in 1..Len(h) : h[i].row[1] = TestsAfter("cancel")
    BY <1>1, <1>2, <1>4, <1>5, <1>6, <1>8 DEF IsNight
<1>g. PICK g : g = h \o q
    OBVIOUS
<1>11. PlanOK("cancel", b, g)
    BY <1>1, <1>2, <1>3, <1>6, <1>8, <1>10, <1>g, HeadThenNights
<1>p. PICK p : p = g \o e
    OBVIOUS
<1>12. g \in Seq(Locks) /\ p \in Seq(Locks) /\ Len(g) \in Nat /\ Len(p) = Len(g) + 1
    BY <1>1, <1>11, <1>p, ConcatProperties, LenProperties DEF PlanOK
<1>13. (\A i \in 1..Len(g) : p[i] = g[i]) /\ p[Len(g) + 1] = e[1]
    BY <1>1, <1>12, <1>p, ConcatProperties
<1>14. \A i \in 1..Len(p) : (i \in 1..Len(g) /\ p[i] = g[i]) \/ (i = Len(g) + 1 /\ p[i] = e[1])
    BY <1>12, <1>13
<1>15. InOrder("cancel", b, p)
    <2> SUFFICES ASSUME NEW i \in 1..Len(p), NEW j \in 1..Len(p), i < j
                 PROVE  \/ Rank(p[i]) < Rank(p[j])
                        \/ p[j] = Lock("hold", b, "noKey")
                        \/ IsNight(p[i]) /\ IsNight(p[j]) /\ p[i].row # p[j].row
        BY DEF InOrder
    <2>1. CASE j = Len(g) + 1
        BY <1>1, <1>13, <2>1
    <2>2. CASE j # Len(g) + 1
        <3>1. i \in 1..Len(g) /\ j \in 1..Len(g) /\ p[i] = g[i] /\ p[j] = g[j]
            BY <1>12, <1>14, <2>2
        <3> QED BY <1>11, <3>1 DEF PlanOK, InOrder
    <2> QED BY <2>1, <2>2
<1>16. TestsFirst("cancel", b, p)
    <2>1. PICK m \in 1..Len(g) : g[m].row[1] = "booking"
        BY <1>8, <1>11 DEF PlanOK, TestsFirst
    <2>2. ASSUME NEW j \in 1..Len(p), p[j].row[1] \in {"hold", "night"}
          PROVE  \E i \in 1..j : p[i].row[1] = "booking" /\ i < j
        <3>1. CASE j = Len(g) + 1
            BY <1>12, <1>13, <2>1, <3>1
        <3>2. CASE j # Len(g) + 1
            <4>1. j \in 1..Len(g) /\ p[j] = g[j]
                BY <1>14, <3>2
            <4>2. PICK i \in 1..j : g[i].row[1] = "booking" /\ i < j
                BY <1>8, <1>11, <2>2, <4>1 DEF PlanOK, TestsFirst
            <4>3. p[i] = g[i]
                BY <1>12, <1>13, <4>1
            <4> QED BY <4>2, <4>3
        <3> QED BY <3>1, <3>2
    <2>3. \A i \in 1..Len(p) : p[i].row[1] = "booking" => p[i].row[2] = b /\ p[i].mode \in {"update", "noKey"}
        BY <1>8, <1>9, <1>11, <1>14 DEF PlanOK, TestsFirst
    <2>4. \E i \in 1..Len(p) : p[i].row[1] = "booking"
        BY <1>12, <1>13, <2>1
    <2> QED BY <1>8, <2>2, <2>3, <2>4 DEF TestsFirst
<1>17. RowsOf("cancel", b, p)
    BY <1>9, <1>11, <1>14 DEF PlanOK, RowsOf, IsNight
<1> QED BY <1>7, <1>g, <1>p, <1>12, <1>15, <1>16, <1>17 DEF PlanOK

\* The operations that lock no night and no hold.
LEMMA ShortPlans ==
    ASSUME NEW op \in OperationNames \ (Changing \cup {"post"}), NEW b \in Bookings, NEW p \in Plans(op, b)
    PROVE  PlanOK(op, b, p)
<1>1. op \in {"openAccount", "authorize", "releaseFunds", "settle", "creditNote", "debit", "adjust", "setLimit", "fund", "reverse"}
    BY DEF OperationNames, Changing
<1>2. \/ op # "fund" /\ p \in {<<Account(b)>>, <<Credit(b), Wallet(b)>>, <<Wallet(b)>>, <<Booking(b), Wallet(b)>>, <<Credit(b)>>,
                               <<Receipt(b), Wallet(b)>>}
      \/ op = "fund" /\ p = fundLocks(b)
    BY <1>1 DEF Plans, authorizeLocks, settleLocks, creditNoteLocks, reverseLocks
<1>3. op \notin Changing
    OBVIOUS
<1>4. \A l \in {Account(b), Credit(b), Wallet(b), Booking(b), Receipt(b)} :
          l \in Locks /\ ~IsNight(l) /\ l.row[1] # "hold" /\ l.mode = "update"
    BY DEF Account, Credit, Wallet, Booking, Receipt, Lock, Locks, Kinds, Ids, IsNight
<1>5. /\ Rank(Account(b)) = 4 /\ Rank(Credit(b)) = 3 /\ Rank(Wallet(b)) = 5 /\ Rank(Booking(b)) = 1 /\ Rank(Receipt(b)) = 1
    BY DEF Account, Credit, Wallet, Booking, Receipt, Lock, Rank
<1>6. CASE op # "fund"
    <2>1. PICK x \in {Account(b), Credit(b), Wallet(b), Booking(b), Receipt(b)} :
              p = <<x>> \/ (p = <<x, Wallet(b)>> /\ Rank(x) < 5)
        BY <1>2, <1>5, <1>6
    <2>2. p \in Seq(Locks) /\ Len(p) \in 1..2 /\ p[1] = x /\ (Len(p) = 2 => p[2] = Wallet(b) /\ Rank(x) < 5)
        <3>w. PICK w \in Locks : w = Wallet(b)
            BY <1>4
        <3>1. x \in Locks
            BY <1>4
        <3>2. CASE p = <<x>>
            BY <3>1, <3>2
        <3>3. CASE p = <<x, w>> /\ Rank(x) < 5
            BY <3>w, <3>1, <3>3
        <3> QED BY <2>1, <3>w, <3>2, <3>3
    <2>3. \A i \in 1..Len(p) : p[i] \in {x, Wallet(b)}
        BY <2>2
    <2>4. InOrder(op, b, p)
        BY <1>5, <2>2 DEF InOrder
    <2>5. TestsFirst(op, b, p) /\ RowsOf(op, b, p)
        BY <1>3, <1>4, <2>1, <2>3 DEF TestsFirst, RowsOf, IsNight
    <2> QED BY <2>2, <2>4, <2>5 DEF PlanOK
<1>7. CASE op = "fund"
    <2> DEFINE w == Lock("wallet", AgencyOf[b], "keyShare")
               v == Lock("wallet", AgencyOf[b], "noKey")
    <2>1. w \in Locks /\ v \in Locks /\ w.row[1] = "wallet" /\ v.row[1] = "wallet" /\ w.mode = "keyShare" /\ Rank(w) = 5 /\ Rank(v) = 5
        BY DEF Lock, Locks, Kinds, Ids, Rank
    <2>2. p = <<Receipt(b), Account(b), w, v>>
        BY <1>2, <1>7 DEF fundLocks
    <2> HIDE DEF w, v
    <2>3. p \in Seq(Locks) /\ Len(p) = 4 /\ p[1] = Receipt(b) /\ p[2] = Account(b) /\ p[3] = w /\ p[4] = v
        BY <1>4, <2>1, <2>2
    <2>4. InOrder(op, b, p)
        BY <1>5, <1>7, <2>1, <2>3 DEF InOrder
    <2>5. TestsFirst(op, b, p)
        <3>1. \A i \in 1..4 : p[i].row[1] \notin {"hold", "night"}
            BY <1>4, <2>1, <2>3 DEF IsNight
        <3> QED BY <1>3, <2>3, <3>1 DEF TestsFirst
    <2>6. RowsOf(op, b, p)
        BY <1>4, <1>7, <2>1, <2>3 DEF RowsOf, IsNight
    <2> QED BY <2>3, <2>4, <2>5, <2>6 DEF PlanOK
<1> QED BY <1>6, <1>7

\* Every sequence of locks but the posting worker's.
LEMMA PlansOK ==
    ASSUME "post" \notin Operations, NEW op \in Operations, NEW b \in Bookings, NEW p \in Plans(op, b)
    PROVE  PlanOK(op, b, p)
<1>1. op \in OperationNames \ {"post"}
    BY LocksConstantsOK
<1>2. CASE op = "createHold"
    BY <1>2, CreateHoldPlan DEF Plans
<1>3. CASE op = "releaseHold"
    BY <1>3, ReleaseHoldPlan DEF Plans
<1>4. CASE op = "confirm"
    <2>1. PICK s \in NightOrders(b) : p = confirmLocks(b, s)
        BY <1>4 DEF Plans
    <2> QED BY <1>4, <2>1, ConfirmPlan
<1>5. CASE op = "cancel"
    <2>1. PICK s \in NightOrders(b) : p = cancelLocks(b, s)
        BY <1>5 DEF Plans
    <2> QED BY <1>5, <2>1, CancelPlan
<1>6. CASE op \notin Changing
    BY <1>1, <1>6, ShortPlans
<1> QED BY <1>2, <1>3, <1>4, <1>5, <1>6 DEF Changing

-----------------------------------------------------------------------------
(* The invariant.                                                           *)

TxnRows == [op : Operations, booking : Bookings, holds : SUBSET Locks, needs : Seq(Locks)]

\* A session has taken the first locks of one of its operation's plans and needs the rest.
Underway(x) ==
    \E p \in Plans(x.op, x.booking) : \E k \in 0..Len(p) :
        /\ x.holds = {p[i] : i \in 1..k}
        /\ Len(x.needs) = Len(p) - k
        /\ \A i \in 1..Len(x.needs) : x.needs[i] = p[k + i]

ProgressInv ==
    /\ txn \in [Txns -> {NoTxn} \cup TxnRows]
    /\ stage \in [Bookings -> Stages]
    /\ \A t \in Txns : Running(t) => Underway(txn[t])

\* What two sessions hold does not conflict.
Compatible(t, u) ==
    Running(t) /\ Running(u) =>
        \A l \in txn[t].holds, m \in txn[u].holds : l.row = m.row => ~Conflict(l.mode, m.mode)

Exclusion == \A t, u \in Txns : t # u => Compatible(t, u)

\* A session that has passed its test and will move the stage: nobody else moves it meanwhile.
Tested(t) ==
    /\ Running(t) /\ txn[t].op \in Changing
    /\ \E l \in txn[t].holds : l.row[1] = TestsAfter(txn[t].op)

StageInv == \A t \in Txns : Tested(t) => Passes(t)

\* A running session has a row of its own.
LEMMA RunningRow ==
    ASSUME ProgressInv, NEW t \in Txns
    PROVE  Running(t) <=> txn[t] \in TxnRows
<1>1. \A r \in TxnRows : r.op # "idle"
    BY LocksConstantsOK DEF TxnRows, OperationNames
<1>2. NoTxn.op = "idle"
    BY DEF NoTxn
<1> QED BY <1>1, <1>2 DEF ProgressInv, Running

\* Where a session stands in its plan.
LEMMA Stands ==
    ASSUME "post" \notin Operations, ProgressInv, NEW t \in Txns, Running(t)
    PROVE  \E p \in Seq(Locks) : \E k \in 0..Len(p) :
               /\ p \in Plans(txn[t].op, txn[t].booking) /\ PlanOK(txn[t].op, txn[t].booking, p)
               /\ txn[t].op \in Operations /\ txn[t].booking \in Bookings
               /\ txn[t].holds = {p[i] : i \in 1..k}
               /\ (txn[t].needs = <<>> => k = Len(p))
               /\ (txn[t].needs # <<>> => k + 1 \in 1..Len(p) /\ Head(txn[t].needs) = p[k + 1])
<1>1. txn[t] \in TxnRows
    BY RunningRow
<1>2. txn[t].op \in Operations /\ txn[t].booking \in Bookings /\ txn[t].needs \in Seq(Locks)
    BY <1>1 DEF TxnRows
<1>3. PICK p \in Plans(txn[t].op, txn[t].booking) : \E k \in 0..Len(p) :
          /\ txn[t].holds = {p[i] : i \in 1..k}
          /\ Len(txn[t].needs) = Len(p) - k
          /\ \A i \in 1..Len(txn[t].needs) : txn[t].needs[i] = p[k + i]
    BY DEF ProgressInv, Underway
<1>4. PlanOK(txn[t].op, txn[t].booking, p) /\ p \in Seq(Locks)
    BY <1>2, <1>3, PlansOK DEF PlanOK
<1>5. PICK k \in 0..Len(p) :
          /\ txn[t].holds = {p[i] : i \in 1..k}
          /\ Len(txn[t].needs) = Len(p) - k
          /\ \A i \in 1..Len(txn[t].needs) : txn[t].needs[i] = p[k + i]
    BY <1>3
<1>6. Len(p) \in Nat
    BY <1>4, LenProperties
<1>n. PICK n \in Seq(Locks) : n = txn[t].needs
    BY <1>2
<1>7. n = <<>> => k = Len(p)
    BY <1>5, <1>6, <1>n
<1>8. n # <<>> => Len(n) \in Nat /\ Len(n) >= 1 /\ Head(n) = n[1]
    BY <1>n
<1>9. n # <<>> => k + 1 \in 1..Len(p) /\ Head(n) = p[k + 1]
    BY <1>5, <1>6, <1>8, <1>n
<1> QED BY <1>2, <1>3, <1>4, <1>5, <1>7, <1>9, <1>n

LEMMA NextRow ==
    ASSUME NEW r \in TxnRows
    PROVE  Granted(r) = [op |-> r.op, booking |-> r.booking, holds |-> r.holds \cup {Head(r.needs)}, needs |-> Tail(r.needs)]
<1>1. PICK n : n = Tail(r.needs)
    OBVIOUS
<1>2. PICK h : h = r.holds \cup {Head(r.needs)}
    OBVIOUS
<1>3. [r EXCEPT !.holds = h, !.needs = n] = [[r EXCEPT !.holds = h] EXCEPT !.needs = n]
    BY DEF TxnRows
<1>4. PICK q : q = [op |-> r.op, booking |-> r.booking, holds |-> h, needs |-> r.needs]
    OBVIOUS
<1>5. [r EXCEPT !.holds = h] = q
    BY <1>4 DEF TxnRows
<1>6. [q EXCEPT !.needs = n] = [op |-> r.op, booking |-> r.booking, holds |-> h, needs |-> n]
    BY <1>4
<1> QED BY <1>1, <1>2, <1>3, <1>5, <1>6 DEF Granted

\* What a step does to the row of its session.
LEMMA StepOf ==
    ASSUME ProgressInv, NEW t \in Txns
    PROVE  /\ begin(t) => \E op \in Operations, b \in Bookings : \E p \in Plans(op, b) :
                  txn' = [txn EXCEPT ![t] = [op |-> op, booking |-> b, holds |-> {}, needs |-> p]] /\ stage' = stage
           /\ takeLock(t) =>
                  /\ Running(t) /\ txn[t].needs # <<>> /\ stage' = stage
                  /\ \/ txn' = [txn EXCEPT ![t] = NoTxn]
                     \/ /\ txn' = [txn EXCEPT ![t] = [op |-> txn[t].op, booking |-> txn[t].booking,
                                      holds |-> txn[t].holds \cup {Head(txn[t].needs)}, needs |-> Tail(txn[t].needs)]]
                        /\ Head(txn[t].needs).row[1] = TestsAfter(txn[t].op) => Passes(t)
           /\ commit(t) \/ rollback(t) => txn' = [txn EXCEPT ![t] = NoTxn]
<1>1. ASSUME takeLock(t)
      PROVE  /\ Running(t) /\ txn[t].needs # <<>> /\ stage' = stage
             /\ \/ txn' = [txn EXCEPT ![t] = NoTxn]
                \/ /\ txn' = [txn EXCEPT ![t] = [op |-> txn[t].op, booking |-> txn[t].booking,
                                 holds |-> txn[t].holds \cup {Head(txn[t].needs)}, needs |-> Tail(txn[t].needs)]]
                   /\ Head(txn[t].needs).row[1] = TestsAfter(txn[t].op) => Passes(t)
    <2>1. txn[t] \in TxnRows
        BY <1>1, RunningRow DEF takeLock
    <2>2. txn' = [txn EXCEPT ![t] = IF Head(txn[t].needs).row[1] = TestsAfter(txn[t].op) /\ ~ Passes(t)
                                    THEN NoTxn ELSE Granted(txn[t])]
        BY <1>1 DEF takeLock
    <2>3. CASE Head(txn[t].needs).row[1] = TestsAfter(txn[t].op) /\ ~ Passes(t)
        BY <1>1, <2>2, <2>3 DEF takeLock
    <2>4. CASE ~(Head(txn[t].needs).row[1] = TestsAfter(txn[t].op) /\ ~ Passes(t))
        BY <1>1, <2>1, <2>2, <2>4, NextRow DEF takeLock
    <2> QED BY <2>3, <2>4
<1> QED BY <1>1 DEF begin, commit, rollback

LEMMA ProgressInit == Init => ProgressInv
BY DEF Init, ProgressInv, Running, Stages

LEMMA ProgressKept ==
    ASSUME "post" \notin Operations, ProgressInv, [Next]_vars
    PROVE  ProgressInv'
<1>1. CASE UNCHANGED vars
    BY <1>1 DEF vars, ProgressInv, Running, Underway
<1>2. ASSUME NEW t \in Txns, NEW r \in {NoTxn} \cup TxnRows, txn' = [txn EXCEPT ![t] = r],
             r # NoTxn => Underway(txn'[t]), stage' \in [Bookings -> Stages]
      PROVE  ProgressInv'
    <2>1. txn' \in [Txns -> {NoTxn} \cup TxnRows] /\ txn'[t] = r
        BY <1>2 DEF ProgressInv
    <2>2. ASSUME NEW u \in Txns, u # t, txn'[u] # NoTxn
          PROVE  Underway(txn'[u])
        <3>1. txn'[u] = txn[u]
            BY <1>2, <2>2 DEF ProgressInv
        <3> QED BY <2>2, <3>1 DEF ProgressInv, Running
    <2> QED BY <1>2, <2>1, <2>2 DEF ProgressInv, Running
<1>3. ASSUME NEW t \in Txns, begin(t)
      PROVE  ProgressInv'
    <2>1. PICK op \in Operations, b \in Bookings : \E p \in Plans(op, b) :
              txn' = [txn EXCEPT ![t] = [op |-> op, booking |-> b, holds |-> {}, needs |-> p]] /\ stage' = stage
        BY <1>3, StepOf
    <2>2. PICK p \in Plans(op, b) :
              txn' = [txn EXCEPT ![t] = [op |-> op, booking |-> b, holds |-> {}, needs |-> p]] /\ stage' = stage
        BY <2>1
    <2>3. p \in Seq(Locks) /\ Len(p) \in Nat
        BY PlansOK, LenProperties DEF PlanOK
    <2>r. PICK r : r = [op |-> op, booking |-> b, holds |-> {}, needs |-> p]
        OBVIOUS
    <2>4. r \in TxnRows /\ r.op = op /\ r.booking = b /\ r.holds = {} /\ r.needs = p
        BY <2>3, <2>r DEF TxnRows
    <2>5. txn'[t] = r
        BY <2>2, <2>r DEF ProgressInv
    <2>6. Underway(txn'[t])
        <3>1. {p[i] : i \in 1..0} = {}
            OBVIOUS
        <3>2. /\ txn'[t].holds = {p[i] : i \in 1..0} /\ Len(txn'[t].needs) = Len(p) - 0
              /\ \A i \in 1..Len(txn'[t].needs) : txn'[t].needs[i] = p[0 + i]
            BY <2>3, <2>4, <2>5, <3>1
        <3>3. 0 \in 0..Len(p) /\ p \in Plans(txn'[t].op, txn'[t].booking)
            BY <2>3, <2>4, <2>5
        <3> QED BY <3>2, <3>3 DEF Underway
    <2> QED BY <1>2, <2>2, <2>r, <2>4, <2>6 DEF ProgressInv
<1>4. ASSUME NEW t \in Txns, takeLock(t)
      PROVE  ProgressInv'
    <2>1. CASE txn' = [txn EXCEPT ![t] = NoTxn]
        BY <1>2, <1>4, <2>1, StepOf DEF ProgressInv
    <2>2. CASE txn' # [txn EXCEPT ![t] = NoTxn]
        <3>1. Running(t) /\ txn[t].needs # <<>> /\ stage' = stage
            BY <1>4, StepOf
        <3>2. txn[t] \in TxnRows
            BY <3>1, RunningRow
        <3>o. PICK op \in Operations, b \in Bookings, holds \in SUBSET Locks, needs \in Seq(Locks) :
                  op = txn[t].op /\ b = txn[t].booking /\ holds = txn[t].holds /\ needs = txn[t].needs
            BY <3>2 DEF TxnRows
        <3>3. PICK p \in Plans(op, b) : \E k \in 0..Len(p) :
                  /\ holds = {p[i] : i \in 1..k}
                  /\ Len(needs) = Len(p) - k
                  /\ \A i \in 1..Len(needs) : needs[i] = p[k + i]
            BY <3>1, <3>o DEF ProgressInv, Underway
        <3>4. PICK k \in 0..Len(p) :
                  /\ holds = {p[i] : i \in 1..k}
                  /\ Len(needs) = Len(p) - k
                  /\ \A i \in 1..Len(needs) : needs[i] = p[k + i]
            BY <3>3
        <3>5. p \in Seq(Locks) /\ Len(p) \in Nat
            BY PlansOK, LenProperties DEF PlanOK
        <3>f. PICK first, rest : first = Head(needs) /\ rest = Tail(needs)
            OBVIOUS
        <3>6. /\ first \in Locks /\ rest \in Seq(Locks) /\ Len(rest) = Len(needs) - 1
              /\ \A i \in 1..Len(rest) : rest[i] = needs[i + 1]
            BY <3>1, <3>o, <3>f, HeadTailProperties
        <3>7. Len(needs) \in Nat /\ Len(needs) >= 1 /\ first = needs[1]
            BY <3>1, <3>o, <3>f
        <3>8. k + 1 \in 0..Len(p) /\ first = p[k + 1]
            BY <3>4, <3>5, <3>7
        <3>r. PICK r : r = [op |-> op, booking |-> b, holds |-> holds \cup {first}, needs |-> rest]
            OBVIOUS
        <3>9. txn' = [txn EXCEPT ![t] = r]
            BY <1>4, <2>2, <3>o, <3>f, <3>r, StepOf
        <3>10. r \in TxnRows /\ r.op = op /\ r.booking = b /\ r.holds = holds \cup {first} /\ r.needs = rest
            BY <3>6, <3>r DEF TxnRows
        <3>11. txn'[t] = r
            BY <3>9 DEF ProgressInv
        <3>12. holds \cup {first} = {p[i] : i \in 1..(k + 1)}
            BY <3>4, <3>8
        <3>13. ASSUME NEW i \in 1..Len(rest)
               PROVE  rest[i] = p[(k + 1) + i]
            <4>1. i + 1 \in 1..Len(needs)
                BY <3>6, <3>7
            <4>2. needs[i + 1] = p[k + (i + 1)] /\ k + (i + 1) = (k + 1) + i
                BY <3>4, <4>1
            <4> QED BY <3>6, <4>2
        <3>14. Underway(txn'[t])
            <4>1. Len(rest) = Len(p) - (k + 1)
                BY <3>4, <3>5, <3>6, <3>7
            <4>2. txn'[t].holds = {p[i] : i \in 1..(k + 1)} /\ txn'[t].needs = rest
                BY <3>10, <3>11, <3>12
            <4>3. p \in Plans(txn'[t].op, txn'[t].booking)
                BY <3>10, <3>11
            <4> QED BY <3>8, <3>13, <4>1, <4>2, <4>3 DEF Underway
        <3> QED BY <1>2, <3>1, <3>9, <3>10, <3>14 DEF ProgressInv
    <2> QED BY <2>1, <2>2
<1>5. ASSUME NEW t \in Txns, commit(t) \/ rollback(t)
      PROVE  ProgressInv'
    <2>1. stage' \in [Bookings -> Stages]
        BY <1>5 DEF commit, rollback, ProgressInv, Stages, Leaves
    <2> QED BY <1>2, <1>5, <2>1, StepOf
<1> QED BY <1>1, <1>3, <1>4, <1>5 DEF Next

\* A step ends its session, begins it with no lock, or adds the lock it was waiting for.
LEMMA RowAfter ==
    ASSUME ProgressInv, NEW t \in Txns, begin(t) \/ takeLock(t) \/ commit(t) \/ rollback(t)
    PROVE  /\ \A u \in Txns : u # t => txn'[u] = txn[u]
           /\ \/ txn'[t] = NoTxn
              \/ begin(t) /\ txn'[t].holds = {}
              \/ /\ takeLock(t) /\ txn'[t].holds = txn[t].holds \cup {Head(txn[t].needs)} /\ stage' = stage
                 /\ txn'[t].op = txn[t].op /\ txn'[t].booking = txn[t].booking
                 /\ Head(txn[t].needs).row[1] = TestsAfter(txn[t].op) => Passes(t)
<1>1. \E r : txn' = [txn EXCEPT ![t] = r]
    BY StepOf
<1>2. \A u \in Txns : u # t => txn'[u] = txn[u]
    BY <1>1 DEF ProgressInv
<1>3. CASE begin(t)
    <2>1. PICK op \in Operations, b \in Bookings : \E p \in Plans(op, b) :
              txn' = [txn EXCEPT ![t] = [op |-> op, booking |-> b, holds |-> {}, needs |-> p]]
        BY <1>3, StepOf
    <2>2. txn'[t].holds = {}
        BY <2>1 DEF ProgressInv
    <2> QED BY <1>2, <1>3, <2>2
<1>4. CASE commit(t) \/ rollback(t)
    BY <1>2, <1>4, StepOf DEF ProgressInv
<1>5. CASE takeLock(t)
    <2>1. CASE txn' = [txn EXCEPT ![t] = NoTxn]
        BY <1>2, <2>1 DEF ProgressInv
    <2>2. CASE txn' # [txn EXCEPT ![t] = NoTxn]
        <3>l. PICK l, rest, op, b : l = Head(txn[t].needs) /\ rest = Tail(txn[t].needs) /\ op = txn[t].op /\ b = txn[t].booking
            OBVIOUS
        <3>1. /\ txn' = [txn EXCEPT ![t] = [op |-> op, booking |-> b, holds |-> txn[t].holds \cup {l}, needs |-> rest]]
              /\ stage' = stage
              /\ l.row[1] = TestsAfter(op) => Passes(t)
            BY <1>5, <2>2, <3>l, StepOf
        <3>2. txn'[t] = [op |-> op, booking |-> b, holds |-> txn[t].holds \cup {l}, needs |-> rest]
            BY <3>1 DEF ProgressInv
        <3>3. txn'[t].op = op /\ txn'[t].booking = b /\ txn'[t].holds = txn[t].holds \cup {l}
            BY <3>2
        <3> QED BY <1>2, <1>5, <3>l, <3>1, <3>3
    <2> QED BY <2>1, <2>2
<1> QED BY <1>3, <1>4, <1>5

LEMMA ExclusionKept ==
    ASSUME ProgressInv, Exclusion, [Next]_vars
    PROVE  Exclusion'
<1>1. CASE UNCHANGED vars
    BY <1>1 DEF vars, Exclusion, Compatible, Running
<1>2. ASSUME NEW t \in Txns, begin(t) \/ takeLock(t) \/ commit(t) \/ rollback(t)
      PROVE  Exclusion'
    <2>1. ASSUME NEW u \in Txns, u # t
          PROVE  Compatible(t, u)'
        <3> SUFFICES ASSUME txn'[t] # NoTxn, txn'[u] # NoTxn,
                            NEW l \in txn'[t].holds, NEW m \in txn'[u].holds, l.row = m.row
                     PROVE  ~Conflict(l.mode, m.mode)
            BY DEF Compatible, Running
        <3>1. txn'[u] = txn[u] /\ txn[u] # NoTxn /\ m \in txn[u].holds
            BY <1>2, <2>1, RowAfter
        <3>2. takeLock(t) /\ txn'[t].holds = txn[t].holds \cup {Head(txn[t].needs)}
            BY <1>2, RowAfter
        <3>3. Running(t) /\ Running(u) /\ txn[t].needs # <<>> /\ ~ Skips(t) /\ ~ WaitsFor(t, u)
            BY <3>1, <3>2 DEF takeLock, Running
        <3>4. CASE l \in txn[t].holds
            BY <2>1, <3>1, <3>3, <3>4 DEF Exclusion, Compatible
        <3>5. CASE l = Head(txn[t].needs)
            BY <2>1, <3>1, <3>3, <3>5 DEF WaitsFor, Conflict
        <3> QED BY <3>2, <3>4, <3>5
    <2>2. ASSUME NEW x \in Txns, NEW u \in Txns, x # t, u # t, x # u
          PROVE  Compatible(x, u)'
        <3>1. txn'[x] = txn[x] /\ txn'[u] = txn[u]
            BY <1>2, <2>2, RowAfter
        <3> QED BY <2>2, <3>1 DEF Exclusion, Compatible, Running
    <2>3. ASSUME NEW u \in Txns, u # t
          PROVE  Compatible(u, t)'
        BY <2>1, <2>3 DEF Compatible, Conflict
    <2> QED BY <2>1, <2>2, <2>3 DEF Exclusion
<1> QED BY <1>1, <1>2 DEF Next

\* A session past its test has the lock of the booking or of its hold that the test is made under.
LEMMA TestedLock ==
    ASSUME "post" \notin Operations, ProgressInv, NEW t \in Txns, Tested(t)
    PROVE  \E l \in txn[t].holds : l.row = <<TestsAfter(txn[t].op), txn[t].booking>> /\ l.mode \in {"update", "noKey"}
<1>1. PICK p \in Seq(Locks) : \E k \in 0..Len(p) :
          PlanOK(txn[t].op, txn[t].booking, p) /\ txn[t].holds = {p[i] : i \in 1..k}
    BY Stands DEF Tested
<1>2. PICK k \in 0..Len(p) : txn[t].holds = {p[i] : i \in 1..k}
    BY <1>1
<1>3. PICK i \in 1..k : p[i].row[1] = TestsAfter(txn[t].op)
    BY <1>2 DEF Tested
<1>4. i \in 1..Len(p) /\ p[i] \in Locks /\ p[i] \in txn[t].holds
    BY <1>2, LenProperties
<1>5. p[i].row[2] = txn[t].booking /\ p[i].mode \in {"update", "noKey"}
    BY <1>1, <1>3, <1>4 DEF PlanOK, TestsFirst, Tested
<1>6. p[i].row = <<p[i].row[1], p[i].row[2]>>
    BY <1>4 DEF Locks
<1> QED BY <1>3, <1>4, <1>5, <1>6

\* Of the sessions that will move the stage of a booking only one is past its test.
LEMMA OneMover ==
    ASSUME "post" \notin Operations, ProgressInv, Exclusion, StageInv,
           NEW t \in Txns, NEW u \in Txns, Tested(t), Tested(u), txn[t].booking = txn[u].booking
    PROVE  t = u
<1> SUFFICES ASSUME t # u PROVE FALSE
    OBVIOUS
<1>1. PICK l \in txn[t].holds : l.row = <<TestsAfter(txn[t].op), txn[t].booking>> /\ l.mode \in {"update", "noKey"}
    BY TestedLock
<1>2. PICK m \in txn[u].holds : m.row = <<TestsAfter(txn[u].op), txn[u].booking>> /\ m.mode \in {"update", "noKey"}
    BY TestedLock
<1>3. stage[txn[t].booking] \in Admits(txn[t].op) /\ stage[txn[t].booking] \in Admits(txn[u].op)
    BY DEF StageInv, Passes
<1>4. txn[t].op \in Changing /\ txn[u].op \in Changing
    BY DEF Tested
<1>5. TestsAfter(txn[t].op) = TestsAfter(txn[u].op)
    BY <1>3, <1>4 DEF Admits, TestsAfter, Changing
<1>6. Conflict(l.mode, m.mode)
    BY <1>1, <1>2 DEF Conflict
<1> QED BY <1>1, <1>2, <1>5, <1>6 DEF Exclusion, Compatible, Tested

LEMMA StageKept ==
    ASSUME "post" \notin Operations, ProgressInv, Exclusion, StageInv, [Next]_vars
    PROVE  StageInv'
<1>1. CASE UNCHANGED vars
    BY <1>1 DEF vars, StageInv, Tested, Passes, Running
<1>2. ASSUME NEW t \in Txns, begin(t) \/ takeLock(t) \/ commit(t) \/ rollback(t)
      PROVE  StageInv'
    <2> SUFFICES ASSUME NEW u \in Txns, Tested(u)'
                 PROVE  Passes(u)'
        BY DEF StageInv
    <2>1. txn'[u] # NoTxn
        BY DEF Tested, Running
    <2>2. CASE u = t
        <3>1. txn'[t].holds # {}
            BY <2>2 DEF Tested
        <3>2. /\ takeLock(t) /\ txn'[t].holds = txn[t].holds \cup {Head(txn[t].needs)} /\ stage' = stage
              /\ txn'[t].op = txn[t].op /\ txn'[t].booking = txn[t].booking
              /\ Head(txn[t].needs).row[1] = TestsAfter(txn[t].op) => Passes(t)
            BY <1>2, <2>1, <2>2, <3>1, RowAfter
        <3>3. Tested(t) \/ Head(txn[t].needs).row[1] = TestsAfter(txn[t].op)
            BY <2>2, <3>2 DEF Tested, takeLock
        <3> QED BY <2>2, <3>2, <3>3 DEF StageInv, Passes
    <2>3. CASE u # t
        <3>1. txn'[u] = txn[u]
            BY <1>2, <2>3, RowAfter
        <3>2. Tested(u) /\ Passes(u)
            BY <3>1 DEF Tested, Running, StageInv
        <3>3. CASE stage' = stage
            BY <3>1, <3>2, <3>3 DEF Passes
        <3>4. CASE commit(t) /\ txn[t].booking # txn[u].booking
            <4>1. txn[u].booking \in Bookings
                BY <3>2, RunningRow DEF Tested, TxnRows
            <4>2. stage'[txn[u].booking] = stage[txn[u].booking]
                BY <3>4, <4>1 DEF commit, ProgressInv
            <4> QED BY <3>1, <3>2, <4>2 DEF Passes
        <3>5. CASE commit(t) /\ txn[t].booking = txn[u].booking
            <4>1. txn[t].op \notin Changing
                <5> SUFFICES ASSUME txn[t].op \in Changing PROVE FALSE
                    OBVIOUS
                <5>1. PICK p \in Seq(Locks) : \E k \in 0..Len(p) :
                          /\ PlanOK(txn[t].op, txn[t].booking, p) /\ txn[t].holds = {p[i] : i \in 1..k}
                          /\ txn[t].needs = <<>> => k = Len(p)
                    BY <3>5, Stands DEF commit
                <5>2. txn[t].holds = {p[i] : i \in 1..Len(p)} /\ PlanOK(txn[t].op, txn[t].booking, p)
                    BY <3>5, <5>1 DEF commit
                <5>3. Tested(t)
                    BY <3>5, <5>2 DEF commit, Tested, PlanOK, TestsFirst
                <5> QED BY <2>3, <3>2, <3>5, <5>3, OneMover
            <4>2. txn[t].booking \in Bookings /\ Leaves(txn[t].op, stage[txn[t].booking]) = stage[txn[t].booking]
                BY <3>5, <4>1, RunningRow DEF commit, TxnRows, Leaves, Changing
            <4>3. stage'[txn[u].booking] = stage[txn[u].booking]
                BY <3>5, <4>2 DEF commit, ProgressInv
            <4> QED BY <3>1, <3>2, <4>3 DEF Passes
        <3> QED BY <1>2, <3>3, <3>4, <3>5 DEF begin, takeLock, rollback
    <2> QED BY <2>2, <2>3
<1> QED BY <1>1, <1>2 DEF Next

LocksInv == ProgressInv /\ Exclusion /\ StageInv

\* Without the posting worker: sessions follow their plans, what they hold does not conflict, and who passed a test of the
\* stage under its lock still finds it so.
THEOREM LocksInvariance ==
    ASSUME "post" \notin Operations
    PROVE  Spec => []LocksInv
<1>1. Init => LocksInv
    BY ProgressInit DEF Init, LocksInv, Exclusion, Compatible, StageInv, Tested, Running
<1>2. LocksInv /\ [Next]_vars => LocksInv'
    BY ProgressKept, ExclusionKept, StageKept DEF LocksInv
<1> QED BY <1>1, <1>2, PTL DEF Spec

-----------------------------------------------------------------------------
(* Who waits for whom.                                                      *)

\* The lock a session waits for.
Awaited(t) == Head(txn[t].needs)
OnNight(t) == IsNight(Awaited(t))

\* The last lock of a funding, the wallet it already holds a share of.
LastOfFund(t) ==
    /\ txn[t].op = "fund" /\ Awaited(t) = Lock("wallet", AgencyOf[txn[t].booking], "noKey")
    /\ Account(txn[t].booking) \in txn[t].holds
    /\ Lock("wallet", AgencyOf[txn[t].booking], "keyShare") \in txn[t].holds

\* The last lock of a cancellation, under the booking it has tested.
LastOfCancel(t) == txn[t].op = "cancel" /\ Awaited(t).row = <<"hold", txn[t].booking>> /\ Tested(t)

\* A session that needs a lock holds only locks that come before it, apart from nights and the two last locks.
LEMMA Ascends ==
    ASSUME "post" \notin Operations, LocksInv, NEW t \in Txns, Running(t), txn[t].needs # <<>>, NEW l \in txn[t].holds
    PROVE  \/ Rank(l) < Rank(Awaited(t))
           \/ LastOfCancel(t)
           \/ LastOfFund(t)
           \/ IsNight(l) /\ OnNight(t) /\ l.row # Awaited(t).row
<1>o. PICK op, b : op = txn[t].op /\ b = txn[t].booking
    OBVIOUS
<1>1. PICK p \in Seq(Locks) : \E k \in 0..Len(p) :
          /\ p \in Plans(op, b) /\ PlanOK(op, b, p) /\ b \in Bookings
          /\ txn[t].holds = {p[i] : i \in 1..k}
          /\ k + 1 \in 1..Len(p) /\ Head(txn[t].needs) = p[k + 1]
    BY <1>o, Stands DEF LocksInv
<1>2. PICK k \in 0..Len(p) :
          /\ txn[t].holds = {p[i] : i \in 1..k}
          /\ k + 1 \in 1..Len(p) /\ Head(txn[t].needs) = p[k + 1]
    BY <1>1
<1>3. PICK i \in 1..k : l = p[i]
    BY <1>2
<1>a. PICK a : a = Awaited(t) /\ a = p[k + 1]
    BY <1>2 DEF Awaited
<1>4. Len(p) \in Nat /\ i \in 1..Len(p) /\ i < k + 1
    BY <1>2, LenProperties
<1>5. \/ Rank(l) < Rank(a)
      \/ op = "cancel" /\ a = Lock("hold", b, "noKey")
      \/ op = "fund" /\ i = 3 /\ k + 1 = 4
      \/ IsNight(l) /\ IsNight(a) /\ l.row # a.row
    BY <1>1, <1>2, <1>3, <1>4, <1>a DEF PlanOK, InOrder
<1>6. ASSUME op = "cancel", a = Lock("hold", b, "noKey")
      PROVE  LastOfCancel(t)
    <2>1. a.row[1] = "hold" /\ a.row = <<"hold", b>>
        BY <1>6 DEF Lock
    <2>2. PICK j \in 1..(k + 1) : p[j].row[1] = TestsAfter("cancel") /\ j < k + 1
        BY <1>1, <1>2, <1>6, <1>a, <2>1 DEF PlanOK, TestsFirst
    <2>3. p[j] \in txn[t].holds
        BY <1>2, <2>2
    <2> QED BY <1>6, <1>a, <1>o, <2>1, <2>2, <2>3 DEF LastOfCancel, Tested, Changing
<1>7. ASSUME op = "fund", k = 3
      PROVE  LastOfFund(t)
    <2>1. p = fundLocks(b)
        BY <1>1, <1>7 DEF Plans
    <2>2. /\ p[2] = Account(b) /\ p[3] = Lock("wallet", AgencyOf[b], "keyShare") /\ p[4] = Lock("wallet", AgencyOf[b], "noKey")
        BY <2>1 DEF fundLocks
    <2>3. p[2] \in txn[t].holds /\ p[3] \in txn[t].holds
        BY <1>2, <1>7
    <2> QED BY <1>7, <1>a, <1>o, <2>2, <2>3 DEF LastOfFund
<1> QED BY <1>5, <1>6, <1>7, <1>a, <1>2, <1>4 DEF OnNight

\* A session that holds a hold or a night is past its test.
LEMMA HolderTested ==
    ASSUME "post" \notin Operations, LocksInv, NEW t \in Txns, Running(t), NEW l \in txn[t].holds, l.row[1] \in {"hold", "night"}
    PROVE  /\ Tested(t)
           /\ l.row[1] = "hold" => l.row[2] = txn[t].booking
           /\ l.row[1] = "night" => l.row[2] \in Range(NightsOf[txn[t].booking])
<1>o. PICK op, b : op = txn[t].op /\ b = txn[t].booking
    OBVIOUS
<1>1. PICK p \in Seq(Locks) : \E k \in 0..Len(p) : PlanOK(op, b, p) /\ txn[t].holds = {p[i] : i \in 1..k}
    BY <1>o, Stands DEF LocksInv
<1>2. PICK k \in 0..Len(p) : txn[t].holds = {p[i] : i \in 1..k}
    BY <1>1
<1>3. PICK j \in 1..k : l = p[j]
    BY <1>2
<1>4. Len(p) \in Nat /\ j \in 1..Len(p)
    BY <1>2, LenProperties
<1>5. op \in Changing /\ \E i \in 1..j : p[i].row[1] = TestsAfter(op)
    BY <1>1, <1>3, <1>4 DEF PlanOK, TestsFirst
<1>6. PICK i \in 1..j : p[i].row[1] = TestsAfter(op)
    BY <1>5
<1>7. p[i] \in txn[t].holds
    BY <1>2, <1>4, <1>6
<1> QED BY <1>1, <1>3, <1>4, <1>5, <1>6, <1>7, <1>o DEF Tested, PlanOK, RowsOf, IsNight

\* A cancellation never waits for the hold: whoever has it locked moves the stage of the same booking.
LEMMA CancelDoesNotWait ==
    ASSUME "post" \notin Operations, LocksInv, NEW t \in Txns, NEW u \in Txns, LastOfCancel(t)
    PROVE  ~ WaitsFor(t, u)
<1> SUFFICES ASSUME WaitsFor(t, u) PROVE FALSE
    OBVIOUS
<1>1. PICK l \in txn[u].holds : l.row = <<"hold", txn[t].booking>>
    BY DEF WaitsFor, LastOfCancel, Awaited
<1>2. Tested(u) /\ txn[u].booking = txn[t].booking
    BY <1>1, HolderTested DEF WaitsFor
<1> QED BY <1>2, OneMover DEF WaitsFor, LastOfCancel, LocksInv

\* A funding never waits for the wallet it has a share of: the agency's account lock keeps other fundings out, its
\* share everybody else.
LEMMA FundDoesNotWait ==
    ASSUME "post" \notin Operations, LocksInv, NEW t \in Txns, NEW u \in Txns, LastOfFund(t)
    PROVE  ~ WaitsFor(t, u)
<1> SUFFICES ASSUME WaitsFor(t, u) PROVE FALSE
    OBVIOUS
<1>1. PICK agency : agency = AgencyOf[txn[t].booking]
    OBVIOUS
<1>2. PICK l \in txn[u].holds : l.row = <<"wallet", agency>> /\ Conflict(l.mode, "noKey")
    BY <1>1 DEF WaitsFor, LastOfFund, Awaited, Lock
<1>3. \A m \in txn[t].holds : m.row = l.row => ~Conflict(m.mode, l.mode)
    BY DEF WaitsFor, LocksInv, Exclusion, Compatible
<1>4. l.mode # "update"
    <2>1. PICK m \in txn[t].holds : m.row = <<"wallet", agency>> /\ m.mode = "keyShare"
        BY <1>1 DEF LastOfFund, Lock
    <2> QED BY <1>2, <1>3, <2>1 DEF Conflict
<1>5. l.mode = "noKey"
    BY <1>2, <1>4 DEF Conflict
<1>6. Running(u)
    BY DEF WaitsFor
<1>o. PICK op, b : op = txn[u].op /\ b = txn[u].booking
    OBVIOUS
<1>7. PICK p \in Seq(Locks) : \E k \in 0..Len(p) : p \in Plans(op, b) /\ PlanOK(op, b, p) /\ txn[u].holds = {p[i] : i \in 1..k}
    BY <1>o, <1>6, Stands DEF LocksInv
<1>8. PICK k \in 0..Len(p) : txn[u].holds = {p[i] : i \in 1..k}
    BY <1>7
<1>9. PICK i \in 1..k : l = p[i]
    BY <1>8
<1>10. i \in 1..Len(p)
    BY LenProperties
<1>11. op = "fund" /\ i = 4
    BY <1>2, <1>5, <1>7, <1>9, <1>10 DEF PlanOK, RowsOf
<1>12. p = fundLocks(b)
    BY <1>7, <1>11 DEF Plans
<1>13. p[2] = Account(b) /\ p[4] = Lock("wallet", AgencyOf[b], "noKey")
    BY <1>12 DEF fundLocks
<1>14. AgencyOf[b] = agency
    BY <1>2, <1>9, <1>11, <1>13 DEF Lock
<1>15. Account(b) \in txn[u].holds
    BY <1>8, <1>11, <1>13
<1>16. Account(b) = Account(txn[t].booking) /\ Account(txn[t].booking) \in txn[t].holds
    BY <1>1, <1>14 DEF Account, LastOfFund
<1> QED BY <1>15, <1>16 DEF WaitsFor, LocksInv, Exclusion, Compatible, Conflict, Account, Lock

LEMMA RankRange == \A l : Rank(l) \in 1..7 /\ (IsNight(l) => Rank(l) = 7)
BY DEF Rank, IsNight

\* Somebody waits for a lock of the highest rank that anybody in S waits for.
LEMMA HighestRank ==
    ASSUME NEW S, S # {}
    PROVE  \E t \in S : \A u \in S : Rank(Awaited(u)) <= Rank(Awaited(t))
<1> DEFINE At(n) == \E t \in S : Rank(Awaited(t)) = n
<1>1. \A t \in S : Rank(Awaited(t)) \in 1..7
    BY RankRange
<1>2. \E n \in 1..7 : At(n) /\ \A m \in 1..7 : m > n => ~At(m)
    <2>1. \E n \in 1..7 : At(n)
        BY <1>1
    <2> HIDE DEF At
    <2> QED BY <2>1
<1> QED BY <1>1, <1>2

\* Whoever waits for a session that waits itself, on a night: that one waits on another night.
LEMMA NightThenNight ==
    ASSUME "post" \notin Operations, LocksInv, NEW t \in Txns, NEW u \in Txns, NEW v \in Txns,
           OnNight(t), WaitsFor(t, u), WaitsFor(u, v)
    PROVE  /\ OnNight(u) /\ Awaited(u).row # Awaited(t).row
           /\ \E l \in txn[u].holds : IsNight(l) /\ l.row = Awaited(t).row
<1>1. PICK l \in txn[u].holds : l.row = Awaited(t).row
    BY DEF WaitsFor, Awaited
<1>2. IsNight(l) /\ Rank(l) = 7
    BY <1>1, RankRange DEF OnNight, IsNight
<1>3. ~(Rank(l) < Rank(Awaited(u)))
    BY <1>2, RankRange
<1>4. Running(u) /\ txn[u].needs # <<>>
    BY DEF WaitsFor
<1>5. ~LastOfCancel(u) /\ ~LastOfFund(u)
    BY CancelDoesNotWait, FundDoesNotWait
<1> QED BY <1>1, <1>2, <1>3, <1>4, <1>5, Ascends

\* Sessions that wait for each other wait for nights.
LEMMA CycleOnNights ==
    ASSUME "post" \notin Operations, LocksInv, NEW S \in SUBSET Txns, S # {}, \A t \in S : \E u \in S : WaitsFor(t, u)
    PROVE  \E t \in S : OnNight(t)
<1>1. PICK t \in S : \A u \in S : Rank(Awaited(u)) <= Rank(Awaited(t))
    BY HighestRank
<1>2. PICK u \in S : WaitsFor(t, u)
    OBVIOUS
<1>3. PICK v \in S : WaitsFor(u, v)
    OBVIOUS
<1>4. PICK l \in txn[u].holds : l.row = Awaited(t).row
    BY <1>2 DEF WaitsFor, Awaited
<1>5. Rank(l) = Rank(Awaited(t))
    BY <1>4 DEF Rank
<1>6. Running(u) /\ txn[u].needs # <<>>
    BY <1>3 DEF WaitsFor
<1>7. ~LastOfCancel(u) /\ ~LastOfFund(u)
    BY <1>3, CancelDoesNotWait, FundDoesNotWait
<1>8. ~(Rank(l) < Rank(Awaited(u)))
    BY <1>1, <1>5, RankRange
<1> QED BY <1>4, <1>6, <1>7, <1>8, Ascends

\* Whoever waits for a night is past its test, and the night is one of its booking's.
LEMMA NightWaiter ==
    ASSUME "post" \notin Operations, LocksInv, NEW t \in Txns, Running(t), txn[t].needs # <<>>, OnNight(t)
    PROVE  /\ Tested(t)
           /\ Awaited(t).row = <<"night", Awaited(t).row[2]>> /\ Awaited(t).row[2] \in Range(NightsOf[txn[t].booking])
<1>o. PICK op, b : op = txn[t].op /\ b = txn[t].booking
    OBVIOUS
<1>1. PICK p \in Seq(Locks) : \E k \in 0..Len(p) :
          /\ PlanOK(op, b, p) /\ txn[t].holds = {p[i] : i \in 1..k}
          /\ k + 1 \in 1..Len(p) /\ Head(txn[t].needs) = p[k + 1]
    BY <1>o, Stands DEF LocksInv
<1>2. PICK k \in 0..Len(p) :
          /\ txn[t].holds = {p[i] : i \in 1..k}
          /\ k + 1 \in 1..Len(p) /\ Head(txn[t].needs) = p[k + 1]
    BY <1>1
<1>a. PICK a : a = Awaited(t) /\ a = p[k + 1]
    BY <1>2 DEF Awaited
<1>3. a \in Locks /\ a.row[1] = "night"
    BY <1>2, <1>a, LenProperties DEF OnNight, IsNight
<1>4. a.row = <<"night", a.row[2]>>
    BY <1>3 DEF Locks
<1>5. a.row[2] \in Range(NightsOf[b])
    BY <1>1, <1>2, <1>3, <1>a DEF PlanOK, RowsOf, IsNight
<1>6. op \in Changing /\ \E i \in 1..(k + 1) : p[i].row[1] = TestsAfter(op)
    BY <1>1, <1>2, <1>3, <1>a DEF PlanOK, TestsFirst
<1>7. PICK i \in 1..(k + 1) : p[i].row[1] = TestsAfter(op)
    BY <1>6
<1>8. TestsAfter(op) # "night"
    BY <1>6 DEF TestsAfter, Changing
<1>9. p[i] \in txn[t].holds
    BY <1>2, <1>3, <1>7, <1>8, <1>a
<1> QED BY <1>4, <1>5, <1>6, <1>7, <1>9, <1>a, <1>o DEF Tested

\* Every booking meets the others on one night at most.
OneCommonNight ==
    \A b \in Bookings : \A m, n \in Range(NightsOf[b]) : \A c, d \in Bookings \ {b} :
        m \in Range(NightsOf[c]) /\ n \in Range(NightsOf[d]) => m = n

LEMMA NoChainOnOneNight ==
    ASSUME "post" \notin Operations, OneCommonNight, LocksInv, NEW t \in Txns, NEW u \in Txns, NEW v \in Txns,
           OnNight(t), WaitsFor(t, u), WaitsFor(u, v)
    PROVE  ~(\E w \in Txns : WaitsFor(v, w))
<1> SUFFICES ASSUME NEW w \in Txns, WaitsFor(v, w) PROVE FALSE
    OBVIOUS
<1>1. /\ t # u /\ Running(t) /\ Running(u) /\ txn[t].needs # <<>>
      /\ u # v /\ Running(v) /\ txn[u].needs # <<>>
    BY DEF WaitsFor
<1>2. OnNight(u) /\ Awaited(u).row # Awaited(t).row
    BY NightThenNight
<1>3. PICK l \in txn[u].holds : IsNight(l) /\ l.row = Awaited(t).row
    BY NightThenNight
<1>4. PICK m \in txn[v].holds : IsNight(m) /\ m.row = Awaited(u).row
    BY <1>2, NightThenNight
<1>5. Tested(t) /\ Tested(u) /\ Tested(v)
    BY <1>1, <1>2, <1>4, NightWaiter, HolderTested DEF IsNight
<1>6. txn[t].booking # txn[u].booking /\ txn[u].booking # txn[v].booking
    BY <1>1, <1>5, OneMover DEF LocksInv
<1>7. txn[t].booking \in Bookings /\ txn[u].booking \in Bookings /\ txn[v].booking \in Bookings
    BY <1>1, RunningRow DEF LocksInv, TxnRows
<1>8. /\ Awaited(t).row = <<"night", Awaited(t).row[2]>> /\ Awaited(t).row[2] \in Range(NightsOf[txn[t].booking])
      /\ Awaited(u).row = <<"night", Awaited(u).row[2]>> /\ Awaited(u).row[2] \in Range(NightsOf[txn[u].booking])
    BY <1>1, <1>2, NightWaiter
<1>9. Awaited(t).row[2] \in Range(NightsOf[txn[u].booking])
    BY <1>1, <1>3, HolderTested DEF IsNight
<1>10. Awaited(u).row[2] \in Range(NightsOf[txn[v].booking])
    BY <1>1, <1>4, HolderTested DEF IsNight
<1>11. Awaited(t).row[2] = Awaited(u).row[2]
    BY <1>6, <1>7, <1>8, <1>9, <1>10 DEF OneCommonNight
<1> QED BY <1>2, <1>8, <1>11

\* Holds are taken and released in the order of their nights.
LEMMA NightsAscend ==
    ASSUME "post" \notin Operations, "confirm" \notin Operations, "cancel" \notin Operations, LocksInv,
           NEW t \in Txns, Running(t), txn[t].needs # <<>>, OnNight(t), NEW l \in txn[t].holds, IsNight(l)
    PROVE  l.row[2] < Awaited(t).row[2]
<1>o. PICK op, b : op = txn[t].op /\ b = txn[t].booking
    OBVIOUS
<1>1. PICK p \in Seq(Locks) : \E k \in 0..Len(p) :
          /\ p \in Plans(op, b) /\ op \in Operations /\ b \in Bookings /\ txn[t].holds = {p[i] : i \in 1..k}
          /\ k + 1 \in 1..Len(p) /\ Head(txn[t].needs) = p[k + 1]
    BY <1>o, Stands DEF LocksInv
<1>2. PICK k \in 0..Len(p) :
          /\ txn[t].holds = {p[i] : i \in 1..k}
          /\ k + 1 \in 1..Len(p) /\ Head(txn[t].needs) = p[k + 1]
    BY <1>1
<1>3. PICK i \in 1..k : l = p[i]
    BY <1>2
<1>4. op \in {"createHold", "releaseHold"}
    BY <1>1, <1>o, NightWaiter DEF Tested, Changing
<1>5. PICK mode \in {"update", "noKey"}, h \in Seq(Locks) :
          /\ \A j \in 1..Len(h) : ~IsNight(h[j])
          /\ p = h \o [j \in DOMAIN NightsOf[b] |-> Lock("night", NightsOf[b][j], mode)]
    <2>1. CASE op = "createHold"
        <3>h. PICK h : h = <<Credit(b), Wallet(b), Lock("holdKey", b, "update")>>
            OBVIOUS
        <3>1. h \in Seq(Locks) /\ Len(h) = 3 /\ \A j \in 1..3 : ~IsNight(h[j])
            BY <1>1, <3>h DEF Credit, Wallet, Lock, Locks, Ids, Kinds, IsNight
        <3>2. p = h \o [j \in DOMAIN NightsOf[b] |-> Lock("night", NightsOf[b][j], "update")]
            BY <1>1, <2>1, <3>h DEF Plans, createHoldLocks
        <3> QED BY <3>1, <3>2
    <2>2. CASE op = "releaseHold"
        <3>h. PICK h : h = <<Lock("hold", b, "noKey")>>
            OBVIOUS
        <3>1. h \in Seq(Locks) /\ Len(h) = 1 /\ \A j \in 1..1 : ~IsNight(h[j])
            BY <1>1, <3>h DEF Lock, Locks, Ids, Kinds, IsNight
        <3>2. p = h \o [j \in DOMAIN NightsOf[b] |-> Lock("night", NightsOf[b][j], "noKey")]
            BY <1>1, <2>2, <3>h DEF Plans, releaseHoldLocks, Nights
        <3> QED BY <3>1, <3>2
    <2> QED BY <1>4, <2>1, <2>2
<1>q. PICK q : q = [j \in DOMAIN NightsOf[b] |-> Lock("night", NightsOf[b][j], mode)]
    OBVIOUS
<1>6. q \in Seq(Locks) /\ Len(q) \in Nat
    BY <1>1, <1>q, NightLocks
<1>7. DOMAIN q = DOMAIN NightsOf[b] /\ DOMAIN q = 1..Len(q) /\ \A j \in 1..Len(q) : q[j].row[2] = NightsOf[b][j]
    BY <1>6, <1>q, LenProperties DEF Lock
<1>8. Len(h) \in Nat /\ Len(p) = Len(h) + Len(q)
      /\ \A j \in 1..(Len(h) + Len(q)) : p[j] = IF j <= Len(h) THEN h[j] ELSE q[j - Len(h)]
    BY <1>5, <1>6, <1>q, ConcatProperties, LenProperties
<1>9. i \in 1..Len(p) /\ IsNight(p[i]) /\ IsNight(p[k + 1])
    BY <1>2, <1>3, <1>8, <1>6 DEF OnNight, Awaited
<1>10. i > Len(h) /\ k + 1 > Len(h)
    BY <1>2, <1>5, <1>6, <1>8, <1>9
<1>11. /\ i - Len(h) \in 1..Len(q) /\ (k + 1) - Len(h) \in 1..Len(q) /\ i - Len(h) < (k + 1) - Len(h)
       /\ p[i] = q[i - Len(h)] /\ p[k + 1] = q[(k + 1) - Len(h)]
    BY <1>2, <1>6, <1>8, <1>9, <1>10
<1>12. NightsOf[b][i - Len(h)] < NightsOf[b][(k + 1) - Len(h)]
    BY <1>1, <1>7, <1>11, LocksConstantsOK
<1> QED BY <1>2, <1>3, <1>7, <1>11, <1>12 DEF Awaited

\* A finite set of sessions has one with the greatest number.
LEMMA Greatest ==
    ASSUME NEW S, IsFiniteSet(S), S # {}, NEW f \in [S -> Nat]
    PROVE  \E t \in S : \A u \in S : f[u] <= f[t]
<1> DEFINE Above(t) == {u \in S : f[u] > f[t]}
           R == OpToRel(<, Nat)
           T == {Cardinality(Above(t)) : t \in S}
<1>1. ASSUME NEW t \in S
      PROVE  IsFiniteSet(Above(t)) /\ Cardinality(Above(t)) \in Nat
    <2>1. Above(t) \in SUBSET S
        OBVIOUS
    <2> HIDE DEF R, Above
    <2> QED BY <2>1, FS_Subset, FS_CardinalityType
<1>2. T \subseteq Nat /\ T # {}
    <2> HIDE DEF R, Above
    <2> QED BY <1>1
<1>3. \A x, y \in Nat : <<y, x>> \in R <=> y < x
    BY DEF OpToRel
<1>4. IsWellFoundedOn(R, Nat)
    BY NatLessThanWellFounded
<1> HIDE DEF R
<1>5. PICK z \in T : \A y \in T : ~ (<<y, z>> \in R)
    <2> HIDE DEF T
    <2> QED BY <1>2, <1>4, WFMin
<1>6. PICK t \in S : z = Cardinality(Above(t))
    OBVIOUS
<1>7. ASSUME NEW u \in S, f[u] > f[t]
      PROVE  FALSE
    <2>1. Above(u) \subseteq Above(t) /\ u \in Above(t) /\ u \notin Above(u)
        BY <1>7
    <2>2. Cardinality(Above(u)) < Cardinality(Above(t))
        <3> HIDE DEF Above
        <3>1. Cardinality(Above(u)) <= Cardinality(Above(t)) /\ Above(u) # Above(t)
            BY <1>1, <2>1, FS_Subset
        <3>2. Cardinality(Above(u)) # Cardinality(Above(t))
            BY <1>1, <2>1, <3>1, FS_Subset
        <3> QED BY <1>1, <3>1, <3>2
    <2>3. Cardinality(Above(u)) \in T
        OBVIOUS
    <2> QED BY <1>1, <1>3, <1>5, <1>6, <2>2, <2>3
<1> QED BY <1>7

-----------------------------------------------------------------------------
(* The theorems.                                                            *)

\* Sessions that wait for each other in a circle wait for nights: there is one that waits for a night of another that
\* waits for a night too.
DeadlocksAreOnNights ==
    \A S \in (SUBSET Txns) \ {{}} :
        (\A t \in S : \E u \in S : WaitsFor(t, u)) => \E t, u \in S : WaitsFor(t, u) /\ OnNight(t) /\ OnNight(u)

\* Bookings, holds, wallets, credit and accounts never deadlock without the posting worker, whatever nights stays share:
\* the circle of a deadlock closes over two nights, which confirmation and cancellation read in any order.
THEOREM OnlyNightsDeadlock ==
    ASSUME "post" \notin Operations
    PROVE  Spec => []DeadlocksAreOnNights
<1>1. LocksInv => DeadlocksAreOnNights
    <2> SUFFICES ASSUME LocksInv, NEW S \in (SUBSET Txns) \ {{}}, \A t \in S : \E u \in S : WaitsFor(t, u)
                 PROVE  \E t, u \in S : WaitsFor(t, u) /\ OnNight(t) /\ OnNight(u)
        BY DEF DeadlocksAreOnNights
    <2>1. PICK t \in S : OnNight(t)
        BY CycleOnNights
    <2>2. PICK u \in S : WaitsFor(t, u)
        OBVIOUS
    <2>3. PICK v \in S : WaitsFor(u, v)
        OBVIOUS
    <2> QED BY <2>1, <2>2, <2>3, NightThenNight
<1> QED BY <1>1, LocksInvariance, PTL

\* No set of sessions waits for itself (NoDeadlock), for every number of sessions, bookings, agencies and nights, without
\* the posting worker: when every stay meets the others on one night at most, or when no confirmation or cancellation runs.
THEOREM NeverDeadlocks ==
    ASSUME "post" \notin Operations, OneCommonNight \/ ("confirm" \notin Operations /\ "cancel" \notin Operations)
    PROVE  Spec => []NoDeadlock
<1>1. LocksInv => NoDeadlock
    <2> SUFFICES ASSUME LocksInv, NEW S \in (SUBSET Txns) \ {{}}, \A t \in S : \E u \in S : WaitsFor(t, u)
                 PROVE  FALSE
        BY DEF NoDeadlock
    <2>1. PICK t \in S : OnNight(t)
        BY CycleOnNights
    <2>2. CASE OneCommonNight
        <3>1. PICK u \in S : WaitsFor(t, u)
            OBVIOUS
        <3>2. PICK v \in S : WaitsFor(u, v)
            OBVIOUS
        <3> QED BY <2>1, <2>2, <3>1, <3>2, NoChainOnOneNight
    <2>3. CASE "confirm" \notin Operations /\ "cancel" \notin Operations
        <3> DEFINE W == {x \in S : OnNight(x)}
        <3>1. IsFiniteSet(W) /\ W # {}
            <4>1. W \subseteq Txns /\ t \in W
                BY <2>1
            <4> QED BY <4>1, LocksConstantsOK, FS_Subset
        <3>2. \A x \in W : Awaited(x).row[2] \in Nat
            <4> SUFFICES ASSUME NEW x \in W PROVE Awaited(x).row[2] \in Nat
                OBVIOUS
            <4>1. Running(x) /\ txn[x].needs # <<>>
                BY DEF WaitsFor
            <4>2. Awaited(x).row[2] \in Range(NightsOf[txn[x].booking]) /\ txn[x].booking \in Bookings
                BY <4>1, NightWaiter, RunningRow DEF LocksInv, TxnRows
            <4> QED BY <4>2, LocksConstantsOK DEF Range
        <3>f. PICK f : f = [x \in W |-> Awaited(x).row[2]]
            OBVIOUS
        <3>3. f \in [W -> Nat] /\ \A x \in W : f[x] = Awaited(x).row[2]
            BY <3>2, <3>f
        <3>4. PICK x \in W : \A u \in W : f[u] <= f[x]
            BY <3>1, <3>3, Greatest
        <3>5. PICK u \in S : WaitsFor(x, u)
            OBVIOUS
        <3>6. PICK v \in S : WaitsFor(u, v)
            OBVIOUS
        <3>7. u \in W /\ \E l \in txn[u].holds : IsNight(l) /\ l.row = Awaited(x).row
            BY <3>5, <3>6, NightThenNight
        <3>8. Running(u) /\ txn[u].needs # <<>>
            BY <3>6 DEF WaitsFor
        <3>9. Awaited(x).row[2] < Awaited(u).row[2]
            BY <2>3, <3>7, <3>8, NightsAscend
        <3> QED BY <3>2, <3>3, <3>4, <3>7, <3>9
    <2> QED BY <2>2, <2>3
<1> QED BY <1>1, LocksInvariance, PTL

=============================================================================
