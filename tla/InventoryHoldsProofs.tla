------------------------ MODULE InventoryHoldsProofs ------------------------
(***************************************************************************)
(* What InventoryHolds guarantees for any number of plans, pools, nights,  *)
(* holds and rooms: its types, counters that match the holds, no           *)
(* overselling, moves that are never refused, and the promise of RoomStock.*)
(*                                                                         *)
(* The inductive invariant is IInv.  Its core is CountersMatchHolds; the   *)
(* rest of the module counts rooms (UnitsOf) as holds change their status. *)
(***************************************************************************)
EXTENDS InventoryHolds, FiniteSetTheorems, TLAPS

-----------------------------------------------------------------------------
(* Counting rooms.                                                         *)

\* The rooms of a set of holds are finitely many units.
LEMMA UnitsFinite ==
    ASSUME NEW S \in SUBSET Holds, NEW q
    PROVE  /\ IsFiniteSet(Stock!UnitsOf(S, q))
           /\ Cardinality(Stock!UnitsOf(S, q)) \in Nat
<1>1. IsFiniteSet(S)
    BY FS_Subset, ConstantsOK DEF ConstantsOK
<1>2. IsFiniteSet(1..MaxRooms)
    BY FS_Interval, ConstantsOK DEF ConstantsOK
<1>3. IsFiniteSet(S \X (1..MaxRooms))
    BY <1>1, <1>2, FS_Product
<1>4. Stock!UnitsOf(S, q) \in SUBSET (S \X (1..MaxRooms))
    BY DEF Stock!UnitsOf
<1> QED BY <1>3, <1>4, FS_Subset, FS_CardinalityType

\* One hold accounts for as many units as it has rooms.
LEMMA UnitsOfOne ==
    ASSUME NEW h \in Holds, NEW q \in [Holds -> 0..MaxRooms]
    PROVE  Cardinality(Stock!UnitsOf({h}, q)) = q[h]
<1>1. q[h] \in Nat /\ q[h] <= MaxRooms /\ MaxRooms \in Nat
    BY ConstantsOK DEF ConstantsOK
<1>2. Stock!UnitsOf({h}, q) = {h} \X (1..q[h])
    BY <1>1 DEF Stock!UnitsOf
<1>3. IsFiniteSet({h}) /\ Cardinality({h}) = 1
    BY FS_Singleton
<1>4. IsFiniteSet(1..q[h]) /\ Cardinality(1..q[h]) = q[h]
    BY <1>1, FS_Interval
<1>5. Cardinality({h} \X (1..q[h])) = Cardinality({h}) * Cardinality(1..q[h])
    BY <1>3, <1>4, FS_Product, Zenon
<1>6. 1 * q[h] = q[h]
    BY <1>1
<1> QED BY <1>2, <1>3, <1>4, <1>5, <1>6, Zenon

\* A hold that joins a set adds its rooms.
LEMMA UnitsAdd ==
    ASSUME NEW S \in SUBSET Holds, NEW h \in Holds, h \notin S,
           NEW q \in [Holds -> 0..MaxRooms]
    PROVE  Cardinality(Stock!UnitsOf(S \cup {h}, q)) = Cardinality(Stock!UnitsOf(S, q)) + q[h]
<1> DEFINE A == Stock!UnitsOf(S, q)
           B == Stock!UnitsOf({h}, q)
<1>1. Stock!UnitsOf(S \cup {h}, q) = A \cup B
    BY DEF Stock!UnitsOf
<1>2. A \cap B = {}
    BY DEF Stock!UnitsOf
<1>3. IsFiniteSet(A) /\ Cardinality(A) \in Nat /\ IsFiniteSet(B)
    BY UnitsFinite
<1>4. Cardinality(B) = q[h] /\ q[h] \in Nat
    BY UnitsOfOne, ConstantsOK DEF ConstantsOK
<1> HIDE DEF A, B
<1>5. Cardinality(A \cup B) = Cardinality(A) + Cardinality(B) - Cardinality(A \cap B)
    BY <1>3, FS_Union
<1>6. Cardinality(A \cap B) = 0
    BY <1>2, FS_EmptySet
<1>7. Cardinality(A \cup B) = Cardinality(A) + q[h]
    BY <1>3, <1>4, <1>5, <1>6
<1> QED BY <1>1, <1>7, Zenon DEF A

\* A hold that leaves a set takes its rooms with it; so a member's rooms are in the count.
LEMMA UnitsRemove ==
    ASSUME NEW S \in SUBSET Holds, NEW h \in S, NEW q \in [Holds -> 0..MaxRooms]
    PROVE  /\ Cardinality(Stock!UnitsOf(S \ {h}, q)) = Cardinality(Stock!UnitsOf(S, q)) - q[h]
           /\ Cardinality(Stock!UnitsOf(S, q)) >= q[h]
<1>1. (S \ {h}) \cup {h} = S
    OBVIOUS
<1>2. Cardinality(Stock!UnitsOf((S \ {h}) \cup {h}, q)) = Cardinality(Stock!UnitsOf(S \ {h}, q)) + q[h]
    BY UnitsAdd
<1>3. Cardinality(Stock!UnitsOf(S \ {h}, q)) \in Nat
    BY UnitsFinite
<1>4. q[h] \in Nat
    BY ConstantsOK DEF ConstantsOK
<1> QED BY <1>1, <1>2, <1>3, <1>4

\* Only the rooms of the members matter.
LEMMA UnitsAgree ==
    ASSUME NEW S, NEW q, NEW z, \A h \in S : q[h] = z[h]
    PROVE  Stock!UnitsOf(S, q) = Stock!UnitsOf(S, z)
BY DEF Stock!UnitsOf

-----------------------------------------------------------------------------
(* Counting the holds of a status, in a state and in its successor.         *)

Members(S, D, st, c) == {h \in Holds : S[h] \in st /\ c \in D[h]}
Count(S, D, q, st, c) == Cardinality(Stock!UnitsOf(Members(S, D, st, c), q))

\* A hold whose status enters st adds its rooms to the count ...
LEMMA StatusEnters ==
    ASSUME TypeOK, NEW st, NEW c, NEW h \in Holds, NEW to,
           status' = [status EXCEPT ![h] = to],
           c \in draw[h], status[h] \notin st, to \in st
    PROVE  Count(status', draw, rooms, st, c) = Count(status, draw, rooms, st, c) + rooms[h]
<1> DEFINE A == Members(status, draw, st, c)
           B == Members(status', draw, st, c)
<1>1. \A x \in Holds : status'[x] = IF x = h THEN to ELSE status[x]
    BY DEF TypeOK
<1>2. A \in SUBSET Holds /\ h \notin A /\ B = A \cup {h}
    BY <1>1 DEF Members
<1>3. Cardinality(Stock!UnitsOf(A \cup {h}, rooms)) = Cardinality(Stock!UnitsOf(A, rooms)) + rooms[h]
    BY <1>2, UnitsAdd DEF TypeOK
<1> QED BY <1>2, <1>3 DEF Count

\* ... one whose status leaves st takes them away ...
LEMMA StatusLeaves ==
    ASSUME TypeOK, NEW st, NEW c, NEW h \in Holds, NEW to,
           status' = [status EXCEPT ![h] = to],
           c \in draw[h], status[h] \in st, to \notin st
    PROVE  Count(status', draw, rooms, st, c) = Count(status, draw, rooms, st, c) - rooms[h]
<1> DEFINE A == Members(status, draw, st, c)
           B == Members(status', draw, st, c)
<1>1. \A x \in Holds : status'[x] = IF x = h THEN to ELSE status[x]
    BY DEF TypeOK
<1>2. A \in SUBSET Holds /\ h \in A /\ B = A \ {h}
    BY <1>1 DEF Members
<1>3. Cardinality(Stock!UnitsOf(A \ {h}, rooms)) = Cardinality(Stock!UnitsOf(A, rooms)) - rooms[h]
    BY <1>2, UnitsRemove DEF TypeOK
<1> QED BY <1>2, <1>3 DEF Count

\* ... and any other leaves the count alone.
LEMMA StatusStays ==
    ASSUME TypeOK, NEW st, NEW c, NEW h \in Holds, NEW to,
           status' = [status EXCEPT ![h] = to],
           c \notin draw[h] \/ (status[h] \in st <=> to \in st)
    PROVE  Count(status', draw, rooms, st, c) = Count(status, draw, rooms, st, c)
<1> DEFINE A == Members(status, draw, st, c)
           B == Members(status', draw, st, c)
<1>1. \A x \in Holds : status'[x] = IF x = h THEN to ELSE status[x]
    BY DEF TypeOK
<1>2. A = B
    BY <1>1 DEF Members
<1> QED BY <1>2 DEF Count

\* A new hold enters the counts of the counters it drew on ...
LEMMA CreateEnters ==
    ASSUME TypeOK, NEW st, NEW c, NEW h \in Holds, NEW to, NEW C, NEW n \in 1..MaxRooms,
           status[h] \notin st,
           status' = [status EXCEPT ![h] = to],
           draw' = [draw EXCEPT ![h] = C],
           rooms' = [rooms EXCEPT ![h] = n],
           c \in C, to \in st
    PROVE  Count(status', draw', rooms', st, c) = Count(status, draw, rooms, st, c) + n
<1> DEFINE A == Members(status, draw, st, c)
           B == Members(status', draw', st, c)
<1>1. \A x \in Holds : /\ status'[x] = IF x = h THEN to ELSE status[x]
                       /\ draw'[x] = IF x = h THEN C ELSE draw[x]
                       /\ rooms'[x] = IF x = h THEN n ELSE rooms[x]
    BY DEF TypeOK
<1>2. A \in SUBSET Holds /\ h \notin A /\ B = A \cup {h}
    BY <1>1 DEF Members
<1>3. Stock!UnitsOf(A, rooms') = Stock!UnitsOf(A, rooms)
    <2>1. \A x \in A : rooms'[x] = rooms[x]
        BY <1>1, <1>2
    <2> QED BY <2>1, UnitsAgree
<1>4. rooms' \in [Holds -> 0..MaxRooms]
    BY DEF TypeOK
<1>5. Cardinality(Stock!UnitsOf(A \cup {h}, rooms')) = Cardinality(Stock!UnitsOf(A, rooms')) + rooms'[h]
    BY <1>2, <1>4, UnitsAdd
<1> QED BY <1>1, <1>2, <1>3, <1>5 DEF Count

\* ... and no other.
LEMMA CreateMisses ==
    ASSUME TypeOK, NEW st, NEW c, NEW h \in Holds, NEW to, NEW C, NEW n \in 1..MaxRooms,
           status[h] \notin st,
           status' = [status EXCEPT ![h] = to],
           draw' = [draw EXCEPT ![h] = C],
           rooms' = [rooms EXCEPT ![h] = n],
           c \notin C \/ to \notin st
    PROVE  Count(status', draw', rooms', st, c) = Count(status, draw, rooms, st, c)
<1> DEFINE A == Members(status, draw, st, c)
           B == Members(status', draw', st, c)
<1>1. \A x \in Holds : /\ status'[x] = IF x = h THEN to ELSE status[x]
                       /\ draw'[x] = IF x = h THEN C ELSE draw[x]
                       /\ rooms'[x] = IF x = h THEN n ELSE rooms[x]
    BY DEF TypeOK
<1>2. A \in SUBSET Holds /\ h \notin A /\ B = A
    BY <1>1 DEF Members
<1>3. Stock!UnitsOf(A, rooms') = Stock!UnitsOf(A, rooms)
    <2>1. \A x \in A : rooms'[x] = rooms[x]
        BY <1>1, <1>2
    <2> QED BY <2>1, UnitsAgree
<1> QED BY <1>2, <1>3 DEF Count

-----------------------------------------------------------------------------
(* Types.                                                                  *)

\* A hold draws on existing counters.
LEMMA CountersForType ==
    ASSUME TypeOK, NEW p \in Plans, NEW s \in Stays
    PROVE  CountersFor({p} \X s) \in SUBSET Counters /\ {p} \X s \in SUBSET PlanRows
<1>1. s \subseteq Nights
    BY ConstantsOK DEF ConstantsOK
<1>2. {p} \X s \in SUBSET PlanRows
    BY <1>1 DEF PlanRows
<1>3. ASSUME NEW r \in {p} \X s PROVE CounterOf(r) \in Counters
    <2>1. r[1] = p /\ r[2] \in Nights /\ r = <<p, r[2]>>
        BY <1>1
    <2>2. pool[p] \in Pools \cup {NoPool}
        BY DEF TypeOK
    <2> QED BY <2>1, <2>2 DEF CounterOf, Counters
<1> QED BY <1>2, <1>3 DEF CountersFor

LEMMA ShiftType ==
    ASSUME NEW f \in [Counters -> Nat], NEW D, NEW k \in Nat
    PROVE  /\ Shift(f, D, k) \in [Counters -> Nat]
           /\ (\A c \in D \cap Counters : f[c] >= k) => Shift(f, D, -k) \in [Counters -> Nat]
BY DEF Shift

LEMMA RoomsType ==
    ASSUME TypeOK, NEW h \in Holds
    PROVE  rooms[h] \in Nat /\ draw[h] \subseteq Counters
BY ConstantsOK DEF TypeOK, ConstantsOK

LEMMA ReturnHeldType ==
    ASSUME TypeOK, NEW h \in Holds, ReturnHeld(h)
    PROVE  held' \in [Counters -> Nat]
<1>1. \A c \in draw[h] \cap Counters : held[c] >= rooms[h]
    BY DEF ReturnHeld
<1>2. held \in [Counters -> Nat]
    BY DEF TypeOK
<1> QED BY <1>1, <1>2, RoomsType, ShiftType DEF ReturnHeld

LEMMA HoldTypes ==
    ASSUME TypeOK, HoldNext
    PROVE  TypeOK'
<1> USE DEF TypeOK, stockVars, adminVars, holdVars, sweepVars, Statuses
<1>1. ASSUME NEW h \in Holds, NEW p \in Plans, NEW s \in Stays, NEW q \in 1..MaxRooms, Create(h, p, s, q)
      PROVE  TypeOK'
    <2>1. CountersFor({p} \X s) \in SUBSET Counters /\ {p} \X s \in SUBSET PlanRows
        BY CountersForType
    <2>2. q \in Nat
        OBVIOUS
    <2>3. held' \in [Counters -> Nat]
        BY <1>1, <2>2, ShiftType DEF Create
    <2>4. rooms' \in [Holds -> 0..MaxRooms]
        BY <1>1 DEF Create
    <2> QED BY <1>1, <2>1, <2>3, <2>4 DEF Create
<1>2. ASSUME NEW h \in Holds, FallDue(h) PROVE TypeOK'
    BY <1>2 DEF FallDue
<1>3. ASSUME NEW h \in Holds, BeginProcessing(h) PROVE TypeOK'
    BY <1>3 DEF BeginProcessing
<1>4. ASSUME NEW h \in Holds, Release(h) PROVE TypeOK'
    BY <1>4, ReturnHeldType DEF Release
<1>5. ASSUME NEW h \in Holds, OwnRead(h) PROVE TypeOK'
    BY <1>5 DEF OwnRead
<1>6. ASSUME NEW h \in Holds, OwnRelease(h) PROVE TypeOK'
    BY <1>6, ReturnHeldType DEF OwnRelease
<1>7. ASSUME NEW h \in Holds, Confirm(h) PROVE TypeOK'
    BY <1>7, ReturnHeldType, RoomsType, ShiftType DEF Confirm
<1>8. ASSUME NEW h \in Holds, Cancel(h) PROVE TypeOK'
    BY <1>8, RoomsType, ShiftType DEF Cancel, ReturnSold
<1> QED BY <1>1, <1>2, <1>3, <1>4, <1>5, <1>6, <1>7, <1>8 DEF HoldNext

LEMMA SweepTypes ==
    ASSUME TypeOK, SweepNext
    PROVE  TypeOK'
<1> USE DEF TypeOK, stockVars, adminVars, holdVars, sweepVars, Statuses
<1>1. ASSUME NEW B \in SUBSET Holds, SweepRead(B) PROVE TypeOK'
    BY <1>1 DEF SweepRead
<1>2. ASSUME NEW h \in Holds, SweepOne(h) PROVE TypeOK'
    BY <1>2, ReturnHeldType DEF SweepOne
<1>3. ASSUME SweepCrash PROVE TypeOK'
    BY <1>3, ConstantsOK DEF SweepCrash, ConstantsOK
<1> QED BY <1>1, <1>2, <1>3 DEF SweepNext

LEMMA AdminTypes ==
    ASSUME TypeOK, AdminNext
    PROVE  TypeOK'
<1> USE DEF TypeOK, stockVars, adminVars, holdVars, sweepVars
<1>1. ASSUME NEW c \in Counters, NEW k \in 0..MaxCapacity, EditCapacity(c, k) PROVE TypeOK'
    BY <1>1, ConstantsOK DEF EditCapacity, ConstantsOK
<1>2. ASSUME NEW c \in PoolDays, NEW stop \in BOOLEAN, ReleaseAllocation(c, stop) PROVE TypeOK'
    <2>1. c \in Counters
        BY DEF PoolDays, Counters
    <2> QED BY <1>2, <2>1 DEF ReleaseAllocation
<1>3. ASSUME NEW r \in PlanRows, NEW t \in Terms, SetTerms(r, t) PROVE TypeOK'
    BY <1>3 DEF SetTerms
<1>4. ASSUME NEW p \in Plans, NEW q \in Pools, JoinCheck(p, q) \/ JoinCommit(p, q) PROVE TypeOK'
    BY <1>4 DEF JoinCheck, JoinCommit
<1>5. ASSUME NEW p \in Plans, Leave(p) PROVE TypeOK'
    BY <1>5 DEF Leave
<1>6. ASSUME NEW q \in Pools, Archive(q) PROVE TypeOK'
    BY <1>6 DEF Archive
<1> QED BY <1>1, <1>2, <1>3, <1>4, <1>5, <1>6 DEF AdminNext

\* The counters never go below zero and every hold keeps a status, a room quantity and
\* counters that exist, whatever the agents, the sweeper and the administrators do.
THEOREM TypeCorrect == Spec => []TypeOK
<1>1. Init => TypeOK
    BY ConstantsOK DEF Init, TypeOK, Statuses, ConstantsOK
<1>2. TypeOK /\ [Next]_vars => TypeOK'
    <2> SUFFICES ASSUME TypeOK, [Next]_vars PROVE TypeOK'
        OBVIOUS
    <2>1. CASE Next
        BY <2>1, HoldTypes, SweepTypes, AdminTypes DEF Next
    <2>2. CASE UNCHANGED vars
        BY <2>2 DEF vars, stockVars, adminVars, holdVars, sweepVars, TypeOK
    <2> QED BY <2>1, <2>2
<1> QED BY <1>1, <1>2, PTL DEF Spec

-----------------------------------------------------------------------------
(* Counters and capacity.                                                  *)

\* The inductive invariant.
IInv == TypeOK /\ CountersMatchHolds /\ NeverOversold

Reserving == {"HELD", "PROCESSING"}
Selling   == {"CONFIRMED"}

\* held and sold count the reserving and the selling holds, in the notation of the counting
\* lemmas.
LEMMA MatchIsCount ==
    CountersMatchHolds <=> \A c \in Counters : held[c] = Count(status, draw, rooms, Reserving, c) /\ sold[c] = Count(status, draw, rooms, Selling, c)
BY DEF CountersMatchHolds, Count, Members, Reserving, Selling, In

LEMMA MatchIsCountNext ==
    CountersMatchHolds' <=> \A c \in Counters : held'[c] = Count(status', draw', rooms', Reserving, c) /\ sold'[c] = Count(status', draw', rooms', Selling, c)
BY DEF CountersMatchHolds, Count, Members, Reserving, Selling, In

\* Nothing that was counted changed.
LEMMA NothingCounted ==
    ASSUME IInv, UNCHANGED <<held, sold, status, draw, rooms>>
    PROVE  CountersMatchHolds'
BY DEF IInv, CountersMatchHolds, In

\* A hold that reserved rooms gives them back or sells them.
LEMMA MatchAfterReturn ==
    ASSUME IInv, NEW h \in Holds, status[h] \in Reserving, ReturnHeld(h),
           NEW to, to \notin Reserving, status' = [status EXCEPT ![h] = to],
           UNCHANGED <<draw, rooms>>,
           sold' = IF to \in Selling THEN Shift(sold, draw[h], rooms[h]) ELSE sold
    PROVE  CountersMatchHolds'
<1>1. /\ TypeOK
      /\ status[h] \notin Selling
    BY DEF IInv, Reserving, Selling
<1>2. ASSUME NEW c \in Counters
      PROVE  /\ held'[c] = Count(status', draw, rooms, Reserving, c)
             /\ sold'[c] = Count(status', draw, rooms, Selling, c)
    <2>1. held[c] = Count(status, draw, rooms, Reserving, c) /\ sold[c] = Count(status, draw, rooms, Selling, c)
        BY MatchIsCount DEF IInv
    <2>2. held'[c] = IF c \in draw[h] THEN held[c] - rooms[h] ELSE held[c]
        BY <1>1, RoomsType DEF ReturnHeld, Shift, TypeOK
    <2>3. sold'[c] = IF c \in draw[h] /\ to \in Selling THEN sold[c] + rooms[h] ELSE sold[c]
        BY <1>1 DEF Shift
    <2>4. CASE c \in draw[h]
        <3>1. Count(status', draw, rooms, Reserving, c) = Count(status, draw, rooms, Reserving, c) - rooms[h]
            BY <1>1, <2>4, StatusLeaves
        <3>2. to \in Selling => Count(status', draw, rooms, Selling, c) = Count(status, draw, rooms, Selling, c) + rooms[h]
            BY <1>1, <2>4, StatusEnters
        <3>3. to \notin Selling => Count(status', draw, rooms, Selling, c) = Count(status, draw, rooms, Selling, c)
            BY <1>1, <2>4, StatusStays
        <3> QED BY <2>1, <2>2, <2>3, <2>4, <3>1, <3>2, <3>3
    <2>5. CASE c \notin draw[h]
        <3>1. Count(status', draw, rooms, Reserving, c) = Count(status, draw, rooms, Reserving, c)
            BY <1>1, <2>5, StatusStays
        <3>2. Count(status', draw, rooms, Selling, c) = Count(status, draw, rooms, Selling, c)
            BY <1>1, <2>5, StatusStays
        <3> QED BY <2>1, <2>2, <2>3, <2>5, <3>1, <3>2
    <2> QED BY <2>4, <2>5
<1> QED BY <1>2, MatchIsCountNext

LEMMA MatchAfterCreate ==
    ASSUME IInv, NEW h \in Holds, NEW p \in Plans, NEW s \in Stays, NEW q \in 1..MaxRooms, Create(h, p, s, q)
    PROVE  CountersMatchHolds'
<1> DEFINE D == CountersFor({p} \X s)
<1>1. /\ status[h] \notin Reserving /\ "HELD" \in Reserving
      /\ status[h] \notin Selling /\ "HELD" \notin Selling
      /\ status' = [status EXCEPT ![h] = "HELD"]
      /\ draw' = [draw EXCEPT ![h] = D]
      /\ rooms' = [rooms EXCEPT ![h] = q]
    BY DEF Create, Reserving, Selling
<1>2. TypeOK
    BY DEF IInv
<1>3. \A c \in Counters : held'[c] = (IF c \in D THEN held[c] + q ELSE held[c]) /\ sold'[c] = sold[c]
    BY DEF Create, Shift
<1> HIDE DEF D
<1>4. ASSUME NEW c \in Counters
      PROVE  /\ held'[c] = Count(status', draw', rooms', Reserving, c)
             /\ sold'[c] = Count(status', draw', rooms', Selling, c)
    <2>1. held[c] = Count(status, draw, rooms, Reserving, c) /\ sold[c] = Count(status, draw, rooms, Selling, c)
        BY MatchIsCount DEF IInv
    <2>2. c \in D => Count(status', draw', rooms', Reserving, c) = Count(status, draw, rooms, Reserving, c) + q
        BY <1>1, <1>2, CreateEnters
    <2>3. c \notin D => Count(status', draw', rooms', Reserving, c) = Count(status, draw, rooms, Reserving, c)
        BY <1>1, <1>2, CreateMisses
    <2>4. Count(status', draw', rooms', Selling, c) = Count(status, draw, rooms, Selling, c)
        BY <1>1, <1>2, CreateMisses
    <2> QED BY <1>3, <2>1, <2>2, <2>3, <2>4
<1> QED BY <1>4, MatchIsCountNext

LEMMA MatchAfterClaim ==
    ASSUME IInv, NEW h \in Holds, BeginProcessing(h)
    PROVE  CountersMatchHolds'
<1>1. /\ status' = [status EXCEPT ![h] = "PROCESSING"]
      /\ UNCHANGED <<held, sold, draw, rooms>>
      /\ status[h] \in Reserving /\ "PROCESSING" \in Reserving
      /\ status[h] \notin Selling /\ "PROCESSING" \notin Selling
    BY DEF BeginProcessing, stockVars, holdVars, Reserving, Selling
<1>2. TypeOK
    BY DEF IInv
<1>3. ASSUME NEW c \in Counters
      PROVE  /\ Count(status', draw, rooms, Reserving, c) = Count(status, draw, rooms, Reserving, c)
             /\ Count(status', draw, rooms, Selling, c) = Count(status, draw, rooms, Selling, c)
    <2>1. Count(status', draw, rooms, Reserving, c) = Count(status, draw, rooms, Reserving, c)
        BY <1>1, <1>2, StatusStays
    <2>2. Count(status', draw, rooms, Selling, c) = Count(status, draw, rooms, Selling, c)
        BY <1>1, <1>2, StatusStays
    <2> QED BY <2>1, <2>2
<1> QED BY <1>1, <1>3, MatchIsCount, MatchIsCountNext DEF IInv

LEMMA MatchAfterCancel ==
    ASSUME IInv, NEW h \in Holds, ReturnSold(h)
    PROVE  CountersMatchHolds'
<1>1. /\ status' = [status EXCEPT ![h] = "RELEASED"]
      /\ UNCHANGED <<held, draw, rooms>>
      /\ sold' = Shift(sold, draw[h], -rooms[h])
      /\ status[h] \notin Reserving /\ "RELEASED" \notin Reserving
      /\ status[h] \in Selling /\ "RELEASED" \notin Selling
    BY DEF ReturnSold, holdVars, Reserving, Selling
<1>2. TypeOK
    BY DEF IInv
<1>3. ASSUME NEW c \in Counters
      PROVE  /\ held'[c] = Count(status', draw, rooms, Reserving, c)
             /\ sold'[c] = Count(status', draw, rooms, Selling, c)
    <2>1. held[c] = Count(status, draw, rooms, Reserving, c) /\ sold[c] = Count(status, draw, rooms, Selling, c)
        BY MatchIsCount DEF IInv
    <2>2. sold'[c] = IF c \in draw[h] THEN sold[c] - rooms[h] ELSE sold[c]
        BY <1>1, <1>2, RoomsType DEF Shift, TypeOK
    <2>3. Count(status', draw, rooms, Reserving, c) = Count(status, draw, rooms, Reserving, c)
        BY <1>1, <1>2, StatusStays
    <2>4. c \in draw[h] => Count(status', draw, rooms, Selling, c) = Count(status, draw, rooms, Selling, c) - rooms[h]
        BY <1>1, <1>2, StatusLeaves
    <2>5. c \notin draw[h] => Count(status', draw, rooms, Selling, c) = Count(status, draw, rooms, Selling, c)
        BY <1>1, <1>2, StatusStays
    <2> QED BY <1>1, <2>1, <2>2, <2>3, <2>4, <2>5
<1> QED BY <1>1, <1>3, MatchIsCountNext

\* The stock a hold takes is there, on every counter it draws on.
LEMMA CreateFits ==
    ASSUME IInv, NEW h \in Holds, NEW p \in Plans, NEW s \in Stays, NEW q \in 1..MaxRooms, Create(h, p, s, q)
    PROVE  \A c \in CountersFor({p} \X s) : sold[c] + held[c] + q <= capacity[c]
<1> SUFFICES ASSUME NEW r \in {p} \X s, ~TakesNoCounter(terms[r])
             PROVE  sold[CounterOf(r)] + held[CounterOf(r)] + q <= capacity[CounterOf(r)]
    BY DEF CountersFor
<1>1. MayReserve(r, q)
    BY DEF Create
<1> QED BY <1>1 DEF MayReserve

LEMMA NotOversoldAfterCreate ==
    ASSUME IInv, NEW h \in Holds, NEW p \in Plans, NEW s \in Stays, NEW q \in 1..MaxRooms, Create(h, p, s, q)
    PROVE  NeverOversold'
<1> DEFINE D == CountersFor({p} \X s)
<1>1. \A c \in D : sold[c] + held[c] + q <= capacity[c]
    BY CreateFits
<1>2. /\ \A c \in Counters : held'[c] = IF c \in D THEN held[c] + q ELSE held[c]
      /\ UNCHANGED <<sold, capacity>>
    BY DEF Create, Shift
<1>3. \A c \in Counters : sold[c] \in Nat /\ held[c] \in Nat /\ capacity[c] \in Nat
    BY DEF IInv, TypeOK
<1> HIDE DEF D
<1> QED BY <1>1, <1>2, <1>3 DEF IInv, NeverOversold

\* Rooms that are given back or sold out of a hold take no further stock.
LEMMA NotOversoldAfterReturn ==
    ASSUME IInv, NEW h \in Holds, ReturnHeld(h), UNCHANGED capacity,
           sold' = sold \/ sold' = Shift(sold, draw[h], rooms[h])
    PROVE  NeverOversold'
<1>1. TypeOK /\ NeverOversold
    BY DEF IInv
<1>2. rooms[h] \in Nat
    BY <1>1, RoomsType
<1>3. ASSUME NEW c \in Counters PROVE sold'[c] + held'[c] <= capacity[c]
    <2>1. sold[c] \in Nat /\ held[c] \in Nat /\ capacity[c] \in Nat /\ sold[c] + held[c] <= capacity[c]
        BY <1>1 DEF TypeOK, NeverOversold
    <2>2. held'[c] = IF c \in draw[h] THEN held[c] - rooms[h] ELSE held[c]
        BY <1>2, <2>1 DEF ReturnHeld, Shift
    <2>3. sold'[c] = sold[c] \/ sold'[c] = IF c \in draw[h] THEN sold[c] + rooms[h] ELSE sold[c]
        BY DEF Shift
    <2> QED BY <1>2, <2>1, <2>2, <2>3
<1> QED BY <1>3 DEF NeverOversold

LEMMA NotOversoldAfterCancel ==
    ASSUME IInv, NEW h \in Holds, ReturnSold(h)
    PROVE  NeverOversold'
<1>1. TypeOK /\ NeverOversold
    BY DEF IInv
<1>2. rooms[h] \in Nat
    BY <1>1, RoomsType
<1>3. ASSUME NEW c \in Counters PROVE sold'[c] + held'[c] <= capacity'[c]
    <2>1. sold[c] \in Nat /\ held[c] \in Nat /\ capacity[c] \in Nat /\ sold[c] + held[c] <= capacity[c]
        BY <1>1 DEF TypeOK, NeverOversold
    <2>2. sold'[c] = (IF c \in draw[h] THEN sold[c] - rooms[h] ELSE sold[c]) /\ UNCHANGED <<held, capacity>>
        BY <1>2, <2>1 DEF ReturnSold, Shift
    <2> QED BY <1>2, <2>1, <2>2
<1> QED BY <1>3 DEF NeverOversold

LEMMA StockUntouched ==
    ASSUME IInv, UNCHANGED <<stockVars, status, draw, rooms>>
    PROVE  CountersMatchHolds' /\ NeverOversold'
<1>1. CountersMatchHolds'
    BY NothingCounted DEF stockVars
<1>2. NeverOversold'
    BY DEF IInv, NeverOversold, stockVars
<1> QED BY <1>1, <1>2

LEMMA HoldStep ==
    ASSUME IInv, HoldNext
    PROVE  CountersMatchHolds' /\ NeverOversold'
<1> USE DEF adminVars, holdVars, sweepVars
<1>1. ASSUME NEW h \in Holds, NEW p \in Plans, NEW s \in Stays, NEW q \in 1..MaxRooms, Create(h, p, s, q)
      PROVE  CountersMatchHolds' /\ NeverOversold'
    BY <1>1, MatchAfterCreate, NotOversoldAfterCreate
<1>2. ASSUME NEW h \in Holds, FallDue(h) \/ OwnRead(h)
      PROVE  CountersMatchHolds' /\ NeverOversold'
    BY <1>2, StockUntouched DEF FallDue, OwnRead
<1>3. ASSUME NEW h \in Holds, BeginProcessing(h)
      PROVE  CountersMatchHolds' /\ NeverOversold'
    <2>1. NeverOversold'
        BY <1>3 DEF BeginProcessing, stockVars, IInv, NeverOversold
    <2> QED BY <1>3, <2>1, MatchAfterClaim
<1>4. ASSUME NEW h \in Holds, Release(h)
      PROVE  CountersMatchHolds' /\ NeverOversold'
    <2>1. CountersMatchHolds'
        BY <1>4, MatchAfterReturn DEF Release, Reserving, Selling
    <2>2. NeverOversold'
        BY <1>4, NotOversoldAfterReturn DEF Release
    <2> QED BY <2>1, <2>2
<1>5. ASSUME NEW h \in Holds, OwnRelease(h)
      PROVE  CountersMatchHolds' /\ NeverOversold'
    <2>1. CASE OwnReleasable(h)
        <3>1. CountersMatchHolds'
            BY <1>5, <2>1, MatchAfterReturn DEF OwnRelease, OwnReleasable, Reserving, Selling
        <3>2. NeverOversold'
            BY <1>5, <2>1, NotOversoldAfterReturn DEF OwnRelease
        <3> QED BY <3>1, <3>2
    <2>2. CASE ~OwnReleasable(h)
        BY <1>5, <2>2, StockUntouched DEF OwnRelease, stockVars
    <2> QED BY <2>1, <2>2
<1>6. ASSUME NEW h \in Holds, Confirm(h)
      PROVE  CountersMatchHolds' /\ NeverOversold'
    <2>1. CountersMatchHolds'
        BY <1>6, MatchAfterReturn DEF Confirm, Reserving, Selling
    <2>2. NeverOversold'
        BY <1>6, NotOversoldAfterReturn DEF Confirm
    <2> QED BY <2>1, <2>2
<1>7. ASSUME NEW h \in Holds, Cancel(h)
      PROVE  CountersMatchHolds' /\ NeverOversold'
    BY <1>7, MatchAfterCancel, NotOversoldAfterCancel DEF Cancel
<1> QED BY <1>1, <1>2, <1>3, <1>4, <1>5, <1>6, <1>7 DEF HoldNext

LEMMA SweepStep ==
    ASSUME IInv, SweepNext
    PROVE  CountersMatchHolds' /\ NeverOversold'
<1> USE DEF holdVars
<1>1. ASSUME NEW B \in SUBSET Holds, SweepRead(B)
      PROVE  CountersMatchHolds' /\ NeverOversold'
    BY <1>1, StockUntouched DEF SweepRead
<1>2. ASSUME NEW h \in Holds, SweepOne(h)
      PROVE  CountersMatchHolds' /\ NeverOversold'
    <2>1. CASE Expirable(h)
        <3>1. CountersMatchHolds'
            BY <1>2, <2>1, MatchAfterReturn DEF SweepOne, Expirable, Reserving, Selling
        <3>2. NeverOversold'
            BY <1>2, <2>1, NotOversoldAfterReturn DEF SweepOne
        <3> QED BY <3>1, <3>2
    <2>2. CASE ~Expirable(h)
        BY <1>2, <2>2, StockUntouched DEF SweepOne, stockVars
    <2> QED BY <2>1, <2>2
<1>3. ASSUME SweepCrash
      PROVE  CountersMatchHolds' /\ NeverOversold'
    BY <1>3, StockUntouched DEF SweepCrash
<1> QED BY <1>1, <1>2, <1>3 DEF SweepNext

LEMMA AdminStep ==
    ASSUME IInv, AdminNext
    PROVE  CountersMatchHolds' /\ NeverOversold'
<1> USE DEF holdVars
<1>1. ASSUME NEW c \in Counters, NEW k \in 0..MaxCapacity, EditCapacity(c, k)
      PROVE  CountersMatchHolds' /\ NeverOversold'
    <2>1. CountersMatchHolds'
        BY <1>1, NothingCounted DEF EditCapacity
    <2>2. NeverOversold'
        BY <1>1 DEF EditCapacity, FitsWhatIsOut, IInv, TypeOK, NeverOversold
    <2> QED BY <2>1, <2>2
<1>2. ASSUME NEW c \in PoolDays, NEW stop \in BOOLEAN, ReleaseAllocation(c, stop)
      PROVE  CountersMatchHolds' /\ NeverOversold'
    <2>1. CountersMatchHolds'
        BY <1>2, NothingCounted DEF ReleaseAllocation
    <2>2. /\ \A x \in Counters : capacity'[x] = capacity[x] \/ capacity'[x] = sold[x] + held[x]
          /\ UNCHANGED <<held, sold>>
        BY <1>2 DEF ReleaseAllocation, IInv, TypeOK
    <2>3. NeverOversold'
        BY <2>2 DEF IInv, TypeOK, NeverOversold
    <2> QED BY <2>1, <2>3
<1>3. ASSUME NEW r \in PlanRows, NEW t \in Terms, SetTerms(r, t)
      PROVE  CountersMatchHolds' /\ NeverOversold'
    BY <1>3, StockUntouched DEF SetTerms
<1>4. ASSUME NEW p \in Plans, NEW q \in Pools, JoinCheck(p, q) \/ JoinCommit(p, q)
      PROVE  CountersMatchHolds' /\ NeverOversold'
    BY <1>4, StockUntouched DEF JoinCheck, JoinCommit
<1>5. ASSUME NEW p \in Plans, Leave(p)
      PROVE  CountersMatchHolds' /\ NeverOversold'
    BY <1>5, StockUntouched DEF Leave
<1>6. ASSUME NEW q \in Pools, Archive(q)
      PROVE  CountersMatchHolds' /\ NeverOversold'
    BY <1>6, StockUntouched DEF Archive
<1> QED BY <1>1, <1>2, <1>3, <1>4, <1>5, <1>6 DEF AdminNext

LEMMA InitCounts == Init => CountersMatchHolds /\ NeverOversold
<1> SUFFICES ASSUME Init PROVE CountersMatchHolds /\ NeverOversold
    OBVIOUS
<1>1. ASSUME NEW c, NEW st, "NONE" \notin st
      PROVE  Cardinality(Stock!UnitsOf(In(st, c), rooms)) = 0
    <2>1. In(st, c) = {}
        BY <1>1 DEF Init, In
    <2>2. Stock!UnitsOf({}, rooms) = {}
        BY DEF Stock!UnitsOf
    <2> QED BY <2>1, <2>2, FS_EmptySet
<1>2. CountersMatchHolds
    BY <1>1 DEF Init, CountersMatchHolds
<1>3. NeverOversold
    BY ConstantsOK DEF Init, NeverOversold, ConstantsOK
<1> QED BY <1>2, <1>3

\* The inductive invariant holds in every reachable state.
THEOREM Invariance == Spec => []IInv
<1>1. Init => IInv
    BY InitCounts, ConstantsOK DEF IInv, Init, TypeOK, Statuses, ConstantsOK
<1>2. IInv /\ [Next]_vars => IInv'
    <2> SUFFICES ASSUME IInv, [Next]_vars PROVE IInv'
        OBVIOUS
    <2>1. CASE Next
        BY <2>1, HoldTypes, SweepTypes, AdminTypes, HoldStep, SweepStep, AdminStep DEF Next, IInv
    <2>2. CASE UNCHANGED vars
        <3>1. TypeOK'
            BY <2>2 DEF vars, stockVars, adminVars, holdVars, sweepVars, IInv, TypeOK
        <3>2. UNCHANGED <<stockVars, status, draw, rooms>>
            BY <2>2 DEF vars, holdVars
        <3> QED BY <3>1, <3>2, StockUntouched DEF IInv
    <2> QED BY <2>1, <2>2
<1> QED BY <1>1, <1>2, PTL DEF Spec

-----------------------------------------------------------------------------
(* What follows from the inductive invariant.                               *)

\* The running counters are exactly the rooms of the holds behind them, on any number of
\* plan rows and pool days.
THEOREM CountersMatch == Spec => []CountersMatchHolds
<1>1. IInv => CountersMatchHolds
    BY DEF IInv
<1> QED BY <1>1, Invariance, PTL

\* No night is ever sold beyond its stock.
THEOREM NotOversold == Spec => []NeverOversold
<1>1. IInv => NeverOversold
    BY DEF IInv
<1> QED BY <1>1, Invariance, PTL

\* A hold's rooms are in the count of its status, on every counter it drew on.
LEMMA MemberCounted ==
    ASSUME TypeOK, NEW st, NEW h \in Holds, NEW c \in draw[h], status[h] \in st
    PROVE  Count(status, draw, rooms, st, c) >= rooms[h]
<1> DEFINE A == Members(status, draw, st, c)
<1>1. A \in SUBSET Holds /\ h \in A
    BY DEF Members
<1>2. rooms \in [Holds -> 0..MaxRooms]
    BY DEF TypeOK
<1>3. Cardinality(Stock!UnitsOf(A, rooms)) >= rooms[h]
    BY <1>1, <1>2, UnitsRemove
<1> QED BY <1>3 DEF Count

\* moveNight's guard never throws: a release, an expiry, a confirmation or a cancellation
\* always finds its rooms on the counter it recorded.
THEOREM MovesNotRefused == Spec => []MovesNeverRefused
<1>1. IInv => MovesNeverRefused
    <2> SUFFICES ASSUME IInv, NEW h \in Holds, NEW c \in draw[h]
                 PROVE  /\ status[h] \in Reserving => held[c] >= rooms[h]
                        /\ status[h] \in Selling => sold[c] >= rooms[h]
        BY DEF MovesNeverRefused, Reserving, Selling
    <2>1. TypeOK /\ c \in Counters
        BY RoomsType DEF IInv
    <2>2. held[c] = Count(status, draw, rooms, Reserving, c) /\ sold[c] = Count(status, draw, rooms, Selling, c)
        BY <2>1, MatchIsCount DEF IInv
    <2>3. status[h] \in Reserving => Count(status, draw, rooms, Reserving, c) >= rooms[h]
        BY <2>1, MemberCounted
    <2>4. status[h] \in Selling => Count(status, draw, rooms, Selling, c) >= rooms[h]
        BY <2>1, MemberCounted
    <2> QED BY <2>2, <2>3, <2>4
<1> QED BY <1>1, Invariance, PTL

-----------------------------------------------------------------------------
(* InventoryHolds implements RoomStock.                                     *)

\* What RoomStock says is out of a counter is what the two counters add up to.
LEMMA OutIsCounters ==
    ASSUME IInv, NEW c \in Counters
    PROVE  Stock!Out(c) = sold[c] + held[c]
<1> DEFINE R == Members(status, draw, Reserving, c)
           S == Members(status, draw, Selling, c)
           O == {h \in Holds : status[h] \in Stock!Occupying /\ c \in draw[h]}
           UR == Stock!UnitsOf(R, rooms)
           US == Stock!UnitsOf(S, rooms)
<1>1. R \in SUBSET Holds /\ S \in SUBSET Holds /\ R \cap S = {}
    BY DEF Members, Reserving, Selling
<1>2. O = R \cup S
    BY DEF Members, Reserving, Selling, Stock!Occupying
<1>3. Stock!UnitsOf(R \cup S, rooms) = UR \cup US
    BY DEF Stock!UnitsOf
<1>4. UR \cap US = {}
    BY <1>1 DEF Stock!UnitsOf
<1>5. /\ IsFiniteSet(UR) /\ Cardinality(UR) \in Nat
      /\ IsFiniteSet(US) /\ Cardinality(US) \in Nat
    BY <1>1, UnitsFinite
<1>6. held[c] = Cardinality(UR) /\ sold[c] = Cardinality(US)
    BY MatchIsCount DEF IInv, Count
<1>7. Stock!Out(c) = Cardinality(Stock!UnitsOf(O, rooms))
    BY Zenon DEF Stock!Out, Stock!Cardinality, Cardinality
<1> HIDE DEF R, S, O, UR, US
<1>8. Cardinality(UR \cup US) = Cardinality(UR) + Cardinality(US) - Cardinality(UR \cap US)
    BY <1>5, FS_Union
<1>9. Cardinality(UR \cap US) = 0
    BY <1>4, FS_EmptySet
<1>10. Stock!Out(c) = Cardinality(UR \cup US)
    BY <1>2, <1>3, <1>7, Zenon
<1> QED BY <1>5, <1>6, <1>8, <1>9, <1>10

\* A new hold is a Take: its rooms fit next to what is out.
LEMMA CreateTakes ==
    ASSUME IInv, NEW h \in Holds, NEW p \in Plans, NEW s \in Stays, NEW q \in 1..MaxRooms, Create(h, p, s, q)
    PROVE  Stock!Next
<1> DEFINE D == CountersFor({p} \X s)
<1>1. D \in SUBSET Counters
    BY CountersForType DEF IInv
<1>2. \A c \in D : sold[c] + held[c] + q <= capacity[c]
    BY CreateFits
<1>3. \A c \in D : Stock!Out(c) + q <= capacity[c]
    BY <1>1, <1>2, OutIsCounters
<1>4. Stock!Take(h, D, q)
    BY <1>3 DEF Create, Stock!Take
<1> QED BY <1>1, <1>4 DEF Stock!Next

\* A capacity that covers what is out is a Resize.
LEMMA EditResizes ==
    ASSUME IInv, TypeOK', NEW c \in Counters, NEW k, k >= sold[c] + held[c],
           capacity' = [capacity EXCEPT ![c] = k], UNCHANGED <<status, draw, rooms>>
    PROVE  Stock!Next
<1>1. Stock!Out(c) <= capacity'[c]
    BY OutIsCounters DEF IInv, TypeOK
<1>2. \A x \in Counters \ {c} : capacity'[x] = capacity[x]
    BY DEF IInv, TypeOK
<1>3. capacity' \in [Counters -> Nat]
    BY DEF TypeOK
<1>4. Stock!Resize(c)
    BY <1>1, <1>2, <1>3 DEF Stock!Resize
<1> QED BY <1>4 DEF Stock!Next

LEMMA HoldRefines ==
    ASSUME IInv, HoldNext
    PROVE  [Stock!Next]_(Stock!vars)
<1> USE DEF stockVars, holdVars
<1>1. ASSUME NEW h \in Holds, NEW p \in Plans, NEW s \in Stays, NEW q \in 1..MaxRooms, Create(h, p, s, q)
      PROVE  Stock!Next
    BY <1>1, CreateTakes
<1>2. ASSUME NEW h \in Holds, FallDue(h) \/ OwnRead(h)
      PROVE  UNCHANGED Stock!vars
    BY <1>2 DEF FallDue, OwnRead, Stock!vars
<1>3. ASSUME NEW h \in Holds, BeginProcessing(h)
      PROVE  Stock!Claim(h)
    BY <1>3 DEF BeginProcessing, Stock!Claim
<1>4. ASSUME NEW h \in Holds, Release(h) \/ Cancel(h)
      PROVE  Stock!GiveBack(h, "RELEASED")
    BY <1>4 DEF Release, Cancel, ReturnSold, Stock!GiveBack, Stock!Occupying
<1>5. ASSUME NEW h \in Holds, OwnRelease(h)
      PROVE  Stock!GiveBack(h, "RELEASED") \/ UNCHANGED Stock!vars
    BY <1>5 DEF OwnRelease, OwnReleasable, Stock!GiveBack, Stock!Occupying, Stock!vars
<1>6. ASSUME NEW h \in Holds, Confirm(h)
      PROVE  Stock!Sell(h)
    BY <1>6 DEF Confirm, Stock!Sell
<1> QED BY <1>1, <1>2, <1>3, <1>4, <1>5, <1>6 DEF HoldNext, Stock!Next

LEMMA SweepRefines ==
    ASSUME IInv, SweepNext
    PROVE  [Stock!Next]_(Stock!vars)
<1> USE DEF stockVars, holdVars
<1>1. ASSUME SweepCrash \/ \E B \in SUBSET Holds : SweepRead(B)
      PROVE  UNCHANGED Stock!vars
    BY <1>1 DEF SweepRead, SweepCrash, Stock!vars
<1>2. ASSUME NEW h \in Holds, SweepOne(h)
      PROVE  Stock!GiveBack(h, "EXPIRED") \/ UNCHANGED Stock!vars
    BY <1>2 DEF SweepOne, Expirable, Stock!GiveBack, Stock!Occupying, Stock!vars
<1> QED BY <1>1, <1>2 DEF SweepNext, Stock!Next

LEMMA AdminRefines ==
    ASSUME IInv, TypeOK', AdminNext
    PROVE  [Stock!Next]_(Stock!vars)
<1> USE DEF holdVars
<1>1. ASSUME NEW c \in Counters, NEW k \in 0..MaxCapacity, EditCapacity(c, k)
      PROVE  Stock!Next
    <2>1. k >= sold[c] + held[c]
        BY <1>1 DEF EditCapacity, FitsWhatIsOut, IInv, TypeOK
    <2> QED BY <1>1, <2>1, EditResizes DEF EditCapacity
<1>2. ASSUME NEW c \in PoolDays, NEW stop \in BOOLEAN, ReleaseAllocation(c, stop)
      PROVE  Stock!Next
    <2>1. c \in Counters
        BY DEF PoolDays, Counters
    <2>2. sold[c] + held[c] >= sold[c] + held[c]
        BY <2>1 DEF IInv, TypeOK
    <2> QED BY <1>2, <2>1, <2>2, EditResizes DEF ReleaseAllocation
<1>3. ASSUME \/ \E r \in PlanRows, t \in Terms : SetTerms(r, t)
             \/ \E p \in Plans, q \in Pools : JoinCheck(p, q) \/ JoinCommit(p, q)
             \/ \E p \in Plans : Leave(p)
             \/ \E q \in Pools : Archive(q)
      PROVE  UNCHANGED Stock!vars
    BY <1>3 DEF SetTerms, JoinCheck, JoinCommit, Leave, Archive, stockVars, Stock!vars
<1> QED BY <1>1, <1>2, <1>3 DEF AdminNext

\* The code's design of running counters, a sweeper and administrators keeps the promise
\* stated without counters.
THEOREM Refinement == Spec => ImplementsRoomStock
<1>1. Init => Stock!Init
    BY ConstantsOK DEF Init, Stock!Init, ConstantsOK
<1>2. IInv /\ TypeOK' /\ [Next]_vars => [Stock!Next]_(Stock!vars)
    <2> SUFFICES ASSUME IInv, TypeOK', [Next]_vars PROVE [Stock!Next]_(Stock!vars)
        OBVIOUS
    <2>1. CASE Next
        BY <2>1, HoldRefines, SweepRefines, AdminRefines DEF Next
    <2>2. CASE UNCHANGED vars
        BY <2>2 DEF vars, stockVars, holdVars, Stock!vars
    <2> QED BY <2>1, <2>2
<1> QED BY <1>1, <1>2, Invariance, TypeCorrect, PTL DEF Spec, ImplementsRoomStock, Stock!Spec

\* Stock returns once.  The counter-free promise already says so: no step of it leaves
\* RELEASED or EXPIRED.
THEOREM GivenBackForGood == Spec => GivenBackIsFinal
<1>1. IInv /\ TypeOK' /\ [Next]_vars => [\A h \in Holds : status[h] \in {"RELEASED", "EXPIRED"} => status'[h] = status[h]]_vars
    <2> SUFFICES ASSUME IInv, TypeOK', [Next]_vars,
                        NEW h \in Holds, status[h] \in {"RELEASED", "EXPIRED"}
                 PROVE  status'[h] = status[h]
        OBVIOUS
    <2>1. [Stock!Next]_(Stock!vars)
        BY HoldRefines, SweepRefines, AdminRefines DEF Next, vars, stockVars, holdVars, Stock!vars
    <2>2. status \in [Holds -> Statuses]
        BY DEF IInv, TypeOK
    <2> QED BY <2>1, <2>2 DEF Stock!Next, Stock!Take, Stock!Claim, Stock!Sell, Stock!GiveBack,
               Stock!Resize, Stock!Occupying, Stock!vars
<1> QED BY <1>1, Invariance, TypeCorrect, PTL DEF Spec, GivenBackIsFinal

\* A claim wins over the sweep that had listed the hold and over the owner's release that
\* had read it HELD: both look again inside their transaction.
THEOREM ClaimedSafe == Spec => ClaimedHoldIsSafe
<1>1. TypeOK /\ [Next]_vars =>
        [\A h \in Holds :
            status[h] = "PROCESSING" /\ (h \in batch \ batch' \/ h \in ownRead \ ownRead')
                => status'[h] = "PROCESSING"]_vars
    <2> SUFFICES ASSUME TypeOK, Next, NEW h \in Holds, status[h] = "PROCESSING",
                        h \in batch \ batch' \/ h \in ownRead \ ownRead'
                 PROVE  status'[h] = "PROCESSING"
        OBVIOUS
    <2> USE DEF TypeOK, sweepVars
    <2>1. CASE HoldNext
        <3>1. PICK x \in Holds : OwnRelease(x)
            BY <2>1 DEF HoldNext, Create, FallDue, BeginProcessing, Release, OwnRead, Confirm, Cancel, ReturnSold
        <3> QED BY <3>1 DEF OwnRelease, OwnReleasable
    <2>2. CASE SweepNext
        BY <2>2 DEF SweepNext, SweepRead, SweepOne, Expirable, SweepCrash
    <2>3. CASE AdminNext
        BY <2>3 DEF AdminNext, EditCapacity, ReleaseAllocation, SetTerms, JoinCheck, JoinCommit, Leave, Archive
    <2> QED BY <2>1, <2>2, <2>3 DEF Next
<1> QED BY <1>1, TypeCorrect, PTL DEF Spec, ClaimedHoldIsSafe
=============================================================================
