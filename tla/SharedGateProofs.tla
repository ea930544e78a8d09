------------------------- MODULE SharedGateProofs -------------------------
(***************************************************************************)
(* The gate's two scripts keep the contract of Circuit for every set of     *)
(* slot ids, limit, threshold and open period.                              *)
(*                                                                         *)
(* The inductive invariant is GateInv.  Beside the types it says that only  *)
(* a half-open circuit knows a probe, so that whoever decides an open or a  *)
(* closed circuit is not an old probe, and that the leases without the      *)
(* probe's stay within the limit.                                           *)
(***************************************************************************)
EXTENDS SharedGate, FiniteSetTheorems, TLAPS

GateTypes ==
    /\ slots \subseteq SlotIds /\ calling \subseteq SlotIds
    /\ failures \in Nat
    /\ openLeft \in -1..OpenTicks
    /\ probe \in SlotIds \cup {None}

GateInv ==
    /\ GateTypes
    /\ openLeft # 0 => probe = None
    /\ Cardinality(slots \ {probe}) <= MaxConcurrent

-----------------------------------------------------------------------------
(* Counting leases.                                                         *)

LEMMA Leases ==
    ASSUME NEW S \in SUBSET SlotIds
    PROVE  IsFiniteSet(S) /\ Cardinality(S) \in Nat /\ (Cardinality(S) = 0 <=> S = {})
<1>1. IsFiniteSet(S)
    BY FS_Subset, GateConstantsOK DEF GateConstantsOK
<1> QED BY <1>1, FS_CardinalityType, FS_EmptySet

\* A new lease is one more; a lease that ends is one less.
LEMMA LeaseAdded ==
    ASSUME NEW S \in SUBSET SlotIds, NEW s \in SlotIds \ S
    PROVE  Cardinality(S \cup {s}) = Cardinality(S) + 1
BY Leases, FS_AddElement

LEMMA LeaseEnded ==
    ASSUME NEW S \in SUBSET SlotIds, NEW s
    PROVE  Cardinality(S \ {s}) = IF s \in S THEN Cardinality(S) - 1 ELSE Cardinality(S)
<1>1. CASE s \in S
    BY <1>1, Leases, FS_RemoveElement
<1>2. CASE s \notin S
    <2>1. S \ {s} = S
        BY <1>2
    <2> QED BY <1>2, <2>1
<1> QED BY <1>1, <1>2

\* Fewer leases count for less.
LEMMA FewerLeases ==
    ASSUME NEW S \in SUBSET SlotIds, NEW T \in SUBSET S
    PROVE  Cardinality(T) <= Cardinality(S)
BY Leases, FS_Subset

-----------------------------------------------------------------------------
LEMMA TypesKept ==
    ASSUME GateTypes, Next
    PROVE  GateTypes'
<1> USE GateConstantsOK DEF GateConstantsOK, GateTypes
<1>1. ASSUME NEW s \in SlotIds, grant(s)
      PROVE  slots' \subseteq SlotIds /\ failures' \in Nat /\ openLeft' \in -1..OpenTicks /\ probe' \in SlotIds \cup {None}
    BY <1>1 DEF grant
<1>2. ASSUME NEW s \in SlotIds, acquire(s) \/ acquireLost(s)
      PROVE  GateTypes'
    BY <1>1, <1>2 DEF acquire, acquireLost
<1>3. ASSUME NEW s \in SlotIds, die(s) \/ lapse(s)
      PROVE  GateTypes'
    BY <1>3 DEF die, lapse
<1>4. ASSUME NEW s \in SlotIds, NEW o \in Outcomes, release(s, o)
      PROVE  GateTypes'
    BY <1>4 DEF release, Closed
<1>5. ASSUME tick \/ idleExpiry
      PROVE  GateTypes'
    BY <1>5 DEF tick, idleExpiry, Closed
<1> QED BY <1>2, <1>3, <1>4, <1>5 DEF Next

\* Who holds a lease stays within the limit, the probe aside.
LEMMA LimitKept ==
    ASSUME GateInv, Next
    PROVE  GateInv'
<1> USE GateConstantsOK DEF GateConstantsOK
<1>0. GateTypes'
    BY TypesKept DEF GateInv
<1>1. ASSUME NEW s \in SlotIds, grant(s)
      PROVE  (openLeft' # 0 => probe' = None) /\ Cardinality(slots' \ {probe'}) <= MaxConcurrent
    <2>1. CASE openLeft = Closed /\ Cardinality(slots) < MaxConcurrent /\ UNCHANGED probe
        <3>1. probe = None /\ s \notin slots
            BY <1>1, <2>1 DEF grant, Fresh, GateInv, Closed
        <3>2. Cardinality(slots \cup {s}) = Cardinality(slots) + 1
            BY <3>1, LeaseAdded DEF GateInv, GateTypes
        <3>3. slots' \ {probe'} = slots \cup {s}
            BY <1>1, <2>1, <3>1 DEF grant, GateInv, GateTypes
        <3>4. Cardinality(slots) \in Nat
            BY Leases DEF GateInv, GateTypes
        <3> QED BY <1>1, <2>1, <3>1, <3>2, <3>3, <3>4 DEF grant
    <2>2. CASE openLeft = 0 /\ ~ProbeOut /\ probe' = s
        <3>1. slots' \ {probe'} = slots \ {probe}
            BY <1>1, <2>2 DEF grant, Fresh, ProbeOut
        <3> QED BY <1>1, <2>2, <3>1 DEF grant, GateInv
    <2> QED BY <1>1, <2>1, <2>2 DEF grant
<1>2. ASSUME slots' \subseteq slots, probe' = probe \/ probe \notin slots'
      PROVE  Cardinality(slots' \ {probe'}) <= MaxConcurrent
    <2>1. slots \ {probe} \in SUBSET SlotIds
        BY DEF GateInv, GateTypes
    <2>2. slots' \ {probe'} \subseteq slots \ {probe}
        BY <1>2
    <2>3. Cardinality(slots' \ {probe'}) <= Cardinality(slots \ {probe})
        BY <2>1, <2>2, FewerLeases
    <2>4. Cardinality(slots' \ {probe'}) \in Nat /\ Cardinality(slots \ {probe}) \in Nat
        BY <2>1, <2>2, Leases
    <2> QED BY <2>3, <2>4 DEF GateInv
<1>3. ASSUME NEW s \in SlotIds, die(s) \/ lapse(s)
      PROVE  GateInv'
    BY <1>0, <1>2, <1>3 DEF die, lapse, GateInv
<1>4. ASSUME NEW s \in SlotIds, NEW o \in Outcomes, release(s, o)
      PROVE  GateInv'
    <2>1. openLeft' # 0 => probe' = None
        BY <1>4 DEF release, judged, Closed, GateInv, GateTypes
    <2>2. slots' \subseteq slots /\ (probe' = probe \/ probe \notin slots')
        BY <1>4 DEF release
    <2> QED BY <1>0, <1>2, <2>1, <2>2 DEF GateInv
<1>5. ASSUME tick \/ idleExpiry
      PROVE  GateInv'
    <2>1. openLeft' # 0 => probe' = None
        BY <1>5 DEF tick, idleExpiry, Closed, GateInv, GateTypes
    <2>2. slots' \subseteq slots /\ (probe' = probe \/ probe \notin slots')
        BY <1>5 DEF tick, idleExpiry
    <2> QED BY <1>0, <1>2, <2>1, <2>2 DEF GateInv
<1>6. ASSUME NEW s \in SlotIds, acquire(s) \/ acquireLost(s)
      PROVE  GateInv'
    BY <1>0, <1>1, <1>6 DEF acquire, acquireLost, GateInv
<1> QED BY <1>3, <1>4, <1>5, <1>6 DEF Next

\* Only a half-open circuit has a probe, and the leases beside its stay within the limit, whatever
\* replies are lost, callers die and leases lapse.
THEOREM GateInvariance == Spec => []GateInv
<1>1. Init => GateInv
    <2> SUFFICES ASSUME Init PROVE GateInv
        OBVIOUS
    <2>1. Cardinality(slots \ {probe}) = 0
        BY FS_EmptySet DEF Init
    <2> QED BY <2>1, GateConstantsOK DEF Init, GateInv, GateTypes, GateConstantsOK, Closed
<1>2. GateInv /\ [Next]_vars => GateInv'
    <2> SUFFICES ASSUME GateInv, [Next]_vars PROVE GateInv'
        OBVIOUS
    <2>1. CASE Next
        BY <2>1, LimitKept
    <2>2. CASE UNCHANGED vars
        BY <2>2 DEF vars, GateInv, GateTypes
    <2> QED BY <2>1, <2>2
<1> QED BY <1>1, <1>2, PTL DEF Spec

-----------------------------------------------------------------------------
(* SharedGate implements Circuit.                                           *)

LEMMA GrantRefines ==
    ASSUME GateInv, NEW s \in SlotIds, grant(s)
    PROVE  C!Admit \/ C!Probe
<1> USE GateConstantsOK DEF GateConstantsOK
<1>1. /\ Cardinality(slots) \in Nat
      /\ Cardinality(slots') = Cardinality(slots) + 1
    BY Leases, LeaseAdded DEF grant, Fresh, GateInv, GateTypes
<1>2. CASE openLeft = Closed /\ Cardinality(slots) < MaxConcurrent /\ UNCHANGED probe
    BY <1>1, <1>2 DEF grant, C!Admit, Closed
<1>3. CASE openLeft = 0 /\ ~ProbeOut /\ probe' = s
    <2>1. slots \ {probe} = slots
        BY <1>3 DEF ProbeOut
    <2>2. Cardinality(slots) <= MaxConcurrent
        BY <2>1 DEF GateInv
    <2>3. ProbeOut' /\ openLeft' = 0
        BY <1>3 DEF grant, ProbeOut
    <2> QED BY <1>1, <1>3, <2>2, <2>3 DEF grant, C!Probe, Closed
<1> QED BY <1>2, <1>3 DEF grant

LEMMA EndRefines ==
    ASSUME GateInv, NEW s \in SlotIds, die(s) \/ lapse(s)
    PROVE  C!Finish \/ UNCHANGED C!cvars
<1>1. CASE die(s)
    BY <1>1 DEF die, C!cvars, ProbeOut
<1>2. CASE lapse(s)
    <2>1. /\ Cardinality(slots) \in Nat /\ Cardinality(slots) # 0
          /\ Cardinality(slots') = Cardinality(slots) - 1
        BY <1>2, Leases, LeaseEnded DEF lapse, GateInv, GateTypes
    <2>2. ProbeOut' => ProbeOut
        BY <1>2 DEF lapse, ProbeOut
    <2> QED BY <1>2, <2>1, <2>2 DEF lapse, C!Finish, Closed
<1> QED BY <1>1, <1>2

LEMMA ReleaseRefines ==
    ASSUME GateInv, NEW s \in SlotIds, NEW o \in Outcomes, release(s, o)
    PROVE  C!Finish \/ C!Open \/ C!Close \/ UNCHANGED C!cvars
<1> USE GateConstantsOK DEF GateConstantsOK
<1>1. /\ Cardinality(slots) \in Nat /\ Cardinality(slots') \in Nat
      /\ Cardinality(slots') = IF s \in slots THEN Cardinality(slots) - 1 ELSE Cardinality(slots)
      /\ s \in slots => Cardinality(slots) # 0
    BY Leases, LeaseEnded DEF release, GateInv, GateTypes
<1>2. /\ openLeft \in -1..OpenTicks /\ probe \in SlotIds \cup {None}
      /\ openLeft # 0 => probe = None
      /\ slots \subseteq SlotIds
    BY DEF GateInv, GateTypes
<1>3. CASE ~judged(s) \/ o = "other"
    <2>1. openLeft' = openLeft
        BY <1>3 DEF release
    <2>2. probe # s => (ProbeOut' <=> ProbeOut)
        BY DEF release, ProbeOut
    <2>3. probe = s => ~ProbeOut' /\ (ProbeOut <=> s \in slots)
        BY <1>2 DEF release, ProbeOut
    <2> QED BY <1>1, <1>2, <2>1, <2>2, <2>3 DEF C!Finish, C!cvars, Closed
<1>4. CASE judged(s) /\ o = "ok"
    <2>1. openLeft' = Closed
        BY <1>4 DEF release
    <2>2. openLeft = Closed \/ (openLeft = 0 /\ probe = s)
        BY <1>2, <1>4 DEF judged
    <2> QED BY <1>1, <2>1, <2>2 DEF C!Finish, C!Close, C!cvars, Closed, ProbeOut
<1>5. CASE judged(s) /\ o = "provider_failure"
    <2>1. openLeft = Closed \/ (openLeft = 0 /\ probe = s)
        BY <1>2, <1>5 DEF judged
    <2>2. openLeft' = OpenTicks \/ (openLeft = Closed /\ openLeft' = Closed)
        BY <1>2, <1>5, <2>1 DEF release
    <2> QED BY <1>1, <2>1, <2>2 DEF C!Finish, C!Open, C!cvars, Closed, ProbeOut
<1> QED BY <1>3, <1>4, <1>5 DEF Outcomes

LEMMA TimeRefines ==
    ASSUME GateInv, tick \/ idleExpiry
    PROVE  C!Cool \/ C!Close \/ UNCHANGED C!cvars
<1> USE GateConstantsOK DEF GateConstantsOK
<1>0. /\ openLeft \in -1..OpenTicks /\ slots \subseteq SlotIds /\ None \notin slots
      /\ openLeft # 0 => probe = None
      /\ Cardinality(slots) \in Nat
    BY Leases DEF GateInv, GateTypes
<1>1. CASE tick
    <2>1. ~ProbeOut'
        BY <1>0, <1>1 DEF tick, ProbeOut
    <2> QED BY <1>0, <1>1, <2>1 DEF tick, C!Cool, Closed
<1>2. CASE idleExpiry
    <2>1. ~ProbeOut
        BY <1>2 DEF idleExpiry, ProbeOut
    <2> QED BY <1>0, <1>2, <2>1 DEF idleExpiry, C!Close, C!cvars, Closed
<1> QED BY <1>1, <1>2

\* The gate keeps its contract (KeepsTheContract): lost replies, dead callers, lapsed leases and
\* stragglers never admit a call, close or extend a circuit that Circuit would not.
THEOREM KeepsContract == Spec => KeepsTheContract
<1>1. Init => C!CInit
    BY FS_EmptySet DEF Init, C!CInit, Closed
<1>2. GateInv /\ [Next]_vars => [C!CNext]_(C!cvars)
    <2> SUFFICES ASSUME GateInv, [Next]_vars PROVE [C!CNext]_(C!cvars)
        OBVIOUS
    <2>1. CASE Next
        BY <2>1, GrantRefines, EndRefines, ReleaseRefines, TimeRefines
           DEF Next, acquire, acquireLost, C!CNext
    <2>2. CASE UNCHANGED vars
        BY <2>2 DEF vars, C!cvars, ProbeOut
    <2> QED BY <2>1, <2>2
<1> QED BY <1>1, <1>2, GateInvariance, PTL DEF Spec, KeepsTheContract, C!CSpec
=============================================================================
