---------------------------- MODULE SharedGate ----------------------------
(***************************************************************************)
(* The circuit breaker and concurrency limit that the API tasks share for   *)
(* one supplier connector: SharedConnectorGate over RedisGateStore.  Each   *)
(* Lua script is one step.  Replies and releases may be lost, a task may    *)
(* die in a call, and a call may outlive its lease.  Time is counted in     *)
(* ticks of the open period; a lease may lapse at any moment, since a       *)
(* lapsed member of the sorted set is pruned before it is ever looked at.   *)
(***************************************************************************)
EXTENDS Integers, FiniteSets

CONSTANTS
    SlotIds,           \* randomUUID; an id is drawn again only when nothing remembers it
    None,              \* no probe
    MaxConcurrent,
    FailureThreshold,
    OpenTicks          \* openMs

ASSUME GateConstantsOK ==
    /\ IsFiniteSet(SlotIds) /\ None \notin SlotIds
    /\ MaxConcurrent \in Nat \ {0}
    /\ FailureThreshold \in Nat \ {0}
    /\ OpenTicks \in Nat \ {0}

VARIABLES
    slots,      \* the live leases
    calling,    \* slots whose task is in its supplier call
    failures,   \* consecutive provider failures
    openLeft,   \* time until open_until; 0 once it has passed, Closed when the field is absent
    probe       \* slot id of the half-open probe

vars == <<slots, calling, failures, openLeft, probe>>

Closed == -1

Outcomes == {"ok", "provider_failure", "other"}

Init ==
    /\ slots = {} /\ calling = {} /\ failures = 0
    /\ openLeft = Closed /\ probe = None

-----------------------------------------------------------------------------
Fresh(s) == s \notin slots \cup calling /\ probe # s

\* MUTANT of ProbeOut: a recorded probe counts as running whether or not its lease is live.
ProbeOutForever == probe # None
\* The recorded probe still has its lease.
ProbeOut == probe \in slots

\* The ACQUIRE script granting slot s.  In every other case it answers busy or open and writes nothing.
grant(s) ==
    /\ Fresh(s)
    /\ \/ /\ openLeft = Closed /\ Cardinality(slots) < MaxConcurrent
          /\ UNCHANGED probe
       \/ /\ openLeft = 0 /\ ~ ProbeOut
          /\ probe' = s
    /\ slots' = slots \cup {s}
    /\ UNCHANGED <<failures, openLeft>>

acquire(s) == grant(s) /\ calling' = calling \cup {s}

\* The script ran and its reply was lost: the task calls through its own gate and never releases the slot.
acquireLost(s) == grant(s) /\ UNCHANGED calling

-----------------------------------------------------------------------------
\* MUTANT of judged: any answer decides the circuit, not only the probe's or one of a closed circuit.
judgedAnyone(s) == TRUE
\* The RELEASE script heeds the outcome.
judged(s) == probe = s \/ openLeft = Closed

\* The supplier answered, or the call ended for a reason of our own ("other").
release(s, outcome) ==
    /\ s \in calling
    /\ calling' = calling \ {s}
    /\ slots' = slots \ {s}
    /\ probe' = IF probe = s THEN None ELSE probe
    /\ LET opens == outcome = "provider_failure" /\ judged(s) /\ (probe = s \/ failures + 1 >= FailureThreshold)
       IN  /\ openLeft' = IF opens THEN OpenTicks
                          ELSE IF outcome = "ok" /\ judged(s) THEN Closed ELSE openLeft
           /\ failures' = IF opens \/ (outcome = "ok" /\ judged(s)) THEN 0
                          ELSE IF outcome = "provider_failure" /\ judged(s) THEN failures + 1 ELSE failures

\* The task dies, or its release does not reach the store.
die(s) ==
    /\ s \in calling
    /\ calling' = calling \ {s}
    /\ UNCHANGED <<slots, failures, openLeft, probe>>

lapse(s) ==
    /\ s \in slots
    /\ slots' = slots \ {s}
    /\ UNCHANGED <<calling, failures, openLeft, probe>>

tick ==
    /\ openLeft > 0
    /\ openLeft' = openLeft - 1
    /\ UNCHANGED <<slots, calling, failures, probe>>

\* A day without a write: both keys expire.
idleExpiry ==
    /\ slots = {} /\ calling = {} /\ openLeft <= 0
    /\ failures' = 0 /\ openLeft' = Closed /\ probe' = None
    /\ UNCHANGED <<slots, calling>>

Next ==
    \/ \E s \in SlotIds : acquire(s) \/ acquireLost(s) \/ die(s) \/ lapse(s)
    \/ \E s \in SlotIds, outcome \in Outcomes : release(s, outcome)
    \/ tick \/ idleExpiry

Spec == Init /\ [][Next]_vars

(***************************************************************************)
(* Time passes, leases lapse, calls end because the transport has an        *)
(* overall timeout, and callers keep coming to a store that answers again   *)
(* and again.                                                               *)
(***************************************************************************)
Fairness ==
    /\ WF_vars(tick)
    /\ \A s \in SlotIds : WF_vars(lapse(s)) /\ WF_vars(die(s) \/ \E o \in Outcomes : release(s, o))
    /\ SF_vars(\E s \in SlotIds : acquire(s))

FairSpec == Spec /\ Fairness

-----------------------------------------------------------------------------
C == INSTANCE Circuit WITH
         circuit  <- IF openLeft = Closed THEN "closed"
                     ELSE IF openLeft > 0 THEN "open"
                     ELSE IF ProbeOut THEN "probing" ELSE "halfOpen",
         left     <- IF openLeft > 0 THEN openLeft ELSE 0,
         inFlight <- Cardinality(slots)

(***************************************************************************)
(* The two scripts implement the contract: at most MaxConcurrent leases     *)
(* while closed and one more for the probe; no answer of a call that is not *)
(* the probe, however late, closes an open circuit, extends it or admits a  *)
(* second probe (ADR 0075: "exactly one probe is let through", "Failures    *)
(* from calls that started before the circuit opened do not extend it").    *)
(***************************************************************************)
KeepsTheContract == C!CSpec

(***************************************************************************)
(* A circuit that opened comes to call the supplier again or closes: a      *)
(* probe whose task died, or whose grant was lost, is replaced when its     *)
(* lease lapses, so no connector stays shut.                                *)
(***************************************************************************)
ProbesAgain == openLeft # Closed ~> (openLeft = Closed \/ probe \in calling)
=============================================================================
