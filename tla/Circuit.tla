------------------------------ MODULE Circuit ------------------------------
(***************************************************************************)
(* What the gate of a supplier connector promises its callers (the contract *)
(* of SharedConnectorGate and ADR 0075, amendment 1): a limit on the calls  *)
(* in flight and a circuit breaker that only its own probe can close.       *)
(***************************************************************************)
EXTENDS Naturals

CONSTANTS
    MaxConcurrent,  \* calls in flight while the circuit is closed
    OpenTicks       \* how long the circuit stays open

VARIABLES
    circuit,   \* "closed", "open", "halfOpen" or "probing"
    left,      \* the ticks an open circuit has left
    inFlight   \* the calls that hold a lease

cvars == <<circuit, left, inFlight>>

CInit == circuit = "closed" /\ left = 0 /\ inFlight = 0

Admit ==
    /\ circuit = "closed" /\ inFlight < MaxConcurrent
    /\ inFlight' = inFlight + 1
    /\ UNCHANGED <<circuit, left>>

\* A call ends or its lease lapses; a probe that ends without a verdict leaves the circuit half-open.
Finish ==
    /\ inFlight > 0
    /\ inFlight' = inFlight - 1
    /\ circuit' \in {circuit} \cup (IF circuit = "probing" THEN {"halfOpen"} ELSE {})
    /\ UNCHANGED left

\* The supplier failed: a closed circuit reached its threshold, or the probe failed.
Open ==
    /\ circuit \in {"closed", "halfOpen", "probing"}
    /\ circuit' = "open" /\ left' = OpenTicks
    /\ inFlight' \in {inFlight, inFlight - 1} \cap Nat

Cool ==
    /\ circuit = "open" /\ left > 0
    /\ left' = left - 1
    /\ circuit' = IF left = 1 THEN "halfOpen" ELSE "open"
    /\ UNCHANGED inFlight

\* One call beside the ones that started before the circuit opened.
Probe ==
    /\ circuit = "halfOpen" /\ inFlight <= MaxConcurrent
    /\ circuit' = "probing" /\ inFlight' = inFlight + 1
    /\ UNCHANGED left

\* The probe, late or in time, succeeded; or the gate was idle for a day.
Close ==
    /\ circuit \in {"halfOpen", "probing"}
    /\ circuit' = "closed"
    /\ inFlight' \in {inFlight, inFlight - 1} \cap Nat
    /\ UNCHANGED left

CNext == Admit \/ Finish \/ Open \/ Cool \/ Probe \/ Close

CSpec == CInit /\ [][CNext]_cvars
=============================================================================
