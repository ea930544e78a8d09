-------------------------- MODULE BookingLifecycle --------------------------
(***************************************************************************)
(* The one table of legal moves of an Admin booking and the named actions   *)
(* that perform them (packages/contracts booking-lifecycle.ts), with the    *)
(* finance event each action writes (booking-finance-events.ts).  A module  *)
(* of definitions only: SupplierJobs and BookingMoney run the actions.       *)
(***************************************************************************)
EXTENDS Naturals, FiniteSets

Statuses == {"PENDING_SUPPLIER", "ON_REQUEST", "CONFIRMED", "AMEND_REQUESTED", "CANCEL_REQUESTED",
             "CHECKED_OUT", "NO_SHOW", "CANCELLED", "REJECTED", "FAILED"}

\* BOOKING_TRANSITIONS
Transitions ==
    {<<"PENDING_SUPPLIER", "CONFIRMED">>, <<"PENDING_SUPPLIER", "ON_REQUEST">>, <<"PENDING_SUPPLIER", "FAILED">>,
     <<"ON_REQUEST", "CONFIRMED">>, <<"ON_REQUEST", "REJECTED">>,
     <<"CONFIRMED", "AMEND_REQUESTED">>, <<"CONFIRMED", "CANCEL_REQUESTED">>, <<"CONFIRMED", "CHECKED_OUT">>,
     <<"AMEND_REQUESTED", "CONFIRMED">>, <<"CANCEL_REQUESTED", "CANCELLED">>, <<"CHECKED_OUT", "NO_SHOW">>}

\* BOOKING_CLOSABLE_STATUSES
Closable == {"CHECKED_OUT", "NO_SHOW", "CANCELLED", "REJECTED", "FAILED"}

\* The actions a person starts (actors OPERATOR or AGENCY), by where they lead.
PersonRules ==
    [recordConfirmed     |-> <<"PENDING_SUPPLIER", "CONFIRMED">>,
     recordOnRequest     |-> <<"PENDING_SUPPLIER", "ON_REQUEST">>,
     recordFailed        |-> <<"PENDING_SUPPLIER", "FAILED">>,
     confirmOnRequest    |-> <<"ON_REQUEST", "CONFIRMED">>,
     rejectOnRequest     |-> <<"ON_REQUEST", "REJECTED">>,
     requestAmendment    |-> <<"CONFIRMED", "AMEND_REQUESTED">>,
     approveAmendment    |-> <<"AMEND_REQUESTED", "CONFIRMED">>,
     rejectAmendment     |-> <<"AMEND_REQUESTED", "CONFIRMED">>,
     requestCancellation |-> <<"CONFIRMED", "CANCEL_REQUESTED">>,
     confirmCancellation |-> <<"CANCEL_REQUESTED", "CANCELLED">>,
     markNoShow          |-> <<"CHECKED_OUT", "NO_SHOW">>,
     close               |-> <<"FAILED", "FAILED">>]

\* The actions only the platform performs (actors SYSTEM).
SystemRules ==
    [markCheckedOut             |-> <<"CONFIRMED", "CHECKED_OUT">>,
     systemConfirm              |-> <<"PENDING_SUPPLIER", "CONFIRMED">>,
     systemOnRequest            |-> <<"PENDING_SUPPLIER", "ON_REQUEST">>,
     systemConfirmOnRequest     |-> <<"ON_REQUEST", "CONFIRMED">>,
     systemRejectOnRequest      |-> <<"ON_REQUEST", "REJECTED">>,
     systemFail                 |-> <<"PENDING_SUPPLIER", "FAILED">>,
     systemRequestCancellation  |-> <<"CONFIRMED", "CANCEL_REQUESTED">>,
     systemCompleteCancellation |-> <<"CANCEL_REQUESTED", "CANCELLED">>,
     systemCloseCheckedOut      |-> <<"CHECKED_OUT", "CHECKED_OUT">>,
     systemCloseNoShow          |-> <<"NO_SHOW", "NO_SHOW">>,
     systemCloseCancelled       |-> <<"CANCELLED", "CANCELLED">>,
     systemCloseRejected        |-> <<"REJECTED", "REJECTED">>,
     systemCloseFailed          |-> <<"FAILED", "FAILED">>]

PersonActions == DOMAIN PersonRules
SystemActions == DOMAIN SystemRules

From(action) == IF action \in PersonActions THEN PersonRules[action][1] ELSE SystemRules[action][1]
To(action)   == IF action \in PersonActions THEN PersonRules[action][2] ELSE SystemRules[action][2]

\* The rules that set the closedAt lock and keep the status.
Locks(action) == From(action) = To(action)

CloseActions == {a \in SystemActions : SystemRules[a][1] = SystemRules[a][2]}

\* The drift test of the repository: every rule is a move of the table, or the lock of a closable status.
ASSUME RulesAreLegal ==
    \A a \in PersonActions \cup SystemActions :
        IF Locks(a) THEN From(a) \in Closable ELSE <<From(a), To(a)>> \in Transitions

-----------------------------------------------------------------------------
(* Finance events of a transition (emitTransitionFinance).                  *)

Confirming == {"recordConfirmed", "confirmOnRequest", "systemConfirm", "systemConfirmOnRequest"}
Holding    == {"recordOnRequest", "systemOnRequest"}
Releasing  == {"rejectOnRequest", "systemRejectOnRequest", "recordFailed", "systemFail"}
Completing == {"confirmCancellation", "systemCompleteCancellation"}

FinanceTypes == {"CONFIRMED", "ON_REQUEST_HOLD", "HOLD_RELEASED", "CANCELLED", "NO_SHOW"}

\* The types of finance event an action writes, given how many of each exist: a hold is released
\* once, and only if one was recorded.
Emits(action, count) ==
    IF action \in Confirming THEN {"CONFIRMED"}
    ELSE IF action \in Holding THEN {"ON_REQUEST_HOLD"}
    ELSE IF action \in Releasing
         THEN IF count["ON_REQUEST_HOLD"] > count["HOLD_RELEASED"] THEN {"HOLD_RELEASED"} ELSE {}
    ELSE IF action \in Completing THEN {"CANCELLED"}
    ELSE IF action = "markNoShow" THEN {"NO_SHOW"}
    ELSE {}

Posted(count, action) ==
    [t \in FinanceTypes |-> count[t] + IF t \in Emits(action, count) THEN 1 ELSE 0]
=============================================================================
