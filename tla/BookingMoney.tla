---------------------------- MODULE BookingMoney ----------------------------
(***************************************************************************)
(* The money of one Admin booking.  The desk moves the booking, quotes and  *)
(* changes its cancellation penalty, amends its price and issues documents; *)
(* each fact becomes a finance event.  The posting worker turns the events, *)
(* in order, into ledger entries and supplier payables, while the           *)
(* cancellation settlement refunds the same booking on a connection of its  *)
(* own.  Both append under the wallet row lock with shared idempotency      *)
(* keys, so each posting is one step; what they decided from may be older.  *)
(*                                                                         *)
(* Amounts are minor units of one currency.  Bookings share only the wallet *)
(* row, which neither side reads a balance from, so one booking is modelled.*)
(***************************************************************************)
EXTENDS Integers, Sequences, FiniteSets, FiniteSetsExt, BookingLifecycle

CONSTANTS
    Sell,         \* totalMinor at confirmation
    Sells,        \* totals an approved amendment may set
    Net,          \* netMinor, what the supplier is owed
    Operators,    \* people who may be changing the penalty at the same time
    MaxEvents     \* bound on finance events

Null == -1

ASSUME ConstantsOK ==
    /\ Sell \in Nat \ {0} /\ Sells \subseteq Nat \ {0}
    /\ Net \in Nat \ {0}
    /\ IsFiniteSet(Operators)
    /\ MaxEvents \in Nat

VARIABLES
    status, closed,  \* Booking.status and its closedAt lock
    total,           \* Booking.totalMinor
    mode,            \* Booking.paymentMode
    account,         \* the agency's wallet is open
    quote,           \* penaltyMinor quoted when cancellation was requested, Null when none
    amend,           \* a structured BookingAmendment is open
    seen,            \* what an approver read of fbeds_booking_has_ledger_entries
    events,          \* BookingFinanceEvent rows with the status of their posting
    hold, released,  \* the HOLD entry and how it was released
    charge, refunds, \* the settle-debit entry; the sum of the REFUND entries
    record,          \* Cancellation.refundMinor
    payable,         \* the sum of SupplierPayableEntry
    unsettled,       \* a settleQuietly that has not run yet
    noShowAudit,     \* the booking.no_show.settled audit event: none, older or newer than the last penalty change
    docs,            \* issued documents
    pending          \* penalty changes between their reads and their commit

ledgerVars  == <<hold, released, charge, refunds, record, payable>>
deskVars    == <<status, closed, total, quote, amend>>
settleVars  == <<unsettled, noShowAudit>>
vars == <<deskVars, mode, account, seen, events, ledgerVars, settleVars, docs, pending>>

Amounts  == Sells \cup {Sell}
Nullable == Nat \cup {Null}
PostingStates == {"NONE", "POSTED", "SKIPPED", "REVIEW"}
EventTypes    == FinanceTypes \cup {"PENALTY", "AMENDED"}
Documents     == {"INVOICE", "CREDIT_NOTE", "CANCELLATION_NOTE"}  \* a voucher bears on nothing here

TypeOK ==
    /\ status \in Statuses /\ closed \in BOOLEAN
    /\ total \in Amounts
    /\ mode \in {"UNKNOWN", "CREDIT", "PAY_AT_HOTEL"} /\ account \in BOOLEAN
    /\ quote \in Nullable /\ amend \in BOOLEAN
    /\ seen \in {"none", "clean", "touched"}
    /\ events \in Seq([type : EventTypes, sell : Amounts, penalty : Nullable, posting : PostingStates])
    /\ hold \in Nullable /\ released \in {"none", "release", "settle"}
    /\ charge \in Nullable /\ refunds \in Nat /\ record \in Nullable /\ payable \in Nat
    /\ unsettled \in BOOLEAN /\ noShowAudit \in {"none", "older", "newer"}
    /\ docs \subseteq Documents
    /\ pending \in [Operators -> Nullable]

Init ==
    /\ status = "PENDING_SUPPLIER" /\ closed = FALSE
    /\ total = Sell
    /\ mode \in {"UNKNOWN", "CREDIT", "PAY_AT_HOTEL"} /\ account \in BOOLEAN
    /\ quote = Null /\ amend = FALSE /\ seen = "none"
    /\ events = <<>>
    /\ hold = Null /\ released = "none"
    /\ charge = Null /\ refunds = 0 /\ record = Null /\ payable = 0
    /\ unsettled = FALSE /\ noShowAudit = "none"
    /\ docs = {}
    /\ pending = [o \in Operators |-> Null]

-----------------------------------------------------------------------------
(* The penalty that counts (effectivePenalty): the latest decision or       *)
(* waiver that fits the total, else the quote; Null is NEEDS_DECISION.      *)

\* MUTANT of effectivePenalty: with nothing determined the penalty is taken to be nothing.
effectivePenaltyGuess ==
    LET decided == {i \in DOMAIN events : events[i].type = "PENALTY" /\ events[i].penalty <= total}
    IN  IF decided # {} THEN events[Max(decided)].penalty
        ELSE IF quote # Null /\ quote <= total THEN quote ELSE 0

effectivePenalty ==
    LET decided == {i \in DOMAIN events : events[i].type = "PENALTY" /\ events[i].penalty <= total}
    IN  IF decided # {} THEN events[Max(decided)].penalty
        ELSE IF quote # Null /\ quote <= total THEN quote ELSE Null

Determined == effectivePenalty # Null

write(type, sell, penalty) ==
    events' = Append(events, [type |-> type, sell |-> sell, penalty |-> penalty, posting |-> "NONE"])

Room == Len(events) < MaxEvents

\* nextSeq counts the rows of a type.
CountOf == [t \in FinanceTypes |-> Cardinality({i \in DOMAIN events : events[i].type = t})]

-----------------------------------------------------------------------------
(* The desk.                                                                *)

\* transitionBooking with emitTransitionFinance.  A platform action writes the same facts as the
\* recorded one, so the recorded actions stand for both.
DeskActions == {"recordConfirmed", "recordOnRequest", "recordFailed", "confirmOnRequest", "rejectOnRequest",
                "rejectAmendment", "requestCancellation", "confirmCancellation", "markCheckedOut", "markNoShow"}

act(action) ==
    /\ status = From(action) /\ ~closed
    /\ Room
    /\ status' = To(action)
    /\ IF action \in {"requestCancellation", "markNoShow"}
       THEN quote' \in {Null} \cup 0..total ELSE UNCHANGED quote
    /\ LET types   == Emits(action, CountOf)
           penalty == IF action \in Completing THEN effectivePenalty
                      ELSE IF action = "markNoShow" THEN quote' ELSE Null
       IN  IF types = {} THEN UNCHANGED events ELSE \E t \in types : write(t, total, penalty)
    /\ amend' = (amend /\ action # "rejectAmendment")
    /\ unsettled' = (unsettled \/ status' \in {"CANCELLED", "NO_SHOW"})
    /\ UNCHANGED <<closed, total, mode, account, seen, ledgerVars, noShowAudit, docs, pending>>

\* closeTenant: a cancelled booking needs its penalty decided first.
close(action) ==
    /\ status = From(action) /\ ~closed
    /\ status = "CANCELLED" => Determined
    /\ closed' = TRUE
    /\ UNCHANGED <<status, total, quote, amend, mode, account, seen, events, ledgerVars, settleVars, docs, pending>>

\* requestAmendment with recordAmendmentRequest: a free-text request leaves no BookingAmendment.
requestAmendment ==
    /\ status = "CONFIRMED" /\ ~closed
    /\ status' = "AMEND_REQUESTED"
    /\ amend' \in BOOLEAN
    /\ UNCHANGED <<closed, total, quote, mode, account, seen, events, ledgerVars, settleVars, docs, pending>>

\* ledgerCharged, asked before the approval's transaction.
ledgerCharged ==
    /\ status = "AMEND_REQUESTED" /\ amend
    /\ seen' = IF hold # Null \/ charge # Null THEN "touched" ELSE "clean"
    /\ UNCHANGED <<deskVars, mode, account, events, ledgerVars, settleVars, docs, pending>>

\* approveAmendment: prepareAmendmentDecision, the transition, applyAmendmentDecision.  The approver of a
\* structured request records its price; an approval of a free-text one changes no price.
approveAmendment ==
    /\ status = "AMEND_REQUESTED" /\ ~closed
    /\ Room
    /\ status' = "CONFIRMED"
    /\ \E sell \in IF amend THEN Amounts ELSE {total} :
           /\ amend => seen # "none"
           /\ sell # total => seen = "clean"
           /\ total' = sell
           /\ IF sell = total THEN UNCHANGED events ELSE write("AMENDED", sell, Null)
    /\ amend' = FALSE /\ seen' = "none"
    /\ UNCHANGED <<closed, quote, mode, account, ledgerVars, settleVars, docs, pending>>

\* classifyPenaltyChange: an undecided penalty is decided, a decided one only lowered.
classifyPenaltyChange(requested) == requested <= total /\ (Determined => requested < effectivePenalty)

\* changePenalty up to its last read; no row is locked.
readPenalty(o, requested) ==
    /\ pending[o] = Null
    /\ status \in {"CANCEL_REQUESTED", "CANCELLED", "NO_SHOW"} /\ ~closed
    /\ docs \cap {"CREDIT_NOTE", "CANCELLATION_NOTE"} = {}
    /\ classifyPenaltyChange(requested)
    /\ pending' = [pending EXCEPT ![o] = requested]
    /\ UNCHANGED <<deskVars, mode, account, seen, events, ledgerVars, settleVars, docs>>

\* ... and its commit, with the next sequence number of its event type.
commitPenalty(o) ==
    /\ pending[o] # Null
    /\ Room
    /\ write("PENALTY", total, pending[o])
    /\ pending' = [pending EXCEPT ![o] = Null]
    /\ unsettled' = TRUE /\ noShowAudit' = IF noShowAudit = "newer" THEN "older" ELSE noShowAudit
    /\ UNCHANGED <<deskVars, mode, account, seen, ledgerVars, docs>>

documentBlock(type) ==
    \/ type \in docs
    \/ CountOf["CONFIRMED"] = 0
    \/ /\ type \in {"CREDIT_NOTE", "CANCELLATION_NOTE"}
       /\ \/ status # "CANCELLED" /\ ~(status = "NO_SHOW" /\ type = "CREDIT_NOTE")
          \/ ~Determined
    \/ type = "CREDIT_NOTE" /\ (effectivePenalty = total \/ "INVOICE" \notin docs)

issueDocument(type) ==
    /\ ~documentBlock(type)
    /\ docs' = docs \cup {type}
    /\ UNCHANGED <<deskVars, mode, account, seen, events, ledgerVars, settleVars, pending>>

\* Finance completes the booking or opens the account.
completeBooking ==
    /\ \/ mode = "UNKNOWN" /\ mode' \in {"CREDIT", "PAY_AT_HOTEL"} /\ UNCHANGED account
       \/ ~account /\ account' = TRUE /\ UNCHANGED mode
    /\ UNCHANGED <<deskVars, seen, events, ledgerVars, settleVars, docs, pending>>

-----------------------------------------------------------------------------
(* CancellationSettlementService.                                           *)

Target == total - effectivePenalty

\* MUTANT of Delta: the whole target is posted again instead of what is missing.
DeltaWhole(target) == target

Delta(target) == target - refunds

\* settle, where it posts; every other outcome changes nothing.
Settles ==
    /\ status \in {"CANCELLED", "NO_SHOW"}
    /\ charge # Null /\ charge = total
    /\ Determined
    /\ Target >= refunds

\* A charged booking is refunded once its penalty is determined: the amount, the record of it.
settle ==
    IF Settles
    THEN /\ refunds' = refunds + Delta(Target)
         /\ record' = IF status = "CANCELLED" THEN Target ELSE record
         /\ noShowAudit' = IF status = "NO_SHOW" /\ (noShowAudit = "none" \/ Delta(Target) > 0) THEN "newer" ELSE noShowAudit
         /\ UNCHANGED <<hold, released, charge, payable>>
    ELSE UNCHANGED <<ledgerVars, noShowAudit>>

\* settleQuietly: after the commit that made it necessary.  A failure it swallows is a settlement that
\* never runs: Spec allows it, FairSpec does not.
settleQuietly ==
    /\ unsettled /\ unsettled' = FALSE
    /\ settle
    /\ UNCHANGED <<deskVars, mode, account, seen, events, docs, pending>>

\* sweep over pending: cancelled bookings without a record, no-shows without a settlement since.
sweep ==
    /\ charge # Null
    /\ \/ status = "CANCELLED" /\ record = Null
       \/ status = "NO_SHOW" /\ noShowAudit # "newer"
    /\ Settles
    /\ settle
    /\ UNCHANGED <<deskVars, mode, account, seen, events, unsettled, docs, pending>>

-----------------------------------------------------------------------------
(* The posting worker (drain, postEvent, apply with planPosting).           *)

Final(i) == events[i].posting \in {"POSTED", "SKIPPED"}

\* A booking's events post in the order they happened: the oldest unfinished one.
Head1 == {i \in DOMAIN events : ~Final(i) /\ \A k \in 1..(i - 1) : Final(k)}

LaterAmendments(i) == {k \in DOMAIN events : k > i /\ events[k].type = "AMENDED"}

mark(i, posting) == events' = [events EXCEPT ![i].posting = posting]

\* A posting that appends nothing to the books.
only(i, posting) == mark(i, posting) /\ UNCHANGED ledgerVars

gated(i) ==
    \/ mode = "UNKNOWN" /\ only(i, "REVIEW")
    \/ mode = "PAY_AT_HOTEL" /\ only(i, "SKIPPED")

planConfirmed(i) ==
    LET sell == IF LaterAmendments(i) # {} THEN events[Max(LaterAmendments(i))].sell ELSE events[i].sell
        held == hold # Null /\ released = "none"
    IN  IF charge # Null THEN only(i, "SKIPPED")
        ELSE IF (held /\ hold # sell) \/ ~account THEN only(i, "REVIEW")
        ELSE /\ mark(i, "POSTED")
             /\ hold' = IF hold = Null THEN sell ELSE hold
             /\ released' = IF hold = Null \/ held THEN "settle" ELSE released
             /\ charge' = sell
             /\ payable' = payable + Net
             /\ UNCHANGED <<refunds, record>>

planHold(i) ==
    IF hold # Null \/ charge # Null THEN only(i, "SKIPPED")
    ELSE IF ~account THEN only(i, "REVIEW")
    ELSE /\ mark(i, "POSTED")
         /\ hold' = events[i].sell
         /\ UNCHANGED <<released, charge, refunds, record, payable>>

planRelease(i) ==
    IF hold = Null \/ released # "none" THEN only(i, "SKIPPED")
    ELSE /\ mark(i, "POSTED")
         /\ released' = "release"
         /\ UNCHANGED <<hold, charge, refunds, record, payable>>

\* MUTANT of planRefund: decisions made after the cancellation are not posted.
planRefundOnce(i) ==
    LET e == events[i] IN
    IF e.type = "PENALTY" \/ e.penalty = Null \/ charge = Null THEN only(i, "SKIPPED")
    ELSE IF e.sell - e.penalty < refunds THEN only(i, "REVIEW")
    ELSE /\ mark(i, "POSTED")
         /\ refunds' = e.sell - e.penalty
         /\ record' = IF e.type = "CANCELLED" THEN refunds' ELSE record
         /\ UNCHANGED <<hold, released, charge, payable>>

\* MUTANT of planRefund: the accrual is reversed again with every penalty of zero.
planRefundTwice(i) ==
    LET e == events[i] IN
    IF e.type \notin {"CANCELLED", "PENALTY"} \/ e.penalty = Null \/ charge = Null \/ status # "CANCELLED"
    THEN only(i, "SKIPPED")
    ELSE /\ mark(i, "POSTED")
         /\ refunds' = e.sell - e.penalty /\ record' = refunds'
         /\ payable' = IF e.penalty = 0 THEN payable - Net ELSE payable
         /\ UNCHANGED <<hold, released, charge>>

\* CANCELLED, NO_SHOW, PENALTY_DECIDED and PENALTY_WAIVED; payables are reversed when the penalty is zero.
planRefund(i) ==
    LET e       == events[i]
        target  == e.sell - e.penalty
        ended   == {k \in 1..i : events[k].type \in {"CANCELLED", "NO_SHOW"}}
        noShow  == \E k \in ended : events[k].type = "NO_SHOW"
        reverse == e.penalty = 0 /\ payable > 0
        rewrite == ~noShow /\ record # target
    IN  IF ended = {} \/ e.penalty = Null THEN only(i, "SKIPPED")
        ELSE IF charge = Null
             THEN IF reverse THEN /\ mark(i, "POSTED") /\ payable' = 0
                                  /\ UNCHANGED <<hold, released, charge, refunds, record>>
                  ELSE only(i, "SKIPPED")
        ELSE IF target > charge \/ target < refunds THEN only(i, "REVIEW")
        ELSE IF target = refunds /\ ~reverse /\ ~rewrite THEN only(i, "SKIPPED")
        ELSE /\ mark(i, "POSTED")
             /\ refunds' = target
             /\ record' = IF rewrite THEN target ELSE record
             /\ payable' = IF reverse THEN 0 ELSE payable
             /\ UNCHANGED <<hold, released, charge>>

planAmended(i) ==
    IF charge = Null \/ \E k \in LaterAmendments(i) \cup {i} : events[k].sell = charge
    THEN only(i, "SKIPPED") ELSE only(i, "REVIEW")

planPosting(i) ==
    \/ gated(i)
    \/ /\ mode = "CREDIT"
       /\ \/ events[i].type = "CONFIRMED" /\ planConfirmed(i)
          \/ events[i].type = "ON_REQUEST_HOLD" /\ planHold(i)
          \/ events[i].type = "HOLD_RELEASED" /\ planRelease(i)
          \/ events[i].type \in {"CANCELLED", "NO_SHOW", "PENALTY"} /\ planRefund(i)
          \/ events[i].type = "AMENDED" /\ planAmended(i)

\* One transaction per event, under the booking's advisory lock and the wallet row lock.
postEvent ==
    /\ \E i \in Head1 : planPosting(i)
    /\ UNCHANGED <<deskVars, mode, account, seen, settleVars, docs, pending>>

-----------------------------------------------------------------------------
Next ==
    \/ \E a \in DeskActions : act(a)
    \/ \E a \in CloseActions : close(a)
    \/ requestAmendment
    \/ ledgerCharged
    \/ approveAmendment
    \/ \E o \in Operators : commitPenalty(o) \/ \E p \in 0..total : readPenalty(o, p)
    \/ \E d \in Documents : issueDocument(d)
    \/ completeBooking
    \/ settleQuietly
    \/ sweep
    \/ postEvent

Spec == Init /\ [][Next]_vars

\* The worker's timer drains due events; a settlement follows its commit in the same request.
\* Nobody promises to run the sweep, to complete a booking or to act.
FairSpec == Spec /\ WF_vars(postEvent) /\ WF_vars(settleQuietly)

-----------------------------------------------------------------------------
(* Properties.                                                              *)

\* The rules of the ledger integrity monitor, for whichever of the worker and the settlement posted:
\* a charge is a hold released into a debit of the same amount, refunds stay within the charge and equal
\* the Cancellation record, and once every event is posted the charge is the booking's total.
BooksTieOut ==
    /\ charge # Null => hold = charge /\ released = "settle"
    /\ refunds > 0 => charge # Null /\ refunds <= charge
    /\ status = "CANCELLED" /\ record # Null => record = refunds
    /\ (charge # Null /\ \A i \in DOMAIN events : Final(i)) => charge = total

\* Money is never guessed: every refund level is the sell price less a penalty that a quote or a
\* person fixed, and only a cancelled or no-show booking is refunded.
RefundIsDecided ==
    refunds > 0 =>
        /\ status \in {"CANCELLED", "NO_SHOW"}
        /\ \E p \in {quote} \cup {events[i].penalty : i \in {k \in DOMAIN events : events[k].type = "PENALTY"}} :
                p # Null /\ refunds = total - p

\* A cancelled booking that was charged gets at least the refund of its effective penalty, however the
\* desk, the settlement and the worker interleave, as long as settleQuietly swallows no failure.
RefundArrives ==
    (status = "CANCELLED" /\ charge = total /\ Determined)
        ~> (Determined /\ refunds >= Target)
=============================================================================
