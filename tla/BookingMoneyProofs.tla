------------------------- MODULE BookingMoneyProofs -------------------------
(***************************************************************************)
(* What BookingMoney promises, for every price, every number of operators   *)
(* and every bound on events.                                               *)
(*                                                                         *)
(*   StageInv     which events exist in which status, and their prices;     *)
(*   BooksInv     the hold, the charge, the refunds and the record tie out, *)
(*                and a charge that is not the total has an unposted        *)
(*                amendment behind it;                                      *)
(*   DecisionInv  every penalty on an event, and every refund, goes back to *)
(*                the quote or to a person's decision.                      *)
(***************************************************************************)
EXTENDS BookingMoney, FiniteSetTheorems, SequenceTheorems, WellFoundedInduction, TLAPS

Ending == {"CANCEL_REQUESTED", "CANCELLED", "NO_SHOW"}

StageOK(e) ==
    /\ e.type = "CONFIRMED" => status \notin {"PENDING_SUPPLIER", "ON_REQUEST", "REJECTED", "FAILED"}
    /\ e.type = "HOLD_RELEASED" => status \in {"REJECTED", "FAILED"}
    /\ e.type = "CANCELLED" => status = "CANCELLED"
    /\ e.type = "NO_SHOW" => status = "NO_SHOW"
    /\ e.type = "PENALTY" => status \in Ending
    /\ e.type \in {"CANCELLED", "NO_SHOW", "PENALTY"} => e.sell = total

PriceInv == \A i \in DOMAIN events : events[i].type \in {"CONFIRMED", "AMENDED"} /\ LaterAmendments(i) = {} => events[i].sell = total

StageInv ==
    /\ \A i \in DOMAIN events : StageOK(events[i])
    /\ PriceInv
    /\ \A o \in Operators : pending[o] # Null => status \in Ending

\* The last amendment has not been posted.
AmendmentOpen == \E k \in DOMAIN events : events[k].type = "AMENDED" /\ ~Final(k) /\ LaterAmendments(k) = {}

BooksInv ==
    /\ charge # Null => mode = "CREDIT" /\ hold = charge /\ released = "settle"
    /\ released = "settle" => charge # Null
    /\ released = "release" => \E i \in DOMAIN events : events[i].type = "HOLD_RELEASED"
    /\ refunds > 0 => charge # Null /\ refunds <= charge
    /\ record # Null => status = "CANCELLED" /\ record = refunds
    /\ charge # Null => charge = total \/ AmendmentOpen

\* The penalties a quote or a person fixed.
Fixed == {quote} \cup {events[i].penalty : i \in {k \in DOMAIN events : events[k].type = "PENALTY"}}

DecisionInv ==
    /\ RefundIsDecided
    /\ \A i \in DOMAIN events :
           events[i].type \in {"CANCELLED", "NO_SHOW"} /\ events[i].penalty # Null => events[i].penalty \in Fixed

\* Max is a maximum of a bounded set of positions.
LEMMA MaxIsGreatest ==
    ASSUME NEW n \in Nat, NEW S \in SUBSET (1..n), S # {}
    PROVE  Max(S) \in S /\ \A y \in S : y <= Max(S)
<1> DEFINE R == OpToRel(<, Nat)
           T == {n - x : x \in S}
<1>1. T \subseteq Nat /\ T # {}
    <2> HIDE DEF R
    <2>1. \A x \in S : n - x \in Nat
        OBVIOUS
    <2>2. PICK x \in S : TRUE
        OBVIOUS
    <2>3. n - x \in T
        BY <2>2
    <2> QED BY <2>1, <2>3
<1>2. \A x, y \in Nat : <<y, x>> \in R <=> y < x
    BY DEF OpToRel
<1>3. IsWellFoundedOn(R, Nat)
    BY NatLessThanWellFounded
<1> HIDE DEF R
<1>4. PICK z \in T : \A y \in T : ~ (<<y, z>> \in R)
    BY <1>1, <1>3, WFMin
<1>5. PICK m \in S : z = n - m
    OBVIOUS
<1>6. \A y \in S : m >= y
    <2> SUFFICES ASSUME NEW y \in S PROVE m >= y
        OBVIOUS
    <2>1. n - y \in T /\ n - y \in Nat /\ z \in Nat
        BY <1>1
    <2>2. ~(n - y < z)
        BY <1>2, <1>4, <2>1
    <2> QED BY <1>5, <2>2
<1>7. Max(S) \in S /\ \A y \in S : Max(S) >= y
    BY <1>6 DEF Max
<1> QED BY <1>7

-----------------------------------------------------------------------------
(* Types.                                                                   *)

EventRow == [type : EventTypes, sell : Amounts, penalty : Nullable, posting : PostingStates]

DeskTypes ==
    /\ status \in Statuses /\ closed \in BOOLEAN /\ total \in Amounts /\ quote \in Nullable /\ amend \in BOOLEAN

SideTypes ==
    /\ mode \in {"UNKNOWN", "CREDIT", "PAY_AT_HOTEL"} /\ account \in BOOLEAN /\ seen \in {"none", "clean", "touched"}
    /\ unsettled \in BOOLEAN /\ noShowAudit \in {"none", "older", "newer"} /\ docs \subseteq Documents

LedgerTypes ==
    /\ hold \in Nullable /\ released \in {"none", "release", "settle"}
    /\ charge \in Nullable /\ refunds \in Nat /\ record \in Nullable /\ payable \in Nat

LEMMA TypeParts ==
    TypeOK <=> DeskTypes /\ SideTypes /\ LedgerTypes /\ events \in Seq(EventRow) /\ pending \in [Operators -> Nullable]
BY DEF TypeOK, DeskTypes, SideTypes, LedgerTypes, EventRow

LEMMA AmountsPositive == Amounts \subseteq Nat \ {0}
BY ConstantsOK DEF Amounts, ConstantsOK

LEMMA NullIsNoAmount == Null = -1 /\ Null \notin Nat /\ Null \in Nullable /\ Nat \subseteq Nullable /\ Nullable = Nat \cup {Null}
<1>1. Null = -1
    BY DEF Null
<1>2. Null \notin Nat
    BY <1>1
<1> QED BY <1>1, <1>2 DEF Nullable

LEMMA EventsDomain ==
    ASSUME events \in Seq(EventRow)
    PROVE  Len(events) \in Nat /\ DOMAIN events = 1..Len(events) /\ \A i \in DOMAIN events : events[i] \in EventRow
BY LenProperties, ElementOfSeq

\* A fact is written: one more event, the others as they were.
LEMMA WritePuts ==
    ASSUME events \in Seq(EventRow), NEW t \in EventTypes, NEW sell \in Amounts, NEW penalty \in Nullable, write(t, sell, penalty)
    PROVE  /\ events' \in Seq(EventRow)
           /\ DOMAIN events' = DOMAIN events \cup {Len(events) + 1} /\ Len(events) + 1 \notin DOMAIN events
           /\ \A k \in DOMAIN events : events'[k] = events[k] /\ k < Len(events) + 1
           /\ events'[Len(events) + 1] = [type |-> t, sell |-> sell, penalty |-> penalty, posting |-> "NONE"]
<1> DEFINE row == [type |-> t, sell |-> sell, penalty |-> penalty, posting |-> "NONE"]
<1>1. row \in EventRow
    BY DEF EventRow, PostingStates
<1>2. events' = Append(events, row)
    BY DEF write
<1> HIDE DEF row
<1>3. /\ events' \in Seq(EventRow) /\ Len(events') = Len(events) + 1 /\ events'[Len(events) + 1] = row
      /\ \A k \in 1..Len(events) : events'[k] = events[k]
    BY <1>1, <1>2, AppendProperties
<1>4. DOMAIN events' = 1..(Len(events) + 1) /\ DOMAIN events = 1..Len(events) /\ Len(events) \in Nat
    BY <1>3, LenProperties
<1>5. DOMAIN events' = DOMAIN events \cup {Len(events) + 1} /\ Len(events) + 1 \notin DOMAIN events
    BY <1>4
<1>6. \A k \in DOMAIN events : k < Len(events) + 1
    BY <1>4
<1> QED BY <1>3, <1>4, <1>5, <1>6 DEF row

\* An event gets its posting: everything else stays.
LEMMA MarkPuts ==
    ASSUME events \in Seq(EventRow), NEW i \in DOMAIN events, NEW posting \in PostingStates, mark(i, posting)
    PROVE  /\ events' \in Seq(EventRow) /\ DOMAIN events' = DOMAIN events
           /\ \A k \in DOMAIN events : /\ events'[k].type = events[k].type /\ events'[k].sell = events[k].sell
                                       /\ events'[k].penalty = events[k].penalty
                                       /\ k # i => events'[k] = events[k]
           /\ events'[i].posting = posting
           /\ \A k \in DOMAIN events : LaterAmendments(k)' = LaterAmendments(k)
<1>0. DOMAIN events = 1..Len(events) /\ Len(events) \in Nat /\ \A k \in DOMAIN events : events[k] \in EventRow
    BY EventsDomain
<1>1. [events[i] EXCEPT !.posting = posting] \in EventRow
    BY <1>0 DEF EventRow
<1>2. events' = [events EXCEPT ![i] = [events[i] EXCEPT !.posting = posting]]
    BY <1>0 DEF mark, EventRow
<1>3. events' \in [1..Len(events) -> EventRow]
    BY <1>0, <1>1, <1>2
<1>4. events' \in Seq(EventRow) /\ DOMAIN events' = DOMAIN events
    BY <1>0, <1>3, SeqDef
<1>5. \A k \in DOMAIN events : k # i => events'[k] = events[k]
    BY <1>2
<1>6. events'[i] = [events[i] EXCEPT !.posting = posting]
    BY <1>2
<1>7. events'[i].type = events[i].type /\ events'[i].sell = events[i].sell /\ events'[i].penalty = events[i].penalty
      /\ events'[i].posting = posting
    BY <1>0, <1>6 DEF EventRow
<1>8. \A k \in DOMAIN events : events'[k].type = events[k].type /\ events'[k].sell = events[k].sell /\ events'[k].penalty = events[k].penalty
    BY <1>5, <1>7
<1>9. \A k \in DOMAIN events : LaterAmendments(k)' = LaterAmendments(k)
    BY <1>4, <1>8 DEF LaterAmendments
<1> QED BY <1>4, <1>5, <1>7, <1>8, <1>9

\* The last amendment after i is a last amendment.
LEMMA LastAmendment ==
    ASSUME events \in Seq(EventRow), NEW i \in DOMAIN events, LaterAmendments(i) # {}
    PROVE  /\ Max(LaterAmendments(i)) \in DOMAIN events /\ events[Max(LaterAmendments(i))].type = "AMENDED"
           /\ LaterAmendments(Max(LaterAmendments(i))) = {}
<1>1. DOMAIN events = 1..Len(events) /\ Len(events) \in Nat
    BY EventsDomain
<1>2. LaterAmendments(i) \in SUBSET (1..Len(events))
    BY <1>1 DEF LaterAmendments
<1>m. PICK m : m = Max(LaterAmendments(i))
    OBVIOUS
<1>3. m \in LaterAmendments(i) /\ \A y \in LaterAmendments(i) : y <= m
    BY <1>1, <1>2, <1>m, MaxIsGreatest
<1>4. m \in DOMAIN events /\ m > i /\ events[m].type = "AMENDED"
    BY <1>3 DEF LaterAmendments
<1>5. \A k \in DOMAIN events : k > m /\ events[k].type = "AMENDED" => k \in LaterAmendments(i)
    BY <1>1, <1>4 DEF LaterAmendments
<1>6. LaterAmendments(m) = {}
    BY <1>1, <1>3, <1>4, <1>5 DEF LaterAmendments
<1> QED BY <1>m, <1>4, <1>6

\* effectivePenalty is one of the fixed penalties, within the total, or unknown.
LEMMA PenaltyIsFixed ==
    ASSUME TypeOK
    PROVE  effectivePenalty \in Nullable /\ (effectivePenalty # Null => effectivePenalty \in Fixed /\ effectivePenalty <= total)
<1>0. events \in Seq(EventRow) /\ quote \in Nullable
    BY TypeParts DEF DeskTypes
<1>1. DOMAIN events = 1..Len(events) /\ Len(events) \in Nat /\ \A k \in DOMAIN events : events[k].penalty \in Nullable
    BY <1>0, EventsDomain DEF EventRow
<1> DEFINE decided == {i \in DOMAIN events : events[i].type = "PENALTY" /\ events[i].penalty <= total}
<1>2. effectivePenalty = IF decided # {} THEN events[Max(decided)].penalty
                         ELSE IF quote # Null /\ quote <= total THEN quote ELSE Null
    BY DEF effectivePenalty
<1>3. decided # {} => Max(decided) \in decided
    <2>1. decided \in SUBSET (1..Len(events))
        BY <1>1
    <2> HIDE DEF decided
    <2> QED BY <1>1, <2>1, MaxIsGreatest
<1>4. CASE decided # {}
    <2>1. PICK m \in decided : effectivePenalty = events[m].penalty
        BY <1>2, <1>3, <1>4
    <2> QED BY <1>1, <2>1 DEF Fixed
<1>5. CASE decided = {}
    BY <1>0, <1>2, <1>5, NullIsNoAmount DEF Fixed
<1> QED BY <1>4, <1>5

-----------------------------------------------------------------------------
(* The settlement.                                                          *)

LEMMA SettlePuts ==
    ASSUME TypeOK, settle
    PROVE  /\ LedgerTypes' /\ noShowAudit' \in {"none", "older", "newer"}
           /\ UNCHANGED <<hold, released, charge, payable>>
           /\ \/ UNCHANGED <<refunds, record>>
              \/ /\ Settles /\ effectivePenalty # Null /\ effectivePenalty \in Fixed
                 /\ refunds' = total - effectivePenalty /\ refunds' \in Nat /\ refunds' <= total
                 /\ record' = IF status = "CANCELLED" THEN refunds' ELSE record
<1>1. LedgerTypes /\ total \in Nat /\ noShowAudit \in {"none", "older", "newer"}
    BY TypeParts, AmountsPositive DEF DeskTypes, SideTypes
<1>2. CASE ~Settles
    BY <1>1, <1>2 DEF settle, LedgerTypes, ledgerVars
<1>3. CASE Settles
    <2>1. effectivePenalty # Null /\ effectivePenalty \in Nat /\ effectivePenalty \in Fixed
        BY <1>3, PenaltyIsFixed, NullIsNoAmount DEF Settles, Determined
    <2>2. Target = total - effectivePenalty /\ Target >= refunds /\ refunds \in Nat
        BY <1>1, <1>3 DEF Settles, Target, LedgerTypes
    <2>3. Target \in Nat /\ Target <= total
        BY <1>1, <2>1, <2>2
    <2>4. refunds' = refunds + (Target - refunds) /\ record' = IF status = "CANCELLED" THEN Target ELSE record
        BY <1>3 DEF settle, Delta
    <2>5. refunds' = Target
        BY <2>2, <2>3, <2>4
    <2>6. UNCHANGED <<hold, released, charge, payable>>
        BY <1>3 DEF settle
    <2>7. LedgerTypes' /\ noShowAudit' \in {"none", "older", "newer"}
        BY <1>1, <1>3, <2>3, <2>4, <2>5, <2>6, NullIsNoAmount DEF LedgerTypes, settle
    <2> QED BY <1>3, <2>1, <2>2, <2>3, <2>4, <2>5, <2>6, <2>7
<1> QED BY <1>2, <1>3

Decided == \A i \in DOMAIN events :
               events[i].type \in {"CANCELLED", "NO_SHOW"} /\ events[i].penalty # Null => events[i].penalty \in Fixed

LEMMA DecisionParts == DecisionInv <=> RefundIsDecided /\ Decided
BY DEF DecisionInv, Decided

LEMMA SettleKeeps ==
    ASSUME TypeOK, StageInv, BooksInv, DecisionInv, settle, UNCHANGED <<deskVars, mode, events, pending>>
    PROVE  StageInv' /\ BooksInv' /\ DecisionInv'
<1>0. status' = status /\ total' = total /\ quote' = quote
    BY DEF deskVars
<1>1. StageInv'
    BY <1>0 DEF StageInv, StageOK, PriceInv, LaterAmendments
<1>2. Fixed' = Fixed /\ (AmendmentOpen' <=> AmendmentOpen) /\ Decided' = Decided
    BY <1>0 DEF Fixed, AmendmentOpen, LaterAmendments, Final, Decided
<1>3. UNCHANGED <<hold, released, charge, payable>> /\ refunds \in Nat /\ charge \in Nullable
    BY SettlePuts, TypeParts DEF LedgerTypes
<1>4. CASE UNCHANGED <<refunds, record>>
    <2>1. BooksInv'
        BY <1>0, <1>2, <1>3, <1>4 DEF BooksInv
    <2>2. RefundIsDecided'
        BY <1>0, <1>4, DecisionParts DEF RefundIsDecided
    <2> QED BY <1>1, <1>2, <2>1, <2>2, DecisionParts DEF DecisionInv, Decided
<1>5. CASE /\ Settles /\ effectivePenalty # Null /\ effectivePenalty \in Fixed
           /\ refunds' = total - effectivePenalty /\ refunds' \in Nat /\ refunds' <= total
           /\ record' = IF status = "CANCELLED" THEN refunds' ELSE record
    <2>1. charge # Null /\ charge = total /\ status \in {"CANCELLED", "NO_SHOW"}
        BY <1>5 DEF Settles
    <2>2. record' # Null => status' = "CANCELLED" /\ record' = refunds'
        BY <1>0, <1>5, <2>1 DEF BooksInv
    <2>3. BooksInv'
        BY <1>0, <1>2, <1>3, <1>5, <2>1, <2>2 DEF BooksInv
    <2>4. RefundIsDecided'
        BY <1>0, <1>2, <1>5, <2>1 DEF RefundIsDecided, Fixed
    <2> QED BY <1>1, <1>2, <2>3, <2>4, DecisionParts DEF DecisionInv, Decided
<1> QED BY <1>4, <1>5, SettlePuts

-----------------------------------------------------------------------------
(* The posting worker.                                                      *)

\* Marking an event changes nothing about what happened.
LEMMA MarkKeeps ==
    ASSUME TypeOK, StageInv, Decided, NEW i \in DOMAIN events, NEW posting \in PostingStates, mark(i, posting),
           UNCHANGED <<deskVars, pending>>
    PROVE  /\ events' \in Seq(EventRow) /\ StageInv' /\ Fixed' = Fixed /\ Decided'
           /\ (\E k \in DOMAIN events : events[k].type = "HOLD_RELEASED")
                => \E k \in DOMAIN events' : events'[k].type = "HOLD_RELEASED"
           /\ AmendmentOpen => \/ AmendmentOpen'
                               \/ /\ events[i].type = "AMENDED" /\ LaterAmendments(i) = {} /\ ~Final(i)
                                  /\ posting \in {"POSTED", "SKIPPED"}
<1>0. events \in Seq(EventRow) /\ status' = status /\ total' = total /\ quote' = quote
    BY TypeParts DEF deskVars
<1>1. /\ events' \in Seq(EventRow) /\ DOMAIN events' = DOMAIN events
      /\ \A k \in DOMAIN events : /\ events'[k].type = events[k].type /\ events'[k].sell = events[k].sell
                                  /\ events'[k].penalty = events[k].penalty
                                  /\ k # i => events'[k] = events[k]
      /\ events'[i].posting = posting
      /\ \A k \in DOMAIN events : LaterAmendments(k)' = LaterAmendments(k)
    BY <1>0, MarkPuts
<1>2. \A k \in DOMAIN events : StageOK(events[k])'
    BY <1>0, <1>1 DEF StageInv, StageOK
<1>3. PriceInv'
    BY <1>0, <1>1 DEF StageInv, PriceInv
<1>4. StageInv'
    BY <1>0, <1>1, <1>2, <1>3 DEF StageInv
<1>5. Fixed' = Fixed
    BY <1>0, <1>1 DEF Fixed
<1>6. Decided'
    BY <1>1, <1>5 DEF Decided
<1>7. ASSUME AmendmentOpen
      PROVE  \/ AmendmentOpen'
             \/ /\ events[i].type = "AMENDED" /\ LaterAmendments(i) = {} /\ ~Final(i)
                /\ posting \in {"POSTED", "SKIPPED"}
    <2>1. PICK k \in DOMAIN events : events[k].type = "AMENDED" /\ ~Final(k) /\ LaterAmendments(k) = {}
        BY <1>7 DEF AmendmentOpen
    <2>2. CASE k # i \/ posting \notin {"POSTED", "SKIPPED"}
        <3>1. ~Final(k)'
            BY <1>1, <2>1, <2>2 DEF Final
        <3> QED BY <1>1, <2>1, <3>1 DEF AmendmentOpen
    <2>3. CASE k = i /\ posting \in {"POSTED", "SKIPPED"}
        BY <2>1, <2>3
    <2> QED BY <2>2, <2>3
<1> QED BY <1>1, <1>4, <1>5, <1>6, <1>7

\* A posting that writes nothing to the books.
LEMMA OnlyKeeps ==
    ASSUME TypeOK, StageInv, BooksInv, DecisionInv, NEW i \in DOMAIN events, NEW posting \in PostingStates, only(i, posting),
           UNCHANGED <<deskVars, mode, pending>>,
           events[i].type = "AMENDED" /\ posting \in {"POSTED", "SKIPPED"} /\ charge # Null /\ LaterAmendments(i) = {} => charge = total
    PROVE  LedgerTypes' /\ events' \in Seq(EventRow) /\ StageInv' /\ BooksInv' /\ DecisionInv'
<1>1. mark(i, posting) /\ UNCHANGED <<hold, released, charge, refunds, record, payable>>
    BY DEF only, ledgerVars
<1>2. status' = status /\ total' = total /\ quote' = quote /\ mode' = mode
    BY DEF deskVars
<1>3. /\ events' \in Seq(EventRow) /\ StageInv' /\ Fixed' = Fixed /\ Decided'
      /\ (\E k \in DOMAIN events : events[k].type = "HOLD_RELEASED")
            => \E k \in DOMAIN events' : events'[k].type = "HOLD_RELEASED"
      /\ AmendmentOpen => \/ AmendmentOpen'
                          \/ /\ events[i].type = "AMENDED" /\ LaterAmendments(i) = {} /\ ~Final(i)
                             /\ posting \in {"POSTED", "SKIPPED"}
    BY <1>1, MarkKeeps, DecisionParts
<1>4. LedgerTypes'
    BY <1>1, TypeParts DEF LedgerTypes
<1>5. charge' # Null => charge' = total' \/ AmendmentOpen'
    BY <1>1, <1>2, <1>3 DEF BooksInv
<1>6. BooksInv'
    BY <1>1, <1>2, <1>3, <1>5 DEF BooksInv
<1>7. RefundIsDecided'
    <2>1. RefundIsDecided
        BY DecisionParts
    <2> QED BY <1>1, <1>2, <1>3, <2>1 DEF RefundIsDecided, Fixed
<1>8. DecisionInv'
    BY <1>3, <1>7 DEF DecisionInv, Decided
<1> QED BY <1>3, <1>4, <1>6, <1>8

Kept == LedgerTypes' /\ events' \in Seq(EventRow) /\ StageInv' /\ BooksInv' /\ DecisionInv'

LEMMA Postings == "REVIEW" \in PostingStates /\ "SKIPPED" \in PostingStates /\ "POSTED" \in PostingStates
BY DEF PostingStates

LEMMA ConfirmedKeeps ==
    ASSUME TypeOK, StageInv, BooksInv, DecisionInv, NEW i \in DOMAIN events, events[i].type = "CONFIRMED", mode = "CREDIT",
           planConfirmed(i), UNCHANGED <<deskVars, mode, pending>>
    PROVE  Kept
<1>0. /\ events \in Seq(EventRow) /\ LedgerTypes /\ events[i] \in EventRow
      /\ status' = status /\ total' = total /\ quote' = quote /\ mode' = mode
    BY TypeParts, EventsDomain DEF deskVars
<1>1. CASE only(i, "SKIPPED") \/ only(i, "REVIEW")
    BY <1>1, OnlyKeeps, Postings DEF Kept
<1>2. CASE ~(only(i, "SKIPPED") \/ only(i, "REVIEW"))
    <2> DEFINE sell == IF LaterAmendments(i) # {} THEN events[Max(LaterAmendments(i))].sell ELSE events[i].sell
               held == hold # Null /\ released = "none"
    <2>1. /\ charge = Null /\ ~(held /\ hold # sell)
          /\ mark(i, "POSTED")
          /\ hold' = IF hold = Null THEN sell ELSE hold
          /\ released' = IF hold = Null \/ held THEN "settle" ELSE released
          /\ charge' = sell
          /\ payable' = payable + Net
          /\ UNCHANGED <<refunds, record>>
        BY <1>2 DEF planConfirmed
    <2>2. sell = total
        <3>1. CASE LaterAmendments(i) = {}
            BY <3>1 DEF StageInv, PriceInv
        <3>2. CASE LaterAmendments(i) # {}
            <4>1. PICK m : m = Max(LaterAmendments(i))
                OBVIOUS
            <4>2. m \in DOMAIN events /\ events[m].type = "AMENDED" /\ LaterAmendments(m) = {}
                BY <1>0, <3>2, <4>1, LastAmendment
            <4> QED BY <3>2, <4>1, <4>2 DEF StageInv, PriceInv
        <3> QED BY <3>1, <3>2
    <2> HIDE DEF sell
    <2>3. released = "none"
        <3>1. released # "settle"
            BY <2>1 DEF BooksInv
        <3>2. released # "release"
            <4> SUFFICES ASSUME released = "release" PROVE FALSE
                OBVIOUS
            <4>1. PICK k \in DOMAIN events : events[k].type = "HOLD_RELEASED"
                BY DEF BooksInv
            <4>2. StageOK(events[k]) /\ StageOK(events[i])
                BY DEF StageInv
            <4> QED BY <4>1, <4>2 DEF StageOK
        <3> QED BY <1>0, <3>1, <3>2 DEF LedgerTypes
    <2>4. total \in Nat /\ total # Null /\ total \in Nullable
        BY TypeParts, AmountsPositive, NullIsNoAmount DEF DeskTypes
    <2>5. hold' = total /\ charge' = total /\ released' = "settle"
        BY <2>1, <2>2, <2>3
    <2>6. refunds = 0 /\ refunds' = 0 /\ record' = record
        BY <1>0, <2>1 DEF BooksInv, LedgerTypes
    <2>7. LedgerTypes'
        BY <1>0, <2>1, <2>4, <2>5, <2>6, ConstantsOK DEF LedgerTypes, ConstantsOK
    <2>8. events' \in Seq(EventRow) /\ StageInv' /\ Fixed' = Fixed /\ Decided'
        BY <2>1, MarkKeeps, DecisionParts, Postings
    <2>9. BooksInv'
        BY <1>0, <2>4, <2>5, <2>6 DEF BooksInv
    <2>10. DecisionInv'
        BY <2>6, <2>8 DEF DecisionInv, Decided, RefundIsDecided
    <2> QED BY <2>7, <2>8, <2>9, <2>10 DEF Kept
<1> QED BY <1>1, <1>2

LEMMA HoldKeeps ==
    ASSUME TypeOK, StageInv, BooksInv, DecisionInv, NEW i \in DOMAIN events, events[i].type = "ON_REQUEST_HOLD",
           planHold(i), UNCHANGED <<deskVars, mode, pending>>
    PROVE  Kept
<1>0. /\ events \in Seq(EventRow) /\ LedgerTypes /\ events[i] \in EventRow
      /\ status' = status /\ total' = total /\ quote' = quote /\ mode' = mode
    BY TypeParts, EventsDomain DEF deskVars
<1>1. CASE only(i, "SKIPPED") \/ only(i, "REVIEW")
    BY <1>1, OnlyKeeps, Postings DEF Kept
<1>2. CASE ~(only(i, "SKIPPED") \/ only(i, "REVIEW"))
    <2>1. /\ charge = Null /\ mark(i, "POSTED") /\ hold' = events[i].sell
          /\ UNCHANGED <<released, charge, refunds, record, payable>>
        BY <1>2 DEF planHold
    <2>2. events[i].sell \in Nullable
        BY <1>0, AmountsPositive, NullIsNoAmount DEF EventRow
    <2>3. LedgerTypes'
        BY <1>0, <2>1, <2>2 DEF LedgerTypes
    <2>4. /\ events' \in Seq(EventRow) /\ StageInv' /\ Fixed' = Fixed /\ Decided'
          /\ (\E k \in DOMAIN events : events[k].type = "HOLD_RELEASED")
                => \E k \in DOMAIN events' : events'[k].type = "HOLD_RELEASED"
        BY <2>1, MarkKeeps, DecisionParts, Postings
    <2>5. BooksInv'
        BY <1>0, <2>1, <2>4 DEF BooksInv
    <2>6. refunds' = 0
        BY <1>0, <2>1 DEF BooksInv, LedgerTypes
    <2>7. DecisionInv'
        BY <2>4, <2>6 DEF DecisionInv, Decided, RefundIsDecided
    <2> QED BY <2>3, <2>4, <2>5, <2>7 DEF Kept
<1> QED BY <1>1, <1>2

LEMMA ReleaseKeeps ==
    ASSUME TypeOK, StageInv, BooksInv, DecisionInv, NEW i \in DOMAIN events, events[i].type = "HOLD_RELEASED",
           planRelease(i), UNCHANGED <<deskVars, mode, pending>>
    PROVE  Kept
<1>0. /\ events \in Seq(EventRow) /\ LedgerTypes /\ events[i] \in EventRow
      /\ status' = status /\ total' = total /\ quote' = quote /\ mode' = mode
    BY TypeParts, EventsDomain DEF deskVars
<1>1. CASE only(i, "SKIPPED")
    BY <1>1, OnlyKeeps, Postings DEF Kept
<1>2. CASE ~only(i, "SKIPPED")
    <2>1. /\ released = "none" /\ mark(i, "POSTED") /\ released' = "release"
          /\ UNCHANGED <<hold, charge, refunds, record, payable>>
        BY <1>2 DEF planRelease
    <2>2. charge = Null
        BY <2>1 DEF BooksInv
    <2>3. LedgerTypes'
        BY <1>0, <2>1 DEF LedgerTypes
    <2>4. /\ events' \in Seq(EventRow) /\ StageInv' /\ Fixed' = Fixed /\ Decided'
          /\ \E k \in DOMAIN events' : events'[k].type = "HOLD_RELEASED"
        BY <2>1, MarkKeeps, DecisionParts, Postings
    <2>5. BooksInv'
        BY <1>0, <2>1, <2>2, <2>4 DEF BooksInv
    <2>6. refunds' = 0
        BY <1>0, <2>1, <2>2 DEF BooksInv, LedgerTypes
    <2>7. DecisionInv'
        BY <2>4, <2>6 DEF DecisionInv, Decided, RefundIsDecided
    <2> QED BY <2>3, <2>4, <2>5, <2>7 DEF Kept
<1> QED BY <1>1, <1>2

LEMMA AmendedKeeps ==
    ASSUME TypeOK, StageInv, BooksInv, DecisionInv, NEW i \in DOMAIN events, events[i].type = "AMENDED",
           planAmended(i), UNCHANGED <<deskVars, mode, pending>>
    PROVE  Kept
<1>1. CASE only(i, "REVIEW")
    BY <1>1, OnlyKeeps, Postings DEF Kept
<1>2. CASE only(i, "SKIPPED") /\ (charge = Null \/ \E k \in LaterAmendments(i) \cup {i} : events[k].sell = charge)
    <2>1. charge # Null /\ LaterAmendments(i) = {} => charge = total
        BY <1>2 DEF StageInv, PriceInv
    <2> QED BY <1>2, <2>1, OnlyKeeps, Postings DEF Kept
<1> QED BY <1>1, <1>2 DEF planAmended

LEMMA GatedKeeps ==
    ASSUME TypeOK, StageInv, BooksInv, DecisionInv, NEW i \in DOMAIN events, gated(i), UNCHANGED <<deskVars, mode, pending>>
    PROVE  Kept
<1>1. CASE only(i, "REVIEW")
    BY <1>1, OnlyKeeps, Postings DEF Kept
<1>2. CASE only(i, "SKIPPED") /\ mode = "PAY_AT_HOTEL"
    <2>1. charge = Null
        BY <1>2 DEF BooksInv
    <2> QED BY <1>2, <2>1, OnlyKeeps, Postings DEF Kept
<1> QED BY <1>1, <1>2 DEF gated

LEMMA RefundKeeps ==
    ASSUME TypeOK, StageInv, BooksInv, DecisionInv, NEW i \in DOMAIN events, events[i].type \in {"CANCELLED", "NO_SHOW", "PENALTY"},
           planRefund(i), UNCHANGED <<deskVars, mode, pending>>
    PROVE  Kept
<1>0. /\ events \in Seq(EventRow) /\ LedgerTypes /\ events[i] \in EventRow
      /\ status' = status /\ total' = total /\ quote' = quote /\ mode' = mode
    BY TypeParts, EventsDomain DEF deskVars
<1> DEFINE e       == events[i]
           target  == e.sell - e.penalty
           ended   == {k \in 1..i : events[k].type \in {"CANCELLED", "NO_SHOW"}}
           noShow  == \E k \in ended : events[k].type = "NO_SHOW"
           reverse == e.penalty = 0 /\ payable > 0
           rewrite == ~noShow /\ record # target
<1>1. CASE only(i, "SKIPPED") \/ only(i, "REVIEW")
    BY <1>1, OnlyKeeps, Postings DEF Kept
<1>2. CASE /\ charge = Null /\ mark(i, "POSTED") /\ payable' = 0
           /\ UNCHANGED <<hold, released, charge, refunds, record>>
    <2>1. LedgerTypes'
        BY <1>0, <1>2 DEF LedgerTypes
    <2>2. /\ events' \in Seq(EventRow) /\ StageInv' /\ Fixed' = Fixed /\ Decided'
          /\ (\E k \in DOMAIN events : events[k].type = "HOLD_RELEASED")
                => \E k \in DOMAIN events' : events'[k].type = "HOLD_RELEASED"
        BY <1>2, MarkKeeps, DecisionParts, Postings
    <2>3. BooksInv'
        BY <1>0, <1>2, <2>2 DEF BooksInv
    <2>4. refunds' = 0
        BY <1>0, <1>2 DEF BooksInv, LedgerTypes
    <2>5. DecisionInv'
        BY <2>2, <2>4 DEF DecisionInv, Decided, RefundIsDecided
    <2> QED BY <2>1, <2>2, <2>3, <2>5 DEF Kept
<1>3. CASE /\ ended # {} /\ e.penalty # Null /\ charge # Null
           /\ ~(target > charge \/ target < refunds)
           /\ mark(i, "POSTED")
           /\ refunds' = target
           /\ record' = IF rewrite THEN target ELSE record
           /\ payable' = IF reverse THEN 0 ELSE payable
           /\ UNCHANGED <<hold, released, charge>>
    <2>1. e.penalty \in Nat /\ e.sell \in Nat /\ e.sell = total /\ charge \in Nat /\ refunds \in Nat
        <3>1. StageOK(events[i])
            BY DEF StageInv
        <3> QED BY <1>0, <1>3, <3>1, AmountsPositive, NullIsNoAmount DEF StageOK, EventRow, LedgerTypes
    <2>2. target \in Nat /\ target <= charge /\ target = total - e.penalty
        BY <1>3, <2>1
    <2>3. e.penalty \in Fixed
        <3>1. CASE e.type = "PENALTY"
            BY <3>1 DEF Fixed
        <3>2. CASE e.type # "PENALTY"
            BY <1>3, <3>2, DecisionParts DEF Decided
        <3> QED BY <3>1, <3>2
    <2>4. DOMAIN events = 1..Len(events) /\ Len(events) \in Nat
        BY <1>0, EventsDomain
    <2>5. \A k \in ended : k \in DOMAIN events /\ StageOK(events[k])
        BY <2>4 DEF StageInv
    <2>6. status \in {"CANCELLED", "NO_SHOW"} /\ (status = "CANCELLED" <=> ~noShow)
        <3>1. \A k \in ended : /\ events[k].type = "CANCELLED" => status = "CANCELLED"
                               /\ events[k].type = "NO_SHOW" => status = "NO_SHOW"
            BY <2>5 DEF StageOK
        <3> QED BY <1>3, <3>1
    <2> HIDE DEF ended, noShow, target, reverse
    <2>7. record' # Null => status = "CANCELLED" /\ record' = target
        BY <1>3, <2>6 DEF BooksInv
    <2>8. LedgerTypes'
        <3>1. record' \in Nullable /\ payable' \in Nat
            BY <1>0, <1>3, <2>2, NullIsNoAmount DEF LedgerTypes
        <3> QED BY <1>0, <1>3, <2>2, <3>1 DEF LedgerTypes
    <2>9. /\ events' \in Seq(EventRow) /\ StageInv' /\ Fixed' = Fixed /\ Decided'
          /\ AmendmentOpen => AmendmentOpen'
        BY <1>3, MarkKeeps, DecisionParts, Postings
    <2>10. BooksInv'
        BY <1>0, <1>3, <2>2, <2>7, <2>9 DEF BooksInv
    <2>11. RefundIsDecided'
        BY <1>0, <1>3, <2>2, <2>3, <2>6, <2>9 DEF RefundIsDecided, Fixed
    <2> QED BY <2>8, <2>9, <2>10, <2>11 DEF Kept, DecisionInv, Decided
<1> QED BY <1>1, <1>2, <1>3 DEF planRefund

LEMMA PostKeeps ==
    ASSUME TypeOK, StageInv, BooksInv, DecisionInv, postEvent
    PROVE  Kept
<1>1. PICK i \in Head1 : planPosting(i)
    BY DEF postEvent
<1>2. i \in DOMAIN events /\ UNCHANGED <<deskVars, mode, pending>>
    BY DEF Head1, postEvent
<1> QED BY <1>1, <1>2, GatedKeeps, ConfirmedKeeps, HoldKeeps, ReleaseKeeps, RefundKeeps, AmendedKeeps DEF planPosting

-----------------------------------------------------------------------------
(* The desk.                                                                *)

PenaltiesDecided == {events[i].penalty : i \in {k \in DOMAIN events : events[k].type = "PENALTY"}}

LEMMA WriteKeeps ==
    ASSUME events \in Seq(EventRow), NEW t \in EventTypes, NEW sell \in Amounts, NEW penalty \in Nullable, write(t, sell, penalty)
    PROVE  /\ t # "AMENDED" => \A k \in DOMAIN events : LaterAmendments(k)' = LaterAmendments(k)
           /\ t = "AMENDED" => (\A k \in DOMAIN events : LaterAmendments(k)' # {}) /\ AmendmentOpen'
           /\ AmendmentOpen => AmendmentOpen'
           /\ PenaltiesDecided \subseteq PenaltiesDecided'
<1>n. PICK n : n = Len(events) + 1
    OBVIOUS
<1>1. /\ DOMAIN events' = DOMAIN events \cup {n} /\ n \notin DOMAIN events
      /\ \A k \in DOMAIN events : events'[k] = events[k] /\ k < n
      /\ events'[n] = [type |-> t, sell |-> sell, penalty |-> penalty, posting |-> "NONE"]
    BY <1>n, WritePuts
<1>2. \A k \in DOMAIN events : k \in Nat
    BY EventsDomain
<1>3. n \in Nat
    BY <1>n, EventsDomain
<1>4. ASSUME t # "AMENDED" PROVE \A k \in DOMAIN events : LaterAmendments(k)' = LaterAmendments(k)
    BY <1>1, <1>4 DEF LaterAmendments
<1>5. LaterAmendments(n)' = {}
    BY <1>1, <1>2, <1>3 DEF LaterAmendments
<1>6. ~Final(n)'
    BY <1>1 DEF Final
<1>7. ASSUME t = "AMENDED" PROVE (\A k \in DOMAIN events : LaterAmendments(k)' # {}) /\ AmendmentOpen'
    <2>1. \A k \in DOMAIN events : n \in LaterAmendments(k)'
        BY <1>1, <1>2, <1>3, <1>7 DEF LaterAmendments
    <2>2. AmendmentOpen'
        BY <1>1, <1>5, <1>6, <1>7 DEF AmendmentOpen
    <2> QED BY <2>1, <2>2
<1>8. ASSUME AmendmentOpen, t # "AMENDED" PROVE AmendmentOpen'
    <2>1. PICK k \in DOMAIN events : events[k].type = "AMENDED" /\ ~Final(k) /\ LaterAmendments(k) = {}
        BY <1>8 DEF AmendmentOpen
    <2>2. events'[k].type = "AMENDED" /\ ~Final(k)' /\ LaterAmendments(k)' = {}
        BY <1>1, <1>4, <1>8, <2>1 DEF Final
    <2> QED BY <1>1, <2>2 DEF AmendmentOpen
<1>9. PenaltiesDecided \subseteq PenaltiesDecided'
    BY <1>1 DEF PenaltiesDecided
<1> QED BY <1>4, <1>7, <1>8, <1>9

\* What a step of the desk may do: move the booking along the table, and write at most one fact that fits.
NewFactOK(t, penalty) ==
    /\ t = "CONFIRMED" => status' \notin {"PENDING_SUPPLIER", "ON_REQUEST", "REJECTED", "FAILED"}
    /\ t = "HOLD_RELEASED" => status' \in {"REJECTED", "FAILED"}
    /\ t = "CANCELLED" => status' = "CANCELLED"
    /\ t = "NO_SHOW" => status' = "NO_SHOW"
    /\ t = "PENALTY" => status' \in Ending
    /\ t \in {"CANCELLED", "NO_SHOW"} /\ penalty # Null => penalty \in {quote'} \cup PenaltiesDecided

DeskStep ==
    /\ UNCHANGED ledgerVars /\ (mode' = mode \/ mode = "UNKNOWN")
    /\ status' = status \/ <<status, status'>> \in Transitions
    /\ status \in {"CANCELLED", "NO_SHOW"} => quote' = quote
    /\ \A o \in Operators : pending'[o] # Null => status' \in Ending
    /\ \/ events' = events /\ total' = total
       \/ \E t \in EventTypes, sell \in Amounts, penalty \in Nullable :
              /\ write(t, sell, penalty) /\ sell = total' /\ NewFactOK(t, penalty)
              /\ total' = total \/ (t = "AMENDED" /\ status = "AMEND_REQUESTED")

LEMMA StatusTable ==
    ASSUME NEW s, NEW u, s = u \/ <<s, u>> \in Transitions
    PROVE  /\ s \notin {"PENDING_SUPPLIER", "ON_REQUEST", "REJECTED", "FAILED"} => u \notin {"PENDING_SUPPLIER", "ON_REQUEST", "REJECTED", "FAILED"}
           /\ s \in {"REJECTED", "FAILED", "CANCELLED", "NO_SHOW"} => u = s
           /\ s \in Ending => u \in Ending
BY DEF Transitions, Ending

LEMMA DeskKeeps ==
    ASSUME TypeOK, StageInv, BooksInv, DecisionInv, DeskStep
    PROVE  Kept
<1>0. /\ events \in Seq(EventRow) /\ LedgerTypes /\ UNCHANGED <<hold, released, charge, refunds, record, payable>>
      /\ LedgerTypes'
    BY TypeParts DEF DeskStep, ledgerVars, LedgerTypes
<1>1. /\ status \notin {"PENDING_SUPPLIER", "ON_REQUEST", "REJECTED", "FAILED"} => status' \notin {"PENDING_SUPPLIER", "ON_REQUEST", "REJECTED", "FAILED"}
      /\ status \in {"REJECTED", "FAILED", "CANCELLED", "NO_SHOW"} => status' = status
      /\ status \in Ending => status' \in Ending
    BY StatusTable DEF DeskStep
<1>2. status \in Ending => total' = total
    BY DEF DeskStep, Ending
<1>3. \A i \in DOMAIN events : /\ StageOK(events[i])
                               /\ events[i].type = "CONFIRMED" => status' \notin {"PENDING_SUPPLIER", "ON_REQUEST", "REJECTED", "FAILED"}
                               /\ events[i].type = "HOLD_RELEASED" => status' \in {"REJECTED", "FAILED"}
                               /\ events[i].type = "CANCELLED" => status' = "CANCELLED"
                               /\ events[i].type = "NO_SHOW" => status' = "NO_SHOW"
                               /\ events[i].type = "PENALTY" => status' \in Ending
                               /\ events[i].type \in {"CANCELLED", "NO_SHOW", "PENALTY"} => events[i].sell = total'
    <2> SUFFICES ASSUME NEW i \in DOMAIN events
                 PROVE  /\ StageOK(events[i])
                        /\ events[i].type = "CONFIRMED" => status' \notin {"PENDING_SUPPLIER", "ON_REQUEST", "REJECTED", "FAILED"}
                        /\ events[i].type = "HOLD_RELEASED" => status' \in {"REJECTED", "FAILED"}
                        /\ events[i].type = "CANCELLED" => status' = "CANCELLED"
                        /\ events[i].type = "NO_SHOW" => status' = "NO_SHOW"
                        /\ events[i].type = "PENALTY" => status' \in Ending
                        /\ events[i].type \in {"CANCELLED", "NO_SHOW", "PENALTY"} => events[i].sell = total'
        OBVIOUS
    <2>1. StageOK(events[i])
        BY DEF StageInv
    <2>2. events[i].type \in {"CANCELLED", "NO_SHOW", "PENALTY"} => status \in Ending
        BY <2>1 DEF StageOK, Ending
    <2> QED BY <1>1, <1>2, <2>1, <2>2 DEF StageOK
<1>4. refunds > 0 \/ (\E i \in DOMAIN events : events[i].type \in {"CANCELLED", "NO_SHOW"})
          => status' = status /\ total' = total /\ quote' = quote /\ status \in {"CANCELLED", "NO_SHOW"}
    <2>1. refunds > 0 => status \in {"CANCELLED", "NO_SHOW"}
        BY DecisionParts DEF RefundIsDecided
    <2>2. \A i \in DOMAIN events : events[i].type \in {"CANCELLED", "NO_SHOW"} => status \in {"CANCELLED", "NO_SHOW"}
        BY <1>3 DEF StageOK
    <2>3. status \in {"CANCELLED", "NO_SHOW"} => status' = status /\ total' = total /\ quote' = quote
        BY <1>1, <1>2 DEF DeskStep, Ending
    <2> QED BY <2>1, <2>2, <2>3
<1>5. Fixed = {quote} \cup PenaltiesDecided /\ Fixed' = {quote'} \cup PenaltiesDecided'
    BY DEF Fixed, PenaltiesDecided
<1>6. ASSUME PenaltiesDecided \subseteq PenaltiesDecided' PROVE RefundIsDecided'
    <2> SUFFICES ASSUME refunds' > 0 PROVE /\ status' \in {"CANCELLED", "NO_SHOW"}
                                           /\ \E p \in Fixed' : p # Null /\ refunds' = total' - p
        BY DEF RefundIsDecided, Fixed
    <2>1. refunds > 0
        BY <1>0
    <2>2. PICK p \in Fixed : p # Null /\ refunds = total - p
        BY <2>1, DecisionParts DEF RefundIsDecided, Fixed
    <2> QED BY <1>0, <1>4, <1>5, <1>6, <2>1, <2>2
<1>7. ASSUME AmendmentOpen => AmendmentOpen', total' = total \/ AmendmentOpen',
             (\E k \in DOMAIN events : events[k].type = "HOLD_RELEASED") => \E k \in DOMAIN events' : events'[k].type = "HOLD_RELEASED"
      PROVE  BooksInv'
    <2>1. charge # Null => mode' = "CREDIT"
        BY DEF BooksInv, DeskStep
    <2>2. record # Null => status' = "CANCELLED"
        BY <1>1 DEF BooksInv
    <2> QED BY <1>0, <1>7, <2>1, <2>2 DEF BooksInv
<1>8. CASE events' = events /\ total' = total
    <2>1. (AmendmentOpen' <=> AmendmentOpen) /\ PenaltiesDecided' = PenaltiesDecided
        BY <1>8 DEF AmendmentOpen, Final, LaterAmendments, PenaltiesDecided
    <2>2. BooksInv' /\ RefundIsDecided'
        BY <1>6, <1>7, <1>8, <2>1
    <2>3. StageInv'
        <3>1. \A i \in DOMAIN events' : StageOK(events[i])'
            BY <1>3, <1>8 DEF StageOK
        <3>2. PriceInv'
            BY <1>8 DEF StageInv, PriceInv, LaterAmendments
        <3> QED BY <3>1, <3>2 DEF StageInv, DeskStep
    <2>4. Decided'
        BY <1>4, <1>5, <1>8, <2>1, DecisionParts DEF Decided
    <2> QED BY <1>0, <1>8, <2>2, <2>3, <2>4 DEF Kept, DecisionInv, Decided
<1>9. ASSUME NEW t \in EventTypes, NEW sell \in Amounts, NEW penalty \in Nullable,
             write(t, sell, penalty), sell = total', NewFactOK(t, penalty),
             total' = total \/ (t = "AMENDED" /\ status = "AMEND_REQUESTED")
      PROVE  Kept
    <2>n. PICK n : n = Len(events) + 1
        OBVIOUS
    <2>1. /\ events' \in Seq(EventRow)
          /\ DOMAIN events' = DOMAIN events \cup {n} /\ n \notin DOMAIN events
          /\ \A k \in DOMAIN events : events'[k] = events[k]
          /\ events'[n] = [type |-> t, sell |-> sell, penalty |-> penalty, posting |-> "NONE"]
        BY <1>0, <1>9, <2>n, WritePuts
    <2>2. events'[n].type = t /\ events'[n].sell = total' /\ events'[n].penalty = penalty
        BY <1>9, <2>1
    <2>3. /\ t # "AMENDED" => \A k \in DOMAIN events : LaterAmendments(k)' = LaterAmendments(k)
          /\ t = "AMENDED" => (\A k \in DOMAIN events : LaterAmendments(k)' # {}) /\ AmendmentOpen'
          /\ AmendmentOpen => AmendmentOpen'
          /\ PenaltiesDecided \subseteq PenaltiesDecided'
        BY <1>0, <1>9, WriteKeeps
    <2>4. BooksInv' /\ RefundIsDecided'
        BY <1>6, <1>7, <1>9, <2>1, <2>3
    <2>5. \A i \in DOMAIN events' : StageOK(events[i])'
        <3>1. \A i \in DOMAIN events : StageOK(events[i])'
            BY <1>3, <2>1 DEF StageOK
        <3>2. StageOK(events[n])'
            BY <1>9, <2>2 DEF StageOK, NewFactOK
        <3> QED BY <2>1, <3>1, <3>2
    <2>6. PriceInv'
        <3>1. ASSUME NEW i \in DOMAIN events, events'[i].type \in {"CONFIRMED", "AMENDED"}, LaterAmendments(i)' = {}
              PROVE  events'[i].sell = total'
            BY <1>9, <2>1, <2>3, <3>1 DEF StageInv, PriceInv
        <3> QED BY <2>1, <2>2, <3>1 DEF PriceInv
    <2>7. StageInv'
        BY <2>5, <2>6 DEF StageInv, DeskStep
    <2>8. Decided'
        <3>1. ASSUME NEW i \in DOMAIN events, events'[i].type \in {"CANCELLED", "NO_SHOW"}, events'[i].penalty # Null
              PROVE  events'[i].penalty \in Fixed'
            BY <1>4, <1>5, <2>1, <2>3, <3>1, DecisionParts DEF Decided
        <3>2. t \in {"CANCELLED", "NO_SHOW"} /\ penalty # Null => penalty \in Fixed'
            BY <1>5, <1>9, <2>3 DEF NewFactOK
        <3> QED BY <2>1, <2>2, <3>1, <3>2 DEF Decided
    <2> QED BY <1>0, <2>1, <2>4, <2>7, <2>8 DEF Kept, DecisionInv, Decided
<1> QED BY <1>8, <1>9 DEF DeskStep

\* The actions of the desk, the fact each may write.
LEMMA DeskTable ==
    ASSUME NEW a \in DeskActions
    PROVE  /\ <<From(a), To(a)>> \in Transitions /\ To(a) \in Statuses
           /\ \/ To(a) = "CONFIRMED" /\ Emits(a, CountOf) \subseteq {"CONFIRMED"}
              \/ Emits(a, CountOf) \subseteq {"ON_REQUEST_HOLD"}
              \/ To(a) \in {"REJECTED", "FAILED"} /\ Emits(a, CountOf) \subseteq {"HOLD_RELEASED"}
              \/ To(a) = "CANCELLED" /\ a \in Completing /\ Emits(a, CountOf) \subseteq {"CANCELLED"}
              \/ To(a) = "NO_SHOW" /\ a = "markNoShow" /\ Emits(a, CountOf) \subseteq {"NO_SHOW"}
           /\ a \in {"requestCancellation", "markNoShow"} => From(a) \notin {"CANCELLED", "NO_SHOW"}
           /\ a = "markNoShow" => a \notin Completing
<1>1. \/ a \in {"recordConfirmed", "confirmOnRequest"} /\ From(a) \in {"PENDING_SUPPLIER", "ON_REQUEST"} /\ To(a) = "CONFIRMED"
      \/ a = "recordOnRequest" /\ From(a) = "PENDING_SUPPLIER" /\ To(a) = "ON_REQUEST"
      \/ a = "recordFailed" /\ From(a) = "PENDING_SUPPLIER" /\ To(a) = "FAILED"
      \/ a = "rejectOnRequest" /\ From(a) = "ON_REQUEST" /\ To(a) = "REJECTED"
      \/ a = "rejectAmendment" /\ From(a) = "AMEND_REQUESTED" /\ To(a) = "CONFIRMED"
      \/ a = "requestCancellation" /\ From(a) = "CONFIRMED" /\ To(a) = "CANCEL_REQUESTED"
      \/ a = "confirmCancellation" /\ From(a) = "CANCEL_REQUESTED" /\ To(a) = "CANCELLED"
      \/ a = "markCheckedOut" /\ From(a) = "CONFIRMED" /\ To(a) = "CHECKED_OUT"
      \/ a = "markNoShow" /\ From(a) = "CHECKED_OUT" /\ To(a) = "NO_SHOW"
    BY DEF DeskActions, From, To, PersonActions, PersonRules, SystemRules
<1> QED BY <1>1 DEF Emits, Confirming, Holding, Releasing, Completing, Transitions, Statuses

LEMMA FactTypes == FinanceTypes \subseteq EventTypes /\ "PENALTY" \in EventTypes /\ "AMENDED" \in EventTypes
BY DEF EventTypes

LEMMA EmitsFacts == ASSUME NEW a, NEW t \in Emits(a, CountOf) PROVE t \in EventTypes
BY DEF Emits, EventTypes, FinanceTypes

LEMMA ActIsDesk ==
    ASSUME TypeOK, StageInv, NEW a \in DeskActions, act(a)
    PROVE  DeskStep /\ DeskTypes' /\ SideTypes' /\ pending' = pending
<1>0. /\ DeskTypes /\ SideTypes /\ total \in Amounts /\ total \in Nat /\ pending' = pending
      /\ UNCHANGED <<closed, total, mode, account, seen, ledgerVars, noShowAudit, docs>>
    BY TypeParts, AmountsPositive DEF DeskTypes, act
<1>1. status = From(a) /\ status' = To(a)
    BY DEF act
<1>2. quote' \in Nullable /\ (a \notin {"requestCancellation", "markNoShow"} => quote' = quote)
    <2>1. 0..total \subseteq Nullable
        BY <1>0 DEF Nullable
    <2> QED BY <1>0, <2>1, NullIsNoAmount DEF act, DeskTypes
<1>3. <<status, status'>> \in Transitions
    BY <1>1, DeskTable
<1>4. status \in {"CANCELLED", "NO_SHOW"} => quote' = quote
    BY <1>1, <1>2, DeskTable
<1>5. \A o \in Operators : pending'[o] # Null => status' \in Ending
    BY <1>0, <1>3, StatusTable DEF StageInv
<1>6. ASSUME events' = events PROVE DeskStep
    BY <1>0, <1>3, <1>4, <1>5, <1>6 DEF DeskStep
<1>7. ASSUME events' # events PROVE DeskStep
    <2> DEFINE penalty == IF a \in Completing THEN effectivePenalty ELSE IF a = "markNoShow" THEN quote' ELSE Null
    <2>1. PICK t \in Emits(a, CountOf) : write(t, total, penalty)
        BY <1>7 DEF act
    <2>2. penalty \in Nullable
        BY <1>2, PenaltyIsFixed, NullIsNoAmount
    <2>3. t \in EventTypes
        BY EmitsFacts
    <2>4. a \in Completing /\ effectivePenalty # Null => effectivePenalty \in {quote'} \cup PenaltiesDecided
        <3>1. a \in Completing => quote' = quote
            BY <1>2 DEF Completing
        <3> QED BY <3>1, PenaltyIsFixed DEF Fixed, PenaltiesDecided
    <2>5. NewFactOK(t, penalty)
        <3>1. t \in {"CANCELLED", "NO_SHOW"} => a \in Completing \/ a = "markNoShow"
            BY DeskTable
        <3>2. t \in {"CANCELLED", "NO_SHOW"} /\ penalty # Null => penalty \in {quote'} \cup PenaltiesDecided
            BY <2>4, <3>1, DeskTable
        <3> HIDE DEF penalty
        <3> QED BY <1>1, <3>2, DeskTable DEF NewFactOK
    <2> HIDE DEF penalty
    <2> QED BY <1>0, <1>3, <1>4, <1>5, <2>1, <2>2, <2>3, <2>5 DEF DeskStep
<1>8. DeskTypes'
    <2>1. status' \in Statuses
        BY <1>1, DeskTable
    <2>2. amend' \in BOOLEAN
        BY DEF act
    <2> QED BY <1>0, <1>2, <2>1, <2>2 DEF DeskTypes
<1>9. SideTypes'
    BY <1>0 DEF SideTypes, act
<1> QED BY <1>0, <1>6, <1>7, <1>8, <1>9

LEMMA ApproveIsDesk ==
    ASSUME TypeOK, StageInv, approveAmendment
    PROVE  DeskStep /\ DeskTypes' /\ SideTypes' /\ pending' = pending
<1>0. /\ DeskTypes /\ SideTypes /\ total \in Amounts /\ pending' = pending
      /\ UNCHANGED <<closed, quote, mode, account, ledgerVars, settleVars, docs>>
    BY TypeParts DEF DeskTypes, approveAmendment
<1>1. status = "AMEND_REQUESTED" /\ status' = "CONFIRMED" /\ <<status, status'>> \in Transitions
    BY DEF approveAmendment, Transitions
<1>2. PICK sell \in Amounts : total' = sell /\ IF sell = total THEN UNCHANGED events ELSE write("AMENDED", sell, Null)
    BY <1>0 DEF approveAmendment
<1>3. \A o \in Operators : pending'[o] # Null => status' \in Ending
    BY <1>0, <1>1, StatusTable DEF StageInv
<1>4. NewFactOK("AMENDED", Null)
    BY DEF NewFactOK
<1>5. DeskStep
    <2>1. CASE sell = total
        BY <1>0, <1>1, <1>2, <1>3, <2>1 DEF DeskStep
    <2>2. CASE sell # total
        <3>1. \E t \in EventTypes, s \in Amounts, penalty \in Nullable :
                  /\ write(t, s, penalty) /\ s = total' /\ NewFactOK(t, penalty)
                  /\ total' = total \/ (t = "AMENDED" /\ status = "AMEND_REQUESTED")
            BY <1>1, <1>2, <1>4, <2>2, FactTypes, NullIsNoAmount
        <3> QED BY <1>0, <1>1, <1>3, <3>1 DEF DeskStep
    <2> QED BY <2>1, <2>2
<1>6. DeskTypes'
    BY <1>0, <1>1, <1>2 DEF DeskTypes, approveAmendment, Statuses
<1>7. SideTypes'
    BY <1>0 DEF SideTypes, approveAmendment, settleVars
<1> QED BY <1>0, <1>5, <1>6, <1>7

LEMMA CommitIsDesk ==
    ASSUME TypeOK, StageInv, NEW o \in Operators, commitPenalty(o)
    PROVE  DeskStep /\ DeskTypes' /\ SideTypes' /\ pending' \in [Operators -> Nullable]
<1>0. /\ DeskTypes /\ SideTypes /\ total \in Amounts /\ pending \in [Operators -> Nullable]
      /\ UNCHANGED <<status, closed, total, quote, amend, mode, account, seen, ledgerVars, docs>>
    BY TypeParts DEF DeskTypes, commitPenalty, deskVars
<1>1. pending[o] # Null /\ write("PENALTY", total, pending[o]) /\ pending' = [pending EXCEPT ![o] = Null]
    BY DEF commitPenalty
<1>2. status \in Ending
    BY <1>1 DEF StageInv
<1>3. NewFactOK("PENALTY", pending[o])
    BY <1>0, <1>2 DEF NewFactOK
<1>4. \A x \in Operators : pending'[x] # Null => status' \in Ending
    BY <1>0, <1>2
<1>5. DeskStep
    <2>1. \E t \in EventTypes, s \in Amounts, penalty \in Nullable :
              /\ write(t, s, penalty) /\ s = total' /\ NewFactOK(t, penalty)
              /\ total' = total \/ (t = "AMENDED" /\ status = "AMEND_REQUESTED")
        BY <1>0, <1>1, <1>3, FactTypes
    <2> QED BY <1>0, <1>4, <2>1 DEF DeskStep
<1>6. pending' \in [Operators -> Nullable]
    BY <1>0, <1>1, NullIsNoAmount
<1>7. DeskTypes' /\ SideTypes'
    BY <1>0 DEF DeskTypes, SideTypes, commitPenalty
<1> QED BY <1>5, <1>6, <1>7

LEMMA OthersAreDesk ==
    ASSUME TypeOK, StageInv,
           \/ \E a \in CloseActions : close(a)
           \/ requestAmendment \/ ledgerCharged \/ completeBooking
           \/ \E d \in Documents : issueDocument(d)
           \/ \E o \in Operators, p \in 0..total : readPenalty(o, p)
           \/ UNCHANGED vars
    PROVE  DeskStep /\ DeskTypes' /\ SideTypes' /\ pending' \in [Operators -> Nullable]
<1>0. DeskTypes /\ SideTypes /\ total \in Nat /\ pending \in [Operators -> Nullable]
    BY TypeParts, AmountsPositive DEF DeskTypes
<1>1. UNCHANGED <<total, quote, events, ledgerVars>> /\ (mode' = mode \/ mode = "UNKNOWN")
    BY DEF close, requestAmendment, ledgerCharged, completeBooking, issueDocument, readPenalty, deskVars, vars, ledgerVars
<1>2. status' = status \/ <<status, status'>> \in Transitions
    BY DEF close, requestAmendment, ledgerCharged, completeBooking, issueDocument, readPenalty, deskVars, vars, Transitions
<1>3. (\A x \in Operators : pending'[x] # Null => status' \in Ending) /\ pending' \in [Operators -> Nullable]
    <2>1. CASE pending' = pending
        BY <1>0, <1>2, <2>1, StatusTable DEF StageInv
    <2>2. ASSUME NEW o \in Operators, NEW p \in 0..total, readPenalty(o, p)
          PROVE  (\A x \in Operators : pending'[x] # Null => status' \in Ending) /\ pending' \in [Operators -> Nullable]
        <3>1. p \in Nullable
            BY <1>0, NullIsNoAmount
        <3>2. status \in Ending /\ status' = status /\ pending' = [pending EXCEPT ![o] = p]
            BY <2>2 DEF readPenalty, Ending, deskVars
        <3> QED BY <1>0, <3>1, <3>2
    <2> QED BY <2>1, <2>2 DEF close, requestAmendment, ledgerCharged, completeBooking, issueDocument, vars
<1>4. DeskStep
    BY <1>1, <1>2, <1>3 DEF DeskStep
<1>5. DeskTypes'
    BY <1>0, <1>1 DEF DeskTypes, close, requestAmendment, ledgerCharged, completeBooking, issueDocument, readPenalty, deskVars, vars,
                      Statuses
<1>6. SideTypes'
    BY <1>0 DEF SideTypes, close, requestAmendment, ledgerCharged, completeBooking, issueDocument, readPenalty, settleVars, vars
<1> QED BY <1>3, <1>4, <1>5, <1>6

-----------------------------------------------------------------------------
(* The theorems.                                                            *)

MoneyInv == TypeOK /\ StageInv /\ BooksInv /\ DecisionInv

LEMMA MoneyInit == Init => MoneyInv
<1> SUFFICES ASSUME Init PROVE MoneyInv
    OBVIOUS
<1>1. DeskTypes /\ SideTypes /\ LedgerTypes /\ pending \in [Operators -> Nullable]
    BY NullIsNoAmount DEF Init, DeskTypes, SideTypes, LedgerTypes, Statuses, Amounts
<1>2. events = <<>> /\ events \in Seq(EventRow) /\ DOMAIN events = {}
    BY EmptySeq DEF Init
<1>3. StageInv
    BY <1>2 DEF Init, StageInv, PriceInv
<1>4. BooksInv
    BY NullIsNoAmount DEF Init, BooksInv
<1>5. DecisionInv
    BY <1>2 DEF Init, DecisionInv, RefundIsDecided
<1> QED BY <1>1, <1>2, <1>3, <1>4, <1>5, TypeParts DEF MoneyInv

LEMMA MoneyNext == MoneyInv /\ [Next]_vars => MoneyInv'
<1> SUFFICES ASSUME TypeOK, StageInv, BooksInv, DecisionInv, [Next]_vars PROVE MoneyInv'
    BY DEF MoneyInv
<1>0. DeskTypes /\ SideTypes /\ pending \in [Operators -> Nullable] /\ events \in Seq(EventRow)
    BY TypeParts
<1>1. ASSUME Kept, DeskTypes', SideTypes', pending' \in [Operators -> Nullable] PROVE MoneyInv'
    <2>1. TypeOK'
        BY <1>1 DEF Kept, TypeOK, DeskTypes, SideTypes, LedgerTypes, EventRow
    <2> QED BY <1>1, <2>1 DEF Kept, MoneyInv
<1>2. ASSUME NEW a \in DeskActions, act(a) PROVE MoneyInv'
    BY <1>0, <1>1, <1>2, ActIsDesk, DeskKeeps
<1>3. CASE approveAmendment
    BY <1>0, <1>1, <1>3, ApproveIsDesk, DeskKeeps
<1>4. ASSUME NEW o \in Operators, commitPenalty(o) PROVE MoneyInv'
    BY <1>1, <1>4, CommitIsDesk, DeskKeeps
<1>5. CASE \/ \E a \in CloseActions : close(a)
           \/ requestAmendment \/ ledgerCharged \/ completeBooking
           \/ \E d \in Documents : issueDocument(d)
           \/ \E o \in Operators, p \in 0..total : readPenalty(o, p)
           \/ UNCHANGED vars
    BY <1>1, <1>5, OthersAreDesk, DeskKeeps
<1>6. CASE settleQuietly \/ sweep
    <2>1. settle /\ UNCHANGED <<deskVars, mode, account, seen, events, docs, pending>> /\ unsettled' \in BOOLEAN
        BY <1>0, <1>6 DEF settleQuietly, sweep, SideTypes
    <2>2. LedgerTypes' /\ noShowAudit' \in {"none", "older", "newer"}
        BY <2>1, SettlePuts
    <2>3. StageInv' /\ BooksInv' /\ DecisionInv'
        BY <2>1, SettleKeeps
    <2>4. DeskTypes' /\ SideTypes'
        BY <1>0, <2>1, <2>2 DEF DeskTypes, SideTypes, deskVars
    <2> QED BY <1>0, <1>1, <2>1, <2>2, <2>3, <2>4 DEF Kept
<1>7. CASE postEvent
    <2>1. UNCHANGED <<deskVars, mode, account, seen, settleVars, docs, pending>>
        BY <1>7 DEF postEvent
    <2>2. DeskTypes' /\ SideTypes'
        BY <1>0, <2>1 DEF DeskTypes, SideTypes, deskVars, settleVars
    <2> QED BY <1>0, <1>1, <1>7, <2>1, <2>2, PostKeeps
<1> QED BY <1>2, <1>3, <1>4, <1>5, <1>6, <1>7 DEF Next

\* Types, the events of each status, the books and the decisions behind them, kept by every action of the desk, of the
\* settlement and of the posting worker.
THEOREM MoneyInvariance == Spec => []MoneyInv
BY MoneyInit, MoneyNext, PTL DEF Spec

\* Every variable of the booking's money keeps its type (TypeOK): refunds, records and payables never turn negative, however
\* the worker and the settlement interleave.
THEOREM MoneyTypes == Spec => []TypeOK
<1>1. MoneyInv => TypeOK
    BY DEF MoneyInv
<1> QED BY <1>1, MoneyInvariance, PTL

\* The ledger integrity monitor's rules hold at every moment (BooksTieOut): the charge is the released hold, refunds stay
\* within it and equal the cancellation's record, and a fully posted booking is charged its total.
THEOREM TheBooksTieOut == Spec => []BooksTieOut
<1>1. MoneyInv => BooksTieOut
    <2> SUFFICES ASSUME MoneyInv PROVE BooksTieOut
        OBVIOUS
    <2>1. BooksInv
        BY DEF MoneyInv
    <2>2. (charge # Null /\ \A i \in DOMAIN events : Final(i)) => charge = total
        BY <2>1 DEF BooksInv, AmendmentOpen
    <2> QED BY <2>1, <2>2 DEF BooksInv, BooksTieOut
<1> QED BY <1>1, MoneyInvariance, PTL

\* Money is never guessed (RefundIsDecided): whichever of planRefund and settle posted it, a refund is the total less a
\* penalty that the quote or a person fixed, of a cancelled or no-show booking.
THEOREM RefundsAreDecided == Spec => []RefundIsDecided
<1>1. MoneyInv => RefundIsDecided
    BY DEF MoneyInv, DecisionInv
<1> QED BY <1>1, MoneyInvariance, PTL
=============================================================================
