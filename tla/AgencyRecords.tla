---------------------------- MODULE AgencyRecords ----------------------------
(***************************************************************************)
(* The records one person proposes and another decides before money moves   *)
(* on an agency account: a funding receipt (ADR 0028), reversals of it and  *)
(* adjustments (ADR 0100), commission payouts (ADR 0098) and credit notes   *)
(* of a charged booking (ADR 0095), beside the cancellation paths that      *)
(* refund the same booking.                                                 *)
(*                                                                         *)
(* A decision reads its record without a lock, then locks the receipt or    *)
(* the booking and the wallet, checks again, appends the ledger entry and   *)
(* marks the record where it is still PROPOSED: the read is one step, the   *)
(* rest another.  One receipt, one booking and one commission period.       *)
(***************************************************************************)
EXTENDS Integers, FiniteSets

CONSTANTS
    People,       \* who may act
    Requests,     \* request ids, each used for one proposal
    Kinds,        \* the kinds proposed, see RecordKinds
    Paid,         \* what the receipt says was paid
    Charge        \* what the booking was charged

RecordKinds == {"REVERSAL", "ADJUSTMENT", "COMMISSION", "CREDIT_NOTE"}

Nobody == "nobody"

ASSUME RecordsConstantsOK ==
    /\ Nobody \notin People /\ IsFiniteSet(People) /\ IsFiniteSet(Requests)
    /\ Kinds \subseteq RecordKinds
    /\ Paid \in Nat \ {0} /\ Charge \in Nat \ {0}

VARIABLES
    receipt,   \* the FundingReceipt
    rec,       \* the record proposed under each request id
    deciding,  \* decisions that have read their record and wait for their locks
    booking,   \* status, who ended it, the refund its cancellation terms give, the refund recorded
    ledger     \* the entries of the agency account these operations wrote

vars == <<receipt, rec, deciding, booking, ledger>>

NoRow == [status |-> "none"]

Entry(key, type, amount) == [key |-> key, type |-> type, amount |-> amount]

\* Sums count minor units: one element for each unit of each entry, or of each record.
Total(S) == Cardinality(UNION {{e} \X (1..e.amount) : e \in S})

refunded == Total({e \in ledger : e.type = "REFUND"})

\* appendLedgerEntry: the key is unique on the wallet, a second append fails and rolls back.
append(key, type, amount) ==
    /\ \A e \in ledger : e.key # key
    /\ ledger' = ledger \cup {Entry(key, type, amount)}

RecordsOf(kind, statuses) == {rec[q] : q \in {r \in Requests : rec[r].status \in statuses /\ rec[r].kind = kind}}
SumOf(kind, statuses) ==
    Cardinality(UNION {{q} \X (1..rec[q].amount) :
                       q \in {r \in Requests : rec[r].status \in statuses /\ rec[r].kind = kind}})

-----------------------------------------------------------------------------
(***************************************************************************)
(* The receipt.  Every step runs under the receipt's row lock.              *)
(***************************************************************************)
\* review: cash or a third-party payer.  second: above the threshold a second person posts.
declare(p) ==
    /\ receipt = NoRow
    /\ \E review, second \in BOOLEAN :
           receipt' = [status |-> "DECLARED", review |-> review, second |-> second, declaredBy |-> p,
                       verifiedBy |-> Nobody, clearedBy |-> Nobody, postedBy |-> Nobody]
    /\ UNCHANGED <<rec, deciding, booking, ledger>>

verify(p) ==
    /\ receipt.status = "DECLARED" /\ receipt.declaredBy # p
    /\ receipt' = [receipt EXCEPT !.status = "VERIFIED", !.verifiedBy = p]
    /\ UNCHANGED <<rec, deciding, booking, ledger>>

clearCompliance(p) ==
    /\ receipt.status \in {"DECLARED", "VERIFIED"}
    /\ receipt.review /\ receipt.clearedBy = Nobody /\ receipt.declaredBy # p
    /\ receipt' = [receipt EXCEPT !.clearedBy = p]
    /\ UNCHANGED <<rec, deciding, booking, ledger>>

rejectReceipt(p) ==
    /\ receipt.status \in {"DECLARED", "VERIFIED"}
    /\ receipt' = [receipt EXCEPT !.status = "REJECTED"]
    /\ UNCHANGED <<rec, deciding, booking, ledger>>

\* duties.post
MayPost(p) ==
    /\ receipt.status = "VERIFIED"
    /\ receipt.review => receipt.clearedBy # Nobody
    /\ receipt.declaredBy # p
    /\ receipt.second => receipt.verifiedBy # p

post(p) ==
    /\ MayPost(p)
    /\ append(<<"funding", 0>>, "CREDIT", Paid)
    /\ receipt' = [receipt EXCEPT !.status = "POSTED", !.postedBy = p]
    /\ UNCHANGED <<rec, deciding, booking>>

-----------------------------------------------------------------------------
(***************************************************************************)
(* Proposals and decisions.                                                 *)
(***************************************************************************)
CREDITABLE_STATES == {"CONFIRMED", "CHECKED_OUT", "NO_SHOW"}

\* MUTANT of reversible: proposals that still wait are not counted when another is made.
reversibleNow(waiting) == Paid - SumOf("REVERSAL", {"APPROVED"})
\* What may still be taken back of the receipt, counting proposals that wait or only approved ones.
reversible(waiting) == Paid - SumOf("REVERSAL", IF waiting THEN {"PROPOSED", "APPROVED"} ELSE {"APPROVED"})

\* What may still be credited of the charge.  The code takes a negative remainder as zero; no amount is zero.
creditable(waiting) ==
    LET taken == refunded + (IF waiting THEN SumOf("CREDIT_NOTE", {"PROPOSED"}) ELSE 0)
    IN  IF taken > Charge THEN 0 ELSE Charge - taken

\* The check of a proposal (waiting = TRUE) and, under the same locks, of its approval.
Allowed(kind, amount, waiting) ==
    CASE kind = "REVERSAL"    -> receipt.status = "POSTED" /\ amount <= reversible(waiting)
      [] kind = "CREDIT_NOTE" -> booking.status \in CREDITABLE_STATES /\ amount <= creditable(waiting)
      [] OTHER                -> TRUE

\* One payout per agency and period, decided or not.
PeriodFree(kind) == kind = "COMMISSION" => RecordsOf("COMMISSION", {"PROPOSED", "APPROVED", "REJECTED"}) = {}

\* The amounts worth telling apart: only a reversal and a credit note are measured against something.
Amounts(kind) == CASE kind = "REVERSAL" -> 1..Paid [] kind = "CREDIT_NOTE" -> 1..Charge [] OTHER -> {1}

propose(p, q) ==
    /\ rec[q] = NoRow
    /\ \E kind \in Kinds : \E amount \in Amounts(kind) :
           /\ Allowed(kind, amount, TRUE) /\ PeriodFree(kind)
           /\ rec' = [rec EXCEPT ![q] = [status |-> "PROPOSED", kind |-> kind, amount |-> amount,
                                         proposedBy |-> p, decidedBy |-> Nobody]]
    /\ UNCHANGED <<receipt, deciding, booking, ledger>>

\* approve and reject first read the record: it must wait, and not for its proposer.
readRecord(p, q) ==
    /\ rec[q].status = "PROPOSED" /\ rec[q].proposedBy # p
    /\ \A d \in deciding : d.by # p
    /\ \E decision \in {"approve", "reject"} : deciding' = deciding \cup {[by |-> p, on |-> q, decision |-> decision]}
    /\ UNCHANGED <<receipt, rec, booking, ledger>>

\* MUTANT of mark: the update does not require the record to be still PROPOSED.
markAny(d, status) == rec' = [rec EXCEPT ![d.on].status = status, ![d.on].decidedBy = d.by]
\* updateMany where status is PROPOSED; no row means somebody decided meanwhile, and the transaction rolls back.
mark(d, status) ==
    /\ rec[d.on].status = "PROPOSED"
    /\ rec' = [rec EXCEPT ![d.on].status = status, ![d.on].decidedBy = d.by]

EntryType(kind) ==
    CASE kind = "CREDIT_NOTE" -> "REFUND" [] kind = "COMMISSION" -> "CREDIT" [] OTHER -> kind

approve(d) ==
    /\ d.decision = "approve"
    /\ Allowed(rec[d.on].kind, rec[d.on].amount, FALSE)
    /\ append(<<"record", d.on>>, EntryType(rec[d.on].kind), rec[d.on].amount)
    /\ mark(d, "APPROVED")
    /\ deciding' = deciding \ {d}
    /\ UNCHANGED <<receipt, booking>>

reject(d) ==
    /\ d.decision = "reject"
    /\ mark(d, "REJECTED")
    /\ deciding' = deciding \ {d}
    /\ UNCHANGED <<receipt, booking, ledger>>

\* Refused under the locks, or failed: nothing is written.
giveUp(d) ==
    /\ deciding' = deciding \ {d}
    /\ UNCHANGED <<receipt, rec, booking, ledger>>

-----------------------------------------------------------------------------
(***************************************************************************)
(* What else refunds the booking.                                           *)
(***************************************************************************)
\* The portal: the refund of the terms is posted whole and the booking is CANCELLED, in one transaction.
cancel ==
    /\ booking.status = "CONFIRMED"
    /\ \E refund \in 0..Charge :
           /\ IF refund > 0 THEN append(<<"cancel-refund", 0>>, "REFUND", refund) ELSE UNCHANGED ledger
           /\ booking' = [status |-> "CANCELLED", by |-> "agent", terms |-> refund, recorded |-> refund]
    /\ UNCHANGED <<receipt, rec, deciding>>

\* The desk ends the booking; settlement follows.
deskEnds ==
    /\ booking.status = "CONFIRMED"
    /\ \/ booking' = [booking EXCEPT !.status = "CHECKED_OUT", !.by = "desk"]
       \/ \E to \in {"CANCELLED", "NO_SHOW"}, refund \in 0..Charge :
              booking' = [booking EXCEPT !.status = to, !.by = "desk", !.terms = refund]
    /\ UNCHANGED <<receipt, rec, deciding, ledger>>

\* CancellationSettlementService.settle: tops the refunds posted so far up to the target, or leaves it for review.
settle ==
    LET target == booking.terms
    IN  /\ booking.status \in {"CANCELLED", "NO_SHOW"}
        /\ target >= refunded
        /\ IF target > refunded
           THEN append(<<"cancel-refund", IF refunded = 0 THEN 0 ELSE target>>, "REFUND", target - refunded)
           ELSE UNCHANGED ledger
        /\ booking' = [booking EXCEPT !.recorded = IF booking.status = "CANCELLED" THEN target ELSE @]
        /\ UNCHANGED <<receipt, rec, deciding>>

-----------------------------------------------------------------------------
Init ==
    /\ receipt = NoRow
    /\ rec = [q \in Requests |-> NoRow]
    /\ deciding = {}
    /\ booking = [status |-> "CONFIRMED", by |-> Nobody, terms |-> 0, recorded |-> 0]
    /\ ledger = {}

Next ==
    \/ \E p \in People :
           \/ declare(p) \/ verify(p) \/ clearCompliance(p) \/ rejectReceipt(p) \/ post(p)
           \/ \E q \in Requests : propose(p, q) \/ readRecord(p, q)
    \/ \E d \in deciding : approve(d) \/ reject(d) \/ giveUp(d)
    \/ cancel \/ deskEnds \/ settle

Spec == Init /\ [][Next]_vars

-----------------------------------------------------------------------------
(***************************************************************************)
(* Nothing is given back beyond what came in: the reversals approved or     *)
(* waiting never exceed what the receipt paid, none exists before it is     *)
(* posted (ADR 0100), and however credit notes and the settlement race, the *)
(* refunds of a booking that no agent cancelled stay within its charge.     *)
(***************************************************************************)
GivenBackWithinPaid ==
    /\ SumOf("REVERSAL", {"PROPOSED", "APPROVED"}) <= IF receipt.status = "POSTED" THEN Paid ELSE 0
    /\ booking.by # "agent" => refunded <= Charge

(***************************************************************************)
(* Every entry stands on one decision and two people: an entry of a record  *)
(* exists exactly while the record is APPROVED, for its amount and by       *)
(* somebody other than its proposer, however approvals and rejections race; *)
(* the receipt's credit exists exactly when it is POSTED, and its           *)
(* declarer neither verified, cleared nor posted it.                        *)
(***************************************************************************)
EntriesAreDecided ==
    /\ \A q \in Requests :
           LET mine == {e \in ledger : e.key = <<"record", q>>}
           IN  IF rec[q].status = "APPROVED"
               THEN /\ mine = {Entry(<<"record", q>>, EntryType(rec[q].kind), rec[q].amount)}
                    /\ rec[q].decidedBy \notin {Nobody, rec[q].proposedBy}
               ELSE mine = {}
    /\ receipt.status = "POSTED" <=> \E e \in ledger : e.key = <<"funding", 0>>
    /\ receipt.status = "POSTED" =>
           /\ receipt.declaredBy \notin {receipt.verifiedBy, receipt.clearedBy, receipt.postedBy}
           /\ receipt.review => receipt.clearedBy # Nobody
           /\ receipt.second => receipt.verifiedBy # receipt.postedBy
=============================================================================
