------------------------ MODULE AgencyRecordsProofs ------------------------
(***************************************************************************)
(* What AgencyRecords promises, for every number of people and proposals    *)
(* and every amount paid and charged.                                       *)
(*                                                                         *)
(* DutyInv says who may stand where: a receipt's declarer did not verify,   *)
(* clear or post it, a decision under way is not its proposer's, and nobody *)
(* has ended a booking that is confirmed.  With it EntriesAreDecided is inductive.  GivenBackWithinPaid is inductive     *)
(* with the types, once a sum is known to grow by what is added to it.      *)
(***************************************************************************)
EXTENDS AgencyRecords, FiniteSetTheorems, TLAPS

Receipts ==
    [status : {"DECLARED", "VERIFIED", "REJECTED", "POSTED"}, review : BOOLEAN, second : BOOLEAN, declaredBy : People,
     verifiedBy : People \cup {Nobody}, clearedBy : People \cup {Nobody}, postedBy : People \cup {Nobody}]

Records ==
    [status : {"PROPOSED", "APPROVED", "REJECTED"}, kind : RecordKinds, amount : Nat, proposedBy : People,
     decidedBy : People \cup {Nobody}]

Decisions == [by : People, on : Requests, decision : {"approve", "reject"}]

TypeOK ==
    /\ receipt \in Receipts \cup {NoRow}
    /\ rec \in [Requests -> Records \cup {NoRow}]
    /\ deciding \subseteq Decisions
    /\ booking \in [status : {"CONFIRMED", "CHECKED_OUT", "CANCELLED", "NO_SHOW"}, by : {Nobody, "agent", "desk"},
                    terms : 0..Charge, recorded : 0..Charge]
    /\ IsFiniteSet(ledger) /\ \A e \in ledger : e.amount \in Nat

DutyInv ==
    /\ receipt # NoRow => receipt.declaredBy \notin {receipt.verifiedBy, receipt.clearedBy, receipt.postedBy}
    /\ \A d \in deciding : rec[d.on] # NoRow /\ rec[d.on].proposedBy # d.by
    /\ booking.status = "CONFIRMED" => booking.by = Nobody

-----------------------------------------------------------------------------
(* Sums of minor units.                                                     *)

\* The units of the members of S, of which each x has f[x].
Units(f, S) == UNION {{x} \X (1..f[x]) : x \in S}

LEMMA UnitsOfOne ==
    ASSUME NEW x, NEW n \in Nat
    PROVE  IsFiniteSet({x} \X (1..n)) /\ Cardinality({x} \X (1..n)) = n
<1>1. IsFiniteSet({x}) /\ Cardinality({x}) = 1
    BY FS_Singleton
<1>2. IsFiniteSet(1..n) /\ Cardinality(1..n) = n
    BY FS_Interval
<1>3. IsFiniteSet({x} \X (1..n)) /\ Cardinality({x} \X (1..n)) = 1 * n
    BY <1>1, <1>2, FS_Product
<1> QED BY <1>3

LEMMA UnitsFinite ==
    ASSUME NEW S, IsFiniteSet(S), NEW f, \A x \in S : f[x] \in Nat
    PROVE  IsFiniteSet(Units(f, S)) /\ Cardinality(Units(f, S)) \in Nat
<1> DEFINE T == {{x} \X (1..f[x]) : x \in S}
           g == [x \in S |-> {x} \X (1..f[x])]
<1>1. g \in Surjection(S, T)
    <2>1. g \in [S -> T]
        OBVIOUS
    <2>2. \A t \in T : \E x \in S : g[x] = t
        OBVIOUS
    <2> QED BY <2>1, <2>2 DEF Surjection
<1>2. IsFiniteSet(T)
    BY <1>1, FS_Surjection
<1>3. ASSUME NEW t \in T PROVE IsFiniteSet(t)
    <2>1. PICK x \in S : t = {x} \X (1..f[x])
        OBVIOUS
    <2> QED BY <2>1, UnitsOfOne
<1>4. IsFiniteSet(UNION T)
    BY <1>2, <1>3, FS_UNION
<1> QED BY <1>4, FS_CardinalityType DEF Units

\* One more member adds its units.
LEMMA UnitsGrow ==
    ASSUME NEW S, IsFiniteSet(S), NEW f, \A x \in S : f[x] \in Nat, NEW y, y \notin S, f[y] \in Nat
    PROVE  Cardinality(Units(f, S \cup {y})) = Cardinality(Units(f, S)) + f[y]
<1>1. Units(f, S \cup {y}) = Units(f, S) \cup ({y} \X (1..f[y]))
    BY DEF Units
<1>2. Units(f, S) \cap ({y} \X (1..f[y])) = {}
    BY DEF Units
<1>3. IsFiniteSet({y} \X (1..f[y])) /\ Cardinality({y} \X (1..f[y])) = f[y]
    BY UnitsOfOne
<1>4. IsFiniteSet(Units(f, S)) /\ Cardinality(Units(f, S)) \in Nat
    BY UnitsFinite
<1>5. Cardinality(Units(f, S) \cup ({y} \X (1..f[y]))) = Cardinality(Units(f, S)) + f[y] - Cardinality({})
    BY <1>2, <1>3, <1>4, FS_Union
<1>6. Cardinality({}) = 0
    BY FS_EmptySet
<1>7. f[y] - 0 = f[y] /\ Cardinality(Units(f, S)) + f[y] - 0 = Cardinality(Units(f, S)) + f[y]
    BY <1>4
<1> QED BY <1>1, <1>5, <1>6, <1>7

\* The ledger's sum, and what an entry adds to it.
LEMMA TotalGrows ==
    ASSUME NEW S, IsFiniteSet(S), \A e \in S : e.amount \in Nat
    PROVE  /\ Total(S) \in Nat
           /\ \A e : e \notin S /\ e.amount \in Nat => Total(S \cup {e}) = Total(S) + e.amount
<1>1. ASSUME NEW T, NEW f, \A e \in T : f[e] = e.amount
      PROVE  Total(T) = Cardinality(Units(f, T))
    <2>1. {{e} \X (1..e.amount) : e \in T} = {{e} \X (1..f[e]) : e \in T}
        BY <1>1
    <2> QED BY <2>1 DEF Total, Units
<1>2. Total(S) \in Nat
    <2> DEFINE f == [e \in S |-> e.amount]
    <2>1. \A e \in S : f[e] = e.amount /\ f[e] \in Nat
        OBVIOUS
    <2> HIDE DEF f
    <2> QED BY <1>1, <2>1, UnitsFinite
<1>3. ASSUME NEW e, e \notin S, e.amount \in Nat
      PROVE  Total(S \cup {e}) = Total(S) + e.amount
    <2> DEFINE f == [x \in S \cup {e} |-> x.amount]
    <2>1. \A x \in S \cup {e} : f[x] = x.amount /\ f[x] \in Nat
        BY <1>3
    <2> HIDE DEF f
    <2>2. Total(S) = Cardinality(Units(f, S)) /\ Total(S \cup {e}) = Cardinality(Units(f, S \cup {e}))
        BY <1>1, <2>1
    <2>3. Cardinality(Units(f, S \cup {e})) = Cardinality(Units(f, S)) + f[e]
        BY <1>3, <2>1, UnitsGrow
    <2> QED BY <2>1, <2>2, <2>3
<1> QED BY <1>2, <1>3

\* The sum over the records, for any table of them.
Open == {"PROPOSED", "APPROVED"}

Counted(table, kind, statuses) == {q \in Requests : table[q].status \in statuses /\ table[q].kind = kind}
SumIn(table, kind, statuses) == Cardinality(UNION {{q} \X (1..table[q].amount) : q \in Counted(table, kind, statuses)})

LEMMA SumIsUnits ==
    ASSUME NEW table \in [Requests -> Records \cup {NoRow}], NEW kind, NEW statuses \in SUBSET Open
    PROVE  /\ IsFiniteSet(Counted(table, kind, statuses))
           /\ \A q \in Counted(table, kind, statuses) : table[q] \in Records /\ table[q].amount \in Nat
           /\ \A f : (\A q \in Counted(table, kind, statuses) : f[q] = table[q].amount)
                  => SumIn(table, kind, statuses) = Cardinality(Units(f, Counted(table, kind, statuses)))
           /\ SumIn(table, kind, statuses) \in Nat
<1> DEFINE C == Counted(table, kind, statuses)
<1>1. IsFiniteSet(C)
    BY FS_Subset, RecordsConstantsOK DEF Counted, RecordsConstantsOK
<1>2. \A q \in C : table[q] \in Records /\ table[q].amount \in Nat
    BY DEF Counted, Records, NoRow, Open
<1>3. ASSUME NEW f, \A q \in C : f[q] = table[q].amount
      PROVE  SumIn(table, kind, statuses) = Cardinality(Units(f, C))
    <2>1. {{q} \X (1..table[q].amount) : q \in C} = {{q} \X (1..f[q]) : q \in C}
        BY <1>3
    <2> QED BY <2>1 DEF SumIn, Units
<1>4. SumIn(table, kind, statuses) \in Nat
    <2> DEFINE f == [q \in C |-> table[q].amount]
    <2>1. \A q \in C : f[q] = table[q].amount /\ f[q] \in Nat
        BY <1>2
    <2> HIDE DEF f, C
    <2> QED BY <1>1, <1>3, <2>1, UnitsFinite
<1> QED BY <1>1, <1>2, <1>3, <1>4

\* A proposal adds its amount to the sum of its kind.
LEMMA SumGrows ==
    ASSUME NEW table \in [Requests -> Records \cup {NoRow}], NEW kind, NEW q \in Requests, table[q] = NoRow,
           NEW r \in Records, r.status = "PROPOSED"
    PROVE  SumIn([table EXCEPT ![q] = r], kind, Open) =
               SumIn(table, kind, Open) + IF r.kind = kind THEN r.amount ELSE 0
<1> DEFINE new == [table EXCEPT ![q] = r]
           C == Counted(table, kind, Open)
           f == [x \in Requests |-> new[x].amount]
<1>1. new \in [Requests -> Records \cup {NoRow}]
    OBVIOUS
<1>2. q \notin C /\ C \subseteq Requests
    BY DEF Counted, Open, NoRow
<1>3. Counted(new, kind, Open) = IF r.kind = kind THEN C \cup {q} ELSE C
    BY <1>2 DEF Counted, Open
<1>4. /\ \A x \in C : f[x] = table[x].amount /\ f[x] = new[x].amount
      /\ f[q] = new[q].amount /\ f[q] = r.amount /\ r.amount \in Nat
    BY <1>2 DEF Records
<1>5. IsFiniteSet(C) /\ (\A x \in C : f[x] \in Nat) /\ SumIn(table, kind, Open) = Cardinality(Units(f, C))
    <2> HIDE DEF f
    <2> QED BY <1>4, SumIsUnits
<1>6. SumIn(new, kind, Open) = Cardinality(Units(f, Counted(new, kind, Open)))
    <2>1. \A x \in Counted(new, kind, Open) : f[x] = new[x].amount
        BY <1>3, <1>4
    <2> HIDE DEF new, f
    <2> QED BY <1>1, <2>1, SumIsUnits
<1>7. SumIn(table, kind, Open) \in Nat
    BY SumIsUnits
<1>8. CASE r.kind = kind
    <2>1. Cardinality(Units(f, C \cup {q})) = Cardinality(Units(f, C)) + f[q]
        <3> HIDE DEF f, C
        <3> QED BY <1>2, <1>4, <1>5, UnitsGrow
    <2> HIDE DEF f, C, new
    <2> QED BY <1>3, <1>4, <1>5, <1>6, <1>8, <2>1 DEF new
<1>9. CASE r.kind # kind
    <2> HIDE DEF f, C, new
    <2> QED BY <1>3, <1>5, <1>6, <1>7, <1>9 DEF new
<1> QED BY <1>8, <1>9

\* A decision adds nothing.
LEMMA SumDecided ==
    ASSUME NEW table \in [Requests -> Records \cup {NoRow}], NEW kind, NEW q \in Requests, table[q] \in Records,
           table[q].status = "PROPOSED", NEW r \in Records, r.kind = table[q].kind, r.amount = table[q].amount
    PROVE  SumIn([table EXCEPT ![q] = r], kind, Open) <= SumIn(table, kind, Open)
<1> DEFINE new == [table EXCEPT ![q] = r]
           C == Counted(table, kind, Open)
           D == Counted(new, kind, Open)
           f == [x \in Requests |-> table[x].amount]
<1>1. new \in [Requests -> Records \cup {NoRow}]
    OBVIOUS
<1>2. D \subseteq C /\ C \subseteq Requests
    BY DEF Counted, Open
<1>3. \A x \in C : f[x] = table[x].amount /\ f[x] = new[x].amount
    BY <1>2
<1>4. IsFiniteSet(C) /\ (\A x \in C : f[x] \in Nat) /\ SumIn(table, kind, Open) = Cardinality(Units(f, C))
    BY <1>3, SumIsUnits
<1>5. SumIn(new, kind, Open) = Cardinality(Units(f, D))
    <2> HIDE DEF new, f
    <2> QED BY <1>1, <1>2, <1>3, SumIsUnits
<1>6. Units(f, D) \subseteq Units(f, C)
    BY <1>2 DEF Units
<1>7. IsFiniteSet(Units(f, C))
    <2> HIDE DEF f, C
    <2> QED BY <1>4, UnitsFinite
<1> QED BY <1>4, <1>5, <1>6, <1>7, FS_Subset

-----------------------------------------------------------------------------
(* Types and duties.                                                        *)

LEMMA IsRecord ==
    ASSUME TypeOK, NEW q \in Requests, rec[q].status # "none" \/ rec[q] # NoRow
    PROVE  rec[q] \in Records
BY DEF TypeOK, NoRow

LEMMA IsReceipt ==
    ASSUME TypeOK, receipt.status # "none" \/ receipt # NoRow
    PROVE  receipt \in Receipts
BY DEF TypeOK, NoRow

LEMMA RefundedType ==
    ASSUME TypeOK
    PROVE  /\ IsFiniteSet({e \in ledger : e.type = "REFUND"})
           /\ \A e \in {x \in ledger : x.type = "REFUND"} : e.amount \in Nat
           /\ refunded \in Nat
<1>1. IsFiniteSet({e \in ledger : e.type = "REFUND"})
    BY FS_Subset DEF TypeOK
<1> QED BY <1>1, TotalGrows DEF TypeOK, refunded

LEMMA AppendType ==
    ASSUME TypeOK, NEW key, NEW type, NEW amount \in Nat, append(key, type, amount)
    PROVE  IsFiniteSet(ledger') /\ \A e \in ledger' : e.amount \in Nat
<1>1. ledger' = ledger \cup {Entry(key, type, amount)} /\ Entry(key, type, amount).amount = amount
    BY DEF append, Entry
<1>2. IsFiniteSet(ledger')
    BY <1>1, FS_AddElement DEF TypeOK
<1> QED BY <1>1, <1>2 DEF TypeOK

\* A refund adds its amount to what was refunded; any other entry adds nothing.
LEMMA AppendRefunds ==
    ASSUME TypeOK, NEW key, NEW type, NEW amount \in Nat, append(key, type, amount)
    PROVE  refunded' = refunded + IF type = "REFUND" THEN amount ELSE 0
<1> DEFINE R == {e \in ledger : e.type = "REFUND"}
           x == Entry(key, type, amount)
<1>1. x \notin R /\ x.amount \in Nat /\ x.amount = amount
    BY DEF append, Entry
<1>2. {e \in ledger' : e.type = "REFUND"} = IF type = "REFUND" THEN R \cup {x} ELSE R
    BY DEF append, Entry
<1>3. refunded = Total(R) /\ refunded' = Total(IF type = "REFUND" THEN R \cup {x} ELSE R) /\ Total(R) \in Nat
    BY <1>2, RefundedType DEF refunded
<1>4. Total(R \cup {x}) = Total(R) + x.amount
    <2> HIDE DEF x
    <2> QED BY <1>1, RefundedType, TotalGrows
<1> QED BY <1>1, <1>3, <1>4

ReceiptStep(p) == declare(p) \/ verify(p) \/ clearCompliance(p) \/ rejectReceipt(p) \/ post(p)

LEMMA ReceiptKept ==
    ASSUME TypeOK, DutyInv, NEW p \in People, ReceiptStep(p)
    PROVE  TypeOK' /\ DutyInv'
<1> USE RecordsConstantsOK DEF RecordsConstantsOK
<1>1. UNCHANGED <<rec, deciding, booking>>
    BY DEF ReceiptStep, declare, verify, clearCompliance, rejectReceipt, post
<1>2. IsFiniteSet(ledger') /\ \A e \in ledger' : e.amount \in Nat
    <2>1. CASE post(p)
        BY <2>1, AppendType DEF post
    <2>2. CASE UNCHANGED ledger
        BY <2>2 DEF TypeOK
    <2> QED BY <2>1, <2>2 DEF ReceiptStep, declare, verify, clearCompliance, rejectReceipt
<1>3. receipt' \in Receipts /\ receipt'.declaredBy \notin {receipt'.verifiedBy, receipt'.clearedBy, receipt'.postedBy}
    <2>1. CASE declare(p)
        BY <2>1 DEF declare, Receipts
    <2>2. ASSUME ~declare(p) PROVE receipt \in Receipts /\ receipt # NoRow
        BY <2>2, IsReceipt DEF ReceiptStep, verify, clearCompliance, rejectReceipt, post, MayPost, Receipts, NoRow
    <2>3. CASE ~declare(p)
        BY <2>2, <2>3 DEF ReceiptStep, verify, clearCompliance, rejectReceipt, post, MayPost, Receipts, DutyInv
    <2> QED BY <2>1, <2>3
<1> QED BY <1>1, <1>2, <1>3 DEF TypeOK, DutyInv

LEMMA ProposeKept ==
    ASSUME TypeOK, DutyInv, NEW p \in People, NEW q \in Requests, propose(p, q) \/ readRecord(p, q)
    PROVE  TypeOK' /\ DutyInv'
<1> USE RecordsConstantsOK DEF RecordsConstantsOK
<1>1. CASE propose(p, q)
    <2>0. PICK kind \in Kinds : \E amount \in Amounts(kind) :
              rec' = [rec EXCEPT ![q] = [status |-> "PROPOSED", kind |-> kind, amount |-> amount,
                                         proposedBy |-> p, decidedBy |-> Nobody]]
        BY <1>1 DEF propose
    <2>1. PICK amount \in Amounts(kind) :
              rec' = [rec EXCEPT ![q] = [status |-> "PROPOSED", kind |-> kind, amount |-> amount,
                                         proposedBy |-> p, decidedBy |-> Nobody]]
        BY <2>0
    <2>2. amount \in Nat /\ kind \in RecordKinds
        BY DEF Amounts
    <2>3. [status |-> "PROPOSED", kind |-> kind, amount |-> amount, proposedBy |-> p, decidedBy |-> Nobody] \in Records
        BY <2>2 DEF Records
    <2>4. rec[q] = NoRow /\ UNCHANGED <<receipt, deciding, booking, ledger>>
        BY <1>1 DEF propose
    <2>5. \A d \in deciding : d.on # q /\ rec'[d.on] = rec[d.on]
        BY <2>1, <2>4 DEF DutyInv, TypeOK, Decisions
    <2> QED BY <2>1, <2>3, <2>4, <2>5 DEF TypeOK, DutyInv
<1>2. CASE readRecord(p, q)
    <2>1. PICK decision \in {"approve", "reject"} : deciding' = deciding \cup {[by |-> p, on |-> q, decision |-> decision]}
        BY <1>2 DEF readRecord
    <2>2. rec[q].status = "PROPOSED" /\ rec[q].proposedBy # p /\ UNCHANGED <<receipt, rec, booking, ledger>>
        BY <1>2 DEF readRecord
    <2>3. rec[q] # NoRow
        BY <2>2 DEF NoRow
    <2> QED BY <2>1, <2>2, <2>3 DEF TypeOK, DutyInv, Decisions
<1> QED BY <1>1, <1>2

\* The record a decision marks.
LEMMA Marked ==
    ASSUME TypeOK, DutyInv, NEW d \in deciding, NEW status \in {"APPROVED", "REJECTED"}, mark(d, status)
    PROVE  \E r \in Records :
               /\ d.on \in Requests /\ rec[d.on] \in Records /\ rec[d.on].status = "PROPOSED"
               /\ rec' = [rec EXCEPT ![d.on] = r]
               /\ r = [rec[d.on] EXCEPT !.status = status, !.decidedBy = d.by]
               /\ r.status = status /\ r.decidedBy = d.by /\ d.by \in People
               /\ r.kind = rec[d.on].kind /\ r.amount = rec[d.on].amount /\ r.proposedBy = rec[d.on].proposedBy
<1>1. d.on \in Requests /\ d.by \in People
    BY DEF TypeOK, Decisions
<1>2. rec[d.on] \in Records /\ rec[d.on].status = "PROPOSED"
    BY <1>1, IsRecord DEF mark
<1> DEFINE r == [rec[d.on] EXCEPT !.status = status, !.decidedBy = d.by]
<1>3. rec' = [rec EXCEPT ![d.on] = r]
    BY <1>1, <1>2 DEF mark, TypeOK
<1>4. r \in Records
    BY <1>1, <1>2 DEF Records
<1>5. /\ r.status = status /\ r.decidedBy = d.by
      /\ r.kind = rec[d.on].kind /\ r.amount = rec[d.on].amount /\ r.proposedBy = rec[d.on].proposedBy
    BY <1>2 DEF Records
<1> HIDE DEF r
<1> QED BY <1>1, <1>2, <1>3, <1>4, <1>5 DEF r

LEMMA DecideKept ==
    ASSUME TypeOK, DutyInv, NEW d \in deciding, approve(d) \/ reject(d) \/ giveUp(d)
    PROVE  TypeOK' /\ DutyInv'
<1>1. deciding' \subseteq deciding /\ UNCHANGED <<receipt, booking>>
    BY DEF approve, reject, giveUp
<1>2. CASE giveUp(d)
    BY <1>1, <1>2 DEF giveUp, TypeOK, DutyInv
<1>3. ASSUME NEW status \in {"APPROVED", "REJECTED"}, mark(d, status)
      PROVE  rec' \in [Requests -> Records \cup {NoRow}] /\ DutyInv'
    <2>1. PICK r \in Records :
               /\ d.on \in Requests /\ rec[d.on] \in Records /\ rec' = [rec EXCEPT ![d.on] = r]
               /\ r.proposedBy = rec[d.on].proposedBy
        BY <1>3, Marked
    <2>2. r # NoRow
        BY DEF Records, NoRow
    <2>3. rec' \in [Requests -> Records \cup {NoRow}]
        BY <2>1 DEF TypeOK
    <2>4. \A e \in deciding' : e.on \in Requests /\ rec'[e.on] # NoRow /\ rec'[e.on].proposedBy # e.by
        BY <1>1, <2>1, <2>2 DEF DutyInv, TypeOK, Decisions
    <2> QED BY <1>1, <2>3, <2>4 DEF DutyInv
<1>4. CASE approve(d)
    <2>1. mark(d, "APPROVED") /\ append(<<"record", d.on>>, EntryType(rec[d.on].kind), rec[d.on].amount)
        BY <1>4 DEF approve
    <2>2. rec[d.on].amount \in Nat
        BY <2>1, Marked DEF Records
    <2>3. IsFiniteSet(ledger') /\ \A e \in ledger' : e.amount \in Nat
        BY <2>1, <2>2, AppendType
    <2> QED BY <1>1, <1>3, <2>1, <2>3 DEF TypeOK
<1>5. CASE reject(d)
    BY <1>1, <1>3, <1>5 DEF reject, TypeOK
<1> QED BY <1>2, <1>4, <1>5

LEMMA BookingKept ==
    ASSUME TypeOK, DutyInv, cancel \/ deskEnds \/ settle
    PROVE  TypeOK' /\ DutyInv'
<1> USE RecordsConstantsOK DEF RecordsConstantsOK
<1>1. CASE cancel
    <2>1. PICK refund \in 0..Charge :
              /\ IF refund > 0 THEN append(<<"cancel-refund", 0>>, "REFUND", refund) ELSE UNCHANGED ledger
              /\ booking' = [status |-> "CANCELLED", by |-> "agent", terms |-> refund, recorded |-> refund]
        BY <1>1 DEF cancel
    <2>2. IsFiniteSet(ledger') /\ \A e \in ledger' : e.amount \in Nat
        BY <2>1, AppendType DEF TypeOK
    <2> QED BY <1>1, <2>1, <2>2 DEF cancel, TypeOK, DutyInv
<1>2. CASE deskEnds
    BY <1>2 DEF deskEnds, TypeOK, DutyInv
<1>3. CASE settle
    <2>1. booking.terms \in 0..Charge /\ booking.terms >= refunded /\ refunded \in Nat
        BY <1>3, RefundedType DEF settle, TypeOK
    <2>2. CASE booking.terms > refunded
        <3>1. PICK key : append(key, "REFUND", booking.terms - refunded)
            BY <1>3, <2>2 DEF settle
        <3>2. IsFiniteSet(ledger') /\ \A e \in ledger' : e.amount \in Nat
            BY <2>1, <3>1, AppendType
        <3> QED BY <1>3, <3>2 DEF settle, TypeOK, DutyInv
    <2>3. CASE UNCHANGED ledger
        BY <1>3, <2>3 DEF settle, TypeOK, DutyInv
    <2> QED BY <1>3, <2>2, <2>3 DEF settle
<1> QED BY <1>1, <1>2, <1>3

\* The variables have their types, the declarer of a receipt takes no other part in it, and no decision under way
\* is its proposer's, and nobody has ended a confirmed booking.
THEOREM DutyInvariance == Spec => [](TypeOK /\ DutyInv)
<1>1. Init => TypeOK /\ DutyInv
    BY FS_EmptySet, RecordsConstantsOK DEF Init, TypeOK, DutyInv, RecordsConstantsOK
<1>2. TypeOK /\ DutyInv /\ [Next]_vars => (TypeOK /\ DutyInv)'
    <2> SUFFICES ASSUME TypeOK, DutyInv, [Next]_vars PROVE TypeOK' /\ DutyInv'
        OBVIOUS
    <2>1. CASE UNCHANGED vars
        BY <2>1 DEF vars, TypeOK, DutyInv
    <2> QED BY <2>1, ReceiptKept, ProposeKept, DecideKept, BookingKept DEF Next, ReceiptStep
<1> QED BY <1>1, <1>2, PTL DEF Spec

-----------------------------------------------------------------------------
(* Every entry stands on one decision and two people.                       *)

Mine(q) == {e \in ledger : e.key = <<"record", q>>}

RecordDecided(q) ==
    IF rec[q].status = "APPROVED"
    THEN /\ Mine(q) = {Entry(<<"record", q>>, EntryType(rec[q].kind), rec[q].amount)}
         /\ rec[q].decidedBy \notin {Nobody, rec[q].proposedBy}
    ELSE Mine(q) = {}

ReceiptDecided ==
    /\ receipt.status = "POSTED" <=> \E e \in ledger : e.key = <<"funding", 0>>
    /\ receipt.status = "POSTED" =>
           /\ receipt.declaredBy \notin {receipt.verifiedBy, receipt.clearedBy, receipt.postedBy}
           /\ receipt.review => receipt.clearedBy # Nobody
           /\ receipt.second => receipt.verifiedBy # receipt.postedBy

LEMMA DecidedParts == EntriesAreDecided <=> ReceiptDecided /\ \A q \in Requests : RecordDecided(q)
BY DEF EntriesAreDecided, ReceiptDecided, RecordDecided, Mine

\* An entry under another key leaves the entries of a record as they are.
LEMMA OtherKey ==
    ASSUME NEW key, NEW type, NEW amount, append(key, type, amount), NEW other, other # key
    PROVE  {e \in ledger' : e.key = other} = {e \in ledger : e.key = other}
BY DEF append, Entry

LEMMA OwnKey ==
    ASSUME NEW key, NEW type, NEW amount, append(key, type, amount)
    PROVE  {e \in ledger' : e.key = key} = {Entry(key, type, amount)} /\ {e \in ledger : e.key = key} = {}
BY DEF append, Entry

LEMMA RecordKeptSame ==
    ASSUME NEW q \in Requests, RecordDecided(q), rec'[q] = rec[q], Mine(q)' = Mine(q)
    PROVE  RecordDecided(q)'
BY DEF RecordDecided

LEMMA ReceiptKeptSame ==
    ASSUME ReceiptDecided, UNCHANGED receipt,
           {e \in ledger' : e.key = <<"funding", 0>>} = {e \in ledger : e.key = <<"funding", 0>>}
    PROVE  ReceiptDecided'
BY DEF ReceiptDecided

LEMMA DecidedByReceipt ==
    ASSUME TypeOK, DutyInv, DutyInv', ReceiptDecided, \A q \in Requests : RecordDecided(q), NEW p \in People, ReceiptStep(p)
    PROVE  ReceiptDecided' /\ \A q \in Requests : RecordDecided(q)'
<1> USE RecordsConstantsOK DEF RecordsConstantsOK
<1>1. CASE post(p)
    <2>1. append(<<"funding", 0>>, "CREDIT", Paid) /\ UNCHANGED rec
        BY <1>1 DEF post
    <2>2. \A q \in Requests : Mine(q)' = Mine(q)
        BY <2>1, OtherKey DEF Mine
    <2>3. \A q \in Requests : RecordDecided(q)'
        BY <2>1, <2>2, RecordKeptSame
    <2>4. receipt \in Receipts
        BY <1>1, IsReceipt DEF post, MayPost
    <2>5. /\ receipt'.status = "POSTED" /\ receipt' # NoRow
          /\ receipt'.review => receipt'.clearedBy # Nobody
          /\ receipt'.second => receipt'.verifiedBy # receipt'.postedBy
        BY <1>1, <2>4 DEF post, MayPost, Receipts, NoRow
    <2>6. \E e \in ledger' : e.key = <<"funding", 0>>
        BY <2>1, OwnKey
    <2>7. ReceiptDecided'
        BY <2>5, <2>6 DEF ReceiptDecided, DutyInv
    <2> QED BY <2>3, <2>7
<1>2. CASE ~post(p)
    <2>1. UNCHANGED <<rec, ledger>>
        BY <1>2 DEF ReceiptStep, declare, verify, clearCompliance, rejectReceipt
    <2>2. \A q \in Requests : RecordDecided(q)'
        BY <2>1, RecordKeptSame DEF Mine
    <2>3. receipt.status # "POSTED" /\ receipt'.status # "POSTED"
        <3>1. CASE declare(p)
            BY <3>1 DEF declare, NoRow
        <3>2. CASE verify(p) \/ clearCompliance(p) \/ rejectReceipt(p)
            <4>1. receipt \in Receipts
                BY <3>2, IsReceipt DEF verify, clearCompliance, rejectReceipt
            <4> QED BY <3>2, <4>1 DEF verify, clearCompliance, rejectReceipt, Receipts
        <3> QED BY <1>2, <3>1, <3>2 DEF ReceiptStep
    <2> QED BY <2>1, <2>2, <2>3 DEF ReceiptDecided
<1> QED BY <1>1, <1>2

LEMMA DecidedByProposal ==
    ASSUME TypeOK, ReceiptDecided, \A q \in Requests : RecordDecided(q),
           NEW p \in People, NEW s \in Requests, propose(p, s) \/ readRecord(p, s)
    PROVE  ReceiptDecided' /\ \A q \in Requests : RecordDecided(q)'
<1>1. UNCHANGED <<receipt, ledger>>
    BY DEF propose, readRecord
<1>2. ReceiptDecided'
    BY <1>1, ReceiptKeptSame
<1>3. ASSUME NEW q \in Requests PROVE RecordDecided(q)'
    <2>1. CASE rec'[q] = rec[q]
        BY <1>1, <2>1, RecordKeptSame DEF Mine
    <2>2. CASE rec'[q] # rec[q]
        <3>0. propose(p, s) /\ q = s
            BY <2>2 DEF propose, readRecord, TypeOK
        <3>1. rec[q] = NoRow /\ \E kind, amount :
                  rec'[q] = [status |-> "PROPOSED", kind |-> kind, amount |-> amount, proposedBy |-> p, decidedBy |-> Nobody]
            BY <3>0 DEF propose, TypeOK
        <3>2. rec[q].status # "APPROVED" /\ rec'[q].status # "APPROVED"
            BY <3>1 DEF NoRow
        <3>3. Mine(q) = {} /\ Mine(q)' = Mine(q)
            BY <1>1, <3>2 DEF RecordDecided, Mine
        <3> QED BY <3>2, <3>3 DEF RecordDecided
    <2> QED BY <2>1, <2>2
<1> QED BY <1>2, <1>3

LEMMA DecidedByDecision ==
    ASSUME TypeOK, DutyInv, ReceiptDecided, \A q \in Requests : RecordDecided(q),
           NEW d \in deciding, approve(d) \/ reject(d) \/ giveUp(d)
    PROVE  ReceiptDecided' /\ \A q \in Requests : RecordDecided(q)'
<1>1. CASE giveUp(d)
    BY <1>1, RecordKeptSame, ReceiptKeptSame DEF giveUp, Mine
<1>2. CASE reject(d)
    <2>1. mark(d, "REJECTED") /\ UNCHANGED <<receipt, ledger>>
        BY <1>2 DEF reject
    <2>2. PICK r \in Records : /\ d.on \in Requests /\ rec[d.on].status = "PROPOSED"
                               /\ rec' = [rec EXCEPT ![d.on] = r] /\ r.status = "REJECTED"
        BY <2>1, Marked
    <2>3. ASSUME NEW q \in Requests PROVE RecordDecided(q)'
        <3>1. CASE q # d.on
            BY <2>1, <2>2, <3>1, RecordKeptSame DEF Mine, TypeOK
        <3>2. CASE q = d.on
            BY <2>1, <2>2, <3>2 DEF RecordDecided, Mine, TypeOK
        <3> QED BY <3>1, <3>2
    <2> QED BY <2>1, <2>3, ReceiptKeptSame
<1>3. CASE approve(d)
    <2>1. /\ mark(d, "APPROVED") /\ UNCHANGED receipt
          /\ append(<<"record", d.on>>, EntryType(rec[d.on].kind), rec[d.on].amount)
        BY <1>3 DEF approve
    <2>2. PICK r \in Records :
              /\ d.on \in Requests /\ rec' = [rec EXCEPT ![d.on] = r] /\ r.status = "APPROVED"
              /\ r.decidedBy = d.by /\ d.by \in People
              /\ r.kind = rec[d.on].kind /\ r.amount = rec[d.on].amount /\ r.proposedBy = rec[d.on].proposedBy
        BY <2>1, Marked
    <2>3. ASSUME NEW q \in Requests PROVE RecordDecided(q)'
        <3>1. CASE q # d.on
            <4>1. Mine(q)' = Mine(q)
                BY <2>1, <3>1, OtherKey DEF Mine
            <4> QED BY <2>2, <3>1, <4>1, RecordKeptSame DEF TypeOK
        <3>2. CASE q = d.on
            <4>1. rec'[q] = r /\ rec[q].proposedBy # d.by
                BY <2>2, <3>2 DEF TypeOK, DutyInv
            <4>2. Mine(q)' = {Entry(<<"record", q>>, EntryType(r.kind), r.amount)}
                BY <2>1, <2>2, <3>2, OwnKey DEF Mine
            <4>3. r.decidedBy \notin {Nobody, r.proposedBy}
                BY <2>2, <3>2, <4>1, RecordsConstantsOK DEF RecordsConstantsOK
            <4> QED BY <2>2, <4>1, <4>2, <4>3 DEF RecordDecided
        <3> QED BY <3>1, <3>2
    <2>4. ReceiptDecided'
        BY <2>1, OtherKey, ReceiptKeptSame
    <2> QED BY <2>3, <2>4
<1> QED BY <1>1, <1>2, <1>3

LEMMA DecidedByBooking ==
    ASSUME TypeOK, ReceiptDecided, \A q \in Requests : RecordDecided(q), cancel \/ deskEnds \/ settle
    PROVE  ReceiptDecided' /\ \A q \in Requests : RecordDecided(q)'
<1>1. UNCHANGED <<receipt, rec>>
    BY DEF cancel, deskEnds, settle
<1>2. UNCHANGED ledger \/ \E n, amount : append(<<"cancel-refund", n>>, "REFUND", amount)
    BY DEF cancel, deskEnds, settle
<1>3. CASE UNCHANGED ledger
    BY <1>1, <1>3, RecordKeptSame, ReceiptKeptSame DEF Mine
<1>4. ASSUME NEW n, NEW amount, append(<<"cancel-refund", n>>, "REFUND", amount)
      PROVE  ReceiptDecided' /\ \A q \in Requests : RecordDecided(q)'
    <2>1. \A q \in Requests : Mine(q)' = Mine(q)
        BY <1>4, OtherKey DEF Mine
    <2>2. {e \in ledger' : e.key = <<"funding", 0>>} = {e \in ledger : e.key = <<"funding", 0>>}
        BY <1>4, OtherKey
    <2> QED BY <1>1, <2>1, <2>2, RecordKeptSame, ReceiptKeptSame
<1> QED BY <1>2, <1>3, <1>4

\* Every entry stands on one decision and two people (EntriesAreDecided), for every number of people, proposals and
\* decisions that race.
THEOREM AllEntriesDecided == Spec => []EntriesAreDecided
<1>1. Init => EntriesAreDecided
    BY DEF Init, EntriesAreDecided, NoRow
<1>2. TypeOK /\ DutyInv /\ TypeOK' /\ DutyInv' /\ EntriesAreDecided /\ [Next]_vars => EntriesAreDecided'
    <2> SUFFICES ASSUME TypeOK, DutyInv, DutyInv', ReceiptDecided, \A q \in Requests : RecordDecided(q), [Next]_vars
                 PROVE  ReceiptDecided' /\ \A q \in Requests : RecordDecided(q)'
        <3>1. EntriesAreDecided' <=> ReceiptDecided' /\ \A q \in Requests : RecordDecided(q)'
            BY DEF EntriesAreDecided, ReceiptDecided, RecordDecided, Mine
        <3> QED BY <3>1, DecidedParts
    <2>1. CASE UNCHANGED vars
        BY <2>1, RecordKeptSame, ReceiptKeptSame DEF vars, Mine
    <2> QED BY <2>1, DecidedByReceipt, DecidedByProposal, DecidedByDecision, DecidedByBooking DEF Next, ReceiptStep
<1> QED BY <1>1, <1>2, DutyInvariance, PTL DEF Spec

-----------------------------------------------------------------------------
(* Nothing is given back beyond what came in.                               *)

ReversalsWithin == SumIn(rec, "REVERSAL", Open) <= IF receipt.status = "POSTED" THEN Paid ELSE 0
RefundsWithin   == booking.by # "agent" => refunded <= Charge

LEMMA WithinParts == GivenBackWithinPaid <=> ReversalsWithin /\ RefundsWithin
BY DEF GivenBackWithinPaid, ReversalsWithin, RefundsWithin, SumOf, SumIn, Counted, Open

\* Proposals count those that wait; decisions only turn them into approved or rejected ones.
LEMMA ReversalsKept ==
    ASSUME TypeOK, DutyInv, ReversalsWithin, [Next]_vars
    PROVE  ReversalsWithin'
<1> USE RecordsConstantsOK DEF RecordsConstantsOK
<1>0. rec \in [Requests -> Records \cup {NoRow}] /\ SumIn(rec, "REVERSAL", Open) \in Nat
    BY SumIsUnits DEF TypeOK
<1>1. CASE UNCHANGED <<rec, receipt>>
    BY <1>1 DEF ReversalsWithin
<1>2. ASSUME NEW p \in People, ReceiptStep(p) PROVE ReversalsWithin'
    <2>1. UNCHANGED rec /\ (receipt.status = "POSTED" => receipt'.status = "POSTED")
        BY <1>2 DEF ReceiptStep, declare, verify, clearCompliance, rejectReceipt, post, MayPost, NoRow
    <2> QED BY <1>0, <2>1 DEF ReversalsWithin
<1>3. ASSUME NEW p \in People, NEW q \in Requests, propose(p, q) PROVE ReversalsWithin'
    <2>1. PICK kind \in Kinds : \E amount \in Amounts(kind) :
              /\ Allowed(kind, amount, TRUE)
              /\ rec' = [rec EXCEPT ![q] = [status |-> "PROPOSED", kind |-> kind, amount |-> amount,
                                            proposedBy |-> p, decidedBy |-> Nobody]]
        BY <1>3 DEF propose
    <2>2. PICK amount \in Amounts(kind) :
              /\ Allowed(kind, amount, TRUE)
              /\ rec' = [rec EXCEPT ![q] = [status |-> "PROPOSED", kind |-> kind, amount |-> amount,
                                            proposedBy |-> p, decidedBy |-> Nobody]]
        BY <2>1
    <2> DEFINE r == [status |-> "PROPOSED", kind |-> kind, amount |-> amount, proposedBy |-> p, decidedBy |-> Nobody]
    <2>3. amount \in Nat /\ r \in Records /\ r.status = "PROPOSED" /\ r.kind = kind /\ r.amount = amount
        BY DEF Amounts, Records
    <2>4. rec[q] = NoRow /\ UNCHANGED receipt
        BY <1>3 DEF propose
    <2>5. SumIn(rec', "REVERSAL", Open) = SumIn(rec, "REVERSAL", Open) + IF kind = "REVERSAL" THEN amount ELSE 0
        <3> HIDE DEF r
        <3>1. rec' = [rec EXCEPT ![q] = r]
            BY <2>2 DEF r
        <3>2. SumIn([rec EXCEPT ![q] = r], "REVERSAL", Open) =
                  SumIn(rec, "REVERSAL", Open) + IF r.kind = "REVERSAL" THEN r.amount ELSE 0
            BY <1>0, <2>3, <2>4, SumGrows
        <3> QED BY <2>3, <3>1, <3>2
    <2>6. CASE kind = "REVERSAL"
        <3>1. receipt.status = "POSTED" /\ amount <= Paid - SumIn(rec, "REVERSAL", Open)
            BY <2>2, <2>6 DEF Allowed, reversible, SumOf, SumIn, Counted, Open
        <3> QED BY <1>0, <2>3, <2>4, <2>5, <2>6, <3>1 DEF ReversalsWithin
    <2>7. CASE kind # "REVERSAL"
        BY <1>0, <2>4, <2>5, <2>7 DEF ReversalsWithin
    <2> QED BY <2>6, <2>7
<1>4. ASSUME NEW d \in deciding, NEW status \in {"APPROVED", "REJECTED"}, mark(d, status), UNCHANGED receipt
      PROVE  ReversalsWithin'
    <2>1. PICK r \in Records :
               /\ d.on \in Requests /\ rec[d.on] \in Records /\ rec[d.on].status = "PROPOSED"
               /\ rec' = [rec EXCEPT ![d.on] = r] /\ r.kind = rec[d.on].kind /\ r.amount = rec[d.on].amount
        BY <1>4, Marked
    <2>2. SumIn(rec', "REVERSAL", Open) <= SumIn(rec, "REVERSAL", Open)
        BY <1>0, <2>1, SumDecided
    <2>3. SumIn(rec', "REVERSAL", Open) \in Nat
        <3>1. rec' \in [Requests -> Records \cup {NoRow}]
            BY <1>0, <2>1
        <3> QED BY <3>1, SumIsUnits
    <2> QED BY <1>0, <1>4, <2>2, <2>3 DEF ReversalsWithin
<1>5. CASE UNCHANGED vars
    BY <1>1, <1>5 DEF vars
<1> QED BY <1>1, <1>2, <1>3, <1>4, <1>5
        DEF Next, ReceiptStep, readRecord, approve, reject, giveUp, cancel, deskEnds, settle

\* A credit note is measured against what was refunded, a settlement refunds up to its terms.
LEMMA RefundsKept ==
    ASSUME TypeOK, DutyInv, RefundsWithin, [Next]_vars
    PROVE  RefundsWithin'
<1> USE RecordsConstantsOK DEF RecordsConstantsOK
<1>0. refunded \in Nat /\ booking.terms \in 0..Charge
    BY RefundedType DEF TypeOK
<1>1. CASE UNCHANGED <<ledger, booking>>
    BY <1>1 DEF RefundsWithin, refunded
<1>2. ASSUME NEW p \in People, post(p) PROVE RefundsWithin'
    <2>1. append(<<"funding", 0>>, "CREDIT", Paid) /\ UNCHANGED booking
        BY <1>2 DEF post
    <2>2. refunded' = refunded
        BY <1>0, <2>1, AppendRefunds
    <2> QED BY <2>1, <2>2 DEF RefundsWithin
<1>3. ASSUME NEW d \in deciding, approve(d) PROVE RefundsWithin'
    <2>1. /\ append(<<"record", d.on>>, EntryType(rec[d.on].kind), rec[d.on].amount)
          /\ Allowed(rec[d.on].kind, rec[d.on].amount, FALSE) /\ mark(d, "APPROVED") /\ UNCHANGED booking
        BY <1>3 DEF approve
    <2>2. rec[d.on].amount \in Nat /\ rec[d.on].kind \in RecordKinds
        BY <2>1, Marked DEF Records
    <2>3. refunded' = refunded + IF EntryType(rec[d.on].kind) = "REFUND" THEN rec[d.on].amount ELSE 0
        BY <2>1, <2>2, AppendRefunds
    <2>4. CASE rec[d.on].kind = "CREDIT_NOTE"
        <3>1. rec[d.on].amount <= IF refunded > Charge THEN 0 ELSE Charge - refunded
            BY <1>0, <2>1, <2>4 DEF Allowed, creditable
        <3>2. EntryType(rec[d.on].kind) = "REFUND"
            BY <2>4 DEF EntryType
        <3> QED BY <1>0, <2>1, <2>2, <2>3, <3>1, <3>2 DEF RefundsWithin
    <2>5. CASE rec[d.on].kind # "CREDIT_NOTE"
        <3>1. EntryType(rec[d.on].kind) # "REFUND"
            BY <2>2, <2>5 DEF EntryType, RecordKinds
        <3> QED BY <1>0, <2>1, <2>3, <3>1 DEF RefundsWithin
    <2> QED BY <2>4, <2>5
<1>4. CASE cancel
    BY <1>4 DEF cancel, RefundsWithin
<1>5. CASE deskEnds
    <2>1. UNCHANGED ledger /\ booking.status = "CONFIRMED"
        BY <1>5 DEF deskEnds
    <2>2. booking.by # "agent"
        BY <2>1 DEF DutyInv, Nobody
    <2> QED BY <2>1, <2>2 DEF RefundsWithin, refunded
<1>6. CASE settle
    <2>1. booking'.by = booking.by
        BY <1>6 DEF settle, TypeOK
    <2>2. CASE booking.terms > refunded
        <3>1. PICK key : append(key, "REFUND", booking.terms - refunded)
            BY <1>6, <2>2 DEF settle
        <3>2. booking.terms - refunded \in Nat
            BY <1>0, <2>2
        <3>3. refunded' = refunded + (booking.terms - refunded)
            BY <3>1, <3>2, AppendRefunds
        <3> QED BY <1>0, <3>3 DEF RefundsWithin
    <2>3. CASE UNCHANGED ledger
        BY <2>1, <2>3 DEF RefundsWithin, refunded
    <2> QED BY <1>6, <2>2, <2>3 DEF settle
<1>7. CASE UNCHANGED vars
    BY <1>1, <1>7 DEF vars
<1> QED BY <1>1, <1>2, <1>3, <1>4, <1>5, <1>6, <1>7
        DEF Next, declare, verify, clearCompliance, rejectReceipt, propose, readRecord, reject, giveUp

\* What is reversed of a receipt and refunded of a booking stays within what was paid and charged
\* (GivenBackWithinPaid), for every amount and however proposals, credit notes and settlements race.
THEOREM GivenBack == Spec => []GivenBackWithinPaid
<1>1. Init => GivenBackWithinPaid
    <2> SUFFICES ASSUME Init PROVE ReversalsWithin /\ RefundsWithin
        BY WithinParts
    <2>1. Counted(rec, "REVERSAL", Open) = {}
        BY DEF Init, Counted, Open, NoRow
    <2>2. SumIn(rec, "REVERSAL", Open) = 0
        BY <2>1, FS_EmptySet DEF SumIn
    <2>3. refunded = 0
        BY FS_EmptySet DEF Init, refunded, Total
    <2> QED BY <2>2, <2>3, RecordsConstantsOK DEF ReversalsWithin, RefundsWithin, RecordsConstantsOK
<1>2. TypeOK /\ DutyInv /\ GivenBackWithinPaid /\ [Next]_vars => GivenBackWithinPaid'
    <2>1. GivenBackWithinPaid' <=> ReversalsWithin' /\ RefundsWithin'
        BY DEF GivenBackWithinPaid, ReversalsWithin, RefundsWithin, SumOf, SumIn, Counted, Open
    <2> QED BY <2>1, WithinParts, ReversalsKept, RefundsKept
<1> QED BY <1>1, <1>2, DutyInvariance, PTL DEF Spec
=============================================================================
