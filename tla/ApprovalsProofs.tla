-------------------------- MODULE ApprovalsProofs --------------------------
(***************************************************************************)
(* What Approvals promises, for every number of people, requests, limits    *)
(* and concurrent calls.                                                    *)
(*                                                                         *)
(* TypeOK is the type invariant; StatusMovesForward follows from it alone.  *)
(* UseInv ties a call that executes to its row: the row is EXECUTED in the  *)
(* name of that call's person, no other call executes it, and its change    *)
(* has not been made.  LateInv follows a request that had lapsed when a     *)
(* call began: it stays in that call's list until its status has changed.   *)
(***************************************************************************)
EXTENDS Approvals, FiniteSetTheorems, TLAPS

Steps == {"expire", "open", "create", "decide", "claim", "run", "giveBack"}
Ops   == {"request", "approve", "reject", "cancel", "execute"}

Rows ==
    [status : Statuses, by : People, decidedBy : People \cup {Nobody}, executedBy : People \cup {Nobody},
     before : Limits, proposed : Limits, lapsed : BOOLEAN]

Working ==
    [at : Steps, op : Ops, by : People, on : Requests, todo : SUBSET (Requests \X OPEN), late : OPEN \cup {"none"},
     before : Limits \cup {NoLimit}, proposed : Limits \cup {NoLimit}]

TypeOK ==
    /\ row \in [Requests -> Rows \cup {NoRow}]
    /\ order \in Seq(Requests)
    /\ limit \in Limits
    /\ call \in [Calls -> Working \cup {Idle}]
    /\ \A c \in Calls : call[c].at \in {"open", "create"} => call[c].before \in Limits /\ call[c].proposed \in Limits
    /\ applied \in [Requests -> Nat]
    /\ lost \subseteq Requests /\ back \subseteq Requests

-----------------------------------------------------------------------------
(* Rows and calls as records.                                               *)

\* A call that stands at a step has named a request; an idle one stands nowhere.
LEMMA AtWork ==
    ASSUME TypeOK, NEW c \in Calls, call[c].at # "idle"
    PROVE  call[c] \in Working
BY DEF TypeOK, Idle

\* A row with a status exists.
LEMMA IsRow ==
    ASSUME TypeOK, NEW q \in Requests, row[q].status # "none" \/ row[q] # NoRow
    PROVE  row[q] \in Rows
BY DEF TypeOK, NoRow

\* A call that ends, and one that goes on.
LEMMA EndsType ==
    ASSUME TypeOK, NEW c \in Calls, Ends(c)
    PROVE  /\ call' \in [Calls -> Working \cup {Idle}]
           /\ \A d \in Calls : call'[d].at \in {"open", "create"} => call'[d].before \in Limits /\ call'[d].proposed \in Limits
BY DEF TypeOK, Ends, Idle

LEMMA GotoType ==
    ASSUME TypeOK, NEW c \in Calls, NEW pc \in Steps, call[c] \in Working, Goto(c, pc),
           pc \in {"open", "create"} => call[c].at \in {"open", "create"}
    PROVE  /\ call' \in [Calls -> Working \cup {Idle}]
           /\ \A d \in Calls : call'[d].at \in {"open", "create"} => call'[d].before \in Limits /\ call'[d].proposed \in Limits
<1>1. call'[c] = [call[c] EXCEPT !.at = pc] /\ \A d \in Calls \ {c} : call'[d] = call[d]
    BY DEF Goto, TypeOK
<1>2. call'[c] \in Working
    BY <1>1 DEF Working
<1>3. call' \in [Calls -> Working \cup {Idle}]
    BY <1>1, <1>2 DEF Goto, TypeOK
<1>4. ASSUME NEW d \in Calls, call'[d].at \in {"open", "create"}
      PROVE  call'[d].before \in Limits /\ call'[d].proposed \in Limits
    <2>1. CASE d = c
        BY <1>1, <1>4, <2>1 DEF Working, TypeOK
    <2>2. CASE d # c
        BY <1>1, <1>4, <2>2 DEF TypeOK
    <2> QED BY <2>1, <2>2
<1> QED BY <1>3, <1>4

\* The batch lists open rows with their status.
LEMMA BatchType == batch \in SUBSET (Requests \X OPEN)
<1> SUFFICES ASSUME NEW e \in batch PROVE e \in Requests \X OPEN
    OBVIOUS
<1>1. PICK q \in Lapsed : e = <<q, row[q].status>>
    BY DEF batch
<1> QED BY <1>1 DEF Lapsed

-----------------------------------------------------------------------------
LEMMA CallTypes ==
    ASSUME TypeOK, NEW c \in Calls,
           begin(c) \/ expireOne(c) \/ readLimit(c) \/ openFor(c) \/ create(c) \/ cancel(c) \/ readRow(c)
           \/ decide(c) \/ claim(c) \/ run(c) \/ giveBack(c) \/ crash(c)
    PROVE  /\ call' \in [Calls -> Working \cup {Idle}]
           /\ \A d \in Calls : call'[d].at \in {"open", "create"} => call'[d].before \in Limits /\ call'[d].proposed \in Limits
<1>1. CASE begin(c)
    <2>1. PICK p \in People, q \in Requests, op \in Ops :
            call' = [call EXCEPT ![c] =
                [at |-> "expire", op |-> op, by |-> p, on |-> q, todo |-> batch,
                 late |-> IF row[q].status \in OPEN /\ row[q].lapsed THEN row[q].status ELSE "none",
                 before |-> NoLimit, proposed |-> NoLimit]]
        BY <1>1 DEF begin, Ops
    <2>2. call'[c] \in Working /\ call'[c].at = "expire"
        BY <2>1, BatchType DEF Working, Steps, TypeOK
    <2>3. \A d \in Calls \ {c} : call'[d] = call[d]
        BY <2>1 DEF TypeOK
    <2> QED BY <2>1, <2>2, <2>3 DEF TypeOK
<1>2. CASE expireOne(c)
    <2>1. PICK e \in call[c].todo : call' = [call EXCEPT ![c].todo = @ \ {e}]
        BY <1>2 DEF expireOne
    <2>2. call[c] \in Working /\ call[c].at = "expire"
        BY <1>2, AtWork DEF expireOne
    <2>3. call'[c] = [call[c] EXCEPT !.todo = @ \ {e}] /\ \A d \in Calls \ {c} : call'[d] = call[d]
        BY <2>1 DEF TypeOK
    <2>4. call'[c] \in Working /\ call'[c].at = "expire"
        BY <2>2, <2>3 DEF Working
    <2> QED BY <2>1, <2>3, <2>4 DEF TypeOK
<1>3. CASE readLimit(c)
    <2>1. PICK v \in Limits : call' = [call EXCEPT ![c].at = "open", ![c].before = limit, ![c].proposed = v]
        BY <1>3 DEF readLimit
    <2>2. call[c] \in Working
        BY <1>3, AtWork DEF readLimit, Expired
    <2>3. /\ call'[c] = [call[c] EXCEPT !.at = "open", !.before = limit, !.proposed = v]
          /\ \A d \in Calls \ {c} : call'[d] = call[d]
        BY <2>1 DEF TypeOK
    <2>4. call'[c] \in Working /\ call'[c].before \in Limits /\ call'[c].proposed \in Limits
        BY <2>2, <2>3 DEF Working, Steps, TypeOK
    <2> QED BY <2>1, <2>3, <2>4 DEF TypeOK
<1>4. CASE openFor(c)
    <2>1. call[c] \in Working /\ call[c].at = "open"
        BY <1>4, AtWork DEF openFor
    <2>2. Ends(c) \/ Goto(c, "create")
        BY <1>4 DEF openFor
    <2> QED BY <2>1, <2>2, EndsType, GotoType DEF Steps
<1>5. CASE create(c) \/ cancel(c) \/ decide(c) \/ giveBack(c) \/ crash(c)
    BY <1>5, EndsType DEF create, cancel, decide, giveBack, crash
<1>6. CASE readRow(c) \/ claim(c) \/ run(c)
    <2>1. call[c] \in Working
        BY <1>6, AtWork DEF readRow, claim, run, Expired
    <2>2. Ends(c) \/ \E pc \in {"claim", "decide", "run", "giveBack"} : Goto(c, pc)
        BY <1>6 DEF readRow, claim, run
    <2> QED BY <2>1, <2>2, EndsType, GotoType DEF Steps
<1> QED BY <1>1, <1>2, <1>3, <1>4, <1>5, <1>6

-----------------------------------------------------------------------------
(* What a step may do to a row.                                             *)

Becomes(q, r) ==
    \/ row[q] = NoRow /\ r \in Rows /\ r.status = "PENDING"
    \/ row[q].status \in OPEN /\ r = [row[q] EXCEPT !.status = "EXPIRED", !.lapsed = FALSE]
    \/ row[q].status \in OPEN \cup {"EXECUTED"} /\ r = [row[q] EXCEPT !.lapsed = TRUE]
    \/ row[q].status = "PENDING" /\ r = [row[q] EXCEPT !.status = "CANCELLED", !.lapsed = FALSE]
    \/ /\ row[q].status = "PENDING"
       /\ \E status \in {"APPROVED", "REJECTED"}, p \in People \ {row[q].by} :
              r = [row[q] EXCEPT !.status = status, !.decidedBy = p, !.lapsed = FALSE]
    \/ row[q].status = "APPROVED" /\ \E p \in People : r = [row[q] EXCEPT !.status = "EXECUTED", !.executedBy = p]
    \/ row[q].status = "EXECUTED" /\ q \in back' /\ r = [row[q] EXCEPT !.status = "APPROVED", !.executedBy = Nobody]

RowStep == UNCHANGED row \/ \E q \in Requests : \E r : row' = [row EXCEPT ![q] = r] /\ Becomes(q, r)

\* A call that decides or executes has read a row, and one that decides not its requester's.
DeciderInv ==
    \A c \in Calls :
        /\ call[c].at \in {"decide", "claim", "run", "giveBack"} => row[call[c].on] # NoRow
        /\ call[c].at = "decide" => row[call[c].on].by # call[c].by

LEMMA StepOfCall ==
    ASSUME TypeOK, DeciderInv, NEW c \in Calls,
           begin(c) \/ expireOne(c) \/ readLimit(c) \/ openFor(c) \/ create(c) \/ cancel(c) \/ readRow(c)
           \/ decide(c) \/ claim(c) \/ run(c) \/ giveBack(c) \/ crash(c)
    PROVE  RowStep
<1>1. CASE begin(c) \/ readLimit(c) \/ openFor(c) \/ readRow(c) \/ run(c) \/ crash(c)
    BY <1>1 DEF begin, readLimit, openFor, readRow, run, crash, RowStep
<1>2. CASE expireOne(c)
    <2>1. PICK e \in call[c].todo :
              row' = IF StillAs(e) THEN [row EXCEPT ![e[1]].status = "EXPIRED", ![e[1]].lapsed = FALSE] ELSE row
        BY <1>2 DEF expireOne
    <2>2. e[1] \in Requests /\ e[2] \in OPEN
        BY <1>2, AtWork DEF expireOne, Working
    <2>3. CASE StillAs(e)
        <3>1. row' = [row EXCEPT ![e[1]] = [row[e[1]] EXCEPT !.status = "EXPIRED", !.lapsed = FALSE]]
            BY <2>1, <2>2, <2>3 DEF TypeOK
        <3>2. Becomes(e[1], [row[e[1]] EXCEPT !.status = "EXPIRED", !.lapsed = FALSE])
            BY <2>2, <2>3 DEF StillAs, Becomes
        <3> QED BY <2>2, <3>1, <3>2 DEF RowStep
    <2> QED BY <2>1, <2>3 DEF RowStep
<1>w. ASSUME call[c].at # "idle" PROVE call[c].on \in Requests /\ call[c].by \in People
    BY <1>w, AtWork DEF Working
<1> DEFINE q == call[c].on
<1>3. CASE create(c)
    <2>1. CASE row[q] = NoRow
        <3> DEFINE r == [status |-> "PENDING", by |-> call[c].by, decidedBy |-> Nobody, executedBy |-> Nobody,
                         before |-> call[c].before, proposed |-> call[c].proposed, lapsed |-> FALSE]
        <3>1. row' = [row EXCEPT ![q] = r]
            BY <1>3, <2>1 DEF create
        <3>2. r \in Rows /\ q \in Requests
            BY <1>3, <1>w DEF create, Rows, Statuses, TypeOK
        <3> HIDE DEF r
        <3>3. Becomes(q, r)
            <4>1. r.status = "PENDING"
                BY DEF r
            <4> QED BY <2>1, <3>2, <4>1 DEF Becomes
        <3> QED BY <3>1, <3>2, <3>3 DEF RowStep
    <2>2. CASE row[q] # NoRow
        BY <1>3, <2>2 DEF create, RowStep
    <2> QED BY <2>1, <2>2
<1>4. CASE cancel(c)
    <2>1. CASE row[q].by = call[c].by /\ row[q].status = "PENDING"
        <3>1. row' = [row EXCEPT ![q] = [row[q] EXCEPT !.status = "CANCELLED", !.lapsed = FALSE]]
            BY <1>4, <1>w, <2>1 DEF cancel, Expired, TypeOK
        <3>2. Becomes(q, [row[q] EXCEPT !.status = "CANCELLED", !.lapsed = FALSE])
            BY <2>1 DEF Becomes
        <3> QED BY <1>4, <1>w, <3>1, <3>2 DEF RowStep, cancel, Expired
    <2> QED BY <1>4, <2>1 DEF cancel, RowStep
<1>5. CASE decide(c)
    <2>1. CASE row[q].status = "PENDING"
        <3> DEFINE status == IF call[c].op = "approve" THEN "APPROVED" ELSE "REJECTED"
                   r == [row[q] EXCEPT !.status = status, !.decidedBy = call[c].by, !.lapsed = FALSE]
        <3>1. row' = [row EXCEPT ![q] = r]
            BY <1>5, <1>w, <2>1 DEF decide, TypeOK
        <3>2. Becomes(q, r)
            <4>1. status \in {"APPROVED", "REJECTED"} /\ call[c].by \in People \ {row[q].by}
                BY <1>5, <1>w DEF decide, DeciderInv
            <4> HIDE DEF status
            <4> QED BY <2>1, <4>1 DEF Becomes
        <3> QED BY <1>5, <1>w, <3>1, <3>2 DEF RowStep, decide
    <2> QED BY <1>5, <2>1 DEF decide, RowStep
<1>6. CASE claim(c)
    <2>1. CASE MayClaim(q)
        <3> DEFINE r == [row[q] EXCEPT !.status = "EXECUTED", !.executedBy = call[c].by]
        <3>1. row' = [row EXCEPT ![q] = r]
            BY <1>6, <1>w, <2>1 DEF claim, TypeOK
        <3>2. Becomes(q, r)
            BY <1>6, <1>w, <2>1 DEF claim, MayClaim, Becomes
        <3> QED BY <1>6, <1>w, <3>1, <3>2 DEF RowStep, claim
    <2> QED BY <1>6, <2>1 DEF claim, RowStep
<1>7. CASE giveBack(c)
    <2>1. CASE row[q].status = "EXECUTED" /\ row[q].executedBy = call[c].by
        <3> DEFINE r == [row[q] EXCEPT !.status = "APPROVED", !.executedBy = Nobody]
        <3>1. row' = [row EXCEPT ![q] = r]
            BY <1>7, <1>w, <2>1 DEF giveBack, TypeOK
        <3>2. Becomes(q, r)
            BY <1>7, <2>1 DEF giveBack, Becomes
        <3> QED BY <1>7, <1>w, <3>1, <3>2 DEF RowStep, giveBack
    <2> QED BY <1>7, <2>1 DEF giveBack, RowStep
<1> QED BY <1>1, <1>2, <1>3, <1>4, <1>5, <1>6, <1>7

LEMMA StepOfRow ==
    ASSUME TypeOK, DeciderInv, [Next]_vars
    PROVE  RowStep
<1>1. ASSUME NEW q \in Requests, lapse(q) PROVE RowStep
    <2>1. row' = [row EXCEPT ![q] = [row[q] EXCEPT !.lapsed = TRUE]]
        BY <1>1 DEF lapse, TypeOK
    <2>2. Becomes(q, [row[q] EXCEPT !.lapsed = TRUE])
        BY <1>1 DEF lapse, Becomes
    <2> QED BY <2>1, <2>2 DEF RowStep
<1>2. CASE UNCHANGED vars
    BY <1>2 DEF vars, RowStep
<1> QED BY <1>1, <1>2, StepOfCall DEF Next

\* A row stays a row, keeps its requester, and changes status only as Follows says.
LEMMA RowKept ==
    ASSUME TypeOK, RowStep
    PROVE  /\ row' \in [Requests -> Rows \cup {NoRow}]
           /\ \A q \in Requests : row[q] # NoRow => row'[q] # NoRow /\ row'[q].by = row[q].by
<1>1. CASE UNCHANGED row
    BY <1>1 DEF TypeOK
<1>2. ASSUME NEW q \in Requests, NEW r, row' = [row EXCEPT ![q] = r], Becomes(q, r)
      PROVE  /\ row' \in [Requests -> Rows \cup {NoRow}]
             /\ \A s \in Requests : row[s] # NoRow => row'[s] # NoRow /\ row'[s].by = row[s].by
    <2>1. CASE row[q] = NoRow
        <3>1. r \in Rows
            BY <1>2, <2>1 DEF Becomes, NoRow, OPEN
        <3> QED BY <1>2, <2>1, <3>1 DEF TypeOK
    <2>2. CASE row[q] # NoRow
        <3>1. row[q] \in Rows
            BY <2>2, IsRow
        <3>2. r \in Rows /\ r.by = row[q].by
            BY <1>2, <2>2, <3>1 DEF Becomes, Rows, Statuses
        <3>3. r # NoRow
            BY <3>2 DEF Rows, Statuses, NoRow
        <3> QED BY <1>2, <2>2, <3>2, <3>3 DEF TypeOK
    <2> QED BY <2>1, <2>2
<1> QED BY <1>1, <1>2 DEF RowStep

\* An id is listed once, and only when its row exists.
OrderInv ==
    /\ \A i \in DOMAIN order : row[order[i]] # NoRow
    /\ \A i, j \in DOMAIN order : order[i] = order[j] => i = j

BaseInv == TypeOK /\ DeciderInv /\ OrderInv

LEMMA OrderKept ==
    ASSUME BaseInv, [Next]_vars, RowStep
    PROVE  order' \in Seq(Requests) /\ OrderInv'
<1>1. \A q \in Requests : row[q] # NoRow => row'[q] # NoRow
    BY RowKept DEF BaseInv
<1>2. CASE UNCHANGED order
    BY <1>1, <1>2 DEF BaseInv, TypeOK, OrderInv
<1>3. ASSUME NEW c \in Calls, create(c), row[call[c].on] = NoRow
      PROVE  order' \in Seq(Requests) /\ OrderInv'
    <2> DEFINE q == call[c].on
    <2>1. q \in Requests /\ order \in Seq(Requests)
        BY <1>3, AtWork DEF create, Working, BaseInv, TypeOK
    <2>2. order' = Append(order, q) /\ row'[q] # NoRow
        BY <1>3, <2>1 DEF create, NoRow, BaseInv, TypeOK
    <2>3. /\ DOMAIN order' = 1..(Len(order) + 1) /\ DOMAIN order = 1..Len(order) /\ Len(order) \in Nat
          /\ order'[Len(order) + 1] = q
          /\ \A i \in 1..Len(order) : order'[i] = order[i] /\ order[i] # q /\ order[i] \in Requests
        BY <1>3, <2>1, <2>2 DEF BaseInv, OrderInv
    <2>4. order' \in Seq(Requests)
        BY <2>1, <2>2
    <2>5. \A i \in DOMAIN order' : row'[order'[i]] # NoRow
        BY <1>1, <2>2, <2>3 DEF BaseInv, OrderInv
    <2>6. \A i, j \in DOMAIN order' : order'[i] = order'[j] => i = j
        BY <2>3 DEF BaseInv, OrderInv
    <2> QED BY <2>4, <2>5, <2>6 DEF OrderInv
<1>4. UNCHANGED order \/ \E c \in Calls : create(c) /\ row[call[c].on] = NoRow
    BY DEF Next, vars, begin, expireOne, readLimit, openFor, create, cancel, readRow, decide, claim, run, giveBack,
           crash, lapse
<1> QED BY <1>2, <1>3, <1>4

\* A step that changes a call is a step of that call.
LEMMA StepOf ==
    ASSUME TypeOK, [Next]_vars, NEW c \in Calls
    PROVE  \/ call'[c] = call[c]
           \/ begin(c) \/ expireOne(c) \/ readLimit(c) \/ openFor(c) \/ create(c) \/ cancel(c) \/ readRow(c)
           \/ decide(c) \/ claim(c) \/ run(c) \/ giveBack(c) \/ crash(c)
<1>1. ASSUME NEW d \in Calls, d # c,
             \/ begin(d) \/ expireOne(d) \/ readLimit(d) \/ openFor(d) \/ create(d) \/ cancel(d) \/ readRow(d)
             \/ decide(d) \/ claim(d) \/ run(d) \/ giveBack(d) \/ crash(d)
      PROVE  call'[c] = call[c]
    BY <1>1 DEF begin, expireOne, readLimit, openFor, create, cancel, readRow, decide, claim, run, giveBack,
                crash, Goto, Ends, TypeOK
<1>2. CASE UNCHANGED call
    BY <1>2
<1> QED BY <1>1, <1>2 DEF Next, vars, lapse

\* Who comes to decide has just read the row of somebody else.
LEMMA DeciderKept ==
    ASSUME BaseInv, [Next]_vars, RowStep
    PROVE  DeciderInv'
<1> SUFFICES ASSUME NEW c \in Calls, call'[c].at \in {"decide", "claim", "run", "giveBack"}
             PROVE  /\ row'[call'[c].on] # NoRow
                    /\ call'[c].at = "decide" => row'[call'[c].on].by # call'[c].by
    BY DEF DeciderInv
<1>1. \A q \in Requests : row[q] # NoRow => row'[q] # NoRow /\ row'[q].by = row[q].by
    BY RowKept DEF BaseInv
<1>2. CASE call'[c] = call[c]
    <2>1. call[c].on \in Requests
        BY <1>2, AtWork DEF Working, BaseInv
    <2> QED BY <1>1, <1>2, <2>1 DEF BaseInv, DeciderInv
<1>3. CASE readRow(c)
    <2>1. call[c] \in Working
        BY <1>3, AtWork DEF readRow, Expired, BaseInv
    <2>2. \/ Goto(c, "decide") /\ row[call[c].on].by # call[c].by /\ row[call[c].on].status = "PENDING"
          \/ Goto(c, "claim") /\ row[call[c].on].status = "APPROVED"
        BY <1>3, <2>1 DEF readRow, Ends, Idle, BaseInv, TypeOK, Working
    <2>3. /\ call'[c].on = call[c].on /\ call'[c].by = call[c].by /\ call[c].on \in Requests
          /\ call'[c].at = "decide" => row[call[c].on].by # call[c].by
        BY <2>1, <2>2 DEF Goto, Working, BaseInv, TypeOK
    <2>4. row[call[c].on] # NoRow
        BY <2>2 DEF NoRow
    <2> QED BY <1>1, <2>3, <2>4
<1>4. \/ call'[c] = call[c] \/ readRow(c)
      \/ begin(c) \/ expireOne(c) \/ readLimit(c) \/ openFor(c) \/ create(c) \/ cancel(c)
      \/ decide(c) \/ claim(c) \/ run(c) \/ giveBack(c) \/ crash(c)
    BY StepOf DEF BaseInv
<1>5. CASE begin(c) \/ expireOne(c) \/ readLimit(c)
    <2>1. call'[c].at \in {"expire", "open"}
        <3>1. CASE begin(c)
            BY <3>1 DEF begin, BaseInv, TypeOK
        <3>2. CASE expireOne(c)
            <4>1. call[c] \in Working /\ call[c].at = "expire"
                BY <3>2, AtWork DEF expireOne, BaseInv
            <4> QED BY <3>2, <4>1 DEF expireOne, BaseInv, TypeOK, Working
        <3>3. CASE readLimit(c)
            <4>1. call[c] \in Working
                BY <3>3, AtWork DEF readLimit, Expired, BaseInv
            <4> QED BY <3>3, <4>1 DEF readLimit, BaseInv, TypeOK, Working
        <3> QED BY <1>5, <3>1, <3>2, <3>3
    <2> QED BY <2>1
<1>6. CASE openFor(c) \/ claim(c) \/ run(c)
    <2>1. call[c] \in Working
        BY <1>6, AtWork DEF openFor, claim, run, BaseInv
    <2>2. \/ Ends(c) \/ Goto(c, "create")
          \/ call[c].at \in {"claim", "run"} /\ (Goto(c, "run") \/ Goto(c, "giveBack"))
        BY <1>6 DEF openFor, claim, run
    <2>3. /\ call[c].at \in {"claim", "run"} /\ call'[c].at # "decide"
          /\ call'[c].on = call[c].on /\ call[c].on \in Requests
        BY <2>1, <2>2 DEF Ends, Goto, Idle, BaseInv, TypeOK, Working
    <2> QED BY <1>1, <2>3 DEF BaseInv, DeciderInv
<1>7. CASE create(c) \/ cancel(c) \/ decide(c) \/ giveBack(c) \/ crash(c)
    BY <1>7 DEF create, cancel, decide, giveBack, crash, Ends, Idle, BaseInv, TypeOK
<1> QED BY <1>2, <1>3, <1>4, <1>5, <1>6, <1>7

\* The variables have their types, ids are listed once, and nobody decides on a request of their own.
THEOREM BaseInvariance == Spec => []BaseInv
<1>1. Init => BaseInv
    <2> SUFFICES ASSUME Init PROVE BaseInv
        OBVIOUS
    <2>1. /\ \A c \in Calls : call[c].at = "idle"
          /\ DOMAIN order = {}
        BY DEF Init, Idle
    <2>2. DeciderInv /\ OrderInv
        BY <2>1 DEF DeciderInv, OrderInv
    <2>3. TypeOK
        BY <2>1 DEF Init, TypeOK
    <2> QED BY <2>2, <2>3 DEF BaseInv
<1>2. BaseInv /\ [Next]_vars => BaseInv'
    <2> SUFFICES ASSUME BaseInv, [Next]_vars PROVE BaseInv'
        OBVIOUS
    <2>1. RowStep
        BY StepOfRow DEF BaseInv
    <2>2. row' \in [Requests -> Rows \cup {NoRow}]
        BY <2>1, RowKept DEF BaseInv
    <2>3. order' \in Seq(Requests) /\ OrderInv'
        BY <2>1, OrderKept
    <2>4. DeciderInv'
        BY <2>1, DeciderKept
    <2>5. /\ call' \in [Calls -> Working \cup {Idle}]
          /\ \A c \in Calls : call'[c].at \in {"open", "create"} => call'[c].before \in Limits /\ call'[c].proposed \in Limits
        <3>1. CASE UNCHANGED call
            BY <3>1 DEF BaseInv, TypeOK
        <3> QED BY <3>1, CallTypes DEF Next, vars, lapse, BaseInv
    <2>6. limit' \in Limits /\ applied' \in [Requests -> Nat] /\ lost' \subseteq Requests /\ back' \subseteq Requests
        <3>1. CASE UNCHANGED <<limit, applied, lost, back>>
            BY <3>1 DEF BaseInv, TypeOK
        <3>2. ASSUME NEW c \in Calls, run(c) \/ giveBack(c) \/ crash(c)
              PROVE  limit' \in Limits /\ applied' \in [Requests -> Nat] /\ lost' \subseteq Requests /\ back' \subseteq Requests
            <4>1. call[c] \in Working \/ crash(c)
                BY <3>2, AtWork DEF run, giveBack, BaseInv
            <4>2. CASE run(c)
                <5>1. call[c].on \in Requests
                    BY <4>2, AtWork DEF run, Working, BaseInv
                <5>2. CASE limit' = row[call[c].on].proposed /\ applied' = [applied EXCEPT ![call[c].on] = @ + 1]
                    <6>1. row[call[c].on] \in Rows
                        BY <4>2, <5>1, IsRow DEF run, BaseInv, DeciderInv
                    <6> QED BY <4>2, <5>1, <5>2, <6>1 DEF run, Rows, BaseInv, TypeOK
                <5> QED BY <4>2, <5>2 DEF run, BaseInv, TypeOK
            <4>3. CASE giveBack(c)
                BY <4>3, AtWork DEF giveBack, Working, BaseInv, TypeOK
            <4>4. CASE crash(c)
                BY <4>4, AtWork DEF crash, Working, BaseInv, TypeOK
            <4> QED BY <3>2, <4>2, <4>3, <4>4
        <3> QED BY <3>1, <3>2 DEF Next, vars, histVars, begin, expireOne, readLimit, openFor, create, cancel, readRow,
                                   decide, claim, lapse
    <2> QED BY <2>2, <2>3, <2>4, <2>5, <2>6 DEF BaseInv, TypeOK
<1> QED BY <1>1, <1>2, PTL DEF Spec

\* How the status of a request may change in a step.
Forward(q) ==
    /\ row'[q].status # row[q].status => row'[q].status \in Follows[row[q].status]
    /\ row[q].status = "EXECUTED" /\ row'[q].status = "APPROVED" => q \in back'

LEMMA StatusStep ==
    ASSUME BaseInv, [Next]_vars, NEW q \in Requests
    PROVE  Forward(q)
<1> USE DEF Forward
<1>1. CASE row'[q] = row[q]
    BY <1>1
<1>2. ASSUME NEW r, row'[q] = r, Becomes(q, r)
      PROVE  Forward(q)
    <2>1. CASE row[q] = NoRow
        BY <1>2, <2>1 DEF Becomes, NoRow, OPEN, Follows
    <2>2. CASE row[q] # NoRow
        <3>1. row[q] \in Rows
            BY <2>2, IsRow DEF BaseInv
        <3>2. CASE row[q].status = "PENDING"
            <4>1. r.status \in {"EXPIRED", "PENDING", "CANCELLED", "APPROVED", "REJECTED"}
                BY <1>2, <2>2, <3>1, <3>2 DEF Becomes, Rows
            <4> QED BY <1>2, <3>2, <4>1 DEF Follows
        <3>3. CASE row[q].status = "APPROVED"
            <4>1. r.status \in {"EXPIRED", "APPROVED", "EXECUTED"}
                BY <1>2, <2>2, <3>1, <3>3 DEF Becomes, Rows
            <4> QED BY <1>2, <3>3, <4>1 DEF Follows
        <3>4. CASE row[q].status = "EXECUTED"
            <4>1. r.status = "EXECUTED" \/ (r.status = "APPROVED" /\ q \in back')
                BY <1>2, <2>2, <3>1, <3>4 DEF Becomes, Rows, OPEN
            <4> QED BY <1>2, <3>4, <4>1 DEF Follows
        <3>5. CASE row[q].status \notin {"PENDING", "APPROVED", "EXECUTED"}
            BY <1>2, <2>2, <3>5 DEF Becomes, OPEN
        <3> QED BY <3>2, <3>3, <3>4, <3>5
    <2> QED BY <2>1, <2>2
<1>3. RowStep
    BY StepOfRow DEF BaseInv
<1>4. row'[q] = row[q] \/ \E r : row'[q] = r /\ Becomes(q, r)
    BY <1>3 DEF RowStep, BaseInv, TypeOK
<1> QED BY <1>1, <1>2, <1>4

\* The status of a request only moves forward (StatusMovesForward): no expiry overwrites a decision or an
\* execution, and an executed request becomes approved again only by its claim being given back.
THEOREM MovesForward == Spec => StatusMovesForward
<1>1. BaseInv /\ [Next]_vars => [\A q \in Requests : Forward(q)]_vars
    BY StatusStep
<1> QED BY <1>1, BaseInvariance, PTL DEF Spec, StatusMovesForward, Forward

-----------------------------------------------------------------------------
(* An approval is used up exactly when its change was made.                 *)

Uses(c) == call[c].at \in {"run", "giveBack"}

\* Who executes holds the claim, alone, and has not made the change.
ClaimInv ==
    /\ \A c \in Calls : Uses(c) =>
           LET q == call[c].on
           IN  row[q].status = "EXECUTED" /\ row[q].executedBy = call[c].by /\ applied[q] = 0
    /\ \A c, d \in Calls : Uses(c) /\ Uses(d) /\ call[c].on = call[d].on => c = d

\* A change was made once, for a row that is used up; a row that is used up and in nobody's hands had it made.
AppliedInv ==
    \A q \in Requests :
        /\ applied[q] \in {0, 1}
        /\ applied[q] = 1 => row[q].status = "EXECUTED"
        /\ row[q].status = "EXECUTED" /\ ~Executing(q) /\ q \notin lost => applied[q] = 1

\* Who approved was somebody other than the requester.
ApproverInv ==
    \A q \in Requests : row[q].status \in {"APPROVED", "EXECUTED"} => row[q].decidedBy \notin {Nobody, row[q].by}

UseInv == ClaimInv /\ AppliedInv /\ ApproverInv

LEMMA ApproverKept ==
    ASSUME BaseInv, ApproverInv, RowStep
    PROVE  ApproverInv'
<1> SUFFICES ASSUME NEW q \in Requests, row'[q].status \in {"APPROVED", "EXECUTED"}
             PROVE  row'[q].decidedBy \notin {Nobody, row'[q].by}
    BY DEF ApproverInv
<1>1. CASE row'[q] = row[q]
    BY <1>1 DEF ApproverInv
<1>2. ASSUME NEW r, row'[q] = r, Becomes(q, r)
      PROVE  row'[q].decidedBy \notin {Nobody, row'[q].by}
    <2>1. CASE row[q] = NoRow
        BY <1>2, <2>1 DEF Becomes, NoRow, OPEN
    <2>2. CASE row[q] # NoRow
        <3>1. row[q] \in Rows
            BY <2>2, IsRow DEF BaseInv
        <3>2. r.by = row[q].by
            BY <1>2, <2>2, <3>1 DEF Becomes, Rows
        <3>3. \/ row[q].status \in {"APPROVED", "EXECUTED"} /\ r.decidedBy = row[q].decidedBy
              \/ r.decidedBy \in People \ {row[q].by}
            BY <1>2, <2>2, <3>1 DEF Becomes, Rows, OPEN
        <3> QED BY <1>2, <3>2, <3>3, ApprovalsConstantsOK DEF ApproverInv, ApprovalsConstantsOK
    <2> QED BY <2>1, <2>2
<1>3. row'[q] = row[q] \/ \E r : row'[q] = r /\ Becomes(q, r)
    BY DEF RowStep, BaseInv, TypeOK
<1> QED BY <1>1, <1>2, <1>3

\* A step that takes, makes and gives back no claim.
Quiet ==
    /\ \A c \in Calls : (Uses(c)' <=> Uses(c)) /\ (Uses(c) => call'[c].on = call[c].on /\ call'[c].by = call[c].by)
    /\ \A q \in Requests :
           /\ row'[q].status = "EXECUTED" <=> row[q].status = "EXECUTED"
           /\ row[q].status = "EXECUTED" => row'[q].executedBy = row[q].executedBy
    /\ UNCHANGED <<applied, lost>>

LEMMA QuietKeeps ==
    ASSUME BaseInv, ClaimInv, AppliedInv, Quiet
    PROVE  ClaimInv' /\ AppliedInv'
<1>1. \A c \in Calls : Uses(c) => call[c].on \in Requests
    BY AtWork DEF Uses, Working, BaseInv
<1>2. \A q \in Requests : Executing(q)' <=> Executing(q)
    BY DEF Quiet, Executing, Uses
<1>3. ClaimInv'
    BY <1>1 DEF Quiet, ClaimInv
<1>4. AppliedInv'
    BY <1>2 DEF Quiet, AppliedInv
<1> QED BY <1>3, <1>4

\* The calls of a step of c that neither begins nor ends an execution.
LEMMA QuietCalls ==
    ASSUME BaseInv, NEW c \in Calls, ~Uses(c),
           \/ begin(c) \/ expireOne(c) \/ readLimit(c) \/ openFor(c) \/ readRow(c) \/ Ends(c)
    PROVE  \A d \in Calls : (Uses(d)' <=> Uses(d)) /\ (Uses(d) => call'[d].on = call[d].on /\ call'[d].by = call[d].by)
<1>1. \A d \in Calls \ {c} : call'[d] = call[d]
    BY DEF begin, expireOne, readLimit, openFor, readRow, Ends, Goto, BaseInv, TypeOK
<1>2. ~Uses(c)'
    <2>1. CASE begin(c)
        BY <2>1 DEF begin, Uses, BaseInv, TypeOK
    <2>2. CASE expireOne(c) \/ readLimit(c) \/ openFor(c) \/ readRow(c)
        <3>1. call[c] \in Working
            BY <2>2, AtWork DEF expireOne, readLimit, openFor, readRow, Expired, BaseInv
        <3>2. CASE expireOne(c)
            BY <3>1, <3>2 DEF expireOne, Uses, BaseInv, TypeOK, Working
        <3>3. CASE readLimit(c)
            <4>1. PICK v \in Limits : call' = [call EXCEPT ![c].at = "open", ![c].before = limit, ![c].proposed = v]
                BY <3>3 DEF readLimit
            <4> QED BY <3>1, <4>1 DEF Uses, BaseInv, TypeOK, Working
        <3>4. CASE Ends(c) \/ Goto(c, "create") \/ Goto(c, "claim") \/ Goto(c, "decide")
            BY <3>1, <3>4 DEF Ends, Goto, Idle, Uses, BaseInv, TypeOK, Working
        <3> QED BY <2>2, <3>2, <3>3, <3>4 DEF openFor, readRow
    <2>3. CASE Ends(c)
        BY <2>3 DEF Ends, Idle, Uses, BaseInv, TypeOK
    <2> QED BY <2>1, <2>2, <2>3
<1> QED BY <1>1, <1>2 DEF Uses

\* The rows of a step that claims and gives back nothing.
QuietRows ==
    \A q \in Requests :
        /\ row'[q].status = "EXECUTED" <=> row[q].status = "EXECUTED"
        /\ row[q].status = "EXECUTED" => row'[q].executedBy = row[q].executedBy

LEMMA QuietRow ==
    ASSUME BaseInv, NEW q \in Requests, NEW r, row' = [row EXCEPT ![q] = r],
           row[q].status # "EXECUTED", r.status # "EXECUTED"
    PROVE  QuietRows
BY DEF BaseInv, TypeOK, QuietRows

LEMMA QuietStep ==
    ASSUME BaseInv, NEW c \in Calls,
           \/ begin(c) \/ expireOne(c) \/ readLimit(c) \/ openFor(c) \/ create(c) \/ cancel(c) \/ readRow(c) \/ decide(c)
    PROVE  Quiet
<1>1. ~Uses(c)
    BY DEF begin, expireOne, readLimit, openFor, create, cancel, readRow, decide, Uses, Expired, Idle
<1>2. \A d \in Calls : (Uses(d)' <=> Uses(d)) /\ (Uses(d) => call'[d].on = call[d].on /\ call'[d].by = call[d].by)
    BY <1>1, QuietCalls DEF create, cancel, decide
<1>3. UNCHANGED <<applied, lost>>
    BY DEF begin, expireOne, readLimit, openFor, create, cancel, readRow, decide, histVars
<1>4. QuietRows
    <2>1. CASE UNCHANGED row
        BY <2>1 DEF QuietRows
    <2>2. CASE expireOne(c)
        <3>1. PICK e \in call[c].todo :
                  row' = IF StillAs(e) THEN [row EXCEPT ![e[1]].status = "EXPIRED", ![e[1]].lapsed = FALSE] ELSE row
            BY <2>2 DEF expireOne
        <3>2. e[1] \in Requests /\ e[2] \in OPEN
            BY <2>2, AtWork DEF expireOne, Working, BaseInv
        <3>3. CASE StillAs(e)
            <4>1. row' = [row EXCEPT ![e[1]] = [row[e[1]] EXCEPT !.status = "EXPIRED", !.lapsed = FALSE]]
                BY <3>1, <3>2, <3>3 DEF BaseInv, TypeOK
            <4>2. row[e[1]] \in Rows /\ row[e[1]].status \in OPEN
                BY <3>2, <3>3, IsRow DEF StillAs, BaseInv, OPEN
            <4>3. [row[e[1]] EXCEPT !.status = "EXPIRED", !.lapsed = FALSE].status = "EXPIRED"
                BY <4>2 DEF Rows
            <4> QED BY <3>2, <4>1, <4>2, <4>3, QuietRow DEF OPEN
        <3> QED BY <2>1, <3>1, <3>3
    <2>w. ASSUME call[c].at # "idle" PROVE call[c].on \in Requests
        BY <2>w, AtWork DEF Working, BaseInv
    <2> DEFINE q == call[c].on
    <2>3. CASE create(c) /\ row[q] = NoRow
        <3>1. q \in Requests
            BY <2>3, <2>w DEF create
        <3>2. PICK r : row' = [row EXCEPT ![q] = r] /\ r.status = "PENDING"
            BY <2>3 DEF create
        <3>3. row[q].status # "EXECUTED"
            BY <2>3 DEF NoRow
        <3> HIDE DEF q
        <3> QED BY <3>1, <3>2, <3>3, QuietRow
    <2>4. CASE (cancel(c) \/ decide(c)) /\ row[q].status = "PENDING"
        <3>1. q \in Requests
            BY <2>4, <2>w DEF cancel, decide, Expired
        <3>2. row[q] \in Rows
            BY <2>4, <3>1, IsRow DEF BaseInv
        <3>3. \/ UNCHANGED row
              \/ row' = [row EXCEPT ![q] = [row[q] EXCEPT !.status = "CANCELLED", !.lapsed = FALSE]]
              \/ \E status \in {"APPROVED", "REJECTED"} :
                     row' = [row EXCEPT ![q] = [row[q] EXCEPT !.status = status, !.decidedBy = call[c].by, !.lapsed = FALSE]]
            BY <2>4, <3>1 DEF cancel, decide, BaseInv, TypeOK
        <3> HIDE DEF q
        <3>4. CASE row' = [row EXCEPT ![q] = [row[q] EXCEPT !.status = "CANCELLED", !.lapsed = FALSE]]
            <4>1. [row[q] EXCEPT !.status = "CANCELLED", !.lapsed = FALSE].status = "CANCELLED"
                BY <3>2 DEF Rows
            <4> QED BY <2>4, <3>1, <3>4, <4>1, QuietRow
        <3>5. ASSUME NEW status \in {"APPROVED", "REJECTED"},
                     row' = [row EXCEPT ![q] = [row[q] EXCEPT !.status = status, !.decidedBy = call[c].by, !.lapsed = FALSE]]
              PROVE  QuietRows
            <4>1. [row[q] EXCEPT !.status = status, !.decidedBy = call[c].by, !.lapsed = FALSE].status = status
                BY <3>2 DEF Rows
            <4> QED BY <2>4, <3>1, <3>5, <4>1, QuietRow
        <3> QED BY <2>1, <3>3, <3>4, <3>5
    <2> QED BY <2>1, <2>2, <2>3, <2>4 DEF begin, readLimit, openFor, create, cancel, readRow, decide
<1> QED BY <1>2, <1>3, <1>4 DEF Quiet, QuietRows

LEMMA ClaimStep ==
    ASSUME BaseInv, ClaimInv, AppliedInv, NEW c \in Calls, claim(c)
    PROVE  ClaimInv' /\ AppliedInv'
<1>q. PICK q : q = call[c].on
    OBVIOUS
<1>1. call[c] \in Working /\ ~Uses(c) /\ q \in Requests
    BY <1>q, AtWork DEF claim, Uses, Working, BaseInv
<1>2. CASE ~MayClaim(q)
    <2>1. Ends(c) /\ UNCHANGED <<row, applied, lost>>
        BY <1>q, <1>2 DEF claim, histVars
    <2> QED BY <1>1, <2>1, QuietCalls, QuietKeeps DEF Quiet
<1>3. CASE MayClaim(q)
    <2>1. row[q] \in Rows /\ row[q].status = "APPROVED"
        BY <1>1, <1>3, IsRow DEF MayClaim, BaseInv
    <2>2. /\ row'[q].status = "EXECUTED" /\ row'[q].executedBy = call[c].by
          /\ \A s \in Requests \ {q} : row'[s] = row[s]
          /\ UNCHANGED <<applied, lost>>
        BY <1>q, <1>1, <1>3, <2>1 DEF claim, BaseInv, TypeOK, Rows, histVars
    <2>3. /\ Uses(c)' /\ call'[c].on = q /\ call'[c].by = call[c].by
          /\ \A d \in Calls \ {c} : call'[d] = call[d]
        BY <1>q, <1>1, <1>3 DEF claim, Goto, BaseInv, TypeOK, Working, Uses
    <2>4. \A d \in Calls : Uses(d) => call[d].on \in Requests \ {q}
        BY <2>1, AtWork DEF Uses, Working, BaseInv, ClaimInv
    <2>5. applied[q] = 0
        BY <1>1, <2>1 DEF AppliedInv
    <2>6. \A d \in Calls \ {c} : Uses(d)' <=> Uses(d)
        BY <2>3 DEF Uses
    <2>7. ClaimInv'
        <3>1. ASSUME NEW d \in Calls, Uses(d)'
              PROVE  /\ row'[call'[d].on].status = "EXECUTED" /\ row'[call'[d].on].executedBy = call'[d].by
                     /\ applied'[call'[d].on] = 0
            BY <2>2, <2>3, <2>4, <2>5, <2>6, <3>1 DEF ClaimInv
        <3>2. ASSUME NEW d \in Calls, NEW e \in Calls, Uses(d)', Uses(e)', call'[d].on = call'[e].on
              PROVE  d = e
            BY <2>3, <2>4, <2>6, <3>2 DEF ClaimInv
        <3> QED BY <3>1, <3>2 DEF ClaimInv
    <2>8. AppliedInv'
        <3>1. Executing(q)'
            BY <2>3 DEF Executing, Uses
        <3>2. \A s \in Requests \ {q} : Executing(s)' <=> Executing(s)
            BY <1>q, <1>1, <2>3, <2>6 DEF Executing, Uses
        <3> QED BY <2>2, <2>5, <3>1, <3>2 DEF AppliedInv
    <2> QED BY <2>7, <2>8
<1> QED BY <1>2, <1>3

\* A call that executed ends: its row may change, no other call executes it.
LEMMA UseEnds ==
    ASSUME BaseInv, ClaimInv, NEW c \in Calls, NEW q, q = call[c].on, Uses(c), Ends(c)
    PROVE  /\ \A d \in Calls : Uses(d)' <=> Uses(d) /\ d # c
           /\ \A d \in Calls \ {c} : call'[d] = call[d] /\ (Uses(d) => call[d].on \in Requests \ {q})
           /\ ~Executing(q)'
           /\ \A s \in Requests \ {q} : Executing(s)' <=> Executing(s)
<1>1. \A d \in Calls \ {c} : call'[d] = call[d] /\ (Uses(d) => call[d].on \in Requests \ {q})
    BY AtWork DEF Ends, BaseInv, TypeOK, ClaimInv, Uses, Working
<1>2. ~Uses(c)'
    BY DEF Ends, Uses, Idle, BaseInv, TypeOK
<1>3. \A d \in Calls : Uses(d)' <=> Uses(d) /\ d # c
    BY <1>1, <1>2 DEF Uses
<1>4. ~Executing(q)'
    BY <1>1, <1>3 DEF Executing, Uses
<1>5. \A s \in Requests \ {q} : Executing(s)' <=> Executing(s)
    BY <1>1, <1>3 DEF Executing, Uses
<1> QED BY <1>1, <1>3, <1>4, <1>5

LEMMA RunStep ==
    ASSUME "reply" \notin Faults, BaseInv, ClaimInv, AppliedInv, NEW c \in Calls, run(c)
    PROVE  ClaimInv' /\ AppliedInv'
<1>q. PICK q : q = call[c].on
    OBVIOUS
<1>1. call[c] \in Working /\ Uses(c) /\ q \in Requests
    BY <1>q, AtWork DEF run, Uses, Working, BaseInv
<1>2. CASE Goto(c, "giveBack") /\ UNCHANGED <<limit, applied>>
    <2>1. \A d \in Calls : (Uses(d)' <=> Uses(d)) /\ (Uses(d) => call'[d].on = call[d].on /\ call'[d].by = call[d].by)
        BY <1>1, <1>2 DEF Goto, Uses, BaseInv, TypeOK, Working
    <2>2. UNCHANGED <<row, applied, lost>>
        BY <1>2 DEF run
    <2> QED BY <2>1, <2>2, QuietKeeps DEF Quiet
<1>3. CASE applied' = [applied EXCEPT ![q] = @ + 1] /\ Ends(c)
    <2>1. /\ applied[q] = 0 /\ applied'[q] = 1 /\ row[q].status = "EXECUTED"
          /\ \A s \in Requests \ {q} : applied'[s] = applied[s]
        BY <1>q, <1>1, <1>3 DEF ClaimInv, BaseInv, TypeOK
    <2>2. UNCHANGED <<row, lost>>
        BY DEF run
    <2>3. ClaimInv'
        BY <1>1, <1>3, <2>1, <2>2, <1>q, UseEnds DEF ClaimInv
    <2>4. AppliedInv'
        BY <1>1, <1>3, <2>1, <2>2, <1>q, UseEnds DEF AppliedInv
    <2> QED BY <2>3, <2>4
<1> QED BY <1>q, <1>2, <1>3 DEF run

LEMMA GiveBackStep ==
    ASSUME BaseInv, ClaimInv, AppliedInv, NEW c \in Calls, giveBack(c)
    PROVE  ClaimInv' /\ AppliedInv'
<1>q. PICK q : q = call[c].on
    OBVIOUS
<1>1. call[c] \in Working /\ Uses(c) /\ q \in Requests /\ Ends(c) /\ UNCHANGED <<applied, lost>>
    BY <1>q, AtWork DEF giveBack, Uses, Working, BaseInv
<1>2. row[q].status = "EXECUTED" /\ row[q].executedBy = call[c].by /\ applied[q] = 0
    BY <1>q, <1>1 DEF ClaimInv
<1>3. row[q] \in Rows
    BY <1>1, <1>2, IsRow DEF BaseInv
<1>4. row'[q].status = "APPROVED" /\ \A s \in Requests \ {q} : row'[s] = row[s]
    BY <1>1, <1>2, <1>3, <1>q DEF giveBack, BaseInv, TypeOK, Rows
<1>5. ClaimInv'
    BY <1>1, <1>4, <1>q, UseEnds DEF ClaimInv
<1>6. AppliedInv'
    BY <1>1, <1>2, <1>4, <1>q, UseEnds DEF AppliedInv
<1> QED BY <1>5, <1>6

LEMMA CrashStep ==
    ASSUME BaseInv, ClaimInv, AppliedInv, NEW c \in Calls, crash(c)
    PROVE  ClaimInv' /\ AppliedInv'
<1>1. Ends(c) /\ UNCHANGED <<row, applied>>
    BY DEF crash
<1>2. CASE ~Uses(c)
    <2>1. UNCHANGED lost
        BY <1>2 DEF crash, Uses
    <2> QED BY <1>1, <1>2, <2>1, QuietCalls, QuietKeeps DEF Quiet
<1>3. CASE Uses(c)
    <2>q. PICK q : q = call[c].on
        OBVIOUS
    <2>1. lost' = lost \cup {q}
        BY <1>3, <2>q DEF crash, Uses
    <2>2. ClaimInv'
        BY <1>1, <1>3, <2>q, UseEnds DEF ClaimInv
    <2>3. AppliedInv'
        BY <1>1, <1>3, <2>1, <2>q, UseEnds DEF AppliedInv
    <2> QED BY <2>2, <2>3
<1> QED BY <1>2, <1>3

\* Executions claim, make the change and give back in turn, as long as no call throws after its change was committed.
THEOREM UseInvariance ==
    ASSUME "reply" \notin Faults
    PROVE  Spec => []UseInv
<1>1. Init => UseInv
    <2> SUFFICES ASSUME Init PROVE UseInv
        OBVIOUS
    <2>1. /\ \A c \in Calls : ~Uses(c)
          /\ \A q \in Requests : row[q].status = "none" /\ applied[q] = 0
        BY DEF Init, Uses, Idle, NoRow
    <2> QED BY <2>1 DEF UseInv, ClaimInv, AppliedInv, ApproverInv
<1>2. BaseInv /\ UseInv /\ [Next]_vars => UseInv'
    <2> SUFFICES ASSUME BaseInv, UseInv, [Next]_vars PROVE UseInv'
        OBVIOUS
    <2>1. ApproverInv'
        BY StepOfRow, ApproverKept DEF BaseInv, UseInv
    <2>2. ASSUME NEW q \in Requests, lapse(q) PROVE Quiet
        <3>1. row[q] \in Rows
            BY <2>2, IsRow DEF lapse, OPEN, BaseInv
        <3> QED BY <2>2, <3>1 DEF lapse, Quiet, Uses, histVars, BaseInv, TypeOK, Rows
    <2>3. ASSUME UNCHANGED vars PROVE Quiet
        BY <2>3 DEF vars, Quiet, Uses
    <2>4. ClaimInv' /\ AppliedInv'
        BY <2>2, <2>3, QuietKeeps, QuietStep, ClaimStep, RunStep, GiveBackStep, CrashStep DEF Next, UseInv
    <2> QED BY <2>1, <2>4 DEF UseInv
<1> QED BY <1>1, <1>2, BaseInvariance, PTL DEF Spec

\* An approval is used up exactly when its change was made, and was given by somebody else (UsedWhenApplied): for
\* every number of callers that execute, fail, die and try again, unless one throws after its change was committed.
THEOREM ApprovalUsedOnce ==
    ASSUME "reply" \notin Faults
    PROVE  Spec => []UsedWhenApplied
<1>1. UseInv => UsedWhenApplied
    BY DEF UseInv, ClaimInv, AppliedInv, ApproverInv, UsedWhenApplied, Executing, Uses
<1> QED BY <1>1, UseInvariance, PTL

-----------------------------------------------------------------------------
(* A request that had lapsed when a call began is not used by it.           *)

\* What may have become of a request that was found open.
Beyond == [PENDING |-> Statuses \ {"PENDING"}, APPROVED |-> {"EXECUTED", "EXPIRED"}]

Late(c) == call[c].at # "idle" /\ call[c].late \in OPEN

\* Until its status changes, the request is in the list of the call; a status that comes back was given back.
LateInv ==
    \A c \in Calls : Late(c) =>
        LET q == call[c].on
        IN  /\ row[q].status \in {call[c].late} \cup Beyond[call[c].late]
            /\ row[q].status = call[c].late /\ q \notin back =>
                   call[c].at = "expire" /\ <<q, call[c].late>> \in call[c].todo

LEMMA BackGrows == [Next]_vars => back \subseteq back'
BY DEF Next, vars, histVars, begin, expireOne, readLimit, openFor, create, cancel, readRow, decide, claim, run,
       giveBack, crash, lapse

\* A status that moved on comes back only when a claim is given back.
LEMMA BeyondStays ==
    ASSUME BaseInv, [Next]_vars, NEW q \in Requests, NEW s \in OPEN, row[q].status \in {s} \cup Beyond[s]
    PROVE  /\ row'[q].status \in {s} \cup Beyond[s]
           /\ row'[q].status = s /\ q \notin back' => row[q].status = s /\ q \notin back
<1>1. Forward(q) /\ back \subseteq back'
    BY StatusStep, BackGrows
<1>2. CASE s = "PENDING"
    BY <1>1, <1>2 DEF Forward, Follows, Beyond, Statuses
<1>3. CASE s = "APPROVED"
    BY <1>1, <1>3 DEF Forward, Follows, Beyond
<1> QED BY <1>2, <1>3 DEF OPEN

\* A batch that takes every request takes every lapsed one.
LEMMA BatchTakesAll ==
    ASSUME Cardinality(Requests) <= Batch, BaseInv, NEW q \in Lapsed
    PROVE  <<q, row[q].status>> \in batch
<1>1. q \in Requests /\ IsFiniteSet(Requests)
    BY ApprovalsConstantsOK DEF Lapsed, ApprovalsConstantsOK
<1> DEFINE S == {s \in Lapsed : Older(s, q)}
<1>2. S \subseteq Requests \ {q}
    BY DEF Lapsed, Older, BaseInv, OrderInv, TypeOK
<1>3. IsFiniteSet(Requests \ {q}) /\ Cardinality(Requests \ {q}) = Cardinality(Requests) - 1
    BY <1>1, FS_RemoveElement
<1>4. Cardinality(S) <= Cardinality(Requests \ {q}) /\ IsFiniteSet(S)
    BY <1>2, <1>3, FS_Subset
<1>5. Cardinality(S) \in Nat /\ Cardinality(Requests) \in Nat
    BY <1>1, <1>4, FS_CardinalityType
<1>6. Cardinality(S) < Batch
    BY <1>3, <1>4, <1>5, ApprovalsConstantsOK DEF ApprovalsConstantsOK
<1> HIDE DEF S
<1> QED BY <1>6 DEF batch, S

LEMMA LateBegins ==
    ASSUME Cardinality(Requests) <= Batch, BaseInv, NEW c \in Calls, begin(c), Late(c)'
    PROVE  /\ call'[c].on \in Requests /\ row'[call'[c].on].status = call'[c].late
           /\ call'[c].at = "expire" /\ <<call'[c].on, call'[c].late>> \in call'[c].todo
<1>1. PICK p \in People, q \in Requests, op \in Ops :
            call' = [call EXCEPT ![c] =
                [at |-> "expire", op |-> op, by |-> p, on |-> q, todo |-> batch,
                 late |-> IF row[q].status \in OPEN /\ row[q].lapsed THEN row[q].status ELSE "none",
                 before |-> NoLimit, proposed |-> NoLimit]]
    BY DEF begin, Ops
<1>2. /\ call'[c].at = "expire" /\ call'[c].on = q /\ call'[c].todo = batch
      /\ call'[c].late = IF row[q].status \in OPEN /\ row[q].lapsed THEN row[q].status ELSE "none"
    BY <1>1 DEF BaseInv, TypeOK
<1>3. row[q].status \in OPEN /\ row[q].lapsed /\ call'[c].late = row[q].status
    BY <1>2 DEF Late, OPEN
<1>4. <<q, row[q].status>> \in batch
    BY <1>3, BatchTakesAll DEF Lapsed
<1> QED BY <1>2, <1>3, <1>4 DEF begin

LEMMA LateExpires ==
    ASSUME BaseInv, LateInv, NEW c \in Calls, expireOne(c), Late(c)', [Next]_vars
    PROVE  LET q == call'[c].on
           IN  /\ row'[q].status \in {call'[c].late} \cup Beyond[call'[c].late]
               /\ row'[q].status = call'[c].late /\ q \notin back' =>
                      call'[c].at = "expire" /\ <<q, call'[c].late>> \in call'[c].todo
<1>1. call[c] \in Working /\ call[c].at = "expire"
    BY AtWork DEF expireOne, BaseInv
<1>2. PICK e \in call[c].todo :
          /\ row' = IF StillAs(e) THEN [row EXCEPT ![e[1]].status = "EXPIRED", ![e[1]].lapsed = FALSE] ELSE row
          /\ call' = [call EXCEPT ![c].todo = @ \ {e}]
    BY DEF expireOne
<1>3. /\ call'[c].on = call[c].on /\ call'[c].late = call[c].late /\ call'[c].at = "expire"
      /\ call'[c].todo = call[c].todo \ {e} /\ call[c].on \in Requests /\ e \in Requests \X OPEN
    BY <1>1, <1>2 DEF BaseInv, TypeOK, Working
<1>4. PICK q \in Requests, s \in OPEN : q = call[c].on /\ s = call[c].late
    BY <1>3 DEF Late
<1>5. Late(c)
    BY <1>1, <1>4 DEF Late
<1>6. /\ row[q].status \in {s} \cup Beyond[s]
      /\ row[q].status = s /\ q \notin back => <<q, s>> \in call[c].todo
    BY <1>4, <1>5 DEF LateInv
<1>7. /\ row'[q].status \in {s} \cup Beyond[s]
      /\ row'[q].status = s /\ q \notin back' => row[q].status = s /\ q \notin back
    BY <1>6, BeyondStays
<1>8. CASE e = <<q, s>>
    <2>1. row'[q].status # s
        <3>1. CASE StillAs(e)
            <4>1. row[q] \in Rows
                BY <1>8, <3>1, IsRow DEF StillAs, OPEN, BaseInv
            <4> QED BY <1>2, <1>8, <3>1, <4>1 DEF BaseInv, TypeOK, Rows, OPEN
        <3>2. CASE ~StillAs(e)
            BY <1>2, <1>8, <3>2 DEF StillAs
        <3> QED BY <3>1, <3>2
    <2> QED BY <1>3, <1>4, <1>7, <2>1
<1>9. CASE e # <<q, s>>
    BY <1>3, <1>4, <1>6, <1>7, <1>9
<1> QED BY <1>8, <1>9

\* A call that goes on after its expiry keeps what it noted.
LEMMA LateGoesOn ==
    ASSUME BaseInv, LateInv, NEW c \in Calls, Late(c)',
           \/ readLimit(c) \/ openFor(c) \/ create(c) \/ cancel(c) \/ readRow(c)
           \/ decide(c) \/ claim(c) \/ run(c) \/ giveBack(c) \/ crash(c)
    PROVE  /\ Late(c) /\ call'[c].on = call[c].on /\ call'[c].late = call[c].late /\ call[c].on \in Requests
           /\ row[call[c].on].status # call[c].late \/ call[c].on \in back
<1>1. ~Ends(c)
    BY DEF Ends, Late, Idle, BaseInv, TypeOK
<1>2. readLimit(c) \/ openFor(c) \/ readRow(c) \/ claim(c) \/ run(c)
    BY <1>1 DEF create, cancel, decide, giveBack, crash
<1>3. call[c] \in Working
    BY <1>2, AtWork DEF readLimit, openFor, readRow, claim, run, Expired, BaseInv
<1>4. call'[c].on = call[c].on /\ call'[c].late = call[c].late
    <2>1. CASE readLimit(c)
        <3>1. PICK v \in Limits : call' = [call EXCEPT ![c].at = "open", ![c].before = limit, ![c].proposed = v]
            BY <2>1 DEF readLimit
        <3> QED BY <1>3, <3>1 DEF BaseInv, TypeOK, Working
    <2>2. CASE \E pc : Goto(c, pc)
        BY <1>3, <2>2 DEF Goto, BaseInv, TypeOK, Working
    <2> QED BY <1>1, <1>2, <2>1, <2>2 DEF openFor, readRow, claim, run
<1>5. Late(c)
    BY <1>3, <1>4 DEF Late, Working, Steps
<1>6. call[c].at # "expire" \/ call[c].todo = {}
    BY <1>2 DEF readLimit, openFor, readRow, claim, run, Expired
<1> QED BY <1>3, <1>4, <1>5, <1>6 DEF LateInv, Working

\* What had lapsed stays in the list of a call until its status changed, when a batch takes all that has lapsed.
THEOREM LateInvariance ==
    ASSUME Cardinality(Requests) <= Batch
    PROVE  Spec => []LateInv
<1>1. Init => LateInv
    BY DEF Init, LateInv, Late, Idle
<1>2. BaseInv /\ LateInv /\ [Next]_vars => LateInv'
    <2> SUFFICES ASSUME BaseInv, LateInv, [Next]_vars, NEW c \in Calls, Late(c)'
                 PROVE  LET q == call'[c].on
                        IN  /\ row'[q].status \in {call'[c].late} \cup Beyond[call'[c].late]
                            /\ row'[q].status = call'[c].late /\ q \notin back' =>
                                   call'[c].at = "expire" /\ <<q, call'[c].late>> \in call'[c].todo
        BY DEF LateInv
    <2>1. CASE begin(c)
        BY <2>1, LateBegins
    <2>2. CASE expireOne(c)
        BY <2>2, LateExpires
    <2>3. CASE \/ readLimit(c) \/ openFor(c) \/ create(c) \/ cancel(c) \/ readRow(c)
               \/ decide(c) \/ claim(c) \/ run(c) \/ giveBack(c) \/ crash(c)
        <3>1. /\ Late(c) /\ call'[c].on = call[c].on /\ call'[c].late = call[c].late /\ call[c].on \in Requests
              /\ row[call[c].on].status # call[c].late \/ call[c].on \in back
            BY <2>3, LateGoesOn
        <3>2. row[call[c].on].status \in {call[c].late} \cup Beyond[call[c].late] /\ call[c].late \in OPEN
            BY <3>1 DEF LateInv, Late
        <3>3. /\ row'[call[c].on].status \in {call[c].late} \cup Beyond[call[c].late]
              /\ row'[call[c].on].status = call[c].late /\ call[c].on \notin back' =>
                     row[call[c].on].status = call[c].late /\ call[c].on \notin back
            BY <3>1, <3>2, BeyondStays
        <3> QED BY <3>1, <3>3
    <2>4. CASE call'[c] = call[c]
        <3>1. Late(c) /\ call[c].on \in Requests /\ call[c].late \in OPEN
            BY <2>4, AtWork DEF Late, Working, BaseInv
        <3>2. /\ row[call[c].on].status \in {call[c].late} \cup Beyond[call[c].late]
              /\ row[call[c].on].status = call[c].late /\ call[c].on \notin back =>
                     call[c].at = "expire" /\ <<call[c].on, call[c].late>> \in call[c].todo
            BY <3>1 DEF LateInv
        <3>3. /\ row'[call[c].on].status \in {call[c].late} \cup Beyond[call[c].late]
              /\ row'[call[c].on].status = call[c].late /\ call[c].on \notin back' =>
                     row[call[c].on].status = call[c].late /\ call[c].on \notin back
            BY <3>1, <3>2, BeyondStays
        <3> QED BY <2>4, <3>2, <3>3
    <2> QED BY <2>1, <2>2, <2>3, <2>4, StepOf DEF BaseInv
<1> QED BY <1>1, <1>2, BaseInvariance, PTL DEF Spec

\* A request that had lapsed when a call began is neither decided nor claimed by that call (LapsedIsNotUsed), unless
\* a claim on it was given back: when a batch takes all that has lapsed.
THEOREM LapsedNotUsed ==
    ASSUME Cardinality(Requests) <= Batch
    PROVE  Spec => LapsedIsNotUsed
<1> DEFINE NotUsed == \A c \in Calls :
        LET q == call[c].on
        IN  call[c].at \in {"decide", "claim"} /\ call'[c] # call[c] /\ row' # row
                => q \in back \/ row[q].status # call[c].late
<1>1. BaseInv /\ LateInv /\ [Next]_vars => [NotUsed]_vars
    <2> SUFFICES ASSUME BaseInv, LateInv, NEW c \in Calls, call[c].at \in {"decide", "claim"}
                 PROVE  call[c].on \in back \/ row[call[c].on].status # call[c].late
        OBVIOUS
    <2>1. call[c] \in Working
        BY AtWork DEF BaseInv
    <2>2. CASE Late(c)
        BY <2>2 DEF LateInv
    <2>3. CASE ~Late(c)
        <3>1. call[c].late = "none" /\ call[c].on \in Requests /\ row[call[c].on] # NoRow
            BY <2>1, <2>3 DEF Late, Working, BaseInv, DeciderInv
        <3>2. row[call[c].on] \in Rows
            BY <3>1, IsRow DEF BaseInv
        <3> QED BY <3>1, <3>2 DEF Rows, Statuses
    <2> QED BY <2>2, <2>3
<1> QED BY <1>1, BaseInvariance, LateInvariance, PTL DEF Spec, LapsedIsNotUsed
=============================================================================
