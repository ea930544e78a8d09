------------------------------ MODULE Approvals ------------------------------
(***************************************************************************)
(* Maker-checker requests (ADR 0016, ADR 0095) and the change they guard    *)
(* here, the credit limit of one agency (ADR 0024): one person asks, another *)
(* decides, anybody then executes the approved request once.                *)
(*                                                                         *)
(* Every call starts by expiring requests that waited too long, and is a    *)
(* sequence of transactions: it lists the lapsed rows, expires them one by  *)
(* one, reads its row and writes it where the status is still the one it    *)
(* expects.  An execution claims its request first, then makes the change,  *)
(* and gives the claim back when something throws.                          *)
(***************************************************************************)
EXTENDS Naturals, FiniteSets, Sequences

CONSTANTS
    People,     \* who may ask, decide and execute
    Requests,   \* ids of approval requests
    Limits,     \* credit limits worth telling apart
    NoLimit,    \* not one of them: a call has read none
    Calls,      \* API calls at work at the same time
    Batch,      \* how many lapsed requests the expiry of one call takes
    Faults      \* see FaultKinds

\* A call dies; the transaction of the change fails; it commits but the call throws (its answer or its audit row is lost).
FaultKinds == {"crash", "run", "reply"}

Nobody == "nobody"

ASSUME ApprovalsConstantsOK ==
    /\ IsFiniteSet(Requests) /\ Nobody \notin People /\ NoLimit \notin Limits
    /\ Batch \in Nat \ {0}
    /\ Faults \subseteq FaultKinds

VARIABLES
    row,       \* the ApprovalRequest rows
    order,     \* their ids, oldest first
    limit,     \* AgencyCreditLimit
    call,      \* where each call stands and what it has read
    applied,   \* history: how often the change of a request was made
    lost,      \* history: requests whose execution died before it could give them back
    back       \* history: requests whose claim was given back

vars == <<row, order, limit, call, applied, lost, back>>
histVars == <<applied, lost, back>>

Statuses == {"PENDING", "APPROVED", "REJECTED", "CANCELLED", "EXECUTED", "EXPIRED"}
OPEN     == {"PENDING", "APPROVED"}
NoRow    == [status |-> "none"]
Idle     == [at |-> "idle"]

Goto(c, pc) == call' = [call EXCEPT ![c].at = pc]
Ends(c)     == call' = [call EXCEPT ![c] = Idle]

-----------------------------------------------------------------------------
(***************************************************************************)
(* A call begins.  Its first transactions expire what has lapsed.           *)
(***************************************************************************)
\* MUTANT of Lapsed: an approval that nobody executed in time is not looked for.
LapsedPending == {q \in Requests : row[q].status = "PENDING" /\ row[q].lapsed}
\* A request that waited too long for its decision, or after it for its execution.
Lapsed == {q \in Requests : row[q].status \in OPEN /\ row[q].lapsed}

Older(s, q) == \E i, j \in DOMAIN order : i < j /\ order[i] = s /\ order[j] = q

\* expireLapsed reads the oldest of them, with the status each has.
batch == {<<q, row[q].status>> : q \in {r \in Lapsed : Cardinality({s \in Lapsed : Older(s, r)}) < Batch}}

\* A call that makes a new request, or that names one that exists.  late is history: the status in which the
\* request it names had lapsed by then.
begin(c) ==
    /\ call[c] = Idle
    /\ \E p \in People, q \in Requests :
        \E op \in IF row[q] = NoRow THEN {"request"} ELSE {"approve", "reject", "cancel", "execute"} :
            call' = [call EXCEPT ![c] =
                [at |-> "expire", op |-> op, by |-> p, on |-> q, todo |-> batch,
                 late |-> IF row[q].status \in OPEN /\ row[q].lapsed THEN row[q].status ELSE "none",
                 before |-> NoLimit, proposed |-> NoLimit]]
    /\ UNCHANGED <<row, order, limit, histVars>>

\* MUTANT of StillAs: a row that was decided or executed since it was listed expires all the same.
StillAsListed(e) == TRUE
\* The update names the status that was read.
StillAs(e) == row[e[1]].status = e[2]

expireOne(c) ==
    /\ call[c].at = "expire"
    /\ \E e \in call[c].todo :
           /\ row' = IF StillAs(e) THEN [row EXCEPT ![e[1]].status = "EXPIRED", ![e[1]].lapsed = FALSE] ELSE row
           /\ call' = [call EXCEPT ![c].todo = @ \ {e}]
    /\ UNCHANGED <<order, limit, histVars>>

\* The time to decide, or to execute, runs out.
lapse(q) ==
    /\ row[q].status \in OPEN \cup {"EXECUTED"} /\ ~row[q].lapsed
    /\ row' = [row EXCEPT ![q].lapsed = TRUE]
    /\ UNCHANGED <<order, limit, call, histVars>>

Expired(c, ops) == call[c].at = "expire" /\ call[c].todo = {} /\ call[c].op \in ops

-----------------------------------------------------------------------------
(***************************************************************************)
(* request: reads the limit it starts from, then the open requests of the   *)
(* agency, of which there must be no other; nothing keeps two               *)
(* callers from both seeing none.  The id is unique, so a repeat adds none. *)
(***************************************************************************)
readLimit(c) ==
    /\ Expired(c, {"request"})
    /\ \E v \in Limits \ {limit} :
           call' = [call EXCEPT ![c].at = "open", ![c].before = limit, ![c].proposed = v]
    /\ UNCHANGED <<row, order, limit, histVars>>

openFor(c) ==
    /\ call[c].at = "open"
    /\ IF \E q \in Requests \ {call[c].on} : row[q].status \in OPEN THEN Ends(c) ELSE Goto(c, "create")
    /\ UNCHANGED <<row, order, limit, histVars>>

create(c) ==
    /\ call[c].at = "create"
    /\ LET q == call[c].on
       IN  IF row[q] = NoRow
           THEN /\ row' = [row EXCEPT ![q] = [status |-> "PENDING", by |-> call[c].by, decidedBy |-> Nobody,
                                              executedBy |-> Nobody, before |-> call[c].before,
                                              proposed |-> call[c].proposed, lapsed |-> FALSE]]
                /\ order' = Append(order, q)
           ELSE UNCHANGED <<row, order>>
    /\ Ends(c)
    /\ UNCHANGED <<limit, histVars>>

\* cancel: only the requester, and only while it is pending.
cancel(c) ==
    /\ Expired(c, {"cancel"})
    /\ LET q == call[c].on
       IN  row' = IF row[q].by = call[c].by /\ row[q].status = "PENDING"
                  THEN [row EXCEPT ![q].status = "CANCELLED", ![q].lapsed = FALSE] ELSE row
    /\ Ends(c)
    /\ UNCHANGED <<order, limit, histVars>>

\* decide and execute read the row: not by its requester and pending, or approved.
readRow(c) ==
    /\ Expired(c, {"approve", "reject", "execute"})
    /\ LET r == row[call[c].on]
       IN  CASE call[c].op = "execute" /\ r.status = "APPROVED" -> Goto(c, "claim")
             [] call[c].op # "execute" /\ r.by # call[c].by /\ r.status = "PENDING" -> Goto(c, "decide")
             [] OTHER -> Ends(c)
    /\ UNCHANGED <<row, order, limit, histVars>>

decide(c) ==
    /\ call[c].at = "decide"
    /\ LET q == call[c].on
           status == IF call[c].op = "approve" THEN "APPROVED" ELSE "REJECTED"
       IN  row' = IF row[q].status = "PENDING"
                  THEN [row EXCEPT ![q].status = status, ![q].decidedBy = call[c].by, ![q].lapsed = FALSE] ELSE row
    /\ Ends(c)
    /\ UNCHANGED <<order, limit, histVars>>

-----------------------------------------------------------------------------
(***************************************************************************)
(* execute.                                                                 *)
(***************************************************************************)
\* MUTANT of MayClaim: the claim trusts the status it read.
MayClaimAsRead(q) == TRUE
MayClaim(q) == row[q].status = "APPROVED"

claim(c) ==
    /\ call[c].at = "claim"
    /\ LET q == call[c].on
       IN  IF MayClaim(q)
           THEN /\ row' = [row EXCEPT ![q].status = "EXECUTED", ![q].executedBy = call[c].by]
                /\ Goto(c, "run")
           ELSE Ends(c) /\ UNCHANGED row
    /\ UNCHANGED <<order, limit, histVars>>

\* The change, under the agency's credit lock: the limit must still be the one the request started from.
run(c) ==
    /\ call[c].at = "run"
    /\ LET q == call[c].on
       IN  \/ /\ limit = row[q].before
              /\ limit' = row[q].proposed
              /\ applied' = [applied EXCEPT ![q] = @ + 1]
              /\ \/ Ends(c)
                 \/ "reply" \in Faults /\ Goto(c, "giveBack")
           \/ /\ limit # row[q].before \/ "run" \in Faults
              /\ Goto(c, "giveBack")
              /\ UNCHANGED <<limit, applied>>
    /\ UNCHANGED <<row, order, lost, back>>

giveBack(c) ==
    /\ call[c].at = "giveBack"
    /\ LET q == call[c].on
       IN  /\ row' = IF row[q].status = "EXECUTED" /\ row[q].executedBy = call[c].by
                     THEN [row EXCEPT ![q].status = "APPROVED", ![q].executedBy = Nobody] ELSE row
           /\ back' = back \cup {q}
    /\ Ends(c)
    /\ UNCHANGED <<order, limit, applied, lost>>

\* The process of a call dies, or a write of its own fails: what it committed stays.
crash(c) ==
    /\ "crash" \in Faults
    /\ call[c] # Idle
    /\ lost' = IF call[c].at \in {"run", "giveBack"} THEN lost \cup {call[c].on} ELSE lost
    /\ Ends(c)
    /\ UNCHANGED <<row, order, limit, applied, back>>

-----------------------------------------------------------------------------
Init ==
    /\ row = [q \in Requests |-> NoRow]
    /\ order = <<>>
    /\ limit \in Limits
    /\ call = [c \in Calls |-> Idle]
    /\ applied = [q \in Requests |-> 0]
    /\ lost = {} /\ back = {}

Next ==
    \/ \E c \in Calls :
           \/ begin(c) \/ expireOne(c) \/ readLimit(c) \/ openFor(c) \/ create(c) \/ cancel(c)
           \/ readRow(c) \/ decide(c) \/ claim(c) \/ run(c) \/ giveBack(c) \/ crash(c)
    \/ \E q \in Requests : lapse(q)

Spec == Init /\ [][Next]_vars

-----------------------------------------------------------------------------
Executing(q) == \E c \in Calls : call[c].at \in {"run", "giveBack"} /\ call[c].on = q

(***************************************************************************)
(* An approval is used up exactly when its change was made ("Single-use     *)
(* execution", "Applies the approved limit once"): once no call is          *)
(* executing it, and unless its process died on it, its change was made     *)
(* once if it is EXECUTED and never otherwise, however many callers         *)
(* execute, fail and try again; and it was made for a request that          *)
(* somebody other than its maker approved.                                  *)
(***************************************************************************)
UsedWhenApplied ==
    \A q \in Requests :
        /\ applied[q] <= 1
        /\ applied[q] = 1 => row[q].decidedBy \notin {Nobody, row[q].by}
        /\ ~Executing(q) /\ q \notin lost => (applied[q] = 1 <=> row[q].status = "EXECUTED")

(***************************************************************************)
(* The state machine is one way and a decision wins over a concurrent       *)
(* expiry: a request that was rejected, withdrawn or expired stays so, one   *)
(* that was approved is executed or expires, and only an execution that     *)
(* threw makes it approved again.                                           *)
(***************************************************************************)
Follows ==
    [none |-> {"PENDING"}, PENDING |-> {"APPROVED", "REJECTED", "CANCELLED", "EXPIRED"},
     APPROVED |-> {"EXECUTED", "EXPIRED"}, EXECUTED |-> {"APPROVED"},
     REJECTED |-> {}, CANCELLED |-> {}, EXPIRED |-> {}]

StatusMovesForward ==
    [][\A q \in Requests :
        /\ row'[q].status # row[q].status => row'[q].status \in Follows[row[q].status]
        /\ row[q].status = "EXECUTED" /\ row'[q].status = "APPROVED" => q \in back']_vars

(***************************************************************************)
(* A request that had lapsed when a call began is not used by that call     *)
(* ("Runs before every read and decision, so an expired request can neither *)
(* be decided nor executed"): neither decided nor, unless an execution of   *)
(* it was given back meanwhile, claimed.                                    *)
(***************************************************************************)
LapsedIsNotUsed ==
    [][\A c \in Calls :
        LET q == call[c].on
        IN  call[c].at \in {"decide", "claim"} /\ call'[c] # call[c] /\ row' # row
                => q \in back \/ row[q].status # call[c].late]_vars
=============================================================================
