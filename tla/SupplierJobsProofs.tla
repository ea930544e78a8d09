------------------------- MODULE SupplierJobsProofs -------------------------
(***************************************************************************)
(* What SupplierJobs promises, for every number of runners, jobs and        *)
(* attempts.  OneActiveJob and what rests on it need leases that outlast    *)
(* their runners ("slow" is no fault): with a slow runner they are false.   *)
(*                                                                         *)
(*   WorkInv     a working runner has its own running, leased job, and at   *)
(*               most one job of the booking is active;                     *)
(*   StepInv     what a runner has read and concluded fits its kind of job; *)
(*   ReserveInv  before a BOOK call nothing is held; a reservation of a     *)
(*               booking that still waits is known to a runner or makes the *)
(*               supplier status UNKNOWN; who concluded that nothing is     *)
(*               held is right until it is recorded.                        *)
(***************************************************************************)
EXTENDS SupplierJobs, FiniteSetTheorems, SequenceTheorems, TLAPS

Works(r) == runner[r].pc # "idle"

WorkInv ==
    /\ \A r \in Runners : Works(r) =>
           /\ runner[r].job \in DOMAIN jobs
           /\ jobs[runner[r].job].st = "RUNNING" /\ jobs[runner[r].job].leased
    /\ \A r, s \in Runners : Works(r) /\ Works(s) /\ runner[r].job = runner[s].job => r = s
    /\ \A j, k \in ActiveJobs : j = k

\* The statuses in which a kind of job calls the supplier, and what it may conclude.
ReadsFor(kind) ==
    CASE kind = "BOOK" -> {"PENDING_SUPPLIER"}
      [] kind = "CANCEL" -> {"CANCEL_REQUESTED"}
      [] OTHER -> {"PENDING_SUPPLIER", "ON_REQUEST", "CANCEL_REQUESTED"}

Bookings == {"systemConfirm", "systemOnRequest", "systemFail"}

Concludes(kind, read) ==
    CASE kind = "BOOK" -> Bookings \cup {"UNKNOWN", "RETRY"}
      [] kind = "CANCEL" -> {"systemCompleteCancellation", "CANCEL_FAILED", "UNKNOWN", "RETRY"}
      [] OTHER -> {"UNKNOWN", "NOTED"} \cup
                  (IF read = "PENDING_SUPPLIER" THEN Bookings \cup {"NOT_FOUND"}
                   ELSE {"systemConfirmOnRequest", "systemRejectOnRequest", "systemCompleteCancellation"})

\* The runner has not called the supplier.
Before(r) == runner[r].read = "none" \/ runner[r].pc = "call"

StepOK(r) ==
    LET me == runner[r]
    IN  /\ me.pc = "facts" => me.read = "none"
        /\ me.pc \in {"call", "ask"} => me.read # "none"
        /\ me.pc = "ask" => KindRun(r) # "STATUS_CHECK"
        /\ me.read # "none" => me.read \in ReadsFor(KindRun(r))
        /\ me.read \notin {"none", "PENDING_SUPPLIER"} => status # "PENDING_SUPPLIER"
        /\ me.pc = "record" =>
               me.todo \in IF me.read = "none" THEN {"ALREADY_APPLIED", "NOT_CONFIGURED"} ELSE Concludes(KindRun(r), me.read)

StepInv ==
    /\ closed => status \in Closable
    /\ \A r \in Runners : Works(r) => StepOK(r)

\* The runner has concluded that the supplier holds nothing.
SaysNothingHeld(r) ==
    /\ runner[r].pc = "record"
    /\ \/ runner[r].todo \in {"systemFail", "NOT_FOUND"}
       \/ runner[r].todo = "RETRY" /\ KindRun(r) = "BOOK"
       \/ runner[r].todo = "NOTED" /\ runner[r].read = "PENDING_SUPPLIER"

OneLive == \A i, k \in LiveAt : i = k

BookClear ==
    \A j \in ActiveJobs :
        jobs[j].kind = "BOOK" /\ (\A r \in Runners : Works(r) /\ runner[r].job = j => Before(r)) => LiveAt = {}

HeldIsKnown ==
    status = "PENDING_SUPPLIER" /\ LiveAt # {} =>
        supStatus = "UNKNOWN" \/ \E r \in Runners : Works(r) /\ KindRun(r) = "BOOK" /\ ~Before(r)

NothingIsRight == \A r \in Runners : SaysNothingHeld(r) => LiveAt = {}

ReserveInv == ~lost => OneLive /\ BookClear /\ HeldIsKnown /\ NothingIsRight

FinanceInv ==
    /\ FinanceFollowsStatus
    /\ status \in {"PENDING_SUPPLIER", "FAILED"} => finance["ON_REQUEST_HOLD"] = 0

-----------------------------------------------------------------------------
(* The table of moves, and sequences whose members change.                  *)

LEMMA PersonTable ==
    ASSUME NEW a \in PersonActions
    PROVE  From(a) \in Statuses /\ To(a) \in Statuses
BY DEF PersonActions, PersonRules, From, To, Statuses

LEMMA SystemTable ==
    ASSUME NEW a \in SystemActions
    PROVE  a \notin PersonActions /\ From(a) \in Statuses /\ To(a) \in Statuses
BY DEF PersonActions, PersonRules, SystemActions, SystemRules, From, To, Statuses

LEMMA RunnerTable ==
    /\ From("systemConfirm") = "PENDING_SUPPLIER" /\ To("systemConfirm") = "CONFIRMED"
    /\ From("systemOnRequest") = "PENDING_SUPPLIER" /\ To("systemOnRequest") = "ON_REQUEST"
    /\ From("systemFail") = "PENDING_SUPPLIER" /\ To("systemFail") = "FAILED"
    /\ From("systemConfirmOnRequest") = "ON_REQUEST" /\ To("systemConfirmOnRequest") = "CONFIRMED"
    /\ From("systemRejectOnRequest") = "ON_REQUEST" /\ To("systemRejectOnRequest") = "REJECTED"
    /\ From("systemCompleteCancellation") = "CANCEL_REQUESTED" /\ To("systemCompleteCancellation") = "CANCELLED"
BY DEF PersonActions, PersonRules, SystemRules, From, To

LEMMA MovesTable == RunnerMoves \subseteq SystemActions /\ CloseActions \subseteq SystemActions /\ "markCheckedOut" \in SystemActions
BY DEF RunnerMoves, CloseActions, SystemActions, SystemRules

LEMMA SeqLike ==
    ASSUME NEW S, NEW s \in Seq(S), NEW t \in [DOMAIN s -> S]
    PROVE  t \in Seq(S) /\ Len(t) = Len(s) /\ DOMAIN t = DOMAIN s
<1>1. Len(s) \in Nat /\ DOMAIN s = 1..Len(s)
    BY LenProperties
<1>2. t \in Seq(S)
    BY <1>1, SeqDef
<1> QED BY <1>1, <1>2, LenProperties

-----------------------------------------------------------------------------
(* Types.                                                                   *)

RunnerRow == [pc : {"idle", "facts", "call", "ask", "record"}, job : 0..MaxJobs, attempt : 0..MaxAttempts,
              read : Statuses \cup {"none"}, todo : Records \cup RunnerMoves \cup {"none"}, word : SupplierWords]

BookingTypes ==
    /\ status \in Statuses /\ closed \in BOOLEAN /\ supStatus \in SupplierWords /\ finance \in [FinanceTypes -> Nat]

JobTypes == jobs \in Seq(JobRow) /\ Len(jobs) <= MaxJobs

LEMMA TypeParts ==
    TypeOK <=> /\ BookingTypes /\ JobTypes /\ runner \in [Runners -> RunnerRow]
               /\ resv \in Seq(SupplierStates) /\ lost \in BOOLEAN
BY DEF TypeOK, BookingTypes, JobTypes, RunnerRow

LEMMA JobsDomain ==
    ASSUME JobTypes
    PROVE  Len(jobs) \in Nat /\ DOMAIN jobs = 1..Len(jobs) /\ DOMAIN jobs \subseteq 1..MaxJobs
           /\ \A j \in DOMAIN jobs : jobs[j] \in JobRow
BY LenProperties, ElementOfSeq, ConstantsOK DEF JobTypes, ConstantsOK

\* One row of the queue changes.
LEMMA JobPut ==
    ASSUME JobTypes, NEW j, NEW row, j \in DOMAIN jobs => row \in JobRow, jobs' = [jobs EXCEPT ![j] = row]
    PROVE  /\ JobTypes' /\ DOMAIN jobs' = DOMAIN jobs
           /\ \A k \in DOMAIN jobs : jobs'[k] = IF k = j THEN row ELSE jobs[k]
<1>1. jobs' \in [DOMAIN jobs -> JobRow]
    BY JobsDomain DEF JobTypes
<1>2. jobs' \in Seq(JobRow) /\ Len(jobs') = Len(jobs) /\ DOMAIN jobs' = DOMAIN jobs
    BY <1>1, SeqLike DEF JobTypes
<1> QED BY <1>1, <1>2 DEF JobTypes

LEMMA StopPuts ==
    ASSUME JobTypes, NEW j, NEW st \in JobStatuses, stop(j, st)
    PROVE  /\ JobTypes' /\ DOMAIN jobs' = DOMAIN jobs
           /\ \A k \in DOMAIN jobs : jobs'[k] = IF k = j THEN [jobs[j] EXCEPT !.st = st, !.leased = FALSE] ELSE jobs[k]
<1>1. jobs' = [jobs EXCEPT ![j] = [jobs[j] EXCEPT !.st = st, !.leased = FALSE]]
    <2>1. CASE j \in DOMAIN jobs
        BY <2>1, JobsDomain DEF stop
    <2>2. CASE j \notin DOMAIN jobs
        BY <2>2, JobsDomain DEF stop
    <2> QED BY <2>1, <2>2
<1>2. j \in DOMAIN jobs => [jobs[j] EXCEPT !.st = st, !.leased = FALSE] \in JobRow
    BY JobsDomain DEF JobRow
<1> QED BY <1>1, <1>2, JobPut

LEMMA WaitPuts ==
    ASSUME JobTypes, NEW j, waitForRetry(j)
    PROVE  /\ JobTypes' /\ DOMAIN jobs' = DOMAIN jobs
           /\ \A k \in DOMAIN jobs :
                  jobs'[k] = IF k = j THEN [jobs[j] EXCEPT !.st = "RETRY_WAIT", !.leased = FALSE, !.due = FALSE] ELSE jobs[k]
<1>1. jobs' = [jobs EXCEPT ![j] = [jobs[j] EXCEPT !.st = "RETRY_WAIT", !.leased = FALSE, !.due = FALSE]]
    <2>1. CASE j \in DOMAIN jobs
        BY <2>1, JobsDomain DEF waitForRetry
    <2>2. CASE j \notin DOMAIN jobs
        BY <2>2, JobsDomain DEF waitForRetry
    <2> QED BY <2>1, <2>2
<1>2. j \in DOMAIN jobs => [jobs[j] EXCEPT !.st = "RETRY_WAIT", !.leased = FALSE, !.due = FALSE] \in JobRow
    BY JobsDomain DEF JobRow, JobStatuses
<1> QED BY <1>1, <1>2, JobPut

LEMMA ClosePuts ==
    ASSUME JobTypes, closeUnknown
    PROVE  /\ JobTypes' /\ DOMAIN jobs' = DOMAIN jobs
           /\ \A k \in DOMAIN jobs : jobs'[k] = IF jobs[k].st = "UNKNOWN"
                                                THEN [jobs[k] EXCEPT !.st = "SUCCEEDED", !.leased = FALSE] ELSE jobs[k]
<1>1. \A k \in DOMAIN jobs : [jobs[k] EXCEPT !.st = "SUCCEEDED", !.leased = FALSE] \in JobRow
    BY JobsDomain DEF JobRow, JobStatuses
<1>2. jobs' \in [DOMAIN jobs -> JobRow]
    BY <1>1, JobsDomain DEF closeUnknown
<1>3. jobs' \in Seq(JobRow) /\ Len(jobs') = Len(jobs) /\ DOMAIN jobs' = DOMAIN jobs
    BY <1>2, SeqLike DEF JobTypes
<1> QED BY <1>3 DEF JobTypes, closeUnknown

LEMMA RequestPuts ==
    ASSUME JobTypes, NEW op \in {"send", "cancel", "retryNow", "sync"}, request(op)
    PROVE  /\ JobTypes'
           /\ \/ /\ DOMAIN jobs' = DOMAIN jobs
                 /\ \E j \in DOMAIN jobs :
                        /\ jobs[j].st = "RETRY_WAIT"
                        /\ \A k \in DOMAIN jobs : jobs'[k] = IF k = j THEN [jobs[j] EXCEPT !.due = TRUE] ELSE jobs[k]
              \/ /\ ActiveJobs = {} /\ op # "retryNow" /\ Len(jobs) + 1 \notin DOMAIN jobs
                 /\ DOMAIN jobs' = DOMAIN jobs \cup {Len(jobs) + 1}
                 /\ \A k \in DOMAIN jobs : jobs'[k] = jobs[k]
                 /\ jobs'[Len(jobs) + 1] = [kind |-> KindOf(op), st |-> "QUEUED", attempt |-> 0, leased |-> FALSE, due |-> TRUE]
<1>1. CASE op = "retryNow"
    <2>1. PICK j \in DOMAIN jobs : jobs[j].st = "RETRY_WAIT" /\ jobs' = [jobs EXCEPT ![j].due = TRUE]
        BY <1>1 DEF request
    <2>2. [jobs[j] EXCEPT !.due = TRUE] \in JobRow /\ jobs' = [jobs EXCEPT ![j] = [jobs[j] EXCEPT !.due = TRUE]]
        BY <2>1, JobsDomain DEF JobRow
    <2>3. /\ JobTypes' /\ DOMAIN jobs' = DOMAIN jobs
          /\ \A k \in DOMAIN jobs : jobs'[k] = IF k = j THEN [jobs[j] EXCEPT !.due = TRUE] ELSE jobs[k]
        BY <2>2, JobPut
    <2> QED BY <2>1, <2>3
<1>2. CASE op # "retryNow"
    <2> DEFINE row == [kind |-> KindOf(op), st |-> "QUEUED", attempt |-> 0, leased |-> FALSE, due |-> TRUE]
    <2>1. jobs' = Append(jobs, row) /\ Len(jobs) < MaxJobs /\ op \in supplierOpsFor
        BY <1>2 DEF request
    <2>2. row \in JobRow
        BY ConstantsOK DEF JobRow, KindOf, Kinds, JobStatuses, ConstantsOK
    <2>3. ActiveJobs = {}
        BY <1>2, <2>1 DEF supplierOpsFor
    <2> HIDE DEF row
    <2>4. /\ jobs' \in Seq(JobRow) /\ Len(jobs') = Len(jobs) + 1 /\ jobs'[Len(jobs) + 1] = row
          /\ \A k \in 1..Len(jobs) : jobs'[k] = jobs[k]
        BY <2>1, <2>2, AppendProperties DEF JobTypes
    <2>5. DOMAIN jobs' = 1..(Len(jobs) + 1) /\ DOMAIN jobs = 1..Len(jobs) /\ Len(jobs) \in Nat
        BY <2>4, LenProperties DEF JobTypes
    <2>6. Len(jobs) + 1 \notin DOMAIN jobs /\ DOMAIN jobs' = DOMAIN jobs \cup {Len(jobs) + 1}
        BY <2>5
    <2>7. JobTypes'
        BY <2>1, <2>4, <2>5, ConstantsOK DEF JobTypes, ConstantsOK
    <2> QED BY <1>2, <2>3, <2>4, <2>5, <2>6, <2>7 DEF row
<1> QED BY <1>1, <1>2

LEMMA ClaimPuts ==
    ASSUME JobTypes, NEW r \in Runners, NEW j \in DOMAIN jobs, claim(r, j)
    PROVE  /\ JobTypes' /\ DOMAIN jobs' = DOMAIN jobs
           /\ \A k \in DOMAIN jobs \ {j} : jobs'[k] = jobs[k]
           /\ jobs'[j].kind = jobs[j].kind
           /\ \/ UNCHANGED runner /\ jobs'[j].st = "UNKNOWN"
              \/ /\ jobs'[j].st = "RUNNING" /\ jobs'[j].leased /\ jobs[j].attempt + 1 \in 0..MaxAttempts
                 /\ runner' = [runner EXCEPT ![r] = [Idle EXCEPT !.pc = "facts", !.job = j, !.attempt = jobs[j].attempt + 1]]
<1>1. jobs[j] \in JobRow
    BY JobsDomain
<1>2. CASE jobs[j].attempt >= MaxAttempts
    <2>1. [jobs[j] EXCEPT !.st = "UNKNOWN", !.leased = FALSE] \in JobRow
        BY <1>1 DEF JobRow, JobStatuses
    <2>2. jobs' = [jobs EXCEPT ![j] = [jobs[j] EXCEPT !.st = "UNKNOWN", !.leased = FALSE]] /\ UNCHANGED runner
        BY <1>2 DEF claim
    <2>3. /\ JobTypes' /\ DOMAIN jobs' = DOMAIN jobs
          /\ \A k \in DOMAIN jobs :
                 jobs'[k] = IF k = j THEN [jobs[j] EXCEPT !.st = "UNKNOWN", !.leased = FALSE] ELSE jobs[k]
        BY <2>1, <2>2, JobPut
    <2> QED BY <1>1, <2>2, <2>3 DEF JobRow
<1>3. CASE ~(jobs[j].attempt >= MaxAttempts)
    <2>0. jobs[j].attempt + 1 \in 0..MaxAttempts
        BY <1>1, <1>3, ConstantsOK DEF JobRow, ConstantsOK
    <2>1. [jobs[j] EXCEPT !.st = "RUNNING", !.attempt = @ + 1, !.leased = TRUE] \in JobRow
        BY <1>1, <2>0 DEF JobRow, JobStatuses
    <2>2. /\ jobs' = [jobs EXCEPT ![j] = [jobs[j] EXCEPT !.st = "RUNNING", !.attempt = @ + 1, !.leased = TRUE]]
          /\ runner' = [runner EXCEPT ![r] = [Idle EXCEPT !.pc = "facts", !.job = j, !.attempt = jobs[j].attempt + 1]]
        BY <1>1, <1>3 DEF claim, JobRow
    <2>3. /\ JobTypes' /\ DOMAIN jobs' = DOMAIN jobs
          /\ \A k \in DOMAIN jobs : jobs'[k] = IF k = j THEN [jobs[j] EXCEPT !.st = "RUNNING", !.attempt = @ + 1, !.leased = TRUE]
                                               ELSE jobs[k]
        BY <2>1, <2>2, JobPut
    <2> QED BY <1>1, <2>0, <2>2, <2>3 DEF JobRow
<1> QED BY <1>2, <1>3

\* Clocks: a lease ends, a wait ends.
LEMMA ClockPuts ==
    ASSUME JobTypes, NEW j \in DOMAIN jobs, leaseEnds(j) \/ waitEnds(j)
    PROVE  /\ JobTypes' /\ DOMAIN jobs' = DOMAIN jobs
           /\ \A k \in DOMAIN jobs \ {j} : jobs'[k] = jobs[k]
           /\ jobs'[j].st = jobs[j].st /\ jobs'[j].kind = jobs[j].kind
<1>1. jobs[j] \in JobRow
    BY JobsDomain
<1>2. CASE leaseEnds(j)
    <2>1. [jobs[j] EXCEPT !.leased = FALSE] \in JobRow /\ jobs' = [jobs EXCEPT ![j] = [jobs[j] EXCEPT !.leased = FALSE]]
        BY <1>1, <1>2 DEF JobRow, leaseEnds
    <2>2. /\ JobTypes' /\ DOMAIN jobs' = DOMAIN jobs
          /\ \A k \in DOMAIN jobs : jobs'[k] = IF k = j THEN [jobs[j] EXCEPT !.leased = FALSE] ELSE jobs[k]
        BY <2>1, JobPut
    <2> QED BY <1>1, <2>2 DEF JobRow
<1>3. CASE waitEnds(j)
    <2>1. [jobs[j] EXCEPT !.due = TRUE] \in JobRow /\ jobs' = [jobs EXCEPT ![j] = [jobs[j] EXCEPT !.due = TRUE]]
        BY <1>1, <1>3 DEF JobRow, waitEnds
    <2>2. /\ JobTypes' /\ DOMAIN jobs' = DOMAIN jobs
          /\ \A k \in DOMAIN jobs : jobs'[k] = IF k = j THEN [jobs[j] EXCEPT !.due = TRUE] ELSE jobs[k]
        BY <2>1, JobPut
    <2> QED BY <1>1, <2>2 DEF JobRow
<1> QED BY <1>2, <1>3

-----------------------------------------------------------------------------
(* What a step may do to the booking.                                       *)

Moves == PersonActions \cup SystemActions

BookingStep ==
    \/ UNCHANGED bookingVars
    \/ \E word \in SupplierWords : setSupplierStatus(word)
    \/ \E a \in Moves, word \in SupplierWords : transitionBooking(a, word)

LEMMA MoveStep ==
    ASSUME NEW r \in Runners, runner[r] \in RunnerRow, NEW a \in RunnerMoves, move(r, a)
    PROVE  BookingStep
BY MovesTable DEF move, BookingStep, Moves, RunnerRow

LEMMA RecordStep ==
    ASSUME TypeOK, NEW r \in Runners, record(r)
    PROVE  BookingStep
<1>1. runner[r] \in RunnerRow
    BY TypeParts
<1>2. ASSUME NEW a \in RunnerMoves, move(r, a) PROVE BookingStep
    BY <1>1, <1>2, MoveStep
<1>3. ASSUME NEW word \in SupplierWords, setSupplierStatus(word) PROVE BookingStep
    BY <1>3 DEF BookingStep
<1>4. "UNKNOWN" \in SupplierWords /\ "CANCEL_FAILED" \in SupplierWords /\ runner[r].word \in SupplierWords
    BY <1>1 DEF SupplierWords, RunnerRow
<1>5. "systemFail" \in RunnerMoves
    BY DEF RunnerMoves
<1>6. CASE UNCHANGED bookingVars
    BY <1>6 DEF BookingStep
<1> QED BY <1>2, <1>3, <1>4, <1>5, <1>6 DEF record

LEMMA StepOfBooking ==
    ASSUME TypeOK, [Next]_vars
    PROVE  BookingStep
<1>1. CASE UNCHANGED bookingVars
    BY <1>1 DEF BookingStep
<1>2. ASSUME NEW a \in PersonActions \cup {"markCheckedOut"} \cup CloseActions, act(a) PROVE BookingStep
    <2>1. a \in Moves /\ "none" \in SupplierWords
        BY MovesTable DEF Moves, SupplierWords
    <2> QED BY <1>2, <2>1 DEF act, BookingStep
<1>3. ASSUME NEW a \in RunnerMoves, answerMoves(a) PROVE BookingStep
    <2>1. a \in Moves
        BY MovesTable DEF Moves
    <2>2. \E word \in SupplierWords : transitionBooking(a, word)
        BY <1>3 DEF answerMoves, SupplierWords, SupplierStates
    <2> QED BY <2>1, <2>2 DEF BookingStep
<1>4. CASE answerNoBooking \/ answerRefused
    BY <1>4 DEF answerNoBooking, answerRefused, BookingStep, SupplierWords
<1>5. ASSUME NEW r \in Runners, RunnerStep(r) \/ runnerError(r) \/ crash(r) PROVE BookingStep
    BY <1>1, <1>5, RecordStep DEF RunnerStep, readFacts, book, cancel, statusOrNull, sync, runnerError, crash
<1>6. CASE UNCHANGED vars
    BY <1>1, <1>6 DEF vars, bookingVars
<1> QED BY <1>1, <1>2, <1>3, <1>4, <1>5, <1>6
        DEF Next, request, claim, leaseEnds, waitEnds, supplierDecides

LEMMA BookingTypesKept ==
    ASSUME BookingTypes, BookingStep
    PROVE  BookingTypes'
<1>1. CASE UNCHANGED bookingVars
    BY <1>1 DEF bookingVars, BookingTypes
<1>2. ASSUME NEW word \in SupplierWords, setSupplierStatus(word) PROVE BookingTypes'
    BY <1>2 DEF setSupplierStatus, BookingTypes
<1>3. ASSUME NEW a \in Moves, NEW word \in SupplierWords, transitionBooking(a, word) PROVE BookingTypes'
    <2>1. To(a) \in Statuses
        BY PersonTable, SystemTable DEF Moves
    <2>2. finance' \in [FinanceTypes -> Nat]
        BY <1>3 DEF transitionBooking, Posted, BookingTypes
    <2>3. Locks(a) \in BOOLEAN
        BY DEF Locks
    <2> QED BY <1>3, <2>1, <2>2, <2>3 DEF transitionBooking, BookingTypes
<1> QED BY <1>1, <1>2, <1>3 DEF BookingStep

\* What an action does to the status, and which finance event it writes.
LEMMA MoveTable ==
    ASSUME NEW a \in Moves
    PROVE  \/ a \in Confirming /\ From(a) \in {"PENDING_SUPPLIER", "ON_REQUEST"} /\ To(a) = "CONFIRMED"
           \/ a \in Holding /\ From(a) = "PENDING_SUPPLIER" /\ To(a) = "ON_REQUEST"
           \/ a \in Releasing /\ From(a) = "PENDING_SUPPLIER" /\ To(a) = "FAILED"
           \/ a \in Releasing /\ From(a) = "ON_REQUEST" /\ To(a) = "REJECTED"
           \/ a \in Completing /\ From(a) = "CANCEL_REQUESTED" /\ To(a) = "CANCELLED"
           \/ /\ a \notin Confirming \cup Holding \cup Releasing \cup Completing
              /\ From(a) = To(a) \/ {From(a), To(a)} \subseteq {"CONFIRMED", "AMEND_REQUESTED", "CANCEL_REQUESTED",
                                                                "CHECKED_OUT", "NO_SHOW"}
<1>1. CASE a \in PersonActions
    BY <1>1 DEF PersonActions, PersonRules, From, To, Confirming, Holding, Releasing, Completing
<1>2. CASE a \in SystemActions /\ a \notin PersonActions
    BY <1>2 DEF SystemActions, SystemRules, From, To, Confirming, Holding, Releasing, Completing
<1> QED BY <1>1, <1>2 DEF Moves

-----------------------------------------------------------------------------
(* What a step may do to the runners.                                       *)


\* Runner r's row becomes row; it asks after a call that threw, it has read the booking, it has concluded.
Turned(r, row) ==
    /\ row \in RunnerRow
    /\ runner' \in [Runners -> RunnerRow]
    /\ \A s \in Runners : runner'[s] = IF s = r THEN row ELSE runner[s]

Asks(r) == Turned(r, [runner[r] EXCEPT !.pc = "ask"])
Reads(r) == Turned(r, [runner[r] EXCEPT !.pc = "call", !.read = status])
Says(r, todo) == \E word \in SupplierWords : Turned(r, [runner[r] EXCEPT !.pc = "record", !.todo = todo, !.word = word])

LEMMA DecideSays ==
    ASSUME runner \in [Runners -> RunnerRow], NEW r \in Runners,
           NEW todo \in Records \cup RunnerMoves, NEW word \in SupplierWords, Decide(r, todo, word)
    PROVE  Says(r, todo)
<1>1. [runner[r] EXCEPT !.pc = "record", !.todo = todo, !.word = word] \in RunnerRow
    BY DEF RunnerRow
<1>2. runner' = [runner EXCEPT ![r] = [runner[r] EXCEPT !.pc = "record", !.todo = todo, !.word = word]]
    BY DEF Decide, RunnerRow
<1>3. Turned(r, [runner[r] EXCEPT !.pc = "record", !.todo = todo, !.word = word])
    BY <1>1, <1>2 DEF Turned
<1> QED BY <1>3 DEF Says

LEMMA AskAsks ==
    ASSUME runner \in [Runners -> RunnerRow], NEW r \in Runners, runner' = [runner EXCEPT ![r].pc = "ask"]
    PROVE  Asks(r)
BY DEF RunnerRow, Turned, Asks

LEMMA Words ==
    /\ Records \subseteq Records \cup RunnerMoves
    /\ {"ALREADY_APPLIED", "NOT_CONFIGURED", "UNKNOWN", "NOT_FOUND", "NOTED", "CANCEL_FAILED", "RETRY"} \subseteq Records \cup RunnerMoves
    /\ Bookings \subseteq Records \cup RunnerMoves /\ "systemCompleteCancellation" \in Records \cup RunnerMoves
    /\ SupplierStates \subseteq SupplierWords
    /\ {"none", "UNKNOWN", "NOT_FOUND", "CANCEL_FAILED", "NO_ANSWER", "CANCELLED"} \subseteq SupplierWords
BY DEF Records, RunnerMoves, Bookings, SupplierWords, SupplierStates

LEMMA ReadTurns ==
    ASSUME TypeOK, NEW r \in Runners, readFacts(r)
    PROVE  \/ \E todo \in {"ALREADY_APPLIED", "NOT_CONFIGURED"} : Says(r, todo)
           \/ Reads(r) /\ ~closed /\ Applicable(KindRun(r))
<1>1. runner \in [Runners -> RunnerRow] /\ status \in Statuses
    BY TypeParts DEF BookingTypes
<1>2. ASSUME NEW todo \in {"ALREADY_APPLIED", "NOT_CONFIGURED"}, Decide(r, todo, "none") PROVE Says(r, todo)
    BY <1>1, <1>2, DecideSays, Words
<1>3. ASSUME runner' = [runner EXCEPT ![r].pc = "call", ![r].read = status] PROVE Reads(r)
    BY <1>1, <1>3 DEF Reads, Turned, RunnerRow
<1> QED BY <1>2, <1>3 DEF readFacts

LEMMA BookTurns ==
    ASSUME TypeOK, NEW r \in Runners, book(r)
    PROVE  \/ Asks(r) /\ (resv' = resv \/ \E w \in SupplierStates : resv' = Append(resv, w))
           \/ \E w \in SupplierStates \ {"CANCELLED"} : resv' = Append(resv, w) /\ Says(r, BookMove(w))
<1>1. runner \in [Runners -> RunnerRow]
    BY TypeParts
<1>2. PICK w \in SupplierStates \ {"CANCELLED"} :
           \/ resv' = Append(resv, w) /\ Decide(r, BookMove(w), w)
           \/ resv' \in {resv, Append(resv, w)} /\ runner' = [runner EXCEPT ![r].pc = "ask"]
    BY DEF book
<1>3. BookMove(w) \in Records \cup RunnerMoves /\ w \in SupplierWords
    BY Words DEF BookMove, Bookings
<1> QED BY <1>1, <1>2, <1>3, DecideSays, AskAsks

LEMMA CancelTurns ==
    ASSUME TypeOK, NEW r \in Runners, cancel(r)
    PROVE  /\ resv' = resv \/ \E i \in LiveAt : resv' = [resv EXCEPT ![i] = "CANCELLED"]
           /\ Asks(r) \/ \E todo \in {"systemCompleteCancellation", "CANCEL_FAILED"} : Says(r, todo)
<1>1. runner \in [Runners -> RunnerRow]
    BY TypeParts
<1>2. Decide(r, "systemCompleteCancellation", "CANCELLED") => Says(r, "systemCompleteCancellation")
    BY <1>1, DecideSays, Words
<1>3. Decide(r, "CANCEL_FAILED", "CANCEL_FAILED") => Says(r, "CANCEL_FAILED")
    BY <1>1, DecideSays, Words
<1>4. runner' = [runner EXCEPT ![r].pc = "ask"] => Asks(r)
    BY <1>1, AskAsks
<1> QED BY <1>2, <1>3, <1>4 DEF cancel

\* A reported reservation is a live one when there is any.
LEMMA ReportedLive ==
    ASSUME TypeOK, NEW i \in Reported
    PROVE  i \in DOMAIN resv /\ resv[i] \in SupplierStates /\ (~Live(resv[i]) => LiveAt = {})
<1>1. i \in DOMAIN resv
    BY DEF Reported, LiveAt
<1>2. resv[i] \in SupplierStates
    BY <1>1, ElementOfSeq, LenProperties DEF TypeOK
<1> QED BY <1>1, <1>2 DEF Reported, LiveAt

LEMMA AskTurns ==
    ASSUME TypeOK, NEW r \in Runners, statusOrNull(r), KindRun(r) \in {"BOOK", "CANCEL"}
    PROVE  \/ KindRun(r) = "BOOK" /\ \E todo \in {"systemConfirm", "systemOnRequest", "UNKNOWN"} : Says(r, todo)
           \/ KindRun(r) = "BOOK" /\ resv = <<>> /\ Says(r, "RETRY")
           \/ KindRun(r) = "CANCEL" /\ \E todo \in {"systemCompleteCancellation", "UNKNOWN", "RETRY"} : Says(r, todo)
<1>1. runner \in [Runners -> RunnerRow]
    BY TypeParts
<1>2. \A todo \in Records \cup RunnerMoves, word \in SupplierWords : Decide(r, todo, word) => Says(r, todo)
    BY <1>1, DecideSays
<1>3. CASE Decide(r, "UNKNOWN", "UNKNOWN")
    BY <1>2, <1>3, Words
<1>4. CASE resv = <<>> /\ KindRun(r) = "BOOK" /\ Decide(r, "RETRY", "NO_ANSWER")
    BY <1>2, <1>4, Words
<1>5. ASSUME NEW i \in Reported, KindRun(r) = "BOOK",
             Decide(r, IF resv[i] = "ON_REQUEST" THEN "systemOnRequest" ELSE "systemConfirm", resv[i])
      PROVE  \E todo \in {"systemConfirm", "systemOnRequest", "UNKNOWN"} : Says(r, todo)
    <2>1. resv[i] \in SupplierWords
        BY ReportedLive, Words
    <2>2. "systemConfirm" \in Records \cup RunnerMoves /\ "systemOnRequest" \in Records \cup RunnerMoves
        BY Words DEF Bookings
    <2> QED BY <1>2, <1>5, <2>1, <2>2
<1>6. CASE KindRun(r) # "BOOK" /\ Decide(r, "systemCompleteCancellation", "CANCELLED")
    BY <1>2, <1>6, Words
<1>7. CASE KindRun(r) # "BOOK" /\ Decide(r, "RETRY", "CANCEL_FAILED")
    BY <1>2, <1>7, Words
<1> QED BY <1>3, <1>4, <1>5, <1>6, <1>7 DEF statusOrNull

LEMMA SyncTurns ==
    ASSUME TypeOK, NEW r \in Runners, sync(r)
    PROVE  \E todo \in Concludes("STATUS_CHECK", runner[r].read) :
               /\ Says(r, todo)
               /\ \/ todo \in {"systemFail", "NOT_FOUND"}
                  \/ todo = "NOTED" /\ runner[r].read = "PENDING_SUPPLIER"
                  => LiveAt = {}
<1>1. runner \in [Runners -> RunnerRow]
    BY TypeParts
<1>2. \A todo \in Records \cup RunnerMoves, word \in SupplierWords : Decide(r, todo, word) => Says(r, todo)
    BY <1>1, DecideSays
<1>3. CASE Decide(r, "UNKNOWN", "UNKNOWN")
    <2>1. "UNKNOWN" \in Concludes("STATUS_CHECK", runner[r].read)
        BY DEF Concludes
    <2> QED BY <1>2, <1>3, <2>1, Words
<1>4. CASE resv = <<>> /\ runner[r].read = "PENDING_SUPPLIER" /\ Decide(r, "NOT_FOUND", "NOT_FOUND")
    <2>1. LiveAt = {}
        BY <1>4 DEF LiveAt
    <2>2. "NOT_FOUND" \in Concludes("STATUS_CHECK", runner[r].read)
        BY <1>4 DEF Concludes
    <2> QED BY <1>2, <1>4, <2>1, <2>2, Words
<1>5. ASSUME NEW i \in Reported, Decide(r, SyncMove(runner[r].read, resv[i]), resv[i])
      PROVE  \E todo \in Concludes("STATUS_CHECK", runner[r].read) :
                 /\ Says(r, todo)
                 /\ \/ todo \in {"systemFail", "NOT_FOUND"}
                    \/ todo = "NOTED" /\ runner[r].read = "PENDING_SUPPLIER"
                    => LiveAt = {}
    <2>1. resv[i] \in SupplierStates /\ (~Live(resv[i]) => LiveAt = {})
        BY ReportedLive
    <2> DEFINE todo == SyncMove(runner[r].read, resv[i])
    <2>2. todo \in Concludes("STATUS_CHECK", runner[r].read)
        BY DEF SyncMove, BookMove, Concludes, Bookings
    <2>3. todo \in Records \cup RunnerMoves
        BY DEF SyncMove, BookMove, Records, RunnerMoves
    <2>4. Says(r, todo)
        BY <1>2, <1>5, <2>1, <2>3, Words
    <2>5. todo \in {"systemFail", "NOT_FOUND"} \/ (todo = "NOTED" /\ runner[r].read = "PENDING_SUPPLIER") => ~Live(resv[i])
        BY DEF SyncMove, BookMove, Live
    <2> QED BY <2>1, <2>2, <2>4, <2>5
<1> QED BY <1>3, <1>4, <1>5 DEF sync

-----------------------------------------------------------------------------
(* The supplier's side: a reservation is added, or one changes.             *)

LEMMA ResvAdd ==
    ASSUME resv \in Seq(SupplierStates), NEW w \in SupplierStates, resv' = Append(resv, w)
    PROVE  /\ resv' \in Seq(SupplierStates)
           /\ LiveAt' = LiveAt \cup (IF Live(w) THEN {Len(resv) + 1} ELSE {})
<1>1. /\ resv' \in Seq(SupplierStates) /\ Len(resv') = Len(resv) + 1 /\ resv'[Len(resv) + 1] = w
      /\ \A k \in 1..Len(resv) : resv'[k] = resv[k]
    BY AppendProperties
<1>2. DOMAIN resv' = 1..(Len(resv) + 1) /\ DOMAIN resv = 1..Len(resv) /\ Len(resv) \in Nat
    BY <1>1, LenProperties
<1>3. DOMAIN resv' = DOMAIN resv \cup {Len(resv) + 1} /\ Len(resv) + 1 \notin DOMAIN resv
    BY <1>2
<1> HIDE DEF Live
<1> QED BY <1>1, <1>2, <1>3 DEF LiveAt

LEMMA ResvPut ==
    ASSUME resv \in Seq(SupplierStates), NEW i \in DOMAIN resv, NEW w \in SupplierStates, resv' = [resv EXCEPT ![i] = w]
    PROVE  /\ resv' \in Seq(SupplierStates)
           /\ Live(resv[i]) \/ ~Live(w) => LiveAt' \subseteq LiveAt
<1>1. DOMAIN resv = 1..Len(resv) /\ \A k \in DOMAIN resv : resv[k] \in SupplierStates
    BY LenProperties, ElementOfSeq
<1>2. resv' \in [DOMAIN resv -> SupplierStates]
    BY <1>1
<1>3. resv' \in Seq(SupplierStates) /\ DOMAIN resv' = DOMAIN resv
    BY <1>2, SeqLike
<1> HIDE DEF Live
<1> QED BY <1>3 DEF LiveAt

\* Only a BOOK call adds to what is held.
LEMMA LiveSteps ==
    ASSUME TypeOK, [Next]_vars
    PROVE  /\ resv' \in Seq(SupplierStates)
           /\ LiveAt' \subseteq LiveAt \/ \E r \in Runners : book(r)
<1>0. resv \in Seq(SupplierStates)
    BY DEF TypeOK
<1>1. CASE UNCHANGED resv
    BY <1>0, <1>1 DEF LiveAt
<1>2. ASSUME NEW r \in Runners, book(r) PROVE resv' \in Seq(SupplierStates)
    BY <1>0, <1>1, <1>2, BookTurns, ResvAdd
<1>3. ASSUME NEW r \in Runners, cancel(r) PROVE resv' \in Seq(SupplierStates) /\ LiveAt' \subseteq LiveAt
    <2>1. CASE resv' # resv
        <3>1. PICK i \in LiveAt : resv' = [resv EXCEPT ![i] = "CANCELLED"]
            BY <1>3, <2>1, CancelTurns
        <3>2. i \in DOMAIN resv /\ "CANCELLED" \in SupplierStates /\ ~Live("CANCELLED")
            BY DEF LiveAt, SupplierStates, Live
        <3> QED BY <1>0, <3>1, <3>2, ResvPut
    <2>2. CASE resv' = resv
        BY <1>0, <2>2 DEF LiveAt
    <2> QED BY <2>1, <2>2
<1>4. ASSUME NEW i \in DOMAIN resv, supplierDecides(i) PROVE resv' \in Seq(SupplierStates) /\ LiveAt' \subseteq LiveAt
    <2>1. PICK w \in {"CONFIRMED", "REJECTED"} : resv' = [resv EXCEPT ![i] = w]
        BY <1>4 DEF supplierDecides
    <2>2. w \in SupplierStates /\ Live(resv[i])
        BY <1>4 DEF supplierDecides, SupplierStates, Live
    <2> QED BY <1>0, <2>1, <2>2, ResvPut
<1>5. CASE UNCHANGED vars
    BY <1>1, <1>5 DEF vars
<1> QED BY <1>1, <1>2, <1>3, <1>4, <1>5
        DEF Next, RunnerStep, request, claim, readFacts, statusOrNull, sync, record, runnerError, crash, leaseEnds, waitEnds,
            act, answerMoves, answerNoBooking, answerRefused

-----------------------------------------------------------------------------
(* Type correctness, and the closed booking.                                *)

LEMMA IdleRow == Idle \in RunnerRow
BY ConstantsOK DEF Idle, RunnerRow, ConstantsOK, SupplierWords

\* A runner puts its work down.
LEMMA PutDown ==
    ASSUME runner \in [Runners -> RunnerRow], NEW r \in Runners, runner' = [runner EXCEPT ![r] = Idle]
    PROVE  Turned(r, Idle)
BY IdleRow DEF Turned

LEMMA ClaimTurns ==
    ASSUME TypeOK, NEW r \in Runners, NEW j \in DOMAIN jobs, claim(r, j)
    PROVE  \/ UNCHANGED runner
           \/ \E row : Turned(r, row) /\ row.pc = "facts" /\ row.job = j /\ row.read = "none" /\ row.todo = "none"
<1>1. runner \in [Runners -> RunnerRow] /\ JobTypes
    BY TypeParts
<1>2. CASE jobs[j].attempt + 1 \in 0..MaxAttempts
           /\ runner' = [runner EXCEPT ![r] = [Idle EXCEPT !.pc = "facts", !.job = j, !.attempt = jobs[j].attempt + 1]]
    <2> DEFINE row == [Idle EXCEPT !.pc = "facts", !.job = j, !.attempt = jobs[j].attempt + 1]
    <2>1. j \in 0..MaxJobs
        BY <1>1, JobsDomain, ConstantsOK DEF ConstantsOK
    <2>2. row \in RunnerRow /\ row.pc = "facts" /\ row.job = j /\ row.read = "none" /\ row.todo = "none"
        BY <1>2, <2>1, IdleRow DEF RunnerRow, Idle
    <2> HIDE DEF row
    <2>3. runner' = [runner EXCEPT ![r] = row]
        BY <1>2 DEF row
    <2>4. Turned(r, row)
        BY <1>1, <2>2, <2>3 DEF Turned
    <2> QED BY <2>2, <2>4
<1> QED BY <1>1, <1>2, ClaimPuts

LEMMA RunnerTypesKept ==
    ASSUME TypeOK, [Next]_vars
    PROVE  runner' \in [Runners -> RunnerRow]
<1>0. runner \in [Runners -> RunnerRow]
    BY TypeParts
<1>1. CASE UNCHANGED runner
    BY <1>0, <1>1
<1>2. ASSUME NEW r \in Runners, \E todo : Says(r, todo) PROVE runner' \in [Runners -> RunnerRow]
    BY <1>2 DEF Says, Turned
<1>3. ASSUME NEW r \in Runners, RunnerStep(r) \/ runnerError(r) \/ crash(r) PROVE runner' \in [Runners -> RunnerRow]
    <2>1. CASE readFacts(r)
        BY <1>2, <2>1, ReadTurns DEF Reads, Turned
    <2>2. CASE book(r)
        BY <1>2, <2>2, BookTurns DEF Asks, Turned
    <2>3. CASE cancel(r)
        BY <1>2, <2>3, CancelTurns DEF Asks, Turned
    <2>4. CASE sync(r)
        BY <1>2, <2>4, SyncTurns
    <2>5. CASE record(r) \/ runnerError(r) \/ crash(r)
        BY <1>0, <2>5, PutDown DEF record, runnerError, crash, Turned
    <2>6. CASE statusOrNull(r)
        <3>1. \A todo \in Records \cup RunnerMoves, word \in SupplierWords : Decide(r, todo, word) => Says(r, todo)
            BY <1>0, DecideSays
        <3>2. ASSUME NEW todo \in Records \cup RunnerMoves, NEW word \in SupplierWords, Decide(r, todo, word)
              PROVE  runner' \in [Runners -> RunnerRow]
            BY <1>2, <3>1, <3>2
        <3>3. \A i \in Reported : resv[i] \in SupplierWords
            BY ReportedLive, Words
        <3>4. "systemConfirm" \in Records \cup RunnerMoves /\ "systemOnRequest" \in Records \cup RunnerMoves
            BY Words DEF Bookings
        <3> QED BY <2>6, <3>2, <3>3, <3>4, Words DEF statusOrNull
    <2> QED BY <1>3, <2>1, <2>2, <2>3, <2>4, <2>5, <2>6 DEF RunnerStep
<1>4. ASSUME NEW r \in Runners, NEW j \in DOMAIN jobs, claim(r, j) PROVE runner' \in [Runners -> RunnerRow]
    BY <1>1, <1>4, ClaimTurns DEF Turned
<1>5. CASE UNCHANGED vars
    BY <1>1, <1>5 DEF vars
<1> QED BY <1>1, <1>3, <1>4, <1>5 DEF Next, request, leaseEnds, waitEnds, act, answerMoves, answerNoBooking, answerRefused, supplierDecides

LEMMA JobTypesKept ==
    ASSUME TypeOK, [Next]_vars
    PROVE  JobTypes'
<1>0. JobTypes /\ runner \in [Runners -> RunnerRow]
    BY TypeParts
<1>1. CASE UNCHANGED jobs
    BY <1>0, <1>1 DEF JobTypes
<1>2. ASSUME NEW j, NEW st \in {"SUCCEEDED", "FAILED", "UNKNOWN"}, stop(j, st) PROVE JobTypes'
    BY <1>0, <1>2, StopPuts DEF JobStatuses
<1>3. ASSUME NEW j, waitForRetry(j) PROVE JobTypes'
    BY <1>0, <1>3, WaitPuts
<1>4. ASSUME NEW r \in Runners, record(r) \/ runnerError(r) PROVE JobTypes'
    BY <1>2, <1>3, <1>4 DEF record, runnerError, move
<1>5. CASE closeUnknown
    BY <1>0, <1>5, ClosePuts
<1>6. CASE \E op \in {"send", "cancel", "retryNow", "sync"} : request(op)
    BY <1>0, <1>6, RequestPuts
<1>7. ASSUME NEW r \in Runners, NEW j \in DOMAIN jobs, claim(r, j) PROVE JobTypes'
    BY <1>0, <1>7, ClaimPuts
<1>8. ASSUME NEW j \in DOMAIN jobs, leaseEnds(j) \/ waitEnds(j) PROVE JobTypes'
    BY <1>0, <1>8, ClockPuts
<1>9. CASE UNCHANGED vars
    BY <1>1, <1>9 DEF vars
<1> QED BY <1>1, <1>4, <1>5, <1>6, <1>7, <1>8, <1>9
        DEF Next, RunnerStep, readFacts, book, cancel, statusOrNull, sync, crash, act, answerMoves, answerNoBooking, answerRefused,
            supplierDecides

LEMMA TypeInit == Init => TypeOK
<1> SUFFICES ASSUME Init PROVE TypeOK
    OBVIOUS
<1>1. BookingTypes
    BY DEF Init, BookingTypes, Statuses, SupplierWords
<1>2. [kind |-> "BOOK", st |-> "QUEUED", attempt |-> 0, leased |-> FALSE, due |-> TRUE] \in JobRow
    BY ConstantsOK DEF JobRow, Kinds, JobStatuses, ConstantsOK
<1>3. JobTypes
    <2> DEFINE row == [kind |-> "BOOK", st |-> "QUEUED", attempt |-> 0, leased |-> FALSE, due |-> TRUE]
    <2>1. jobs \in {<<>>, <<row>>}
        BY DEF Init
    <2>2. row \in JobRow
        BY <1>2
    <2> HIDE DEF row
    <2>3. jobs \in Seq(JobRow) /\ Len(jobs) <= 1
        <3>1. CASE jobs = <<>>
            BY <3>1, EmptySeq
        <3>2. CASE jobs = <<row>>
            BY <2>2, <3>2
        <3> QED BY <2>1, <3>1, <3>2
    <2> QED BY <2>3, ConstantsOK, LenProperties DEF JobTypes, ConstantsOK
<1>4. runner \in [Runners -> RunnerRow]
    BY IdleRow DEF Init
<1>5. resv \in Seq(SupplierStates) /\ lost \in BOOLEAN
    BY EmptySeq DEF Init
<1> QED BY <1>1, <1>3, <1>4, <1>5, TypeParts

LEMMA TypeNext == TypeOK /\ [Next]_vars => TypeOK'
<1> SUFFICES ASSUME TypeOK, [Next]_vars PROVE TypeOK'
    OBVIOUS
<1>1. BookingTypes'
    BY TypeParts, StepOfBooking, BookingTypesKept
<1>2. lost' \in BOOLEAN
    <2>1. lost' = lost \/ lost' = TRUE \/ \E r \in Runners : lost' = (lost \/ runner[r].pc \in {"ask", "record"})
        BY DEF Next, vars, RunnerStep, request, claim, readFacts, book, cancel, statusOrNull, sync, record, runnerError, crash,
               leaseEnds, waitEnds, act, answerMoves, answerNoBooking, answerRefused, supplierDecides
    <2> QED BY <2>1 DEF TypeOK
<1> QED BY <1>1, <1>2, JobTypesKept, RunnerTypesKept, LiveSteps DEF TypeOK, BookingTypes, JobTypes, RunnerRow

\* Every booking, job, runner and reservation keeps its type: attempts stay within MaxAttempts (the claim's limit),
\* a runner's job is one of the queue, no conclusion outside the code's.
THEOREM TypeCorrect == Spec => []TypeOK
BY TypeInit, TypeNext, PTL DEF Spec

\* Once closed, nothing changes what the booking says (ClosedIsFrozen): no late runner, sync, person or nightly job.
THEOREM ClosedStaysFrozen == Spec => ClosedIsFrozen
<1>1. TypeOK /\ [Next]_vars => [closed => UNCHANGED bookingVars]_vars
    <2> SUFFICES ASSUME TypeOK, [Next]_vars, closed PROVE UNCHANGED bookingVars
        OBVIOUS
    <2>1. BookingStep
        BY StepOfBooking
    <2> QED BY <2>1 DEF BookingStep, setSupplierStatus, transitionBooking, MayMove, bookingVars
<1> QED BY <1>1, TypeCorrect, PTL DEF Spec, ClosedIsFrozen


-----------------------------------------------------------------------------
(* The money facts follow the status.                                       *)

LEMMA FinanceStep ==
    ASSUME BookingTypes, FinanceInv, BookingStep
    PROVE  FinanceInv'
<1>1. CASE UNCHANGED bookingVars
    BY <1>1 DEF bookingVars, FinanceInv, FinanceFollowsStatus
<1>2. ASSUME NEW word \in SupplierWords, setSupplierStatus(word) PROVE FinanceInv'
    BY <1>2 DEF setSupplierStatus, FinanceInv, FinanceFollowsStatus
<1>3. ASSUME NEW a \in Moves, NEW word \in SupplierWords, transitionBooking(a, word) PROVE FinanceInv'
    <2>1. status = From(a) /\ status' = To(a) /\ finance' = Posted(finance, a)
        BY <1>3 DEF transitionBooking, MayMove
    <2>2. \A t \in FinanceTypes : finance[t] \in Nat /\ finance'[t] = finance[t] + IF t \in Emits(a, finance) THEN 1 ELSE 0
        BY <2>1 DEF Posted, BookingTypes
    <2>3. {"CONFIRMED", "ON_REQUEST_HOLD", "HOLD_RELEASED", "CANCELLED"} \subseteq FinanceTypes
        BY DEF FinanceTypes
    <2>4. CASE a \in Confirming /\ From(a) \in {"PENDING_SUPPLIER", "ON_REQUEST"} /\ To(a) = "CONFIRMED"
        <3>1. Emits(a, finance) = {"CONFIRMED"}
            BY <2>4 DEF Emits
        <3> QED BY <2>1, <2>2, <2>3, <2>4, <3>1 DEF FinanceInv, FinanceFollowsStatus
    <2>5. CASE a \in Holding /\ From(a) = "PENDING_SUPPLIER" /\ To(a) = "ON_REQUEST"
        <3>1. Emits(a, finance) = {"ON_REQUEST_HOLD"}
            BY <2>5 DEF Emits, Holding, Confirming
        <3> QED BY <2>1, <2>2, <2>3, <2>5, <3>1 DEF FinanceInv, FinanceFollowsStatus
    <2>6. CASE a \in Releasing /\ From(a) = "PENDING_SUPPLIER" /\ To(a) = "FAILED"
        <3>1. finance["ON_REQUEST_HOLD"] = 0 /\ finance["HOLD_RELEASED"] = 0
            BY <2>1, <2>6 DEF FinanceInv, FinanceFollowsStatus
        <3>2. Emits(a, finance) = {}
            BY <2>6, <3>1 DEF Emits, Holding, Confirming, Releasing
        <3> QED BY <2>1, <2>2, <2>3, <2>6, <3>2 DEF FinanceInv, FinanceFollowsStatus
    <2>7. CASE a \in Releasing /\ From(a) = "ON_REQUEST" /\ To(a) = "REJECTED"
        <3>1. finance["ON_REQUEST_HOLD"] = 1 /\ finance["HOLD_RELEASED"] = 0
            BY <2>1, <2>7 DEF FinanceInv, FinanceFollowsStatus
        <3>2. Emits(a, finance) = {"HOLD_RELEASED"}
            BY <2>7, <3>1 DEF Emits, Holding, Confirming, Releasing
        <3> QED BY <2>1, <2>2, <2>3, <2>7, <3>2 DEF FinanceInv, FinanceFollowsStatus
    <2>8. CASE a \in Completing /\ From(a) = "CANCEL_REQUESTED" /\ To(a) = "CANCELLED"
        <3>1. Emits(a, finance) = {"CANCELLED"}
            BY <2>8 DEF Emits, Holding, Confirming, Releasing, Completing
        <3> QED BY <2>1, <2>2, <2>3, <2>8, <3>1 DEF FinanceInv, FinanceFollowsStatus
    <2>9. CASE /\ a \notin Confirming \cup Holding \cup Releasing \cup Completing
               /\ From(a) = To(a) \/ {From(a), To(a)} \subseteq {"CONFIRMED", "AMEND_REQUESTED", "CANCEL_REQUESTED",
                                                                 "CHECKED_OUT", "NO_SHOW"}
        <3>1. Emits(a, finance) \subseteq {"NO_SHOW"}
            BY <2>9 DEF Emits
        <3> QED BY <2>1, <2>2, <2>3, <2>9, <3>1 DEF FinanceInv, FinanceFollowsStatus
    <2> QED BY <2>4, <2>5, <2>6, <2>7, <2>8, <2>9, MoveTable
<1> QED BY <1>1, <1>2, <1>3 DEF BookingStep

\* The money facts agree with the status (FinanceFollowsStatus), whichever of a person, a runner and a late answer
\* moved it, with every fault allowed: the compare-and-set of transitionBooking is enough.
THEOREM FinanceFollows == Spec => []FinanceFollowsStatus
<1>1. Init => FinanceInv
    BY DEF Init, FinanceInv, FinanceFollowsStatus, FinanceTypes
<1>2. TypeOK /\ FinanceInv /\ [Next]_vars => FinanceInv'
    BY TypeParts, StepOfBooking, FinanceStep
<1>3. FinanceInv => FinanceFollowsStatus
    BY DEF FinanceInv
<1> QED BY <1>1, <1>2, <1>3, TypeCorrect, PTL DEF Spec

-----------------------------------------------------------------------------
(* One active job, while leases outlast their runners.                      *)

\* A job keeps its kind, and a row is added at most.
LEMMA KindsStay ==
    ASSUME TypeOK, [Next]_vars
    PROVE  DOMAIN jobs \subseteq DOMAIN jobs' /\ \A k \in DOMAIN jobs : jobs'[k].kind = jobs[k].kind
<1>0. JobTypes /\ \A k \in DOMAIN jobs : jobs[k] \in JobRow
    BY TypeParts, JobsDomain
<1>1. CASE UNCHANGED jobs
    BY <1>1
<1>2. ASSUME NEW j, NEW st \in {"SUCCEEDED", "FAILED", "UNKNOWN"}, stop(j, st)
      PROVE  DOMAIN jobs \subseteq DOMAIN jobs' /\ \A k \in DOMAIN jobs : jobs'[k].kind = jobs[k].kind
    <2>1. st \in JobStatuses
        BY DEF JobStatuses
    <2>2. /\ DOMAIN jobs' = DOMAIN jobs
          /\ \A k \in DOMAIN jobs : jobs'[k] = IF k = j THEN [jobs[j] EXCEPT !.st = st, !.leased = FALSE] ELSE jobs[k]
        BY <1>0, <1>2, <2>1, StopPuts
    <2>3. \A row \in JobRow : [row EXCEPT !.st = st, !.leased = FALSE].kind = row.kind
        BY DEF JobRow
    <2> QED BY <1>0, <2>2, <2>3
<1>3. ASSUME NEW j, waitForRetry(j)
      PROVE  DOMAIN jobs \subseteq DOMAIN jobs' /\ \A k \in DOMAIN jobs : jobs'[k].kind = jobs[k].kind
    <2>1. /\ DOMAIN jobs' = DOMAIN jobs
          /\ \A k \in DOMAIN jobs :
                 jobs'[k] = IF k = j THEN [jobs[j] EXCEPT !.st = "RETRY_WAIT", !.leased = FALSE, !.due = FALSE] ELSE jobs[k]
        BY <1>0, <1>3, WaitPuts
    <2>2. \A row \in JobRow : [row EXCEPT !.st = "RETRY_WAIT", !.leased = FALSE, !.due = FALSE].kind = row.kind
        BY DEF JobRow
    <2> QED BY <1>0, <2>1, <2>2
<1>4. ASSUME NEW r \in Runners, record(r) \/ runnerError(r)
      PROVE  DOMAIN jobs \subseteq DOMAIN jobs' /\ \A k \in DOMAIN jobs : jobs'[k].kind = jobs[k].kind
    BY <1>2, <1>3, <1>4 DEF record, runnerError, move
<1>5. CASE closeUnknown
    BY <1>0, <1>5, ClosePuts DEF JobRow
<1>6. ASSUME NEW op \in {"send", "cancel", "retryNow", "sync"}, request(op)
      PROVE  DOMAIN jobs \subseteq DOMAIN jobs' /\ \A k \in DOMAIN jobs : jobs'[k].kind = jobs[k].kind
    BY <1>0, <1>6, RequestPuts DEF JobRow
<1>7. ASSUME NEW r \in Runners, NEW j \in DOMAIN jobs, claim(r, j)
      PROVE  DOMAIN jobs \subseteq DOMAIN jobs' /\ \A k \in DOMAIN jobs : jobs'[k].kind = jobs[k].kind
    BY <1>0, <1>7, ClaimPuts
<1>8. ASSUME NEW j \in DOMAIN jobs, leaseEnds(j) \/ waitEnds(j)
      PROVE  DOMAIN jobs \subseteq DOMAIN jobs' /\ \A k \in DOMAIN jobs : jobs'[k].kind = jobs[k].kind
    BY <1>0, <1>8, ClockPuts
<1>9. CASE UNCHANGED vars
    BY <1>1, <1>9 DEF vars
<1> QED BY <1>1, <1>4, <1>5, <1>6, <1>7, <1>8, <1>9
        DEF Next, RunnerStep, readFacts, book, cancel, statusOrNull, sync, crash, act, answerMoves, answerNoBooking, answerRefused,
            supplierDecides

\* The steps of a runner at work: it goes on with its job, and the queue does not change.
GoesOn(r) ==
    /\ Works(r) /\ UNCHANGED <<bookingVars, jobs, lost>>
    /\ \E row : Turned(r, row) /\ row.job = runner[r].job /\ row.pc # "idle"

LEMMA SaysGoesOn ==
    ASSUME TypeOK, NEW r \in Runners, Works(r), UNCHANGED <<bookingVars, jobs, lost>>,
           Asks(r) \/ Reads(r) \/ \E todo : Says(r, todo)
    PROVE  GoesOn(r)
<1>1. runner[r] \in RunnerRow
    BY TypeParts
<1>a. ASSUME NEW row, Turned(r, row), row.job = runner[r].job, row.pc # "idle" PROVE GoesOn(r)
    BY <1>a DEF GoesOn
<1>2. CASE Asks(r)
    <2>1. [runner[r] EXCEPT !.pc = "ask"].job = runner[r].job /\ [runner[r] EXCEPT !.pc = "ask"].pc # "idle"
        BY <1>1 DEF RunnerRow
    <2> QED BY <1>a, <1>2, <2>1 DEF Asks
<1>3. CASE Reads(r)
    <2>1. /\ [runner[r] EXCEPT !.pc = "call", !.read = status].job = runner[r].job
          /\ [runner[r] EXCEPT !.pc = "call", !.read = status].pc # "idle"
        BY <1>1 DEF RunnerRow
    <2> QED BY <1>a, <1>3, <2>1 DEF Reads
<1>4. ASSUME NEW todo, NEW word, Turned(r, [runner[r] EXCEPT !.pc = "record", !.todo = todo, !.word = word]) PROVE GoesOn(r)
    <2>1. /\ [runner[r] EXCEPT !.pc = "record", !.todo = todo, !.word = word].job = runner[r].job
          /\ [runner[r] EXCEPT !.pc = "record", !.todo = todo, !.word = word].pc # "idle"
        BY <1>1 DEF RunnerRow
    <2> QED BY <1>a, <1>4, <2>1
<1> QED BY <1>2, <1>3, <1>4 DEF Says

\* A runner puts its job down, as finished, as waiting, or by dying.
PutsDown(r) ==
    /\ Works(r) /\ Turned(r, Idle)
    /\ \/ UNCHANGED jobs
       \/ waitForRetry(runner[r].job)
       \/ \E st \in {"SUCCEEDED", "FAILED", "UNKNOWN"} : stop(runner[r].job, st)

LEMMA RunnerSteps ==
    ASSUME TypeOK, NEW r \in Runners, RunnerStep(r) \/ runnerError(r) \/ crash(r)
    PROVE  GoesOn(r) \/ PutsDown(r)
<1>0. runner \in [Runners -> RunnerRow]
    BY TypeParts
<1>1. CASE readFacts(r)
    BY <1>1, ReadTurns, SaysGoesOn DEF readFacts, Works
<1>2. CASE book(r)
    BY <1>2, BookTurns, SaysGoesOn DEF book, Works
<1>3. CASE cancel(r)
    BY <1>3, CancelTurns, SaysGoesOn DEF cancel, Works
<1>4. CASE sync(r)
    BY <1>4, SyncTurns, SaysGoesOn DEF sync, Works
<1>5. CASE record(r) \/ runnerError(r) \/ crash(r)
    <2>1. Turned(r, Idle) /\ Works(r)
        BY <1>0, <1>5, PutDown DEF record, runnerError, crash, Works
    <2>2. CASE record(r)
        BY <2>1, <2>2 DEF record, PutsDown, move
    <2>3. CASE runnerError(r) \/ crash(r)
        BY <2>1, <2>3 DEF runnerError, crash, PutsDown
    <2> QED BY <1>5, <2>2, <2>3
<1>6. CASE statusOrNull(r)
    <2>0. Works(r) /\ UNCHANGED <<bookingVars, jobs, lost>>
        BY <1>6 DEF statusOrNull, Works
    <2>1. \A todo \in Records \cup RunnerMoves, word \in SupplierWords : Decide(r, todo, word) => Says(r, todo)
        BY <1>0, DecideSays
    <2>2. ASSUME NEW todo \in Records \cup RunnerMoves, NEW word \in SupplierWords, Decide(r, todo, word)
          PROVE  GoesOn(r)
        BY <2>0, <2>1, <2>2, SaysGoesOn
    <2>3. \A i \in Reported : resv[i] \in SupplierWords
        BY ReportedLive, Words
    <2>4. "systemConfirm" \in Records \cup RunnerMoves /\ "systemOnRequest" \in Records \cup RunnerMoves
        BY Words DEF Bookings
    <2> QED BY <1>6, <2>2, <2>3, <2>4, Words DEF statusOrNull
<1> QED BY <1>1, <1>2, <1>3, <1>4, <1>5, <1>6 DEF RunnerStep


LEMMA WorkKept ==
    ASSUME "slow" \notin Faults, TypeOK, WorkInv, [Next]_vars
    PROVE  WorkInv'
<1>0. /\ JobTypes /\ runner \in [Runners -> RunnerRow] /\ \A k \in DOMAIN jobs : jobs[k] \in JobRow
    BY TypeParts, JobsDomain
<1>1. CASE UNCHANGED <<jobs, runner>>
    BY <1>1 DEF WorkInv, Works, ActiveJobs
<1>2. ASSUME NEW r \in Runners, GoesOn(r) PROVE WorkInv'
    <2>1. PICK row : Turned(r, row) /\ row.job = runner[r].job /\ row.pc # "idle"
        BY <1>2 DEF GoesOn
    <2>2. \A s \in Runners : (Works(s)' <=> Works(s)) /\ runner'[s].job = runner[s].job
        BY <1>2, <2>1 DEF GoesOn, Turned, Works
    <2>3. jobs' = jobs
        BY <1>2 DEF GoesOn
    <2> HIDE DEF Works
    <2> QED BY <2>2, <2>3 DEF WorkInv, ActiveJobs
<1>3. ASSUME NEW r \in Runners, PutsDown(r) PROVE WorkInv'
    <2>1. \A s \in Runners : Works(s)' => s # r /\ Works(s) /\ runner'[s] = runner[s]
        BY <1>3 DEF PutsDown, Turned, Works, Idle
    <2>2. /\ DOMAIN jobs' = DOMAIN jobs
          /\ \A k \in DOMAIN jobs \ {runner[r].job} : jobs'[k] = jobs[k]
        <3>1. CASE waitForRetry(runner[r].job)
            BY <1>0, <3>1, WaitPuts
        <3>2. ASSUME NEW st \in {"SUCCEEDED", "FAILED", "UNKNOWN"}, stop(runner[r].job, st)
              PROVE  /\ DOMAIN jobs' = DOMAIN jobs
                     /\ \A k \in DOMAIN jobs \ {runner[r].job} : jobs'[k] = jobs[k]
            <4>1. st \in JobStatuses
                BY DEF JobStatuses
            <4> QED BY <1>0, <3>2, <4>1, StopPuts
        <3> QED BY <1>3, <3>1, <3>2 DEF PutsDown
    <2>3. Works(r) /\ runner[r].job \in ActiveJobs
        BY <1>3 DEF PutsDown, WorkInv, ActiveJobs, ACTIVE
    <2>4. ActiveJobs' \subseteq ActiveJobs
        BY <2>2, <2>3 DEF ActiveJobs
    <2>5. \A s \in Runners : Works(s)' => runner[s].job # runner[r].job
        BY <2>1, <2>3 DEF WorkInv
    <2> HIDE DEF Works
    <2> QED BY <2>1, <2>2, <2>4, <2>5 DEF WorkInv
<1>4. ASSUME NEW r \in Runners, NEW j \in DOMAIN jobs, claim(r, j) PROVE WorkInv'
    <2>1. claimable(j) /\ runner[r].pc = "idle"
        BY <1>4 DEF claim
    <2>2. \A s \in Runners : Works(s) => runner[s].job # j
        BY <2>1 DEF WorkInv, claimable
    <2>3. j \in ActiveJobs
        BY <2>1 DEF claimable, ActiveJobs, ACTIVE
    <2>4. DOMAIN jobs' = DOMAIN jobs /\ \A k \in DOMAIN jobs \ {j} : jobs'[k] = jobs[k]
        BY <1>0, <1>4, ClaimPuts
    <2>5. ActiveJobs' \subseteq ActiveJobs
        BY <2>3, <2>4 DEF ActiveJobs
    <2>6. CASE UNCHANGED runner
        BY <2>2, <2>4, <2>5, <2>6 DEF WorkInv, Works
    <2>7. ASSUME NEW row, Turned(r, row), row.pc = "facts", row.job = j PROVE WorkInv'
        <3>1. \A s \in Runners \ {r} : runner'[s] = runner[s] /\ (Works(s)' <=> Works(s))
            BY <2>7 DEF Turned, Works
        <3>2. runner'[r].job = j /\ Works(r)'
            BY <2>7 DEF Turned, Works
        <3>3. runner' # runner
            BY <2>1, <3>2 DEF Works
        <3>4. jobs'[j].st = "RUNNING" /\ jobs'[j].leased
            BY <1>0, <1>4, <3>3, ClaimPuts
        <3>5. \A s \in Runners : Works(s)' => /\ runner'[s].job \in DOMAIN jobs'
                                              /\ jobs'[runner'[s].job].st = "RUNNING" /\ jobs'[runner'[s].job].leased
            BY <2>2, <2>4, <3>1, <3>2, <3>4 DEF WorkInv
        <3>6. \A s, t \in Runners : Works(s)' /\ Works(t)' /\ runner'[s].job = runner'[t].job => s = t
            BY <2>2, <3>1, <3>2 DEF WorkInv
        <3> HIDE DEF Works
        <3> QED BY <2>5, <3>5, <3>6 DEF WorkInv
    <2> QED BY <1>4, <2>6, <2>7, ClaimTurns
<1>5. ASSUME NEW j \in DOMAIN jobs, leaseEnds(j) \/ waitEnds(j) PROVE WorkInv'
    <2>1. \A s \in Runners : Works(s) => runner[s].job # j
        BY <1>5 DEF leaseEnds, waitEnds, WorkInv, Works
    <2>2. /\ DOMAIN jobs' = DOMAIN jobs /\ \A k \in DOMAIN jobs \ {j} : jobs'[k] = jobs[k]
          /\ jobs'[j].st = jobs[j].st
        BY <1>0, <1>5, ClockPuts
    <2>3. runner' = runner /\ ActiveJobs' = ActiveJobs
        BY <1>5, <2>2 DEF leaseEnds, waitEnds, ActiveJobs
    <2> QED BY <2>1, <2>2, <2>3 DEF WorkInv, Works
<1>6. ASSUME NEW op \in {"send", "cancel", "retryNow", "sync"}, request(op) PROVE WorkInv'
    <2>1. runner' = runner
        BY <1>6 DEF request
    <2>2. CASE /\ DOMAIN jobs' = DOMAIN jobs
               /\ \E j \in DOMAIN jobs :
                      /\ jobs[j].st = "RETRY_WAIT"
                      /\ \A k \in DOMAIN jobs : jobs'[k] = IF k = j THEN [jobs[j] EXCEPT !.due = TRUE] ELSE jobs[k]
        <3>1. PICK j \in DOMAIN jobs :
                      /\ jobs[j].st = "RETRY_WAIT"
                      /\ \A k \in DOMAIN jobs : jobs'[k] = IF k = j THEN [jobs[j] EXCEPT !.due = TRUE] ELSE jobs[k]
            BY <2>2
        <3>2. \A k \in DOMAIN jobs : jobs'[k].st = jobs[k].st /\ jobs'[k].leased = jobs[k].leased
            <4>1. \A row \in JobRow : [row EXCEPT !.due = TRUE].st = row.st /\ [row EXCEPT !.due = TRUE].leased = row.leased
                BY DEF JobRow
            <4> QED BY <1>0, <3>1, <4>1
        <3>3. ActiveJobs' = ActiveJobs
            BY <2>2, <3>2 DEF ActiveJobs
        <3> QED BY <2>1, <2>2, <3>2, <3>3 DEF WorkInv, Works
    <2>3. CASE /\ ActiveJobs = {} /\ DOMAIN jobs' = DOMAIN jobs \cup {Len(jobs) + 1}
               /\ \A k \in DOMAIN jobs : jobs'[k] = jobs[k]
        <3>1. \A r \in Runners : ~Works(r)
            BY <2>3 DEF WorkInv, ActiveJobs, ACTIVE
        <3>2. ActiveJobs' \subseteq {Len(jobs) + 1}
            BY <2>3 DEF ActiveJobs
        <3> QED BY <2>1, <3>1, <3>2 DEF WorkInv, Works
    <2> QED BY <1>0, <1>6, <2>2, <2>3, RequestPuts
<1>7. ASSUME closeUnknown, UNCHANGED runner PROVE WorkInv'
    <2>1. /\ DOMAIN jobs' = DOMAIN jobs
          /\ \A k \in DOMAIN jobs : jobs'[k] = IF jobs[k].st = "UNKNOWN"
                                               THEN [jobs[k] EXCEPT !.st = "SUCCEEDED", !.leased = FALSE] ELSE jobs[k]
        BY <1>0, <1>7, ClosePuts
    <2>2. \A row \in JobRow : [row EXCEPT !.st = "SUCCEEDED", !.leased = FALSE].st = "SUCCEEDED"
        BY DEF JobRow
    <2>3. \A k \in DOMAIN jobs : (jobs[k].st = "UNKNOWN" /\ jobs'[k].st = "SUCCEEDED") \/ jobs'[k] = jobs[k]
        BY <1>0, <2>1, <2>2
    <2>4. ActiveJobs' \subseteq ActiveJobs
        BY <2>1, <2>3 DEF ActiveJobs, ACTIVE
    <2> QED BY <1>7, <2>1, <2>3, <2>4 DEF WorkInv, Works
<1>8. CASE UNCHANGED vars
    BY <1>1, <1>8 DEF vars
<1>9. ASSUME NEW r \in Runners, RunnerStep(r) \/ runnerError(r) \/ crash(r) PROVE WorkInv'
    BY <1>2, <1>3, <1>9, RunnerSteps
<1> QED BY <1>1, <1>4, <1>5, <1>6, <1>7, <1>8, <1>9 DEF Next, act, answerMoves, answerNoBooking, answerRefused, supplierDecides

LEMMA WorkInit == Init => WorkInv
<1> SUFFICES ASSUME Init PROVE WorkInv
    OBVIOUS
<1>1. \A r \in Runners : ~Works(r)
    BY DEF Init, Works, Idle
<1>2. \A j, k \in DOMAIN jobs : j = k
    <2> DEFINE row == [kind |-> "BOOK", st |-> "QUEUED", attempt |-> 0, leased |-> FALSE, due |-> TRUE]
    <2>1. jobs \in {<<>>, <<row>>}
        BY DEF Init
    <2> HIDE DEF row
    <2> QED BY <2>1
<1> QED BY <1>1, <1>2 DEF WorkInv, ActiveJobs

\* At most one job of the booking waits or runs (OneActiveJob), whatever crashes and whatever writes fail, provided a lease
\* outlasts the runner that holds it: LOCK_SECONDS against the supplier's call timeouts.
THEOREM OneJob == ASSUME "slow" \notin Faults PROVE Spec => []OneActiveJob
<1>1. TypeOK /\ WorkInv /\ [Next]_vars => WorkInv'
    BY WorkKept
<1>2. WorkInv => OneActiveJob
    <2> SUFFICES ASSUME WorkInv PROVE Cardinality(ActiveJobs) <= 1
        BY DEF OneActiveJob
    <2>1. CASE ActiveJobs = {}
        BY <2>1, FS_EmptySet
    <2>2. CASE ActiveJobs # {}
        <3>1. PICK j : ActiveJobs = {j}
            BY <2>2 DEF WorkInv
        <3> QED BY <3>1, FS_Singleton
    <2> QED BY <2>1, <2>2
<1> QED BY <1>1, <1>2, WorkInit, TypeCorrect, PTL DEF Spec


-----------------------------------------------------------------------------
(* What a runner has read and concluded fits its job.                       *)

LEMMA SaysRow ==
    ASSUME TypeOK, NEW r \in Runners, NEW todo, Says(r, todo)
    PROVE  /\ runner'[r].pc = "record" /\ runner'[r].todo = todo
           /\ runner'[r].read = runner[r].read /\ runner'[r].job = runner[r].job
           /\ \A s \in Runners \ {r} : runner'[s] = runner[s]
<1>1. runner[r] \in RunnerRow
    BY TypeParts
<1>2. PICK word : Turned(r, [runner[r] EXCEPT !.pc = "record", !.todo = todo, !.word = word])
    BY DEF Says
<1>3. runner'[r] = [runner[r] EXCEPT !.pc = "record", !.todo = todo, !.word = word] /\ \A s \in Runners \ {r} : runner'[s] = runner[s]
    BY <1>2 DEF Turned
<1> QED BY <1>1, <1>3 DEF RunnerRow

LEMMA AsksRow ==
    ASSUME TypeOK, NEW r \in Runners, Asks(r)
    PROVE  /\ runner'[r].pc = "ask" /\ runner'[r].read = runner[r].read /\ runner'[r].job = runner[r].job
           /\ \A s \in Runners \ {r} : runner'[s] = runner[s]
<1>1. runner[r] \in RunnerRow
    BY TypeParts
<1>2. runner'[r] = [runner[r] EXCEPT !.pc = "ask"] /\ \A s \in Runners \ {r} : runner'[s] = runner[s]
    BY DEF Turned, Asks
<1> QED BY <1>1, <1>2 DEF RunnerRow

LEMMA ReadsRow ==
    ASSUME TypeOK, NEW r \in Runners, Reads(r)
    PROVE  /\ runner'[r].pc = "call" /\ runner'[r].read = status /\ runner'[r].job = runner[r].job
           /\ \A s \in Runners \ {r} : runner'[s] = runner[s]
<1>1. runner[r] \in RunnerRow
    BY TypeParts
<1>2. runner'[r] = [runner[r] EXCEPT !.pc = "call", !.read = status] /\ \A s \in Runners \ {r} : runner'[s] = runner[s]
    BY DEF Turned, Reads
<1> QED BY <1>1, <1>2 DEF RunnerRow

\* A booking never waits for its supplier again, and only a closable one is locked.
LEMMA BookingGoesOn ==
    ASSUME TypeOK, BookingStep
    PROVE  /\ status' = "PENDING_SUPPLIER" => status = "PENDING_SUPPLIER" /\ (supStatus' = supStatus \/ \E w \in SupplierWords : setSupplierStatus(w))
           /\ (closed => status \in Closable) => (closed' => status' \in Closable)
<1>1. CASE UNCHANGED bookingVars
    BY <1>1 DEF bookingVars
<1>2. ASSUME NEW word \in SupplierWords, setSupplierStatus(word)
      PROVE  /\ status' = status /\ closed' = closed
    BY <1>2 DEF setSupplierStatus
<1>3. ASSUME NEW a \in Moves, NEW word \in SupplierWords, transitionBooking(a, word)
      PROVE  status' # "PENDING_SUPPLIER" /\ (closed' => status' \in Closable)
    <2>1. status' = To(a) /\ closed' = Locks(a)
        BY <1>3 DEF transitionBooking
    <2>2. Locks(a) => To(a) \in Closable
        BY RulesAreLegal DEF RulesAreLegal, Locks, Moves
    <2>3. To(a) # "PENDING_SUPPLIER"
        BY <2>2, MoveTable DEF Locks, Closable
    <2> QED BY <2>1, <2>2, <2>3
<1> QED BY <1>1, <1>2, <1>3 DEF BookingStep

\* One step of a runner that goes on: what it has read and concluded still fits.
LEMMA StepGoesOn ==
    ASSUME TypeOK, WorkInv, StepInv, NEW r \in Runners,
           readFacts(r) \/ book(r) \/ cancel(r) \/ statusOrNull(r) \/ sync(r)
    PROVE  StepOK(r)' /\ \A s \in Runners \ {r} : runner'[s] = runner[s]
<1>1. Works(r) /\ StepOK(r) /\ runner[r].job \in DOMAIN jobs
    BY DEF StepInv, WorkInv, Works, readFacts, book, cancel, statusOrNull, sync
<1>2. KindRun(r) \in Kinds
    BY <1>1, TypeParts, JobsDomain DEF KindRun, JobRow
<1>3. UNCHANGED <<bookingVars, jobs, lost>>
    BY DEF readFacts, book, cancel, statusOrNull, sync
<1>4. jobs' = jobs /\ status' = status
    BY <1>3 DEF bookingVars
<1>5. ASSUME NEW todo, Says(r, todo), runner[r].read # "none", todo \in Concludes(KindRun(r), runner[r].read)
      PROVE  StepOK(r)' /\ \A s \in Runners \ {r} : runner'[s] = runner[s]
    <2>1. KindRun(r)' = KindRun(r)
        BY <1>4, <1>5, SaysRow DEF KindRun
    <2> QED BY <1>1, <1>4, <1>5, <2>1, SaysRow DEF StepOK
<1>6. ASSUME Asks(r), runner[r].read # "none", KindRun(r) # "STATUS_CHECK"
      PROVE  StepOK(r)' /\ \A s \in Runners \ {r} : runner'[s] = runner[s]
    <2>1. KindRun(r)' = KindRun(r)
        BY <1>4, <1>6, AsksRow DEF KindRun
    <2> QED BY <1>1, <1>4, <1>6, <2>1, AsksRow DEF StepOK
<1>7. CASE readFacts(r)
    <2>1. runner[r].read = "none"
        BY <1>1, <1>7 DEF readFacts, StepOK
    <2>2. ASSUME NEW todo \in {"ALREADY_APPLIED", "NOT_CONFIGURED"}, Says(r, todo)
          PROVE  StepOK(r)' /\ \A s \in Runners \ {r} : runner'[s] = runner[s]
        BY <2>1, <2>2, SaysRow DEF StepOK
    <2>3. ASSUME Reads(r), Applicable(KindRun(r))
          PROVE  StepOK(r)' /\ \A s \in Runners \ {r} : runner'[s] = runner[s]
        <3>1. KindRun(r)' = KindRun(r)
            BY <1>4, <2>3, ReadsRow DEF KindRun
        <3>2. status \in ReadsFor(KindRun(r))
            BY <2>3 DEF Applicable, ReadsFor
        <3>3. status # "none"
            BY DEF TypeOK, Statuses
        <3> QED BY <1>4, <2>3, <3>1, <3>2, <3>3, ReadsRow DEF StepOK
    <2> QED BY <1>7, <2>2, <2>3, ReadTurns
<1>8. CASE book(r)
    <2>1. KindRun(r) = "BOOK" /\ runner[r].read # "none"
        BY <1>1, <1>8 DEF book, StepOK
    <2>2. \A w \in SupplierStates : BookMove(w) \in Concludes("BOOK", runner[r].read)
        BY DEF BookMove, Concludes, Bookings
    <2> QED BY <1>5, <1>6, <1>8, <2>1, <2>2, BookTurns
<1>9. CASE cancel(r)
    <2>1. KindRun(r) = "CANCEL" /\ runner[r].read # "none"
        BY <1>1, <1>9 DEF cancel, StepOK
    <2>2. {"systemCompleteCancellation", "CANCEL_FAILED"} \subseteq Concludes("CANCEL", runner[r].read)
        BY DEF Concludes
    <2> QED BY <1>5, <1>6, <1>9, <2>1, <2>2, CancelTurns
<1>10. CASE statusOrNull(r)
    <2>1. KindRun(r) \in {"BOOK", "CANCEL"} /\ runner[r].read # "none"
        BY <1>1, <1>2, <1>10 DEF statusOrNull, StepOK, Kinds
    <2>2. /\ {"systemConfirm", "systemOnRequest", "UNKNOWN", "RETRY"} \subseteq Concludes("BOOK", runner[r].read)
          /\ {"systemCompleteCancellation", "UNKNOWN", "RETRY"} \subseteq Concludes("CANCEL", runner[r].read)
        BY DEF Concludes, Bookings
    <2> QED BY <1>5, <1>10, <2>1, <2>2, AskTurns
<1>11. CASE sync(r)
    <2>1. KindRun(r) = "STATUS_CHECK" /\ runner[r].read # "none"
        BY <1>1, <1>11 DEF sync, StepOK
    <2> QED BY <1>5, <1>11, <2>1, SyncTurns
<1> QED BY <1>7, <1>8, <1>9, <1>10, <1>11

\* Where another runner's row, or nobody's, changes.
LEMMA StepFrame ==
    ASSUME TypeOK, WorkInv, StepInv, [Next]_vars, NEW s \in Runners, Works(s), runner'[s] = runner[s]
    PROVE  StepOK(s)' /\ KindRun(s)' = KindRun(s)
<1>1. runner[s].job \in DOMAIN jobs /\ StepOK(s)
    BY DEF WorkInv, StepInv
<1>2. KindRun(s)' = KindRun(s)
    BY <1>1, KindsStay DEF KindRun
<1>3. status' = "PENDING_SUPPLIER" => status = "PENDING_SUPPLIER"
    BY StepOfBooking, BookingGoesOn
<1> QED BY <1>1, <1>2, <1>3 DEF StepOK

LEMMA StepKept ==
    ASSUME TypeOK, WorkInv, StepInv, [Next]_vars
    PROVE  StepInv'
<1>0. runner \in [Runners -> RunnerRow]
    BY TypeParts
<1>1. closed' => status' \in Closable
    BY StepOfBooking, BookingGoesOn DEF StepInv
<1>2. ASSUME NEW s \in Runners, Works(s)', runner'[s] = runner[s] PROVE StepOK(s)'
    BY <1>2, StepFrame DEF Works
<1>3. CASE UNCHANGED runner
    BY <1>1, <1>2, <1>3 DEF StepInv, Works
<1>4. ASSUME NEW r \in Runners, readFacts(r) \/ book(r) \/ cancel(r) \/ statusOrNull(r) \/ sync(r) PROVE StepInv'
    BY <1>1, <1>2, <1>4, StepGoesOn DEF StepInv
<1>5. ASSUME NEW r \in Runners, record(r) \/ runnerError(r) \/ crash(r) PROVE StepInv'
    <2>1. Turned(r, Idle)
        BY <1>0, <1>5, PutDown DEF record, runnerError, crash
    <2>2. ~Works(r)' /\ \A s \in Runners \ {r} : runner'[s] = runner[s]
        BY <2>1 DEF Turned, Works, Idle
    <2> QED BY <1>1, <1>2, <2>2 DEF StepInv
<1>6. ASSUME NEW r \in Runners, NEW j \in DOMAIN jobs, claim(r, j) PROVE StepInv'
    <2>1. ASSUME NEW row, Turned(r, row), row.pc = "facts", row.read = "none" PROVE StepInv'
        <3>1. StepOK(r)' /\ \A s \in Runners \ {r} : runner'[s] = runner[s]
            BY <2>1 DEF Turned, StepOK
        <3> QED BY <1>1, <1>2, <3>1 DEF StepInv
    <2> QED BY <1>3, <1>6, <2>1, ClaimTurns
<1>7. CASE UNCHANGED vars
    BY <1>3, <1>7 DEF vars
<1> QED BY <1>3, <1>4, <1>5, <1>6, <1>7
        DEF Next, RunnerStep, request, leaseEnds, waitEnds, act, answerMoves, answerNoBooking, answerRefused, supplierDecides

LEMMA StepInit == Init => StepInv
BY DEF Init, StepInv, Works, Idle


-----------------------------------------------------------------------------
(* One reservation.  Only one runner works at a time, so what it concluded  *)
(* from its own call stays true until it is recorded.                       *)

Reserved == OneLive /\ BookClear /\ HeldIsKnown /\ NothingIsRight

LEMMA Alone ==
    ASSUME WorkInv, NEW r \in Runners, Works(r)
    PROVE  /\ runner[r].job \in ActiveJobs /\ \A j \in ActiveJobs : j = runner[r].job
           /\ \A s \in Runners : Works(s) => s = r
<1>1. \A s \in Runners : Works(s) => runner[s].job \in ActiveJobs
    BY DEF WorkInv, ActiveJobs, ACTIVE
<1> QED BY <1>1 DEF WorkInv

LEMMA LostStays ==
    ASSUME TypeOK, [Next]_vars, ~lost'
    PROVE  ~lost
BY DEF Next, vars, RunnerStep, request, claim, readFacts, book, cancel, statusOrNull, sync, record, runnerError, crash,
       leaseEnds, waitEnds, act, answerMoves, answerNoBooking, answerRefused, supplierDecides, TypeOK

\* A step that adds no reservation, leaves the runners alone and makes no job active.
LEMMA ReserveFrame ==
    ASSUME TypeOK, WorkInv, StepInv, Reserved, [Next]_vars, LiveAt' \subseteq LiveAt, UNCHANGED runner,
           \A j \in ActiveJobs' : j \in ActiveJobs \/ jobs'[j].kind # "BOOK" \/ LiveAt = {},
           status' = "PENDING_SUPPLIER" => LiveAt = {} \/ supStatus' = supStatus
    PROVE  Reserved'
<1>1. \A s \in Runners : (Works(s)' <=> Works(s)) /\ (Before(s)' <=> Before(s))
    BY DEF Works, Before
<1>2. \A s \in Runners : Works(s) => KindRun(s)' = KindRun(s)
    BY StepFrame
<1>3. \A j \in ActiveJobs : j \in DOMAIN jobs /\ jobs'[j].kind = jobs[j].kind
    BY KindsStay DEF ActiveJobs
<1>4. OneLive'
    BY DEF Reserved, OneLive
<1>5. BookClear'
    BY <1>1, <1>3 DEF Reserved, BookClear
<1>6. HeldIsKnown'
    <2> SUFFICES ASSUME status' = "PENDING_SUPPLIER", LiveAt' # {}
                 PROVE  supStatus' = "UNKNOWN" \/ \E r \in Runners : Works(r)' /\ KindRun(r)' = "BOOK" /\ ~Before(r)'
        BY DEF HeldIsKnown
    <2>1. status = "PENDING_SUPPLIER" /\ LiveAt # {} /\ supStatus' = supStatus
        BY StepOfBooking, BookingGoesOn
    <2> QED BY <1>1, <1>2, <2>1 DEF Reserved, HeldIsKnown
<1>7. NothingIsRight'
    <2>1. \A s \in Runners : SaysNothingHeld(s)' => SaysNothingHeld(s)
        BY <1>2 DEF SaysNothingHeld, Works
    <2> QED BY <2>1 DEF Reserved, NothingIsRight
<1> QED BY <1>4, <1>5, <1>6, <1>7 DEF Reserved

LEMMA ReserveQueue ==
    ASSUME "slow" \notin Faults, TypeOK, WorkInv, StepInv, Reserved, [Next]_vars,
           \/ \E op \in {"send", "cancel", "retryNow", "sync"} : request(op)
           \/ \E j \in DOMAIN jobs : leaseEnds(j) \/ waitEnds(j)
    PROVE  Reserved'
<1>0. JobTypes /\ \A k \in DOMAIN jobs : jobs[k] \in JobRow
    BY TypeParts, JobsDomain
<1>1. UNCHANGED <<bookingVars, runner, resv, lost>>
    BY DEF request, leaseEnds, waitEnds
<1>2. LiveAt' = LiveAt /\ supStatus' = supStatus /\ runner' = runner
    BY <1>1 DEF LiveAt, bookingVars
<1>3. ASSUME NEW j \in DOMAIN jobs, leaseEnds(j) \/ waitEnds(j) PROVE ActiveJobs' \subseteq ActiveJobs
    BY <1>0, <1>3, ClockPuts DEF ActiveJobs
<1>4. ASSUME NEW op \in {"send", "cancel", "retryNow", "sync"}, request(op)
      PROVE  \A j \in ActiveJobs' : j \in ActiveJobs \/ jobs'[j].kind # "BOOK" \/ LiveAt = {}
    <2>1. CASE /\ DOMAIN jobs' = DOMAIN jobs
               /\ \E j \in DOMAIN jobs :
                      /\ jobs[j].st = "RETRY_WAIT"
                      /\ \A k \in DOMAIN jobs : jobs'[k] = IF k = j THEN [jobs[j] EXCEPT !.due = TRUE] ELSE jobs[k]
        <3>1. \A row \in JobRow : [row EXCEPT !.due = TRUE].st = row.st
            BY DEF JobRow
        <3>2. \A k \in DOMAIN jobs : jobs'[k].st = jobs[k].st
            BY <1>0, <2>1, <3>1
        <3> QED BY <2>1, <3>2 DEF ActiveJobs
    <2>2. CASE /\ ActiveJobs = {} /\ op # "retryNow"
               /\ DOMAIN jobs' = DOMAIN jobs \cup {Len(jobs) + 1} /\ \A k \in DOMAIN jobs : jobs'[k] = jobs[k]
               /\ jobs'[Len(jobs) + 1] = [kind |-> KindOf(op), st |-> "QUEUED", attempt |-> 0, leased |-> FALSE, due |-> TRUE]
        <3>1. \A j \in ActiveJobs' : j \in ActiveJobs \/ jobs'[j].kind = KindOf(op)
            BY <2>2 DEF ActiveJobs
        <3>2. KindOf(op) = "BOOK" => op = "send"
            BY DEF KindOf
        <3>3. op = "send" => status = "PENDING_SUPPLIER" /\ supStatus # "UNKNOWN"
            BY <1>4 DEF request, supplierOpsFor
        <3>4. \A r \in Runners : ~Works(r)
            BY <2>2, Alone
        <3>5. op = "send" => LiveAt = {}
            BY <3>3, <3>4 DEF Reserved, HeldIsKnown
        <3> QED BY <3>1, <3>2, <3>5
    <2> QED BY <1>0, <1>4, <2>1, <2>2, RequestPuts
<1>5. \A j \in ActiveJobs' : j \in ActiveJobs \/ jobs'[j].kind # "BOOK" \/ LiveAt = {}
    BY <1>3, <1>4
<1> QED BY <1>2, <1>5, ReserveFrame

LEMMA ReservePeople ==
    ASSUME TypeOK, WorkInv, StepInv, Reserved, [Next]_vars,
           \/ \E a \in PersonActions \cup {"markCheckedOut"} \cup CloseActions : act(a)
           \/ \E a \in RunnerMoves : answerMoves(a)
           \/ answerNoBooking \/ answerRefused
           \/ \E i \in DOMAIN resv : supplierDecides(i)
           \/ UNCHANGED vars
    PROVE  Reserved'
<1>0. JobTypes /\ \A k \in DOMAIN jobs : jobs[k] \in JobRow
    BY TypeParts, JobsDomain
<1>1. UNCHANGED runner
    BY DEF act, answerMoves, answerNoBooking, answerRefused, supplierDecides, vars
<1>2. LiveAt' \subseteq LiveAt
    <2>1. \A r \in Runners : book(r) => runner' # runner
        <3> SUFFICES ASSUME NEW r \in Runners, book(r) PROVE runner'[r].pc # runner[r].pc
            OBVIOUS
        <3>1. runner[r].pc = "call"
            BY DEF book
        <3>2. runner'[r].pc \in {"ask", "record"}
            BY BookTurns, AsksRow, SaysRow
        <3> QED BY <3>1, <3>2
    <2> QED BY <1>1, <2>1, LiveSteps
<1>3. ActiveJobs' \subseteq ActiveJobs
    <2>1. CASE closeUnknown
        <3>1. /\ DOMAIN jobs' = DOMAIN jobs
              /\ \A k \in DOMAIN jobs : jobs'[k] = IF jobs[k].st = "UNKNOWN"
                                                   THEN [jobs[k] EXCEPT !.st = "SUCCEEDED", !.leased = FALSE] ELSE jobs[k]
            BY <1>0, <2>1, ClosePuts
        <3>2. \A row \in JobRow : [row EXCEPT !.st = "SUCCEEDED", !.leased = FALSE].st = "SUCCEEDED"
            BY DEF JobRow
        <3>3. \A k \in DOMAIN jobs : jobs'[k].st = "SUCCEEDED" \/ jobs'[k] = jobs[k]
            BY <1>0, <3>1, <3>2
        <3> QED BY <3>1, <3>3 DEF ActiveJobs, ACTIVE
    <2>2. CASE UNCHANGED jobs
        BY <2>2 DEF ActiveJobs
    <2> QED BY <2>1, <2>2 DEF act, answerMoves, answerNoBooking, answerRefused, supplierDecides, vars
<1>4. status' = "PENDING_SUPPLIER" => LiveAt = {} \/ supStatus' = supStatus
    <2>1. ASSUME NEW a \in Moves, NEW word \in SupplierWords, transitionBooking(a, word) PROVE status' # "PENDING_SUPPLIER"
        <3>1. Locks(a) => To(a) \in Closable
            BY RulesAreLegal DEF RulesAreLegal, Locks, Moves
        <3>2. To(a) # "PENDING_SUPPLIER"
            BY <3>1, MoveTable DEF Locks, Closable
        <3> QED BY <2>1, <3>2 DEF transitionBooking
    <2>2. ASSUME NEW a \in PersonActions \cup {"markCheckedOut"} \cup CloseActions, act(a) PROVE status' # "PENDING_SUPPLIER"
        <3>1. a \in Moves /\ "none" \in SupplierWords
            BY MovesTable DEF Moves, SupplierWords
        <3> QED BY <2>1, <2>2, <3>1 DEF act
    <2>3. ASSUME NEW a \in RunnerMoves, answerMoves(a) PROVE status' # "PENDING_SUPPLIER"
        <3>1. a \in Moves
            BY MovesTable DEF Moves
        <3>2. \E word \in SupplierWords : transitionBooking(a, word)
            BY <2>3 DEF answerMoves, SupplierWords, SupplierStates
        <3> QED BY <2>1, <3>1, <3>2
    <2>4. CASE answerNoBooking
        BY <2>4 DEF answerNoBooking
    <2>5. CASE answerRefused
        BY <2>5 DEF answerRefused, setSupplierStatus
    <2>6. CASE UNCHANGED bookingVars
        BY <2>6 DEF bookingVars
    <2> QED BY <2>2, <2>3, <2>4, <2>5, <2>6 DEF supplierDecides, vars, bookingVars
<1> QED BY <1>1, <1>2, <1>3, <1>4, ReserveFrame


\* While runner r works, the invariant is about r alone.
ReservedBy(r) ==
    /\ OneLive
    /\ KindRun(r) = "BOOK" /\ Before(r) => LiveAt = {}
    /\ status = "PENDING_SUPPLIER" /\ LiveAt # {} => supStatus = "UNKNOWN" \/ (KindRun(r) = "BOOK" /\ ~Before(r))
    /\ SaysNothingHeld(r) => LiveAt = {}

LEMMA ReservedAlone == \A r \in Runners : WorkInv /\ Works(r) => (Reserved <=> ReservedBy(r))
<1> SUFFICES ASSUME NEW r \in Runners, WorkInv, Works(r) PROVE Reserved <=> ReservedBy(r)
    OBVIOUS
<1>1. /\ runner[r].job \in ActiveJobs /\ \A j \in ActiveJobs : j = runner[r].job
      /\ \A s \in Runners : Works(s) => s = r
    BY Alone
<1>2. BookClear <=> (KindRun(r) = "BOOK" /\ Before(r) => LiveAt = {})
    BY <1>1 DEF BookClear, KindRun
<1>3. HeldIsKnown <=> (status = "PENDING_SUPPLIER" /\ LiveAt # {} => supStatus = "UNKNOWN" \/ (KindRun(r) = "BOOK" /\ ~Before(r)))
    BY <1>1 DEF HeldIsKnown
<1>4. \A s \in Runners : SaysNothingHeld(s) => Works(s)
    BY DEF SaysNothingHeld, Works
<1>5. NothingIsRight <=> (SaysNothingHeld(r) => LiveAt = {})
    BY <1>1, <1>4 DEF NothingIsRight
<1> QED BY <1>2, <1>3, <1>5 DEF Reserved, ReservedBy

LEMMA ReservedAloneNext == (\A r \in Runners : WorkInv /\ Works(r) => (Reserved <=> ReservedBy(r)))'
BY ReservedAlone, PTL

\* A runner's step on the way from its claim to its record.
LEMMA ReserveGoesOn ==
    ASSUME "slow" \notin Faults, TypeOK, WorkInv, StepInv, Reserved, [Next]_vars, NEW r \in Runners,
           readFacts(r) \/ book(r) \/ cancel(r) \/ statusOrNull(r) \/ sync(r)
    PROVE  Reserved'
<1>1. Works(r) /\ StepOK(r) /\ runner[r].job \in DOMAIN jobs
    BY DEF StepInv, WorkInv, Works, readFacts, book, cancel, statusOrNull, sync
<1>2. KindRun(r) \in Kinds
    BY <1>1, TypeParts, JobsDomain DEF KindRun, JobRow
<1>3. jobs' = jobs /\ status' = status /\ supStatus' = supStatus
    BY DEF readFacts, book, cancel, statusOrNull, sync, bookingVars
<1>4. WorkInv' /\ ReservedBy(r)
    BY <1>1, WorkKept, ReservedAlone
<1>5. SUFFICES Works(r)' /\ ReservedBy(r)'
    BY <1>4, ReservedAloneNext
<1>6. runner'[r].job = runner[r].job /\ Works(r)' => KindRun(r)' = KindRun(r)
    BY <1>3 DEF KindRun
<1>7. CASE readFacts(r)
    <2>1. runner[r].read = "none" /\ Before(r) /\ LiveAt' = LiveAt
        BY <1>1, <1>7 DEF readFacts, StepOK, Before, LiveAt
    <2>2. Works(r)' /\ KindRun(r)' = KindRun(r) /\ Before(r)' /\ ~SaysNothingHeld(r)'
        <3>1. ASSUME NEW todo \in {"ALREADY_APPLIED", "NOT_CONFIGURED"}, Says(r, todo)
              PROVE  Works(r)' /\ KindRun(r)' = KindRun(r) /\ Before(r)' /\ ~SaysNothingHeld(r)'
            BY <1>3, <2>1, <3>1, SaysRow DEF Works, KindRun, Before, SaysNothingHeld
        <3>2. ASSUME Reads(r) PROVE Works(r)' /\ KindRun(r)' = KindRun(r) /\ Before(r)' /\ ~SaysNothingHeld(r)'
            BY <1>3, <3>2, ReadsRow DEF Works, KindRun, Before, SaysNothingHeld
        <3> QED BY <1>7, <3>1, <3>2, ReadTurns
    <2> QED BY <1>3, <1>4, <2>1, <2>2 DEF ReservedBy, OneLive
<1>8. CASE book(r)
    <2>1. KindRun(r) = "BOOK" /\ runner[r].read # "none" /\ Before(r)
        BY <1>1, <1>8 DEF book, StepOK, Before
    <2>2. LiveAt = {}
        BY <1>4, <2>1 DEF ReservedBy
    <2>3. resv \in Seq(SupplierStates)
        BY DEF TypeOK
    <2>4. ASSUME Asks(r) PROVE Works(r)' /\ KindRun(r)' = KindRun(r) /\ ~Before(r)' /\ ~SaysNothingHeld(r)'
        BY <1>3, <2>1, <2>4, AsksRow DEF Works, KindRun, Before, SaysNothingHeld
    <2>5. ASSUME NEW w \in SupplierStates \ {"CANCELLED"}, Says(r, BookMove(w))
          PROVE  Works(r)' /\ KindRun(r)' = KindRun(r) /\ ~Before(r)' /\ (SaysNothingHeld(r)' => ~Live(w))
        <3>1. BookMove(w) \in {"systemFail", "systemConfirm", "systemOnRequest"} /\ (BookMove(w) = "systemFail" => ~Live(w))
            BY DEF BookMove, Live
        <3>2. runner'[r].pc = "record" /\ runner'[r].todo = BookMove(w) /\ runner'[r].read # "none" /\ runner'[r].job = runner[r].job
            BY <2>1, <2>5, SaysRow
        <3>3. Works(r)' /\ KindRun(r)' = KindRun(r) /\ ~Before(r)'
            BY <1>3, <3>2 DEF Works, KindRun, Before
        <3>4. SaysNothingHeld(r)' => BookMove(w) = "systemFail"
            BY <3>1, <3>2 DEF SaysNothingHeld
        <3> QED BY <3>1, <3>3, <3>4
    <2>6. CASE resv' = resv /\ Asks(r)
        <3>1. LiveAt' = {}
            BY <2>2, <2>6 DEF LiveAt
        <3> QED BY <2>1, <2>4, <2>6, <3>1 DEF ReservedBy, OneLive
    <2>7. ASSUME NEW w \in SupplierStates, resv' = Append(resv, w), Asks(r) PROVE Works(r)' /\ ReservedBy(r)'
        <3>1. OneLive'
            BY <2>2, <2>3, <2>7, ResvAdd DEF OneLive
        <3> QED BY <2>1, <2>4, <2>7, <3>1 DEF ReservedBy
    <2>8. ASSUME NEW w \in SupplierStates \ {"CANCELLED"}, resv' = Append(resv, w), Says(r, BookMove(w))
          PROVE Works(r)' /\ ReservedBy(r)'
        <3>1. OneLive' /\ (~Live(w) => LiveAt' = {})
            BY <2>2, <2>3, <2>8, ResvAdd DEF OneLive
        <3> QED BY <2>1, <2>5, <2>8, <3>1 DEF ReservedBy
    <2> QED BY <1>8, <2>6, <2>7, <2>8, BookTurns
<1>9. CASE cancel(r)
    <2>1. KindRun(r) = "CANCEL"
        BY <1>9 DEF cancel
    <2>2. LiveAt' \subseteq LiveAt
        <3>1. \A s \in Runners : ~book(s)
            BY <1>1, <2>1, Alone DEF book, Works
        <3> QED BY <3>1, LiveSteps
    <2>3. Works(r)' /\ KindRun(r)' = "CANCEL" /\ ~SaysNothingHeld(r)'
        <3>1. CASE Asks(r)
            BY <1>3, <2>1, <3>1, AsksRow DEF Works, KindRun, SaysNothingHeld
        <3>2. ASSUME NEW todo \in {"systemCompleteCancellation", "CANCEL_FAILED"}, Says(r, todo)
              PROVE  Works(r)' /\ KindRun(r)' = "CANCEL" /\ ~SaysNothingHeld(r)'
            BY <1>3, <2>1, <3>2, SaysRow DEF Works, KindRun, SaysNothingHeld
        <3> QED BY <1>9, <3>1, <3>2, CancelTurns
    <2> QED BY <1>3, <1>4, <2>1, <2>2, <2>3 DEF ReservedBy, OneLive
<1>10. CASE statusOrNull(r)
    <2>1. KindRun(r) \in {"BOOK", "CANCEL"} /\ runner[r].read # "none" /\ ~Before(r)
        BY <1>1, <1>2, <1>10 DEF statusOrNull, StepOK, Kinds, Before
    <2>2. LiveAt' = LiveAt /\ (resv = <<>> => LiveAt = {})
        BY <1>10 DEF statusOrNull, LiveAt
    <2>3. ASSUME NEW todo, Says(r, todo) PROVE /\ Works(r)' /\ KindRun(r)' = KindRun(r) /\ ~Before(r)'
                                               /\ runner'[r].todo = todo
        BY <1>3, <2>1, <2>3, SaysRow DEF Works, KindRun, Before
    <2>4. \E todo : /\ Says(r, todo) /\ todo \notin {"systemFail", "NOT_FOUND", "NOTED"}
                    /\ todo = "RETRY" /\ KindRun(r) = "BOOK" => LiveAt = {}
        BY <1>10, <2>1, <2>2, AskTurns
    <2>5. SaysNothingHeld(r)' => LiveAt = {}
        BY <2>3, <2>4 DEF SaysNothingHeld
    <2> QED BY <1>3, <1>4, <2>1, <2>2, <2>3, <2>4, <2>5 DEF ReservedBy, OneLive
<1>11. CASE sync(r)
    <2>1. KindRun(r) = "STATUS_CHECK" /\ LiveAt' = LiveAt
        BY <1>11 DEF sync, LiveAt
    <2>2. PICK todo : /\ Says(r, todo)
                      /\ \/ todo \in {"systemFail", "NOT_FOUND"}
                         \/ todo = "NOTED" /\ runner[r].read = "PENDING_SUPPLIER"
                         => LiveAt = {}
        BY <1>11, SyncTurns
    <2>3. Works(r)' /\ KindRun(r)' = KindRun(r) /\ runner'[r].todo = todo /\ runner'[r].read = runner[r].read
        BY <1>3, <2>2, SaysRow DEF Works, KindRun
    <2>4. SaysNothingHeld(r)' => LiveAt = {}
        BY <2>1, <2>2, <2>3 DEF SaysNothingHeld
    <2> QED BY <1>3, <1>4, <2>1, <2>3, <2>4 DEF ReservedBy, OneLive
<1> QED BY <1>7, <1>8, <1>9, <1>10, <1>11


LEMMA ReserveClaim ==
    ASSUME "slow" \notin Faults, TypeOK, WorkInv, StepInv, Reserved, [Next]_vars, NEW r \in Runners, NEW j \in DOMAIN jobs, claim(r, j)
    PROVE  Reserved'
<1>0. JobTypes
    BY TypeParts
<1>1. claimable(j) /\ ~Works(r) /\ UNCHANGED <<bookingVars, resv, lost>>
    BY DEF claim, Works
<1>2. LiveAt' = LiveAt /\ status' = status /\ supStatus' = supStatus
    BY <1>1 DEF LiveAt, bookingVars
<1>3. j \in ActiveJobs /\ \A s \in Runners : Works(s) => runner[s].job # j
    BY <1>1 DEF WorkInv, claimable, ActiveJobs, ACTIVE
<1>4. \A s \in Runners : ~Works(s)
    BY <1>3, Alone
<1>5. jobs[j].kind = "BOOK" => LiveAt = {}
    BY <1>3, <1>4 DEF Reserved, BookClear
<1>6. status = "PENDING_SUPPLIER" /\ LiveAt # {} => supStatus = "UNKNOWN"
    BY <1>4 DEF Reserved, HeldIsKnown
<1>7. CASE UNCHANGED runner
    <2>1. ActiveJobs' \subseteq ActiveJobs
        BY <1>0, <1>3, ClaimPuts DEF ActiveJobs
    <2> QED BY <1>2, <1>7, <2>1, ReserveFrame
<1>8. ASSUME NEW row, Turned(r, row), row.pc = "facts", row.job = j, row.read = "none" PROVE Reserved'
    <2>1. runner'[r] = row /\ Works(r)' /\ Before(r)' /\ ~SaysNothingHeld(r)'
        BY <1>8 DEF Turned, Works, Before, SaysNothingHeld
    <2>2. KindRun(r)' = jobs[j].kind
        BY <1>0, <1>8, <2>1, ClaimPuts DEF KindRun
    <2>3. ReservedBy(r)'
        BY <1>2, <1>5, <1>6, <2>1, <2>2 DEF ReservedBy, Reserved, OneLive
    <2> QED BY <2>1, <2>3, WorkKept, ReservedAloneNext
<1> QED BY <1>7, <1>8, ClaimTurns

\* A runner records what it concluded.
LEMMA ReserveRecord ==
    ASSUME "slow" \notin Faults, TypeOK, WorkInv, StepInv, Reserved, [Next]_vars, NEW r \in Runners, record(r)
    PROVE  Reserved'
<1>0. runner \in [Runners -> RunnerRow] /\ JobTypes /\ \A k \in DOMAIN jobs : jobs[k] \in JobRow
    BY TypeParts, JobsDomain
<1>1. Works(r) /\ StepOK(r) /\ runner[r].pc = "record" /\ runner[r].job \in DOMAIN jobs
    BY DEF StepInv, WorkInv, Works, record
<1>2. KindRun(r) \in Kinds
    BY <1>0, <1>1 DEF KindRun, JobRow
<1>3. ReservedBy(r)
    BY <1>1, ReservedAlone
<1>4. LiveAt' = LiveAt
    BY DEF record, LiveAt
<1>5. \A s \in Runners : ~Works(s)'
    <2>1. Turned(r, Idle)
        BY <1>0, PutDown DEF record
    <2> QED BY <1>1, <2>1, Alone DEF Turned, Works, Idle
<1>6. OneLive' /\ NothingIsRight'
    BY <1>3, <1>4, <1>5 DEF ReservedBy, OneLive, NothingIsRight, SaysNothingHeld, Works
<1>7. BookClear'
    <2>1. ASSUME NEW st \in {"SUCCEEDED", "FAILED", "UNKNOWN"}, stop(runner[r].job, st) PROVE BookClear'
        <3>1. st \in JobStatuses
            BY DEF JobStatuses
        <3>2. /\ DOMAIN jobs' = DOMAIN jobs
              /\ \A k \in DOMAIN jobs :
                     jobs'[k] = IF k = runner[r].job THEN [jobs[k] EXCEPT !.st = st, !.leased = FALSE] ELSE jobs[k]
            BY <1>0, <2>1, <3>1, StopPuts
        <3>3. \A row \in JobRow : [row EXCEPT !.st = st, !.leased = FALSE].st = st
            BY DEF JobRow
        <3>4. ActiveJobs' = {}
            <4>1. \A j \in ActiveJobs : j = runner[r].job
                BY <1>1, Alone
            <4>2. jobs'[runner[r].job].st = st
                BY <1>0, <1>1, <3>2, <3>3
            <4>3. \A k \in DOMAIN jobs \ {runner[r].job} : jobs'[k] = jobs[k] /\ jobs[k].st \notin ACTIVE
                BY <3>2, <4>1 DEF ActiveJobs
            <4> QED BY <3>2, <4>2, <4>3 DEF ActiveJobs, ACTIVE
        <3> QED BY <3>4 DEF BookClear
    <2>2. ASSUME waitForRetry(runner[r].job), runner[r].todo = "RETRY" PROVE BookClear'
        <3>1. /\ DOMAIN jobs' = DOMAIN jobs
              /\ \A k \in DOMAIN jobs \ {runner[r].job} : jobs'[k] = jobs[k]
            BY <1>0, <2>2, WaitPuts
        <3>2. \A j \in ActiveJobs' : j = runner[r].job
            <4>1. \A j \in ActiveJobs : j = runner[r].job
                BY <1>1, Alone
            <4> QED BY <3>1, <4>1 DEF ActiveJobs
        <3>3. jobs'[runner[r].job].kind = KindRun(r)
            BY <1>1, KindsStay DEF KindRun
        <3>4. KindRun(r) = "BOOK" => LiveAt = {}
            BY <1>1, <1>3, <2>2 DEF ReservedBy, SaysNothingHeld
        <3> QED BY <1>4, <3>2, <3>3, <3>4 DEF BookClear
    <2> QED BY <2>1, <2>2 DEF record, move
<1>8. HeldIsKnown'
    <2> SUFFICES ASSUME status' = "PENDING_SUPPLIER", LiveAt # {} PROVE supStatus' = "UNKNOWN"
        BY <1>4 DEF HeldIsKnown
    <2>1. status = "PENDING_SUPPLIER" /\ ~closed
        BY StepOfBooking, BookingGoesOn DEF StepInv, Closable
    <2>2. /\ ~SaysNothingHeld(r) /\ ~(KindRun(r) = "BOOK" /\ Before(r))
          /\ supStatus = "UNKNOWN" \/ KindRun(r) = "BOOK"
        BY <1>3, <2>1 DEF ReservedBy
    <2>3. /\ (runner[r].read \in {"none", "PENDING_SUPPLIER"} /\ KindRun(r) # "CANCEL") \/ runner[r].read = "none"
          /\ runner[r].todo \in IF runner[r].read = "none" THEN {"ALREADY_APPLIED", "NOT_CONFIGURED"}
                                ELSE Concludes(KindRun(r), runner[r].read)
        BY <1>1, <2>1 DEF StepOK, ReadsFor
    <2>4. KindRun(r) = "BOOK" => runner[r].read = "PENDING_SUPPLIER"
        BY <2>2, <2>3 DEF Before
    <2>5. ASSUME NEW a \in RunnerMoves, move(r, a) PROVE supStatus' = supStatus /\ ~(KindRun(r) = "BOOK" /\ a \in Bookings)
        <3>1. ASSUME NEW word, transitionBooking(a, word) PROVE FALSE
            BY <3>1, RunnerTable DEF transitionBooking, RunnerMoves
        <3>2. ~(runner[r].read = status /\ MayMove(a)) /\ UNCHANGED bookingVars
            BY <2>5, <3>1 DEF move
        <3>3. a \in Bookings => From(a) = "PENDING_SUPPLIER"
            BY RunnerTable DEF Bookings
        <3> QED BY <2>1, <2>4, <3>2, <3>3 DEF MayMove, bookingVars
    <2>6. CASE KindRun(r) = "BOOK"
        <3>1. runner[r].todo \in Bookings \cup {"UNKNOWN"}
            BY <1>1, <2>2, <2>3, <2>4, <2>6 DEF Concludes, SaysNothingHeld
        <3>2. CASE runner[r].todo \in Bookings
            <4>1. runner[r].todo \in RunnerMoves
                BY <3>2 DEF Bookings, RunnerMoves
            <4>2. move(r, runner[r].todo)
                BY <3>2 DEF record, Bookings
            <4> QED BY <2>5, <2>6, <3>2, <4>1, <4>2
        <3>3. CASE runner[r].todo = "UNKNOWN"
            BY <2>1, <3>3 DEF record, setSupplierStatus, RunnerMoves
        <3> QED BY <3>1, <3>2, <3>3
    <2>7. CASE KindRun(r) # "BOOK"
        <3>1. supStatus = "UNKNOWN"
            BY <2>2, <2>7
        <3>2. runner[r].todo \notin {"NOT_FOUND", "NOTED", "CANCEL_FAILED", "RETRY"}
            <4>1. CASE runner[r].read = "none"
                BY <2>3, <4>1
            <4>2. CASE runner[r].read = "PENDING_SUPPLIER" /\ KindRun(r) = "STATUS_CHECK"
                BY <1>1, <2>2, <2>3, <4>2 DEF Concludes, Bookings, SaysNothingHeld
            <4> QED BY <1>2, <2>3, <2>7, <4>1, <4>2 DEF Kinds
        <3>3. CASE runner[r].todo \in RunnerMoves
            <4>1. move(r, runner[r].todo)
                BY <3>3 DEF record, RunnerMoves
            <4> QED BY <2>5, <3>1, <3>3, <4>1
        <3>4. CASE runner[r].todo \notin RunnerMoves
            BY <3>1, <3>2, <3>4 DEF record, setSupplierStatus, bookingVars
        <3> QED BY <3>3, <3>4
    <2> QED BY <2>6, <2>7
<1> QED BY <1>6, <1>7, <1>8 DEF Reserved

\* A runner that dies before its call leaves nothing behind; later, or when a write fails, the record is lost.
LEMMA ReserveCrash ==
    ASSUME "slow" \notin Faults, TypeOK, WorkInv, StepInv, Reserved, [Next]_vars, NEW r \in Runners, crash(r), ~lost'
    PROVE  Reserved'
<1>0. runner \in [Runners -> RunnerRow]
    BY TypeParts
<1>1. Works(r) /\ StepOK(r) /\ runner[r].pc \in {"facts", "call"}
    BY <1>0 DEF StepInv, Works, crash, RunnerRow
<1>2. Before(r) /\ ReservedBy(r)
    BY <1>1, ReservedAlone DEF StepOK, Before
<1>3. LiveAt' = LiveAt /\ jobs' = jobs /\ status' = status /\ supStatus' = supStatus
    BY DEF crash, LiveAt, bookingVars
<1>4. \A s \in Runners : ~Works(s)'
    <2>1. Turned(r, Idle)
        BY <1>0, PutDown DEF crash
    <2> QED BY <1>1, <2>1, Alone DEF Turned, Works, Idle
<1>5. ActiveJobs' = ActiveJobs /\ \A j \in ActiveJobs : j = runner[r].job
    BY <1>1, <1>3, Alone DEF ActiveJobs
<1>6. BookClear'
    BY <1>2, <1>3, <1>5 DEF BookClear, ReservedBy, KindRun
<1>7. HeldIsKnown'
    BY <1>2, <1>3 DEF HeldIsKnown, ReservedBy
<1>8. OneLive' /\ NothingIsRight'
    BY <1>2, <1>3, <1>4 DEF ReservedBy, OneLive, NothingIsRight, SaysNothingHeld, Works
<1> QED BY <1>6, <1>7, <1>8 DEF Reserved

LEMMA ReserveKept ==
    ASSUME "slow" \notin Faults, TypeOK, WorkInv, StepInv, ReserveInv, [Next]_vars
    PROVE  ReserveInv'
<1> SUFFICES ASSUME ~lost' PROVE Reserved'
    BY DEF ReserveInv, Reserved
<1>1. Reserved
    BY LostStays DEF ReserveInv, Reserved
<1>2. ASSUME NEW r \in Runners, RunnerStep(r) \/ runnerError(r) \/ crash(r) PROVE Reserved'
    <2>1. ~runnerError(r)
        BY DEF runnerError
    <2> QED BY <1>1, <1>2, <2>1, ReserveGoesOn, ReserveRecord, ReserveCrash DEF RunnerStep
<1>3. ASSUME NEW r \in Runners, NEW j \in DOMAIN jobs, claim(r, j) PROVE Reserved'
    BY <1>1, <1>3, ReserveClaim
<1> QED BY <1>1, <1>2, <1>3, ReserveQueue, ReservePeople DEF Next

LEMMA ReserveInit == Init => ReserveInv
<1> SUFFICES ASSUME Init PROVE Reserved
    BY DEF ReserveInv, Reserved
<1>1. LiveAt = {} /\ \A r \in Runners : runner[r].pc = "idle"
    BY DEF Init, LiveAt, Idle
<1> QED BY <1>1 DEF Reserved, OneLive, BookClear, HeldIsKnown, NothingIsRight, SaysNothingHeld

\* The induction behind the two theorems below: types, one working runner, what it may conclude, and who knows of a
\* reservation, kept by every step of SupplierJobs.
THEOREM ReserveInvariance ==
    ASSUME "slow" \notin Faults
    PROVE  Spec => [](TypeOK /\ WorkInv /\ StepInv /\ ReserveInv)
<1>1. TypeOK /\ WorkInv /\ StepInv /\ ReserveInv /\ [Next]_vars => WorkInv' /\ StepInv' /\ ReserveInv'
    BY WorkKept, StepKept, ReserveKept
<1> QED BY <1>1, WorkInit, StepInit, ReserveInit, TypeCorrect, PTL DEF Spec

\* The supplier never has two live reservations under our reference (OneReservation) while no record of a call was lost and
\* leases outlast their runners, for every number of runners, jobs and attempts.
THEOREM NoDuplicate == ASSUME "slow" \notin Faults PROVE Spec => []OneReservation
<1>1. ReserveInv => OneReservation
    <2> SUFFICES ASSUME OneLive PROVE Cardinality(LiveAt) <= 1
        BY DEF ReserveInv, OneReservation
    <2>1. CASE LiveAt = {}
        BY <2>1, FS_EmptySet
    <2>2. CASE LiveAt # {}
        <3>1. PICK i : LiveAt = {i}
            BY <2>2 DEF OneLive
        <3> QED BY <3>1, FS_Singleton
    <2> QED BY <2>1, <2>2
<1> QED BY <1>1, ReserveInvariance, PTL

\* Unknown is not Failed (RunnerFailsNothingHeld): under the same assumption, the runner that fails a booking does so while
\* the supplier holds nothing for it.
THEOREM FailsNothingHeld == ASSUME "slow" \notin Faults PROVE Spec => RunnerFailsNothingHeld
<1>1. TypeOK /\ WorkInv /\ StepInv /\ ReserveInv /\ [Next]_vars =>
          [\A r \in Runners :
               (~lost /\ runner[r].pc = "record" /\ status' = "FAILED" /\ status # "FAILED" /\ runner'[r] = Idle)
                   => LiveAt = {}]_vars
    <2> SUFFICES ASSUME TypeOK, WorkInv, StepInv, ReserveInv, [Next]_vars, NEW r \in Runners, ~lost, runner[r].pc = "record",
                        status' = "FAILED", status # "FAILED", runner'[r] = Idle
                 PROVE  LiveAt = {}
        OBVIOUS
    <2>0. runner'[r].pc = "idle" /\ runner'[r] # runner[r]
        BY DEF Idle
    <2>1. \A s \in Runners : Works(s) => s = r
        BY Alone DEF Works
    <2>2. record(r) \/ status' = status
        <3>1. ASSUME NEW s \in Runners, RunnerStep(s) \/ runnerError(s) \/ crash(s) PROVE record(r) \/ status' = status
            <4>1. CASE record(s)
                <5>1. Works(s)
                    BY <4>1 DEF record, Works
                <5>2. s = r
                    BY <2>1, <5>1
                <5> QED BY <4>1, <5>2
            <4>2. CASE UNCHANGED bookingVars
                BY <4>2 DEF bookingVars
            <4> QED BY <3>1, <4>1, <4>2 DEF RunnerStep, readFacts, book, cancel, statusOrNull, sync, runnerError, crash
        <3> QED BY <2>0, <3>1 DEF Next, request, claim, leaseEnds, waitEnds, act, answerMoves, answerNoBooking, answerRefused,
                                  supplierDecides, vars, bookingVars
    <2>3. SaysNothingHeld(r)
        <3>1. ASSUME NEW a \in RunnerMoves, move(r, a) PROVE a = "systemFail"
            BY <3>1, RunnerTable DEF move, transitionBooking, bookingVars, RunnerMoves
        <3>2. "systemFail" \in RunnerMoves
            BY DEF RunnerMoves
        <3>3. \/ runner[r].todo \in RunnerMoves /\ move(r, runner[r].todo)
              \/ runner[r].todo = "RETRY" /\ KindRun(r) = "BOOK"
            BY <2>2 DEF record, setSupplierStatus, bookingVars
        <3> QED BY <3>1, <3>3 DEF SaysNothingHeld
    <2> QED BY <2>3 DEF ReserveInv, NothingIsRight
<1> QED BY <1>1, ReserveInvariance, PTL DEF Spec, RunnerFailsNothingHeld
=============================================================================
