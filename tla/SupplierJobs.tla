---------------------------- MODULE SupplierJobs ----------------------------
(***************************************************************************)
(* The supplier queue of one Admin booking (ADR 0039): operators enqueue    *)
(* BOOK, CANCEL and STATUS_CHECK jobs, runners claim them under a lease,    *)
(* call the supplier outside any transaction and record what it said, and   *)
(* people record answers of their own meanwhile.  Every statement of this   *)
(* code names one booking or one job, so bookings do not interact and one   *)
(* booking is modelled; a runner's batch of ten is then one job at a time.  *)
(*                                                                         *)
(* The supplier is external.  It keeps the reservations made under our      *)
(* reference, has no idempotency key, and may act on a call that throws.    *)
(***************************************************************************)
EXTENDS Naturals, Sequences, FiniteSets, BookingLifecycle

CONSTANTS
    Runners,      \* runner processes sharing the table
    MaxJobs,      \* bound on jobs ever queued for the booking
    MaxAttempts,  \* BOOKING_SUPPLIER_MAX_ATTEMPTS (4 in the code)
    Faults        \* what may go wrong beside a throwing call, see FaultKinds

\* crash: a runner process dies.  slow: a lease runs out under a runner that is still working.
\* db: a write after the supplier call fails.  config: the supplier's adapter is switched off for a while.
FaultKinds == {"crash", "slow", "db", "config"}

ASSUME ConstantsOK ==
    /\ IsFiniteSet(Runners)
    /\ MaxJobs \in Nat \ {0}
    /\ MaxAttempts \in Nat \ {0}
    /\ Faults \subseteq FaultKinds

VARIABLES
    status,     \* Booking.status
    closed,     \* Booking.closedAt is set
    supStatus,  \* Booking.supplierStatus, "none" when null
    finance,    \* how many finance events of each type the booking has
    jobs,       \* its BookingSupplierJob rows, oldest first
    runner,     \* what each runner is doing
    resv,       \* the reservations the supplier has under our reference
    lost        \* history: a runner died or failed between a supplier call and its record

bookingVars == <<status, closed, supStatus, finance>>
vars == <<status, closed, supStatus, finance, jobs, runner, resv, lost>>

Kinds          == {"BOOK", "CANCEL", "STATUS_CHECK"}
JobStatuses    == {"QUEUED", "RUNNING", "RETRY_WAIT", "SUCCEEDED", "FAILED", "UNKNOWN"}
ACTIVE         == {"QUEUED", "RUNNING", "RETRY_WAIT"}
SupplierStates == {"CONFIRMED", "ON_REQUEST", "REJECTED", "CANCELLED"}
SupplierWords  == SupplierStates \cup {"none", "UNKNOWN", "NOT_FOUND", "CANCEL_FAILED", "NO_ANSWER"}

JobRow == [kind : Kinds, st : JobStatuses, attempt : 0..MaxAttempts, leased : BOOLEAN, due : BOOLEAN]

\* What a runner has decided to record: a booking action with the supplier's word, or one of these.
Records == {"ALREADY_APPLIED", "NOT_CONFIGURED", "UNKNOWN", "NOT_FOUND", "NOTED", "CANCEL_FAILED", "RETRY"}
RunnerMoves == {"systemConfirm", "systemOnRequest", "systemFail", "systemConfirmOnRequest",
                "systemRejectOnRequest", "systemCompleteCancellation"}

Idle == [pc |-> "idle", job |-> 0, attempt |-> 0, read |-> "none", todo |-> "none", word |-> "none"]

Live(s) == s \in {"CONFIRMED", "ON_REQUEST"}
LiveAt  == {i \in DOMAIN resv : Live(resv[i])}

TypeOK ==
    /\ status \in Statuses
    /\ closed \in BOOLEAN
    /\ supStatus \in SupplierWords
    /\ finance \in [FinanceTypes -> Nat]
    /\ jobs \in Seq(JobRow) /\ Len(jobs) <= MaxJobs
    /\ runner \in [Runners -> [pc : {"idle", "facts", "call", "ask", "record"}, job : 0..MaxJobs,
                               attempt : 0..MaxAttempts, read : Statuses \cup {"none"},
                               todo : Records \cup RunnerMoves \cup {"none"}, word : SupplierWords]]
    /\ resv \in Seq(SupplierStates)
    /\ lost \in BOOLEAN

Init ==
    /\ status = "PENDING_SUPPLIER"
    /\ closed = FALSE
    /\ supStatus = "none"
    /\ finance = [t \in FinanceTypes |-> 0]
    /\ jobs \in {<<>>, <<[kind |-> "BOOK", st |-> "QUEUED", attempt |-> 0, leased |-> FALSE, due |-> TRUE]>>}
    /\ runner = [r \in Runners |-> Idle]
    /\ resv = <<>>
    /\ lost = FALSE

-----------------------------------------------------------------------------
(* transitionBooking: the compare-and-set on status and lock, the finance   *)
(* events of the move, in the caller's transaction.                         *)

\* MUTANT of MayMove: the compare-and-set forgets the status.
MayMoveUnchecked(action) == status \in Statuses /\ From(action) \in Statuses /\ ~closed

MayMove(action) == status = From(action) /\ ~closed

transitionBooking(action, word) ==
    /\ MayMove(action)
    /\ status' = To(action)
    /\ closed' = Locks(action)
    /\ supStatus' = IF word = "none" THEN supStatus ELSE word
    /\ finance' = Posted(finance, action)

\* MUTANT of setSupplierStatus: the update forgets "closedAt is null".
setSupplierStatusAlways(word) == supStatus' = word /\ UNCHANGED <<status, closed, finance>>

\* A plain update of supplierStatus: updateMany where closedAt is null, whatever the status is now.
setSupplierStatus(word) ==
    /\ supStatus' = IF closed THEN supStatus ELSE word
    /\ UNCHANGED <<status, closed, finance>>

-----------------------------------------------------------------------------
(* The queue (BookingSupplierJobsService.request).                          *)

ActiveJobs == {j \in DOMAIN jobs : jobs[j].st \in ACTIVE}

\* MUTANTS of supplierOpsFor: sending while the outcome is unknown, and enqueueing while a job is active.
supplierOpsForUnknown ==
    {op \in {"send", "cancel", "retryNow", "sync"} :
        /\ ~closed
        /\ \/ op = "send" /\ status = "PENDING_SUPPLIER" /\ ActiveJobs = {}
           \/ op = "sync" /\ status = "PENDING_SUPPLIER" /\ ActiveJobs = {}}

supplierOpsForBusy ==
    {op \in {"send", "cancel", "retryNow", "sync"} : op = "sync" /\ ~closed /\ status = "PENDING_SUPPLIER"}

\* supplierOpsFor, with the newest job as jobs[0].
supplierOpsFor ==
    LET newest == IF jobs = <<>> THEN "none" ELSE jobs[Len(jobs)].st
        idle   == ActiveJobs = {}
    IN  {op \in {"send", "cancel", "retryNow", "sync"} :
            /\ ~closed
            /\ \/ op = "send" /\ status = "PENDING_SUPPLIER" /\ idle
                  /\ newest # "UNKNOWN" /\ supStatus # "UNKNOWN"
               \/ op = "cancel" /\ status = "CANCEL_REQUESTED" /\ idle
               \/ op = "retryNow" /\ \E j \in DOMAIN jobs : jobs[j].st = "RETRY_WAIT"
               \/ op = "sync" /\ idle /\ status \in {"PENDING_SUPPLIER", "ON_REQUEST", "CANCEL_REQUESTED"}}

KindOf(op) == IF op = "send" THEN "BOOK" ELSE IF op = "cancel" THEN "CANCEL" ELSE "STATUS_CHECK"

request(op) ==
    /\ op \in supplierOpsFor
    /\ IF op = "retryNow"
       THEN \E j \in DOMAIN jobs : jobs[j].st = "RETRY_WAIT" /\ jobs' = [jobs EXCEPT ![j].due = TRUE]
       ELSE /\ Len(jobs) < MaxJobs
            /\ jobs' = Append(jobs, [kind |-> KindOf(op), st |-> "QUEUED", attempt |-> 0,
                                     leased |-> FALSE, due |-> TRUE])
    /\ UNCHANGED <<bookingVars, runner, resv, lost>>

-----------------------------------------------------------------------------
(* A runner takes a job and reads the booking.                              *)

\* MUTANT of claimable: a RUNNING job whose lease ran out is not picked up again.
claimableOnce(j) == jobs[j].st \in {"QUEUED", "RETRY_WAIT"} /\ jobs[j].due

claimable(j) == \/ jobs[j].st \in {"QUEUED", "RETRY_WAIT"} /\ jobs[j].due
                \/ jobs[j].st = "RUNNING" /\ ~jobs[j].leased

\* MUTANT of claim: attempts are counted without a limit.
claimUnlimited(r, j) ==
    /\ runner[r].pc = "idle"
    /\ claimable(j)
    /\ jobs' = [jobs EXCEPT ![j].st = "RUNNING", ![j].attempt = @ + 1, ![j].leased = TRUE]
    /\ runner' = [runner EXCEPT ![r] = [Idle EXCEPT !.pc = "facts", !.job = j, !.attempt = jobs[j].attempt + 1]]
    /\ UNCHANGED <<bookingVars, resv, lost>>

claim(r, j) ==
    /\ runner[r].pc = "idle"
    /\ claimable(j)
    /\ IF jobs[j].attempt >= MaxAttempts
       THEN /\ jobs' = [jobs EXCEPT ![j].st = "UNKNOWN", ![j].leased = FALSE]
            /\ UNCHANGED runner
       ELSE /\ jobs' = [jobs EXCEPT ![j].st = "RUNNING", ![j].attempt = @ + 1, ![j].leased = TRUE]
            /\ runner' = [runner EXCEPT ![r] = [Idle EXCEPT !.pc = "facts", !.job = j,
                                                            !.attempt = jobs[j].attempt + 1]]
    /\ UNCHANGED <<bookingVars, resv, lost>>

KindRun(r) == jobs[runner[r].job].kind

Applicable(kind) ==
    \/ kind = "BOOK" /\ status = "PENDING_SUPPLIER"
    \/ kind = "CANCEL" /\ status = "CANCEL_REQUESTED"
    \/ kind = "STATUS_CHECK" /\ status \in {"PENDING_SUPPLIER", "ON_REQUEST", "CANCEL_REQUESTED"}

Decide(r, todo, word) ==
    runner' = [runner EXCEPT ![r].pc = "record", ![r].todo = todo, ![r].word = word]

\* facts and the first half of process.
readFacts(r) ==
    /\ runner[r].pc = "facts"
    /\ IF closed \/ ~Applicable(KindRun(r)) THEN Decide(r, "ALREADY_APPLIED", "none")
       ELSE \/ runner' = [runner EXCEPT ![r].pc = "call", ![r].read = status]
            \/ "config" \in Faults /\ Decide(r, "NOT_CONFIGURED", "none")
    /\ UNCHANGED <<bookingVars, jobs, resv, lost>>

-----------------------------------------------------------------------------
(* The supplier calls.  A call that throws may or may not have been acted   *)
(* on; the runner then asks by our reference.                               *)

\* The reservations statusByReference may report: a live one if the supplier has any.
Reported == IF LiveAt # {} THEN LiveAt ELSE DOMAIN resv

BookMove(word) == IF word = "REJECTED" THEN "systemFail"
                  ELSE IF word = "CONFIRMED" THEN "systemConfirm" ELSE "systemOnRequest"

book(r) ==
    /\ runner[r].pc = "call" /\ KindRun(r) = "BOOK"
    /\ \E word \in SupplierStates \ {"CANCELLED"} :
        \/ resv' = Append(resv, word) /\ Decide(r, BookMove(word), word)
        \/ resv' \in {resv, Append(resv, word)} /\ runner' = [runner EXCEPT ![r].pc = "ask"]
    /\ UNCHANGED <<bookingVars, jobs, lost>>

cancel(r) ==
    /\ runner[r].pc = "call" /\ KindRun(r) = "CANCEL"
    /\ \/ \E i \in LiveAt : /\ resv' = [resv EXCEPT ![i] = "CANCELLED"]
                            /\ \/ Decide(r, "systemCompleteCancellation", "CANCELLED")
                               \/ runner' = [runner EXCEPT ![r].pc = "ask"]
       \/ /\ UNCHANGED resv
          /\ \/ LiveAt = {} /\ Decide(r, "systemCompleteCancellation", "CANCELLED")
             \/ Decide(r, "CANCEL_FAILED", "CANCEL_FAILED")
             \/ runner' = [runner EXCEPT ![r].pc = "ask"]
    /\ UNCHANGED <<bookingVars, jobs, lost>>

\* statusOrNull after a call that threw: found, not found, or it cannot be asked.
statusOrNull(r) ==
    /\ runner[r].pc = "ask"
    /\ \/ Decide(r, "UNKNOWN", "UNKNOWN")
       \/ /\ resv = <<>>
          /\ IF KindRun(r) = "BOOK" THEN Decide(r, "RETRY", "NO_ANSWER") ELSE Decide(r, "UNKNOWN", "UNKNOWN")
       \/ \E i \in Reported :
            IF KindRun(r) = "BOOK"
            THEN Decide(r, IF resv[i] = "ON_REQUEST" THEN "systemOnRequest" ELSE "systemConfirm", resv[i])
            ELSE IF resv[i] = "CANCELLED" THEN Decide(r, "systemCompleteCancellation", "CANCELLED")
            ELSE Decide(r, "RETRY", "CANCEL_FAILED")
    /\ UNCHANGED <<bookingVars, jobs, resv, lost>>

\* MUTANT of SyncMove: only a confirmed reservation counts as one.
SyncMoveStrict(read, word) ==
    IF read = "PENDING_SUPPLIER" /\ word = "CONFIRMED" THEN "systemConfirm"
    ELSE IF read = "PENDING_SUPPLIER" THEN "systemFail" ELSE "NOTED"

\* What a STATUS_CHECK concludes from the supplier's state and the status the runner read.
SyncMove(read, word) ==
    IF read = "PENDING_SUPPLIER" /\ word # "CANCELLED" THEN BookMove(word)
    ELSE IF read = "ON_REQUEST" /\ word = "CONFIRMED" THEN "systemConfirmOnRequest"
    ELSE IF read = "ON_REQUEST" /\ word = "REJECTED" THEN "systemRejectOnRequest"
    ELSE IF read = "CANCEL_REQUESTED" /\ word = "CANCELLED" THEN "systemCompleteCancellation"
    ELSE "NOTED"

sync(r) ==
    /\ runner[r].pc = "call" /\ KindRun(r) = "STATUS_CHECK"
    /\ \/ Decide(r, "UNKNOWN", "UNKNOWN")
       \/ /\ resv = <<>>
          /\ IF runner[r].read = "PENDING_SUPPLIER" THEN Decide(r, "NOT_FOUND", "NOT_FOUND")
             ELSE Decide(r, "UNKNOWN", "UNKNOWN")
       \/ \E i \in Reported : Decide(r, SyncMove(runner[r].read, resv[i]), resv[i])
    /\ UNCHANGED <<bookingVars, jobs, resv, lost>>

-----------------------------------------------------------------------------
(* Recording: one transaction.  The job row is written by its id alone.     *)

\* stop and finish.
stop(j, st) == jobs' = [jobs EXCEPT ![j].st = st, ![j].leased = FALSE]

\* retryOrStop while attempts are left.
waitForRetry(j) == jobs' = [jobs EXCEPT ![j].st = "RETRY_WAIT", ![j].leased = FALSE, ![j].due = FALSE]

\* move: the transition and the job together; a conflict finishes the job as already applied.
move(r, action) ==
    /\ stop(runner[r].job, "SUCCEEDED")
    /\ IF runner[r].read = status /\ MayMove(action)
       THEN transitionBooking(action, runner[r].word)
       ELSE UNCHANGED bookingVars

record(r) ==
    LET me == runner[r]  last == me.attempt >= MaxAttempts
    IN  /\ me.pc = "record"
        /\ \/ me.todo \in RunnerMoves /\ move(r, me.todo)
           \/ me.todo = "ALREADY_APPLIED" /\ stop(me.job, "SUCCEEDED") /\ UNCHANGED bookingVars
           \/ me.todo = "NOT_CONFIGURED" /\ stop(me.job, "FAILED") /\ UNCHANGED bookingVars
           \/ me.todo = "UNKNOWN" /\ stop(me.job, "UNKNOWN") /\ setSupplierStatus("UNKNOWN")
           \/ me.todo \in {"NOT_FOUND", "NOTED"} /\ stop(me.job, "SUCCEEDED") /\ setSupplierStatus(me.word)
           \/ /\ \/ me.todo = "CANCEL_FAILED"
                 \/ me.todo = "RETRY" /\ last /\ KindRun(r) = "CANCEL"
              /\ stop(me.job, "FAILED") /\ setSupplierStatus("CANCEL_FAILED")
           \/ me.todo = "RETRY" /\ last /\ KindRun(r) = "BOOK" /\ move(r, "systemFail")
           \/ me.todo = "RETRY" /\ ~last /\ waitForRetry(me.job) /\ UNCHANGED bookingVars
        /\ runner' = [runner EXCEPT ![r] = Idle]
        /\ UNCHANGED <<resv, lost>>

\* The catch of process: a write failed after the call, so the job is released or ends unknown.
runnerError(r) ==
    /\ "db" \in Faults
    /\ runner[r].pc = "record" /\ runner[r].read # "none"
    /\ IF runner[r].attempt < MaxAttempts THEN waitForRetry(runner[r].job) ELSE stop(runner[r].job, "UNKNOWN")
    /\ runner' = [runner EXCEPT ![r] = Idle]
    /\ lost' = TRUE
    /\ UNCHANGED <<bookingVars, resv>>

\* The process dies; what it had not recorded is gone.
crash(r) ==
    /\ "crash" \in Faults
    /\ runner[r].pc # "idle"
    /\ runner' = [runner EXCEPT ![r] = Idle]
    /\ lost' = (lost \/ runner[r].pc \in {"ask", "record"})
    /\ UNCHANGED <<bookingVars, jobs, resv>>

\* locked_until passes.  LOCK_SECONDS is meant to outlast a working runner.
leaseEnds(j) ==
    /\ jobs[j].st = "RUNNING" /\ jobs[j].leased
    /\ "slow" \in Faults \/ \A r \in Runners : runner[r].pc = "idle" \/ runner[r].job # j
    /\ jobs' = [jobs EXCEPT ![j].leased = FALSE]
    /\ UNCHANGED <<bookingVars, runner, resv, lost>>

\* run_after passes.
waitEnds(j) ==
    /\ jobs[j].st = "RETRY_WAIT" /\ ~jobs[j].due
    /\ jobs' = [jobs EXCEPT ![j].due = TRUE]
    /\ UNCHANGED <<bookingVars, runner, resv, lost>>

-----------------------------------------------------------------------------
(* People.  What they record about the supplier is true when they record it.*)

\* The reservations the supplier would report to a person who claims this outcome.
True(action) ==
    CASE action \in {"recordConfirmed", "confirmOnRequest", "systemConfirm", "systemConfirmOnRequest"} ->
            \E i \in DOMAIN resv : resv[i] = "CONFIRMED"
      [] action \in {"recordOnRequest", "systemOnRequest"} -> \E i \in DOMAIN resv : resv[i] = "ON_REQUEST"
      [] action \in {"recordFailed", "rejectOnRequest", "systemFail", "systemRejectOnRequest",
                     "confirmCancellation", "systemCompleteCancellation"} -> LiveAt = {}
      [] OTHER -> TRUE

\* BookingActionsService.act, and the nightly moves of BookingLifecycleJobs.  The closing job's other
\* conditions (the dispute window, a decided penalty, no open follow-up) belong to BookingMoney.
act(action) ==
    /\ True(action)
    /\ transitionBooking(action, "none")
    /\ UNCHANGED <<jobs, runner, resv, lost>>

\* closeUnknown: jobs still UNKNOWN are answered by the person's evidence.
closeUnknown == jobs' = [j \in DOMAIN jobs |-> IF jobs[j].st = "UNKNOWN"
                                               THEN [jobs[j] EXCEPT !.st = "SUCCEEDED", !.leased = FALSE]
                                               ELSE jobs[j]]

\* BookingOpsService.answer where the answer moves the status.
answerMoves(action) ==
    /\ action \in RunnerMoves
    /\ True(action)
    /\ transitionBooking(action, IF action \in Holding THEN "ON_REQUEST"
                                 ELSE IF action \in Confirming THEN "CONFIRMED"
                                 ELSE IF action \in Completing THEN "CANCELLED" ELSE "REJECTED")
    /\ closeUnknown
    /\ UNCHANGED <<runner, resv, lost>>

\* SUPPLIER_HAS_NO_BOOKING: needs an idle queue, clears the unknown outcome.
answerNoBooking ==
    /\ status = "PENDING_SUPPLIER" /\ ~closed
    /\ ActiveJobs = {}
    /\ LiveAt = {}
    /\ setSupplierStatus("NOT_FOUND")
    /\ closeUnknown
    /\ UNCHANGED <<runner, resv, lost>>

\* SUPPLIER_REFUSED_CANCELLATION.
answerRefused ==
    /\ status = "CANCEL_REQUESTED" /\ ~closed
    /\ ActiveJobs = {}
    /\ setSupplierStatus("CANCEL_FAILED")
    /\ UNCHANGED <<jobs, runner, resv, lost>>

\* The supplier decides an on-request reservation in its own time.
supplierDecides(i) ==
    /\ resv[i] = "ON_REQUEST"
    /\ \E s \in {"CONFIRMED", "REJECTED"} : resv' = [resv EXCEPT ![i] = s]
    /\ UNCHANGED <<bookingVars, jobs, runner, lost>>

-----------------------------------------------------------------------------
RunnerStep(r) == readFacts(r) \/ book(r) \/ cancel(r) \/ statusOrNull(r) \/ sync(r) \/ record(r)

Next ==
    \/ \E op \in {"send", "cancel", "retryNow", "sync"} : request(op)
    \/ \E r \in Runners : RunnerStep(r) \/ runnerError(r) \/ crash(r)
    \/ \E r \in Runners, j \in DOMAIN jobs : claim(r, j)
    \/ \E j \in DOMAIN jobs : leaseEnds(j) \/ waitEnds(j)
    \/ \E a \in PersonActions \cup {"markCheckedOut"} \cup CloseActions : act(a)
    \/ \E a \in RunnerMoves : answerMoves(a)
    \/ answerNoBooking
    \/ answerRefused
    \/ \E i \in DOMAIN resv : supplierDecides(i)

Spec == Init /\ [][Next]_vars

\* The interval timer drives every runner, a started process() runs on, and clocks advance.
Fairness ==
    /\ \A r \in Runners : WF_vars(RunnerStep(r))
    /\ \A j \in 1..MaxJobs : /\ WF_vars(\E r \in Runners : j \in DOMAIN jobs /\ claim(r, j))
                             /\ WF_vars(j \in DOMAIN jobs /\ leaseEnds(j))
                             /\ WF_vars(j \in DOMAIN jobs /\ waitEnds(j))

FairSpec == Spec /\ Fairness

-----------------------------------------------------------------------------
(* Properties.                                                              *)

\* booking-supplier-jobs.service.ts: "there must be at most one per booking".  Clicks, crashes, failed
\* writes and re-claimed leases never leave two jobs of a booking waiting or running.
OneActiveJob == Cardinality(ActiveJobs) <= 1

\* A timeout never produces a duplicate: whatever calls throw and whoever sends, syncs or answers, the
\* supplier ends up with at most one live reservation under our reference.  A retry after a lost record
\* calls without asking, so this is promised only while no record of a call was lost.
OneReservation == ~lost => Cardinality(LiveAt) <= 1

\* Unknown is not Failed: a runner fails the booking only when the supplier holds nothing for it, again
\* while no record of a call was lost.
RunnerFailsNothingHeld ==
    [][\A r \in Runners :
           (~lost /\ runner[r].pc = "record" /\ status' = "FAILED" /\ status # "FAILED" /\ runner'[r] = Idle)
               => LiveAt = {}]_vars

\* The money facts agree with the status, whichever of a person, a runner and a late answer moved it:
\* one CONFIRMED per confirmed stay, one CANCELLED per cancellation, a hold released exactly when the
\* request it was taken for was turned down, and nothing twice.
FinanceFollowsStatus ==
    /\ finance["CONFIRMED"] = (IF status \in {"PENDING_SUPPLIER", "ON_REQUEST", "REJECTED", "FAILED"} THEN 0 ELSE 1)
    /\ finance["CANCELLED"] = (IF status = "CANCELLED" THEN 1 ELSE 0)
    /\ finance["HOLD_RELEASED"] = (IF status = "REJECTED" THEN 1 ELSE 0)
    /\ status \in {"ON_REQUEST", "REJECTED"} => finance["ON_REQUEST_HOLD"] = 1
    /\ finance["ON_REQUEST_HOLD"] <= 1

\* Once closed, no late runner and no person changes what the booking says: status, supplier word and
\* money facts stay as they were locked, although the writes to supplierStatus check no status.
ClosedIsFrozen == [][closed => UNCHANGED bookingVars]_vars

\* Every queued job ends or waits for a person: runners may crash in every call, the attempts run out.
JobsEnd ==
    \A j \in 1..MaxJobs : (j \in DOMAIN jobs /\ jobs[j].st \in ACTIVE)
                           ~> (j \in DOMAIN jobs /\ jobs[j].st \notin ACTIVE)
=============================================================================
