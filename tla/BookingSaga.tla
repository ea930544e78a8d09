---------------------------- MODULE BookingSaga ----------------------------
(***************************************************************************)
(* From an inventory hold to a charged booking.  A prebook request          *)
(* (SupplierPrebookOrchestrationService.execute) persists the booking,      *)
(* claims the hold, reserves wallet money, journals the supplier call,      *)
(* makes it once and records the answer; each of these is a transaction of  *)
(* its own, so requests of one idempotency key, requests of different keys  *)
(* on one hold, crashes, failing writes and the recovery sweep              *)
(* (BookingReconciliationService) interleave between them.  Confirmation,   *)
(* cancellation and its settlement are one transaction each.                *)
(*                                                                         *)
(* The stock behind a hold is the subject of InventoryHolds; here a hold is *)
(* its status.  The wallet is one account with a fixed spendable line.      *)
(***************************************************************************)
EXTENDS Integers, Sequences, FiniteSets

CONSTANTS
    Bookings,    \* bookings, one per idempotency key
    Holds,       \* inventory holds
    HoldOf,      \* the hold the command of each key names (part of its frozen snapshot)
    Requests,    \* HTTP requests that may be in flight at the same time
    KeyOf,       \* the booking whose key each request carries
    Sweepers,    \* recovery runs that may be in flight at the same time
    BatchSize,   \* claimed holds one recovery run lists (50 in the code)
    Price,       \* totalMinor of a booking
    Funds,       \* balance plus credit line of the wallet
    MaxTries,    \* bound on how often a client repeats a request
    MaxFaults    \* bound on database writes that fail under the code

ASSUME ConstantsOK ==
    /\ IsFiniteSet(Bookings)
    /\ HoldOf \in [Bookings -> Holds]
    /\ KeyOf \in [Requests -> Bookings]
    /\ BatchSize \in Nat \ {0}
    /\ Price \in Nat \ {0}
    /\ Funds \in Nat
    /\ MaxTries \in Nat
    /\ MaxFaults \in Nat

VARIABLES
    booking,   \* Booking.status, "NONE" before persistPending
    snapshot,  \* searchSnapshot.supplierPrebook.outcome, a copy for retries
    journal,   \* SupplierMutation.status; the supplierStatus once RESOLVED
    hold,      \* InventoryHold.status
    claims,    \* the holds in the order they were claimed (updated_at)
    due,       \* holds whose expires_at has passed
    stale,     \* holds claimed longer ago than the recovery threshold
    old,       \* bookings acknowledged longer ago than the confirmation window
    ledger,    \* entries of the booking: HOLD, RELEASE and the settlement pair
    refunds,   \* the minor units posted as REFUND, one by one
    calls,     \* supplier.prebook invocations per booking
    accepted,  \* bookings the supplier really holds
    at,        \* where each request is; "idle" when there is none
    tries,     \* how often each request was started
    run,       \* the recovery runs: position and what they read
    faults     \* write failures so far

moneyVars    == <<ledger, refunds>>
holdVars     == <<hold, claims, due, stale>>
supplierVars == <<calls, accepted>>
requestVars  == <<at, tries>>
vars == <<booking, snapshot, journal, holdVars, old, moneyVars, supplierVars,
          requestVars, run, faults>>

Statuses     == {"NONE", "PENDING_SUPPLIER", "CONFIRMED", "FAILED", "CANCELLED"}
HoldStatuses == {"HELD", "PROCESSING", "CONFIRMED", "RELEASED", "EXPIRED"}
Resolved     == {"not_sent", "rejected", "expired"}
Uncertain    == {"SENDING", "UNKNOWN"}
Journal      == {"NONE", "PREPARED", "ACKNOWLEDGED", "REJECTED"} \cup Uncertain \cup Resolved
Entries      == {"hold", "release", "settle-release", "settle-debit"}
Places       == {"idle", "lookup", "claim", "authorize", "unauthorized", "prepare", "send",
                 "recheck", "call", "acknowledge", "reject", "doubt", "markUnknown",
                 "retainUnknown", "retainPrebook", "returnMoney", "returnHold"}
RunPlaces    == {"idle", "booking", "journal", "mark", "fail", "money", "hold", "resolve"}

\* A run remembers the listed holds it has still to do, the hold it works on, the booking
\* it found and what it read of it.
Idle == [todo |-> {}, at |-> "idle", hold |-> "none", booking |-> "none", failed |-> FALSE,
         journal |-> "NONE"]
Runs == [todo : SUBSET Holds, at : RunPlaces, hold : Holds \cup {"none"},
         booking : Bookings \cup {"none"}, failed : BOOLEAN, journal : Journal]

TypeOK ==
    /\ booking \in [Bookings -> Statuses]
    /\ snapshot \in [Bookings -> {"none", "prebooked", "unknown"}]
    /\ journal \in [Bookings -> Journal]
    /\ hold \in [Holds -> HoldStatuses]
    /\ claims \in Seq(Holds)
    /\ due \in SUBSET Holds
    /\ stale \in SUBSET Holds
    /\ old \in SUBSET Bookings
    /\ ledger \in SUBSET (Bookings \X Entries)
    /\ refunds \in SUBSET (Bookings \X (1..Price))
    /\ calls \in [Bookings -> Nat]
    /\ accepted \in SUBSET Bookings
    /\ at \in [Requests -> Places]
    /\ tries \in [Requests -> 0..MaxTries]
    /\ run \in [Sweepers -> Runs]
    /\ faults \in 0..MaxFaults

Init ==
    /\ booking = [b \in Bookings |-> "NONE"]
    /\ snapshot = [b \in Bookings |-> "none"]
    /\ journal = [b \in Bookings |-> "NONE"]
    /\ hold = [h \in Holds |-> "HELD"]
    /\ claims = <<>>
    /\ due = {}
    /\ stale = {}
    /\ old = {}
    /\ ledger = {}
    /\ refunds = {}
    /\ calls = [b \in Bookings |-> 0]
    /\ accepted = {}
    /\ at = [r \in Requests |-> "idle"]
    /\ tries = [r \in Requests |-> 0]
    /\ run = [s \in Sweepers |-> Idle]
    /\ faults = 0

-----------------------------------------------------------------------------
(* The wallet: one ledger, its balance always the sum of the entries.      *)

Has(b, e) == <<b, e>> \in ledger
Number(e) == Cardinality({b \in Bookings : Has(b, e)})

\* What canSpend sees: balance plus credit line.
Spendable ==
    Funds + Price * (Number("release") + Number("settle-release")
                        - Number("hold") - Number("settle-debit"))
          + Cardinality(refunds)

Reserved(b) == Has(b, "hold") /\ ~Has(b, "release") /\ ~Has(b, "settle-release")
Charged(b)  == Has(b, "settle-debit")

-----------------------------------------------------------------------------
(* One prebook request.  Go moves it on; Done answers the client.          *)

Key(r)    == KeyOf[r]
HoldAt(r) == HoldOf[KeyOf[r]]
Go(r, p)  == at' = [at EXCEPT ![r] = p] /\ UNCHANGED tries
Done(r)   == Go(r, "idle")

\* A database write fails under the code.
Fault == faults < MaxFaults /\ faults' = faults + 1

\* persistPending: a new key needs a HELD, unexpired hold; a known key needs the same
\* snapshot and a pending booking.  A prebook result already on the snapshot answers.
Persist(r) ==
    LET b == Key(r)
    IN
    /\ at[r] = "idle"
    /\ tries[r] < MaxTries
    /\ tries' = [tries EXCEPT ![r] = @ + 1]
    /\ \/ /\ booking[b] = "NONE"
          /\ hold[HoldAt(r)] = "HELD"
          /\ HoldAt(r) \notin due
          /\ booking' = [booking EXCEPT ![b] = "PENDING_SUPPLIER"]
          /\ at' = [at EXCEPT ![r] = "lookup"]
       \/ /\ booking[b] = "PENDING_SUPPLIER"
          /\ snapshot[b] = "none"
          /\ at' = [at EXCEPT ![r] = "lookup"]
          /\ UNCHANGED booking
    /\ UNCHANGED <<snapshot, journal, holdVars, old, moneyVars, supplierVars, run, faults>>

\* findForBooking: any row past PREPARED answers the retry.
Lookup(r) ==
    /\ at[r] = "lookup"
    /\ IF journal[Key(r)] \in {"NONE", "PREPARED"} THEN Go(r, "claim") ELSE Done(r)
    /\ UNCHANGED <<booking, snapshot, journal, holdVars, old, moneyVars, supplierVars, run, faults>>

\* beginProcessing: claims a HELD, unexpired hold; a PROCESSING one counts as claimed.
Claim(r) ==
    LET h == HoldAt(r)
    IN
    /\ at[r] = "claim"
    /\ \/ /\ hold[h] = "HELD"
          /\ h \notin due
          /\ hold' = [hold EXCEPT ![h] = "PROCESSING"]
          /\ claims' = Append(claims, h)
          /\ Go(r, "authorize")
       \/ /\ hold[h] = "PROCESSING"
          /\ Go(r, "authorize")
          /\ UNCHANGED <<hold, claims>>
       \/ /\ hold[h] # "PROCESSING"
          /\ hold[h] = "HELD" => h \in due
          /\ Done(r)
          /\ UNCHANGED <<hold, claims>>
    /\ UNCHANGED <<booking, snapshot, journal, due, stale, old, moneyVars, supplierVars, run, faults>>

\* MUTANT of MaySpend: the balance is not looked at.
MaySpendAnything(amount) == amount > 0

MaySpend(amount) == amount <= Spendable

\* authorize: under the wallet lock, the HOLD entry of this key or a new one.
Authorize(r) ==
    LET b == Key(r)
    IN
    /\ at[r] = "authorize"
    /\ \/ /\ Has(b, "hold")
          /\ Go(r, "prepare")
          /\ UNCHANGED <<ledger, faults>>
       \/ /\ ~Has(b, "hold")
          /\ MaySpend(Price)
          /\ ledger' = ledger \cup {<<b, "hold">>}
          /\ Go(r, "prepare")
          /\ UNCHANGED faults
       \/ /\ ~Has(b, "hold")
          /\ ~MaySpend(Price)
          /\ Go(r, "unauthorized")
          /\ UNCHANGED <<ledger, faults>>
       \/ /\ Fault
          /\ Go(r, "unauthorized")
          /\ UNCHANGED ledger
    /\ UNCHANGED <<booking, snapshot, journal, holdVars, old, refunds, supplierVars, run>>

\* release: HELD or PROCESSING becomes RELEASED, anything else is left alone.
Released(h) == IF hold[h] \in {"HELD", "PROCESSING"}
               THEN [hold EXCEPT ![h] = "RELEASED"] ELSE hold

\* Whatever authorize threw, the hold goes back.
ReleaseUnauthorized(r) ==
    /\ at[r] = "unauthorized"
    /\ hold' = Released(HoldAt(r))
    /\ Done(r)
    /\ UNCHANGED <<booking, snapshot, journal, claims, due, stale, old, moneyVars, supplierVars, run, faults>>

\* journal.prepare: insert PREPARED, or return the row of this key.  A failed write means
\* the supplier was not called: compensate.
Prepare(r) ==
    LET b == Key(r)
    IN
    /\ at[r] = "prepare"
    /\ \/ /\ journal[b] \in {"NONE", "PREPARED"}
          /\ journal' = [journal EXCEPT ![b] = "PREPARED"]
          /\ Go(r, "send")
          /\ UNCHANGED faults
       \/ /\ journal[b] \notin {"NONE", "PREPARED"}
          /\ Done(r)
          /\ UNCHANGED <<journal, faults>>
       \/ /\ Fault
          /\ Go(r, "returnMoney")
          /\ UNCHANGED journal
    /\ UNCHANGED <<booking, snapshot, holdVars, old, moneyVars, supplierVars, run>>

\* MUTANT of MayCall: the journal row is not compared before it is set.
MayCallAlways(b) == journal[b] # "NONE"

\* Only the request that moves PREPARED to SENDING may call the supplier.
MayCall(b) == journal[b] = "PREPARED"

\* markSending; when it throws, its write may have committed or not.
MarkSending(r) ==
    LET b == Key(r)
    IN
    /\ at[r] = "send"
    /\ \/ /\ MayCall(b)
          /\ journal' = [journal EXCEPT ![b] = "SENDING"]
          /\ \/ Go(r, "call") /\ UNCHANGED faults
             \/ Go(r, "recheck") /\ Fault
       \/ /\ ~MayCall(b)
          /\ Done(r)
          /\ UNCHANGED <<journal, faults>>
       \/ /\ Fault
          /\ Go(r, "recheck")
          /\ UNCHANGED journal
    /\ UNCHANGED <<booking, snapshot, holdVars, old, moneyVars, supplierVars, run>>

\* findById after a failed markSending: only a row that cannot have been sent is compensated
\* (a read that fails too ends the request as Crash does).
Recheck(r) ==
    /\ at[r] = "recheck"
    /\ IF journal[Key(r)] \in Uncertain \cup {"ACKNOWLEDGED"} THEN Done(r) ELSE Go(r, "returnMoney")
    /\ UNCHANGED <<booking, snapshot, journal, holdVars, old, moneyVars, supplierVars, run, faults>>

\* supplier.prebook: it accepts or refuses; an answer that is lost (timeout or transport
\* error) is in doubt, one that cannot be read (malformed_response) counts as a refusal,
\* and in both cases the supplier may have accepted.
CallSupplier(r) ==
    LET b == Key(r)
    IN
    /\ at[r] = "call"
    /\ calls' = [calls EXCEPT ![b] = @ + 1]
    /\ \/ accepted' = accepted \cup {b} /\ Go(r, "acknowledge")
       \/ accepted' \in {accepted, accepted \cup {b}} /\ (Go(r, "reject") \/ Go(r, "doubt"))
    /\ UNCHANGED <<booking, snapshot, journal, holdVars, old, moneyVars, run, faults>>

\* acknowledge, from SENDING or UNKNOWN.  Otherwise, or when the write fails, the row is
\* marked unknown and nothing is compensated.
Acknowledge(r) ==
    LET b == Key(r)
    IN
    /\ at[r] = "acknowledge"
    /\ \/ /\ journal[b] \in Uncertain
          /\ journal' = [journal EXCEPT ![b] = "ACKNOWLEDGED"]
          /\ Go(r, "retainPrebook")
          /\ UNCHANGED faults
       \/ /\ journal[b] \notin Uncertain
          /\ Go(r, "markUnknown")
          /\ UNCHANGED <<journal, faults>>
       \/ /\ Fault
          /\ Go(r, "markUnknown")
          /\ UNCHANGED journal
    /\ UNCHANGED <<booking, snapshot, holdVars, old, moneyVars, supplierVars, run>>

\* reject, best effort: PREPARED or SENDING becomes REJECTED; then compensate.
Reject(r) ==
    LET b == Key(r)
    IN
    /\ at[r] = "reject"
    /\ Go(r, "returnMoney")
    /\ \/ /\ journal' = [journal EXCEPT ![b] = IF @ \in {"PREPARED", "SENDING"} THEN "REJECTED" ELSE @]
          /\ UNCHANGED faults
       \/ /\ Fault
          /\ UNCHANGED journal
    /\ UNCHANGED <<booking, snapshot, holdVars, old, moneyVars, supplierVars, run>>

\* markUnknown, best effort, after a lost answer ("doubt", which then copies the outcome to
\* the snapshot) or after a lost acknowledgement.
MarkUnknown(r) ==
    LET b == Key(r)
    IN
    /\ at[r] \in {"doubt", "markUnknown"}
    /\ IF at[r] = "doubt" THEN Go(r, "retainUnknown") ELSE Done(r)
    /\ \/ /\ journal' = [journal EXCEPT ![b] = IF @ = "SENDING" THEN "UNKNOWN" ELSE @]
          /\ UNCHANGED faults
       \/ /\ Fault
          /\ UNCHANGED journal
    /\ UNCHANGED <<booking, snapshot, holdVars, old, moneyVars, supplierVars, run>>

\* recordSupplierPrebook: only while pending, and never from prebooked back.  When the write
\* fails the request ends without it, as after a Crash.
Retain(r) ==
    LET b == Key(r)
        outcome == IF at[r] = "retainPrebook" THEN "prebooked" ELSE "unknown"
    IN
    /\ at[r] \in {"retainPrebook", "retainUnknown"}
    /\ snapshot' = [snapshot EXCEPT ![b] =
                        IF booking[b] = "PENDING_SUPPLIER" /\ @ # "prebooked" THEN outcome ELSE @]
    /\ Done(r)
    /\ UNCHANGED <<booking, journal, holdVars, old, moneyVars, supplierVars, run, faults>>

\* finance.release: returns a reservation once; it needs the HOLD entry and looks at
\* nothing else.
Returned(b) == IF Has(b, "hold") THEN ledger \cup {<<b, "release">>} ELSE ledger

\* compensate, first leg: a failure is recorded and the second leg still runs.
ReturnMoney(r) ==
    /\ at[r] = "returnMoney"
    /\ Go(r, "returnHold")
    /\ \/ ledger' = Returned(Key(r)) /\ UNCHANGED faults
       \/ Fault /\ UNCHANGED ledger
    /\ UNCHANGED <<booking, snapshot, journal, holdVars, old, refunds, supplierVars, run>>

\* compensate, second leg.
ReturnHold(r) ==
    /\ at[r] = "returnHold"
    /\ Done(r)
    /\ \/ hold' = Released(HoldAt(r)) /\ UNCHANGED faults
       \/ Fault /\ UNCHANGED hold
    /\ UNCHANGED <<booking, snapshot, journal, claims, due, stale, old, moneyVars, supplierVars, run>>

\* The process dies: what it wrote stays, where it was is lost.
Crash(r) ==
    /\ at[r] # "idle"
    /\ Done(r)
    /\ UNCHANGED <<booking, snapshot, journal, holdVars, old, moneyVars, supplierVars, run, faults>>

-----------------------------------------------------------------------------
(* The holds outside a booking attempt, and the clock.                     *)

\* MUTANT of LetGo: the expiry also takes claimed holds.
LetGoClaimed(h) ==
    /\ hold[h] \in {"HELD", "PROCESSING"}
    /\ h \in due
    /\ hold' = [hold EXCEPT ![h] = "EXPIRED"]
    /\ UNCHANGED <<booking, snapshot, journal, claims, due, stale, old, moneyVars, supplierVars,
                   requestVars, run, faults>>

\* The expiry sweep or the owner gives an unclaimed hold back.
LetGo(h) ==
    /\ hold[h] = "HELD"
    /\ \/ h \in due /\ hold' = [hold EXCEPT ![h] = "EXPIRED"]
       \/ hold' = [hold EXCEPT ![h] = "RELEASED"]
    /\ UNCHANGED <<booking, snapshot, journal, claims, due, stale, old, moneyVars, supplierVars,
                   requestVars, run, faults>>

FallDue(h) ==
    /\ h \notin due
    /\ due' = due \cup {h}
    /\ UNCHANGED <<booking, snapshot, journal, hold, claims, stale, old, moneyVars, supplierVars,
                   requestVars, run, faults>>

\* A request lasts less than the recovery threshold (at least 5 minutes) and the
\* confirmation window (at least 15): nothing that was in flight when the hold was claimed
\* still is when they have passed.  A repeated request may start at any time later.
Quiet(h) == \A r \in Requests : HoldAt(r) = h => at[r] = "idle"

GoStale(h) ==
    /\ hold[h] = "PROCESSING"
    /\ Quiet(h)
    /\ h \notin stale
    /\ stale' = stale \cup {h}
    /\ UNCHANGED <<booking, snapshot, journal, hold, claims, due, old, moneyVars, supplierVars,
                   requestVars, run, faults>>

WindowPasses(b) ==
    /\ journal[b] = "ACKNOWLEDGED"
    /\ Quiet(HoldOf[b])
    /\ b \notin old
    /\ old' = old \cup {b}
    /\ UNCHANGED <<booking, snapshot, journal, holdVars, moneyVars, supplierVars,
                   requestVars, run, faults>>

-----------------------------------------------------------------------------
(* Recovery: reconcileStale lists claimed holds and reconcileOne works on    *)
(* one, a transaction at a time, on what it read before.                     *)

RunTo(s, p) == run' = [run EXCEPT ![s].at = p]
RunEnds(s)  == run' = [run EXCEPT ![s] = [Idle EXCEPT !.todo = run[s].todo]]

\* The stale claimed holds, and among them the ones claimed first.
StaleClaims == {h \in Holds : hold[h] = "PROCESSING" /\ h \in stale}
Earlier(g, h) == \E i, j \in DOMAIN claims : i < j /\ claims[i] = g /\ claims[j] = h
Oldest == {h \in StaleClaims : Cardinality({g \in StaleClaims : Earlier(g, h)}) < BatchSize}

RunList(s) ==
    /\ run[s] = Idle
    /\ Oldest # {}
    /\ run' = [run EXCEPT ![s].todo = Oldest]
    /\ UNCHANGED <<booking, snapshot, journal, holdVars, old, moneyVars, supplierVars,
                   requestVars, faults>>

RunPick(s, h) ==
    /\ run[s].at = "idle"
    /\ h \in run[s].todo
    /\ run' = [run EXCEPT ![s].at = "booking", ![s].hold = h, ![s].todo = @ \ {h}]
    /\ UNCHANGED <<booking, snapshot, journal, holdVars, old, moneyVars, supplierVars,
                   requestVars, faults>>

\* findFirst: some booking whose snapshot names the hold.  One that is neither pending nor
\* failed is left alone.
RunBooking(s, b) ==
    /\ run[s].at = "booking"
    /\ HoldOf[b] = run[s].hold
    /\ booking[b] # "NONE"
    /\ IF booking[b] \in {"PENDING_SUPPLIER", "FAILED"}
       THEN run' = [run EXCEPT ![s].at = "journal", ![s].booking = b,
                               ![s].failed = (booking[b] = "FAILED")]
       ELSE RunEnds(s)
    /\ UNCHANGED <<booking, snapshot, journal, holdVars, old, moneyVars, supplierVars,
                   requestVars, faults>>

\* MUTANTS of Decision: an unknown outcome counts as a failure; a rejected or a prebooked
\* booking is left alone.
DecisionUnknownFails(j, failed, late) ==
    CASE j = "SENDING" -> "mark"
      [] j = "ACKNOWLEDGED" -> IF failed \/ ~late THEN "idle" ELSE "fail"
      [] OTHER -> IF failed THEN "money" ELSE "fail"
DecisionKeepsRejected(j, failed, late) ==
    CASE j = "SENDING" -> "mark"
      [] j \in {"UNKNOWN", "REJECTED"} -> "idle"
      [] j = "ACKNOWLEDGED" -> IF failed \/ ~late THEN "idle" ELSE "fail"
      [] OTHER -> IF failed THEN "money" ELSE "fail"
DecisionKeepsPrebooked(j, failed, late) ==
    CASE j = "SENDING" -> "mark"
      [] j \in {"UNKNOWN", "ACKNOWLEDGED"} -> "idle"
      [] OTHER -> IF failed THEN "money" ELSE "fail"

\* What recovery does on what it read: an unobserved outcome goes to manual review (SENDING
\* is marked first), an accepted one waits for its window, the rest is failed and returned.
Decision(j, failed, late) ==
    CASE j = "SENDING" -> "mark"
      [] j = "UNKNOWN" -> "idle"
      [] j = "ACKNOWLEDGED" -> IF failed \/ ~late THEN "idle" ELSE "fail"
      [] OTHER -> IF failed THEN "money" ELSE "fail"

RunJournal(s) ==
    LET b == run[s].booking
        next == Decision(journal[b], run[s].failed, b \in old)
    IN
    /\ run[s].at = "journal"
    /\ IF next = "idle" THEN RunEnds(s)
       ELSE run' = [run EXCEPT ![s].at = next, ![s].journal = journal[b]]
    /\ UNCHANGED <<booking, snapshot, journal, holdVars, old, moneyVars, supplierVars,
                   requestVars, faults>>

\* MUTANT of RunMark: an interrupted call is taken for one that was never made.
RunMarkNotSent(s) ==
    LET b == run[s].booking
    IN
    /\ run[s].at = "mark"
    /\ journal' = [journal EXCEPT ![b] = IF @ = "SENDING" THEN "not_sent" ELSE @]
    /\ RunEnds(s)
    /\ UNCHANGED <<booking, snapshot, holdVars, old, moneyVars, supplierVars, requestVars, faults>>

RunMark(s) ==
    LET b == run[s].booking
    IN
    /\ run[s].at = "mark"
    /\ journal' = [journal EXCEPT ![b] = IF @ = "SENDING" THEN "UNKNOWN" ELSE @]
    /\ RunEnds(s)
    /\ UNCHANGED <<booking, snapshot, holdVars, old, moneyVars, supplierVars, requestVars, faults>>

\* MUTANT of MayFail: the booking is failed without comparing its status.
MayFailAnything(b) == booking[b] # "NONE"

\* transitionBooking(systemFail): a compare-and-set on PENDING_SUPPLIER, replayed when an
\* earlier run already made it.
MayFail(b) == booking[b] \in {"PENDING_SUPPLIER", "FAILED"}

RunFail(s) ==
    LET b == run[s].booking
    IN
    /\ run[s].at = "fail"
    /\ IF MayFail(b)
       THEN booking' = [booking EXCEPT ![b] = "FAILED"] /\ RunTo(s, "money")
       ELSE UNCHANGED booking /\ RunEnds(s)
    /\ UNCHANGED <<snapshot, journal, holdVars, old, moneyVars, supplierVars, requestVars, faults>>

RunMoney(s) ==
    /\ run[s].at = "money"
    /\ ledger' = Returned(run[s].booking)
    /\ RunTo(s, "hold")
    /\ UNCHANGED <<booking, snapshot, journal, holdVars, old, refunds, supplierVars,
                   requestVars, faults>>

RunHold(s) ==
    /\ run[s].at = "hold"
    /\ hold' = Released(run[s].hold)
    /\ IF run[s].journal \in {"PREPARED", "REJECTED", "ACKNOWLEDGED"}
       THEN RunTo(s, "resolve") ELSE RunEnds(s)
    /\ UNCHANGED <<booking, snapshot, journal, claims, due, stale, old, moneyVars, supplierVars,
                   requestVars, faults>>

\* The verdict follows from what was read; the write excludes only a RESOLVED row.
Verdict(j) == CASE j = "PREPARED" -> "not_sent"
                [] j = "REJECTED" -> "rejected"
                [] j = "ACKNOWLEDGED" -> "expired"

RunResolve(s) ==
    LET b == run[s].booking
    IN
    /\ run[s].at = "resolve"
    /\ journal' = [journal EXCEPT ![b] = IF @ \in Resolved THEN @ ELSE Verdict(run[s].journal)]
    /\ RunEnds(s)
    /\ UNCHANGED <<booking, snapshot, holdVars, old, moneyVars, supplierVars, requestVars, faults>>

\* A step throws, and the run goes on with the next hold; or the process dies.
RunBreaks(s) ==
    /\ run[s].at # "idle"
    /\ Fault
    /\ RunEnds(s) \/ run' = [run EXCEPT ![s] = Idle]
    /\ UNCHANGED <<booking, snapshot, journal, holdVars, old, moneyVars, supplierVars,
                   requestVars>>

-----------------------------------------------------------------------------
(* Confirmation, cancellation and settlement: one transaction each, under    *)
(* the booking, hold and wallet row locks.                                   *)

\* MUTANT of MayConfirm: the hold's status is not looked at.
MayConfirmAnyHold(b) ==
    /\ booking[b] = "PENDING_SUPPLIER"
    /\ journal[b] = "ACKNOWLEDGED"
    /\ Has(b, "hold")
    /\ ~Has(b, "release")

MayConfirm(b) ==
    /\ booking[b] = "PENDING_SUPPLIER"
    /\ journal[b] = "ACKNOWLEDGED"
    /\ hold[HoldOf[b]] = "PROCESSING"
    /\ Has(b, "hold")
    /\ ~Has(b, "release")

Confirm(b) ==
    /\ MayConfirm(b)
    /\ booking' = [booking EXCEPT ![b] = "CONFIRMED"]
    /\ hold' = [hold EXCEPT ![HoldOf[b]] = "CONFIRMED"]
    /\ ledger' = ledger \cup {<<b, "settle-release">>, <<b, "settle-debit">>}
    /\ UNCHANGED <<snapshot, journal, claims, due, stale, old, refunds, supplierVars, requestVars, run, faults>>

Posted(b) == {n \in 1..Price : <<b, n>> \in refunds}

\* cancel, with the refund the frozen terms quote.
Cancel(b, refund) ==
    /\ booking[b] = "CONFIRMED"
    /\ Charged(b)
    /\ booking' = [booking EXCEPT ![b] = "CANCELLED"]
    /\ hold' = [hold EXCEPT ![HoldOf[b]] = "RELEASED"]
    /\ refunds' = refunds \cup ({b} \X (1..refund))
    /\ UNCHANGED <<snapshot, journal, claims, due, stale, old, ledger, supplierVars, requestVars, run, faults>>

\* MUTANT of Delta: the whole target is posted on top of what was posted before.
DeltaAgain(b, target) == {n \in 1..(target + Cardinality(Posted(b))) : n > Cardinality(Posted(b))}

\* Only the difference to what was posted is added.
Delta(b, target) == {n \in 1..target : n > Cardinality(Posted(b))}

\* settle: a penalty decided or waived later raises the refund to its target, never lowers it.
Settle(b, target) ==
    /\ booking[b] = "CANCELLED"
    /\ Charged(b)
    /\ Cardinality(Posted(b)) < target
    /\ refunds' = refunds \cup ({b} \X Delta(b, target))
    /\ UNCHANGED <<booking, snapshot, journal, holdVars, old, ledger, supplierVars,
                   requestVars, run, faults>>

-----------------------------------------------------------------------------
RequestNext(r) ==
    \/ Persist(r) \/ Lookup(r) \/ Claim(r) \/ Authorize(r) \/ ReleaseUnauthorized(r)
    \/ Prepare(r) \/ MarkSending(r) \/ Recheck(r) \/ CallSupplier(r) \/ Acknowledge(r)
    \/ Reject(r) \/ MarkUnknown(r) \/ Retain(r) \/ ReturnMoney(r) \/ ReturnHold(r) \/ Crash(r)

RunNext(s) ==
    \/ RunList(s)
    \/ \E h \in Holds : RunPick(s, h)
    \/ \E b \in Bookings : RunBooking(s, b)
    \/ RunJournal(s) \/ RunMark(s) \/ RunFail(s) \/ RunMoney(s) \/ RunHold(s)
    \/ RunResolve(s) \/ RunBreaks(s)

Next ==
    \/ \E r \in Requests : RequestNext(r)
    \/ \E s \in Sweepers : RunNext(s)
    \/ \E h \in Holds : LetGo(h) \/ FallDue(h) \/ GoStale(h)
    \/ \E b \in Bookings : WindowPasses(b) \/ Confirm(b)
    \/ \E b \in Bookings, n \in 0..Price : Cancel(b, n) \/ Settle(b, n)

Spec == Init /\ [][Next]_vars

-----------------------------------------------------------------------------
(* Properties.                                                             *)

\* However requests race, repeat and crash, one booking's supplier call is made at most once
\* (MUT-11 "exactly one supplier invocation").
CalledAtMostOnce == \A b \in Bookings : calls[b] <= 1

\* One hold pays for at most one booking, also when two keys booked it.
HoldChargedOnce ==
    \A b, c \in Bookings : Charged(b) /\ Charged(c) /\ HoldOf[b] = HoldOf[c] => b = c

\* A charge always has the sold rooms and the confirmed booking behind it; a failed booking is
\* never charged: confirmation and recovery have one winner.
ChargeHasItsRooms ==
    \A b \in Bookings :
        /\ Charged(b) => \/ booking[b] = "CONFIRMED" /\ hold[HoldOf[b]] = "CONFIRMED"
                         \/ booking[b] = "CANCELLED" /\ hold[HoldOf[b]] = "RELEASED"
        /\ booking[b] \in {"CONFIRMED", "CANCELLED"} => Charged(b) /\ b \in accepted

\* The wallet is never spent beyond its balance and credit line.
NeverOverdrawn == Spendable >= 0

\* What a cancellation and all later settlements post together never exceeds the charge, and
\* nothing is refunded that was not charged.
RefundWithinCharge ==
    \A b \in Bookings :
        Cardinality({u \in refunds : u[1] = b}) <= (IF Charged(b) THEN Price ELSE 0)

\* A reservation is either returned or settled, never both: "the confirmed stay would net
\* to zero" (confirm refuses a returned reservation; nothing may return it afterwards).
ReturnedOrSettled == \A b \in Bookings : ~(Has(b, "release") /\ Charged(b))

\* The money of every booking goes through the outcomes of BookingOutcome and no others; both
\* charged and returned is none of them.
Money(b) == IF Charged(b) THEN IF Has(b, "release") THEN "charged and returned" ELSE "charged"
            ELSE IF Has(b, "release") THEN "returned"
            ELSE IF Has(b, "hold") THEN "reserved" ELSE "none"
Outcome == INSTANCE BookingOutcome WITH money <- [b \in Bookings |-> Money(b)]
ImplementsBookingOutcome == Outcome!Spec

\* While a request is between its claim and the supplier's answer nobody gives its hold back:
\* "a claimed hold can no longer be released mid-checkout".
InCheckout(r) == at[r] \in {"authorize", "prepare", "send", "call", "acknowledge"}
ClaimOutlivesCheckout ==
    [][\A r \in Requests :
        InCheckout(r) /\ hold[HoldAt(r)] = "PROCESSING"
            => hold'[HoldAt(r)] \in {"PROCESSING", "CONFIRMED"}]_vars

\* An outcome the journal has not observed is never resolved by recovery: it goes to manual
\* review.
UnobservedIsNotResolved ==
    [][\A b \in Bookings : journal[b] \in Uncertain => journal'[b] \notin Resolved]_vars

\* As long as the supplier may have accepted, the rooms stay claimed and the money reserved
\* (MUT-05 "retains inventory and finance on supplier timeout").
UnobservedKeepsItsClaims ==
    \A b \in Bookings : journal[b] \in Uncertain => hold[HoldOf[b]] = "PROCESSING" /\ Reserved(b)

-----------------------------------------------------------------------------
(* A request that was started goes on until it ends or dies; time passes;    *)
(* recovery is run again and again and goes through its list.  Clients,      *)
(* confirmations and cancellations are not obliged to come.                  *)
RequestStep(r) ==
    \/ Lookup(r) \/ Claim(r) \/ Authorize(r) \/ ReleaseUnauthorized(r) \/ Prepare(r)
    \/ MarkSending(r) \/ Recheck(r) \/ CallSupplier(r) \/ Acknowledge(r) \/ Reject(r)
    \/ MarkUnknown(r) \/ Retain(r) \/ ReturnMoney(r) \/ ReturnHold(r)

RunStep(s) ==
    \/ RunList(s)
    \/ \E h \in Holds : RunPick(s, h)
    \/ \E b \in Bookings : RunBooking(s, b)
    \/ RunJournal(s) \/ RunMark(s) \/ RunFail(s) \/ RunMoney(s) \/ RunHold(s) \/ RunResolve(s)

Fairness ==
    /\ \A r \in Requests : WF_vars(RequestStep(r))
    /\ \A s \in Sweepers : WF_vars(RunStep(s))
    /\ \A h \in Holds : WF_vars(GoStale(h))
    /\ \A b \in Bookings : WF_vars(WindowPasses(b))

FairSpec == Spec /\ Fairness

\* The money of a booking the supplier refused comes back to the agency, by compensation or
\* by recovery.
RejectedMoneyComesBack ==
    \A b \in Bookings : journal[b] = "REJECTED" /\ Reserved(b) ~> ~Reserved(b)

\* A prebooked booking that is never confirmed does not hold wallet credit forever.
PrebookNeverHoldsForever ==
    \A b \in Bookings : journal[b] = "ACKNOWLEDGED" /\ Reserved(b) ~> ~Reserved(b)
=============================================================================
