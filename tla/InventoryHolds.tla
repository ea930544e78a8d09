--------------------------- MODULE InventoryHolds ---------------------------
(***************************************************************************)
(* The hold subsystem of the Agent API: reserveNight and moveNight          *)
(* (inventory/inventory-counters.ts) move the held/sold counters of plan    *)
(* rows and pool days; InventoryHoldService creates, claims, releases and   *)
(* expires holds; HoldExpirySweeper runs the expiry; confirmation and       *)
(* cancellation move sold stock; administrators edit capacity, terms and    *)
(* pool membership meanwhile.                                               *)
(*                                                                         *)
(* One database transaction is one step.  Work that spans transactions      *)
(* (the sweep, the owner's release) or that checks a table it does not lock *)
(* before it writes another (joining a pool) is split at those points.      *)
(***************************************************************************)
EXTENDS Integers, FiniteSets

CONSTANTS
    Plans,        \* rate plans
    Pools,        \* shared inventory pools
    Nights,       \* stay dates
    Stays,        \* the runs of nights a hold may ask for
    Holds,        \* hold identifiers, one per idempotency key
    Terms,        \* the selling terms a plan row may have (see TermsOK)
    MaxRooms,     \* rooms per hold (the API accepts 1 to 8)
    MaxCapacity,  \* bound on an edited capacity
    BatchSize,    \* holds one expiry pass reads (100 in the code)
    MaxCrashes,   \* bound on crashes of the sweeper
    NoPool, NoCap

Modes == {"ALLOTMENT", "FREE_SALE", "ON_REQUEST", "CLOSED"}

\* Terms of one plan row: its inventory mode; whether it is open (not stop-sold, it and the
\* pool day behind it fresh, no STOP_SALE or ON_REQUEST room-sales rule); whether a rule forces a
\* free-sale room to consume stock; the tightest LIMITED cap.
TermsOK(t) ==
    /\ t.mode \in Modes
    /\ t.open \in BOOLEAN
    /\ t.force \in BOOLEAN
    /\ t.cap \in Nat \cup {NoCap}

ASSUME ConstantsOK ==
    /\ Plans \cap Pools = {}
    /\ NoPool \notin Pools
    /\ NoCap \notin Nat
    /\ Stays \subseteq SUBSET Nights
    /\ IsFiniteSet(Holds)
    /\ MaxRooms \in Nat \ {0}
    /\ MaxCapacity \in Nat
    /\ BatchSize \in Nat \ {0}
    /\ MaxCrashes \in Nat
    /\ \A t \in Terms : TermsOK(t) /\ [t EXCEPT !.open = FALSE] \in Terms

PlanRows == Plans \X Nights
PoolDays == Pools \X Nights
Counters == (Plans \cup Pools) \X Nights

VARIABLES
    capacity,   \* DailyAvailability.allotment / InventoryPoolDay.capacity
    held, sold, \* the running counters of both tables
    terms,      \* per plan row
    pool,       \* RatePlan.inventory_pool_id
    archived,   \* pools whose status is ARCHIVED
    joining,    \* <<p, q>>: addMembers has checked plan p for pool q, not yet written
    status,     \* InventoryHold.status; "NONE" before the hold exists
    nights,     \* the plan rows of its nights (InventoryHoldNight.availability_id)
    rooms,      \* InventoryHoldNight.quantity
    draw,       \* the counters recorded on its nights (counterKind, poolDayId)
    due,        \* holds whose expires_at has passed
    ownRead,    \* holds whose owner's release request has read them HELD
    batch,      \* the sweeper's due list, read earlier
    crashes

stockVars == <<capacity, held, sold>>
adminVars == <<terms, pool, archived, joining>>
holdVars  == <<nights, rooms, draw>>
sweepVars == <<batch, crashes>>
vars == <<stockVars, adminVars, status, holdVars, due, ownRead, sweepVars>>

Statuses == {"NONE", "HELD", "PROCESSING", "CONFIRMED", "RELEASED", "EXPIRED"}

TypeOK ==
    /\ capacity \in [Counters -> Nat]
    /\ held \in [Counters -> Nat]
    /\ sold \in [Counters -> Nat]
    /\ terms \in [PlanRows -> Terms]
    /\ pool \in [Plans -> Pools \cup {NoPool}]
    /\ archived \in SUBSET Pools
    /\ joining \in SUBSET (Plans \X Pools)
    /\ status \in [Holds -> Statuses]
    /\ nights \in [Holds -> SUBSET PlanRows]
    /\ rooms \in [Holds -> 0..MaxRooms]
    /\ draw \in [Holds -> SUBSET Counters]
    /\ due \in SUBSET Holds
    /\ ownRead \in SUBSET Holds
    /\ batch \in SUBSET Holds
    /\ crashes \in 0..MaxCrashes

Init ==
    /\ capacity \in [Counters -> 0..MaxCapacity]
    /\ held = [c \in Counters |-> 0]
    /\ sold = [c \in Counters |-> 0]
    /\ terms \in [PlanRows -> Terms]
    /\ pool = [p \in Plans |-> NoPool]
    /\ archived = {}
    /\ joining = {}
    /\ status = [h \in Holds |-> "NONE"]
    /\ nights = [h \in Holds |-> {}]
    /\ rooms = [h \in Holds |-> 0]
    /\ draw = [h \in Holds |-> {}]
    /\ due = {}
    /\ ownRead = {}
    /\ batch = {}
    /\ crashes = 0

-----------------------------------------------------------------------------
(* Counters.                                                               *)

\* f with k added on the counters of D.
Shift(f, D, k) == [c \in Counters |-> IF c \in D THEN f[c] + k ELSE f[c]]

\* A free-sale night that no rule forces or caps draws on no counter.
TakesNoCounter(t) == t.mode = "FREE_SALE" /\ ~t.force /\ t.cap = NoCap

\* The counter behind plan row r: the pool day when the plan is pooled, the row itself
\* otherwise.
CounterOf(r) == IF pool[r[1]] = NoPool THEN r ELSE <<pool[r[1]], r[2]>>

\* The counters a hold on the plan rows R draws on.
CountersFor(R) == {CounterOf(r) : r \in {x \in R : ~TakesNoCounter(terms[x])}}

\* MUTANT of MayReserve: the guard forgets the rooms already sold.
MayReserveIgnoringSold(r, q) ==
    LET t == terms[r]
        c == CounterOf(r)
    IN  /\ t.open
        /\ t.mode \in {"ALLOTMENT", "FREE_SALE"}
        /\ TakesNoCounter(t) \/ /\ pool[r[1]] \notin archived
                                /\ held[c] + q <= capacity[c]

\* Every condition reserveNight puts on one night.
MayReserve(r, q) ==
    LET t == terms[r]
        c == CounterOf(r)
    IN  /\ t.open
        /\ t.mode \in {"ALLOTMENT", "FREE_SALE"}
        /\ TakesNoCounter(t) \/ /\ pool[r[1]] \notin archived
                                /\ sold[c] + held[c] + q <= capacity[c]
                                /\ t.cap # NoCap => sold[c] + held[c] + q <= t.cap

-----------------------------------------------------------------------------
(* InventoryHoldService.                                                   *)

\* create: one transaction reserves every night or none.  A repeated idempotency
\* key finds the row and changes nothing; the credit check may only refuse.
Create(h, p, s, q) ==
    LET R == {p} \X s
    IN
    /\ status[h] = "NONE"
    /\ \A r \in R : MayReserve(r, q)
    /\ held' = Shift(held, CountersFor(R), q)
    /\ draw' = [draw EXCEPT ![h] = CountersFor(R)]
    /\ nights' = [nights EXCEPT ![h] = R]
    /\ rooms' = [rooms EXCEPT ![h] = q]
    /\ status' = [status EXCEPT ![h] = "HELD"]
    /\ UNCHANGED <<capacity, sold, adminVars, due, ownRead, sweepVars>>

\* The clock passes the hold's expires_at.
FallDue(h) ==
    /\ status[h] # "NONE"
    /\ h \notin due
    /\ due' = due \cup {h}
    /\ UNCHANGED <<stockVars, adminVars, status, holdVars, ownRead, sweepVars>>

\* MUTANT of BeginProcessing: the claim does not look at the status.
ClaimAnything(h) ==
    /\ status[h] # "NONE"
    /\ h \notin due
    /\ status' = [status EXCEPT ![h] = "PROCESSING"]
    /\ UNCHANGED <<stockVars, adminVars, holdVars, due, ownRead, sweepVars>>

\* beginProcessing: only an unexpired HELD hold is claimed.  Claiming a PROCESSING
\* hold again succeeds and changes nothing.
BeginProcessing(h) ==
    /\ status[h] = "HELD"
    /\ h \notin due
    /\ status' = [status EXCEPT ![h] = "PROCESSING"]
    /\ UNCHANGED <<stockVars, adminVars, holdVars, due, ownRead, sweepVars>>

\* MUTANTS of ReturnHeld: the units go to the counter the plan uses now, not to the one
\* recorded on the night (with and without the guard on held).
ReturnHeldUnguarded(h) == held' = Shift(held, {CounterOf(r) : r \in nights[h]}, -rooms[h])
ReturnHeldToCurrent(h) ==
    /\ \A r \in nights[h] : held[CounterOf(r)] >= rooms[h]
    /\ held' = Shift(held, {CounterOf(r) : r \in nights[h]}, -rooms[h])

\* moveNight(..., 'release') for every night, on the counter recorded at
\* reservation.  A counter that does not hold the units makes the transaction throw.
ReturnHeld(h) ==
    /\ \A c \in draw[h] : held[c] >= rooms[h]
    /\ held' = Shift(held, draw[h], -rooms[h])

\* release, called by the booking flow: HELD or PROCESSING.
Release(h) ==
    /\ status[h] \in {"HELD", "PROCESSING"}
    /\ ReturnHeld(h)
    /\ status' = [status EXCEPT ![h] = "RELEASED"]
    /\ UNCHANGED <<capacity, sold, adminVars, holdVars, due, ownRead, sweepVars>>

\* releaseOwn reads the hold first and decides on what it read ...
OwnRead(h) ==
    /\ status[h] = "HELD"
    /\ h \notin ownRead
    /\ ownRead' = ownRead \cup {h}
    /\ UNCHANGED <<stockVars, adminVars, status, holdVars, due, sweepVars>>

\* MUTANT of OwnReleasable: the second transaction also takes a claimed hold.
OwnReleasableOrClaimed(h) == status[h] \in {"HELD", "PROCESSING"}

\* ... then releases in a second transaction, which must look again (heldOnly).
OwnReleasable(h) == status[h] = "HELD"

OwnRelease(h) ==
    /\ h \in ownRead
    /\ ownRead' = ownRead \ {h}
    /\ \/ /\ OwnReleasable(h)
          /\ ReturnHeld(h)
          /\ status' = [status EXCEPT ![h] = "RELEASED"]
       \/ /\ ~OwnReleasable(h)
          /\ UNCHANGED <<held, status>>
    /\ UNCHANGED <<capacity, sold, adminVars, holdVars, due, sweepVars>>

-----------------------------------------------------------------------------
(* HoldExpirySweeper.runOnce over expireDue: read a batch of due holds, then *)
(* expire them one transaction at a time.  A pass never overlaps itself.     *)

\* MUTANT of Lapsed: the comparison with the clock is the wrong way round.
NotYetLapsed == {h \in Holds : status[h] = "HELD" /\ h \notin due}

Lapsed == {h \in Holds : status[h] = "HELD" /\ h \in due}

SweepRead(B) ==
    /\ batch = {}
    /\ B \subseteq Lapsed
    /\ B # {}
    /\ Cardinality(B) <= BatchSize
    /\ B = Lapsed \/ Cardinality(B) = BatchSize
    /\ batch' = B
    /\ UNCHANGED <<stockVars, adminVars, status, holdVars, due, ownRead, crashes>>

\* release(..., expired = true): only a hold that is still HELD.
Expirable(h) == status[h] = "HELD"
SweepOne(h) ==
    /\ h \in batch
    /\ batch' = batch \ {h}
    /\ \/ /\ Expirable(h)
          /\ ReturnHeld(h)
          /\ status' = [status EXCEPT ![h] = "EXPIRED"]
       \/ /\ ~Expirable(h)
          /\ UNCHANGED <<held, status>>
    /\ UNCHANGED <<capacity, sold, adminVars, holdVars, due, ownRead, crashes>>

\* The process stops in the middle of a pass; the next pass reads afresh.
SweepCrash ==
    /\ batch # {}
    /\ crashes < MaxCrashes
    /\ crashes' = crashes + 1
    /\ batch' = {}
    /\ UNCHANGED <<stockVars, adminVars, status, holdVars, due, ownRead>>

-----------------------------------------------------------------------------
(* Confirmation and cancellation, the inventory part of their transactions. *)

Confirm(h) ==
    /\ status[h] = "PROCESSING"
    /\ ReturnHeld(h)
    /\ sold' = Shift(sold, draw[h], rooms[h])
    /\ status' = [status EXCEPT ![h] = "CONFIRMED"]
    /\ UNCHANGED <<capacity, adminVars, holdVars, due, ownRead, sweepVars>>

\* MUTANT of ReturnSold: a repeated cancellation returns the rooms again.
ReturnSoldAgain(h) ==
    /\ status[h] = "CONFIRMED" \/ (status[h] = "RELEASED" /\ draw[h] # {})
    /\ \A c \in draw[h] : sold[c] >= rooms[h]
    /\ sold' = Shift(sold, draw[h], -rooms[h])
    /\ status' = [status EXCEPT ![h] = "RELEASED"]
    /\ UNCHANGED <<capacity, held, adminVars, holdVars, due, ownRead, sweepVars>>

ReturnSold(h) ==
    /\ status[h] = "CONFIRMED"
    /\ \A c \in draw[h] : sold[c] >= rooms[h]
    /\ sold' = Shift(sold, draw[h], -rooms[h])
    /\ status' = [status EXCEPT ![h] = "RELEASED"]
    /\ UNCHANGED <<capacity, held, adminVars, holdVars, due, ownRead, sweepVars>>

\* BookingCancellationService.cancel.
Cancel(h) == ReturnSold(h)

-----------------------------------------------------------------------------
(* Administrators.                                                         *)

\* MUTANT of FitsWhatIsOut: held rooms are not protected from a smaller capacity.
FitsWhatIsSold(c, k) == sold[c] <= k

\* PoolCapacityService.apply, Quick Update and room-sales allocation: the write is
\* guarded by sold + held at the instant it lands (an UPDATE condition for pool days,
\* the CHECK constraint for plan rows).
FitsWhatIsOut(c, k) == sold[c] + held[c] <= k
EditCapacity(c, k) ==
    /\ FitsWhatIsOut(c, k)
    /\ c \in PoolDays => c[1] \notin archived
    /\ capacity[c] # k
    /\ capacity' = [capacity EXCEPT ![c] = k]
    /\ UNCHANGED <<held, sold, adminVars, status, holdVars, due, ownRead, sweepVars>>

\* releaseAllocation gives the unsold part of a pool night back to the hotel: only what
\* is out remains.  The post-release policy then replaces the pool's room-sales rule on
\* the member plans: it stops the sale, or leaves it free, which lifts whatever the old
\* rule closed, forced or capped.
ReleaseAllocation(c, stop) ==
    LET member(r) == pool[r[1]] = c[1] /\ r[2] = c[2]
    IN
    /\ capacity' = [capacity EXCEPT ![c] = sold[c] + held[c]]
    /\ terms' \in [PlanRows -> Terms]
    /\ \A r \in PlanRows :
        IF ~member(r) THEN terms'[r] = terms[r]
        ELSE IF stop THEN terms'[r] = [terms[r] EXCEPT !.open = FALSE]
        ELSE terms'[r].mode = terms[r].mode
    /\ UNCHANGED <<held, sold, pool, archived, joining, status, holdVars, due, ownRead, sweepVars>>

\* Any edit of the terms of a plan row: Quick Update, a promoted feed, a room-sales rule.
SetTerms(r, t) ==
    /\ terms[r] # t
    /\ terms' = [terms EXCEPT ![r] = t]
    /\ UNCHANGED <<stockVars, pool, archived, joining, status, holdVars, due, ownRead, sweepVars>>

OwnRowCommitted(p) == \E n \in Nights : sold[<<p, n>>] + held[<<p, n>>] > 0

\* addMembers / eligiblePlans: under the hotel's advisory lock (joining is not
\* empty while it is held) the plan is checked.  Holds do not take that lock ...
JoinCheck(p, q) ==
    /\ joining = {}
    /\ q \notin archived
    /\ pool[p] = NoPool
    /\ ~OwnRowCommitted(p)
    /\ joining' = {<<p, q>>}
    /\ UNCHANGED <<stockVars, terms, pool, archived, status, holdVars, due, ownRead, sweepVars>>

\* ... and the membership is written and committed later.
JoinCommit(p, q) ==
    /\ <<p, q>> \in joining
    /\ joining' = {}
    /\ pool' = [pool EXCEPT ![p] = q]
    /\ UNCHANGED <<stockVars, terms, archived, status, holdVars, due, ownRead, sweepVars>>

Leave(p) ==
    /\ joining = {}
    /\ pool[p] # NoPool
    /\ pool[p] \notin archived
    /\ pool' = [pool EXCEPT ![p] = NoPool]
    /\ UNCHANGED <<stockVars, terms, archived, joining, status, holdVars, due, ownRead, sweepVars>>

\* updatePool with archive: no member and nothing out.
Archive(q) ==
    /\ joining = {}
    /\ q \notin archived
    /\ \A p \in Plans : pool[p] # q
    /\ \A n \in Nights : sold[<<q, n>>] + held[<<q, n>>] = 0
    /\ archived' = archived \cup {q}
    /\ UNCHANGED <<stockVars, terms, pool, joining, status, holdVars, due, ownRead, sweepVars>>

-----------------------------------------------------------------------------
HoldNext ==
    \/ \E h \in Holds, p \in Plans, s \in Stays, q \in 1..MaxRooms : Create(h, p, s, q)
    \/ \E h \in Holds :
        FallDue(h) \/ BeginProcessing(h) \/ Release(h) \/ OwnRead(h) \/ OwnRelease(h)
            \/ Confirm(h) \/ Cancel(h)

SweepNext ==
    \/ \E B \in SUBSET Holds : SweepRead(B)
    \/ \E h \in Holds : SweepOne(h)
    \/ SweepCrash

AdminNext ==
    \/ \E c \in Counters, k \in 0..MaxCapacity : EditCapacity(c, k)
    \/ \E c \in PoolDays, stop \in BOOLEAN : ReleaseAllocation(c, stop)
    \/ \E r \in PlanRows, t \in Terms : SetTerms(r, t)
    \/ \E p \in Plans, q \in Pools : JoinCheck(p, q) \/ JoinCommit(p, q)
    \/ \E p \in Plans : Leave(p)
    \/ \E q \in Pools : Archive(q)

Next == HoldNext \/ SweepNext \/ AdminNext

Spec == Init /\ [][Next]_vars

-----------------------------------------------------------------------------
(* Properties.                                                             *)

\* What the inventory promises; UnitsOf counts the rooms of a set of holds one by one.
Stock == INSTANCE RoomStock

In(st, c) == {h \in Holds : status[h] \in st /\ c \in draw[h]}

\* On every plan row and pool day the held counter is exactly the rooms of the HELD and
\* PROCESSING holds that drew on it and the sold counter exactly those of the CONFIRMED
\* ones, whatever a sweep, an owner's release, a claim, a change of pool or of mode did
\* in between (inventory-counters.ts: "a pool can never be credited with stock it did
\* not give").
CountersMatchHolds ==
    \A c \in Counters :
        /\ held[c] = Cardinality(Stock!UnitsOf(In({"HELD", "PROCESSING"}, c), rooms))
        /\ sold[c] = Cardinality(Stock!UnitsOf(In({"CONFIRMED"}, c), rooms))

\* No night is sold beyond its stock, also while administrators shrink it: two holds
\* never both take the last unit.
NeverOversold == \A c \in Counters : sold[c] + held[c] <= capacity[c]

\* No release, expiry, confirmation or cancellation is ever refused by its counter, so
\* no hold can poison the sweep (expireDue stops at the first release that throws).
MovesNeverRefused ==
    \A h \in Holds : \A c \in draw[h] :
        /\ status[h] \in {"HELD", "PROCESSING"} => held[c] >= rooms[h]
        /\ status[h] = "CONFIRMED" => sold[c] >= rooms[h]

\* A claimed hold outlives the owner's release that read it HELD before the claim, and every
\* sweep (beginProcessing refuses a due hold): only the booking flow takes a hold out of
\* PROCESSING.
ClaimedHoldIsSafe ==
    [][\A h \in Holds :
        status[h] = "PROCESSING" /\ (h \in batch \ batch' \/ h \in ownRead \ ownRead')
            => status'[h] = "PROCESSING"]_vars

\* Stock returns once: a hold that was given back never holds or sells rooms again.
GivenBackIsFinal ==
    [][\A h \in Holds : status[h] \in {"RELEASED", "EXPIRED"} => status'[h] = status[h]]_vars

\* The counters implement the counter-free promise of RoomStock.
ImplementsRoomStock == Stock!Spec

-----------------------------------------------------------------------------
(* The sweeper's interval timer keeps firing and a pass goes through its     *)
(* batch, one release after the other.  Nobody else is obliged to act.       *)
SweeperFairness ==
    /\ WF_vars(\E B \in SUBSET Holds : SweepRead(B))
    /\ \A h \in Holds : WF_vars(SweepOne(h))

FairSpec == Spec /\ SweeperFairness

\* Every hold that lapses unclaimed is given back, in batches and across crashes of the
\* sweeper (or is claimed or released first by somebody else).
LapsedHoldsAreGivenBack == \A h \in Holds : (status[h] = "HELD" /\ h \in due) ~> (status[h] # "HELD")
=============================================================================
