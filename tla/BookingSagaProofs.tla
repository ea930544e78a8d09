------------------------- MODULE BookingSagaProofs -------------------------
(***************************************************************************)
(* Proofs about BookingSaga, for any number of bookings, holds, requests,   *)
(* recovery runs, retries and failing writes.                               *)
(***************************************************************************)
EXTENDS BookingSaga, FiniteSetTheorems, SequenceTheorems, TLAPS

-----------------------------------------------------------------------------
(* Type correctness.  A recovery run that is at work has a hold, one past    *)
(* its booking query a booking, and one about to resolve a row has read a    *)
(* status for which there is a verdict.                                      *)

RunsOK ==
    \A s \in Sweepers :
        /\ run[s].at # "idle" => run[s].hold \in Holds
        /\ run[s].at \notin {"idle", "booking"} => run[s].booking \in Bookings
        /\ run[s].at = "resolve" => run[s].journal \in {"PREPARED", "REJECTED", "ACKNOWLEDGED"}

TypeInv == TypeOK /\ RunsOK

\* A run that is idle, and one that was moved, is a run.
LEMMA IdleIsRun == Idle \in Runs
  BY DEF Idle, Runs, RunPlaces, Journal, Uncertain, Resolved

\* Finishing a hold keeps the type of the runs.
LEMMA RunEndsType ==
  ASSUME TypeInv, NEW s \in Sweepers, RunEnds(s)
  PROVE  run' \in [Sweepers -> Runs] /\ RunsOK'
<1>1. [Idle EXCEPT !.todo = run[s].todo] \in Runs
  BY IdleIsRun DEF TypeInv, TypeOK, Runs, Idle
<1>2. run' \in [Sweepers -> Runs]
  BY <1>1 DEF TypeInv, TypeOK, RunEnds
<1>3. \A t \in Sweepers : run'[t] = IF t = s THEN [Idle EXCEPT !.todo = run[s].todo] ELSE run[t]
  BY DEF TypeInv, TypeOK, RunEnds
<1>4. [Idle EXCEPT !.todo = run[s].todo].at = "idle"
  BY DEF Idle
<1>. QED BY <1>2, <1>3, <1>4 DEF TypeInv, RunsOK

\* Moving a run to its next step keeps the type of the runs.
LEMMA RunToType ==
  ASSUME TypeInv, NEW s \in Sweepers, NEW p \in RunPlaces, RunTo(s, p),
         run[s].at \notin {"idle", "booking"}, p # "resolve" \/
            run[s].journal \in {"PREPARED", "REJECTED", "ACKNOWLEDGED"}
  PROVE  run' \in [Sweepers -> Runs] /\ RunsOK'
<1>1. run' \in [Sweepers -> Runs]
  BY DEF TypeInv, TypeOK, RunTo, Runs
<1>2. run[s].hold \in Holds /\ run[s].booking \in Bookings
  BY DEF TypeInv, RunsOK
<1>3. \A t \in Sweepers \ {s} : run'[t] = run[t]
  BY DEF TypeInv, TypeOK, RunTo
<1>4. run'[s] = [run[s] EXCEPT !.at = p]
  BY DEF TypeInv, TypeOK, RunTo
<1>5. /\ run'[s].at = p
      /\ run'[s].hold = run[s].hold
      /\ run'[s].booking = run[s].booking
      /\ run'[s].journal = run[s].journal
  BY <1>4 DEF TypeInv, TypeOK, Runs
<1>. QED BY <1>1, <1>2, <1>3, <1>5 DEF TypeInv, RunsOK

\* A step that leaves the runs alone.
LEMMA RunsUntouched ==
  ASSUME TypeInv, UNCHANGED run
  PROVE  run' \in [Sweepers -> Runs] /\ RunsOK'
  BY DEF TypeInv, TypeOK, RunsOK

\* The requests.
LEMMA RequestTypes ==
  ASSUME TypeInv, NEW r \in Requests, RequestNext(r)
  PROVE  TypeInv'
<1>k. Key(r) \in Bookings /\ HoldAt(r) \in Holds
  BY ConstantsOK DEF ConstantsOK, Key, HoldAt
<1>t. TypeOK
  BY DEF TypeInv
<1>f. UNCHANGED faults \/ Fault => faults' \in 0..MaxFaults
  BY <1>t, ConstantsOK DEF TypeOK, Fault, ConstantsOK
<1>1. CASE Persist(r)
  <2>a. at' = [at EXCEPT ![r] = "lookup"] /\ tries' = [tries EXCEPT ![r] = @ + 1] /\ tries[r] < MaxTries
    BY <1>1 DEF Persist
  <2>b. tries[r] \in 0..MaxTries /\ tries[r] + 1 \in 0..MaxTries
    BY <1>t, <2>a, ConstantsOK DEF TypeOK, ConstantsOK
  <2>1. at' \in [Requests -> Places] /\ tries' \in [Requests -> 0..MaxTries]
    BY <2>a, <2>b, <1>t DEF TypeOK, Places
  <2>2. faults' \in 0..MaxFaults /\ UNCHANGED run
    BY <1>1, <1>f DEF Persist
  <2>3. booking' \in [Bookings -> Statuses]
    BY <1>1, <1>t, <1>k DEF Persist, TypeOK, Statuses
  <2>. QED BY <1>1, <1>t, <2>1, <2>2, <2>3, RunsUntouched DEF Persist, TypeInv, TypeOK, holdVars,
         moneyVars, supplierVars
<1>2. CASE Lookup(r)
  <2>1. at' \in [Requests -> Places] /\ tries' \in [Requests -> 0..MaxTries]
    BY <1>2, <1>t, ConstantsOK DEF Lookup, Go, Done, TypeOK, Places, ConstantsOK
  <2>2. faults' \in 0..MaxFaults /\ UNCHANGED run
    BY <1>2, <1>f DEF Lookup
  <2>. QED BY <1>2, <1>t, <2>1, <2>2, RunsUntouched DEF Lookup, TypeInv, TypeOK, holdVars, moneyVars,
         supplierVars
<1>3. CASE Claim(r)
  <2>1. at' \in [Requests -> Places] /\ tries' \in [Requests -> 0..MaxTries]
    BY <1>3, <1>t, ConstantsOK DEF Claim, Go, Done, TypeOK, Places, ConstantsOK
  <2>2. faults' \in 0..MaxFaults /\ UNCHANGED run
    BY <1>3, <1>f DEF Claim
  <2>a. hold' \in [Holds -> HoldStatuses]
    BY <1>3, <1>t, <1>k DEF Claim, TypeOK, HoldStatuses
  <2>b. claims' = claims \/ claims' = Append(claims, HoldAt(r))
    BY <1>3 DEF Claim
  <2>c. claims' \in Seq(Holds)
    <3>1. claims \in Seq(Holds)
      BY <1>t DEF TypeOK
    <3>2. Append(claims, HoldAt(r)) \in Seq(Holds)
      BY <3>1, <1>k, AppendProperties
    <3>. QED BY <2>b, <3>1, <3>2
  <2>3. hold' \in [Holds -> HoldStatuses] /\ claims' \in Seq(Holds)
    BY <2>a, <2>c
  <2>. QED BY <1>3, <1>t, <2>1, <2>2, <2>3, RunsUntouched DEF Claim, TypeInv, TypeOK, holdVars,
         moneyVars, supplierVars
<1>4. CASE Authorize(r)
  <2>1. at' \in [Requests -> Places] /\ tries' \in [Requests -> 0..MaxTries]
    BY <1>4, <1>t, ConstantsOK DEF Authorize, Go, Done, TypeOK, Places, ConstantsOK
  <2>2. faults' \in 0..MaxFaults /\ UNCHANGED run
    BY <1>4, <1>f DEF Authorize
  <2>3. ledger' \in SUBSET (Bookings \X Entries)
    BY <1>4, <1>t, <1>k DEF Authorize, TypeOK, Entries
  <2>. QED BY <1>4, <1>t, <2>1, <2>2, <2>3, RunsUntouched DEF Authorize, TypeInv, TypeOK, holdVars,
         moneyVars, supplierVars
<1>5. CASE ReleaseUnauthorized(r)
  <2>1. at' \in [Requests -> Places] /\ tries' \in [Requests -> 0..MaxTries]
    BY <1>5, <1>t, ConstantsOK DEF ReleaseUnauthorized, Go, Done, TypeOK, Places, ConstantsOK
  <2>2. faults' \in 0..MaxFaults /\ UNCHANGED run
    BY <1>5, <1>f DEF ReleaseUnauthorized
  <2>3. hold' \in [Holds -> HoldStatuses]
    BY <1>5, <1>t, <1>k DEF ReleaseUnauthorized, TypeOK, Released, HoldStatuses
  <2>. QED BY <1>5, <1>t, <2>1, <2>2, <2>3, RunsUntouched DEF ReleaseUnauthorized, TypeInv, TypeOK,
         holdVars, moneyVars, supplierVars
<1>6. CASE Prepare(r)
  <2>1. at' \in [Requests -> Places] /\ tries' \in [Requests -> 0..MaxTries]
    BY <1>6, <1>t, ConstantsOK DEF Prepare, Go, Done, TypeOK, Places, ConstantsOK
  <2>2. faults' \in 0..MaxFaults /\ UNCHANGED run
    BY <1>6, <1>f DEF Prepare
  <2>3. journal' \in [Bookings -> Journal]
    BY <1>6, <1>t, <1>k DEF Prepare, TypeOK, Journal
  <2>. QED BY <1>6, <1>t, <2>1, <2>2, <2>3, RunsUntouched DEF Prepare, TypeInv, TypeOK, holdVars,
         moneyVars, supplierVars
<1>7. CASE MarkSending(r)
  <2>1. at' \in [Requests -> Places] /\ tries' \in [Requests -> 0..MaxTries]
    BY <1>7, <1>t, ConstantsOK DEF MarkSending, Go, Done, TypeOK, Places, ConstantsOK
  <2>2. faults' \in 0..MaxFaults /\ UNCHANGED run
    BY <1>7, <1>f DEF MarkSending
  <2>3. journal' \in [Bookings -> Journal]
    BY <1>7, <1>t, <1>k DEF MarkSending, TypeOK, Journal, Uncertain
  <2>. QED BY <1>7, <1>t, <2>1, <2>2, <2>3, RunsUntouched DEF MarkSending, TypeInv, TypeOK, holdVars,
         moneyVars, supplierVars
<1>8. CASE Recheck(r)
  <2>1. at' \in [Requests -> Places] /\ tries' \in [Requests -> 0..MaxTries]
    BY <1>8, <1>t, ConstantsOK DEF Recheck, Go, Done, TypeOK, Places, ConstantsOK
  <2>2. faults' \in 0..MaxFaults /\ UNCHANGED run
    BY <1>8, <1>f DEF Recheck
  <2>. QED BY <1>8, <1>t, <2>1, <2>2, RunsUntouched DEF Recheck, TypeInv, TypeOK, holdVars, moneyVars,
         supplierVars
<1>9. CASE CallSupplier(r)
  <2>1. at' \in [Requests -> Places] /\ tries' \in [Requests -> 0..MaxTries]
    BY <1>9, <1>t, ConstantsOK DEF CallSupplier, Go, Done, TypeOK, Places, ConstantsOK
  <2>2. faults' \in 0..MaxFaults /\ UNCHANGED run
    BY <1>9, <1>f DEF CallSupplier
  <2>3. calls' \in [Bookings -> Nat] /\ accepted' \in SUBSET Bookings
    BY <1>9, <1>t, <1>k DEF CallSupplier, TypeOK
  <2>. QED BY <1>9, <1>t, <2>1, <2>2, <2>3, RunsUntouched DEF CallSupplier, TypeInv, TypeOK, holdVars,
         moneyVars, supplierVars
<1>10. CASE Acknowledge(r)
  <2>1. at' \in [Requests -> Places] /\ tries' \in [Requests -> 0..MaxTries]
    BY <1>10, <1>t, ConstantsOK DEF Acknowledge, Go, Done, TypeOK, Places, ConstantsOK
  <2>2. faults' \in 0..MaxFaults /\ UNCHANGED run
    BY <1>10, <1>f DEF Acknowledge
  <2>3. journal' \in [Bookings -> Journal]
    BY <1>10, <1>t, <1>k DEF Acknowledge, TypeOK, Journal
  <2>. QED BY <1>10, <1>t, <2>1, <2>2, <2>3, RunsUntouched DEF Acknowledge, TypeInv, TypeOK, holdVars,
         moneyVars, supplierVars
<1>11. CASE Reject(r)
  <2>1. at' \in [Requests -> Places] /\ tries' \in [Requests -> 0..MaxTries]
    BY <1>11, <1>t, ConstantsOK DEF Reject, Go, Done, TypeOK, Places, ConstantsOK
  <2>2. faults' \in 0..MaxFaults /\ UNCHANGED run
    BY <1>11, <1>f DEF Reject
  <2>3. journal' \in [Bookings -> Journal]
    BY <1>11, <1>t, <1>k DEF Reject, TypeOK, Journal
  <2>. QED BY <1>11, <1>t, <2>1, <2>2, <2>3, RunsUntouched DEF Reject, TypeInv, TypeOK, holdVars,
         moneyVars, supplierVars
<1>12. CASE MarkUnknown(r)
  <2>1. at' \in [Requests -> Places] /\ tries' \in [Requests -> 0..MaxTries]
    BY <1>12, <1>t, ConstantsOK DEF MarkUnknown, Go, Done, TypeOK, Places, ConstantsOK
  <2>2. faults' \in 0..MaxFaults /\ UNCHANGED run
    BY <1>12, <1>f DEF MarkUnknown
  <2>3. journal' \in [Bookings -> Journal]
    BY <1>12, <1>t, <1>k DEF MarkUnknown, TypeOK, Journal, Uncertain
  <2>. QED BY <1>12, <1>t, <2>1, <2>2, <2>3, RunsUntouched DEF MarkUnknown, TypeInv, TypeOK, holdVars,
         moneyVars, supplierVars
<1>13. CASE Retain(r)
  <2>1. at' \in [Requests -> Places] /\ tries' \in [Requests -> 0..MaxTries]
    BY <1>13, <1>t, ConstantsOK DEF Retain, Go, Done, TypeOK, Places, ConstantsOK
  <2>2. faults' \in 0..MaxFaults /\ UNCHANGED run
    BY <1>13, <1>f DEF Retain
  <2>3. snapshot' \in [Bookings -> {"none", "prebooked", "unknown"}]
    BY <1>13, <1>t, <1>k DEF Retain, TypeOK
  <2>. QED BY <1>13, <1>t, <2>1, <2>2, <2>3, RunsUntouched DEF Retain, TypeInv, TypeOK, holdVars,
         moneyVars, supplierVars
<1>14. CASE ReturnMoney(r)
  <2>1. at' \in [Requests -> Places] /\ tries' \in [Requests -> 0..MaxTries]
    BY <1>14, <1>t, ConstantsOK DEF ReturnMoney, Go, Done, TypeOK, Places, ConstantsOK
  <2>2. faults' \in 0..MaxFaults /\ UNCHANGED run
    BY <1>14, <1>f DEF ReturnMoney
  <2>3. ledger' \in SUBSET (Bookings \X Entries)
    BY <1>14, <1>t, <1>k DEF ReturnMoney, TypeOK, Returned, Entries
  <2>. QED BY <1>14, <1>t, <2>1, <2>2, <2>3, RunsUntouched DEF ReturnMoney, TypeInv, TypeOK, holdVars,
         moneyVars, supplierVars
<1>15. CASE ReturnHold(r)
  <2>1. at' \in [Requests -> Places] /\ tries' \in [Requests -> 0..MaxTries]
    BY <1>15, <1>t, ConstantsOK DEF ReturnHold, Go, Done, TypeOK, Places, ConstantsOK
  <2>2. faults' \in 0..MaxFaults /\ UNCHANGED run
    BY <1>15, <1>f DEF ReturnHold
  <2>3. hold' \in [Holds -> HoldStatuses]
    BY <1>15, <1>t, <1>k DEF ReturnHold, TypeOK, Released, HoldStatuses
  <2>. QED BY <1>15, <1>t, <2>1, <2>2, <2>3, RunsUntouched DEF ReturnHold, TypeInv, TypeOK, holdVars,
         moneyVars, supplierVars
<1>16. CASE Crash(r)
  <2>1. at' \in [Requests -> Places] /\ tries' \in [Requests -> 0..MaxTries]
    BY <1>16, <1>t, ConstantsOK DEF Crash, Go, Done, TypeOK, Places, ConstantsOK
  <2>2. faults' \in 0..MaxFaults /\ UNCHANGED run
    BY <1>16, <1>f DEF Crash
  <2>. QED BY <1>16, <1>t, <2>1, <2>2, RunsUntouched DEF Crash, TypeInv, TypeOK, holdVars, moneyVars,
         supplierVars
<1>. QED BY <1>1, <1>2, <1>3, <1>4, <1>5, <1>6, <1>7, <1>8, <1>9, <1>10, <1>11, <1>12, <1>13, <1>14,
       <1>15, <1>16 DEF RequestNext

\* The recovery runs.
LEMMA RunTypes ==
  ASSUME TypeInv, NEW s \in Sweepers, RunNext(s)
  PROVE  TypeInv'
<1>t. TypeOK
  BY DEF TypeInv
<1>r. run[s] \in Runs
  BY <1>t DEF TypeOK
<1>w. ASSUME run[s].at \notin {"idle", "booking"}
      PROVE  run[s].hold \in Holds /\ run[s].booking \in Bookings
  BY <1>w DEF TypeInv, RunsOK
<1>1. CASE RunList(s)
  <2>1. Oldest \in SUBSET Holds
    BY DEF Oldest, StaleClaims
  <2>2. run[s].at = "idle"
    BY <1>1 DEF RunList, Idle
  <2>3. run' = [run EXCEPT ![s] = [run[s] EXCEPT !.todo = Oldest]]
    BY <1>1 DEF RunList
  <2>4. [run[s] EXCEPT !.todo = Oldest] \in Runs /\ [run[s] EXCEPT !.todo = Oldest].at = "idle"
    BY <1>r, <2>1, <2>2 DEF Runs
  <2>5. run' \in [Sweepers -> Runs]
    BY <1>t, <2>3, <2>4 DEF TypeOK
  <2>6. \A t \in Sweepers : t # s => run'[t] = run[t]
    BY <1>t, <2>3 DEF TypeOK
  <2>7. run'[s].at = "idle"
    BY <1>t, <2>3, <2>4 DEF TypeOK
  <2>8. RunsOK'
    BY <2>6, <2>7 DEF TypeInv, RunsOK
  <2>. QED BY <1>1, <1>t, <2>5, <2>8 DEF RunList, TypeInv, TypeOK, holdVars, moneyVars, supplierVars,
         requestVars
<1>2. ASSUME NEW h \in Holds, RunPick(s, h)
      PROVE  TypeInv'
  <2> DEFINE new == [run[s] EXCEPT !.at = "booking", !.hold = h, !.todo = @ \ {h}]
  <2>1. run' = [run EXCEPT ![s] = new]
    BY <1>2 DEF RunPick
  <2>2. new \in Runs /\ new.at = "booking" /\ new.hold = h
    BY <1>r DEF Runs, RunPlaces
  <2> HIDE DEF new
  <2>3. run' \in [Sweepers -> Runs]
    BY <1>t, <2>1, <2>2 DEF TypeOK
  <2>4. run'[s] = new /\ \A t \in Sweepers : t # s => run'[t] = run[t]
    BY <1>t, <2>1 DEF TypeOK
  <2>5. RunsOK'
    BY <2>2, <2>4 DEF TypeInv, RunsOK
  <2>. QED BY <1>2, <1>t, <2>3, <2>5 DEF RunPick, TypeInv, TypeOK, holdVars, moneyVars, supplierVars,
         requestVars
<1>3. ASSUME NEW b \in Bookings, RunBooking(s, b)
      PROVE  TypeInv'
  <2>a. run' \in [Sweepers -> Runs] /\ RunsOK'
    <3>1. CASE RunEnds(s)
      BY <3>1, RunEndsType
    <3>2. CASE run' = [run EXCEPT ![s].at = "journal", ![s].booking = b, ![s].failed = (booking[b] = "FAILED")]
      <4> DEFINE new == [run[s] EXCEPT !.at = "journal", !.booking = b, !.failed = (booking[b] = "FAILED")]
      <4>1. run' = [run EXCEPT ![s] = new]
        BY <3>2
      <4>2. new \in Runs /\ new.at = "journal" /\ new.hold = run[s].hold /\ new.booking = b
        BY <1>r DEF Runs, RunPlaces
      <4>3. run[s].hold \in Holds
        BY <1>3 DEF RunBooking, TypeInv, RunsOK
      <4> HIDE DEF new
      <4>4. run' \in [Sweepers -> Runs]
        BY <1>t, <4>1, <4>2 DEF TypeOK
      <4>5. run'[s] = new /\ \A t \in Sweepers : t # s => run'[t] = run[t]
        BY <1>t, <4>1 DEF TypeOK
      <4>. QED BY <4>2, <4>3, <4>4, <4>5 DEF TypeInv, RunsOK
    <3>. QED BY <1>3, <3>1, <3>2 DEF RunBooking
  <2>. QED BY <1>3, <1>t, <2>a DEF RunBooking, TypeInv, TypeOK, holdVars, moneyVars, supplierVars,
         requestVars
<1>4. CASE RunJournal(s)
  <2>w. run[s].hold \in Holds /\ run[s].booking \in Bookings
    BY <1>4, <1>w DEF RunJournal
  <2>a. run' \in [Sweepers -> Runs] /\ RunsOK'
    <3> DEFINE b    == run[s].booking
               next == Decision(journal[b], run[s].failed, b \in old)
    <3>1. CASE RunEnds(s)
      BY <3>1, RunEndsType
    <3>2. CASE run' = [run EXCEPT ![s].at = next, ![s].journal = journal[b]]
      <4> DEFINE new == [run[s] EXCEPT !.at = next, !.journal = journal[b]]
      <4>1. run' = [run EXCEPT ![s] = new]
        BY <3>2
      <4>2. next \in {"mark", "idle", "fail", "money"}
        BY DEF Decision
      <4>3. journal[b] \in Journal
        BY <1>t, <2>w DEF TypeOK
      <4> HIDE DEF next
      <4>4. new \in Runs /\ new.at = next /\ new.hold = run[s].hold /\ new.booking = run[s].booking
        BY <1>r, <4>2, <4>3 DEF Runs, RunPlaces
      <4> HIDE DEF new
      <4>5. run' \in [Sweepers -> Runs]
        BY <1>t, <4>1, <4>4 DEF TypeOK
      <4>6. run'[s] = new /\ \A t \in Sweepers : t # s => run'[t] = run[t]
        BY <1>t, <4>1 DEF TypeOK
      <4>. QED BY <2>w, <4>2, <4>4, <4>5, <4>6 DEF TypeInv, RunsOK
    <3>. QED BY <1>4, <3>1, <3>2 DEF RunJournal
  <2>. QED BY <1>4, <1>t, <2>a DEF RunJournal, TypeInv, TypeOK, holdVars, moneyVars, supplierVars,
         requestVars
<1>5. CASE RunMark(s)
  <2>1. journal' \in [Bookings -> Journal]
    BY <1>5, <1>t, <1>w DEF RunMark, TypeOK, Journal, Uncertain
  <2>2. run' \in [Sweepers -> Runs] /\ RunsOK'
    BY <1>5, RunEndsType DEF RunMark
  <2>. QED BY <1>5, <1>t, <2>1, <2>2 DEF RunMark, TypeInv, TypeOK, holdVars, moneyVars, supplierVars,
         requestVars
<1>6. CASE RunFail(s)
  <2>1. booking' \in [Bookings -> Statuses]
    BY <1>6, <1>t, <1>w DEF RunFail, TypeOK, Statuses
  <2>2. run' \in [Sweepers -> Runs] /\ RunsOK'
    BY <1>6, RunEndsType, RunToType DEF RunFail, RunPlaces
  <2>. QED BY <1>6, <1>t, <2>1, <2>2 DEF RunFail, TypeInv, TypeOK, holdVars, moneyVars, supplierVars,
         requestVars
<1>7. CASE RunMoney(s)
  <2>1. ledger' \in SUBSET (Bookings \X Entries)
    BY <1>7, <1>t, <1>w DEF RunMoney, Returned, TypeOK, Entries
  <2>2. run' \in [Sweepers -> Runs] /\ RunsOK'
    BY <1>7, RunToType DEF RunMoney, RunPlaces
  <2>. QED BY <1>7, <1>t, <2>1, <2>2 DEF RunMoney, TypeInv, TypeOK, holdVars, supplierVars, requestVars
<1>8. CASE RunHold(s)
  <2>1. hold' \in [Holds -> HoldStatuses]
    BY <1>8, <1>t, <1>w DEF RunHold, Released, TypeOK, HoldStatuses
  <2>2. run' \in [Sweepers -> Runs] /\ RunsOK'
    BY <1>8, RunEndsType, RunToType DEF RunHold, RunPlaces
  <2>. QED BY <1>8, <1>t, <2>1, <2>2 DEF RunHold, TypeInv, TypeOK, moneyVars, supplierVars, requestVars
<1>9. CASE RunResolve(s)
  <2>1. run[s].journal \in {"PREPARED", "REJECTED", "ACKNOWLEDGED"}
    BY <1>9 DEF RunResolve, TypeInv, RunsOK
  <2>2. Verdict(run[s].journal) \in Journal
    BY <2>1 DEF Verdict, Journal, Resolved
  <2>3. journal' \in [Bookings -> Journal]
    BY <1>9, <1>t, <1>w, <2>2 DEF RunResolve, TypeOK
  <2>4. run' \in [Sweepers -> Runs] /\ RunsOK'
    BY <1>9, RunEndsType DEF RunResolve
  <2>. QED BY <1>9, <1>t, <2>3, <2>4 DEF RunResolve, TypeInv, TypeOK, holdVars, moneyVars, supplierVars,
         requestVars
<1>10. CASE RunBreaks(s)
  <2>1. faults' \in 0..MaxFaults
    BY <1>10, <1>t, ConstantsOK DEF RunBreaks, Fault, TypeOK, ConstantsOK
  <2>2. run' \in [Sweepers -> Runs] /\ RunsOK'
    <3>1. CASE RunEnds(s)
      BY <3>1, RunEndsType
    <3>2. CASE run' = [run EXCEPT ![s] = Idle]
      <4>1. run' \in [Sweepers -> Runs]
        BY <1>t, <3>2, IdleIsRun DEF TypeOK
      <4>2. run'[s] = Idle /\ \A t \in Sweepers : t # s => run'[t] = run[t]
        BY <1>t, <3>2 DEF TypeOK
      <4>3. Idle.at = "idle"
        BY DEF Idle
      <4>. QED BY <4>1, <4>2, <4>3 DEF TypeInv, RunsOK
    <3>. QED BY <1>10, <3>1, <3>2 DEF RunBreaks
  <2>. QED BY <1>10, <1>t, <2>1, <2>2 DEF RunBreaks, TypeInv, TypeOK, holdVars, moneyVars, supplierVars,
         requestVars
<1>. QED BY <1>1, <1>2, <1>3, <1>4, <1>5, <1>6, <1>7, <1>8, <1>9, <1>10 DEF RunNext

\* The clock, the holds outside a booking attempt, confirmation, cancellation, settlement.
OtherNext ==
    \/ \E h \in Holds : LetGo(h) \/ FallDue(h) \/ GoStale(h)
    \/ \E b \in Bookings : WindowPasses(b) \/ Confirm(b)
    \/ \E b \in Bookings, n \in 0..Price : Cancel(b, n) \/ Settle(b, n)

\* The remaining steps keep the types.
LEMMA OtherTypes ==
  ASSUME TypeInv, OtherNext
  PROVE  TypeInv'
<1>t. TypeOK
  BY DEF TypeInv
<1>p. Price \in Nat /\ \A b \in Bookings : HoldOf[b] \in Holds
  BY ConstantsOK DEF ConstantsOK
<1>1. ASSUME NEW h \in Holds, LetGo(h) PROVE TypeInv'
  BY <1>1, <1>t, RunsUntouched DEF LetGo, TypeInv, TypeOK, HoldStatuses, moneyVars, supplierVars,
         requestVars
<1>2. ASSUME NEW h \in Holds, FallDue(h) \/ GoStale(h) PROVE TypeInv'
  BY <1>2, <1>t, RunsUntouched DEF FallDue, GoStale, TypeInv, TypeOK, moneyVars, supplierVars, requestVars
<1>3. ASSUME NEW b \in Bookings, WindowPasses(b) PROVE TypeInv'
  BY <1>3, <1>t, RunsUntouched DEF WindowPasses, TypeInv, TypeOK, holdVars, moneyVars, supplierVars,
         requestVars
<1>4. ASSUME NEW b \in Bookings, Confirm(b) PROVE TypeInv'
  <2>1. booking' \in [Bookings -> Statuses]
    BY <1>4, <1>t DEF Confirm, TypeOK, Statuses
  <2>2. hold' \in [Holds -> HoldStatuses]
    BY <1>4, <1>t, <1>p DEF Confirm, TypeOK, HoldStatuses
  <2>3. ledger' \in SUBSET (Bookings \X Entries)
    BY <1>4, <1>t DEF Confirm, TypeOK, Entries
  <2>. QED BY <1>4, <1>t, <2>1, <2>2, <2>3, RunsUntouched DEF Confirm, TypeInv, TypeOK, supplierVars,
         requestVars
<1>5. ASSUME NEW b \in Bookings, NEW n \in 0..Price, Cancel(b, n) PROVE TypeInv'
  <2>1. booking' \in [Bookings -> Statuses]
    BY <1>5, <1>t DEF Cancel, TypeOK, Statuses
  <2>2. hold' \in [Holds -> HoldStatuses]
    BY <1>5, <1>t, <1>p DEF Cancel, TypeOK, HoldStatuses
  <2>3. refunds' \in SUBSET (Bookings \X (1..Price))
    BY <1>5, <1>t, <1>p DEF Cancel, TypeOK
  <2>. QED BY <1>5, <1>t, <2>1, <2>2, <2>3, RunsUntouched DEF Cancel, TypeInv, TypeOK, supplierVars,
         requestVars
<1>6. ASSUME NEW b \in Bookings, NEW n \in 0..Price, Settle(b, n) PROVE TypeInv'
  <2>1. refunds' \in SUBSET (Bookings \X (1..Price))
    BY <1>6, <1>t, <1>p DEF Settle, Delta, TypeOK
  <2>. QED BY <1>6, <1>t, <2>1, RunsUntouched DEF Settle, TypeInv, TypeOK, holdVars, supplierVars,
         requestVars
<1>. QED BY <1>1, <1>2, <1>3, <1>4, <1>5, <1>6 DEF OtherNext

\* The steps of the specification are those of the requests, the runs and the rest.
LEMMA NextSplit ==
  ASSUME Next
  PROVE  \/ \E r \in Requests : RequestNext(r)
         \/ \E s \in Sweepers : RunNext(s)
         \/ OtherNext
  BY DEF Next, OtherNext

\* Types are an invariant, with what a run must have read before it acts.
THEOREM TypeInvariance == Spec => []TypeInv
<1>1. Init => TypeInv
  <2> SUFFICES ASSUME Init PROVE TypeInv
    OBVIOUS
  <2>1. run \in [Sweepers -> Runs]
    BY IdleIsRun DEF Init
  <2>2. RunsOK
    <3>1. Idle.at = "idle"
      BY DEF Idle
    <3>. QED BY <3>1 DEF Init, RunsOK
  <2>3. claims \in Seq(Holds)
    BY DEF Init
  <2>. QED BY <2>1, <2>2, <2>3, ConstantsOK
           DEF Init, TypeInv, TypeOK, ConstantsOK, Statuses, HoldStatuses, Journal, Places
<1>2. TypeInv /\ [Next]_vars => TypeInv'
  <2> SUFFICES ASSUME TypeInv, [Next]_vars PROVE TypeInv'
    OBVIOUS
  <2>1. CASE Next
    BY <2>1, NextSplit, RequestTypes, RunTypes, OtherTypes
  <2>2. CASE UNCHANGED vars
    BY <2>2, RunsUntouched DEF vars, TypeInv, TypeOK, holdVars, moneyVars, supplierVars, requestVars
  <2>. QED BY <2>1, <2>2
<1>. QED BY <1>1, <1>2, PTL DEF Spec

\* Whatever requests, recovery runs, crashes and failing writes do, every row keeps a status
\* of its table, and no verdict is written that the code does not define.
THEOREM TypeCorrect == Spec => []TypeOK
<1>1. TypeInv => TypeOK
  BY DEF TypeInv
<1>. QED BY <1>1, TypeInvariance, PTL

-----------------------------------------------------------------------------
(* One supplier call per booking.                                          *)

\* The journal row is the permit: while it is unsent nobody calls and nobody has called; a
\* request that calls is alone and the first.
CallInv ==
    /\ \A r \in Requests :
        at[r] = "call" => calls[Key(r)] = 0 /\ journal[Key(r)] \notin {"NONE", "PREPARED"}
    /\ \A b \in Bookings : journal[b] \in {"NONE", "PREPARED"} => calls[b] = 0
    /\ \A r, q \in Requests : at[r] = "call" /\ at[q] = "call" /\ Key(r) = Key(q) => r = q
    /\ CalledAtMostOnce

\* A step that sends no row back, makes no call and lets no request start one.
NothingSent ==
    /\ UNCHANGED calls
    /\ \A b \in Bookings :
        journal'[b] \in {"NONE", "PREPARED"} => journal[b] \in {"NONE", "PREPARED"}
    /\ \A r \in Requests : at'[r] = "call" => at[r] = "call"

\* Such a step keeps the permit.
LEMMA NoNewCall ==
  ASSUME CallInv, NothingSent
  PROVE  CallInv'
<1>k. \A r \in Requests : Key(r) \in Bookings
  BY ConstantsOK DEF ConstantsOK, Key
<1>. QED BY <1>k DEF NothingSent, CallInv, CalledAtMostOnce, Key

\* Of the steps of a request only markSending and the call itself matter.
LEMMA RequestSendsNothing ==
  ASSUME TypeOK, NEW r \in Requests, RequestNext(r), ~MarkSending(r), ~CallSupplier(r)
  PROVE  NothingSent
<1>k. Key(r) \in Bookings
  BY ConstantsOK DEF ConstantsOK, Key
<1>1. CASE Persist(r) \/ Lookup(r) \/ Claim(r) \/ Authorize(r) \/ ReleaseUnauthorized(r)
  BY <1>1 DEF Persist, Lookup, Claim, Authorize, ReleaseUnauthorized, Go, Done, NothingSent,
              TypeOK, supplierVars
<1>2. CASE Prepare(r)
  BY <1>2, <1>k DEF Prepare, Go, Done, NothingSent, TypeOK, supplierVars
<1>3. CASE Acknowledge(r)
  BY <1>3, <1>k DEF Acknowledge, Go, Done, NothingSent, TypeOK, supplierVars
<1>4. CASE Reject(r)
  BY <1>4, <1>k DEF Reject, Go, Done, NothingSent, TypeOK, supplierVars
<1>5. CASE MarkUnknown(r)
  BY <1>5, <1>k DEF MarkUnknown, Go, Done, NothingSent, TypeOK, supplierVars
<1>6. CASE Recheck(r) \/ Retain(r) \/ ReturnMoney(r) \/ ReturnHold(r) \/ Crash(r)
  BY <1>6 DEF Recheck, Retain, ReturnMoney, ReturnHold, Crash, Go, Done, NothingSent,
              TypeOK, supplierVars
<1>. QED BY <1>1, <1>2, <1>3, <1>4, <1>5, <1>6 DEF RequestNext

\* Recovery writes the journal, but never an unsent status.
LEMMA RunSendsNothing ==
  ASSUME TypeInv, NEW s \in Sweepers, RunNext(s)
  PROVE  NothingSent
<1>t. TypeOK
  BY DEF TypeInv
<1>w. ASSUME run[s].at \notin {"idle", "booking"}
      PROVE  run[s].booking \in Bookings
  BY <1>w DEF TypeInv, RunsOK
<1>1. CASE RunMark(s)
  BY <1>1, <1>t, <1>w DEF RunMark, NothingSent, TypeOK, supplierVars, requestVars
<1>2. CASE RunResolve(s)
  <2>1. Verdict(run[s].journal) \in Resolved
    BY <1>2 DEF RunResolve, Verdict, TypeInv, RunsOK, Resolved
  <2>. QED BY <1>2, <1>t, <1>w, <2>1 DEF RunResolve, Resolved, NothingSent, TypeOK, supplierVars,
         requestVars
<1>3. CASE UNCHANGED <<journal, supplierVars, requestVars>>
  BY <1>3 DEF NothingSent, supplierVars, requestVars
<1>4. \/ RunMark(s) \/ RunResolve(s)
      \/ UNCHANGED <<journal, supplierVars, requestVars>>
  BY DEF RunNext, RunList, RunPick, RunBooking, RunJournal, RunFail, RunMoney, RunHold, RunBreaks
<1>. QED BY <1>1, <1>2, <1>3, <1>4

\* Time, confirmation, cancellation and settlement send nothing.
LEMMA OtherSendsNothing ==
  ASSUME OtherNext
  PROVE  NothingSent
  BY DEF OtherNext, LetGo, FallDue, GoStale, WindowPasses, Confirm, Cancel, Settle, NothingSent,
         supplierVars, requestVars

\* The permit is used once.
LEMMA SendingStep ==
  ASSUME TypeOK, CallInv, NEW r \in Requests, MarkSending(r) \/ CallSupplier(r)
  PROVE  CallInv'
<1>k. \A q \in Requests : Key(q) \in Bookings /\ Key(q)' = Key(q)
  BY ConstantsOK DEF ConstantsOK, Key
<1>1. CASE MarkSending(r)
  <2>1. CASE NothingSent
    BY <2>1, NoNewCall
  <2>2. CASE /\ journal[Key(r)] = "PREPARED"
             /\ journal' = [journal EXCEPT ![Key(r)] = "SENDING"]
             /\ at' = [at EXCEPT ![r] = "call"]
    <3>1. UNCHANGED calls
      BY <1>1 DEF MarkSending, supplierVars
    <3>2. \A q \in Requests : at[q] = "call" => Key(q) # Key(r)
      BY <2>2 DEF CallInv
    <3>3. calls[Key(r)] = 0
      BY <2>2, <1>k DEF CallInv
    <3>4. /\ \A q \in Requests : at'[q] = IF q = r THEN "call" ELSE at[q]
          /\ \A b \in Bookings : journal'[b] = IF b = Key(r) THEN "SENDING" ELSE journal[b]
      BY <2>2 DEF TypeOK
    <3>. QED BY <1>k, <3>1, <3>2, <3>3, <3>4 DEF CallInv, CalledAtMostOnce
  <2>3. NothingSent \/ (/\ journal[Key(r)] = "PREPARED"
                        /\ journal' = [journal EXCEPT ![Key(r)] = "SENDING"]
                        /\ at' = [at EXCEPT ![r] = "call"])
    BY <1>1, <1>k DEF MarkSending, MayCall, Go, Done, NothingSent, TypeOK, supplierVars
  <2>. QED BY <2>1, <2>2, <2>3
<1>2. CASE CallSupplier(r)
  <2>1. /\ at[r] = "call"
        /\ \A b \in Bookings : calls'[b] = IF b = Key(r) THEN calls[b] + 1 ELSE calls[b]
        /\ UNCHANGED journal
    BY <1>2 DEF CallSupplier, TypeOK
  <2>2. at'[r] # "call" /\ \A q \in Requests : q # r => at'[q] = at[q]
    BY <1>2 DEF CallSupplier, Go, TypeOK
  <2>3. \A q \in Requests : at'[q] = "call" => at[q] = "call" /\ Key(q) # Key(r)
    BY <2>1, <2>2 DEF CallInv
  <2>4. calls[Key(r)] = 0 /\ journal[Key(r)] \notin {"NONE", "PREPARED"}
    BY <2>1 DEF CallInv
  <2>. QED BY <1>k, <2>1, <2>3, <2>4 DEF CallInv, CalledAtMostOnce
<1>. QED BY <1>1, <1>2

\* The journal row is a permit in every reachable state.
LEMMA CallInvariance == Spec => []CallInv
<1>1. Init => CallInv
  BY ConstantsOK DEF Init, CallInv, CalledAtMostOnce, ConstantsOK, Key
<1>2. TypeInv /\ CallInv /\ [Next]_vars => CallInv'
  <2> SUFFICES ASSUME TypeInv, CallInv, [Next]_vars PROVE CallInv'
    OBVIOUS
  <2>t. TypeOK
    BY DEF TypeInv
  <2>1. ASSUME NEW r \in Requests, RequestNext(r) PROVE CallInv'
    BY <2>1, <2>t, RequestSendsNothing, NoNewCall, SendingStep
  <2>2. ASSUME NEW s \in Sweepers, RunNext(s) PROVE CallInv'
    BY <2>2, RunSendsNothing, NoNewCall
  <2>3. CASE OtherNext
    BY <2>3, OtherSendsNothing, NoNewCall
  <2>4. CASE UNCHANGED vars
    BY <2>4, NoNewCall DEF vars, NothingSent, supplierVars, requestVars
  <2>. QED BY <2>1, <2>2, <2>3, <2>4, NextSplit
<1>. QED BY <1>1, <1>2, TypeInvariance, PTL DEF Spec

\* However requests of one key race, repeat, fail and crash, and whatever recovery writes in
\* between, the supplier is called at most once for a booking.
THEOREM CalledOnce == Spec => []CalledAtMostOnce
<1>1. CallInv => CalledAtMostOnce
  BY DEF CallInv
<1>. QED BY <1>1, CallInvariance, PTL

-----------------------------------------------------------------------------
(* Charges, their rooms and their refunds.                                 *)

\* The settlement pair is posted together and on a reservation, which is also what is
\* returned; refunds are of charges; what the journal calls acknowledged, the supplier has
\* accepted.
LedgerOK ==
    /\ \A b \in Bookings : Has(b, "settle-release") <=> Has(b, "settle-debit")
    /\ \A b \in Bookings : Has(b, "release") \/ Charged(b) => Has(b, "hold")
    /\ \A u \in refunds : Charged(u[1])

AnswersOK ==
    /\ \A r \in Requests : at[r] = "acknowledge" => Key(r) \in accepted
    /\ \A b \in Bookings : journal[b] = "ACKNOWLEDGED" => b \in accepted

ChargeInv == LedgerOK /\ AnswersOK /\ ChargeHasItsRooms /\ HoldChargedOnce

\* A step that settles, cancels and refunds nothing, and leaves sold and returned rooms alone.
Settlement == {"settle-release", "settle-debit"}
Final == {"CONFIRMED", "CANCELLED"}
BooksKept ==
    /\ \A b \in Bookings : \A e \in Settlement : <<b, e>> \in ledger' <=> <<b, e>> \in ledger
    /\ ledger \subseteq ledger'
    /\ \A b \in Bookings : <<b, "release">> \in ledger' => <<b, "hold">> \in ledger'
    /\ UNCHANGED refunds
    /\ \A h \in Holds : hold[h] \in {"CONFIRMED", "RELEASED"} => hold'[h] = hold[h]
    /\ \A b \in Bookings : booking[b] \in Final \/ booking'[b] \in Final => booking'[b] = booking[b]

AnswersKept ==
    /\ accepted \subseteq accepted'
    /\ \A r \in Requests : at'[r] = "acknowledge" => at[r] = "acknowledge" \/ Key(r) \in accepted'
    /\ \A b \in Bookings : journal'[b] = "ACKNOWLEDGED" => journal[b] = "ACKNOWLEDGED" \/ b \in accepted

\* A step that keeps the answers keeps their meaning.
LEMMA AnswersStay ==
  ASSUME AnswersOK, AnswersKept
  PROVE  AnswersOK'
  BY DEF AnswersOK, AnswersKept, Key

\* A step that keeps books and answers keeps the whole invariant.
LEMMA BooksStay ==
  ASSUME TypeOK, ChargeInv, BooksKept, AnswersKept
  PROVE  ChargeInv'
<1>1. \A b \in Bookings : Charged(b)' <=> Charged(b)
  BY DEF BooksKept, Charged, Has, Settlement
<1>2. LedgerOK'
  <2>1. \A u \in refunds : u[1] \in Bookings
    BY DEF TypeOK
  <2>2. \A u \in refunds' : Charged(u[1])'
    BY <1>1, <2>1 DEF ChargeInv, LedgerOK, BooksKept
  <2>. QED BY <1>1, <2>2 DEF ChargeInv, LedgerOK, BooksKept, Has, Charged, Settlement
<1>3. AnswersOK'
  BY AnswersStay DEF ChargeInv
<1>h. \A b \in Bookings : HoldOf[b] \in Holds
  BY ConstantsOK DEF ConstantsOK
<1>4. ChargeHasItsRooms'
  BY <1>1, <1>h DEF ChargeInv, ChargeHasItsRooms, BooksKept, AnswersKept, Final
<1>5. HoldChargedOnce'
  BY <1>1 DEF ChargeInv, HoldChargedOnce
<1>. QED BY <1>2, <1>3, <1>4, <1>5 DEF ChargeInv

\* Requests touch no settled booking, and acknowledge only what was accepted.
LEMMA RequestKeepsBooks ==
  ASSUME TypeOK, ChargeInv, NEW r \in Requests, RequestNext(r)
  PROVE  BooksKept
<1>k. Key(r) \in Bookings /\ HoldAt(r) \in Holds
  BY ConstantsOK DEF ConstantsOK, Key, HoldAt
<1>l. \A b \in Bookings : <<b, "release">> \in ledger => <<b, "hold">> \in ledger
  BY DEF ChargeInv, LedgerOK, Has
<1>1. CASE UNCHANGED <<ledger, refunds, booking>>
  <2>1. \A h \in Holds : hold[h] \in {"CONFIRMED", "RELEASED"} => hold'[h] = hold[h]
    <3>1. CASE Claim(r)
      BY <3>1, <1>k DEF Claim, TypeOK
    <3>2. CASE ReleaseUnauthorized(r) \/ ReturnHold(r)
      BY <3>2, <1>k DEF ReleaseUnauthorized, ReturnHold, Released, TypeOK
    <3>3. CASE UNCHANGED hold
      BY <3>3
    <3>4. Claim(r) \/ ReleaseUnauthorized(r) \/ ReturnHold(r) \/ UNCHANGED hold
      BY DEF RequestNext, Persist, Lookup, Authorize, Prepare, MarkSending, Recheck, CallSupplier,
             Acknowledge, Reject, MarkUnknown, Retain, ReturnMoney, Crash, holdVars
    <3>. QED BY <3>1, <3>2, <3>3, <3>4
  <2>. QED BY <1>1, <1>l, <2>1 DEF BooksKept
<1>2. CASE Persist(r)
  BY <1>2, <1>k, <1>l DEF Persist, BooksKept, TypeOK, Final, holdVars, moneyVars
<1>3. CASE Authorize(r)
  BY <1>3, <1>k, <1>l DEF Authorize, BooksKept, Settlement, holdVars
<1>4. CASE ReturnMoney(r)
  BY <1>4, <1>k, <1>l DEF ReturnMoney, Returned, Has, BooksKept, Settlement, holdVars
<1>5. \/ Persist(r) \/ Authorize(r) \/ ReturnMoney(r)
      \/ UNCHANGED <<ledger, refunds, booking>>
  BY DEF RequestNext, Lookup, Claim, ReleaseUnauthorized, Prepare, MarkSending, Recheck,
         CallSupplier, Acknowledge, Reject, MarkUnknown, Retain, ReturnHold, Crash, moneyVars
<1>. QED BY <1>1, <1>2, <1>3, <1>4, <1>5

\* A request acknowledges a row only after the supplier accepted.
LEMMA RequestKeepsAnswers ==
  ASSUME TypeOK, ChargeInv, NEW r \in Requests, RequestNext(r)
  PROVE  AnswersKept
<1>k. Key(r) \in Bookings
  BY ConstantsOK DEF ConstantsOK, Key
<1>1. CASE Persist(r) \/ Lookup(r) \/ Claim(r) \/ Authorize(r) \/ ReleaseUnauthorized(r)
  BY <1>1 DEF Persist, Lookup, Claim, Authorize, ReleaseUnauthorized, Go, Done, AnswersKept,
              TypeOK, supplierVars
<1>2. CASE Prepare(r) \/ MarkSending(r)
  BY <1>2, <1>k DEF Prepare, MarkSending, Go, Done, AnswersKept, TypeOK, supplierVars
<1>3. CASE Acknowledge(r)
  <2>1. Key(r) \in accepted
    BY <1>3 DEF Acknowledge, ChargeInv, AnswersOK
  <2>. QED BY <1>3, <1>k, <2>1 DEF Acknowledge, Go, Done, AnswersKept, TypeOK, supplierVars
<1>4. CASE Reject(r) \/ MarkUnknown(r)
  BY <1>4, <1>k DEF Reject, MarkUnknown, Go, Done, AnswersKept, TypeOK, supplierVars
<1>5. CASE CallSupplier(r)
  BY <1>5, <1>k DEF CallSupplier, Go, AnswersKept, TypeOK
<1>6. CASE Recheck(r) \/ Retain(r) \/ ReturnMoney(r) \/ ReturnHold(r) \/ Crash(r)
  BY <1>6 DEF Recheck, Retain, ReturnMoney, ReturnHold, Crash, Go, Done, AnswersKept,
              TypeOK, supplierVars
<1>. QED BY <1>1, <1>2, <1>3, <1>4, <1>5, <1>6 DEF RequestNext

\* Recovery fails no settled booking and returns no sold room.
LEMMA RunKeepsBooks ==
  ASSUME TypeInv, ChargeInv, NEW s \in Sweepers, RunNext(s)
  PROVE  BooksKept /\ AnswersKept
<1>t. TypeOK
  BY DEF TypeInv
<1>w. ASSUME run[s].at \notin {"idle", "booking"}
      PROVE  run[s].hold \in Holds /\ run[s].booking \in Bookings
  BY <1>w DEF TypeInv, RunsOK
<1>l. \A b \in Bookings : <<b, "release">> \in ledger => <<b, "hold">> \in ledger
  BY DEF ChargeInv, LedgerOK, Has
<1>1. BooksKept
  <2>1. CASE RunFail(s)
    BY <2>1, <1>t, <1>w, <1>l DEF RunFail, MayFail, BooksKept, TypeOK, Final, holdVars, moneyVars
  <2>2. CASE RunMoney(s)
    BY <2>2, <1>w, <1>l DEF RunMoney, Returned, Has, BooksKept, Settlement, holdVars
  <2>3. CASE RunHold(s)
    BY <2>3, <1>t, <1>w, <1>l DEF RunHold, Released, BooksKept, TypeOK, moneyVars
  <2>4. CASE UNCHANGED <<ledger, refunds, booking, hold>>
    BY <2>4, <1>l DEF BooksKept
  <2>5. \/ RunFail(s) \/ RunMoney(s) \/ RunHold(s)
        \/ UNCHANGED <<ledger, refunds, booking, hold>>
    BY DEF RunNext, RunList, RunPick, RunBooking, RunJournal, RunMark, RunResolve, RunBreaks,
           holdVars, moneyVars
  <2>. QED BY <2>1, <2>2, <2>3, <2>4, <2>5
<1>2. AnswersKept
  <2>1. CASE RunMark(s)
    BY <2>1, <1>t, <1>w DEF RunMark, AnswersKept, TypeOK, supplierVars, requestVars
  <2>2. CASE RunResolve(s)
    <3>1. Verdict(run[s].journal) # "ACKNOWLEDGED"
      BY <2>2 DEF RunResolve, Verdict, TypeInv, RunsOK
    <3>. QED BY <2>2, <1>t, <1>w, <3>1 DEF RunResolve, AnswersKept, TypeOK, supplierVars, requestVars
  <2>3. CASE UNCHANGED <<journal, supplierVars, requestVars>>
    BY <2>3 DEF AnswersKept, supplierVars, requestVars
  <2>4. RunMark(s) \/ RunResolve(s) \/ UNCHANGED <<journal, supplierVars, requestVars>>
    BY DEF RunNext, RunList, RunPick, RunBooking, RunJournal, RunFail, RunMoney, RunHold, RunBreaks
  <2>. QED BY <2>1, <2>2, <2>3, <2>4
<1>. QED BY <1>1, <1>2

\* Confirmation charges a pending booking on a claimed hold: neither was charged before.
LEMMA ConfirmCharges ==
  ASSUME TypeOK, ChargeInv, NEW b \in Bookings, Confirm(b)
  PROVE  ChargeInv'
<1>h. \A c \in Bookings : HoldOf[c] \in Holds
  BY ConstantsOK DEF ConstantsOK
<1>1. /\ booking[b] = "PENDING_SUPPLIER" /\ journal[b] = "ACKNOWLEDGED"
      /\ hold[HoldOf[b]] = "PROCESSING" /\ Has(b, "hold")
  BY DEF Confirm, MayConfirm
<1>2. \A c \in Bookings : Charged(c)' <=> Charged(c) \/ c = b
  BY DEF Confirm, Charged, Has
<1>3. LedgerOK'
  <2>1. \A u \in refunds : u[1] \in Bookings
    BY DEF TypeOK
  <2>2. \A u \in refunds' : Charged(u[1])'
    BY <1>2, <2>1 DEF ChargeInv, LedgerOK, Confirm
  <2>3. \A c \in Bookings : Has(c, "settle-release")' <=> Has(c, "settle-debit")'
    BY DEF ChargeInv, LedgerOK, Confirm, Has
  <2>4. \A c \in Bookings : Has(c, "release")' \/ Charged(c)' => Has(c, "hold")'
    BY <1>1 DEF ChargeInv, LedgerOK, Confirm, Has, Charged
  <2>. QED BY <2>2, <2>3, <2>4 DEF LedgerOK
<1>4. AnswersOK'
  BY AnswersStay DEF ChargeInv, Confirm, AnswersKept, supplierVars, requestVars
<1>5. \A c \in Bookings : HoldOf[c] = HoldOf[b] => ~Charged(c)
  BY <1>1 DEF ChargeInv, ChargeHasItsRooms
<1>6. /\ \A c \in Bookings : booking'[c] = IF c = b THEN "CONFIRMED" ELSE booking[c]
      /\ \A h \in Holds : hold'[h] = IF h = HoldOf[b] THEN "CONFIRMED" ELSE hold[h]
      /\ UNCHANGED accepted
  BY <1>h DEF Confirm, TypeOK, supplierVars
<1>7. ChargeHasItsRooms'
  <2>1. b \in accepted
    BY <1>1 DEF ChargeInv, AnswersOK
  <2>. QED BY <1>2, <1>5, <1>6, <1>h, <2>1 DEF ChargeInv, ChargeHasItsRooms
<1>8. HoldChargedOnce'
  BY <1>2, <1>5 DEF ChargeInv, HoldChargedOnce
<1>. QED BY <1>3, <1>4, <1>7, <1>8 DEF ChargeInv

\* Cancellation returns the rooms of the one booking charged for them.
LEMMA CancelReturns ==
  ASSUME TypeOK, ChargeInv, NEW b \in Bookings, NEW n \in 0..Price, Cancel(b, n)
  PROVE  ChargeInv'
<1>h. \A c \in Bookings : HoldOf[c] \in Holds
  BY ConstantsOK DEF ConstantsOK
<1>1. Charged(b) /\ booking[b] = "CONFIRMED"
  BY DEF Cancel
<1>2. UNCHANGED ledger /\ \A c \in Bookings : Charged(c)' <=> Charged(c)
  BY DEF Cancel, Charged, Has
<1>3. LedgerOK'
  <2>1. \A u \in refunds' : u \in refunds \/ u[1] = b
    BY DEF Cancel
  <2>2. \A u \in refunds : u[1] \in Bookings
    BY DEF TypeOK
  <2>3. \A u \in refunds' : Charged(u[1])'
    BY <1>1, <1>2, <2>1, <2>2 DEF ChargeInv, LedgerOK
  <2>. QED BY <1>2, <2>3 DEF ChargeInv, LedgerOK, Has, Charged
<1>4. AnswersOK'
  BY AnswersStay DEF ChargeInv, Cancel, AnswersKept, supplierVars, requestVars
<1>5. /\ \A c \in Bookings : booking'[c] = IF c = b THEN "CANCELLED" ELSE booking[c]
      /\ \A h \in Holds : hold'[h] = IF h = HoldOf[b] THEN "RELEASED" ELSE hold[h]
      /\ UNCHANGED accepted
  BY <1>h DEF Cancel, TypeOK, supplierVars
<1>6. \A c \in Bookings : Charged(c) /\ HoldOf[c] = HoldOf[b] => c = b
  BY <1>1 DEF ChargeInv, HoldChargedOnce
<1>7. ChargeHasItsRooms'
  BY <1>1, <1>2, <1>5, <1>6, <1>h DEF ChargeInv, ChargeHasItsRooms
<1>8. HoldChargedOnce'
  BY <1>2 DEF ChargeInv, HoldChargedOnce
<1>. QED BY <1>3, <1>4, <1>7, <1>8 DEF ChargeInv

\* Settlement refunds a charged booking and touches nothing else.
LEMMA SettleRefunds ==
  ASSUME TypeOK, ChargeInv, NEW b \in Bookings, NEW n \in 0..Price, Settle(b, n)
  PROVE  ChargeInv'
<1>1. Charged(b) /\ UNCHANGED <<ledger, booking, hold, journal, accepted, at>>
  BY DEF Settle, holdVars, supplierVars, requestVars
<1>2. \A u \in refunds' : u \in refunds \/ u[1] = b
  BY DEF Settle
<1>3. \A u \in refunds : u[1] \in Bookings
  BY DEF TypeOK
<1>4. \A c \in Bookings : Charged(c)' <=> Charged(c)
  BY <1>1 DEF Charged, Has
<1>5. \A u \in refunds' : Charged(u[1])'
  BY <1>1, <1>2, <1>3, <1>4 DEF ChargeInv, LedgerOK
<1>6. LedgerOK'
  BY <1>1, <1>5 DEF ChargeInv, LedgerOK, Has, Charged
<1>7. AnswersOK' /\ ChargeHasItsRooms' /\ HoldChargedOnce'
  BY <1>1, <1>4 DEF ChargeInv, AnswersOK, ChargeHasItsRooms, HoldChargedOnce, Key
<1>. QED BY <1>6, <1>7 DEF ChargeInv

\* The remaining steps keep charges and rooms together.
LEMMA OtherKeepsCharges ==
  ASSUME TypeOK, ChargeInv, OtherNext
  PROVE  ChargeInv'
<1>l. \A b \in Bookings : <<b, "release">> \in ledger => <<b, "hold">> \in ledger
  BY DEF ChargeInv, LedgerOK, Has
<1>1. ASSUME NEW h \in Holds, LetGo(h) \/ FallDue(h) \/ GoStale(h)
      PROVE  ChargeInv'
  <2>1. BooksKept
    BY <1>1, <1>l DEF LetGo, FallDue, GoStale, BooksKept, TypeOK, moneyVars
  <2>2. AnswersKept
    BY <1>1 DEF LetGo, FallDue, GoStale, AnswersKept, supplierVars, requestVars
  <2>. QED BY <2>1, <2>2, BooksStay
<1>2. ASSUME NEW b \in Bookings, WindowPasses(b)
      PROVE  ChargeInv'
  <2>1. BooksKept /\ AnswersKept
    BY <1>2, <1>l DEF WindowPasses, BooksKept, AnswersKept, holdVars, moneyVars, supplierVars, requestVars
  <2>. QED BY <2>1, BooksStay
<1>. QED BY <1>1, <1>2, ConfirmCharges, CancelReturns, SettleRefunds DEF OtherNext

\* Charges, rooms, answers and refunds fit together in every reachable state.
THEOREM ChargeInvariance == Spec => []ChargeInv
<1>1. Init => ChargeInv
  BY ConstantsOK DEF Init, ChargeInv, LedgerOK, AnswersOK, ChargeHasItsRooms, HoldChargedOnce,
     Has, Charged, ConstantsOK
<1>2. TypeInv /\ ChargeInv /\ [Next]_vars => ChargeInv'
  <2> SUFFICES ASSUME TypeInv, ChargeInv, [Next]_vars PROVE ChargeInv'
    OBVIOUS
  <2>t. TypeOK
    BY DEF TypeInv
  <2>1. ASSUME NEW r \in Requests, RequestNext(r) PROVE ChargeInv'
    BY <2>1, <2>t, RequestKeepsBooks, RequestKeepsAnswers, BooksStay
  <2>2. ASSUME NEW s \in Sweepers, RunNext(s) PROVE ChargeInv'
    BY <2>2, <2>t, RunKeepsBooks, BooksStay
  <2>3. CASE OtherNext
    BY <2>3, <2>t, OtherKeepsCharges
  <2>4. CASE UNCHANGED vars
    <3>1. \A b \in Bookings : <<b, "release">> \in ledger => <<b, "hold">> \in ledger
      BY DEF ChargeInv, LedgerOK, Has
    <3>2. BooksKept /\ AnswersKept
      BY <2>4, <3>1 DEF vars, BooksKept, AnswersKept, holdVars, moneyVars, supplierVars, requestVars
    <3>. QED BY <2>t, <3>2, BooksStay
  <2>. QED BY <2>1, <2>2, <2>3, <2>4, NextSplit
<1>. QED BY <1>1, <1>2, TypeInvariance, PTL DEF Spec

\* A charge has the confirmed booking and the sold rooms behind it (or was cancelled and gave
\* them back), and every confirmed booking was charged and accepted by the supplier:
\* confirmation and recovery never both win.
THEOREM ChargesHaveRooms == Spec => []ChargeHasItsRooms
<1>1. ChargeInv => ChargeHasItsRooms
  BY DEF ChargeInv
<1>. QED BY <1>1, ChargeInvariance, PTL

\* However many keys name one hold, at most one of their bookings is charged for it.
THEOREM HoldsChargedOnce == Spec => []HoldChargedOnce
<1>1. ChargeInv => HoldChargedOnce
  BY DEF ChargeInv
<1>. QED BY <1>1, ChargeInvariance, PTL

\* A cancellation and all later settlements together never refund more than the charge, and
\* nothing is refunded to a booking that was not charged.
THEOREM RefundsWithinCharge == Spec => []RefundWithinCharge
<1>1. TypeOK /\ ChargeInv => RefundWithinCharge
  <2> SUFFICES ASSUME TypeOK, ChargeInv, NEW b \in Bookings
               PROVE  Cardinality({u \in refunds : u[1] = b}) <= (IF Charged(b) THEN Price ELSE 0)
    BY DEF RefundWithinCharge
  <2> DEFINE mine == {u \in refunds : u[1] = b}
  <2>p. Price \in Nat
    BY ConstantsOK DEF ConstantsOK
  <2>1. CASE ~Charged(b)
    <3>1. mine = {}
      BY <2>1 DEF ChargeInv, LedgerOK
    <3>. QED BY <2>1, <3>1, FS_EmptySet
  <2>2. CASE Charged(b)
    <3>1. IsFiniteSet(1..Price) /\ Cardinality(1..Price) = Price
      BY <2>p, FS_Interval
    <3>2. IsFiniteSet({b}) /\ Cardinality({b}) = 1
      BY FS_Singleton
    <3>3. IsFiniteSet({b} \X (1..Price)) /\ Cardinality({b} \X (1..Price)) = 1 * Price
      BY <3>1, <3>2, FS_Product
    <3>4. mine \in SUBSET ({b} \X (1..Price))
      BY DEF TypeOK
    <3>5. Cardinality(mine) <= Cardinality({b} \X (1..Price))
      BY <3>3, <3>4, FS_Subset
    <3>. QED BY <2>2, <2>p, <3>3, <3>5
  <2>. QED BY <2>1, <2>2
<1>. QED BY <1>1, TypeCorrect, ChargeInvariance, PTL

-----------------------------------------------------------------------------
(* The wallet.                                                             *)

With(e) == {b \in Bookings : Has(b, e)}

\* The entries of a kind can be counted, in this state ...
LEMMA NumberOf ==
  \A e : IsFiniteSet(With(e)) /\ Number(e) = Cardinality(With(e)) /\ Number(e) \in Nat
<1> SUFFICES ASSUME NEW e
             PROVE  IsFiniteSet(With(e)) /\ Number(e) = Cardinality(With(e)) /\ Number(e) \in Nat
  OBVIOUS
<1>1. With(e) \in SUBSET Bookings
  BY DEF With
<1>2. IsFiniteSet(With(e))
  BY <1>1, FS_Subset, ConstantsOK DEF ConstantsOK
<1>3. Number(e) = Cardinality(With(e))
  BY DEF Number, With
<1>. QED BY <1>2, <1>3, FS_CardinalityType

\* ... and in the next.
LEMMA NumberOfNext ==
  \A e : IsFiniteSet(With(e)') /\ Number(e)' = Cardinality(With(e)') /\ Number(e)' \in Nat
<1> SUFFICES ASSUME NEW CONSTANT e
             PROVE  IsFiniteSet(With(e)') /\ Number(e)' = Cardinality(With(e)') /\ Number(e)' \in Nat
  OBVIOUS
<1>1. With(e)' \in SUBSET Bookings
  BY DEF With
<1>2. IsFiniteSet(With(e)')
  BY <1>1, FS_Subset, ConstantsOK DEF ConstantsOK
<1>3. Number(e)' = Cardinality(With(e)')
  BY DEF Number, With
<1>. QED BY <1>2, <1>3, FS_CardinalityType

\* The refunded units can be counted.
LEMMA RefundsCount ==
  ASSUME NEW R \in SUBSET (Bookings \X (1..Price))
  PROVE  IsFiniteSet(R) /\ Cardinality(R) \in Nat
<1>1. IsFiniteSet(1..Price)
  BY FS_Interval, ConstantsOK DEF ConstantsOK
<1>2. IsFiniteSet(Bookings \X (1..Price))
  BY <1>1, FS_Product, ConstantsOK DEF ConstantsOK
<1>. QED BY <1>2, FS_Subset, FS_CardinalityType

\* The settlement pair cancels out: what is spendable depends on the reservations, the ones
\* returned and the refunds.
Net == Funds + Price * (Number("release") - Number("hold")) + Cardinality(refunds)

\* So it is before a step ...
LEMMA SpendableIsNet ==
  ASSUME LedgerOK
  PROVE  Spendable = Net
<1>1. With("settle-release") = With("settle-debit")
  BY DEF LedgerOK, With
<1>2. Number("settle-release") = Number("settle-debit")
  BY <1>1, NumberOf
<1>3. Number("release") + Number("settle-release") - Number("hold") - Number("settle-debit")
        = Number("release") - Number("hold")
  BY <1>2, NumberOf
<1>. QED BY <1>3 DEF Spendable, Net

\* ... and after it.
LEMMA SpendableIsNetNext ==
  ASSUME LedgerOK'
  PROVE  Spendable' = Net'
<1>1. With("settle-release")' = With("settle-debit")'
  BY DEF LedgerOK, With
<1>2. Number("settle-release")' = Number("settle-debit")'
  BY <1>1, NumberOfNext
<1>3. Number("release")' + Number("settle-release")' - Number("hold")' - Number("settle-debit")'
        = Number("release")' - Number("hold")'
  BY <1>2, NumberOfNext
<1>. QED BY <1>3 DEF Spendable, Net

\* A step that reserves nothing never takes from the wallet.
LEMMA WalletGrows ==
  ASSUME TypeOK, TypeOK', LedgerOK, LedgerOK', NeverOverdrawn,
         With("hold")' = With("hold"), ledger \subseteq ledger', refunds \subseteq refunds'
  PROVE  NeverOverdrawn'
<1>p. Price \in Nat /\ Funds \in Nat
  BY ConstantsOK DEF ConstantsOK
<1>1. Number("hold")' = Number("hold")
  BY NumberOf, NumberOfNext
<1>2. With("release") \in SUBSET With("release")'
  BY DEF With, Has
<1>3. Number("release") <= Number("release")'
  BY <1>2, NumberOf, NumberOfNext, FS_Subset
<1>4. Cardinality(refunds) <= Cardinality(refunds') /\ Cardinality(refunds) \in Nat /\ Cardinality(refunds') \in Nat
  <2>1. refunds \in SUBSET (Bookings \X (1..Price)) /\ refunds' \in SUBSET (Bookings \X (1..Price))
    BY DEF TypeOK
  <2>. QED BY <2>1, RefundsCount, FS_Subset
<1>5. PICK d \in Nat : Number("release")' = Number("release") + d
  <2>1. Number("release")' - Number("release") \in Nat
    BY <1>3, NumberOf, NumberOfNext
  <2>. QED BY <2>1, NumberOf, NumberOfNext
<1> DEFINE x == Number("release") - Number("hold")
<1>6. x \in Int /\ Number("release")' - Number("hold")' = x + d
  BY <1>1, <1>5, NumberOf, NumberOfNext
<1> HIDE DEF x
<1>7. Price * (x + d) = Price * x + Price * d /\ Price * d >= 0 /\ Price * x \in Int /\ Price * d \in Int
  BY <1>p, <1>6
<1>8. Net = Funds + Price * x + Cardinality(refunds)
  BY DEF Net, x
<1>9. Net' = Funds + Price * (x + d) + Cardinality(refunds')
  BY <1>6 DEF Net
<1>10. Net >= 0
  BY SpendableIsNet DEF NeverOverdrawn
<1>11. Net' >= 0
  BY <1>p, <1>4, <1>7, <1>8, <1>9, <1>10
<1>. QED BY <1>11, SpendableIsNetNext DEF NeverOverdrawn

\* A reservation is made only when the wallet covers it.
LEMMA ReservationFits ==
  ASSUME TypeOK, TypeOK', LedgerOK, LedgerOK', NeverOverdrawn, NEW r \in Requests, Authorize(r)
  PROVE  NeverOverdrawn'
<1>k. Key(r) \in Bookings /\ Price \in Nat /\ Funds \in Nat
  BY ConstantsOK DEF ConstantsOK, Key
<1>1. UNCHANGED refunds
  BY DEF Authorize
<1>2. CASE UNCHANGED ledger
  BY <1>1, <1>2, WalletGrows DEF With, Has
<1>3. CASE /\ ~Has(Key(r), "hold") /\ MaySpend(Price)
           /\ ledger' = ledger \cup {<<Key(r), "hold">>}
  <2>1. With("hold")' = With("hold") \cup {Key(r)} /\ Key(r) \notin With("hold")
    BY <1>3, <1>k DEF With, Has
  <2>2. With("release")' = With("release")
    BY <1>3 DEF With, Has
  <2>3. Number("hold")' = Number("hold") + 1
    BY <2>1, NumberOf, NumberOfNext, FS_AddElement
  <2>4. Number("release")' = Number("release")
    BY <2>2, NumberOf, NumberOfNext
  <2> DEFINE x == Number("release") - Number("hold")
  <2>5. x \in Int /\ Number("release")' - Number("hold")' = x - 1
    BY <2>3, <2>4, NumberOf, NumberOfNext
  <2> HIDE DEF x
  <2>6. Price * (x - 1) = Price * x - Price /\ Price * x \in Int
    BY <1>k, <2>5
  <2>7. Net = Funds + Price * x + Cardinality(refunds)
    BY DEF Net, x
  <2>8. Net' = Funds + Price * (x - 1) + Cardinality(refunds)
    BY <1>1, <2>5 DEF Net
  <2>9. Price <= Net
    BY <1>3, SpendableIsNet DEF MaySpend
  <2>10. Cardinality(refunds) \in Nat
    BY RefundsCount DEF TypeOK
  <2>11. Net' >= 0
    BY <1>k, <2>6, <2>7, <2>8, <2>9, <2>10
  <2>. QED BY <2>11, SpendableIsNetNext DEF NeverOverdrawn
<1>. QED BY <1>2, <1>3 DEF Authorize

\* Nothing else reserves, and nothing is taken out of the ledger.
LEMMA OnlyAuthorizeReserves ==
  ASSUME ChargeInv, Next, \A r \in Requests : ~Authorize(r)
  PROVE  With("hold")' = With("hold") /\ ledger \subseteq ledger' /\ refunds \subseteq refunds'
<1>1. ASSUME NEW r \in Requests, RequestNext(r)
      PROVE  With("hold")' = With("hold") /\ ledger \subseteq ledger' /\ refunds \subseteq refunds'
  <2>1. ReturnMoney(r) \/ UNCHANGED <<ledger, refunds>>
    BY <1>1 DEF RequestNext, Persist, Lookup, Claim, ReleaseUnauthorized, Prepare, MarkSending,
           Recheck, CallSupplier, Acknowledge, Reject, MarkUnknown, Retain, ReturnHold, Crash, moneyVars
  <2>. QED BY <2>1 DEF ReturnMoney, Returned, With, Has
<1>2. ASSUME NEW s \in Sweepers, RunNext(s)
      PROVE  With("hold")' = With("hold") /\ ledger \subseteq ledger' /\ refunds \subseteq refunds'
  <2>1. RunMoney(s) \/ UNCHANGED <<ledger, refunds>>
    BY <1>2 DEF RunNext, RunList, RunPick, RunBooking, RunJournal, RunMark, RunFail, RunHold,
           RunResolve, RunBreaks, moneyVars
  <2>. QED BY <2>1 DEF RunMoney, Returned, With, Has
<1>3. CASE OtherNext
  BY <1>3 DEF OtherNext, LetGo, FallDue, GoStale, WindowPasses, Confirm, Cancel, Settle, With, Has,
         moneyVars
<1>. QED BY <1>1, <1>2, <1>3, NextSplit

\* Two bookings never spend the same money: balance and credit line cover every reservation
\* and charge, whoever returns what and when.
THEOREM WalletNotOverdrawn == Spec => []NeverOverdrawn
<1>1. Init => NeverOverdrawn
  <2> SUFFICES ASSUME Init PROVE NeverOverdrawn
    OBVIOUS
  <2>1. \A e : With(e) = {}
    BY DEF Init, With, Has
  <2>2. \A e : Number(e) = 0
    BY <2>1, NumberOf, FS_EmptySet
  <2>3. Cardinality(refunds) = 0
    BY FS_EmptySet DEF Init
  <2>. QED BY <2>2, <2>3, ConstantsOK DEF NeverOverdrawn, Spendable, ConstantsOK
<1>2. TypeOK /\ TypeOK' /\ ChargeInv /\ ChargeInv' /\ NeverOverdrawn /\ [Next]_vars => NeverOverdrawn'
  <2> SUFFICES ASSUME TypeOK, TypeOK', ChargeInv, ChargeInv', NeverOverdrawn, [Next]_vars
               PROVE  NeverOverdrawn'
    OBVIOUS
  <2>l. LedgerOK /\ LedgerOK'
    BY DEF ChargeInv
  <2>1. ASSUME NEW r \in Requests, Authorize(r) PROVE NeverOverdrawn'
    BY <2>1, <2>l, ReservationFits
  <2>2. CASE Next /\ \A r \in Requests : ~Authorize(r)
    BY <2>2, <2>l, OnlyAuthorizeReserves, WalletGrows
  <2>3. CASE UNCHANGED vars
    BY <2>3, <2>l, WalletGrows DEF vars, moneyVars, With, Has
  <2>. QED BY <2>1, <2>2, <2>3
<1>. QED BY <1>1, <1>2, TypeCorrect, ChargeInvariance, PTL DEF Spec

-----------------------------------------------------------------------------
(* The promise of BookingOutcome.  It holds as long as no settled            *)
(* reservation is returned (ReturnedOrSettled), which two requests of one    *)
(* key and a failing write can bring about: nothing else breaks it.          *)

\* The refunded units of a booking are numbered from one without a gap.
Contiguous == \A b \in Bookings : \E k \in 0..Price : Posted(b) = 1..k

\* A settlement adds exactly the units between what was posted and its target.
LEMMA SettleFills ==
  ASSUME Contiguous, NEW b \in Bookings, NEW n \in 0..Price, Settle(b, n)
  PROVE  n \in 1..Price /\ refunds' = refunds \cup ({b} \X (1..n))
<1>p. Price \in Nat
  BY ConstantsOK DEF ConstantsOK
<1>1. PICK k \in 0..Price : Posted(b) = 1..k
  BY DEF Contiguous
<1>2. Cardinality(Posted(b)) = k
  BY <1>p, <1>1, FS_Interval
<1>3. k < n /\ refunds' = refunds \cup ({b} \X {i \in 1..n : i > k})
  BY <1>2 DEF Settle, Delta
<1>4. \A i \in 1..k : <<b, i>> \in refunds
  BY <1>1 DEF Posted
<1>5. \A i \in 1..n : i \in 1..k \/ i > k
  BY <1>p
<1>6. {b} \X (1..n) \subseteq refunds'
  BY <1>3, <1>4, <1>5
<1>7. refunds' \subseteq refunds \cup ({b} \X (1..n))
  BY <1>3
<1>8. n \in 1..Price
  BY <1>p, <1>3
<1>. QED BY <1>3, <1>6, <1>7, <1>8

\* Cancellation and settlement both raise the refund of one booking to an amount.
LEMMA RaiseKeepsContiguous ==
  ASSUME Contiguous, NEW b \in Bookings, NEW n \in 0..Price, refunds' = refunds \cup ({b} \X (1..n))
  PROVE  Contiguous'
<1>p. Price \in Nat
  BY ConstantsOK DEF ConstantsOK
<1> SUFFICES ASSUME NEW c \in Bookings PROVE \E k \in 0..Price : Posted(c)' = 1..k
  BY DEF Contiguous
<1>1. PICK k \in 0..Price : Posted(c) = 1..k
  BY DEF Contiguous
<1>2. CASE c # b
  BY <1>1, <1>2 DEF Posted
<1>3. CASE c = b
  <2>1. Posted(c)' = (1..k) \cup (1..n)
    <3>1. \A i : i \in Posted(c)' <=> i \in 1..Price /\ (<<c, i>> \in refunds \/ i \in 1..n)
      BY <1>3 DEF Posted
    <3>2. \A i : i \in 1..k <=> i \in 1..Price /\ <<c, i>> \in refunds
      BY <1>1 DEF Posted
    <3>3. \A i \in 1..n : i \in 1..Price
      BY <1>p
    <3>. QED BY <3>1, <3>2, <3>3
  <2>2. CASE k <= n
    <3>1. (1..k) \cup (1..n) = 1..n
      BY <1>p, <2>2
    <3>. QED BY <2>1, <3>1
  <2>3. CASE n <= k
    <3>1. (1..k) \cup (1..n) = 1..k
      BY <1>p, <2>3
    <3>. QED BY <2>1, <3>1
  <2>. QED BY <1>p, <2>2, <2>3
<1>. QED BY <1>2, <1>3

\* Who posts refunds.
LEMMA RefundSteps ==
  ASSUME [Next]_vars
  PROVE  \/ UNCHANGED refunds
         \/ \E b \in Bookings, n \in 0..Price : Cancel(b, n) \/ Settle(b, n)
<1>1. CASE Next
  <2>1. ASSUME NEW r \in Requests, RequestNext(r) PROVE UNCHANGED refunds
    BY <2>1 DEF RequestNext, Persist, Lookup, Claim, Authorize, ReleaseUnauthorized, Prepare, MarkSending,
           Recheck, CallSupplier, Acknowledge, Reject, MarkUnknown, Retain, ReturnMoney, ReturnHold,
           Crash, moneyVars
  <2>2. ASSUME NEW s \in Sweepers, RunNext(s) PROVE UNCHANGED refunds
    BY <2>2 DEF RunNext, RunList, RunPick, RunBooking, RunJournal, RunMark, RunFail, RunMoney, RunHold,
           RunResolve, RunBreaks, moneyVars
  <2>3. CASE OtherNext
    BY <2>3 DEF OtherNext, LetGo, FallDue, GoStale, WindowPasses, Confirm, moneyVars
  <2>. QED BY <1>1, <2>1, <2>2, <2>3, NextSplit
<1>2. CASE UNCHANGED vars
  BY <1>2 DEF vars, moneyVars
<1>. QED BY <1>1, <1>2

\* Refunds are posted without gaps or overlaps.
LEMMA ContiguousInvariance == Spec => []Contiguous
<1>1. Init => Contiguous
  <2> SUFFICES ASSUME Init, NEW b \in Bookings PROVE \E k \in 0..Price : Posted(b) = 1..k
    BY DEF Contiguous
  <2>1. Posted(b) = 1..0 /\ 0 \in 0..Price
    BY ConstantsOK DEF Init, Posted, ConstantsOK
  <2>. QED BY <2>1
<1>2. Contiguous /\ [Next]_vars => Contiguous'
  <2> SUFFICES ASSUME Contiguous, [Next]_vars PROVE Contiguous'
    OBVIOUS
  <2>1. CASE UNCHANGED refunds
    BY <2>1 DEF Contiguous, Posted
  <2>2. ASSUME NEW b \in Bookings, NEW n \in 0..Price, Cancel(b, n) PROVE Contiguous'
    BY <2>2, RaiseKeepsContiguous DEF Cancel
  <2>3. ASSUME NEW b \in Bookings, NEW n \in 0..Price, Settle(b, n) PROVE Contiguous'
    BY <2>3, SettleFills, RaiseKeepsContiguous
  <2>. QED BY <2>1, <2>2, <2>3, RefundSteps
<1>. QED BY <1>1, <1>2, PTL DEF Spec

\* A step of the ledger changes the money of one booking, or of none.
LEMMA MoneyUntouched ==
  ASSUME UNCHANGED ledger
  PROVE  [b \in Bookings |-> Money(b)]' = [b \in Bookings |-> Money(b)]
  BY DEF Money, Charged, Has

\* A step that moves one booking, as an EXCEPT.
LEMMA MoneyMoves ==
  ASSUME NEW b \in Bookings, NEW m, Money(b)' = m,
         \A c \in Bookings : c # b => Money(c)' = Money(c)
  PROVE  [c \in Bookings |-> Money(c)]' = [[c \in Bookings |-> Money(c)] EXCEPT ![b] = m]
  OBVIOUS

\* What BookingOutcome counts as spent is what the wallet has out.
LEMMA SpentIsOut ==
  ASSUME TypeOK, LedgerOK, ReturnedOrSettled
  PROVE  Outcome!Spent = Price * (Number("hold") - Number("release")) - Cardinality(refunds)
<1> DEFINE out == {b \in Bookings : [c \in Bookings |-> Money(c)][b] \in {"reserved", "charged"}}
<1>1. out = With("hold") \ With("release")
  BY DEF LedgerOK, ReturnedOrSettled, Money, With
<1>2. With("release") \in SUBSET With("hold")
  BY DEF LedgerOK, With
<1>3. With("hold") \cap With("release") = With("release")
  BY <1>2
<1>4. Cardinality(With("hold") \ With("release")) = Cardinality(With("hold")) - Cardinality(With("release"))
  BY <1>3, NumberOf, FS_Difference
<1>5. Cardinality(out) = Number("hold") - Number("release")
  BY <1>1, <1>4, NumberOf
<1>6. Outcome!Spent = Price * Cardinality(out) - Cardinality(refunds)
  BY Zenon DEF Outcome!Spent, Outcome!Cardinality, Cardinality
<1>. QED BY <1>5, <1>6

\* authorize implements Reserve.
LEMMA AuthorizeReserves ==
  ASSUME TypeOK, ChargeInv, ReturnedOrSettled, NEW r \in Requests, Authorize(r)
  PROVE  UNCHANGED Outcome!vars \/ Outcome!Next
<1>k. Key(r) \in Bookings /\ Price \in Nat /\ Funds \in Nat
  BY ConstantsOK DEF ConstantsOK, Key
<1>1. CASE UNCHANGED ledger
  BY <1>1, MoneyUntouched DEF Authorize, Outcome!vars
<1>2. CASE /\ ~Has(Key(r), "hold") /\ MaySpend(Price)
           /\ ledger' = ledger \cup {<<Key(r), "hold">>}
  <2>1. LedgerOK
    BY DEF ChargeInv
  <2>2. Money(Key(r)) = "none" /\ Money(Key(r))' = "reserved"
    BY <1>2, <1>k, <2>1 DEF LedgerOK, Money, Charged, Has, Key
  <2>3. \A c \in Bookings : c # Key(r) => Money(c)' = Money(c)
    BY <1>2 DEF Money, Charged, Has
  <2>4. [c \in Bookings |-> Money(c)]' = [[c \in Bookings |-> Money(c)] EXCEPT ![Key(r)] = "reserved"]
    BY <1>k, <2>2, <2>3, MoneyMoves DEF Key
  <2> DEFINE x == Number("release") - Number("hold")
  <2>5. x \in Int /\ Number("hold") - Number("release") = -x
    BY NumberOf
  <2>6. Price <= Funds + Price * x + Cardinality(refunds)
    BY <1>2, <2>1, SpendableIsNet DEF MaySpend, Net
  <2>7. Outcome!Spent = Price * (-x) - Cardinality(refunds)
    BY <2>1, <2>5, SpentIsOut
  <2>8. Cardinality(refunds) \in Nat
    BY RefundsCount DEF TypeOK
  <2> HIDE DEF x
  <2>9. Price * (-x) = -(Price * x) /\ Price * x \in Int
    BY <1>k, <2>5
  <2>10. Outcome!Spent + Price <= Funds
    BY <1>k, <2>6, <2>7, <2>8, <2>9
  <2>11. Outcome!Reserve(Key(r))
    BY <1>k, <2>2, <2>4, <2>10 DEF Outcome!Reserve, Authorize
  <2>. QED BY <1>k, <2>11 DEF Outcome!Next
<1>. QED BY <1>1, <1>2 DEF Authorize

\* finance.release implements Return, whoever calls it.
LEMMA ReleaseReturns ==
  ASSUME ChargeInv, ReturnedOrSettled, ReturnedOrSettled', NEW b \in Bookings,
         ledger' = Returned(b), UNCHANGED refunds
  PROVE  UNCHANGED Outcome!vars \/ Outcome!Next
<1>1. CASE ledger' = ledger
  BY <1>1, MoneyUntouched DEF Outcome!vars
<1>2. CASE Has(b, "hold") /\ ~Has(b, "release") /\ ledger' = ledger \cup {<<b, "release">>}
  <2>1. ~Charged(b)
    BY <1>2 DEF ReturnedOrSettled, Charged, Has
  <2>2. Money(b) = "reserved" /\ Money(b)' = "returned"
    BY <1>2, <2>1 DEF Money, Charged, Has
  <2>3. \A c \in Bookings : c # b => Money(c)' = Money(c)
    BY <1>2 DEF Money, Charged, Has
  <2>4. [c \in Bookings |-> Money(c)]' = [[c \in Bookings |-> Money(c)] EXCEPT ![b] = "returned"]
    BY <2>2, <2>3, MoneyMoves
  <2>5. Outcome!Return(b)
    BY <2>2, <2>4 DEF Outcome!Return
  <2>. QED BY <2>5 DEF Outcome!Next
<1>. QED BY <1>1, <1>2 DEF Returned, Has

\* confirm implements Charge.
LEMMA ConfirmIsCharge ==
  ASSUME ChargeInv, NEW b \in Bookings, Confirm(b)
  PROVE  Outcome!Next
<1>1. /\ booking[b] = "PENDING_SUPPLIER" /\ hold[HoldOf[b]] = "PROCESSING"
      /\ Has(b, "hold") /\ ~Has(b, "release")
      /\ ledger' = ledger \cup {<<b, "settle-release">>, <<b, "settle-debit">>}
      /\ UNCHANGED refunds
  BY DEF Confirm, MayConfirm
<1>2. \A c \in Bookings : HoldOf[c] = HoldOf[b] => ~Charged(c)
  BY <1>1 DEF ChargeInv, ChargeHasItsRooms
<1>3. Money(b) = "reserved" /\ Money(b)' = "charged"
  BY <1>1, <1>2 DEF Money, Charged, Has
<1>4. \A c \in Bookings : c # b => Money(c)' = Money(c)
  BY <1>1 DEF Money, Charged, Has
<1>5. [c \in Bookings |-> Money(c)]' = [[c \in Bookings |-> Money(c)] EXCEPT ![b] = "charged"]
  BY <1>3, <1>4, MoneyMoves
<1>6. \A c \in Bookings : HoldOf[c] = HoldOf[b] => Money(c) # "charged"
  BY <1>2 DEF Money
<1>7. Outcome!Charge(b)
  BY <1>1, <1>3, <1>5, <1>6 DEF Outcome!Charge
<1>. QED BY <1>7 DEF Outcome!Next

\* cancel and settle implement Refund.
LEMMA RaiseIsRefund ==
  ASSUME ReturnedOrSettled, NEW b \in Bookings, Charged(b), NEW n \in 0..Price,
         UNCHANGED ledger, refunds' = refunds \cup ({b} \X (1..n))
  PROVE  UNCHANGED Outcome!vars \/ Outcome!Next
<1>1. Money(b) = "charged"
  BY DEF ReturnedOrSettled, Money
<1>2. CASE n = 0
  <2>1. refunds' = refunds
    BY <1>2
  <2>. QED BY <2>1, MoneyUntouched DEF Outcome!vars
<1>3. CASE n # 0
  <2>1. n \in 1..Price
    BY <1>3, ConstantsOK DEF ConstantsOK
  <2>2. Outcome!Refund(b, n)
    BY <1>1, MoneyUntouched DEF Outcome!Refund
  <2>. QED BY <2>1, <2>2 DEF Outcome!Next
<1>. QED BY <1>2, <1>3

\* As long as no settled reservation is returned, every behaviour of the booking flow gives
\* the agency what BookingOutcome promises: requests, journal, retries, crashes and recovery
\* cannot be seen in its money.
THEOREM OutcomeRefinement == Spec /\ []ReturnedOrSettled => ImplementsBookingOutcome
<1>1. Init => Outcome!Init
  BY DEF Init, Outcome!Init, Money, Charged, Has
<1>2. /\ TypeInv /\ ChargeInv /\ Contiguous /\ ReturnedOrSettled /\ ReturnedOrSettled'
      /\ [Next]_vars
      => [Outcome!Next]_(Outcome!vars)
  <2> SUFFICES ASSUME TypeInv, ChargeInv, Contiguous, ReturnedOrSettled, ReturnedOrSettled', [Next]_vars
               PROVE  UNCHANGED Outcome!vars \/ Outcome!Next
    OBVIOUS
  <2>t. TypeOK
    BY DEF TypeInv
  <2>0. CASE UNCHANGED <<ledger, refunds>>
    BY <2>0, MoneyUntouched DEF Outcome!vars
  <2>1. ASSUME NEW r \in Requests, RequestNext(r)
        PROVE  UNCHANGED Outcome!vars \/ Outcome!Next
    <3>1. Authorize(r) \/ ReturnMoney(r) \/ UNCHANGED <<ledger, refunds>>
      BY <2>1 DEF RequestNext, Persist, Lookup, Claim, ReleaseUnauthorized, Prepare, MarkSending,
             Recheck, CallSupplier, Acknowledge, Reject, MarkUnknown, Retain, ReturnHold, Crash, moneyVars
    <3>2. CASE ReturnMoney(r)
      <4>1. Key(r) \in Bookings
        BY ConstantsOK DEF ConstantsOK, Key
      <4>2. UNCHANGED refunds /\ (ledger' = Returned(Key(r)) \/ UNCHANGED ledger)
        BY <3>2 DEF ReturnMoney
      <4>. QED BY <2>0, <4>1, <4>2, ReleaseReturns
    <3>. QED BY <2>t, <2>0, <3>1, <3>2, AuthorizeReserves
  <2>2. ASSUME NEW s \in Sweepers, RunNext(s)
        PROVE  UNCHANGED Outcome!vars \/ Outcome!Next
    <3>1. RunMoney(s) \/ UNCHANGED <<ledger, refunds>>
      BY <2>2 DEF RunNext, RunList, RunPick, RunBooking, RunJournal, RunMark, RunFail, RunHold,
             RunResolve, RunBreaks, moneyVars
    <3>2. CASE RunMoney(s)
      <4>1. run[s].booking \in Bookings
        BY <3>2 DEF RunMoney, TypeInv, RunsOK
      <4>2. UNCHANGED refunds /\ ledger' = Returned(run[s].booking)
        BY <3>2 DEF RunMoney
      <4>. QED BY <4>1, <4>2, ReleaseReturns
    <3>. QED BY <2>0, <3>1, <3>2
  <2>3. ASSUME NEW h \in Holds, LetGo(h) \/ FallDue(h) \/ GoStale(h)
        PROVE  UNCHANGED Outcome!vars
    BY <2>3, <2>0, MoneyUntouched DEF LetGo, FallDue, GoStale, moneyVars, Outcome!vars
  <2>4. ASSUME NEW b \in Bookings, WindowPasses(b)
        PROVE  UNCHANGED Outcome!vars
    BY <2>4, MoneyUntouched DEF WindowPasses, moneyVars, Outcome!vars
  <2>5. ASSUME NEW b \in Bookings, NEW n \in 0..Price, Cancel(b, n)
        PROVE  UNCHANGED Outcome!vars \/ Outcome!Next
    BY <2>5, RaiseIsRefund DEF Cancel
  <2>6. ASSUME NEW b \in Bookings, NEW n \in 0..Price, Settle(b, n)
        PROVE  UNCHANGED Outcome!vars \/ Outcome!Next
    BY <2>6, SettleFills, RaiseIsRefund DEF Settle
  <2>7. CASE OtherNext
    BY <2>7, <2>3, <2>4, <2>5, <2>6, ConfirmIsCharge DEF OtherNext
  <2>8. CASE UNCHANGED vars
    BY <2>8, <2>0 DEF vars, moneyVars
  <2>. QED BY <2>1, <2>2, <2>7, <2>8, NextSplit
<1>. QED BY <1>1, <1>2, TypeInvariance, ChargeInvariance, ContiguousInvariance, PTL
         DEF Spec, ImplementsBookingOutcome, Outcome!Spec

-----------------------------------------------------------------------------
(* Without a failing write no settled reservation is returned: recovery     *)
(* returns only for failed bookings, and a request only after its own call   *)
(* was refused, which is the only call there is.                             *)

Returning == {"reject", "returnMoney"}

\* A run returns money only for a booking that is failed.
RunsKnow ==
    \A s \in Sweepers :
        run[s].at = "money" \/ (run[s].at = "journal" /\ run[s].failed)
            => booking[run[s].booking] = "FAILED"

ReturnInv ==
    /\ faults = 0
    /\ \A r \in Requests : at[r] \in Returning \cup {"acknowledge"} => calls[Key(r)] # 0
    /\ \A b \in Bookings : journal[b] = "ACKNOWLEDGED" \/ Charged(b) => calls[b] # 0
    /\ \A r \in Requests : at[r] \in Returning =>
            /\ journal[Key(r)] # "ACKNOWLEDGED"
            /\ ~Charged(Key(r))
            /\ \A q \in Requests : Key(q) = Key(r) => at[q] # "acknowledge"
    /\ \A r \in Requests : at[r] # "recheck"
    /\ RunsKnow
    /\ ReturnedOrSettled

\* A step that settles nothing, calls nothing and starts no return.
NoReturnStarts ==
    /\ UNCHANGED <<faults, calls>>
    /\ \A r \in Requests : at'[r] \in Returning \cup {"acknowledge"} => at[r] = at'[r] \/
                              (at[r] = "reject" /\ at'[r] = "returnMoney")
    /\ \A r \in Requests : at'[r] # "recheck"
    /\ \A b \in Bookings : Charged(b)' => Charged(b)
    /\ \A b \in Bookings : journal'[b] = "ACKNOWLEDGED" => journal[b] = "ACKNOWLEDGED" \/
                              \E q \in Requests : Key(q) = b /\ at[q] = "acknowledge"
    /\ \A b \in Bookings : Has(b, "release")' => Has(b, "release") \/ ~Charged(b)
    /\ RunsKnow'

\* Such a step keeps the invariant.
LEMMA NoReturnStays ==
  ASSUME ReturnInv, NoReturnStarts
  PROVE  ReturnInv'
<1>k. \A r \in Requests : Key(r) \in Bookings /\ Key(r)' = Key(r)
  BY ConstantsOK DEF ConstantsOK, Key
<1>1. \A r \in Requests : at'[r] \in Returning => at[r] \in Returning
  BY DEF NoReturnStarts, Returning
<1>2. \A r \in Requests : at'[r] = "acknowledge" => at[r] = "acknowledge"
  BY DEF NoReturnStarts, Returning
<1>3. \A r \in Requests : at'[r] \in Returning \cup {"acknowledge"} => calls'[Key(r)] # 0
  BY <1>1, <1>2 DEF ReturnInv, NoReturnStarts
<1>4. \A b \in Bookings : journal'[b] = "ACKNOWLEDGED" \/ Charged(b)' => calls'[b] # 0
  BY DEF ReturnInv, NoReturnStarts
<1>5. \A r \in Requests : at'[r] \in Returning =>
            /\ journal'[Key(r)] # "ACKNOWLEDGED"
            /\ ~Charged(Key(r))'
            /\ \A q \in Requests : Key(q) = Key(r) => at'[q] # "acknowledge"
  <2> SUFFICES ASSUME NEW r \in Requests, at'[r] \in Returning
               PROVE  /\ journal'[Key(r)] # "ACKNOWLEDGED"
                      /\ ~Charged(Key(r))'
                      /\ \A q \in Requests : Key(q) = Key(r) => at'[q] # "acknowledge"
    OBVIOUS
  <2>1. /\ journal[Key(r)] # "ACKNOWLEDGED"
        /\ ~Charged(Key(r))
        /\ \A q \in Requests : Key(q) = Key(r) => at[q] # "acknowledge"
    BY <1>1 DEF ReturnInv
  <2>2. ~Charged(Key(r))'
    BY <1>k, <2>1 DEF NoReturnStarts, Charged, Has, Key
  <2>3. journal'[Key(r)] # "ACKNOWLEDGED"
    BY <1>k, <2>1 DEF NoReturnStarts
  <2>. QED BY <1>2, <2>1, <2>2, <2>3
<1>6. ReturnedOrSettled'
  BY DEF ReturnInv, NoReturnStarts, ReturnedOrSettled
<1>7. faults' = 0 /\ \A r \in Requests : at'[r] # "recheck"
  BY DEF ReturnInv, NoReturnStarts
<1>8. RunsKnow'
  BY DEF NoReturnStarts
<1>. QED BY <1>k, <1>3, <1>4, <1>5, <1>6, <1>7, <1>8 DEF ReturnInv, Key, Charged, Has

\* A failed booking stays failed.
LEMMA FailedStays ==
  ASSUME TypeInv, ChargeInv, Next, NEW b \in Bookings, booking[b] = "FAILED"
  PROVE  booking'[b] = "FAILED"
<1>k. \A r \in Requests : Key(r) \in Bookings
  BY ConstantsOK DEF ConstantsOK, Key
<1>1. ASSUME NEW r \in Requests, RequestNext(r) PROVE booking'[b] = "FAILED"
  <2>1. CASE Persist(r)
    BY <2>1, <1>k DEF Persist, TypeInv, TypeOK
  <2>2. Persist(r) \/ UNCHANGED booking
    BY <1>1 DEF RequestNext, Lookup, Claim, Authorize, ReleaseUnauthorized, Prepare, MarkSending,
           Recheck, CallSupplier, Acknowledge, Reject, MarkUnknown, Retain, ReturnMoney, ReturnHold, Crash
  <2>. QED BY <2>1, <2>2
<1>2. ASSUME NEW s \in Sweepers, RunNext(s) PROVE booking'[b] = "FAILED"
  <2>1. CASE RunFail(s)
    BY <2>1 DEF RunFail, TypeInv, TypeOK, RunsOK
  <2>2. RunFail(s) \/ UNCHANGED booking
    BY <1>2 DEF RunNext, RunList, RunPick, RunBooking, RunJournal, RunMark, RunMoney, RunHold,
           RunResolve, RunBreaks
  <2>. QED BY <2>1, <2>2
<1>3. CASE OtherNext
  BY <1>3 DEF OtherNext, LetGo, FallDue, GoStale, WindowPasses, Confirm, MayConfirm, Cancel, Settle,
         TypeInv, TypeOK
<1>. QED BY <1>1, <1>2, <1>3, NextSplit

\* A step that leaves a run alone leaves what it knows true.
LEMMA RunsStillKnow ==
  ASSUME TypeInv, ChargeInv, Next, RunsKnow, NEW T \in SUBSET Sweepers, \A t \in T : run'[t] = run[t]
  PROVE  \A t \in T :
            run'[t].at = "money" \/ (run'[t].at = "journal" /\ run'[t].failed)
                => booking'[run'[t].booking] = "FAILED"
<1> SUFFICES ASSUME NEW t \in T, run[t].at = "money" \/ (run[t].at = "journal" /\ run[t].failed)
             PROVE  booking'[run[t].booking] = "FAILED"
  OBVIOUS
<1>1. run[t].booking \in Bookings
  BY DEF TypeInv, RunsOK
<1>. QED BY <1>1, FailedStays DEF RunsKnow

\* The requests, but for the call itself.
LEMMA RequestStartsNoReturn ==
  ASSUME MaxFaults = 0, TypeInv, ChargeInv, ReturnInv, Next,
         NEW r \in Requests, RequestNext(r), ~CallSupplier(r)
  PROVE  NoReturnStarts
<1>t. TypeOK /\ Key(r) \in Bookings
  BY ConstantsOK DEF TypeInv, ConstantsOK, Key
<1>f. ~Fault
  BY DEF Fault, ReturnInv
<1>1. UNCHANGED <<faults, calls, run>>
  BY <1>f DEF RequestNext, Persist, Lookup, Claim, Authorize, ReleaseUnauthorized, Prepare, MarkSending,
         Recheck, Acknowledge, Reject, MarkUnknown, Retain, ReturnMoney, ReturnHold, Crash, supplierVars
<1>2. RunsKnow'
  BY <1>1, RunsStillKnow DEF ReturnInv, RunsKnow
<1>3. \A q \in Requests : q # r => at'[q] = at[q]
  BY <1>t DEF RequestNext, Persist, Lookup, Claim, Authorize, ReleaseUnauthorized, Prepare, MarkSending,
         Recheck, Acknowledge, Reject, MarkUnknown, Retain, ReturnMoney, ReturnHold, Crash, Go, Done, TypeOK
<1>4. /\ at'[r] # "recheck"
      /\ at'[r] \in Returning \cup {"acknowledge"} => at[r] = "reject" /\ at'[r] = "returnMoney"
  BY <1>t, <1>f DEF RequestNext, Persist, Lookup, Claim, Authorize, ReleaseUnauthorized, Prepare,
         MarkSending,
         Recheck, Acknowledge, Reject, MarkUnknown, Retain, ReturnMoney, ReturnHold, Crash, Go, Done,
         TypeOK,
         Returning, ReturnInv
<1>5. \A b \in Bookings : Charged(b)' => Charged(b)
  BY RequestKeepsBooks, <1>t DEF BooksKept, Charged, Has, Settlement
<1>6. \A b \in Bookings : journal'[b] = "ACKNOWLEDGED" => journal[b] = "ACKNOWLEDGED" \/
                              \E q \in Requests : Key(q) = b /\ at[q] = "acknowledge"
  <2>1. CASE Acknowledge(r)
    BY <2>1, <1>t DEF Acknowledge, TypeOK
  <2>2. CASE Prepare(r) \/ MarkSending(r) \/ Reject(r) \/ MarkUnknown(r)
    BY <2>2, <1>t DEF Prepare, MarkSending, Reject, MarkUnknown, TypeOK
  <2>3. CASE UNCHANGED journal
    BY <2>3
  <2>4. Acknowledge(r) \/ Prepare(r) \/ MarkSending(r) \/ Reject(r) \/ MarkUnknown(r) \/ UNCHANGED journal
    BY DEF RequestNext, Persist, Lookup, Claim, Authorize, ReleaseUnauthorized, Recheck, Retain,
           ReturnMoney, ReturnHold, Crash
  <2>. QED BY <2>1, <2>2, <2>3, <2>4
<1>7. \A b \in Bookings : Has(b, "release")' => Has(b, "release") \/ ~Charged(b)
  <2>1. CASE ReturnMoney(r)
    <3>1. ~Charged(Key(r))
      BY <2>1 DEF ReturnMoney, ReturnInv, Returning
    <3>. QED BY <2>1, <3>1 DEF ReturnMoney, Returned, Has
  <2>2. CASE Authorize(r)
    BY <2>2 DEF Authorize, Has
  <2>3. ReturnMoney(r) \/ Authorize(r) \/ UNCHANGED ledger
    BY DEF RequestNext, Persist, Lookup, Claim, ReleaseUnauthorized, Prepare, MarkSending, Recheck,
           CallSupplier, Acknowledge, Reject, MarkUnknown, Retain, ReturnHold, Crash, moneyVars
  <2>. QED BY <2>1, <2>2, <2>3 DEF Has
<1>. QED BY <1>1, <1>2, <1>3, <1>4, <1>5, <1>6, <1>7, <1>t DEF NoReturnStarts, ReturnInv

\* The call decides who may return: nobody was answered before it.
LEMMA CallKeepsReturns ==
  ASSUME TypeInv, CallInv, ChargeInv, ReturnInv, Next, NEW r \in Requests, CallSupplier(r)
  PROVE  ReturnInv'
<1>t. TypeOK /\ \A q \in Requests : Key(q) \in Bookings /\ Key(q)' = Key(q)
  BY ConstantsOK DEF TypeInv, ConstantsOK, Key
<1>1. /\ UNCHANGED <<journal, ledger, run, faults>>
      /\ \A b \in Bookings : calls'[b] = IF b = Key(r) THEN calls[b] + 1 ELSE calls[b]
      /\ at'[r] \in {"acknowledge", "reject", "doubt"}
      /\ \A q \in Requests : q # r => at'[q] = at[q]
  BY <1>t DEF CallSupplier, Go, TypeOK, moneyVars
<1>2. calls[Key(r)] = 0
  BY DEF CallSupplier, CallInv
<1>3. /\ journal[Key(r)] # "ACKNOWLEDGED" /\ ~Charged(Key(r))
      /\ \A q \in Requests : Key(q) = Key(r) => at[q] \notin Returning \cup {"acknowledge"}
  BY <1>2, <1>t DEF ReturnInv
<1>4. RunsKnow'
  BY <1>1, RunsStillKnow DEF ReturnInv, RunsKnow
<1>5. \A b \in Bookings : Charged(b)' = Charged(b) /\ Has(b, "release")' = Has(b, "release")
  BY <1>1 DEF Charged, Has
<1>6. \A b \in Bookings : calls[b] # 0 => calls'[b] # 0
  BY <1>1, <1>2
<1>7. calls'[Key(r)] # 0
  BY <1>1, <1>2, <1>t
<1>8. \A q \in Requests : at'[q] \in Returning \cup {"acknowledge"} => calls'[Key(q)] # 0
  BY <1>1, <1>6, <1>7, <1>t DEF ReturnInv
<1>9. \A b \in Bookings : journal'[b] = "ACKNOWLEDGED" \/ Charged(b)' => calls'[b] # 0
  BY <1>1, <1>5, <1>6 DEF ReturnInv
<1>10. \A q \in Requests : at'[q] \in Returning =>
            /\ journal'[Key(q)] # "ACKNOWLEDGED"
            /\ ~Charged(Key(q))'
            /\ \A p \in Requests : Key(p) = Key(q) => at'[p] # "acknowledge"
  <2> SUFFICES ASSUME NEW q \in Requests, at'[q] \in Returning
               PROVE  /\ journal'[Key(q)] # "ACKNOWLEDGED"
                      /\ ~Charged(Key(q))'
                      /\ \A p \in Requests : Key(p) = Key(q) => at'[p] # "acknowledge"
    OBVIOUS
  <2>c. Charged(Key(q))' = Charged(Key(q))
    BY <1>1 DEF Charged, Has, Key
  <2>1. CASE q = r
    BY <2>1, <2>c, <1>1, <1>3 DEF Returning
  <2>2. CASE q # r
    <3>1. at[q] \in Returning
      BY <2>2, <1>1
    <3>2. Key(q) # Key(r)
      BY <3>1, <1>3
    <3>. QED BY <3>1, <3>2, <2>c, <1>1 DEF ReturnInv
  <2>. QED BY <2>1, <2>2
<1>11. ReturnedOrSettled'
  BY <1>5 DEF ReturnInv, ReturnedOrSettled
<1>12. faults' = 0 /\ \A q \in Requests : at'[q] # "recheck"
  BY <1>1 DEF ReturnInv
<1>. QED BY <1>t, <1>4, <1>8, <1>9, <1>10, <1>11, <1>12 DEF ReturnInv, Key, Charged, Has

\* Recovery returns for failed bookings only.
LEMMA RunStartsNoReturn ==
  ASSUME MaxFaults = 0, TypeInv, ChargeInv, ReturnInv, Next, NEW s \in Sweepers, RunNext(s)
  PROVE  NoReturnStarts
<1>t. TypeOK /\ run[s] \in Runs
  BY DEF TypeInv, TypeOK
<1>w. ASSUME run[s].at \notin {"idle", "booking"} PROVE run[s].booking \in Bookings
  BY <1>w DEF TypeInv, RunsOK
<1>f. ~RunBreaks(s)
  BY DEF RunBreaks, Fault, ReturnInv
<1>1. UNCHANGED <<faults, calls, at>>
  BY <1>f DEF RunNext, RunList, RunPick, RunBooking, RunJournal, RunMark, RunFail, RunMoney, RunHold,
         RunResolve, supplierVars, requestVars
<1>2. \A b \in Bookings : Charged(b)' => Charged(b)
  BY RunKeepsBooks DEF BooksKept, Charged, Has, Settlement
<1>3. \A b \in Bookings : journal'[b] = "ACKNOWLEDGED" => journal[b] = "ACKNOWLEDGED"
  <2>1. CASE RunMark(s)
    BY <2>1, <1>t, <1>w DEF RunMark, TypeOK
  <2>2. CASE RunResolve(s)
    <3>1. Verdict(run[s].journal) # "ACKNOWLEDGED"
      BY <2>2 DEF RunResolve, Verdict, TypeInv, RunsOK
    <3>. QED BY <2>2, <1>t, <1>w, <3>1 DEF RunResolve, TypeOK
  <2>3. RunMark(s) \/ RunResolve(s) \/ UNCHANGED journal
    BY DEF RunNext, RunList, RunPick, RunBooking, RunJournal, RunFail, RunMoney, RunHold, RunBreaks
  <2>. QED BY <2>1, <2>2, <2>3
<1>4. \A b \in Bookings : Has(b, "release")' => Has(b, "release") \/ ~Charged(b)
  <2>1. CASE RunMoney(s)
    <3>1. run[s].booking \in Bookings /\ booking[run[s].booking] = "FAILED"
      BY <2>1, <1>w DEF RunMoney, ReturnInv, RunsKnow
    <3>2. ~Charged(run[s].booking)
      BY <3>1 DEF ChargeInv, ChargeHasItsRooms
    <3>. QED BY <2>1, <3>2 DEF RunMoney, Returned, Has
  <2>2. RunMoney(s) \/ UNCHANGED ledger
    BY DEF RunNext, RunList, RunPick, RunBooking, RunJournal, RunMark, RunFail, RunHold, RunResolve,
           RunBreaks, moneyVars
  <2>. QED BY <2>1, <2>2 DEF Has
<1>5. RunsKnow'
  <2>1. \A t \in Sweepers \ {s} : run'[t] = run[t]
    BY <1>t, <1>f DEF RunNext, RunList, RunPick, RunBooking, RunJournal, RunMark, RunFail, RunMoney,
           RunHold,
           RunResolve, RunEnds, RunTo, TypeOK
  <2>2. run'[s].at = "money" \/ (run'[s].at = "journal" /\ run'[s].failed)
            => booking'[run'[s].booking] = "FAILED"
    <3>0. CASE run'[s].at = "idle" \/ run'[s].at \notin {"money", "journal"}
      BY <3>0
    <3>1. CASE RunEnds(s)
      <4>1. run'[s] = [Idle EXCEPT !.todo = run[s].todo]
        BY <3>1, <1>t DEF RunEnds, TypeOK
      <4>2. run'[s].at = "idle"
        BY <4>1 DEF Idle
      <4>. QED BY <4>2, <3>0
    <3>2. CASE RunList(s)
      <4>1. run'[s] = [run[s] EXCEPT !.todo = Oldest]
        BY <3>2, <1>t DEF RunList, TypeOK
      <4>2. run'[s].at = "idle"
        BY <3>2, <1>t, <4>1 DEF RunList, Idle, Runs
      <4>. QED BY <4>2, <3>0
    <3>3. ASSUME NEW h \in Holds, RunPick(s, h)
          PROVE  run'[s].at = "booking"
      BY <3>3, <1>t DEF RunPick, TypeOK, Runs
    <3>4. ASSUME NEW b \in Bookings, RunBooking(s, b), ~RunEnds(s)
          PROVE  run'[s].at = "journal" /\ (run'[s].failed => booking'[run'[s].booking] = "FAILED")
      <4>1. run'[s] = [run[s] EXCEPT !.at = "journal", !.booking = b, !.failed = (booking[b] = "FAILED")]
        BY <3>4, <1>t DEF RunBooking, TypeOK
      <4>2. run'[s].at = "journal" /\ run'[s].booking = b /\ run'[s].failed = (booking[b] = "FAILED")
        BY <4>1, <1>t DEF Runs
      <4>. QED BY <3>4, <4>2 DEF RunBooking
    <3>5. CASE RunJournal(s) /\ ~RunEnds(s)
      <4> DEFINE b    == run[s].booking
                 next == Decision(journal[b], run[s].failed, b \in old)
      <4>1. run'[s] = [run[s] EXCEPT !.at = next, !.journal = journal[b]]
        BY <3>5, <1>t DEF RunJournal, TypeOK
      <4>2. run'[s].at = next /\ run'[s].booking = b
        BY <4>1, <1>t DEF Runs
      <4>3. next # "journal" /\ (next = "money" => run[s].failed)
        BY <1>t DEF Decision, Runs
      <4>4. run[s].at = "journal" /\ UNCHANGED booking
        BY <3>5 DEF RunJournal
      <4>. QED BY <4>2, <4>3, <4>4 DEF ReturnInv, RunsKnow
    <3>6. CASE RunFail(s) /\ ~RunEnds(s)
      <4>1. booking' = [booking EXCEPT ![run[s].booking] = "FAILED"] /\ RunTo(s, "money")
        BY <3>6 DEF RunFail
      <4>2. run'[s] = [run[s] EXCEPT !.at = "money"]
        BY <4>1, <1>t DEF RunTo, TypeOK
      <4>3. run'[s].booking = run[s].booking
        BY <4>2, <1>t DEF Runs
      <4>4. run[s].booking \in Bookings
        BY <3>6, <1>w DEF RunFail
      <4>. QED BY <4>1, <4>3, <4>4, <1>t DEF TypeOK
    <3>7. CASE (RunMoney(s) /\ RunTo(s, "hold")) \/ (RunHold(s) /\ RunTo(s, "resolve"))
      <4>1. run'[s].at \in {"hold", "resolve"}
        BY <3>7, <1>t DEF RunTo, TypeOK, Runs
      <4>. QED BY <4>1, <3>0
    <3>8. \/ RunEnds(s) \/ RunList(s) \/ (\E h \in Holds : RunPick(s, h))
          \/ (\E b \in Bookings : RunBooking(s, b)) \/ RunJournal(s) \/ RunFail(s)
          \/ (RunMoney(s) /\ RunTo(s, "hold")) \/ (RunHold(s) /\ RunTo(s, "resolve"))
      BY <1>f DEF RunNext, RunMark, RunMoney, RunHold, RunResolve
    <3>. QED BY <3>0, <3>1, <3>2, <3>3, <3>4, <3>5, <3>6, <3>7, <3>8
  <2>3. \A t \in Sweepers \ {s} :
            run'[t].at = "money" \/ (run'[t].at = "journal" /\ run'[t].failed)
                => booking'[run'[t].booking] = "FAILED"
    BY <2>1, RunsStillKnow DEF ReturnInv
  <2>. QED BY <2>2, <2>3 DEF RunsKnow
<1>. QED BY <1>1, <1>2, <1>3, <1>4, <1>5 DEF NoReturnStarts, ReturnInv

\* Confirmation needs an acknowledged row, and nobody is returning then.
LEMMA ConfirmKeepsReturns ==
  ASSUME TypeInv, ChargeInv, ReturnInv, Next, NEW b \in Bookings, Confirm(b)
  PROVE  ReturnInv'
<1>k. \A r \in Requests : Key(r) \in Bookings /\ Key(r)' = Key(r)
  BY ConstantsOK DEF ConstantsOK, Key
<1>1. /\ journal[b] = "ACKNOWLEDGED" /\ ~Has(b, "release")
      /\ ledger' = ledger \cup {<<b, "settle-release">>, <<b, "settle-debit">>}
      /\ UNCHANGED <<journal, calls, at, run, faults>>
  BY DEF Confirm, MayConfirm, supplierVars, requestVars
<1>2. \A c \in Bookings : /\ Charged(c)' <=> Charged(c) \/ c = b
                          /\ Has(c, "release")' <=> Has(c, "release")
  BY <1>1 DEF Charged, Has
<1>3. \A r \in Requests : at[r] \in Returning => Key(r) # b /\ ~Charged(Key(r))'
  <2> SUFFICES ASSUME NEW r \in Requests, at[r] \in Returning
               PROVE  Key(r) # b /\ ~Charged(Key(r))'
    OBVIOUS
  <2>1. Key(r) # b /\ ~Charged(Key(r))
    BY <1>1 DEF ReturnInv
  <2>. QED BY <1>1, <2>1 DEF Charged, Has, Key
<1>4. RunsKnow'
  BY <1>1, RunsStillKnow DEF ReturnInv, RunsKnow
<1>5. ReturnedOrSettled'
  BY <1>1, <1>2 DEF ReturnInv, ReturnedOrSettled
<1>6. \A c \in Bookings : journal'[c] = "ACKNOWLEDGED" \/ Charged(c)' => calls'[c] # 0
  BY <1>1, <1>2 DEF ReturnInv
<1>. QED BY <1>k, <1>1, <1>3, <1>4, <1>5, <1>6 DEF ReturnInv, Key, Charged, Has

\* As long as no database write fails, no settled reservation is returned, whatever requests of
\* one key, crashes and recovery runs do: the failing write of the late return is needed.
THEOREM ReturnedOnceWithoutFaults ==
  ASSUME MaxFaults = 0
  PROVE  Spec => []ReturnedOrSettled
<1>1. Init => ReturnInv
  BY DEF Init, ReturnInv, RunsKnow, ReturnedOrSettled, Charged, Has, Returning, Idle
<1>2. TypeInv /\ CallInv /\ ChargeInv /\ ReturnInv /\ [Next]_vars => ReturnInv'
  <2> SUFFICES ASSUME TypeInv, CallInv, ChargeInv, ReturnInv, [Next]_vars
               PROVE  ReturnInv'
    OBVIOUS
  <2>1. ASSUME Next, NEW r \in Requests, RequestNext(r) PROVE ReturnInv'
    BY <2>1, RequestStartsNoReturn, NoReturnStays, CallKeepsReturns
  <2>2. ASSUME Next, NEW s \in Sweepers, RunNext(s) PROVE ReturnInv'
    BY <2>2, RunStartsNoReturn, NoReturnStays
  <2>3. ASSUME Next, NEW b \in Bookings, Confirm(b) PROVE ReturnInv'
    BY <2>3, ConfirmKeepsReturns
  <2>4. CASE Next /\ UNCHANGED <<ledger, journal, calls, at, run, faults>>
    <3>1. RunsKnow'
      BY <2>4, RunsStillKnow DEF ReturnInv, RunsKnow
    <3>2. NoReturnStarts
      BY <2>4, <3>1 DEF NoReturnStarts, ReturnInv, Charged, Has
    <3>. QED BY <3>2, NoReturnStays
  <2>5. OtherNext => \/ \E b \in Bookings : Confirm(b)
                     \/ UNCHANGED <<ledger, journal, calls, at, run, faults>>
    BY DEF OtherNext, LetGo, FallDue, GoStale, WindowPasses, Cancel, Settle, moneyVars, supplierVars,
           requestVars
  <2>6. CASE UNCHANGED vars
    <3>1. NoReturnStarts
      BY <2>6 DEF vars, moneyVars, supplierVars, requestVars, NoReturnStarts, ReturnInv, RunsKnow,
             Charged, Has
    <3>. QED BY <3>1, NoReturnStays
  <2>. QED BY <2>1, <2>2, <2>3, <2>4, <2>5, <2>6, NextSplit
<1>3. ReturnInv => ReturnedOrSettled
  BY DEF ReturnInv
<1>. QED BY <1>1, <1>2, <1>3, TypeInvariance, CallInvariance, ChargeInvariance, PTL DEF Spec

\* As long as no database write fails, the booking flow implements BookingOutcome for any number
\* of keys, holds, concurrent requests, retries and recovery runs.
THEOREM OutcomeWithoutFaults ==
  ASSUME MaxFaults = 0
  PROVE  Spec => ImplementsBookingOutcome
<1>1. Spec => []ReturnedOrSettled
  BY ReturnedOnceWithoutFaults
<1>. QED BY <1>1, OutcomeRefinement, PTL

-----------------------------------------------------------------------------
(* One request per key, one key per hold and no repetition: then recovery   *)
(* touches a booking only when its request is over, what recovery read is    *)
(* still so when it acts, and an unobserved outcome keeps what it claimed.   *)

OneRequestEach ==
    /\ MaxTries = 1
    /\ \A b, c \in Bookings : HoldOf[b] = HoldOf[c] => b = c
    /\ \A q, r \in Requests : KeyOf[q] = KeyOf[r] => q = r

\* Only a request that was started claims its hold, and it is over when the hold is stale.
OverWhenStale(r) ==
    /\ at[r] # "idle" => tries[r] = 1
    /\ hold[HoldAt(r)] = "PROCESSING" => tries[r] = 1
    /\ HoldAt(r) \in stale => at[r] = "idle" /\ tries[r] = 1

\* A run works on stale holds and on the booking of the hold; once it has decided to fail or
\* return something, the row it read is not unobserved.
ActsOnObserved(s) ==
    /\ run[s].todo \subseteq stale
    /\ run[s].at # "idle" => run[s].hold \in stale
    /\ run[s].at \notin {"idle", "booking"} => HoldOf[run[s].booking] = run[s].hold
    /\ run[s].at \in {"fail", "money", "hold", "resolve"} => journal[run[s].booking] \notin Uncertain

StaleInv ==
    /\ \A r \in Requests : OverWhenStale(r)
    /\ \A s \in Sweepers : ActsOnObserved(s)

\* A request writes its own row, hold and entries, and stops for good before its hold is stale.
LEMMA RequestIsAlone ==
  ASSUME OneRequestEach, TypeInv, StaleInv, NEW r \in Requests, RequestNext(r)
  PROVE  /\ Key(r) \in Bookings /\ HoldAt(r) \in Holds /\ HoldAt(r) \notin stale
         /\ UNCHANGED <<stale, run>>
         /\ tries'[r] = 1
         /\ at[r] # "idle" => tries[r] = 1
         /\ \A q \in Requests : q # r => /\ at'[q] = at[q] /\ tries'[q] = tries[q]
                                         /\ Key(q) # Key(r) /\ HoldAt(q) # HoldAt(r)
         /\ \A b \in Bookings : b # Key(r) => journal'[b] = journal[b] /\ HoldOf[b] # HoldAt(r)
         /\ \A h \in Holds : h # HoldAt(r) => hold'[h] = hold[h]
<1>k. /\ \A q \in Requests : Key(q) \in Bookings /\ HoldAt(q) \in Holds /\ HoldAt(q) = HoldOf[Key(q)]
      /\ \A b \in Bookings : HoldOf[b] \in Holds
  BY ConstantsOK DEF ConstantsOK, Key, HoldAt
<1>t. TypeOK
  BY DEF TypeInv
<1>1. /\ \A b \in Bookings : b # Key(r) => HoldOf[b] # HoldAt(r)
      /\ \A q \in Requests : q # r => Key(q) # Key(r) /\ HoldAt(q) # HoldAt(r)
  BY <1>k DEF OneRequestEach, Key
<1>2. \/ Persist(r)
      \/ at[r] # "idle" /\ tries' = tries
  BY DEF RequestNext, Persist, Lookup, Claim, Authorize, ReleaseUnauthorized, Prepare, MarkSending,
         Recheck, CallSupplier, Acknowledge, Reject, MarkUnknown, Retain, ReturnMoney, ReturnHold, Crash, Go,
         Done
<1>3. /\ HoldAt(r) \notin stale
      /\ tries'[r] = 1
      /\ at[r] # "idle" => tries[r] = 1
      /\ \A q \in Requests : q # r => tries'[q] = tries[q]
  <2>1. CASE Persist(r)
    <3>1. /\ tries[r] < MaxTries /\ tries' = [tries EXCEPT ![r] = @ + 1] /\ at[r] = "idle"
      BY <2>1 DEF Persist
    <3>2. tries[r] = 0 /\ tries'[r] = 1 /\ \A q \in Requests : q # r => tries'[q] = tries[q]
      BY <1>t, <3>1 DEF TypeOK, OneRequestEach
    <3>. QED BY <3>1, <3>2 DEF StaleInv, OverWhenStale
  <2>2. CASE at[r] # "idle" /\ tries' = tries
    BY <2>2 DEF StaleInv, OverWhenStale
  <2>. QED BY <1>2, <2>1, <2>2
<1>4. \A q \in Requests : q # r => at'[q] = at[q]
  BY <1>t DEF RequestNext, Persist, Lookup, Claim, Authorize, ReleaseUnauthorized, Prepare, MarkSending,
         Recheck, CallSupplier, Acknowledge, Reject, MarkUnknown, Retain, ReturnMoney, ReturnHold, Crash, Go,
         Done, TypeOK
<1>5. UNCHANGED <<stale, run>>
  BY DEF RequestNext, Persist, Lookup, Claim, Authorize, ReleaseUnauthorized, Prepare, MarkSending,
         Recheck, CallSupplier, Acknowledge, Reject, MarkUnknown, Retain, ReturnMoney, ReturnHold, Crash,
         holdVars
<1>6. \A b \in Bookings : b # Key(r) => journal'[b] = journal[b]
  BY <1>t, <1>k DEF RequestNext, Persist, Lookup, Claim, Authorize, ReleaseUnauthorized, Prepare,
         MarkSending, Recheck, CallSupplier, Acknowledge, Reject, MarkUnknown, Retain, ReturnMoney,
         ReturnHold, Crash, TypeOK
<1>7. \A h \in Holds : h # HoldAt(r) => hold'[h] = hold[h]
  BY <1>t, <1>k DEF RequestNext, Persist, Lookup, Claim, Authorize, ReleaseUnauthorized, Prepare,
         MarkSending, Recheck, CallSupplier, Acknowledge, Reject, MarkUnknown, Retain, ReturnMoney,
         ReturnHold, Crash, Released, holdVars, TypeOK
<1>. QED BY <1>k, <1>1, <1>3, <1>4, <1>5, <1>6, <1>7

\* Hence what recovery relies on stays true.
LEMMA RequestKeepsStale ==
  ASSUME OneRequestEach, TypeInv, StaleInv, NEW r \in Requests, RequestNext(r)
  PROVE  StaleInv'
<1>1. /\ Key(r) \in Bookings /\ HoldAt(r) \in Holds /\ HoldAt(r) \notin stale
      /\ UNCHANGED <<stale, run>>
      /\ tries'[r] = 1
      /\ \A q \in Requests : q # r => /\ at'[q] = at[q] /\ tries'[q] = tries[q]
                                      /\ HoldAt(q) # HoldAt(r)
      /\ \A b \in Bookings : b # Key(r) => journal'[b] = journal[b]
      /\ \A h \in Holds : h # HoldAt(r) => hold'[h] = hold[h]
  BY RequestIsAlone
<1>k. \A q \in Requests : HoldAt(q) \in Holds /\ HoldAt(q)' = HoldAt(q) /\ HoldAt(q) = HoldOf[Key(q)]
  BY ConstantsOK DEF ConstantsOK, HoldAt, Key
<1>2. OverWhenStale(r)'
  BY <1>1, <1>k DEF OverWhenStale, HoldAt
<1>3. ASSUME NEW q \in Requests, q # r PROVE OverWhenStale(q)'
  <2>1. OverWhenStale(q) /\ hold'[HoldAt(q)] = hold[HoldAt(q)]
    BY <1>1, <1>3, <1>k DEF StaleInv
  <2>. QED BY <1>1, <1>3, <2>1 DEF OverWhenStale, HoldAt
<1>4. ASSUME NEW s \in Sweepers PROVE ActsOnObserved(s)'
  <2>1. ActsOnObserved(s) /\ (run[s].at \notin {"idle", "booking"} => run[s].booking \in Bookings)
    BY DEF StaleInv, TypeInv, RunsOK
  <2>2. run[s].at \in {"fail", "money", "hold", "resolve"} =>
            journal'[run[s].booking] = journal[run[s].booking]
    BY <1>1, <1>k, <2>1 DEF ActsOnObserved
  <2>. QED BY <1>1, <2>1, <2>2 DEF ActsOnObserved
<1>. QED BY <1>2, <1>3, <1>4 DEF StaleInv

\* A run leaves the requests alone and writes only rows, entries and holds of stale claims: it
\* returns nothing of an unobserved row, and no row becomes unobserved.
LEMMA RunWritesStale ==
  ASSUME OneRequestEach, TypeInv, StaleInv, NEW s \in Sweepers, RunNext(s)
  PROVE  /\ UNCHANGED <<at, tries, stale>>
         /\ \A t \in Sweepers : t # s => run'[t] = run[t]
         /\ \A b \in Bookings :
               \/ journal'[b] = journal[b]
               \/ HoldOf[b] \in stale /\ journal[b] = "SENDING" /\ journal'[b] = "UNKNOWN"
               \/ HoldOf[b] \in stale /\ journal[b] \notin Uncertain /\ journal'[b] \in Resolved
         /\ \A h \in Holds :
               \/ hold'[h] = hold[h]
               \/ /\ h \in stale /\ hold'[h] = "RELEASED"
                  /\ \A b \in Bookings : HoldOf[b] = h => journal[b] \notin Uncertain
         /\ \A b \in Bookings :
               \/ \A e \in Entries : Has(b, e)' = Has(b, e)
               \/ HoldOf[b] \in stale /\ journal[b] \notin Uncertain
<1>t. TypeOK
  BY DEF TypeInv
<1>w. ASSUME run[s].at \notin {"idle", "booking"}
      PROVE  /\ run[s].booking \in Bookings /\ HoldOf[run[s].booking] = run[s].hold
             /\ run[s].hold \in Holds /\ run[s].hold \in stale
  BY <1>w DEF TypeInv, RunsOK, StaleInv, ActsOnObserved
<1>o. run[s].at \in {"fail", "money", "hold", "resolve"} => journal[run[s].booking] \notin Uncertain
  BY DEF StaleInv, ActsOnObserved
<1>1. UNCHANGED <<at, tries, stale>>
  BY DEF RunNext, RunList, RunPick, RunBooking, RunJournal, RunMark, RunFail, RunMoney, RunHold,
         RunResolve, RunBreaks, holdVars, requestVars
<1>2. \A t \in Sweepers : t # s => run'[t] = run[t]
  BY <1>t DEF RunNext, RunList, RunPick, RunBooking, RunJournal, RunMark, RunFail, RunMoney, RunHold,
         RunResolve, RunBreaks, RunEnds, RunTo, TypeOK
<1>3. ASSUME NEW b \in Bookings
      PROVE  \/ journal'[b] = journal[b]
             \/ HoldOf[b] \in stale /\ journal[b] = "SENDING" /\ journal'[b] = "UNKNOWN"
             \/ HoldOf[b] \in stale /\ journal[b] \notin Uncertain /\ journal'[b] \in Resolved
  <2>1. CASE RunMark(s)
    BY <2>1, <1>t, <1>w DEF RunMark, TypeOK
  <2>2. CASE RunResolve(s)
    <3>1. Verdict(run[s].journal) \in Resolved
      BY <2>2 DEF RunResolve, Verdict, Resolved, TypeInv, RunsOK
    <3>. QED BY <2>2, <1>t, <1>w, <1>o, <3>1 DEF RunResolve, TypeOK
  <2>3. RunMark(s) \/ RunResolve(s) \/ UNCHANGED journal
    BY DEF RunNext, RunList, RunPick, RunBooking, RunJournal, RunFail, RunMoney, RunHold, RunBreaks
  <2>. QED BY <2>1, <2>2, <2>3
<1>4. ASSUME NEW h \in Holds
      PROVE  \/ hold'[h] = hold[h]
             \/ /\ h \in stale /\ hold'[h] = "RELEASED"
                /\ \A b \in Bookings : HoldOf[b] = h => journal[b] \notin Uncertain
  <2>1. CASE RunHold(s)
    <3>1. hold'[h] = hold[h] \/ (h = run[s].hold /\ hold'[h] = "RELEASED")
      BY <2>1, <1>t DEF RunHold, Released, TypeOK
    <3>2. /\ run[s].hold \in stale /\ run[s].booking \in Bookings
          /\ HoldOf[run[s].booking] = run[s].hold /\ journal[run[s].booking] \notin Uncertain
      BY <2>1, <1>w, <1>o DEF RunHold
    <3>3. \A b \in Bookings : HoldOf[b] = run[s].hold => b = run[s].booking
      BY <3>2 DEF OneRequestEach
    <3>. QED BY <3>1, <3>2, <3>3
  <2>2. RunHold(s) \/ UNCHANGED hold
    BY DEF RunNext, RunList, RunPick, RunBooking, RunJournal, RunMark, RunFail, RunMoney, RunResolve,
           RunBreaks, holdVars
  <2>. QED BY <2>1, <2>2
<1>5. ASSUME NEW b \in Bookings
      PROVE  \/ \A e \in Entries : Has(b, e)' = Has(b, e)
             \/ HoldOf[b] \in stale /\ journal[b] \notin Uncertain
  <2>1. CASE RunMoney(s) /\ b = run[s].booking
    BY <2>1, <1>w, <1>o DEF RunMoney
  <2>2. CASE RunMoney(s) /\ b # run[s].booking
    BY <2>2 DEF RunMoney, Returned, Has
  <2>3. RunMoney(s) \/ UNCHANGED ledger
    BY DEF RunNext, RunList, RunPick, RunBooking, RunJournal, RunMark, RunFail, RunHold, RunResolve,
           RunBreaks, moneyVars
  <2>. QED BY <2>1, <2>2, <2>3 DEF Has
<1>. QED BY <1>1, <1>2, <1>3, <1>4, <1>5

\* The run itself lists stale claims, takes the booking of the hold and goes on past its decision
\* only on a row that is not unobserved.
LEMMA RunStaysObserved ==
  ASSUME OneRequestEach, TypeInv, StaleInv, NEW s \in Sweepers, RunNext(s)
  PROVE  ActsOnObserved(s)'
<1>t. TypeOK /\ run[s] \in Runs
  BY DEF TypeInv, TypeOK
<1>i. /\ run[s].todo \subseteq stale
      /\ run[s].at # "idle" => run[s].hold \in stale
      /\ run[s].at \notin {"idle", "booking"} => HoldOf[run[s].booking] = run[s].hold
      /\ run[s].at \notin {"idle", "booking"} => run[s].booking \in Bookings
      /\ run[s].at \in {"fail", "money", "hold", "resolve"} => journal[run[s].booking] \notin Uncertain
  BY DEF StaleInv, ActsOnObserved, TypeInv, RunsOK
<1>s. UNCHANGED stale /\ \A b \in Bookings : journal[b] \notin Uncertain => journal'[b] \notin Uncertain
  <2>1. \A b \in Bookings :
               \/ journal'[b] = journal[b]
               \/ HoldOf[b] \in stale /\ journal[b] = "SENDING" /\ journal'[b] = "UNKNOWN"
               \/ HoldOf[b] \in stale /\ journal[b] \notin Uncertain /\ journal'[b] \in Resolved
    BY RunWritesStale
  <2>2. UNCHANGED stale
    BY RunWritesStale
  <2>. QED BY <2>1, <2>2 DEF Uncertain, Resolved
<1>1. CASE RunEnds(s) \/ run' = [run EXCEPT ![s] = Idle]
  <2>1. run'[s].at = "idle" /\ (run'[s].todo = run[s].todo \/ run'[s].todo = {})
    BY <1>1, <1>t DEF RunEnds, Idle, TypeOK
  <2>. QED BY <2>1, <1>i, <1>s DEF ActsOnObserved
<1>2. CASE RunList(s)
  <2>1. run'[s].at = "idle" /\ run'[s].todo = Oldest
    BY <1>2, <1>t DEF RunList, Idle, TypeOK, Runs
  <2>2. Oldest \subseteq stale
    BY DEF Oldest, StaleClaims
  <2>. QED BY <2>1, <2>2, <1>s DEF ActsOnObserved
<1>3. ASSUME NEW h \in Holds, RunPick(s, h) PROVE ActsOnObserved(s)'
  <2>1. run'[s].at = "booking" /\ run'[s].hold = h /\ run'[s].todo = run[s].todo \ {h} /\ h \in run[s].todo
    BY <1>3, <1>t DEF RunPick, TypeOK, Runs
  <2>. QED BY <2>1, <1>i, <1>s DEF ActsOnObserved
<1>4. ASSUME NEW b \in Bookings, RunBooking(s, b), ~RunEnds(s) PROVE ActsOnObserved(s)'
  <2>1. run' = [run EXCEPT ![s] = [run[s] EXCEPT !.at = "journal", !.booking = b,
                                                 !.failed = (booking[b] = "FAILED")]]
    BY <1>4 DEF RunBooking
  <2>2. /\ run'[s].at = "journal" /\ run'[s].booking = b
        /\ run'[s].hold = run[s].hold /\ run'[s].todo = run[s].todo
    BY <2>1, <1>t DEF TypeOK, Runs
  <2>3. run[s].hold \in stale /\ HoldOf[b] = run[s].hold
    BY <1>4, <1>i DEF RunBooking
  <2>. QED BY <2>2, <2>3, <1>i, <1>s DEF ActsOnObserved
<1>5. CASE RunJournal(s) /\ ~RunEnds(s)
  <2> DEFINE b    == run[s].booking
             next == Decision(journal[b], run[s].failed, b \in old)
  <2>1. run' = [run EXCEPT ![s] = [run[s] EXCEPT !.at = next, !.journal = journal[b]]]
    BY <1>5 DEF RunJournal
  <2>2. run'[s].at = next /\ run'[s].hold = run[s].hold /\ run'[s].todo = run[s].todo /\ run'[s].booking = b
    BY <2>1, <1>t DEF TypeOK, Runs
  <2>3. run[s].at = "journal" /\ journal' = journal
    BY <1>5 DEF RunJournal
  <2>4. next \in {"fail", "money", "hold", "resolve"} => journal[b] \notin Uncertain
    BY DEF Decision, Uncertain
  <2> HIDE DEF next
  <2>. QED BY <2>2, <2>3, <2>4, <1>i, <1>s DEF ActsOnObserved
<1>6. ASSUME NEW p \in {"money", "hold", "resolve"}, RunTo(s, p), run[s].at \in {"fail", "money", "hold"}
      PROVE  ActsOnObserved(s)'
  <2>1. /\ run'[s].at = p /\ run'[s].booking = run[s].booking
        /\ run'[s].hold = run[s].hold /\ run'[s].todo = run[s].todo
    BY <1>6, <1>t DEF RunTo, TypeOK, Runs
  <2>. QED BY <2>1, <1>6, <1>i, <1>s DEF ActsOnObserved
<1>7. \/ RunEnds(s) \/ run' = [run EXCEPT ![s] = Idle] \/ RunList(s)
      \/ \E h \in Holds : RunPick(s, h)
      \/ \E b \in Bookings : RunBooking(s, b)
      \/ RunJournal(s)
      \/ \E p \in {"money", "hold", "resolve"} : RunTo(s, p) /\ run[s].at \in {"fail", "money", "hold"}
  BY DEF RunNext, RunMark, RunFail, RunMoney, RunHold, RunResolve, RunBreaks
<1>. QED BY <1>1, <1>2, <1>3, <1>4, <1>5, <1>6, <1>7

\* So a run keeps what the other runs rely on, too.
LEMMA RunKeepsStale ==
  ASSUME OneRequestEach, TypeInv, StaleInv, NEW s \in Sweepers, RunNext(s)
  PROVE  StaleInv'
<1>k. \A q \in Requests : HoldAt(q) \in Holds /\ HoldAt(q)' = HoldAt(q)
  BY ConstantsOK DEF ConstantsOK, HoldAt
<1>1. /\ UNCHANGED <<at, tries, stale>>
      /\ \A t \in Sweepers : t # s => run'[t] = run[t]
      /\ \A b \in Bookings :
               \/ journal'[b] = journal[b]
               \/ HoldOf[b] \in stale /\ journal[b] = "SENDING" /\ journal'[b] = "UNKNOWN"
               \/ HoldOf[b] \in stale /\ journal[b] \notin Uncertain /\ journal'[b] \in Resolved
      /\ \A h \in Holds : hold'[h] = hold[h] \/ hold'[h] = "RELEASED"
  BY RunWritesStale
<1>2. \A b \in Bookings : journal[b] \notin Uncertain => journal'[b] \notin Uncertain
  BY <1>1 DEF Uncertain, Resolved
<1>3. ASSUME NEW r \in Requests PROVE OverWhenStale(r)'
  <2>1. OverWhenStale(r)
    BY DEF StaleInv
  <2>. QED BY <2>1, <1>1, <1>k DEF OverWhenStale, HoldAt
<1>4. ASSUME NEW t \in Sweepers, t # s PROVE ActsOnObserved(t)'
  <2>1. ActsOnObserved(t) /\ (run[t].at \notin {"idle", "booking"} => run[t].booking \in Bookings)
    BY DEF StaleInv, TypeInv, RunsOK
  <2>. QED BY <2>1, <1>1, <1>2, <1>4 DEF ActsOnObserved
<1>5. ActsOnObserved(s)'
  BY RunStaysObserved
<1>. QED BY <1>3, <1>4, <1>5 DEF StaleInv

\* Outside requests and runs a hold is only given up, or grows stale when its request is over.
LEMMA OtherKeepsStale ==
  ASSUME OneRequestEach, TypeInv, StaleInv, OtherNext
  PROVE  StaleInv'
<1>k. \A q \in Requests : HoldAt(q) \in Holds /\ HoldAt(q)' = HoldAt(q)
  BY ConstantsOK DEF ConstantsOK, HoldAt
<1>t. TypeOK
  BY DEF TypeInv
<1>1. UNCHANGED <<at, tries, run, journal>>
  BY DEF OtherNext, LetGo, FallDue, GoStale, WindowPasses, Confirm, Cancel, Settle, requestVars
<1>2. \A h \in Holds : hold'[h] = hold[h] \/ hold'[h] # "PROCESSING"
  BY <1>t DEF OtherNext, LetGo, FallDue, GoStale, WindowPasses, Confirm, Cancel, Settle, holdVars, TypeOK
<1>3. \/ UNCHANGED stale
      \/ \E h \in Holds : hold[h] = "PROCESSING" /\ Quiet(h) /\ stale' = stale \cup {h}
  BY DEF OtherNext, LetGo, FallDue, GoStale, WindowPasses, Confirm, Cancel, Settle, holdVars
<1>4. ASSUME NEW r \in Requests PROVE OverWhenStale(r)'
  <2>1. OverWhenStale(r)
    BY DEF StaleInv
  <2>2. HoldAt(r) \in stale' => at[r] = "idle" /\ tries[r] = 1
    BY <1>3, <2>1 DEF OverWhenStale, Quiet
  <2>. QED BY <2>1, <2>2, <1>1, <1>2, <1>k DEF OverWhenStale, HoldAt
<1>5. ASSUME NEW s \in Sweepers PROVE ActsOnObserved(s)'
  BY <1>1, <1>3 DEF StaleInv, ActsOnObserved
<1>. QED BY <1>4, <1>5 DEF StaleInv

\* Recovery always acts on what it observed, whatever writes fail.
LEMMA StaleInvariance ==
  ASSUME OneRequestEach
  PROVE  Spec => []StaleInv
<1>1. Init => StaleInv
  <2> SUFFICES ASSUME Init PROVE StaleInv
    OBVIOUS
  <2>k. \A q \in Requests : HoldAt(q) \in Holds
    BY ConstantsOK DEF ConstantsOK, HoldAt
  <2>1. \A r \in Requests : OverWhenStale(r)
    BY <2>k DEF Init, OverWhenStale
  <2>2. \A s \in Sweepers : ActsOnObserved(s)
    BY DEF Init, ActsOnObserved, Idle
  <2>. QED BY <2>1, <2>2 DEF StaleInv
<1>2. TypeInv /\ StaleInv /\ [Next]_vars => StaleInv'
  <2> SUFFICES ASSUME TypeInv, StaleInv, [Next]_vars
               PROVE  StaleInv'
    OBVIOUS
  <2>1. CASE UNCHANGED vars
    BY <2>1 DEF vars, holdVars, requestVars, StaleInv, OverWhenStale, ActsOnObserved, HoldAt
  <2>. QED BY <2>1, RequestKeepsStale, RunKeepsStale, OtherKeepsStale, NextSplit
<1>. QED BY <1>1, <1>2, TypeInvariance, PTL DEF Spec

\* No run and no request resolves a row whose outcome was not observed, for any number of
\* bookings, recovery runs and failing writes, when each key is tried once: what recovery read
\* and decided on is still so when it writes its verdict.
THEOREM UnobservedNotResolved ==
  ASSUME OneRequestEach
  PROVE  Spec => UnobservedIsNotResolved
<1>1. TypeInv /\ StaleInv /\ [Next]_vars
        => [\A b \in Bookings : journal[b] \in Uncertain => journal'[b] \notin Resolved]_vars
  <2> SUFFICES ASSUME TypeInv, StaleInv, Next, NEW b \in Bookings, journal[b] \in Uncertain
               PROVE  journal'[b] \notin Resolved
    OBVIOUS
  <2>t. TypeOK /\ \A r \in Requests : Key(r) \in Bookings
    BY ConstantsOK DEF TypeInv, ConstantsOK, Key
  <2>u. journal[b] \notin Resolved
    BY DEF Uncertain, Resolved
  <2>1. ASSUME NEW r \in Requests, RequestNext(r) PROVE journal'[b] \notin Resolved
    <3>1. \/ journal'[b] = journal[b]
          \/ journal'[b] \in {"PREPARED", "SENDING", "ACKNOWLEDGED", "REJECTED", "UNKNOWN"}
      BY <2>1, <2>t DEF RequestNext, Persist, Lookup, Claim, Authorize, ReleaseUnauthorized, Prepare,
             MarkSending, Recheck, CallSupplier, Acknowledge, Reject, MarkUnknown, Retain, ReturnMoney,
             ReturnHold, Crash, TypeOK
    <3>. QED BY <3>1, <2>u DEF Resolved
  <2>2. ASSUME NEW s \in Sweepers, RunNext(s) PROVE journal'[b] \notin Resolved
    <3>1. \/ journal'[b] = journal[b]
          \/ HoldOf[b] \in stale /\ journal[b] = "SENDING" /\ journal'[b] = "UNKNOWN"
          \/ HoldOf[b] \in stale /\ journal[b] \notin Uncertain /\ journal'[b] \in Resolved
      BY <2>2, RunWritesStale
    <3>. QED BY <3>1, <2>u DEF Resolved
  <2>3. CASE OtherNext
    BY <2>3, <2>u DEF OtherNext, LetGo, FallDue, GoStale, WindowPasses, Confirm, Cancel, Settle
  <2>. QED BY <2>1, <2>2, <2>3, NextSplit
<1>. QED BY <1>1, TypeInvariance, StaleInvariance, PTL DEF Spec, UnobservedIsNotResolved

\* Between its claim and the supplier's answer nobody gives a request's hold back, for any number
\* of bookings, recovery runs and failing writes, when each key is tried once.
THEOREM CheckoutKeepsItsClaim ==
  ASSUME OneRequestEach
  PROVE  Spec => ClaimOutlivesCheckout
<1>1. TypeInv /\ ChargeInv /\ StaleInv /\ [Next]_vars
        => [\A r \in Requests :
              InCheckout(r) /\ hold[HoldAt(r)] = "PROCESSING"
                => hold'[HoldAt(r)] \in {"PROCESSING", "CONFIRMED"}]_vars
  <2> SUFFICES ASSUME TypeInv, ChargeInv, StaleInv, Next, NEW r \in Requests, InCheckout(r),
                      hold[HoldAt(r)] = "PROCESSING"
               PROVE  hold'[HoldAt(r)] \in {"PROCESSING", "CONFIRMED"}
    OBVIOUS
  <2>k. TypeOK /\ HoldAt(r) \in Holds
    BY ConstantsOK DEF TypeInv, ConstantsOK, HoldAt
  <2>i. at[r] \in {"authorize", "prepare", "send", "call", "acknowledge"} /\ HoldAt(r) \notin stale
    BY DEF InCheckout, StaleInv, OverWhenStale
  <2>1. ASSUME NEW q \in Requests, RequestNext(q), q # r PROVE hold'[HoldAt(r)] = hold[HoldAt(r)]
    <3>1. HoldAt(r) # HoldAt(q)
      BY <2>1, RequestIsAlone
    <3>. QED BY <2>1, <2>k, <3>1, RequestIsAlone
  <2>2. CASE RequestNext(r)
    BY <2>2, <2>k, <2>i DEF RequestNext, Persist, Lookup, Claim, Authorize, ReleaseUnauthorized,
           Prepare, MarkSending, Recheck, CallSupplier, Acknowledge, Reject, MarkUnknown, Retain,
           ReturnMoney, ReturnHold, Crash, holdVars
  <2>3. ASSUME NEW s \in Sweepers, RunNext(s) PROVE hold'[HoldAt(r)] = hold[HoldAt(r)]
    <3>1. hold'[HoldAt(r)] = hold[HoldAt(r)] \/ HoldAt(r) \in stale
      BY <2>3, <2>k, RunWritesStale
    <3>. QED BY <3>1, <2>i
  <2>4. ASSUME NEW b \in Bookings, NEW n \in 0..Price, Cancel(b, n)
        PROVE  hold'[HoldAt(r)] = hold[HoldAt(r)]
    <3>1. hold[HoldOf[b]] = "CONFIRMED"
      BY <2>4 DEF Cancel, ChargeInv, ChargeHasItsRooms
    <3>. QED BY <2>4, <2>k, <3>1 DEF Cancel, TypeOK
  <2>5. CASE OtherNext
    <3>1. \/ \E b \in Bookings, n \in 0..Price : Cancel(b, n)
          \/ \E h \in Holds, w \in {"EXPIRED", "RELEASED"} :
                hold[h] = "HELD" /\ hold' = [hold EXCEPT ![h] = w]
          \/ \E b \in Bookings : hold' = [hold EXCEPT ![HoldOf[b]] = "CONFIRMED"]
          \/ UNCHANGED hold
      BY <2>5 DEF OtherNext, LetGo, FallDue, GoStale, WindowPasses, Confirm, Settle, holdVars
    <3>. QED BY <3>1, <2>4, <2>k DEF TypeOK
  <2>. QED BY <2>1, <2>2, <2>3, <2>5, NextSplit
<1>. QED BY <1>1, TypeInvariance, ChargeInvariance, StaleInvariance, PTL DEF Spec, ClaimOutlivesCheckout

-----------------------------------------------------------------------------
(* Where a request is says what its row, its hold and its entries are, as    *)
(* long as no write fails: it sends with the hold claimed and the money      *)
(* reserved, and it returns them only when the row is not unobserved.        *)

Early(r) == tries[r] = 0 \/ at[r] \in {"lookup", "claim", "authorize", "unauthorized", "prepare"}

PlaceOK(r) ==
    /\ Early(r) => /\ journal[Key(r)] = "NONE"
                   /\ ~Has(Key(r), "release") /\ ~Has(Key(r), "settle-release")
    /\ at[r] \in {"authorize", "prepare", "send"} => hold[HoldAt(r)] = "PROCESSING"
    /\ at[r] \in {"prepare", "send"} => Reserved(Key(r))
    /\ at[r] = "send" => journal[Key(r)] = "PREPARED"
    /\ at[r] \in {"call", "acknowledge", "reject", "doubt"} => journal[Key(r)] = "SENDING"
    /\ at[r] \in {"returnMoney", "returnHold"} => journal[Key(r)] \notin Uncertain
    /\ at[r] \notin {"recheck", "markUnknown"}

KeepsClaims(b) == journal[b] \in Uncertain => hold[HoldOf[b]] = "PROCESSING" /\ Reserved(b)

KeepInv == (\A r \in Requests : PlaceOK(r)) /\ (\A b \in Bookings : KeepsClaims(b))

\* What a step leaves alone: a request whose place, row, hold and entries stay.
LEMMA PlaceStays ==
  ASSUME NEW r \in Requests, PlaceOK(r), at'[r] = at[r], tries'[r] = tries[r],
         journal'[Key(r)] = journal[Key(r)], hold'[HoldAt(r)] = hold[HoldAt(r)],
         \A e \in Entries : Has(Key(r), e)' = Has(Key(r), e)
  PROVE  PlaceOK(r)'
<1>1. /\ Has(Key(r), "release")' = Has(Key(r), "release")
      /\ Has(Key(r), "settle-release")' = Has(Key(r), "settle-release")
      /\ Has(Key(r), "hold")' = Has(Key(r), "hold")
  BY DEF Entries
<1>2. Reserved(Key(r))' = Reserved(Key(r))
  BY <1>1 DEF Reserved
<1>3. Early(r)' = Early(r)
  BY DEF Early
<1>. QED BY <1>1, <1>2, <1>3 DEF PlaceOK, Key, HoldAt

\* And a booking whose row, hold and entries stay.
LEMMA ClaimsStay ==
  ASSUME NEW b \in Bookings, KeepsClaims(b), journal'[b] = journal[b],
         hold'[HoldOf[b]] = hold[HoldOf[b]], \A e \in Entries : Has(b, e)' = Has(b, e)
  PROVE  KeepsClaims(b)'
  BY DEF KeepsClaims, Reserved, Entries

\* The request's own step.
LEMMA PlaceMoves ==
  ASSUME OneRequestEach, MaxFaults = 0, TypeInv, StaleInv, KeepInv, NEW r \in Requests, RequestNext(r)
  PROVE  PlaceOK(r)' /\ KeepsClaims(Key(r))'
<1>t. /\ TypeOK /\ Key(r) \in Bookings /\ HoldAt(r) \in Holds /\ HoldAt(r) = HoldOf[Key(r)]
      /\ tries'[r] = 1 /\ (at[r] # "idle" => tries[r] = 1) /\ tries[r] \in 0..1
  <2>1. TypeOK /\ HoldAt(r) = HoldOf[Key(r)] /\ tries[r] \in 0..1
    BY DEF TypeInv, TypeOK, HoldAt, Key, OneRequestEach
  <2>. QED BY <2>1, RequestIsAlone
<1>f. ~Fault
  BY <1>t DEF Fault, TypeOK
<1>p. PlaceOK(r) /\ KeepsClaims(Key(r))
  BY <1>t DEF KeepInv
<1> DEFINE b == Key(r)
           h == HoldAt(r)
<1>g. ASSUME at'[r] \in {"lookup", "claim", "authorize", "unauthorized", "prepare"} =>
                /\ journal'[b] = "NONE"
                /\ ~Has(b, "release")' /\ ~Has(b, "settle-release")',
             at'[r] \in {"authorize", "prepare", "send"} => hold'[h] = "PROCESSING",
             at'[r] \in {"prepare", "send"} => Reserved(b)',
             at'[r] = "send" => journal'[b] = "PREPARED",
             at'[r] \in {"call", "acknowledge", "reject", "doubt"} => journal'[b] = "SENDING",
             at'[r] \in {"returnMoney", "returnHold"} => journal'[b] \notin Uncertain,
             at'[r] \notin {"recheck", "markUnknown"},
             journal'[b] \in Uncertain => hold'[h] = "PROCESSING" /\ Reserved(b)'
      PROVE  PlaceOK(r)' /\ KeepsClaims(Key(r))'
  BY <1>g, <1>t DEF PlaceOK, KeepsClaims, Early, HoldAt, Key
<1>1. CASE Persist(r) \/ Lookup(r)
  <2>1. at'[r] \in {"lookup", "claim", "idle"} /\ Early(r) /\ UNCHANGED <<journal, ledger, hold>>
    BY <1>1, <1>t DEF Persist, Lookup, Go, Done, TypeOK, moneyVars, holdVars, Early, OneRequestEach
  <2>. QED BY <2>1, <1>p, <1>g DEF PlaceOK, KeepsClaims, Reserved, Has
<1>2. CASE Claim(r)
  <2>1. /\ at[r] = "claim" /\ UNCHANGED <<journal, ledger>>
        /\ \/ at'[r] = "authorize" /\ hold'[h] = "PROCESSING"
           \/ at'[r] = "idle" /\ UNCHANGED hold
    BY <1>2, <1>t DEF Claim, Go, Done, TypeOK, moneyVars
  <2>. QED BY <2>1, <1>p, <1>g DEF PlaceOK, KeepsClaims, Early, Reserved, Has, Uncertain
<1>3. CASE Authorize(r)
  <2>1. /\ at[r] = "authorize" /\ UNCHANGED <<journal, hold>>
        /\ \/ /\ at'[r] = "prepare" /\ Has(b, "hold")'
              /\ ledger' = ledger \/ ledger' = ledger \cup {<<b, "hold">>}
           \/ at'[r] = "unauthorized" /\ ledger' = ledger
    BY <1>3, <1>t, <1>f DEF Authorize, Go, TypeOK, holdVars, Has
  <2>2. Has(b, "release")' = Has(b, "release") /\ Has(b, "settle-release")' = Has(b, "settle-release")
    BY <2>1 DEF Has
  <2>3. journal'[b] = "NONE" /\ ~Has(b, "release")' /\ ~Has(b, "settle-release")' /\ hold'[h] = "PROCESSING"
    BY <2>1, <2>2, <1>p DEF PlaceOK, Early
  <2>4. at'[r] = "prepare" => Reserved(b)'
    BY <2>1, <2>3 DEF Reserved
  <2>. QED BY <2>1, <2>3, <2>4, <1>g DEF Uncertain
<1>4. CASE ReleaseUnauthorized(r)
  <2>1. at[r] = "unauthorized" /\ at'[r] = "idle" /\ UNCHANGED journal
    BY <1>4, <1>t DEF ReleaseUnauthorized, Go, Done, TypeOK
  <2>2. journal'[b] = "NONE"
    BY <2>1, <1>p DEF PlaceOK, Early
  <2>. QED BY <2>1, <2>2, <1>g DEF Uncertain
<1>5. CASE Prepare(r)
  <2>1. at[r] = "prepare" /\ UNCHANGED <<hold, ledger>>
    BY <1>5 DEF Prepare, holdVars, moneyVars
  <2>2. journal[b] = "NONE" /\ hold[h] = "PROCESSING" /\ Reserved(b)
    BY <2>1, <1>p DEF PlaceOK, Early
  <2>3. at'[r] = "send" /\ journal'[b] = "PREPARED"
    BY <1>5, <1>t, <1>f, <2>2 DEF Prepare, Go, TypeOK
  <2>4. Reserved(b)'
    BY <2>1, <2>2 DEF Reserved, Has
  <2>. QED BY <2>1, <2>2, <2>3, <2>4, <1>g DEF Uncertain
<1>6. CASE MarkSending(r)
  <2>1. at[r] = "send" /\ UNCHANGED <<hold, ledger>>
    BY <1>6 DEF MarkSending, holdVars, moneyVars
  <2>2. journal[b] = "PREPARED" /\ hold[h] = "PROCESSING" /\ Reserved(b)
    BY <2>1, <1>p DEF PlaceOK
  <2>3. at'[r] = "call" /\ journal'[b] = "SENDING"
    BY <1>6, <1>t, <1>f, <2>2 DEF MarkSending, MayCall, Go, TypeOK
  <2>4. Reserved(b)'
    BY <2>1, <2>2 DEF Reserved, Has
  <2>. QED BY <2>1, <2>2, <2>3, <2>4, <1>g
<1>7. CASE CallSupplier(r)
  <2>1. /\ at[r] = "call" /\ at'[r] \in {"acknowledge", "reject", "doubt"}
        /\ UNCHANGED <<journal, hold, ledger>>
    BY <1>7, <1>t DEF CallSupplier, Go, TypeOK, holdVars, moneyVars
  <2>2. journal'[b] = "SENDING" /\ journal[b] \in Uncertain
    BY <2>1, <1>p DEF PlaceOK, Uncertain
  <2>3. hold'[h] = "PROCESSING" /\ Reserved(b)'
    BY <2>1, <2>2, <1>t, <1>p DEF KeepsClaims, Reserved, Has
  <2>. QED BY <2>1, <2>2, <2>3, <1>g
<1>8. CASE Acknowledge(r)
  <2>1. at[r] = "acknowledge"
    BY <1>8 DEF Acknowledge
  <2>2. journal[b] \in Uncertain
    BY <2>1, <1>p DEF PlaceOK, Uncertain
  <2>3. at'[r] = "retainPrebook" /\ journal'[b] = "ACKNOWLEDGED"
    BY <1>8, <1>t, <1>f, <2>2 DEF Acknowledge, Go, TypeOK
  <2>. QED BY <2>3, <1>g DEF Uncertain
<1>9. CASE Reject(r)
  <2>1. at[r] = "reject"
    BY <1>9 DEF Reject
  <2>2. journal[b] = "SENDING"
    BY <2>1, <1>p DEF PlaceOK
  <2>3. at'[r] = "returnMoney" /\ journal'[b] = "REJECTED"
    BY <1>9, <1>t, <1>f, <2>2 DEF Reject, Go, TypeOK
  <2>. QED BY <2>3, <1>g DEF Uncertain
<1>10. CASE MarkUnknown(r)
  <2>1. at[r] = "doubt" /\ UNCHANGED <<hold, ledger>>
    BY <1>10, <1>p DEF MarkUnknown, PlaceOK, holdVars, moneyVars
  <2>2. journal[b] \in Uncertain
    BY <2>1, <1>p DEF PlaceOK, Uncertain
  <2>3. at'[r] = "retainUnknown"
    BY <1>10, <1>t, <2>1 DEF MarkUnknown, Go, TypeOK
  <2>4. hold'[h] = "PROCESSING" /\ Reserved(b)'
    BY <2>1, <2>2, <1>t, <1>p DEF KeepsClaims, Reserved, Has
  <2>. QED BY <2>3, <2>4, <1>g
<1>11. CASE Retain(r) \/ Crash(r)
  <2>1. at'[r] = "idle" /\ UNCHANGED <<journal, hold, ledger>>
    BY <1>11, <1>t DEF Retain, Crash, Go, Done, TypeOK, holdVars, moneyVars
  <2>. QED BY <2>1, <1>t, <1>p, <1>g DEF KeepsClaims, Reserved, Has
<1>12. CASE ReturnMoney(r) \/ ReturnHold(r)
  <2>1. /\ at[r] \in {"returnMoney", "returnHold"} /\ at'[r] \in {"returnHold", "idle"}
        /\ UNCHANGED journal
    BY <1>12, <1>t DEF ReturnMoney, ReturnHold, Go, Done, TypeOK
  <2>. QED BY <2>1, <1>p, <1>g DEF PlaceOK
<1>13. ~Recheck(r)
  BY <1>p DEF PlaceOK, Recheck
<1>. QED BY <1>1, <1>2, <1>3, <1>4, <1>5, <1>6, <1>7, <1>8, <1>9, <1>10, <1>11, <1>12, <1>13
       DEF RequestNext

\* One request moves; the others, their rows, holds and entries stay.
LEMMA RequestKeepsClaims ==
  ASSUME OneRequestEach, MaxFaults = 0, TypeInv, StaleInv, KeepInv, NEW r \in Requests, RequestNext(r)
  PROVE  KeepInv'
<1>k. /\ \A q \in Requests : Key(q) \in Bookings /\ HoldAt(q) \in Holds
      /\ \A b \in Bookings : HoldOf[b] \in Holds
  BY ConstantsOK DEF ConstantsOK, Key, HoldAt
<1>1. /\ \A q \in Requests : q # r => /\ at'[q] = at[q] /\ tries'[q] = tries[q]
                                      /\ Key(q) # Key(r) /\ HoldAt(q) # HoldAt(r)
      /\ \A b \in Bookings : b # Key(r) => journal'[b] = journal[b] /\ HoldOf[b] # HoldAt(r)
      /\ \A h \in Holds : h # HoldAt(r) => hold'[h] = hold[h]
  BY RequestIsAlone
<1>2. \A b \in Bookings : b # Key(r) => \A e \in Entries : Has(b, e)' = Has(b, e)
  BY DEF RequestNext, Persist, Lookup, Claim, Authorize, ReleaseUnauthorized, Prepare, MarkSending,
         Recheck, CallSupplier, Acknowledge, Reject, MarkUnknown, Retain, ReturnMoney, ReturnHold, Crash,
         Returned, moneyVars, Has
<1>3. PlaceOK(r)' /\ KeepsClaims(Key(r))'
  BY PlaceMoves
<1>4. ASSUME NEW q \in Requests, q # r PROVE PlaceOK(q)'
  <2>1. Key(q) \in Bookings /\ Key(q) # Key(r) /\ HoldAt(q) \in Holds /\ HoldAt(q) # HoldAt(r)
    BY <1>k, <1>1, <1>4
  <2>2. \A e \in Entries : Has(Key(q), e)' = Has(Key(q), e)
    BY <2>1, <1>2 DEF Has, Key
  <2>. QED BY <2>1, <2>2, <1>1, <1>4, PlaceStays DEF KeepInv
<1>5. ASSUME NEW b \in Bookings, b # Key(r) PROVE KeepsClaims(b)'
  BY <1>k, <1>1, <1>2, <1>5, ClaimsStay DEF KeepInv
<1>6. \A b \in Bookings : b = Key(r) => KeepsClaims(b)'
  BY <1>3 DEF KeepsClaims, Reserved, Has, Key
<1>. QED BY <1>3, <1>4, <1>5, <1>6 DEF KeepInv

\* A request that is over holds no opinion.
LEMMA OverIsOK ==
  ASSUME NEW r \in Requests, at'[r] = "idle", tries'[r] = 1
  PROVE  PlaceOK(r)'
  BY DEF PlaceOK, Early

\* Recovery acts where the request is over, and returns nothing of an unobserved row.
LEMMA RunKeepsClaims ==
  ASSUME OneRequestEach, TypeInv, StaleInv, KeepInv, NEW s \in Sweepers, RunNext(s)
  PROVE  KeepInv'
<1>k. /\ \A q \in Requests : Key(q) \in Bookings /\ HoldAt(q) \in Holds /\ HoldAt(q) = HoldOf[Key(q)]
      /\ \A b \in Bookings : HoldOf[b] \in Holds
  BY ConstantsOK DEF ConstantsOK, Key, HoldAt
<1>1. /\ UNCHANGED <<at, tries, stale>>
      /\ \A b \in Bookings :
               \/ journal'[b] = journal[b]
               \/ HoldOf[b] \in stale /\ journal[b] = "SENDING" /\ journal'[b] = "UNKNOWN"
               \/ HoldOf[b] \in stale /\ journal[b] \notin Uncertain /\ journal'[b] \in Resolved
      /\ \A h \in Holds :
               \/ hold'[h] = hold[h]
               \/ /\ h \in stale /\ hold'[h] = "RELEASED"
                  /\ \A b \in Bookings : HoldOf[b] = h => journal[b] \notin Uncertain
      /\ \A b \in Bookings :
               \/ \A e \in Entries : Has(b, e)' = Has(b, e)
               \/ HoldOf[b] \in stale /\ journal[b] \notin Uncertain
  BY RunWritesStale
<1>2. ASSUME NEW r \in Requests, HoldAt(r) \in stale PROVE PlaceOK(r)'
  BY <1>1, <1>2, OverIsOK DEF StaleInv, OverWhenStale
<1>3. ASSUME NEW r \in Requests, HoldAt(r) \notin stale PROVE PlaceOK(r)'
  <2>1. /\ journal'[Key(r)] = journal[Key(r)] /\ hold'[HoldAt(r)] = hold[HoldAt(r)]
        /\ \A e \in Entries : Has(Key(r), e)' = Has(Key(r), e)
    <3>1. \A e \in Entries : (<<Key(r), e>> \in ledger') = (<<Key(r), e>> \in ledger)
      BY <1>k, <1>1, <1>3 DEF Has
    <3>. QED BY <1>k, <1>1, <1>3, <3>1 DEF Has, Key
  <2>. QED BY <2>1, <1>1, PlaceStays DEF KeepInv
<1>4. ASSUME NEW b \in Bookings PROVE KeepsClaims(b)'
  <2> SUFFICES ASSUME journal'[b] \in Uncertain
               PROVE  hold'[HoldOf[b]] = "PROCESSING" /\ Reserved(b)'
    BY DEF KeepsClaims
  <2>1. journal[b] \in Uncertain
    BY <1>1 DEF Uncertain, Resolved
  <2>2. hold[HoldOf[b]] = "PROCESSING" /\ Reserved(b)
    BY <2>1 DEF KeepInv, KeepsClaims
  <2>3. hold'[HoldOf[b]] = hold[HoldOf[b]] /\ \A e \in Entries : Has(b, e)' = Has(b, e)
    BY <1>k, <1>1, <2>1
  <2>. QED BY <2>2, <2>3 DEF Reserved, Entries
<1>. QED BY <1>2, <1>3, <1>4 DEF KeepInv

\* Confirmation needs an acknowledged row and a cancellation a confirmed hold.
LEMMA OtherKeepsClaims ==
  ASSUME OneRequestEach, TypeInv, ChargeInv, KeepInv, OtherNext
  PROVE  KeepInv'
<1>k. /\ \A q \in Requests : Key(q) \in Bookings /\ HoldAt(q) \in Holds /\ HoldAt(q) = HoldOf[Key(q)]
      /\ \A b \in Bookings : HoldOf[b] \in Holds
      /\ TypeOK
  BY ConstantsOK DEF ConstantsOK, Key, HoldAt, TypeInv
<1>1. UNCHANGED <<at, tries, journal>>
  BY DEF OtherNext, LetGo, FallDue, GoStale, WindowPasses, Confirm, Cancel, Settle, requestVars
<1>2. \A h \in Holds :
        \/ hold'[h] = hold[h]
        \/ hold[h] \in {"HELD", "CONFIRMED"}
        \/ \E b \in Bookings : HoldOf[b] = h /\ journal[b] = "ACKNOWLEDGED"
  <2>1. ASSUME NEW b \in Bookings, NEW n \in 0..Price, Cancel(b, n)
        PROVE  hold[HoldOf[b]] = "CONFIRMED" /\ \A h \in Holds : h # HoldOf[b] => hold'[h] = hold[h]
    BY <2>1, <1>k DEF Cancel, ChargeInv, ChargeHasItsRooms, TypeOK
  <2>2. ASSUME NEW b \in Bookings, Confirm(b)
        PROVE  journal[b] = "ACKNOWLEDGED" /\ \A h \in Holds : h # HoldOf[b] => hold'[h] = hold[h]
    BY <2>2, <1>k DEF Confirm, MayConfirm, TypeOK
  <2>3. ASSUME NEW g \in Holds, LetGo(g)
        PROVE  hold[g] = "HELD" /\ \A h \in Holds : h # g => hold'[h] = hold[h]
    BY <2>3, <1>k DEF LetGo, TypeOK
  <2>4. \/ UNCHANGED hold
        \/ \E b \in Bookings, n \in 0..Price : Cancel(b, n)
        \/ \E b \in Bookings : Confirm(b)
        \/ \E g \in Holds : LetGo(g)
    BY DEF OtherNext, FallDue, GoStale, WindowPasses, Settle, holdVars
  <2>. QED BY <2>1, <2>2, <2>3, <2>4
<1>3. \A b \in Bookings : (\A e \in Entries : Has(b, e)' = Has(b, e)) \/ journal[b] = "ACKNOWLEDGED"
  <2>1. ASSUME NEW c \in Bookings, Confirm(c)
        PROVE  journal[c] = "ACKNOWLEDGED" /\ \A b \in Bookings : b # c => \A e : Has(b, e)' = Has(b, e)
    BY <2>1 DEF Confirm, MayConfirm, Has
  <2>2. UNCHANGED ledger \/ \E c \in Bookings : Confirm(c)
    BY DEF OtherNext, LetGo, FallDue, GoStale, WindowPasses, Cancel, Settle, moneyVars
  <2>. QED BY <2>1, <2>2 DEF Has
<1>4. \A b, c \in Bookings : HoldOf[b] = HoldOf[c] => b = c
  BY DEF OneRequestEach
<1>5. ASSUME NEW b \in Bookings PROVE KeepsClaims(b)'
  <2> SUFFICES ASSUME journal[b] \in Uncertain
               PROVE  hold'[HoldOf[b]] = "PROCESSING" /\ Reserved(b)'
    BY <1>1 DEF KeepsClaims
  <2>1. hold[HoldOf[b]] = "PROCESSING" /\ Reserved(b) /\ journal[b] # "ACKNOWLEDGED"
    BY DEF KeepInv, KeepsClaims, Uncertain
  <2>2. hold'[HoldOf[b]] = hold[HoldOf[b]]
    BY <1>2, <1>4, <1>k, <2>1
  <2>. QED BY <2>1, <2>2, <1>3 DEF Reserved, Entries
<1>6. ASSUME NEW r \in Requests PROVE PlaceOK(r)'
  <2>p. PlaceOK(r)
    BY DEF KeepInv
  <2>1. at[r] \in {"authorize", "prepare", "send"} => hold'[HoldAt(r)] = "PROCESSING"
    <3> SUFFICES ASSUME at[r] \in {"authorize", "prepare", "send"}
                 PROVE  hold'[HoldAt(r)] = "PROCESSING"
      OBVIOUS
    <3>1. hold[HoldAt(r)] = "PROCESSING" /\ journal[Key(r)] \in {"NONE", "PREPARED"}
      BY <2>p DEF PlaceOK, Early
    <3>. QED BY <3>1, <1>2, <1>4, <1>k
  <2>2. journal[Key(r)] # "ACKNOWLEDGED" => \A e \in Entries : Has(Key(r), e)' = Has(Key(r), e)
    <3>1. journal[Key(r)] # "ACKNOWLEDGED" =>
            \A e \in Entries : (<<Key(r), e>> \in ledger') = (<<Key(r), e>> \in ledger)
      BY <1>k, <1>3 DEF Has
    <3>. QED BY <3>1 DEF Has, Key
  <2>3. Early(r)' = Early(r)
    BY <1>1 DEF Early
  <2>4. Early(r) => ~Has(Key(r), "release")' /\ ~Has(Key(r), "settle-release")'
    BY <2>p, <2>2 DEF PlaceOK, Entries
  <2>5. at[r] \in {"prepare", "send"} => Reserved(Key(r))'
    <3> SUFFICES ASSUME at[r] \in {"prepare", "send"} PROVE Reserved(Key(r))'
      OBVIOUS
    <3>1. Reserved(Key(r)) /\ journal[Key(r)] # "ACKNOWLEDGED"
      BY <2>p DEF PlaceOK, Early
    <3>. QED BY <3>1, <2>2 DEF Reserved, Entries
  <2>. QED BY <2>p, <2>1, <2>3, <2>4, <2>5, <1>1 DEF PlaceOK, Key, HoldAt
<1>. QED BY <1>5, <1>6 DEF KeepInv

\* As long as the journal has not observed the outcome, the rooms stay claimed and the money
\* reserved, for any number of bookings, holds and recovery runs, when each key is tried once and
\* no database write fails.
THEOREM UnobservedKeepsClaims ==
  ASSUME OneRequestEach, MaxFaults = 0
  PROVE  Spec => []UnobservedKeepsItsClaims
<1>1. Init => KeepInv
  <2> SUFFICES ASSUME Init PROVE KeepInv
    OBVIOUS
  <2>k. \A q \in Requests : Key(q) \in Bookings /\ HoldAt(q) \in Holds
    BY ConstantsOK DEF ConstantsOK, Key, HoldAt
  <2>1. \A r \in Requests : PlaceOK(r)
    BY <2>k DEF Init, PlaceOK, Has
  <2>2. \A b \in Bookings : KeepsClaims(b)
    BY DEF Init, KeepsClaims, Uncertain
  <2>. QED BY <2>1, <2>2 DEF KeepInv
<1>2. TypeInv /\ ChargeInv /\ StaleInv /\ KeepInv /\ [Next]_vars => KeepInv'
  <2> SUFFICES ASSUME TypeInv, ChargeInv, StaleInv, KeepInv, [Next]_vars
               PROVE  KeepInv'
    OBVIOUS
  <2>1. CASE UNCHANGED vars
    BY <2>1 DEF vars, holdVars, moneyVars, requestVars, KeepInv, PlaceOK, KeepsClaims, Early, Reserved,
           Has, Key, HoldAt
  <2>. QED BY <2>1, RequestKeepsClaims, RunKeepsClaims, OtherKeepsClaims, NextSplit
<1>3. KeepInv => UnobservedKeepsItsClaims
  BY DEF KeepInv, KeepsClaims, UnobservedKeepsItsClaims
<1>. QED BY <1>1, <1>2, <1>3, TypeInvariance, ChargeInvariance, StaleInvariance, PTL DEF Spec
=============================================================================
