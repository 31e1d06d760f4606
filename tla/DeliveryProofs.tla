--------------------------- MODULE DeliveryProofs ---------------------------
(***************************************************************************)
(* Proofs about Outbox for every set of rows, keys and relays and every     *)
(* batch size, number of attempts and number of faults; and about           *)
(* EmailDelivery, which stands behind it, for every set of messages and     *)
(* workers and every number of attempts, stalls, adds and faults.           *)
(***************************************************************************)
EXTENDS Outbox, EmailDelivery, TLAPS

-----------------------------------------------------------------------------
(* The outbox.                                                              *)

(* finish() and reschedule() keep the two columns typed, and only ever      *)
(* touch a pending row.                                                     *)
LEMMA FinishFacts ==
  ASSUME TypeOK, NEW r \in Rows, NEW s \in Finished, NEW n \in Nat, Finish(r, s, n)
  PROVE  /\ status' \in [Rows -> Status]
         /\ attempts' \in [Rows -> Nat]
         /\ \A q \in Rows : q # r => status'[q] = status[q] /\ attempts'[q] = attempts[q]
         /\ status[r] = "PENDING" => status'[r] = s /\ attempts'[r] = attempts[r] + n
         /\ status[r] # "PENDING" => status'[r] = status[r] /\ attempts'[r] = attempts[r]
         /\ \A q \in Rows : attempts[q] <= attempts'[q]
<1>1. CASE status[r] = "PENDING"
  <2>1. s \in Status
    BY DEF Status
  <2>2. /\ status' = [status EXCEPT ![r] = s]
        /\ attempts' = [attempts EXCEPT ![r] = @ + n]
    BY <1>1 DEF Finish
  <2>3. status' \in [Rows -> Status] /\ status'[r] = s
    BY <2>1, <2>2 DEF TypeOK
  <2>4. attempts' \in [Rows -> Nat] /\ attempts'[r] = attempts[r] + n
    BY <2>2 DEF TypeOK
  <2>5. \A q \in Rows : q # r => status'[q] = status[q] /\ attempts'[q] = attempts[q]
    BY <2>2 DEF TypeOK
  <2>6. \A q \in Rows : attempts[q] <= attempts'[q]
    BY <2>4, <2>5 DEF TypeOK
  <2>7. QED BY <1>1, <2>3, <2>4, <2>5, <2>6
<1>2. CASE status[r] # "PENDING"
  BY <1>2 DEF Finish, TypeOK
<1>3. QED BY <1>1, <1>2

LEMMA RescheduleFacts ==
  ASSUME TypeOK, NEW r \in Rows, Reschedule(r)
  PROVE  /\ status' = status
         /\ attempts' \in [Rows -> Nat]
         /\ due' \subseteq due
         /\ \A q \in Rows : q # r => attempts'[q] = attempts[q]
         /\ status[r] # "PENDING" => attempts'[r] = attempts[r]
         /\ \A q \in Rows : attempts[q] <= attempts'[q]
  BY DEF Reschedule, TypeOK

(* Writing one publisher's progress with one row. *)
LEMMA SetTaskFacts ==
  ASSUME TypeOK, NEW a \in Publishers, NEW r \in Rows, NEW s \in Stage, SetTask(a, r, s)
  PROVE  /\ task' \in [Publishers -> [Rows -> Stage]]
         /\ task'[a][r] = s
         /\ \A b \in Publishers, q \in Rows :
              (b # a \/ q # r) => task'[b][q] = task[b][q]
  BY DEF SetTask, TypeOK

LEMMA InitInv == ASSUME OutboxAssumption, Init PROVE IInv
<1>1. TypeOK
  <2>1. status \in [Rows -> Status]
    BY DEF Init, Status
  <2>2. key \in [Rows -> Keys \cup {NoKey}] /\ attempts \in [Rows -> Nat]
    BY DEF Init
  <2>3. due \subseteq Rows /\ landed \subseteq Rows /\ late \subseteq Rows
    BY DEF Init
  <2>4. expiry \in [Rows -> Expiry]
    BY DEF Init, Expiry
  <2>5. task \in [Publishers -> [Rows -> Stage]] /\ seen \in [Publishers -> [Rows -> Nat]]
    BY DEF Init, Stage
  <2>6. faults \in 0..MaxFaults
    BY DEF Init, OutboxAssumption
  <2>7. QED BY <2>1, <2>2, <2>3, <2>4, <2>5, <2>6 DEF TypeOK
<1>2. \A r \in Rows : status[r] \in {"PENDING", "absent"}
  BY DEF Init
<1>3. \A a \in Publishers, r \in Rows : task[a][r] = "none"
  BY DEF Init
<1>4. DispatchedWasLanded /\ AbandonedAfterMaxAttempts /\ ExpiredIsPast
  BY <1>2 DEF DispatchedWasLanded, AbandonedAfterMaxAttempts, ExpiredIsPast
<1>5. AckedWasLanded /\ SnapshotNotAhead
  BY <1>3 DEF AckedWasLanded, SnapshotNotAhead, Publishers
<1>6. NothingBeforeTheRow
  BY <1>3 DEF Init, NothingBeforeTheRow
<1>7. QED BY <1>1, <1>4, <1>5, <1>6 DEF IInv

-----------------------------------------------------------------------------
(* One lemma per action: it preserves the inductive invariant.              *)

LEMMA DispatchInv ==
  ASSUME OutboxAssumption, IInv, NEW r \in Rows, NEW k \in Keys, NEW e \in {"never", "ahead"},
         Dispatch(r, k, e)
  PROVE  IInv'
<1> USE DEF IInv
<1>1. Dispatcher \in Publishers /\ "ready" \in Stage
  BY DEF Publishers, Stage
<1>2. /\ task' \in [Publishers -> [Rows -> Stage]]
      /\ task'[Dispatcher][r] = "ready"
      /\ \A b \in Publishers, q \in Rows :
           (b # Dispatcher \/ q # r) => task'[b][q] = task[b][q]
  BY <1>1, SetTaskFacts DEF Dispatch
<1>3. /\ status' \in [Rows -> Status]
      /\ status'[r] = "PENDING"
      /\ \A q \in Rows : q # r => status'[q] = status[q]
  BY DEF Dispatch, TypeOK, Status
<1>4. expiry' \in [Rows -> Expiry] /\ \A q \in Rows : q # r => expiry'[q] = expiry[q]
  BY DEF Dispatch, TypeOK, Expiry
<1>5. key' \in [Rows -> Keys \cup {NoKey}]
  BY DEF Dispatch, TypeOK
<1>6. TypeOK'
  BY <1>2, <1>3, <1>4, <1>5 DEF Dispatch, TypeOK
<1>7. DispatchedWasLanded' /\ AbandonedAfterMaxAttempts' /\ ExpiredIsPast'
  BY <1>3, <1>4 DEF Dispatch, DispatchedWasLanded, AbandonedAfterMaxAttempts, ExpiredIsPast
<1>8. AckedWasLanded'
  BY <1>2 DEF Dispatch, AckedWasLanded
<1>9. SnapshotNotAhead'
  BY <1>2 DEF Dispatch, SnapshotNotAhead, Publishers, OutboxAssumption
<1>10. NothingBeforeTheRow'
  BY <1>2, <1>3 DEF Dispatch, NothingBeforeTheRow
<1>11. QED BY <1>6, <1>7, <1>8, <1>9, <1>10

LEMMA ClaimDueInv ==
  ASSUME OutboxAssumption, IInv, NEW p \in Relays, ClaimDue(p)
  PROVE  IInv'
<1> USE DEF IInv
<1>1. p \in Publishers
  BY DEF Publishers
<1>2. PICK b \in Batches :
        /\ task' = [task EXCEPT ![p] = [r \in Rows |-> IF r \in b THEN "ready" ELSE "none"]]
        /\ seen' = [seen EXCEPT ![p] = [r \in Rows |-> IF r \in b THEN attempts[r] ELSE 0]]
        /\ due' = due \ b
  BY DEF ClaimDue
<1>3. \A r \in b : status[r] = "PENDING"
  BY DEF Batches, Claimable
<1>4. /\ task' \in [Publishers -> [Rows -> Stage]]
      /\ \A r \in Rows : task'[p][r] = IF r \in b THEN "ready" ELSE "none"
      /\ \A a \in Publishers : a # p => task'[a] = task[a]
  BY <1>1, <1>2 DEF TypeOK, Stage
<1>5. /\ seen' \in [Publishers -> [Rows -> Nat]]
      /\ \A r \in Rows : seen'[p][r] = IF r \in b THEN attempts[r] ELSE 0
      /\ \A a \in Publishers : a # p => seen'[a] = seen[a]
  BY <1>1, <1>2 DEF TypeOK
<1>6. TypeOK'
  BY <1>2, <1>4, <1>5 DEF ClaimDue, TypeOK, rowVars
<1>7. DispatchedWasLanded' /\ AbandonedAfterMaxAttempts' /\ ExpiredIsPast'
  BY DEF ClaimDue, rowVars, DispatchedWasLanded, AbandonedAfterMaxAttempts, ExpiredIsPast
<1>8. AckedWasLanded'
  BY <1>4 DEF ClaimDue, AckedWasLanded
<1>9. SnapshotNotAhead'
  <2> SUFFICES ASSUME NEW q \in Relays, NEW r \in Rows, task'[q][r] # "none"
               PROVE  seen'[q][r] <= attempts'[r]
    BY DEF SnapshotNotAhead
  <2>1. CASE q = p
    <3>1. r \in b /\ attempts[r] \in Nat
      BY <1>4, <2>1 DEF TypeOK
    <3>2. QED BY <1>5, <2>1, <3>1 DEF ClaimDue, rowVars
  <2>2. CASE q # p
    BY <1>4, <1>5, <2>2 DEF ClaimDue, rowVars, SnapshotNotAhead, Publishers
  <2>3. QED BY <2>1, <2>2
<1>10. NothingBeforeTheRow'
  BY <1>2, <1>3, <1>4 DEF ClaimDue, rowVars, NothingBeforeTheRow
<1>11. QED BY <1>6, <1>7, <1>8, <1>9, <1>10

(* The steps that move a task on and leave the rows alone. *)
LEMMA TaskOnlyInv ==
  ASSUME OutboxAssumption, IInv, NEW a \in Publishers, NEW r \in Rows, NEW s \in Stage,
         task[a][r] # "none", SetTask(a, r, s), s = "acked" => r \in landed',
         landed \subseteq landed', landed' \subseteq Rows,
         late' \subseteq late \cup {r},
         faults' \in 0..MaxFaults,
         UNCHANGED <<rowVars, due, expiry, seen>>
  PROVE  IInv'
<1> USE DEF IInv, rowVars
<1>1. /\ task' \in [Publishers -> [Rows -> Stage]]
      /\ task'[a][r] = s
      /\ \A b \in Publishers, q \in Rows : (b # a \/ q # r) => task'[b][q] = task[b][q]
  BY SetTaskFacts
<1>2. TypeOK'
  BY <1>1 DEF TypeOK
<1>3. DispatchedWasLanded' /\ AbandonedAfterMaxAttempts' /\ ExpiredIsPast'
  BY DEF DispatchedWasLanded, AbandonedAfterMaxAttempts, ExpiredIsPast
<1>4. AckedWasLanded'
  BY <1>1 DEF AckedWasLanded
<1>5. SnapshotNotAhead'
  BY <1>1 DEF SnapshotNotAhead, Publishers
<1>6. NothingBeforeTheRow'
  BY <1>1 DEF NothingBeforeTheRow
<1>7. QED BY <1>2, <1>3, <1>4, <1>5, <1>6

(* The steps that record an outcome and end the task. *)
LEMMA RecordInv ==
  ASSUME OutboxAssumption, IInv, NEW a \in Publishers, NEW r \in Rows,
         NEW s \in Finished, NEW n \in Nat,
         task[a][r] # "none", SetTask(a, r, "none"), Finish(r, s, n),
         s = "DISPATCHED" => r \in landed,
         s = "EXPIRED" => expiry[r] = "passed",
         s = "FAILED" => key[r] \in Legacy \/ attempts[r] + n >= MaxAttempts,
         UNCHANGED <<key, due, expiry, seen, late, landed, faults>>
  PROVE  IInv'
<1> USE DEF IInv
<1>1. /\ task' \in [Publishers -> [Rows -> Stage]]
      /\ task'[a][r] = "none"
      /\ \A b \in Publishers, q \in Rows : (b # a \/ q # r) => task'[b][q] = task[b][q]
  <2>1. "none" \in Stage
    BY DEF Stage
  <2>2. QED BY <2>1, SetTaskFacts
<1>2. /\ status' \in [Rows -> Status]
      /\ attempts' \in [Rows -> Nat]
      /\ \A q \in Rows : q # r => status'[q] = status[q] /\ attempts'[q] = attempts[q]
      /\ status[r] = "PENDING" => status'[r] = s /\ attempts'[r] = attempts[r] + n
      /\ status[r] # "PENDING" => status'[r] = status[r] /\ attempts'[r] = attempts[r]
      /\ \A q \in Rows : attempts[q] <= attempts'[q]
  BY FinishFacts
<1>3. TypeOK'
  BY <1>1, <1>2 DEF TypeOK
<1>4. DispatchedWasLanded' /\ ExpiredIsPast'
  BY <1>2 DEF DispatchedWasLanded, ExpiredIsPast
<1>5. AbandonedAfterMaxAttempts'
  BY <1>2 DEF AbandonedAfterMaxAttempts
<1>6. AckedWasLanded'
  BY <1>1 DEF AckedWasLanded
<1>7. SnapshotNotAhead'
  <2> SUFFICES ASSUME NEW p \in Relays, NEW q \in Rows, task'[p][q] # "none"
               PROVE  seen'[p][q] <= attempts'[q]
    BY DEF SnapshotNotAhead
  <2>1. p \in Publishers
    BY DEF Publishers
  <2>2. seen[p][q] <= attempts[q] /\ seen' = seen
    BY <1>1, <2>1 DEF SnapshotNotAhead
  <2>3. seen[p][q] \in Nat /\ attempts[q] \in Nat /\ attempts'[q] \in Nat
    BY <1>2, <2>1 DEF TypeOK
  <2>4. QED BY <1>2, <2>2, <2>3
<1>8. NothingBeforeTheRow'
  <2> SUFFICES ASSUME NEW q \in Rows, status'[q] = "absent"
               PROVE  /\ q \notin due'
                      /\ q \notin late'
                      /\ \A b \in Publishers : task'[b][q] = "none"
    BY DEF NothingBeforeTheRow
  <2>1. status[q] = "absent"
    BY <1>2 DEF Finished
  <2>2. QED BY <1>1, <2>1 DEF NothingBeforeTheRow
<1>9. QED BY <1>3, <1>4, <1>5, <1>6, <1>7, <1>8

LEMMA RescheduleInv ==
  ASSUME OutboxAssumption, IInv, NEW p \in Relays, NEW r \in Rows,
         task[p][r] # "none", SetTask(p, r, "none"), Reschedule(r),
         UNCHANGED <<key, expiry, seen, late, landed, faults>>
  PROVE  IInv'
<1> USE DEF IInv
<1>1. p \in Publishers /\ "none" \in Stage
  BY DEF Publishers, Stage
<1>2. /\ task' \in [Publishers -> [Rows -> Stage]]
      /\ task'[p][r] = "none"
      /\ \A b \in Publishers, q \in Rows : (b # p \/ q # r) => task'[b][q] = task[b][q]
  BY <1>1, SetTaskFacts
<1>3. /\ status' = status
      /\ attempts' \in [Rows -> Nat]
      /\ due' \subseteq due
      /\ \A q \in Rows : q # r => attempts'[q] = attempts[q]
      /\ status[r] # "PENDING" => attempts'[r] = attempts[r]
      /\ \A q \in Rows : attempts[q] <= attempts'[q]
  BY RescheduleFacts
<1>4. TypeOK'
  BY <1>2, <1>3 DEF TypeOK
<1>5. DispatchedWasLanded' /\ ExpiredIsPast'
  BY <1>3 DEF DispatchedWasLanded, ExpiredIsPast
<1>6. AbandonedAfterMaxAttempts'
  BY <1>3 DEF AbandonedAfterMaxAttempts
<1>7. AckedWasLanded'
  BY <1>2 DEF AckedWasLanded
<1>8. SnapshotNotAhead'
  <2> SUFFICES ASSUME NEW q \in Relays, NEW w \in Rows, task'[q][w] # "none"
               PROVE  seen'[q][w] <= attempts'[w]
    BY DEF SnapshotNotAhead
  <2>1. q \in Publishers
    BY DEF Publishers
  <2>2. seen[q][w] <= attempts[w] /\ seen' = seen
    BY <1>2, <2>1 DEF SnapshotNotAhead
  <2>3. seen[q][w] \in Nat /\ attempts[w] \in Nat /\ attempts'[w] \in Nat
    BY <1>3, <2>1 DEF TypeOK
  <2>4. QED BY <1>3, <2>2, <2>3
<1>9. NothingBeforeTheRow'
  BY <1>2, <1>3 DEF NothingBeforeTheRow
<1>10. QED BY <1>4, <1>5, <1>6, <1>7, <1>8, <1>9

LEMMA CrashInv ==
  ASSUME OutboxAssumption, IInv, NEW a \in Publishers, Crash(a)
  PROVE  IInv'
<1> USE DEF IInv, rowVars
<1>1. PICK lost \in SUBSET Busy(a) :
        /\ task' = [task EXCEPT ![a] = [r \in Rows |-> IF r \in lost THEN "none" ELSE @[r]]]
        /\ late' = late \cup {r \in lost : task[a][r] = "sending"}
  BY DEF Crash
<1>2. /\ task' \in [Publishers -> [Rows -> Stage]]
      /\ \A r \in Rows : task'[a][r] = IF r \in lost THEN "none" ELSE task[a][r]
      /\ \A b \in Publishers : b # a => task'[b] = task[b]
  BY <1>1 DEF TypeOK, Stage
<1>3. /\ late' \subseteq Rows
      /\ \A r \in Rows : task[a][r] = "none" => (r \in late' <=> r \in late)
  BY <1>1 DEF TypeOK, Busy
<1>4. faults' \in 0..MaxFaults
  BY DEF Crash, Fault, TypeOK, OutboxAssumption
<1>5. UNCHANGED <<status, key, attempts, due, expiry, seen, landed>>
  BY DEF Crash
<1>6. TypeOK'
  BY <1>2, <1>3, <1>4, <1>5 DEF TypeOK
<1>7. DispatchedWasLanded' /\ AbandonedAfterMaxAttempts' /\ ExpiredIsPast'
  BY <1>5 DEF DispatchedWasLanded, AbandonedAfterMaxAttempts, ExpiredIsPast
<1>8. AckedWasLanded'
  BY <1>2, <1>5 DEF AckedWasLanded
<1>9. SnapshotNotAhead'
  BY <1>2, <1>5 DEF SnapshotNotAhead, Publishers
<1>10. NothingBeforeTheRow'
  BY <1>2, <1>3, <1>5 DEF NothingBeforeTheRow
<1>11. QED BY <1>6, <1>7, <1>8, <1>9, <1>10

LEMMA EnvironmentInv ==
  ASSUME OutboxAssumption, IInv, NEW r \in Rows,
         LandLate(r) \/ BecomeDue(r) \/ ExpiryPasses(r) \/ Purge(r)
  PROVE  IInv'
<1> USE DEF IInv, rowVars, DispatchedWasLanded, AbandonedAfterMaxAttempts, ExpiredIsPast,
            AckedWasLanded, SnapshotNotAhead, NothingBeforeTheRow
<1>1. CASE LandLate(r)
  <2>1. TypeOK'
    BY <1>1 DEF LandLate, TypeOK
  <2>2. late' \subseteq late
    BY <1>1 DEF LandLate, TypeOK
  <2>3. QED BY <1>1, <2>1, <2>2 DEF LandLate
<1>2. CASE BecomeDue(r)
  <2>1. TypeOK'
    BY <1>2 DEF BecomeDue, TypeOK
  <2>2. QED BY <1>2, <2>1 DEF BecomeDue
<1>3. CASE ExpiryPasses(r)
  <2>1. TypeOK'
    BY <1>3 DEF ExpiryPasses, TypeOK, Expiry
  <2>2. \A q \in Rows : expiry[q] = "passed" => expiry'[q] = "passed"
    BY <1>3 DEF ExpiryPasses, TypeOK
  <2>3. QED BY <1>3, <2>1, <2>2 DEF ExpiryPasses
<1>4. CASE Purge(r)
  <2>1. TypeOK'
    BY <1>4 DEF Purge, TypeOK, Status
  <2>2. /\ status'[r] = "purged"
        /\ \A q \in Rows : q # r => status'[q] = status[q]
    BY <1>4 DEF Purge, TypeOK
  <2>3. QED BY <1>4, <2>1, <2>2 DEF Purge
<1>5. QED BY <1>1, <1>2, <1>3, <1>4

LEMMA PublisherInv ==
  ASSUME OutboxAssumption, IInv, NEW a \in Publishers, NEW r \in Rows,
         \/ Send(a, r) \/ PublishOutcome(a, r) \/ MarkDispatched(a, r)
         \/ DatabaseFails(a, r)
  PROVE  IInv'
<1>1. TypeOK
  BY DEF IInv
<1>2. {"none", "sending", "acked", "refused"} \subseteq Stage
  BY DEF Stage
<1>3. CASE Send(a, r)
  BY <1>1, <1>2, <1>3, TaskOnlyInv DEF Send, TypeOK
<1>4. CASE PublishOk(a, r)
  BY <1>1, <1>2, <1>4, TaskOnlyInv DEF PublishOk, TypeOK
<1>5. ASSUME NEW timedOut \in BOOLEAN, PublishFails(a, r, timedOut)
      PROVE  IInv'
  <2>1. late' \subseteq late \cup {r}
    BY <1>1, <1>5 DEF PublishFails, TypeOK
  <2>2. QED BY <1>1, <1>2, <1>5, <2>1, TaskOnlyInv DEF PublishFails, TypeOK
<1>6. CASE MarkDispatched(a, r)
  <2>1. r \in landed
    BY <1>6 DEF MarkDispatched, IInv, AckedWasLanded
  <2>2. "DISPATCHED" \in Finished /\ 0 \in Nat
    BY DEF Finished
  <2>3. QED BY <1>6, <2>1, <2>2, RecordInv DEF MarkDispatched
<1>7. CASE DatabaseFails(a, r)
  <2>1. faults' \in 0..MaxFaults
    BY <1>1, <1>7 DEF DatabaseFails, Fault, TypeOK, OutboxAssumption
  <2>2. PICK s \in {"none", "refused"} : task[a][r] # "none" /\ SetTask(a, r, s)
    BY <1>7 DEF DatabaseFails
  <2>3. QED BY <1>1, <1>2, <1>7, <2>1, <2>2, TaskOnlyInv DEF DatabaseFails, TypeOK
<1>8. QED BY <1>3, <1>4, <1>5, <1>6, <1>7 DEF PublishOutcome

LEMMA RelayInv ==
  ASSUME OutboxAssumption, IInv, NEW p \in Relays, NEW r \in Rows,
         RelayExpired(p, r) \/ RelayUnknownQueue(p, r) \/ RecordFailure(p, r)
  PROVE  IInv'
<1>1. p \in Publishers /\ {0, 1} \subseteq Nat /\ {"EXPIRED", "FAILED"} \subseteq Finished
  BY DEF Publishers, Finished
<1>2. CASE RelayExpired(p, r)
  BY <1>1, <1>2, RecordInv DEF RelayExpired
<1>3. CASE RelayUnknownQueue(p, r)
  BY <1>1, <1>3, RecordInv DEF RelayUnknownQueue
<1>4. CASE RecordFailure(p, r)
  <2>1. CASE seen[p][r] + 1 >= MaxAttempts
    <3>1. /\ seen[p][r] <= attempts[r]
          /\ seen[p][r] \in Nat /\ attempts[r] \in Nat /\ MaxAttempts \in Nat
      BY <1>1, <1>4 DEF RecordFailure, IInv, SnapshotNotAhead, TypeOK, OutboxAssumption
    <3>2. attempts[r] + 1 >= MaxAttempts
      BY <2>1, <3>1
    <3>3. QED BY <1>1, <1>4, <2>1, <3>2, RecordInv DEF RecordFailure
  <2>2. CASE ~(seen[p][r] + 1 >= MaxAttempts)
    BY <1>4, <2>2, RescheduleInv DEF RecordFailure
  <2>3. QED BY <2>1, <2>2
<1>5. QED BY <1>2, <1>3, <1>4

-----------------------------------------------------------------------------

LEMMA StepInv == ASSUME OutboxAssumption, IInv, [Next]_vars PROVE IInv'
<1>1. Dispatcher \in Publishers /\ Relays \subseteq Publishers
  BY DEF Publishers
<1>2. ASSUME NEW r \in Rows, NEW k \in Keys, NEW e \in {"never", "ahead"}, Dispatch(r, k, e)
      PROVE  IInv'
  BY <1>2, DispatchInv
<1>3. ASSUME NEW p \in Relays, ClaimDue(p) \/ RelayStep(p)
      PROVE  IInv'
  BY <1>1, <1>3, ClaimDueInv, RelayInv, PublisherInv DEF RelayStep
<1>4. ASSUME NEW r \in Rows, FastPathStep(r)
      PROVE  IInv'
  <2>1. CASE LeaveToRelay(r)
    <3>1. TypeOK /\ "none" \in Stage
      BY DEF IInv, Stage
    <3>2. QED BY <1>1, <2>1, <3>1, TaskOnlyInv DEF LeaveToRelay, TypeOK
  <2>2. CASE ~LeaveToRelay(r)
    BY <1>1, <1>4, <2>2, PublisherInv DEF FastPathStep
  <2>3. QED BY <2>1, <2>2
<1>5. ASSUME NEW a \in Publishers, Crash(a) \/ \E r \in Rows : DatabaseFails(a, r)
      PROVE  IInv'
  BY <1>5, CrashInv, PublisherInv
<1>6. ASSUME NEW r \in Rows, LandLate(r) \/ BecomeDue(r) \/ ExpiryPasses(r) \/ Purge(r)
      PROVE  IInv'
  BY <1>6, EnvironmentInv
<1>7. CASE UNCHANGED vars
  BY <1>7 DEF vars, IInv, TypeOK, DispatchedWasLanded, AbandonedAfterMaxAttempts,
     ExpiredIsPast, AckedWasLanded, SnapshotNotAhead, NothingBeforeTheRow
<1>8. QED BY <1>2, <1>3, <1>4, <1>5, <1>6, <1>7 DEF Next

(* The inductive invariant: the four published properties and what the      *)
(* tasks, the snapshots and unwritten rows must satisfy to keep them.       *)
THEOREM OutboxInvariant == ASSUME OutboxAssumption PROVE SafeSpec => []IInv
<1>1. Init => IInv
  BY InitInv
<1>2. IInv /\ [Next]_vars => IInv'
  BY StepInv
<1>3. QED BY <1>1, <1>2, PTL DEF SafeSpec

(* Every variable of the outbox keeps its type. *)
THEOREM OutboxTypes == ASSUME OutboxAssumption PROVE SafeSpec => []TypeOK
<1>1. IInv => TypeOK
  BY DEF IInv
<1>2. QED BY <1>1, OutboxInvariant, PTL

(* No publisher ever marks a row DISPATCHED whose job the queue has not     *)
(* been given: markDispatched follows an awaited publish of the same row.   *)
THEOREM DispatchedLanded == ASSUME OutboxAssumption PROVE SafeSpec => []DispatchedWasLanded
<1>1. IInv => DispatchedWasLanded
  BY DEF IInv
<1>2. QED BY <1>1, OutboxInvariant, PTL

(* recordFailure counts from a snapshot that may be stale, and still never  *)
(* abandons a job before MAX_ATTEMPTS failures are on the row.              *)
THEOREM AbandonedLate == ASSUME OutboxAssumption PROVE SafeSpec => []AbandonedAfterMaxAttempts
<1>1. IInv => AbandonedAfterMaxAttempts
  BY DEF IInv
<1>2. QED BY <1>1, OutboxInvariant, PTL

(* The relay expires only rows whose expires_at has passed. *)
THEOREM ExpiredLate == ASSUME OutboxAssumption PROVE SafeSpec => []ExpiredIsPast
<1>1. IInv => ExpiredIsPast
  BY DEF IInv
<1>2. QED BY <1>1, OutboxInvariant, PTL

-----------------------------------------------------------------------------
(* What one step does to a row, whoever takes it.                           *)

RowStep(r) ==
  \/ status'[r] = status[r] /\ (status[r] # "PENDING" => attempts'[r] = attempts[r])
  \/ status[r] = "absent" /\ status'[r] = "PENDING"
  \/ status[r] = "PENDING" /\ status'[r] \in Finished
       /\ (status'[r] = "DISPATCHED" => r \in landed)
  \/ status[r] \in Finished /\ status'[r] = "purged" /\ attempts'[r] = attempts[r]

LEMMA RowSteps == ASSUME OutboxAssumption, IInv, [Next]_vars, NEW q \in Rows PROVE RowStep(q)
<1>1. TypeOK
  BY DEF IInv
<1>2. ASSUME NEW r \in Rows, NEW k \in Keys, NEW e \in {"never", "ahead"}, Dispatch(r, k, e)
      PROVE  RowStep(q)
  BY <1>1, <1>2 DEF Dispatch, TypeOK, RowStep
<1>3. ASSUME UNCHANGED <<status, attempts>>
      PROVE  RowStep(q)
  BY <1>3 DEF RowStep
<1>4. ASSUME NEW r \in Rows, NEW s \in Finished, NEW n \in Nat, Finish(r, s, n),
             s = "DISPATCHED" => r \in landed
      PROVE  RowStep(q)
  <2>1. /\ q # r => status'[q] = status[q] /\ attempts'[q] = attempts[q]
        /\ status[r] = "PENDING" => status'[r] = s
        /\ status[r] # "PENDING" => status'[r] = status[r] /\ attempts'[r] = attempts[r]
    BY <1>1, <1>4, FinishFacts
  <2>2. QED BY <1>4, <2>1 DEF RowStep
<1>5. ASSUME NEW a \in Publishers, NEW r \in Rows, MarkDispatched(a, r)
      PROVE  RowStep(q)
  <2>1. r \in landed /\ "DISPATCHED" \in Finished /\ 0 \in Nat
    BY <1>5 DEF MarkDispatched, IInv, AckedWasLanded, Finished
  <2>2. QED BY <1>4, <1>5, <2>1 DEF MarkDispatched
<1>6. ASSUME NEW p \in Relays, NEW r \in Rows,
             RelayExpired(p, r) \/ RelayUnknownQueue(p, r) \/ RecordFailure(p, r)
      PROVE  RowStep(q)
  <2>1. {"EXPIRED", "FAILED"} \subseteq Finished /\ {0, 1} \subseteq Nat
    BY DEF Finished
  <2>2. ASSUME Reschedule(r)
        PROVE  RowStep(q)
    BY <1>1, <2>2, RescheduleFacts DEF RowStep
  <2>3. QED BY <1>4, <1>6, <2>1, <2>2 DEF RelayExpired, RelayUnknownQueue, RecordFailure
<1>7. ASSUME NEW r \in Rows, Purge(r)
      PROVE  RowStep(q)
  BY <1>1, <1>7 DEF Purge, TypeOK, RowStep
<1>8. ASSUME NEW a \in Publishers, NEW r \in Rows,
             \/ Send(a, r) \/ PublishOutcome(a, r) \/ DatabaseFails(a, r) \/ Crash(a)
             \/ LeaveToRelay(r) \/ LandLate(r) \/ BecomeDue(r) \/ ExpiryPasses(r)
      PROVE  UNCHANGED <<status, attempts>>
  BY <1>8 DEF Send, PublishOutcome, PublishOk, PublishFails, DatabaseFails, Crash, LeaveToRelay,
     LandLate, BecomeDue, ExpiryPasses, rowVars
<1>9. Dispatcher \in Publishers /\ Relays \subseteq Publishers
  BY DEF Publishers
<1>10. ASSUME NEW p \in Relays, ClaimDue(p) \/ RelayStep(p)
       PROVE  RowStep(q)
  BY <1>3, <1>5, <1>6, <1>8, <1>9, <1>10 DEF ClaimDue, RelayStep, rowVars
<1>11. ASSUME NEW r \in Rows, FastPathStep(r)
       PROVE  RowStep(q)
  BY <1>3, <1>5, <1>8, <1>9, <1>11 DEF FastPathStep
<1>12. ASSUME NEW a \in Publishers, Crash(a) \/ \E r \in Rows : DatabaseFails(a, r)
       PROVE  RowStep(q)
  BY <1>3, <1>8, <1>12
<1>13. ASSUME NEW r \in Rows, LandLate(r) \/ BecomeDue(r) \/ ExpiryPasses(r) \/ Purge(r)
       PROVE  RowStep(q)
  BY <1>3, <1>7, <1>8, <1>9, <1>13
<1>14. CASE UNCHANGED vars
  BY <1>3, <1>14 DEF vars
<1>15. QED BY <1>2, <1>10, <1>11, <1>12, <1>13, <1>14 DEF Next

(* The guard status = 'PENDING' is enough: whoever still holds a finished   *)
(* row, nothing but the purge changes what is recorded of it.               *)
THEOREM FinishedFinal == ASSUME OutboxAssumption PROVE SafeSpec => FinishedIsFinal
<1>1. IInv /\ [Next]_vars =>
        [\A r \in Rows : status[r] \in Finished =>
           /\ status'[r] \in {status[r], "purged"}
           /\ attempts'[r] = attempts[r]]_vars
  BY RowSteps DEF RowStep, Finished
<1>2. QED BY <1>1, OutboxInvariant, PTL DEF SafeSpec, FinishedIsFinal

-----------------------------------------------------------------------------
(* The refinement: a step of the outbox changes the status of at most one   *)
(* row, or lands one row's job, and so is one step of the promise.          *)

Moves(r, s) ==
  \/ status[r] = "absent" /\ s = "PENDING"
  \/ status[r] = "PENDING" /\ s \in Finished /\ (s = "DISPATCHED" => r \in landed)
  \/ status[r] \in Finished /\ s = "purged"

Landing(r) == UNCHANGED status /\ status[r] # "absent" /\ landed' = landed \cup {r}

OneRow ==
  \/ UNCHANGED <<status, landed>>
  \/ \E r \in Rows : Landing(r)
  \/ \E r \in Rows, s \in Status :
       Moves(r, s) /\ status' = [status EXCEPT ![r] = s] /\ UNCHANGED landed

LEMMA OneRowSteps == ASSUME OutboxAssumption, IInv, [Next]_vars PROVE OneRow
<1>1. Dispatcher \in Publishers /\ Relays \subseteq Publishers
  BY DEF Publishers
<1>2. ASSUME NEW r \in Rows, NEW k \in Keys, NEW e \in {"never", "ahead"}, Dispatch(r, k, e)
      PROVE  OneRow
  BY <1>2 DEF Dispatch, OneRow, Moves, Status
<1>3. ASSUME NEW r \in Rows, NEW s \in Finished, NEW n \in Nat, Finish(r, s, n),
             s = "DISPATCHED" => r \in landed, UNCHANGED landed
      PROVE  OneRow
  BY <1>3 DEF Finish, OneRow, Moves, Status
<1>4. ASSUME NEW a \in Publishers, NEW r \in Rows, MarkDispatched(a, r)
      PROVE  OneRow
  <2>1. r \in landed /\ "DISPATCHED" \in Finished /\ 0 \in Nat
    BY <1>4 DEF MarkDispatched, IInv, AckedWasLanded, Finished
  <2>2. QED BY <1>3, <1>4, <2>1 DEF MarkDispatched
<1>5. ASSUME NEW p \in Relays, NEW r \in Rows,
             RelayExpired(p, r) \/ RelayUnknownQueue(p, r) \/ RecordFailure(p, r)
      PROVE  OneRow
  <2>1. {"EXPIRED", "FAILED"} \subseteq Finished /\ {0, 1} \subseteq Nat
    BY DEF Finished
  <2>2. ASSUME Reschedule(r), UNCHANGED landed
        PROVE  OneRow
    BY <2>2 DEF Reschedule, OneRow
  <2>3. QED BY <1>3, <1>5, <2>1, <2>2 DEF RelayExpired, RelayUnknownQueue, RecordFailure
<1>6. ASSUME NEW r \in Rows, Purge(r)
      PROVE  OneRow
  BY <1>6 DEF Purge, OneRow, Moves, Status
<1>7. ASSUME NEW a \in Publishers, NEW r \in Rows, PublishOk(a, r)
      PROVE  OneRow
  <2>1. status[r] # "absent"
    BY <1>7 DEF PublishOk, IInv, NothingBeforeTheRow
  <2>2. QED BY <1>7, <2>1 DEF PublishOk, rowVars, OneRow, Landing
<1>8. ASSUME NEW r \in Rows, LandLate(r)
      PROVE  OneRow
  <2>1. status[r] # "absent"
    BY <1>8 DEF LandLate, IInv, NothingBeforeTheRow
  <2>2. QED BY <1>8, <2>1 DEF LandLate, rowVars, OneRow, Landing
<1>9. ASSUME NEW a \in Publishers, NEW r \in Rows,
             \/ Send(a, r) \/ (\E t \in BOOLEAN : PublishFails(a, r, t))
             \/ DatabaseFails(a, r) \/ LeaveToRelay(r) \/ BecomeDue(r) \/ ExpiryPasses(r)
             \/ Crash(a)
      PROVE  UNCHANGED <<status, landed>>
  BY <1>9 DEF Send, PublishFails, DatabaseFails, Crash, LeaveToRelay, BecomeDue, ExpiryPasses,
     rowVars
<1>10. ASSUME NEW p \in Relays, ClaimDue(p) \/ RelayStep(p)
       PROVE  OneRow
  <2>1. CASE ClaimDue(p)
    BY <2>1 DEF ClaimDue, rowVars, OneRow
  <2>2. CASE RelayStep(p)
    BY <1>1, <1>4, <1>5, <1>7, <1>9, <2>2 DEF RelayStep, PublishOutcome, OneRow
  <2>3. QED BY <1>10, <2>1, <2>2
<1>11. ASSUME NEW r \in Rows, FastPathStep(r)
       PROVE  OneRow
  BY <1>1, <1>4, <1>7, <1>9, <1>11 DEF FastPathStep, PublishOutcome, OneRow
<1>12. ASSUME NEW a \in Publishers, Crash(a) \/ \E r \in Rows : DatabaseFails(a, r)
       PROVE  OneRow
  <2>1. CASE Crash(a)
    BY <2>1 DEF Crash, rowVars, OneRow
  <2>2. CASE \E r \in Rows : DatabaseFails(a, r)
    BY <1>9, <2>2 DEF OneRow
  <2>3. QED BY <1>12, <2>1, <2>2
<1>13. ASSUME NEW r \in Rows, LandLate(r) \/ BecomeDue(r) \/ ExpiryPasses(r) \/ Purge(r)
       PROVE  OneRow
  BY <1>1, <1>6, <1>8, <1>9, <1>13 DEF OneRow
<1>14. CASE UNCHANGED vars
  BY <1>14 DEF vars, OneRow
<1>15. QED BY <1>2, <1>10, <1>11, <1>12, <1>13, <1>14 DEF Next

PromiseName(s) ==
  CASE s = "absent" -> "none"
    [] s = "PENDING" -> "open"
    [] s = "DISPATCHED" -> "kept"
    [] s = "EXPIRED" -> "lapsed"
    [] s = "FAILED" -> "abandoned"
    [] OTHER -> "forgotten"

LEMMA OneRowRefines == ASSUME TypeOK, OneRow PROVE [Promise!Next]_(Promise!vars)
<1>1. PromiseOf = [r \in Rows |-> PromiseName(status[r])]
  BY DEF PromiseOf, PromiseName
<1>2. PromiseOf' = [r \in Rows |-> PromiseName(status'[r])]
  BY DEF PromiseOf, PromiseName
<1>3. CASE UNCHANGED <<status, landed>>
  BY <1>1, <1>2, <1>3 DEF Promise!vars
<1>4. ASSUME NEW r \in Rows, Landing(r)
      PROVE  Promise!Next
  <2>1. PromiseOf[r] # "none" /\ PromiseOf' = PromiseOf
    BY <1>1, <1>2, <1>4 DEF Landing, PromiseName, TypeOK, Status
  <2>2. Promise!HandOver(r)
    BY <1>4, <2>1 DEF Promise!HandOver, Landing
  <2>3. QED BY <2>2 DEF Promise!Next
<1>5. ASSUME NEW r \in Rows, NEW s \in Status, Moves(r, s),
             status' = [status EXCEPT ![r] = s], UNCHANGED landed
      PROVE  Promise!Next
  <2>1. PromiseOf' = [PromiseOf EXCEPT ![r] = PromiseName(s)]
    BY <1>1, <1>2, <1>5 DEF TypeOK
  <2>2. PromiseOf[r] = PromiseName(status[r])
    BY <1>1
  <2>3. CASE status[r] = "absent" /\ s = "PENDING"
    <3>1. PromiseName(status[r]) = "none" /\ PromiseName(s) = "open"
      BY <2>3 DEF PromiseName
    <3>2. QED BY <1>5, <2>1, <2>2, <3>1 DEF Promise!Make, Promise!Next
  <2>4. CASE status[r] = "PENDING" /\ s \in Finished /\ (s = "DISPATCHED" => r \in landed)
    <3>1. /\ PromiseName(status[r]) = "open"
          /\ PromiseName(s) \in Promise!Settled
          /\ PromiseName(s) = "kept" => r \in landed
      BY <2>4 DEF PromiseName, Finished, Promise!Settled
    <3>2. Promise!Settle(r)
      BY <1>5, <2>1, <2>2, <3>1 DEF Promise!Settle
    <3>3. QED BY <3>2 DEF Promise!Next
  <2>5. CASE status[r] \in Finished /\ s = "purged"
    <3>1. PromiseName(status[r]) \in Promise!Settled /\ PromiseName(s) = "forgotten"
      BY <2>5 DEF PromiseName, Finished, Promise!Settled
    <3>2. Promise!Forget(r)
      BY <1>5, <2>1, <2>2, <3>1 DEF Promise!Forget
    <3>3. QED BY <3>2 DEF Promise!Next
  <2>6. QED BY <1>5, <2>3, <2>4, <2>5 DEF Moves
<1>6. QED BY <1>3, <1>4, <1>5 DEF OneRow

(* The outbox, with its leases, retries, late adds and crashes, implements  *)
(* the promise of a dispatch (its safety part; liveness is TLC's).          *)
THEOREM OutboxKeepsPromise == ASSUME OutboxAssumption PROVE SafeSpec => KeepsPromiseSafely
<1>1. Init => Promise!Init
  BY DEF Init, Promise!Init, PromiseOf, OutboxAssumption
<1>2. IInv /\ [Next]_vars => [Promise!Next]_(Promise!vars)
  BY OneRowSteps, OneRowRefines DEF IInv
<1>3. QED BY <1>1, <1>2, OutboxInvariant, PTL DEF SafeSpec, KeepsPromiseSafely, Promise!SafeSpec

-----------------------------------------------------------------------------
(* The email behind the outbox.                                             *)

(* The four statuses the code writes, and their ranks. *)
LEMMA Ranks ==
  /\ MessageStatus = {"QUEUED", "EXPIRED", "FAILED", "SENT"}
  /\ Rank["QUEUED"] = 0 /\ Rank["EXPIRED"] = 1 /\ Rank["FAILED"] = 1 /\ Rank["SENT"] = 2
  BY DEF MessageStatus, Rank

(* A run at a stage other than its first idling has a message. *)
LEMMA RunFacts ==
  ASSUME EmailAssumption, EmailTypeOK, NEW w \in Workers, run[w] # Idle
  PROVE  run[w].key \in Messages /\ run[w].stage \in RunStage
  BY DEF EmailTypeOK

LEMMA GoFacts ==
  ASSUME EmailAssumption, EmailTypeOK, NEW w \in Workers, run[w] # Idle,
         NEW s \in RunStage, Go(w, s)
  PROVE  /\ run' \in [Workers -> [key : Messages, stage : RunStage] \cup {Idle}]
         /\ run'[w] # Idle /\ run'[w].key = run[w].key /\ run'[w].stage = s
         /\ \A v \in Workers : v # w => run'[v] = run[v]
<1>1. PICK r \in [key : Messages, stage : RunStage] : r = run[w]
  BY DEF EmailTypeOK
<1>2. PICK q : q = [r EXCEPT !.stage = s]
  OBVIOUS
<1>3. q \in [key : Messages, stage : RunStage] /\ q.key = r.key /\ q.stage = s
  BY <1>1, <1>2
<1>4. run' = [run EXCEPT ![w] = q]
  BY <1>1, <1>2 DEF Go
<1>5. q # Idle
  BY <1>3 DEF Idle, EmailAssumption
<1>6. QED BY <1>1, <1>3, <1>4, <1>5 DEF EmailTypeOK

(* A worker that ends its run, or dies, idles. *)
LEMMA IdleFacts ==
  ASSUME EmailTypeOK, NEW w \in Workers, run' = [run EXCEPT ![w] = Idle]
  PROVE  /\ run' \in [Workers -> [key : Messages, stage : RunStage] \cup {Idle}]
         /\ run'[w] = Idle
         /\ \A v \in Workers : v # w => run'[v] = run[v]
  BY DEF EmailTypeOK

(* What is recorded of a message: unchanged, or moved to a higher rank with *)
(* the columns that belong to it.                                           *)
Recorded(k) ==
  /\ delivery' \in [Messages -> MessageStatus \cup {"none"}]
  /\ tries' \in [Messages -> 0..2]
  /\ failed' \subseteq Messages
  /\ \A j \in Messages \ {k} :
       /\ delivery'[j] = delivery[j] /\ tries'[j] = tries[j]
       /\ j \in failed' <=> j \in failed
  /\ delivery[k] \in MessageStatus /\ delivery'[k] # delivery[k]
       => delivery'[k] \in MessageStatus /\ Rank[delivery'[k]] > Rank[delivery[k]]
  /\ ColumnsAgree'

(* The record moves forward and its columns with it, whoever writes it: a   *)
(* failure after a failure and a success after a success match no row.      *)
LEMMA AdvanceFacts ==
  ASSUME EmailTypeOK, ColumnsAgree, NEW k \in Messages, delivery[k] # "none",
         NEW s \in MessageStatus, NEW more, NEW failures,
         Advance(k, s, more, failures),
         \/ s = "EXPIRED" /\ more = 0 /\ failures = failed
         \/ s = "SENT" /\ more = 1 /\ failures = failed \ {k}
         \/ s = "FAILED" /\ more = 1 /\ failures = failed \cup {k}
  PROVE  /\ Recorded(k)
         /\ delivery'[k] = "SENT" => delivery[k] = "SENT" \/ s = "SENT"
         /\ delivery'[k] # "none"
<1>1. CASE Below(k, s)
  <2>1. /\ delivery' = [delivery EXCEPT ![k] = s]
        /\ tries' = [tries EXCEPT ![k] = @ + more]
        /\ failed' = failures
    BY <1>1 DEF Advance
  <2>2. /\ delivery' \in [Messages -> MessageStatus \cup {"none"}] /\ delivery'[k] = s
        /\ \A j \in Messages \ {k} : delivery'[j] = delivery[j]
    BY <2>1 DEF EmailTypeOK
  <2>3. delivery[k] = "QUEUED" \/ (s = "SENT" /\ delivery[k] \in {"FAILED", "EXPIRED"})
    BY <1>1, Ranks DEF Below, EmailTypeOK
  <2>4. tries[k] = 0 \/ (tries[k] = 1 /\ s = "SENT")
    BY <2>3 DEF ColumnsAgree, EmailTypeOK
  <2>5. tries[k] + more \in 0..2 /\ tries'[k] = tries[k] + more
    BY <2>1, <2>4 DEF EmailTypeOK
  <2>6. /\ tries' \in [Messages -> 0..2]
        /\ \A j \in Messages \ {k} : tries'[j] = tries[j]
    BY <2>1, <2>5 DEF EmailTypeOK
  <2>7. /\ failed' \subseteq Messages
        /\ \A j \in Messages \ {k} : j \in failed' <=> j \in failed
    BY <2>1 DEF EmailTypeOK
  <2>8. \A j \in Messages \ {k} :
          /\ delivery'[j] \in {"none", "QUEUED", "EXPIRED"} => tries'[j] = 0 /\ j \notin failed'
          /\ delivery'[j] = "FAILED" => tries'[j] = 1 /\ j \in failed'
          /\ delivery'[j] = "SENT" => tries'[j] \in {1, 2} /\ j \notin failed'
    BY <2>2, <2>6, <2>7 DEF ColumnsAgree
  <2>9. /\ s = "EXPIRED" => tries'[k] = 0 /\ k \notin failed'
        /\ s = "FAILED" => tries'[k] = 1 /\ k \in failed'
        /\ s = "SENT" => tries'[k] \in {1, 2} /\ k \notin failed'
    <3>1. CASE s = "EXPIRED"
      BY <2>1, <2>3, <2>4, <2>5, <3>1 DEF ColumnsAgree
    <3>2. CASE s # "EXPIRED"
      BY <2>1, <2>4, <2>5, <3>2
    <3>3. QED BY <3>1, <3>2
  <2>10. ColumnsAgree'
    BY <2>2, <2>8, <2>9, Ranks DEF ColumnsAgree
  <2>11. Rank[delivery'[k]] > Rank[delivery[k]]
    BY <1>1, <2>2, <2>3, Ranks DEF Below
  <2>12. QED BY <2>2, <2>6, <2>7, <2>10, <2>11, Ranks DEF Recorded
<1>2. CASE ~Below(k, s)
  <2>1. UNCHANGED messageVars
    BY <1>2 DEF Advance
  <2>2. QED BY <2>1 DEF messageVars, Recorded, EmailTypeOK, ColumnsAgree
<1>3. QED BY <1>1, <1>2

(* A step of a run that goes on: it writes at most its own message's record *)
(* and the provider's side.                                                 *)
LEMMA GoKeeps ==
  ASSUME EmailAssumption, EmailInv, NEW w \in Workers, run[w] # Idle, NEW s \in RunStage,
         Go(w, s), UNCHANGED <<outboxVars, jobVars>>,
         deadline' \in [Messages -> {"never", "ahead", "passed"}],
         Recorded(run[w].key) \/ UNCHANGED messageVars,
         delivery'[run[w].key] # "none",
         delivery'[run[w].key] = "SENT" =>
           delivery[run[w].key] = "SENT" \/ run[w].key \in accepted',
         accepted \subseteq accepted', accepted' \subseteq Messages,
         unanswered' \subseteq Messages, emailFaults' \in 0..MaxEmailFaults,
         s = "accepted" => run[w].key \in accepted'
  PROVE  EmailInv'
<1> USE DEF EmailInv
<1>1. PICK k \in Messages : k = run[w].key
  BY RunFacts
<1>2. /\ run' \in [Workers -> [key : Messages, stage : RunStage] \cup {Idle}]
      /\ run'[w] # Idle /\ run'[w].key = k /\ run'[w].stage = s
      /\ \A v \in Workers : v # w => run'[v] = run[v]
  BY <1>1, GoFacts
<1>3. /\ delivery' \in [Messages -> MessageStatus \cup {"none"}]
      /\ tries' \in [Messages -> 0..2]
      /\ failed' \subseteq Messages
      /\ \A j \in Messages \ {k} : delivery'[j] = delivery[j]
      /\ ColumnsAgree'
  <2>1. CASE Recorded(k)
    BY <2>1 DEF Recorded
  <2>2. CASE UNCHANGED messageVars
    BY <2>2 DEF messageVars, EmailTypeOK, ColumnsAgree
  <2>3. QED BY <1>1, <2>1, <2>2
<1>4. EmailTypeOK'
  BY <1>2, <1>3 DEF EmailTypeOK, outboxVars, jobVars, Promised!Promises, Promised!Settled
<1>5. SentWasAccepted'
  BY <1>1, <1>3 DEF SentWasAccepted
<1>6. ReceiptIsOfAccepted'
  <2>1. ASSUME NEW v \in Workers, run'[v] # Idle, run'[v].stage = "accepted"
        PROVE  run'[v].key \in accepted'
    <3>1. CASE v = w
      BY <1>1, <1>2, <2>1, <3>1
    <3>2. CASE v # w
      BY <1>2, <2>1, <3>2 DEF ReceiptIsOfAccepted, At
    <3>3. QED BY <3>1, <3>2
  <2>2. QED BY <2>1 DEF ReceiptIsOfAccepted, At, Idle
<1>7. OnlyActiveIsHeld' /\ RunsRemain'
  BY DEF OnlyActiveIsHeld, RunsRemain, jobVars
<1>8. NothingBeforeTheRecord'
  <2>1. \A j \in Messages : delivery'[j] = "none" => delivery[j] = "none"
    BY <1>1, <1>3
  <2>2. ASSUME NEW v \in Workers, run'[v] # Idle
        PROVE  delivery'[run'[v].key] # "none"
    <3>1. CASE v = w
      BY <1>1, <1>2, <3>1
    <3>2. CASE v # w
      <4>1. run'[v] = run[v] /\ run[v].key \in Messages
        BY <1>2, <2>2, <3>2, RunFacts
      <4>2. delivery[run[v].key] # "none"
        BY <2>2, <4>1 DEF NothingBeforeTheRecord
      <4>3. QED BY <2>1, <4>1, <4>2
    <3>3. QED BY <3>1, <3>2
  <2>3. QED BY <2>1, <2>2 DEF NothingBeforeTheRecord, outboxVars, jobVars, Idle
<1>9. QED BY <1>3, <1>4, <1>5, <1>6, <1>7, <1>8

(* A step that ends a run: what becomes of the job is for its holder. *)
LEMMA EndKeeps ==
  ASSUME EmailAssumption, EmailInv, NEW w \in Workers, run' = [run EXCEPT ![w] = Idle],
         UNCHANGED <<outboxVars, messageVars, deadline, accepted>>,
         unanswered' \subseteq Messages, emailFaults' \in 0..MaxEmailFaults,
         job' \in [Messages -> {"none", "waiting", "active", "failed"}],
         holder' \in [Messages -> Workers \cup {Nobody}],
         made' \in [Messages -> 0..JobAttempts],
         stalls' \in [Messages -> 0..MaxStalls + 1],
         OnlyActiveIsHeld', RunsRemain',
         \A k \in Messages : job'[k] # "none" => job[k] # "none"
  PROVE  EmailInv'
<1> USE DEF EmailInv
<1>1. /\ run' \in [Workers -> [key : Messages, stage : RunStage] \cup {Idle}]
      /\ run'[w] = Idle
      /\ \A v \in Workers : v # w => run'[v] = run[v]
  BY IdleFacts
<1>2. EmailTypeOK'
  BY <1>1 DEF EmailTypeOK, outboxVars, messageVars, Promised!Promises, Promised!Settled
<1>3. SentWasAccepted' /\ ColumnsAgree'
  BY DEF SentWasAccepted, ColumnsAgree, messageVars
<1>4. ReceiptIsOfAccepted'
  BY <1>1 DEF ReceiptIsOfAccepted, At, Idle
<1>5. NothingBeforeTheRecord'
  BY <1>1 DEF NothingBeforeTheRecord, outboxVars, messageVars, Idle
<1>6. QED BY <1>2, <1>3, <1>4, <1>5

LEMMA OthersKeep ==
  ASSUME EmailAssumption, EmailInv, UNCHANGED <<messageVars, run>>,
         promise' \in [Messages -> Promised!Promises], handed' \subseteq Messages,
         adds' \in [Messages -> 0..MaxAdds],
         deadline' \in [Messages -> {"never", "ahead", "passed"}],
         accepted \subseteq accepted', accepted' \subseteq Messages,
         unanswered' \subseteq Messages, emailFaults' \in 0..MaxEmailFaults,
         job' \in [Messages -> {"none", "waiting", "active", "failed"}],
         holder' \in [Messages -> Workers \cup {Nobody}],
         made' \in [Messages -> 0..JobAttempts],
         stalls' \in [Messages -> 0..MaxStalls + 1],
         OnlyActiveIsHeld', RunsRemain',
         \A k \in Messages : delivery[k] = "none" => promise'[k] = "none" /\ job'[k] = "none"
  PROVE  EmailInv'
<1> USE DEF EmailInv
<1>1. EmailTypeOK'
  BY DEF EmailTypeOK, messageVars, Promised!Promises, Promised!Settled
<1>2. SentWasAccepted' /\ ColumnsAgree'
  BY DEF SentWasAccepted, ColumnsAgree, messageVars
<1>3. ReceiptIsOfAccepted'
  BY DEF ReceiptIsOfAccepted, At, Idle
<1>4. NothingBeforeTheRecord'
  BY DEF NothingBeforeTheRecord, messageVars, Idle
<1>5. QED BY <1>1, <1>2, <1>3, <1>4

(* The record is made with the job's promise. *)
LEMMA SendEmailKeeps ==
  ASSUME EmailAssumption, EmailInv, NEW k \in Messages, NEW e \in {"never", "ahead"},
         SendEmail(k, e)
  PROVE  EmailInv'
<1> USE DEF EmailInv
<1>1. /\ delivery' = [delivery EXCEPT ![k] = "QUEUED"]
      /\ deadline' = [deadline EXCEPT ![k] = e]
      /\ promise' = [promise EXCEPT ![k] = "open"] /\ handed' = handed
      /\ UNCHANGED <<tries, failed, adds, jobVars, run, providerVars, emailFaults>>
      /\ delivery[k] = "none"
  BY DEF SendEmail, Promised!Make
<1>2. EmailTypeOK'
  BY <1>1, Ranks DEF EmailTypeOK, jobVars, providerVars, Promised!Promises, Promised!Settled
<1>3. ColumnsAgree'
  BY <1>1 DEF ColumnsAgree, EmailTypeOK
<1>4. SentWasAccepted'
  BY <1>1 DEF SentWasAccepted, EmailTypeOK, providerVars
<1>5. ReceiptIsOfAccepted' /\ OnlyActiveIsHeld' /\ RunsRemain'
  BY <1>1 DEF ReceiptIsOfAccepted, OnlyActiveIsHeld, RunsRemain, At, Idle, providerVars, jobVars
<1>6. NothingBeforeTheRecord'
  <2>1. \A j \in Messages : delivery'[j] = "none" => j # k /\ delivery[j] = "none"
    BY <1>1 DEF EmailTypeOK
  <2>2. \A j \in Messages : delivery'[j] = "none" => promise'[j] = "none" /\ job'[j] = "none"
    BY <1>1, <2>1 DEF NothingBeforeTheRecord, EmailTypeOK, jobVars
  <2>3. ASSUME NEW v \in Workers, run[v] # Idle PROVE delivery'[run[v].key] # "none"
    BY <1>1, <2>1, <2>3, RunFacts DEF NothingBeforeTheRecord
  <2>4. QED BY <1>1, <2>2, <2>3 DEF NothingBeforeTheRecord, Idle
<1>7. QED BY <1>2, <1>3, <1>4, <1>5, <1>6

(* What the outbox does with the job, and what time and the provider do.    *)
LEMMA EnqueueKeeps ==
  ASSUME EmailAssumption, EmailInv, NEW k \in Messages, Enqueue(k)
  PROVE  EmailInv'
<1> USE DEF EmailInv
<1>1. /\ adds[k] < MaxAdds /\ adds' = [adds EXCEPT ![k] = @ + 1]
      /\ promise[k] # "none" /\ promise' = promise /\ handed' = handed \cup {k}
      /\ UNCHANGED <<messageVars, deadline, run, providerVars, emailFaults>>
  BY DEF Enqueue, Promised!HandOver
<1>2. adds' \in [Messages -> 0..MaxAdds]
  BY <1>1 DEF EmailTypeOK, EmailAssumption
<1>3. delivery[k] # "none"
  BY <1>1 DEF NothingBeforeTheRecord
<1>4. /\ job' \in [Messages -> {"none", "waiting", "active", "failed"}]
      /\ holder' \in [Messages -> Workers \cup {Nobody}]
      /\ made' \in [Messages -> 0..JobAttempts]
      /\ stalls' \in [Messages -> 0..MaxStalls + 1]
      /\ OnlyActiveIsHeld' /\ RunsRemain'
      /\ \A j \in Messages : j # k => job'[j] = job[j]
  <2>1. CASE job[k] = "none"
    <3>1. /\ job' = [job EXCEPT ![k] = "waiting"] /\ made' = [made EXCEPT ![k] = 0]
          /\ stalls' = [stalls EXCEPT ![k] = 0] /\ holder' = holder
      BY <2>1 DEF Enqueue
    <3>2. holder[k] = Nobody
      BY <2>1 DEF OnlyActiveIsHeld
    <3>3. QED
      BY <3>1, <3>2 DEF EmailTypeOK, EmailAssumption, OnlyActiveIsHeld, RunsRemain
  <2>2. CASE job[k] # "none"
    BY <2>2 DEF Enqueue, jobVars, EmailTypeOK, OnlyActiveIsHeld, RunsRemain
  <2>3. QED BY <2>1, <2>2
<1>5. QED
  BY <1>1, <1>2, <1>3, <1>4, OthersKeep DEF EmailTypeOK, providerVars, NothingBeforeTheRecord

LEMMA AroundKeeps ==
  ASSUME EmailAssumption, EmailInv, NEW k \in Messages,
         Settle(k) \/ AcceptLate(k) \/ Forget(k) \/ MessageExpires(k)
  PROVE  EmailInv'
<1> USE DEF EmailInv
<1>1. CASE Settle(k)
  <2>1. PICK s \in Promised!Settled : promise' = [promise EXCEPT ![k] = s]
    BY <1>1 DEF Settle, Promised!Settle
  <2>2. promise[k] = "open" /\ promise' \in [Messages -> Promised!Promises]
    BY <1>1, <2>1 DEF Settle, Promised!Settle, EmailTypeOK, Promised!Promises
  <2>3. UNCHANGED <<handed, adds, messageVars, deadline, jobVars, run, providerVars, emailFaults>>
    BY <1>1 DEF Settle, Promised!Settle
  <2>4. \A j \in Messages : delivery[j] = "none" => promise'[j] = "none" /\ job'[j] = "none"
    BY <2>1, <2>2, <2>3 DEF NothingBeforeTheRecord, jobVars, EmailTypeOK
  <2>5. QED
    BY <2>2, <2>3, <2>4, OthersKeep
       DEF EmailTypeOK, jobVars, providerVars, OnlyActiveIsHeld, RunsRemain
<1>2. CASE AcceptLate(k)
  BY <1>2, OthersKeep DEF AcceptLate, EmailTypeOK, outboxVars, messageVars, jobVars,
     providerVars, OnlyActiveIsHeld, RunsRemain, NothingBeforeTheRecord
<1>3. CASE Forget(k)
  <2>1. /\ job' = [job EXCEPT ![k] = "none"] /\ job[k] = "failed"
        /\ UNCHANGED <<outboxVars, messageVars, deadline, holder, made, stalls, run,
                       providerVars, emailFaults>>
    BY <1>3 DEF Forget
  <2>2. OnlyActiveIsHeld' /\ RunsRemain'
    BY <2>1 DEF OnlyActiveIsHeld, RunsRemain, EmailTypeOK
  <2>3. QED
    BY <2>1, <2>2, OthersKeep DEF EmailTypeOK, outboxVars, providerVars, NothingBeforeTheRecord
<1>4. CASE MessageExpires(k)
  BY <1>4, OthersKeep DEF MessageExpires, EmailTypeOK, outboxVars, jobVars,
     providerVars, OnlyActiveIsHeld, RunsRemain, NothingBeforeTheRecord
<1>5. QED BY <1>1, <1>2, <1>3, <1>4

(* A stall takes the lock from its holder and counts against the job. *)
LEMMA StallKeeps ==
  ASSUME EmailAssumption, EmailInv, NEW k \in Messages, Stall(k)
  PROVE  EmailInv'
<1> USE DEF EmailInv
<1>1. /\ job[k] = "active"
      /\ emailFaults' \in 0..MaxEmailFaults
      /\ stalls' = [stalls EXCEPT ![k] = @ + 1]
      /\ job' = [job EXCEPT ![k] = IF stalls[k] >= MaxStalls THEN "failed" ELSE "waiting"]
      /\ holder' = [holder EXCEPT ![k] = Nobody]
      /\ UNCHANGED <<outboxVars, messageVars, deadline, made, run, providerVars>>
  BY DEF Stall, EmailFault, EmailTypeOK, EmailAssumption
<1>2. made[k] < JobAttempts /\ stalls[k] <= MaxStalls
  BY <1>1 DEF RunsRemain
<1>3. PICK s \in {"failed", "waiting"} :
        /\ job' = [job EXCEPT ![k] = s]
        /\ s = "waiting" => stalls[k] < MaxStalls
  <2>1. stalls[k] \in Nat /\ MaxStalls \in Nat
    BY DEF EmailTypeOK, EmailAssumption
  <2>2. CASE stalls[k] >= MaxStalls
    BY <1>1, <2>2
  <2>3. CASE stalls[k] < MaxStalls
    <3>1. ~(stalls[k] >= MaxStalls)
      BY <2>1, <2>3
    <3>2. job' = [job EXCEPT ![k] = "waiting"]
      BY <1>1, <3>1
    <3>3. QED BY <2>3, <3>2
  <2>4. QED BY <2>1, <2>2, <2>3
<1>4. /\ job' \in [Messages -> {"none", "waiting", "active", "failed"}]
      /\ holder' \in [Messages -> Workers \cup {Nobody}]
      /\ stalls' \in [Messages -> 0..MaxStalls + 1]
  BY <1>1, <1>2, <1>3 DEF EmailTypeOK, EmailAssumption
<1>5. OnlyActiveIsHeld' /\ RunsRemain'
  BY <1>1, <1>2, <1>3 DEF EmailTypeOK, EmailAssumption, OnlyActiveIsHeld, RunsRemain
<1>6. \A j \in Messages : delivery[j] = "none" => promise'[j] = "none" /\ job'[j] = "none"
  BY <1>1, <1>3 DEF NothingBeforeTheRecord, outboxVars, EmailTypeOK
<1>7. QED
  BY <1>1, <1>4, <1>5, <1>6, OthersKeep DEF EmailTypeOK, outboxVars, providerVars

LEMMA TakeKeeps ==
  ASSUME EmailAssumption, EmailInv, NEW w \in Workers, NEW k \in Messages, Take(w, k)
  PROVE  EmailInv'
<1> USE DEF EmailInv
<1>1. /\ run[w] = Idle /\ job[k] = "waiting"
      /\ job' = [job EXCEPT ![k] = "active"]
      /\ holder' = [holder EXCEPT ![k] = w]
      /\ run' = [run EXCEPT ![w] = [key |-> k, stage |-> "started"]]
      /\ UNCHANGED <<outboxVars, messageVars, deadline, made, stalls, providerVars, emailFaults>>
  BY DEF Take
<1>2. PICK r : r = [key |-> k, stage |-> "started"]
  OBVIOUS
<1>3. r \in [key : Messages, stage : RunStage] /\ r.key = k /\ r.stage = "started"
  BY <1>2 DEF RunStage
<1>4. /\ run' \in [Workers -> [key : Messages, stage : RunStage] \cup {Idle}] /\ run'[w] = r
      /\ \A v \in Workers : v # w => run'[v] = run[v]
  BY <1>1, <1>2, <1>3 DEF EmailTypeOK
<1>5. EmailTypeOK'
  BY <1>1, <1>4 DEF EmailTypeOK, outboxVars, messageVars, providerVars,
     Promised!Promises, Promised!Settled
<1>6. SentWasAccepted' /\ ColumnsAgree'
  BY <1>1 DEF SentWasAccepted, ColumnsAgree, messageVars, providerVars
<1>7. ReceiptIsOfAccepted'
  BY <1>1, <1>3, <1>4 DEF ReceiptIsOfAccepted, At, Idle, providerVars
<1>8. OnlyActiveIsHeld' /\ RunsRemain'
  BY <1>1 DEF OnlyActiveIsHeld, RunsRemain, EmailTypeOK
<1>9. NothingBeforeTheRecord'
  <2>1. delivery[k] # "none"
    BY <1>1 DEF NothingBeforeTheRecord
  <2>2. \A j \in Messages : delivery'[j] = "none" => promise'[j] = "none" /\ job'[j] = "none"
    BY <1>1, <2>1 DEF NothingBeforeTheRecord, outboxVars, messageVars, EmailTypeOK
  <2>3. \A v \in Workers : run'[v] # Idle => delivery'[run'[v].key] # "none"
    BY <1>1, <1>3, <1>4, <2>1 DEF NothingBeforeTheRecord, messageVars
  <2>4. QED BY <2>2, <2>3 DEF NothingBeforeTheRecord, Idle
<1>10. QED BY <1>5, <1>6, <1>7, <1>8, <1>9

(* The handler's own steps. *)
LEMMA HandlerKeeps ==
  ASSUME EmailAssumption, EmailInv, NEW w \in Workers,
         \/ FindExpired(w) \/ BeginSend(w) \/ RecordSent(w) \/ RecordFailed(w)
         \/ RecordNotWritten(w)
         \/ \E receipt \in BOOLEAN : Accept(w, receipt)
         \/ \E forGood, timedOut \in BOOLEAN : Refuse(w, forGood, timedOut)
  PROVE  /\ EmailInv'
         /\ Recorded(run[w].key) \/ UNCHANGED messageVars
<1> USE DEF EmailInv
<1>1. run[w] # Idle
  BY DEF FindExpired, BeginSend, RecordSent, RecordFailed, RecordNotWritten, Accept, Refuse, At
<1>2. PICK k \in Messages : k = run[w].key
  BY <1>1, RunFacts
<1>3. delivery[k] # "none"
  BY <1>1, <1>2 DEF NothingBeforeTheRecord
<1>4. RunStage = {"started", "sending", "accepted", "refused", "rejected", "done", "threw",
                  "threwForGood"}
  BY DEF RunStage
<1>5. "EXPIRED" \in MessageStatus /\ "SENT" \in MessageStatus /\ "FAILED" \in MessageStatus
  BY Ranks
<1>6. ASSUME NEW s \in RunStage, Go(w, s), UNCHANGED <<outboxVars, deadline, jobVars>>,
             \/ UNCHANGED messageVars
             \/ /\ Recorded(k) /\ delivery'[k] # "none"
                /\ delivery'[k] = "SENT" => delivery[k] = "SENT" \/ k \in accepted',
             accepted \subseteq accepted', accepted' \subseteq Messages,
             unanswered' \subseteq Messages, emailFaults' \in 0..MaxEmailFaults,
             s = "accepted" => k \in accepted'
      PROVE  EmailInv'
  <2>1. deadline' \in [Messages -> {"never", "ahead", "passed"}]
    BY <1>6 DEF EmailTypeOK
  <2>2. /\ Recorded(run[w].key) \/ UNCHANGED messageVars
        /\ delivery'[run[w].key] # "none"
        /\ delivery'[run[w].key] = "SENT" =>
             delivery[run[w].key] = "SENT" \/ run[w].key \in accepted'
    BY <1>2, <1>3, <1>6 DEF messageVars
  <2>3. QED BY <1>1, <1>2, <1>6, <2>1, <2>2, GoKeeps
<1>7. CASE FindExpired(w)
  <2>1. /\ Advance(k, "EXPIRED", 0, failed) /\ Go(w, "done")
        /\ UNCHANGED <<outboxVars, deadline, jobVars, providerVars, emailFaults>>
    BY <1>2, <1>7 DEF FindExpired
  <2>2. Recorded(k) /\ delivery'[k] # "none" /\ (delivery'[k] = "SENT" => delivery[k] = "SENT")
    BY <1>3, <1>5, <2>1, AdvanceFacts
  <2>3. EmailInv'
    BY <1>4, <1>6, <2>1, <2>2 DEF EmailTypeOK, providerVars
  <2>4. QED BY <1>2, <2>2, <2>3
<1>8. CASE BeginSend(w)
  BY <1>4, <1>6, <1>8 DEF BeginSend, EmailTypeOK, providerVars
<1>9. CASE RecordSent(w)
  <2>1. /\ Advance(k, "SENT", 1, failed \ {k}) /\ Go(w, "done")
        /\ UNCHANGED <<outboxVars, deadline, jobVars, providerVars, emailFaults>>
        /\ k \in accepted
    BY <1>2, <1>9 DEF RecordSent, ReceiptIsOfAccepted
  <2>2. Recorded(k) /\ delivery'[k] # "none"
    BY <1>3, <1>5, <2>1, AdvanceFacts
  <2>3. EmailInv'
    BY <1>4, <1>6, <2>1, <2>2 DEF EmailTypeOK, providerVars
  <2>4. QED BY <1>2, <2>2, <2>3
<1>10. CASE RecordFailed(w)
  <2>1. /\ Advance(k, "FAILED", 1, failed \cup {k})
        /\ UNCHANGED <<outboxVars, deadline, jobVars, providerVars, emailFaults>>
    BY <1>2, <1>10 DEF RecordFailed
  <2>2. Recorded(k) /\ delivery'[k] # "none" /\ (delivery'[k] = "SENT" => delivery[k] = "SENT")
    BY <1>3, <1>5, <2>1, AdvanceFacts
  <2>3. PICK s \in {"threw", "threwForGood"} : Go(w, s)
    BY <1>10 DEF RecordFailed, Rethrow
  <2>4. EmailInv'
    BY <1>4, <1>6, <2>1, <2>2, <2>3 DEF EmailTypeOK, providerVars
  <2>5. QED BY <1>2, <2>2, <2>4
<1>11. CASE RecordNotWritten(w)
  <2>1. PICK s \in {"refused", "threw"} : Go(w, s)
    BY <1>11 DEF RecordNotWritten
  <2>2. /\ UNCHANGED <<outboxVars, messageVars, deadline, jobVars, providerVars>>
        /\ emailFaults' \in 0..MaxEmailFaults
    BY <1>11 DEF RecordNotWritten, EmailFault, EmailTypeOK, EmailAssumption
  <2>3. QED BY <1>4, <1>6, <2>1, <2>2 DEF EmailTypeOK, providerVars
<1>12. ASSUME NEW receipt \in BOOLEAN, Accept(w, receipt)
       PROVE  EmailInv' /\ UNCHANGED messageVars
  <2>1. PICK s \in {"accepted", "rejected"} : Go(w, s)
    BY <1>12 DEF Accept
  <2>2. /\ accepted' = accepted \cup {k}
        /\ UNCHANGED <<outboxVars, messageVars, deadline, jobVars, unanswered, emailFaults>>
    BY <1>2, <1>12 DEF Accept
  <2>3. QED BY <1>4, <1>6, <2>1, <2>2 DEF EmailTypeOK
<1>13. ASSUME NEW forGood \in BOOLEAN, NEW timedOut \in BOOLEAN, Refuse(w, forGood, timedOut)
       PROVE  EmailInv' /\ UNCHANGED messageVars
  <2>1. PICK s \in {"refused", "rejected"} : Go(w, s)
    BY <1>13 DEF Refuse
  <2>2. /\ unanswered' \subseteq Messages
        /\ UNCHANGED <<outboxVars, messageVars, deadline, jobVars, accepted, emailFaults>>
    BY <1>2, <1>13 DEF Refuse, EmailTypeOK
  <2>3. QED BY <1>4, <1>6, <2>1, <2>2 DEF EmailTypeOK
<1>14. QED
  BY <1>7, <1>8, <1>9, <1>10, <1>11, <1>12, <1>13

(* Only the lock's holder moves the job; a run that has lost it ends for    *)
(* itself.                                                                  *)
LEMMA EndsKeep ==
  ASSUME EmailAssumption, EmailInv, NEW w \in Workers, Complete(w) \/ Fail(w) \/ WorkerDies(w)
  PROVE  EmailInv' /\ UNCHANGED messageVars
<1> USE DEF EmailInv
<1>1. run[w] # Idle /\ run' = [run EXCEPT ![w] = Idle] /\ UNCHANGED messageVars
  BY DEF Complete, Fail, WorkerDies, At
<1>2. PICK k \in Messages : k = run[w].key
  BY <1>1, RunFacts
<1>3. ASSUME NEW next \in {"none", "waiting", "failed"}, Release(w, next),
             stalls' = stalls,
             holder[k] # w => made' = made,
             holder[k] = w => \/ made' = [made EXCEPT ![k] = @ + 1]
                              \/ made' = made /\ next = "none",
             next = "waiting" => made[k] + 1 < JobAttempts
      PROVE  /\ job' \in [Messages -> {"none", "waiting", "active", "failed"}]
             /\ holder' \in [Messages -> Workers \cup {Nobody}]
             /\ made' \in [Messages -> 0..JobAttempts]
             /\ stalls' \in [Messages -> 0..MaxStalls + 1]
             /\ OnlyActiveIsHeld' /\ RunsRemain'
             /\ \A j \in Messages : job'[j] # "none" => job[j] # "none"
  <2>1. CASE holder[k] = w
    <3>1. job' = [job EXCEPT ![k] = next] /\ holder' = [holder EXCEPT ![k] = Nobody]
      BY <1>2, <1>3, <2>1 DEF Release
    <3>2. job[k] = "active" /\ made[k] < JobAttempts /\ stalls[k] <= MaxStalls
      BY <2>1 DEF OnlyActiveIsHeld, RunsRemain, EmailAssumption
    <3>3. made' \in [Messages -> 0..JobAttempts]
      BY <1>3, <2>1, <3>2 DEF EmailTypeOK, EmailAssumption
    <3>4. \A j \in Messages : j # k => made'[j] = made[j]
      BY <1>3, <2>1 DEF EmailTypeOK
    <3>5. next = "waiting" => made'[k] < JobAttempts
      BY <1>3, <2>1 DEF EmailTypeOK
    <3>6. OnlyActiveIsHeld' /\ RunsRemain'
      BY <1>3, <3>1, <3>2, <3>4, <3>5 DEF EmailTypeOK, OnlyActiveIsHeld, RunsRemain
    <3>7. QED BY <1>3, <3>1, <3>2, <3>3, <3>6 DEF EmailTypeOK
  <2>2. CASE holder[k] # w
    BY <1>2, <1>3, <2>2 DEF Release, EmailTypeOK, OnlyActiveIsHeld, RunsRemain
  <2>3. QED BY <2>1, <2>2
<1>4. CASE Complete(w)
  <2>1. Release(w, "none")
        /\ UNCHANGED <<outboxVars, messageVars, deadline, made, stalls, providerVars, emailFaults>>
    BY <1>4 DEF Complete
  <2>2. QED BY <1>1, <1>3, <2>1, EndKeeps DEF EmailTypeOK, providerVars
<1>5. CASE Fail(w)
  <2>1. PICK next \in {"waiting", "failed"} :
          /\ Release(w, next)
          /\ next = "waiting" => ~(made[k] + 1 >= JobAttempts)
    BY <1>2, <1>5 DEF Fail
  <2>2. made[k] \in Nat /\ JobAttempts \in Nat
    BY DEF EmailTypeOK, EmailAssumption
  <2>3. next = "waiting" => made[k] + 1 < JobAttempts
    BY <2>1, <2>2
  <2>4. made' = [made EXCEPT ![k] = IF holder[k] = w THEN made[k] + 1 ELSE made[k]]
    BY <1>2, <1>5 DEF Fail
  <2>5. holder[k] # w => made' = made
    BY <2>4 DEF EmailTypeOK
  <2>6. holder[k] = w => made' = [made EXCEPT ![k] = @ + 1]
    BY <2>4
  <2>7. UNCHANGED <<outboxVars, messageVars, deadline, stalls, providerVars, emailFaults>>
    BY <1>5 DEF Fail
  <2>8. QED BY <1>1, <1>3, <2>1, <2>3, <2>5, <2>6, <2>7, EndKeeps DEF EmailTypeOK, providerVars
<1>6. CASE WorkerDies(w)
  <2>1. /\ UNCHANGED <<outboxVars, messageVars, deadline, jobVars, accepted>>
        /\ emailFaults' \in 0..MaxEmailFaults
        /\ unanswered' \subseteq Messages
    BY <1>2, <1>6 DEF WorkerDies, EmailFault, EmailTypeOK, EmailAssumption
  <2>2. OnlyActiveIsHeld' /\ RunsRemain'
    BY <2>1 DEF OnlyActiveIsHeld, RunsRemain, jobVars
  <2>3. QED BY <1>1, <2>1, <2>2, EndKeeps DEF EmailTypeOK, jobVars
<1>7. QED BY <1>4, <1>5, <1>6

(* OnlyMovesForward, of one step. *)
Forward ==
  \A k \in Messages : delivery[k] \in MessageStatus /\ delivery'[k] # delivery[k]
    => Rank[delivery'[k]] > Rank[delivery[k]]

LEMMA EmailInitInv == ASSUME EmailAssumption, EmailInit PROVE EmailInv
<1>1. EmailTypeOK
  BY DEF EmailInit, EmailTypeOK, EmailAssumption, Promised!Promises
<1>2. SentWasAccepted /\ ColumnsAgree
  BY DEF EmailInit, SentWasAccepted, ColumnsAgree
<1>3. ReceiptIsOfAccepted /\ OnlyActiveIsHeld /\ RunsRemain /\ NothingBeforeTheRecord
  BY DEF EmailInit, ReceiptIsOfAccepted, At, OnlyActiveIsHeld, RunsRemain, NothingBeforeTheRecord
<1>4. QED BY <1>1, <1>2, <1>3 DEF EmailInv

LEMMA EmailStep ==
  ASSUME EmailAssumption, EmailInv, [EmailNext]_emailVars
  PROVE  EmailInv' /\ Forward
<1>1. ASSUME NEW k \in Messages, NEW e \in {"never", "ahead"}, SendEmail(k, e)
      PROVE  EmailInv' /\ Forward
  <2>1. "none" \notin MessageStatus
    BY Ranks
  <2>2. delivery[k] = "none" /\ delivery' = [delivery EXCEPT ![k] = "QUEUED"]
    BY <1>1 DEF SendEmail
  <2>3. Forward
    BY <2>1, <2>2 DEF Forward, EmailInv, EmailTypeOK
  <2>4. QED BY <1>1, <2>3, SendEmailKeeps
<1>2. ASSUME NEW k \in Messages,
             \/ Enqueue(k) \/ Settle(k) \/ AcceptLate(k)
             \/ Stall(k) \/ Forget(k) \/ MessageExpires(k)
      PROVE  EmailInv' /\ Forward
  <2>1. delivery' = delivery
    BY <1>2 DEF Enqueue, Settle, AcceptLate, Stall, Forget, MessageExpires, messageVars
  <2>2. QED BY <1>2, <2>1, EnqueueKeeps, AroundKeeps, StallKeeps DEF Forward
<1>3. ASSUME NEW w \in Workers, NEW k \in Messages, Take(w, k)
      PROVE  EmailInv' /\ Forward
  BY <1>3, TakeKeeps DEF Forward, Take, messageVars
<1>4. ASSUME NEW w \in Workers, WorkerStep(w) \/ RecordNotWritten(w) \/ WorkerDies(w)
      PROVE  EmailInv' /\ Forward
  <2>1. CASE Complete(w) \/ Fail(w) \/ WorkerDies(w)
    BY <2>1, EndsKeep DEF Forward, messageVars
  <2>2. CASE ~(Complete(w) \/ Fail(w) \/ WorkerDies(w))
    <3>1. /\ EmailInv'
          /\ Recorded(run[w].key) \/ UNCHANGED messageVars
      BY <1>4, <2>2, HandlerKeeps DEF WorkerStep
    <3>2. Forward
      BY <3>1 DEF Forward, Recorded, messageVars
    <3>3. QED BY <3>1, <3>2
  <2>3. QED BY <2>1, <2>2
<1>5. CASE UNCHANGED emailVars
  BY <1>5 DEF emailVars, messageVars, outboxVars, jobVars, providerVars, EmailInv, EmailTypeOK,
     SentWasAccepted, ColumnsAgree, ReceiptIsOfAccepted, OnlyActiveIsHeld, RunsRemain,
     NothingBeforeTheRecord, At, Forward, Promised!Promises, Promised!Settled
<1>6. QED BY <1>1, <1>2, <1>3, <1>4, <1>5 DEF EmailNext

(* The inductive invariant of one email: what is recorded agrees with the   *)
(* provider and with itself, however many runs of its job overlap.          *)
THEOREM EmailInvariant == ASSUME EmailAssumption PROVE EmailSafeSpec => []EmailInv
<1>1. EmailInit => EmailInv
  BY EmailInitInv
<1>2. EmailInv /\ [EmailNext]_emailVars => EmailInv'
  BY EmailStep
<1>3. QED BY <1>1, <1>2, PTL DEF EmailSafeSpec

(* markSent follows an answer of the provider to the same message, so no run, *)
(* retry or stalled copy of the job says SENT of what was not accepted; and   *)
(* attempts, failed_at and the error columns tell the same story as the       *)
(* status, though every retry calls markFailed again.                         *)
THEOREM RecordTellsTruth == ASSUME EmailAssumption PROVE EmailSafeSpec => []RecordIsTrue
<1>1. EmailInv => RecordIsTrue
  BY DEF EmailInv, RecordIsTrue
<1>2. QED BY <1>1, EmailInvariant, PTL

(* "Delivery state only, and it only moves forward": the rank guard of      *)
(* advance() orders the writes of runs that know nothing of each other.     *)
THEOREM RecordMovesForward == ASSUME EmailAssumption PROVE EmailSafeSpec => OnlyMovesForward
<1>1. EmailInv /\ [EmailNext]_emailVars => [Forward]_emailVars
  BY EmailStep
<1>2. QED BY <1>1, EmailInvariant, PTL DEF EmailSafeSpec, OnlyMovesForward, Forward

(* The service, the queue and the workers do to the job's promise only what *)
(* JobPromise allows, so what Outbox implements is what the email rests on. *)
THEOREM EmailRestsOnThePromise ==
  ASSUME EmailAssumption PROVE EmailSafeSpec => EmailUsesThePromise
<1>1. EmailInit => Promised!Init
  BY DEF EmailInit, Promised!Init
<1>2. [EmailNext]_emailVars => [Promised!Next]_(Promised!vars)
  <2>1. ASSUME NEW k \in Messages, \/ \E e \in {"never", "ahead"} : SendEmail(k, e)
                                   \/ Enqueue(k) \/ Settle(k)
        PROVE  Promised!Next
    BY <2>1 DEF SendEmail, Enqueue, Settle, Promised!Next
  <2>2. ASSUME NEW k \in Messages, AcceptLate(k) \/ Stall(k) \/ Forget(k) \/ MessageExpires(k)
        PROVE  UNCHANGED outboxVars
    BY <2>2 DEF AcceptLate, Stall, Forget, MessageExpires
  <2>3. ASSUME NEW w \in Workers,
               \/ WorkerStep(w) \/ RecordNotWritten(w) \/ WorkerDies(w)
               \/ \E k \in Messages : Take(w, k)
        PROVE  UNCHANGED outboxVars
    BY <2>3 DEF WorkerStep, RecordNotWritten, WorkerDies, Take, FindExpired, BeginSend, Accept,
       Refuse, RecordSent, RecordFailed, Complete, Fail
  <2>4. ASSUME UNCHANGED outboxVars PROVE UNCHANGED Promised!vars
    BY <2>4 DEF outboxVars, Promised!vars
  <2>5. UNCHANGED emailVars => UNCHANGED outboxVars
    BY DEF emailVars
  <2>6. QED BY <2>1, <2>2, <2>3, <2>4, <2>5 DEF EmailNext
<1>3. QED BY <1>1, <1>2, PTL DEF EmailSafeSpec, EmailUsesThePromise, Promised!SafeSpec
=============================================================================
