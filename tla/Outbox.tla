------------------------------- MODULE Outbox -------------------------------
(***************************************************************************)
(* The transactional outbox of src/infrastructure/queue.                    *)
(*                                                                          *)
(* A request writes the job as a row of "outbox_messages" in its own        *)
(* transaction (JobDispatcher.dispatch).  After the commit it publishes the *)
(* job to BullMQ itself (the fast path, publishNow).  Every process also    *)
(* runs an OutboxRelay that claims rows which are due under a lease,        *)
(* publishes them and writes down the outcome.  Nothing but the guard       *)
(* status = 'PENDING' of each UPDATE keeps the publishers of one row apart. *)
(*                                                                          *)
(* Time is abstract: `due` holds the rows whose available_at has passed.    *)
(* The grace of the fast path, a lease and a backoff are all "not due now,  *)
(* due at some later moment", so a lease may run out under its holder.      *)
(***************************************************************************)
EXTENDS Naturals, FiniteSets

CONSTANTS
  Rows,         \* row ids (uuidv7: never reused)
  Keys,         \* idempotency keys, which are also the BullMQ job ids
  Legacy,       \* those of an earlier build's jobs, for a queue this build lacks
  NoKey,        \* the key of a row that was never written
  Relays,       \* one OutboxRelay per process
  Dispatcher,   \* stands for whichever request runs a row's fast path
  BatchSize,    \* OUTBOX_RELAY.BATCH_SIZE
  MaxAttempts,  \* OUTBOX_RELAY.MAX_ATTEMPTS
  MaxFaults     \* bound: crashes and failed database calls in a behaviour

ASSUME OutboxAssumption ==
  /\ Legacy \subseteq Keys
  /\ NoKey \notin Keys
  /\ Dispatcher \notin Relays
  /\ BatchSize \in Nat \ {0}
  /\ MaxAttempts \in Nat \ {0}
  /\ MaxFaults \in Nat

VARIABLES
  status,    \* the row's status column, "absent" before it, "purged" after it
  key,       \* idempotency_key
  attempts,  \* the attempts column
  due,       \* rows with available_at <= now()
  expiry,    \* expires_at: "never", still "ahead" or "passed"
  task,      \* task[a][r]: how far publisher a has come with row r
  seen,      \* seen[a][r]: the attempts a relay read when it claimed r
  late,      \* rows with a queue.add given up on (timeout, crash) that may still land
  landed,    \* rows whose job BullMQ has accepted, or already had
  faults

vars == <<status, key, attempts, due, expiry, task, seen, late, landed, faults>>
rowVars == <<status, key, attempts>>

Publishers == Relays \cup {Dispatcher}

Finished == {"DISPATCHED", "EXPIRED", "FAILED"}
Status == {"absent", "PENDING", "purged"} \cup Finished
Expiry == {"never", "ahead", "passed"}

\* "ready": about to check and publish; "sending": queue.add is under way;
\* "acked": it resolved; "refused": it threw.
Stage == {"none", "ready", "sending", "acked", "refused"}

TypeOK ==
  /\ status \in [Rows -> Status]
  /\ key \in [Rows -> Keys \cup {NoKey}]
  /\ attempts \in [Rows -> Nat]
  /\ due \subseteq Rows
  /\ expiry \in [Rows -> Expiry]
  /\ task \in [Publishers -> [Rows -> Stage]]
  /\ seen \in [Publishers -> [Rows -> Nat]]
  /\ late \subseteq Rows
  /\ landed \subseteq Rows
  /\ faults \in 0..MaxFaults

Init ==
  /\ key \in [Rows -> Legacy \cup {NoKey}]
  /\ \A r, s \in Rows : key[r] = key[s] => r = s \/ key[r] = NoKey
  /\ status = [r \in Rows |-> IF key[r] \in Legacy THEN "PENDING" ELSE "absent"]
  /\ attempts = [r \in Rows |-> 0]
  /\ due = {}
  /\ expiry = [r \in Rows |-> "never"]
  /\ task = [a \in Publishers |-> [r \in Rows |-> "none"]]
  /\ seen = [a \in Publishers |-> [r \in Rows |-> 0]]
  /\ late = {}
  /\ landed = {}
  /\ faults = 0

-----------------------------------------------------------------------------
(* The table: OutboxRepository.  A guarded UPDATE that matches no row is a  *)
(* no-op, not an error.                                                     *)

Present(r) == status[r] \notin {"absent", "purged"}

\* Mutant: finish without its status guard.
FinishUnguarded(r, s, failures) ==
  /\ status' = [status EXCEPT ![r] = s]
  /\ attempts' = [attempts EXCEPT ![r] = @ + failures]

\* finish(): the failures it adds are 1 for markFailed and 0 otherwise.
Finish(r, s, failures) ==
  IF status[r] = "PENDING"
  THEN /\ status' = [status EXCEPT ![r] = s]
       /\ attempts' = [attempts EXCEPT ![r] = @ + failures]
  ELSE UNCHANGED <<status, attempts>>

\* reschedule(): one more failure, and not due before the backoff has passed.
Reschedule(r) ==
  IF status[r] = "PENDING"
  THEN /\ attempts' = [attempts EXCEPT ![r] = @ + 1]
       /\ due' = due \ {r}
       /\ UNCHANGED status
  ELSE UNCHANGED <<status, attempts, due>>

SetTask(a, r, stage) == task' = [task EXCEPT ![a][r] = stage]

Fault ==
  /\ faults < MaxFaults
  /\ faults' = faults + 1

-----------------------------------------------------------------------------
(* Dispatch.  A transaction that rolls back leaves no row and runs no hook, *)
(* and a dispatch whose key is taken (created = false) returns at once:     *)
(* neither changes anything.                                                *)

KeyFree(k) == \A s \in Rows : Present(s) => key[s] # k

Dispatch(r, k, e) ==
  /\ status[r] = "absent"
  /\ k \notin Legacy
  /\ KeyFree(k)
  /\ status' = [status EXCEPT ![r] = "PENDING"]
  /\ key' = [key EXCEPT ![r] = k]
  /\ expiry' = [expiry EXCEPT ![r] = e]
  /\ SetTask(Dispatcher, r, "ready")
  /\ UNCHANGED <<attempts, due, seen, late, landed, faults>>

-----------------------------------------------------------------------------
(* The relay claims what is due, once its previous batch has settled.       *)

\* Mutant: only rows that were never tried are claimed.
ClaimableUntried == {r \in due : status[r] = "PENDING" /\ attempts[r] = 0}

Claimable == {r \in due : status[r] = "PENDING"}

\* ORDER BY available_at is abstracted: any batch of the right size.
Batches ==
  {b \in SUBSET Claimable :
     \/ b = Claimable /\ Cardinality(b) <= BatchSize
     \/ Cardinality(b) = BatchSize}

ClaimDue(p) ==
  /\ \A r \in Rows : task[p][r] = "none"
  /\ \E b \in Batches \ {{}} :
       /\ task' = [task EXCEPT ![p] = [r \in Rows |-> IF r \in b THEN "ready" ELSE "none"]]
       /\ seen' = [seen EXCEPT ![p] = [r \in Rows |-> IF r \in b THEN attempts[r] ELSE 0]]
       /\ due' = due \ b
  /\ UNCHANGED <<rowVars, expiry, late, landed, faults>>

\* Only a relay looks at the expiry and at the queue's name before it sends.
MaySend(a, r) == a \in Relays => expiry[r] # "passed" /\ key[r] \notin Legacy

RelayExpired(p, r) ==
  /\ task[p][r] = "ready"
  /\ expiry[r] = "passed"
  /\ Finish(r, "EXPIRED", 0)
  /\ SetTask(p, r, "none")
  /\ UNCHANGED <<key, due, expiry, seen, late, landed, faults>>

RelayUnknownQueue(p, r) ==
  /\ task[p][r] = "ready"
  /\ expiry[r] # "passed"
  /\ key[r] \in Legacy
  /\ Finish(r, "FAILED", 1)
  /\ SetTask(p, r, "none")
  /\ UNCHANGED <<key, due, expiry, seen, late, landed, faults>>

-----------------------------------------------------------------------------
(* Publishing, the same for the relay and for the fast path.                *)

Send(a, r) ==
  /\ task[a][r] = "ready"
  /\ MaySend(a, r)
  /\ SetTask(a, r, "sending")
  /\ UNCHANGED <<rowVars, due, expiry, seen, late, landed, faults>>

\* queue.add resolved: the job is in Redis, or a job with its id already was.
PublishOk(a, r) ==
  /\ task[a][r] = "sending"
  /\ landed' = landed \cup {r}
  /\ SetTask(a, r, "acked")
  /\ UNCHANGED <<rowVars, due, expiry, seen, late, faults>>

\* It rejected, or withTimeout gave up on an add that is still under way.
PublishFails(a, r, timedOut) ==
  /\ task[a][r] = "sending"
  /\ SetTask(a, r, "refused")
  /\ late' = IF timedOut THEN late \cup {r} ELSE late
  /\ UNCHANGED <<rowVars, due, expiry, seen, landed, faults>>

\* Redis applies an add nobody waits for any more; a second one of the same row
\* finds the job there.
LandLate(r) ==
  /\ r \in late
  /\ late' = late \ {r}
  /\ landed' = landed \cup {r}
  /\ UNCHANGED <<rowVars, due, expiry, task, seen, faults>>

\* Mutant: the row is looked up by its idempotency key, not by its id.
MarkDispatchedByKey(a, r) ==
  /\ task[a][r] = "acked"
  /\ status' = [s \in Rows |->
       IF status[s] = "PENDING" /\ key[s] = key[r] THEN "DISPATCHED" ELSE status[s]]
  /\ SetTask(a, r, "none")
  /\ UNCHANGED <<key, attempts, due, expiry, seen, late, landed, faults>>

MarkDispatched(a, r) ==
  /\ task[a][r] = "acked"
  /\ Finish(r, "DISPATCHED", 0)
  /\ SetTask(a, r, "none")
  /\ UNCHANGED <<key, due, expiry, seen, late, landed, faults>>

\* Mutant: the failure is written down as the claim saw the count, not added to
\* what the row has by now.
RecordFailureFromSnapshot(p, r) ==
  /\ task[p][r] = "refused"
  /\ IF seen[p][r] + 1 >= MaxAttempts
     THEN Finish(r, "FAILED", 1) /\ UNCHANGED due
     ELSE IF status[r] = "PENDING"
     THEN /\ attempts' = [attempts EXCEPT ![r] = seen[p][r] + 1]
          /\ due' = due \ {r}
          /\ UNCHANGED status
     ELSE UNCHANGED <<status, attempts, due>>
  /\ SetTask(p, r, "none")
  /\ UNCHANGED <<key, expiry, seen, late, landed, faults>>

\* The attempt is counted from the claim's snapshot, not from the row.
RecordFailure(p, r) ==
  /\ task[p][r] = "refused"
  /\ IF seen[p][r] + 1 >= MaxAttempts
     THEN Finish(r, "FAILED", 1) /\ UNCHANGED due
     ELSE Reschedule(r)
  /\ SetTask(p, r, "none")
  /\ UNCHANGED <<key, expiry, seen, late, landed, faults>>

\* publishNow swallows its error: the row stays PENDING for a relay.
LeaveToRelay(r) ==
  /\ task[Dispatcher][r] = "refused"
  /\ SetTask(Dispatcher, r, "none")
  /\ UNCHANGED <<rowVars, due, expiry, seen, late, landed, faults>>

-----------------------------------------------------------------------------
(* What goes wrong besides Redis: a database call throws, a process dies.   *)

\* In the relay a failed markDispatched is caught and recorded like a failed
\* publish; every other database error ends the entry (Promise.allSettled),
\* and in the fast path both are swallowed.
DatabaseFails(a, r) ==
  /\ Fault
  /\ \/ /\ task[a][r] = "acked"
        /\ SetTask(a, r, IF a \in Relays THEN "refused" ELSE "none")
     \/ /\ a \in Relays
        /\ \/ task[a][r] = "refused"
           \/ task[a][r] = "ready" /\ ~MaySend(a, r)
        /\ SetTask(a, r, "none")
  /\ UNCHANGED <<rowVars, due, expiry, seen, late, landed>>

Busy(a) == {r \in Rows : task[a][r] # "none"}

\* A crash takes a relay's whole batch, or the fast paths of the requests one
\* process was serving; the adds they had sent may still land.
Crash(a) ==
  /\ Fault
  /\ \E lost \in SUBSET Busy(a) :
       /\ lost # {}
       /\ a \in Relays => lost = Busy(a)
       /\ task' = [task EXCEPT ![a] = [r \in Rows |-> IF r \in lost THEN "none" ELSE @[r]]]
       /\ late' = late \cup {r \in lost : task[a][r] = "sending"}
  /\ UNCHANGED <<rowVars, due, expiry, seen, landed>>

-----------------------------------------------------------------------------
(* Time, and the purge a relay runs after its batch.                        *)

BecomeDue(r) ==
  /\ status[r] = "PENDING"
  /\ r \notin due
  /\ due' = due \cup {r}
  /\ UNCHANGED <<rowVars, expiry, task, seen, late, landed, faults>>

ExpiryPasses(r) ==
  /\ expiry[r] = "ahead"
  /\ expiry' = [expiry EXCEPT ![r] = "passed"]
  /\ UNCHANGED <<rowVars, due, task, seen, late, landed, faults>>

\* The retention is counted from created_at, so a row that was long pending
\* may go the moment it is finished.
Purge(r) ==
  /\ status[r] \in Finished
  /\ status' = [status EXCEPT ![r] = "purged"]
  /\ due' = due \ {r}
  /\ UNCHANGED <<key, attempts, expiry, task, seen, late, landed, faults>>

-----------------------------------------------------------------------------
PublishOutcome(a, r) ==
  PublishOk(a, r) \/ \E timedOut \in BOOLEAN : PublishFails(a, r, timedOut)

RelayStep(p) ==
  \E r \in Rows :
    \/ RelayExpired(p, r)
    \/ RelayUnknownQueue(p, r)
    \/ Send(p, r)
    \/ PublishOutcome(p, r)
    \/ MarkDispatched(p, r)
    \/ RecordFailure(p, r)

FastPathStep(r) ==
  \/ Send(Dispatcher, r)
  \/ PublishOutcome(Dispatcher, r)
  \/ MarkDispatched(Dispatcher, r)
  \/ LeaveToRelay(r)

Next ==
  \/ \E r \in Rows, k \in Keys, e \in {"never", "ahead"} : Dispatch(r, k, e)
  \/ \E p \in Relays : ClaimDue(p) \/ RelayStep(p)
  \/ \E r \in Rows : FastPathStep(r)
  \/ \E a \in Publishers : Crash(a) \/ \E r \in Rows : DatabaseFails(a, r)
  \/ \E r \in Rows : LandLate(r) \/ BecomeDue(r) \/ ExpiryPasses(r) \/ Purge(r)

SafeSpec == Init /\ [][Next]_vars

\* A relay polls for ever and every step of it ends (publish has a timeout),
\* and time passes.  Nothing is assumed of the fast path, of a late add, of
\* an expiry or of the purge.
Fairness ==
  /\ \A r \in Rows : WF_vars(BecomeDue(r))
  /\ \A p \in Relays : WF_vars(ClaimDue(p)) /\ WF_vars(RelayStep(p))

Spec == SafeSpec /\ Fairness

-----------------------------------------------------------------------------
(* Properties.                                                              *)

\* A row is DISPATCHED only if the queue has really been given that row's
\* job: no publisher may finish a row it did not publish, not even one that
\* outlived its lease or the row it worked for.
DispatchedWasLanded == \A r \in Rows : status[r] = "DISPATCHED" => r \in landed

\* A job is abandoned only after MAX_ATTEMPTS recorded failures, although two
\* relays that share a row count from snapshots that may be stale.
AbandonedAfterMaxAttempts ==
  \A r \in Rows :
    status[r] = "FAILED" => key[r] \in Legacy \/ attempts[r] >= MaxAttempts

\* A row is EXPIRED only once its expiry has passed.
ExpiredIsPast == \A r \in Rows : status[r] = "EXPIRED" => expiry[r] = "passed"

\* What was recorded of a finished row stays until the row is purged, however
\* many publishers still hold it: neither its status nor its attempts move.
FinishedIsFinal ==
  [][\A r \in Rows : status[r] \in Finished =>
        /\ status'[r] \in {status[r], "purged"}
        /\ attempts'[r] = attempts[r]]_vars

\* What the proofs need besides: an acknowledged publish has landed, a claim's
\* snapshot is never ahead of the row, and nobody works for an unwritten row.
AckedWasLanded ==
  \A a \in Publishers, r \in Rows : task[a][r] = "acked" => r \in landed

SnapshotNotAhead ==
  \A p \in Relays, r \in Rows : task[p][r] # "none" => seen[p][r] <= attempts[r]

NothingBeforeTheRow ==
  \A r \in Rows : status[r] = "absent" =>
    /\ r \notin due
    /\ r \notin late
    /\ \A a \in Publishers : task[a][r] = "none"

IInv ==
  /\ TypeOK
  /\ DispatchedWasLanded
  /\ AbandonedAfterMaxAttempts
  /\ ExpiredIsPast
  /\ AckedWasLanded
  /\ SnapshotNotAhead
  /\ NothingBeforeTheRow

\* The relay's log line for an expired row says it "expired before it was
\* published" (outbox-relay.service.ts:128): a row being marked EXPIRED has not
\* reached the queue.  An earlier publish that timed out, or whose process died
\* before markDispatched, refutes it.
ExpiredBeforePublished ==
  [][\A r \in Rows :
       (status[r] = "PENDING" /\ status'[r] = "EXPIRED") => r \notin landed]_vars

PromiseOf ==
  [r \in Rows |->
    CASE status[r] = "absent" -> "none"
      [] status[r] = "PENDING" -> "open"
      [] status[r] = "DISPATCHED" -> "kept"
      [] status[r] = "EXPIRED" -> "lapsed"
      [] status[r] = "FAILED" -> "abandoned"
      [] OTHER -> "forgotten"]

Promise == INSTANCE JobPromise WITH promise <- PromiseOf, handed <- landed

\* The outbox implements what a dispatch promises: a committed job is settled
\* at most once, kept only if the queue was given it, and never forgotten open.
KeepsPromiseSafely == Promise!SafeSpec

\* With liveness: every committed job is handed over, expired or abandoned.
KeepsItsPromise == Promise!Spec
=============================================================================
