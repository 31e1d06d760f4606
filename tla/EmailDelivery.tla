--------------------------- MODULE EmailDelivery ---------------------------
(***************************************************************************)
(* One email from EmailService.send to its row in "outbound_messages".      *)
(*                                                                          *)
(* EmailService.send records the message and dispatches a job under the     *)
(* message's idempotency key.  What the outbox makes of the job is all that *)
(* is used of it here: the promise of JobPromise, which Outbox implements.  *)
(* BullMQ (external) hands the job to one worker at a time under a lock it  *)
(* may lose, JobRunner runs EmailDeliveryJob.handle, and what the handler   *)
(* throws decides whether the job is tried again.  The status of the        *)
(* message may be written by two runs of one job that know nothing of each  *)
(* other; only the rank guard of `advance` keeps it in order.               *)
(***************************************************************************)
EXTENDS Naturals

CONSTANTS
  Messages,       \* messages, named by their idempotency keys (the job ids)
  Workers,        \* job slots of the email queue's workers
  Nobody,         \* no worker holds the job's lock
  NoMessage,      \* an idle worker
  JobAttempts,    \* QUEUE_SETTINGS.email.attempts
  MaxStalls,      \* BullMQ's maxStalledCount
  MaxAdds,        \* bound: how often one job is added to the queue
  MaxEmailFaults  \* bound: crashes, lost locks and failed database writes

ASSUME EmailAssumption ==
  /\ Nobody \notin Workers
  /\ NoMessage \notin Messages
  /\ JobAttempts \in Nat \ {0}
  /\ {MaxStalls, MaxAdds, MaxEmailFaults} \subseteq Nat

VARIABLES
  promise, handed,  \* the outbox, seen through JobPromise
  delivery,         \* outbound_messages.status, "none" before the row
  tries,            \* outbound_messages.attempts
  failed,           \* messages whose failed_at and error columns are set
  deadline,         \* expires_at in the payload: "never", "ahead", "passed"
  job,              \* the job in BullMQ: "none", "waiting", "active", "failed"
  holder,           \* the worker that holds the job's lock
  made,             \* job.attemptsMade
  stalls,           \* the job's stalled counter
  run,              \* run[w]: the key a worker runs and how far it has come
  accepted,         \* messages the provider has accepted
  unanswered,       \* requests given up on that the provider may yet accept
  adds, emailFaults

messageVars == <<delivery, tries, failed>>
jobVars == <<job, holder, made, stalls>>
outboxVars == <<promise, handed, adds>>
providerVars == <<accepted, unanswered>>
emailVars == <<outboxVars, messageVars, deadline, jobVars, run, providerVars, emailFaults>>

Promised == INSTANCE JobPromise WITH Rows <- Messages

\* SUPPRESSED, DELIVERED, BOUNCED and COMPLAINED are ranked by the code, but
\* nothing in it ever writes them.
Rank == [QUEUED |-> 0, EXPIRED |-> 1, FAILED |-> 1, SENT |-> 2]
MessageStatus == DOMAIN Rank

\* "refused": the handler caught an error worth a retry; "rejected": one that
\* is not; "threw" and "threwForGood": it rethrew one.
RunStage == {"started", "sending", "accepted", "refused", "rejected",
             "done", "threw", "threwForGood"}

Idle == [key |-> NoMessage, stage |-> "done"]

EmailTypeOK ==
  /\ promise \in [Messages -> Promised!Promises]
  /\ handed \subseteq Messages
  /\ delivery \in [Messages -> MessageStatus \cup {"none"}]
  /\ tries \in [Messages -> 0..2]
  /\ failed \subseteq Messages
  /\ deadline \in [Messages -> {"never", "ahead", "passed"}]
  /\ job \in [Messages -> {"none", "waiting", "active", "failed"}]
  /\ holder \in [Messages -> Workers \cup {Nobody}]
  /\ made \in [Messages -> 0..JobAttempts]
  /\ stalls \in [Messages -> 0..MaxStalls + 1]
  /\ run \in [Workers -> [key : Messages, stage : RunStage] \cup {Idle}]
  /\ accepted \subseteq Messages
  /\ unanswered \subseteq Messages
  /\ adds \in [Messages -> 0..MaxAdds]
  /\ emailFaults \in 0..MaxEmailFaults

EmailInit ==
  /\ promise = [k \in Messages |-> "none"]
  /\ handed = {}
  /\ delivery = [k \in Messages |-> "none"]
  /\ tries = [k \in Messages |-> 0]
  /\ failed = {}
  /\ deadline = [k \in Messages |-> "never"]
  /\ job = [k \in Messages |-> "none"]
  /\ holder = [k \in Messages |-> Nobody]
  /\ made = [k \in Messages |-> 0]
  /\ stalls = [k \in Messages |-> 0]
  /\ run = [w \in Workers |-> Idle]
  /\ accepted = {}
  /\ unanswered = {}
  /\ adds = [k \in Messages |-> 0]
  /\ emailFaults = 0

EmailFault ==
  /\ emailFaults < MaxEmailFaults
  /\ emailFaults' = emailFaults + 1

-----------------------------------------------------------------------------
(* EmailService.send and the outbox.  The record and the outbox row commit  *)
(* together; a repeat of the key finds both there and changes neither.      *)

SendEmail(k, e) ==
  /\ delivery[k] = "none"
  /\ delivery' = [delivery EXCEPT ![k] = "QUEUED"]
  /\ deadline' = [deadline EXCEPT ![k] = e]
  /\ Promised!Make(k)
  /\ UNCHANGED <<tries, failed, adds, jobVars, run, providerVars, emailFaults>>

\* The job is added, perhaps not for the first time: the add is ignored while
\* BullMQ knows the id, but a completed email job is removed at once.
Enqueue(k) ==
  /\ adds[k] < MaxAdds
  /\ Promised!HandOver(k)
  /\ adds' = [adds EXCEPT ![k] = @ + 1]
  /\ IF job[k] = "none"
     THEN /\ job' = [job EXCEPT ![k] = "waiting"]
          /\ made' = [made EXCEPT ![k] = 0]
          /\ stalls' = [stalls EXCEPT ![k] = 0]
          /\ UNCHANGED holder
     ELSE UNCHANGED jobVars
  /\ UNCHANGED <<messageVars, deadline, run, providerVars, emailFaults>>

\* The relay records the row's outcome, and tells nobody.
Settle(k) ==
  /\ Promised!Settle(k)
  /\ promise'[k] = "lapsed" => deadline[k] = "passed"
  /\ UNCHANGED <<adds, messageVars, deadline, jobVars, run, providerVars, emailFaults>>

-----------------------------------------------------------------------------
(* EmailDeliveryJob.handle, under JobRunner.run.                            *)

Go(w, stage) == run' = [run EXCEPT ![w].stage = stage]

At(w, stage) == run[w] # Idle /\ run[w].stage = stage

Take(w, k) ==
  /\ run[w] = Idle
  /\ job[k] = "waiting"
  /\ job' = [job EXCEPT ![k] = "active"]
  /\ holder' = [holder EXCEPT ![k] = w]
  /\ run' = [run EXCEPT ![w] = [key |-> k, stage |-> "started"]]
  /\ UNCHANGED <<outboxVars, messageVars, deadline, made, stalls, providerVars,
                 emailFaults>>

\* Mutant: any status may be overwritten.
BelowOrNot(k, s) == TRUE

\* statusesBelow(): the guard of every write but the first.
Below(k, s) == Rank[delivery[k]] < Rank[s]

\* advance(): an UPDATE whose guard fails matches no row and is no error.
Advance(k, s, more, failures) ==
  IF Below(k, s)
  THEN /\ delivery' = [delivery EXCEPT ![k] = s]
       /\ tries' = [tries EXCEPT ![k] = @ + more]
       /\ failed' = failures
  ELSE UNCHANGED messageVars

FindExpired(w) ==
  /\ At(w, "started")
  /\ deadline[run[w].key] = "passed"
  /\ Advance(run[w].key, "EXPIRED", 0, failed)
  /\ Go(w, "done")
  /\ UNCHANGED <<outboxVars, deadline, jobVars, providerVars, emailFaults>>

\* Rendering, then the request to the provider; the record is not consulted.
BeginSend(w) ==
  /\ At(w, "started")
  /\ deadline[run[w].key] # "passed"
  /\ Go(w, "sending")
  /\ UNCHANGED <<outboxVars, messageVars, deadline, jobVars, providerVars, emailFaults>>

\* Accepted; without an id in the answer it is reported as a failure for good.
Accept(w, receipt) ==
  /\ At(w, "sending")
  /\ accepted' = accepted \cup {run[w].key}
  /\ Go(w, IF receipt THEN "accepted" ELSE "rejected")
  /\ UNCHANGED <<outboxVars, messageVars, deadline, jobVars, unanswered, emailFaults>>

\* A render error or a 4xx is for good; after a timeout the provider may
\* still accept what it was sent.
Refuse(w, forGood, timedOut) ==
  /\ At(w, "sending")
  /\ ~(forGood /\ timedOut)
  /\ unanswered' = IF timedOut THEN unanswered \cup {run[w].key} ELSE unanswered
  /\ Go(w, IF forGood THEN "rejected" ELSE "refused")
  /\ UNCHANGED <<outboxVars, messageVars, deadline, jobVars, accepted, emailFaults>>

AcceptLate(k) ==
  /\ k \in unanswered
  /\ unanswered' = unanswered \ {k}
  /\ accepted' = accepted \cup {k}
  /\ UNCHANGED <<outboxVars, messageVars, deadline, jobVars, run, emailFaults>>

RecordSent(w) ==
  /\ At(w, "accepted")
  /\ Advance(run[w].key, "SENT", 1, failed \ {run[w].key})
  /\ Go(w, "done")
  /\ UNCHANGED <<outboxVars, deadline, jobVars, providerVars, emailFaults>>

Rethrow(w) == Go(w, IF At(w, "rejected") THEN "threwForGood" ELSE "threw")

RecordFailed(w) ==
  /\ At(w, "refused") \/ At(w, "rejected")
  /\ Advance(run[w].key, "FAILED", 1, failed \cup {run[w].key})
  /\ Rethrow(w)
  /\ UNCHANGED <<outboxVars, deadline, jobVars, providerVars, emailFaults>>

\* Mutant: an error of markFailed is swallowed, and with it the one it was for.
RecordNotWrittenQuietly(w) ==
  /\ EmailFault
  /\ \/ At(w, "accepted") /\ Go(w, "refused")
     \/ /\ \/ At(w, "refused") \/ At(w, "rejected")
           \/ At(w, "started") /\ deadline[run[w].key] = "passed"
        /\ Go(w, "done")
  /\ UNCHANGED <<outboxVars, messageVars, deadline, jobVars, providerVars>>

\* markSent throws inside the try, so the send counts as failed; an error of
\* markFailed or markExpired takes the place of the error it was called for.
RecordNotWritten(w) ==
  /\ EmailFault
  /\ \/ At(w, "accepted") /\ Go(w, "refused")
     \/ /\ \/ At(w, "refused") \/ At(w, "rejected")
           \/ At(w, "started") /\ deadline[run[w].key] = "passed"
        /\ Go(w, "threw")
  /\ UNCHANGED <<outboxVars, messageVars, deadline, jobVars, providerVars>>

-----------------------------------------------------------------------------
(* BullMQ's part.  A worker that has lost the lock cannot move the job.     *)

Release(w, next) ==
  LET k == run[w].key IN
  IF holder[k] = w
  THEN /\ job' = [job EXCEPT ![k] = next]
       /\ holder' = [holder EXCEPT ![k] = Nobody]
  ELSE UNCHANGED <<job, holder>>

\* removeOnComplete: an email job leaves nothing behind.
Complete(w) ==
  /\ At(w, "done")
  /\ Release(w, "none")
  /\ run' = [run EXCEPT ![w] = Idle]
  /\ UNCHANGED <<outboxVars, messageVars, deadline, made, stalls, providerVars,
                 emailFaults>>

\* UnrecoverableError, or the last of the attempts: the job is failed.
Fail(w) ==
  LET k == run[w].key
      final == At(w, "threwForGood") \/ made[k] + 1 >= JobAttempts
  IN
  /\ At(w, "threw") \/ At(w, "threwForGood")
  /\ Release(w, IF final THEN "failed" ELSE "waiting")
  /\ made' = [made EXCEPT ![k] = IF holder[k] = w THEN @ + 1 ELSE @]
  /\ run' = [run EXCEPT ![w] = Idle]
  /\ UNCHANGED <<outboxVars, messageVars, deadline, stalls, providerVars, emailFaults>>

WorkerDies(w) ==
  /\ EmailFault
  /\ run[w] # Idle
  /\ unanswered' = IF At(w, "sending") THEN unanswered \cup {run[w].key} ELSE unanswered
  /\ run' = [run EXCEPT ![w] = Idle]
  /\ UNCHANGED <<outboxVars, messageVars, deadline, jobVars, accepted>>

Orphaned(k) == job[k] = "active" /\ run[holder[k]].key # k

\* The lock ran out: its holder is gone, or could not renew it in time and
\* does not know.
Stall(k) ==
  /\ job[k] = "active"
  /\ IF Orphaned(k) THEN UNCHANGED emailFaults ELSE EmailFault
  /\ stalls' = [stalls EXCEPT ![k] = @ + 1]
  /\ job' = [job EXCEPT ![k] = IF stalls[k] >= MaxStalls THEN "failed" ELSE "waiting"]
  /\ holder' = [holder EXCEPT ![k] = Nobody]
  /\ UNCHANGED <<outboxVars, messageVars, deadline, made, run, providerVars>>

\* removeOnFail: after seven days the id is free again.
Forget(k) ==
  /\ job[k] = "failed"
  /\ job' = [job EXCEPT ![k] = "none"]
  /\ UNCHANGED <<outboxVars, messageVars, deadline, holder, made, stalls, run,
                 providerVars, emailFaults>>

MessageExpires(k) ==
  /\ deadline[k] = "ahead"
  /\ deadline' = [deadline EXCEPT ![k] = "passed"]
  /\ UNCHANGED <<outboxVars, messageVars, jobVars, run, providerVars, emailFaults>>

-----------------------------------------------------------------------------
WorkerStep(w) ==
  \/ FindExpired(w)
  \/ BeginSend(w)
  \/ \E receipt \in BOOLEAN : Accept(w, receipt)
  \/ \E forGood, timedOut \in BOOLEAN : Refuse(w, forGood, timedOut)
  \/ RecordSent(w)
  \/ RecordFailed(w)
  \/ Complete(w)
  \/ Fail(w)

EmailNext ==
  \/ \E k \in Messages, e \in {"never", "ahead"} : SendEmail(k, e)
  \/ \E k \in Messages : Enqueue(k) \/ Settle(k) \/ AcceptLate(k)
  \/ \E k \in Messages : Stall(k) \/ Forget(k) \/ MessageExpires(k)
  \/ \E w \in Workers, k \in Messages : Take(w, k)
  \/ \E w \in Workers : WorkerStep(w) \/ RecordNotWritten(w) \/ WorkerDies(w)

EmailSafeSpec == EmailInit /\ [][EmailNext]_emailVars

\* The outbox settles its promises (Outbox: KeepsItsPromise), an idle worker
\* takes a waiting job, a run ends (the request has a timeout), and BullMQ
\* notices a job whose worker died.
EmailFairness ==
  /\ \A k \in Messages : WF_emailVars(Settle(k)) /\ WF_emailVars(Orphaned(k) /\ Stall(k))
  /\ \A k \in Messages : WF_emailVars(\E w \in Workers : Take(w, k))
  /\ \A w \in Workers : WF_emailVars(WorkerStep(w))

EmailSpec == EmailSafeSpec /\ EmailFairness

-----------------------------------------------------------------------------
(* Properties.                                                              *)

\* SENT is only said of a message the provider accepted.
SentWasAccepted == \A k \in Messages : delivery[k] = "SENT" => k \in accepted

\* "Delivery state only, and it only moves forward": no run of a job, however
\* late, takes the status back, and FAILED and EXPIRED never replace each other.
OnlyMovesForward ==
  [][\A k \in Messages : delivery[k] \in MessageStatus /\ delivery'[k] # delivery[k]
       => Rank[delivery'[k]] > Rank[delivery[k]]]_emailVars

\* The other columns tell the same story as the status: a message that was
\* sent shows no failure, a failed one exactly one however often it was tried.
ColumnsAgree ==
  \A k \in Messages :
    /\ delivery[k] \in {"none", "QUEUED", "EXPIRED"} => tries[k] = 0 /\ k \notin failed
    /\ delivery[k] = "FAILED" => tries[k] = 1 /\ k \in failed
    /\ delivery[k] = "SENT" => tries[k] \in {1, 2} /\ k \notin failed

\* The record tells the truth: no late or repeated run puts a failure over a
\* message that was sent, or leaves the columns of two outcomes.
RecordIsTrue == SentWasAccepted /\ ColumnsAgree

\* What makes these inductive: whoever is about to record a message as sent
\* has seen it accepted; only an active job is held; a job that may still run
\* has an attempt and a stall left; nothing is done for a message not recorded.
ReceiptIsOfAccepted == \A w \in Workers : At(w, "accepted") => run[w].key \in accepted
OnlyActiveIsHeld == \A k \in Messages : holder[k] # Nobody => job[k] = "active"
RunsRemain ==
  \A k \in Messages : job[k] \in {"waiting", "active"} =>
    made[k] < JobAttempts /\ stalls[k] <= MaxStalls

NothingBeforeTheRecord ==
  /\ \A k \in Messages : delivery[k] = "none" => promise[k] = "none" /\ job[k] = "none"
  /\ \A w \in Workers : run[w] # Idle => delivery[run[w].key] # "none"

EmailInv ==
  /\ EmailTypeOK
  /\ SentWasAccepted
  /\ ColumnsAgree
  /\ ReceiptIsOfAccepted
  /\ OnlyActiveIsHeld
  /\ RunsRemain
  /\ NothingBeforeTheRecord

\* The outbox does to the message's job only what JobPromise allows.
EmailUsesThePromise == Promised!SafeSpec

\* A job that waits is run to its end: completed and removed, or failed.
JobEnds == \A k \in Messages : job[k] = "waiting" ~> job[k] \in {"none", "failed"}

\* No message is QUEUED for ever, though a worker dies, a lock is lost or a write
\* fails: the job is run again while BullMQ forgives the stall and an attempt is
\* left.  Except for a job the outbox dropped: the relay does not tell the record.
MessageIsSettled ==
  \A k \in Messages : delivery[k] = "QUEUED" ~>
    \/ delivery[k] # "QUEUED"
    \/ promise[k] \in {"lapsed", "abandoned"}
    \/ emailFaults > MaxStalls \/ emailFaults >= JobAttempts

\* "Send the email, then record it; on the next attempt, check the record
\* first": no request goes out for a message already recorded as sent.
ChecksTheRecordFirst ==
  [][\A w \in Workers :
       ~At(w, "sending") /\ At(w, "sending")' => delivery[run[w].key] # "SENT"]_emailVars
=============================================================================
