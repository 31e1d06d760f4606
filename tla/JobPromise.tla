----------------------------- MODULE JobPromise -----------------------------
(***************************************************************************)
(* What `JobDispatcher.dispatch` promises its caller, with no relay, lease, *)
(* retry or queue in sight: once the row commits, the job is an open        *)
(* promise, and every open promise is settled in exactly one way.           *)
(*   kept       the queue has the job                                       *)
(*   lapsed     its expiry passed before it was handed over                 *)
(*   abandoned  publishing it failed for good                               *)
(* A settled promise never changes its mind; it is only forgotten.          *)
(***************************************************************************)
CONSTANT Rows

VARIABLES
  promise,  \* [Rows -> Promises]
  handed    \* the rows whose job the queue has been given at least once

vars == <<promise, handed>>

Settled == {"kept", "lapsed", "abandoned"}
Promises == {"none", "open", "forgotten"} \cup Settled

\* Rows of an earlier run of the program may be open from the start.
Init ==
  /\ promise \in [Rows -> {"none", "open"}]
  /\ handed = {}

Make(r) ==
  /\ promise[r] = "none"
  /\ promise' = [promise EXCEPT ![r] = "open"]
  /\ UNCHANGED handed

\* The queue is given the job; it may be given it again, even after the
\* promise is settled (delivery is at least once).
HandOver(r) ==
  /\ promise[r] # "none"
  /\ handed' = handed \cup {r}
  /\ UNCHANGED promise

\* Only a job the queue was given counts as kept.
Settle(r) ==
  /\ promise[r] = "open"
  /\ \E s \in Settled :
       /\ s = "kept" => r \in handed
       /\ promise' = [promise EXCEPT ![r] = s]
  /\ UNCHANGED handed

Forget(r) ==
  /\ promise[r] \in Settled
  /\ promise' = [promise EXCEPT ![r] = "forgotten"]
  /\ UNCHANGED handed

Next == \E r \in Rows : Make(r) \/ HandOver(r) \/ Settle(r) \/ Forget(r)

SafeSpec == Init /\ [][Next]_vars

Spec == SafeSpec /\ \A r \in Rows : WF_vars(Settle(r))
=============================================================================
