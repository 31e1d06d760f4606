------------------------------ MODULE MCOutbox ------------------------------
(* Outbox for TLC, in two scopes at once: every row with one relay, so that  *)
(* rows fill a batch or share a job id, and one row with every relay, so     *)
(* that their claims of it overlap.  Both beside the fast path.              *)
EXTENDS Outbox

CONSTANTS
  OneRelay,  \* the relay that runs when there are many rows
  OneRow     \* the row that is written when there are many relays

ASSUME OneRelay \in Relays /\ OneRow \in Rows

VARIABLE scope  \* chosen at the start: the rows written, the relays running

mcVars == <<vars, scope>>

Scopes ==
  {[rows |-> Rows, relays |-> {OneRelay}], [rows |-> {OneRow}, relays |-> Relays]}

\* Bounds: nothing happens outside the scope, and one row alone may expire.
Within ==
  /\ \A r \in Rows \ scope.rows : status[r] = "absent"
  /\ \A p \in Relays \ scope.relays : Busy(p) = {}
  /\ \A r \in Rows \ {OneRow} : expiry[r] = "never"

MCInit == Init /\ scope \in Scopes /\ Within

MCNext == Next /\ UNCHANGED scope /\ Within'

\* As Fairness, of the relays that run.
MCFairness ==
  /\ \A r \in Rows : WF_vars(BecomeDue(r))
  /\ \A p \in Relays :
       WF_vars(p \in scope.relays /\ ClaimDue(p)) /\ WF_vars(RelayStep(p))

MCSpec == MCInit /\ [][MCNext]_mcVars /\ MCFairness
=============================================================================
