----------------------------- MODULE RateLimit -----------------------------
(***************************************************************************)
(* The limiter in front of every route: a call spends a slot of each of    *)
(* its budgets in turn (consumeAll), and hands back what it spent when one *)
(* of them refuses.  Each command is atomic in Redis; the sequence is not, *)
(* and a window may end between a slot's spending and its return.          *)
(***************************************************************************)
EXTENDS Integers, FiniteSets, Sequences

CONSTANTS
  Calls,       \* requests the limiter is asked about
  Budgets,     \* the keys: a rule's name and the subject it counts by
  Limit,       \* [Budgets -> Nat], hits a window allows
  FailsOpen,   \* budgets whose rule says ALLOW when the store cannot be reached
  Checks,      \* the lists of budgets a route asks for, the floor first
  MaxWindows,  \* bound on the windows a budget goes through
  MaxCalls,    \* bound on the calls made
  MaxFaults    \* bound on the commands that fail

ASSUME RateLimitAssumption ==
  /\ IsFiniteSet(Calls)
  /\ Limit \in [Budgets -> Nat]
  /\ FailsOpen \subseteq Budgets
  /\ \A s \in Checks : s \in Seq(Budgets) /\ \A i, j \in 1..Len(s) : s[i] = s[j] => i = j
  /\ MaxWindows \in Nat /\ MaxCalls \in Nat /\ MaxFaults \in Nat

VARIABLES
  hits,      \* [Budgets -> Int]: the counter in Redis, 0 when there is no key
  windows,   \* [Budgets -> Nat]: windows that ended
  task,      \* [Calls -> Task]: where each call stands
  calls,     \* calls made
  faults,    \* commands that failed
  admitted,  \* [Budgets -> Nat]: slots of the open window calls went through with
  wasted,    \* [Budgets -> Nat]: hits of the open window that gave nobody a slot
  late       \* [Budgets -> Nat]: returns that fell into a window after the slot's own

limitVars == <<hits, windows, task, calls, faults, admitted, wasted, late>>

(* A call: the checks still to make, the slots to hand back should one     *)
(* refuse (`spent`), and which of those are of the open window (`own`) and *)
(* of a window that has ended (`old`).                                     *)
Task == [phase : {"idle", "check", "refund", "allowed"},
         checks : Seq(Budgets), spent : Seq(Budgets), own : SUBSET Budgets, old : SUBSET Budgets]

NoTask == [phase |-> "idle", checks |-> <<>>, spent |-> <<>>, own |-> {}, old |-> {}]

LimitInit ==
  /\ hits = [b \in Budgets |-> 0]
  /\ windows = [b \in Budgets |-> 0]
  /\ task = [c \in Calls |-> NoTask]
  /\ calls = 0
  /\ faults = 0
  /\ admitted = [b \in Budgets |-> 0]
  /\ wasted = [b \in Budgets |-> 0]
  /\ late = [b \in Budgets |-> 0]

Phase(c) == task[c].phase
Current(c) == Head(task[c].checks)

Arrive(c, checks) ==
  /\ Phase(c) = "idle" /\ calls < MaxCalls
  /\ calls' = calls + 1
  /\ task' = [task EXCEPT ![c] = [NoTask EXCEPT !.phase = "check", !.checks = checks]]
  /\ UNCHANGED <<hits, windows, faults, admitted, wasted, late>>

(* A check the store counted: its slot is there to hand back. *)
Spent(c) ==
  [task[c] EXCEPT !.checks = Tail(@), !.spent = Append(@, Current(c)), !.own = @ \cup {Current(c)}]

\* Mutant: a check that failed open is handed back with the others.
ExcusedAndSpent(c) ==
  [task[c] EXCEPT !.checks = Tail(@), !.spent = Append(@, Current(c))]

(* A check that failed open: nothing was counted for the call. *)
Excused(c) == [task[c] EXCEPT !.checks = Tail(@)]

Refused(c) == [task[c] EXCEPT !.phase = "refund", !.checks = <<>>]

(* limiter.consume: every hit is counted, also the one that is refused.    *)
Consume(c) ==
  /\ Phase(c) = "check" /\ task[c].checks # <<>>
  /\ LET b == Current(c)
         granted == hits[b] + 1 <= Limit[b] IN
       /\ hits' = [hits EXCEPT ![b] = @ + 1]
       /\ task' = [task EXCEPT ![c] = IF granted THEN Spent(c) ELSE Refused(c)]
       /\ wasted' = IF granted THEN wasted ELSE [wasted EXCEPT ![b] = @ + 1]
  /\ UNCHANGED <<windows, calls, faults, admitted, late>>

(* The store cannot be reached, or its answer is lost after it counted:    *)
(* the rule decides, and the call holds no slot.                           *)
StoreFails(c) ==
  /\ Phase(c) = "check" /\ task[c].checks # <<>> /\ faults < MaxFaults
  /\ faults' = faults + 1
  /\ LET b == Current(c) IN
       /\ task' = [task EXCEPT ![c] = IF b \in FailsOpen THEN Excused(c) ELSE Refused(c)]
       /\ \/ UNCHANGED <<hits, wasted>>
          \/ /\ hits' = [hits EXCEPT ![b] = @ + 1]
             /\ wasted' = [wasted EXCEPT ![b] = @ + 1]
  /\ UNCHANGED <<windows, calls, admitted, late>>

(* Every check passed: the slots are the call's. *)
Allow(c) ==
  /\ Phase(c) = "check" /\ task[c].checks = <<>>
  /\ task' = [task EXCEPT ![c] = [NoTask EXCEPT !.phase = "allowed"]]
  /\ admitted' = [b \in Budgets |-> IF b \in task[c].own THEN admitted[b] + 1 ELSE admitted[b]]
  /\ UNCHANGED <<hits, windows, calls, faults, wasted, late>>

Returned(c, b) == [task[c] EXCEPT !.spent = Tail(@), !.own = @ \ {b}, !.old = @ \ {b}]

(* refundAll: one call after another, none of which throws.  The slot goes *)
(* back into whatever window is open; with none, the counter starts one    *)
(* below zero.                                                             *)
Refund(c) ==
  /\ Phase(c) = "refund" /\ task[c].spent # <<>>
  /\ LET b == Head(task[c].spent) IN
       /\ hits' = [hits EXCEPT ![b] = @ - 1]
       /\ late' = IF b \in task[c].old THEN [late EXCEPT ![b] = @ + 1] ELSE late
       /\ task' = [task EXCEPT ![c] = Returned(c, b)]
  /\ UNCHANGED <<windows, calls, faults, admitted, wasted>>

(* The slot stays counted and nobody has it. *)
RefundFails(c) ==
  /\ Phase(c) = "refund" /\ task[c].spent # <<>> /\ faults < MaxFaults
  /\ faults' = faults + 1
  /\ LET b == Head(task[c].spent) IN
       /\ wasted' = IF b \in task[c].own THEN [wasted EXCEPT ![b] = @ + 1] ELSE wasted
       /\ task' = [task EXCEPT ![c] = Returned(c, b)]
  /\ UNCHANGED <<hits, windows, calls, admitted, late>>

\* Mutant: the refusal is answered without handing anything back.
RefuseAtOnce(c) ==
  /\ Phase(c) = "refund"
  /\ task' = [task EXCEPT ![c] = NoTask]
  /\ UNCHANGED <<hits, windows, calls, faults, admitted, wasted, late>>

(* 429, once everything has been handed back. *)
Refuse(c) ==
  /\ Phase(c) = "refund" /\ task[c].spent = <<>>
  /\ task' = [task EXCEPT ![c] = NoTask]
  /\ UNCHANGED <<hits, windows, calls, faults, admitted, wasted, late>>

(* The guard lets the call on; it keeps its slots whatever comes of it. *)
Leave(c) ==
  /\ Phase(c) = "allowed"
  /\ task' = [task EXCEPT ![c] = NoTask]
  /\ UNCHANGED <<hits, windows, calls, faults, admitted, wasted, late>>

Outlived(c, b) == [task[c] EXCEPT !.own = @ \ {b}, !.old = @ \cup {b}]

(* The key expires. *)
WindowEnds(b) ==
  /\ hits[b] # 0 /\ windows[b] < MaxWindows
  /\ windows' = [windows EXCEPT ![b] = @ + 1]
  /\ hits' = [hits EXCEPT ![b] = 0]
  /\ admitted' = [admitted EXCEPT ![b] = 0]
  /\ wasted' = [wasted EXCEPT ![b] = 0]
  /\ late' = [late EXCEPT ![b] = 0]
  /\ task' = [c \in Calls |-> IF b \in task[c].own THEN Outlived(c, b) ELSE task[c]]
  /\ UNCHANGED <<calls, faults>>

LimitStep(c) ==
  \/ Consume(c) \/ StoreFails(c) \/ Allow(c) \/ Refund(c) \/ RefundFails(c)

LimitNext ==
  \/ \E c \in Calls : LimitStep(c) \/ Refuse(c) \/ Leave(c)
  \/ \E c \in Calls, checks \in Checks : Arrive(c, checks)
  \/ \E b \in Budgets : WindowEnds(b)

LimitSpec == LimitInit /\ [][LimitNext]_limitVars
-----------------------------------------------------------------------------
LimitTypeOK ==
  /\ hits \in [Budgets -> Int]
  /\ windows \in [Budgets -> Nat]
  /\ task \in [Calls -> Task]
  /\ calls \in Nat /\ faults \in Nat
  /\ admitted \in [Budgets -> Nat]
  /\ wasted \in [Budgets -> Nat]
  /\ late \in [Budgets -> Nat]

(* Calls that hold a slot of b's open window and may still hand it back. *)
Holders(b) == {c \in Calls : b \in task[c].own}

(* The counter is the slots calls went through with, plus those a call in  *)
(* flight holds, plus the hits that gave none, less the returns that came  *)
(* late: a refused call leaves nothing behind (consumeAll, refundAll).     *)
Accounted ==
  \A b \in Budgets : hits[b] = admitted[b] + Cardinality(Holders(b)) + wasted[b] - late[b]

(* A window lets no more calls through than its limit, but for one more    *)
(* for each slot of an earlier window that was handed back into it.        *)
WithinLimit == \A b \in Budgets : admitted[b] <= Limit[b] + late[b]
=============================================================================
