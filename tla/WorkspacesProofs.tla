-------------------------- MODULE WorkspacesProofs --------------------------
(***************************************************************************)
(* Theorems about Workspaces and the modules it is made of.  RateLimit: for *)
(* any number of calls, budgets and windows, what is counted is accounted  *)
(* for.  Requests: the application drives the limiter only as RateLimit    *)
(* describes, and on every audited route a handler is reached with the     *)
(* caller it reads.  Workspaces: one review of a workspace counts, a user  *)
(* passes the limit only through a create that a review overtook, and an   *)
(* owner reads an old status only when the delete after the review was     *)
(* lost, is to come or was overtaken by a load.                            *)
(***************************************************************************)
EXTENDS Workspaces, FiniteSetTheorems, TLAPS

(***************************************************************************)
(* The limiter.                                                            *)
(***************************************************************************)

Distinct(s) == \A i, j \in 1..Len(s) : s[i] = s[j] => i = j
Elems(s) == {s[i] : i \in 1..Len(s)}

\* The slots a call may hand back are distinct, are each of the open window or
\* of an ended one, and are none of those it is still to ask for.
Shape(t) ==
  /\ t \in Task
  /\ Distinct(t.checks) /\ Distinct(t.spent)
  /\ Elems(t.spent) = t.own \cup t.old
  /\ t.own \cap t.old = {}
  /\ Elems(t.checks) \cap Elems(t.spent) = {}
  /\ t.phase \in {"idle", "allowed"} => t.own = {}

Held(b) == Cardinality(Holders(b))

IInv ==
  /\ LimitTypeOK
  /\ \A c \in Calls : Shape(task[c])
  /\ Accounted
  /\ \A b \in Budgets : admitted[b] + Held(b) <= Limit[b] + late[b]
-----------------------------------------------------------------------------
\* The first element of a list without repetitions is not in the rest.
LEMMA TailElems ==
  ASSUME NEW S, NEW s \in Seq(S), s # <<>>, Distinct(s)
  PROVE  /\ Tail(s) \in Seq(S) /\ Head(s) \in S
         /\ Distinct(Tail(s))
         /\ Head(s) \in Elems(s)
         /\ Elems(Tail(s)) = Elems(s) \ {Head(s)}
<1>1. Len(s) \in Nat \ {0} /\ Len(Tail(s)) = Len(s) - 1 /\ Head(s) = s[1]
  OBVIOUS
<1>2. \A i \in 1..Len(Tail(s)) : Tail(s)[i] = s[i + 1] /\ i + 1 \in 1..Len(s)
  BY <1>1
<1>3. Distinct(Tail(s))
  <2>. SUFFICES ASSUME NEW i \in 1..Len(Tail(s)), NEW j \in 1..Len(Tail(s)),
                       Tail(s)[i] = Tail(s)[j]
                PROVE  i = j
    BY DEF Distinct
  <2>1. s[i + 1] = s[j + 1]
    BY <1>2
  <2>. QED
    BY <2>1, <1>1, <1>2 DEF Distinct
<1>4. Elems(Tail(s)) \subseteq Elems(s) \ {Head(s)}
  <2>. SUFFICES ASSUME NEW i \in 1..Len(Tail(s))
                PROVE  Tail(s)[i] \in Elems(s) /\ Tail(s)[i] # s[1]
    BY <1>1 DEF Elems
  <2>1. i + 1 \in 1..Len(s) /\ 1 \in 1..Len(s) /\ i + 1 # 1
    BY <1>1, <1>2
  <2>. QED
    BY <2>1, <1>2 DEF Elems, Distinct
<1>5. Elems(s) \ {Head(s)} \subseteq Elems(Tail(s))
  <2>. SUFFICES ASSUME NEW k \in 1..Len(s), s[k] # s[1]
                PROVE  s[k] \in Elems(Tail(s))
    BY <1>1 DEF Elems
  <2>1. k - 1 \in 1..Len(Tail(s)) /\ (k - 1) + 1 = k
    BY <1>1
  <2>. QED
    BY <2>1, <1>2 DEF Elems
<1>6. Head(s) \in Elems(s)
  BY <1>1 DEF Elems
<1>. QED
  BY <1>1, <1>3, <1>4, <1>5, <1>6

\* Appending something new to a list without repetitions.
LEMMA AppendElems ==
  ASSUME NEW S, NEW s \in Seq(S), NEW e \in S, Distinct(s), e \notin Elems(s)
  PROVE  /\ Append(s, e) \in Seq(S)
         /\ Distinct(Append(s, e))
         /\ Elems(Append(s, e)) = Elems(s) \cup {e}
<1>. DEFINE a == Append(s, e)
<1>1. /\ a \in Seq(S) /\ Len(s) \in Nat /\ Len(a) = Len(s) + 1
      /\ a[Len(s) + 1] = e
      /\ \A i \in 1..Len(s) : a[i] = s[i]
  OBVIOUS
<1>2. \A i \in 1..Len(a) : i \in 1..Len(s) \/ i = Len(s) + 1
  BY <1>1
<1>3. \A i \in 1..Len(s) : i \in 1..Len(a) /\ s[i] # e
  BY <1>1 DEF Elems
<1>. HIDE DEF a
<1>4. Distinct(a)
  BY <1>1, <1>2, <1>3 DEF Distinct
<1>5. Len(s) + 1 \in 1..Len(a)
  BY <1>1
<1>6. Elems(a) = Elems(s) \cup {e}
  BY <1>1, <1>2, <1>3, <1>5 DEF Elems
<1>. QED
  BY <1>1, <1>4, <1>6 DEF a

\* The empty list.
LEMMA NoElems == Distinct(<<>>) /\ Elems(<<>>) = {}
BY DEF Distinct, Elems

\* How many calls hold a slot, when one of them moves.
LEMMA HeldAfter ==
  ASSUME RateLimitAssumption, NEW c \in Calls, NEW t,
         task \in [Calls -> Task], task' = [task EXCEPT ![c] = t],
         NEW b \in Budgets
  PROVE  /\ Held(b) \in Nat /\ Held(b)' \in Nat
         /\ Held(b)' = Held(b) + (IF b \in t.own THEN 1 ELSE 0)
                               - (IF b \in task[c].own THEN 1 ELSE 0)
<1>1. IsFiniteSet(Holders(b)) /\ Held(b) \in Nat
  <2>1. Holders(b) \in SUBSET Calls
    BY DEF Holders
  <2>. QED
    BY <2>1, FS_Subset, FS_CardinalityType DEF RateLimitAssumption, Held
<1>2. CASE b \in t.own
  <2>1. Holders(b)' = Holders(b) \cup {c}
    BY <1>2 DEF Holders
  <2>2. c \in Holders(b) <=> b \in task[c].own
    BY DEF Holders
  <2>3. /\ IsFiniteSet(Holders(b)')
        /\ Held(b)' = IF b \in task[c].own THEN Held(b) ELSE Held(b) + 1
    BY <1>1, <2>1, <2>2, FS_AddElement DEF Held
  <2>4. Held(b)' \in Nat
    BY <2>3, FS_CardinalityType DEF Held
  <2>. QED
    BY <1>1, <1>2, <2>3, <2>4
<1>3. CASE b \notin t.own
  <2>1. Holders(b)' = Holders(b) \ {c}
    BY <1>3 DEF Holders
  <2>2. c \in Holders(b) <=> b \in task[c].own
    BY DEF Holders
  <2>3. IsFiniteSet(Holders(b)') /\ Held(b)' = Held(b) - (IF b \in task[c].own THEN 1 ELSE 0)
    BY <1>1, <2>1, <2>2, FS_RemoveElement DEF Held
  <2>4. Held(b)' \in Nat
    BY <2>3, FS_CardinalityType DEF Held
  <2>. QED
    BY <1>1, <1>3, <2>3, <2>4
<1>. QED
  BY <1>2, <1>3

LEMMA NoTaskShape == Shape(NoTask) /\ NoTask.own = {}
BY NoElems DEF Shape, NoTask, Task, Distinct, Elems

\* A check passed: its slot joins those to hand back if it was counted.
LEMMA PassedShape ==
  ASSUME NEW c \in Calls, Shape(task[c]), Phase(c) = "check", task[c].checks # <<>>
  PROVE  /\ Shape(Spent(c)) /\ Spent(c).own = task[c].own \cup {Current(c)}
         /\ Shape(Excused(c)) /\ Excused(c).own = task[c].own
         /\ Current(c) \in Budgets /\ Current(c) \notin task[c].own
<1>. DEFINE t == task[c]
            b == Head(t.checks)
            p == Spent(c)
            x == Excused(c)
<1>1. /\ t \in Task /\ t.checks \in Seq(Budgets) /\ t.spent \in Seq(Budgets)
      /\ Distinct(t.checks) /\ Distinct(t.spent) /\ t.checks # <<>>
      /\ Elems(t.spent) = t.own \cup t.old /\ t.own \cap t.old = {}
      /\ Elems(t.checks) \cap Elems(t.spent) = {}
      /\ t.own \subseteq Budgets /\ t.old \subseteq Budgets
  BY DEF Shape, Task
<1>. HIDE DEF t
<1>2. /\ Tail(t.checks) \in Seq(Budgets) /\ b \in Budgets
      /\ Distinct(Tail(t.checks)) /\ b \in Elems(t.checks)
      /\ Elems(Tail(t.checks)) = Elems(t.checks) \ {b}
  BY <1>1, TailElems
<1>3. /\ Append(t.spent, b) \in Seq(Budgets) /\ Distinct(Append(t.spent, b))
      /\ Elems(Append(t.spent, b)) = Elems(t.spent) \cup {b}
  BY <1>1, <1>2, AppendElems
<1>4. b \notin t.own /\ b \notin t.old /\ b \notin Elems(Tail(t.checks))
  BY <1>1, <1>2
<1>5. t.phase = "check" /\ Current(c) = b
  BY DEF t, Phase, Current
<1>6. /\ p \in Task /\ p.phase = "check" /\ p.checks = Tail(t.checks)
      /\ p.spent = Append(t.spent, b) /\ p.own = t.own \cup {b} /\ p.old = t.old
  BY <1>1, <1>2, <1>3, <1>5 DEF Spent, t, Task
<1>7. /\ x \in Task /\ x.phase = "check" /\ x.checks = Tail(t.checks)
      /\ x.spent = t.spent /\ x.own = t.own /\ x.old = t.old
  BY <1>1, <1>2, <1>5 DEF Excused, t, Task
<1>. HIDE DEF p, x
<1>8. Shape(p)
  BY <1>6, <1>1, <1>2, <1>3, <1>4 DEF Shape
<1>9. Shape(x)
  BY <1>7, <1>1, <1>2, <1>4 DEF Shape
<1>. QED
  BY <1>6, <1>7, <1>8, <1>9, <1>2, <1>4, <1>5 DEF p, x, t

LEMMA RefusedShape ==
  ASSUME NEW c \in Calls, Shape(task[c])
  PROVE  Shape(Refused(c)) /\ Refused(c).own = task[c].own
<1>. DEFINE t == task[c]
<1>1. /\ t \in Task /\ Distinct(t.spent)
      /\ Elems(t.spent) = t.own \cup t.old /\ t.own \cap t.old = {}
  BY DEF Shape
<1>. DEFINE r == Refused(c)
            none == <<>>
<1>4. none \in Seq(Budgets)
  OBVIOUS
<1>5. Refused(c) = [task[c] EXCEPT !.phase = "refund", !.checks = none]
  BY DEF Refused
<1>. HIDE DEF none
<1>2. /\ r \in Task /\ r.phase = "refund" /\ r.checks = none
      /\ r.spent = t.spent /\ r.own = t.own /\ r.old = t.old
  BY <1>1, <1>4, <1>5 DEF Task
<1>. HIDE DEF t, r
<1>3. Shape(r)
  BY <1>1, <1>2, NoElems DEF Shape, none
<1>. QED
  BY <1>2, <1>3 DEF t, r

\* What is handed back leaves the list, and the set it was of.
LEMMA ReturnedShape ==
  ASSUME NEW c \in Calls, Shape(task[c]), Phase(c) = "refund", task[c].spent # <<>>,
         NEW b, b = Head(task[c].spent), NEW t, t = Returned(c, b)
  PROVE  /\ Shape(t) /\ t.own = task[c].own \ {b}
         /\ b \in Budgets
         /\ b \in task[c].own <=> b \notin task[c].old
<1>1. /\ task[c] \in Task /\ task[c].phase = "refund"
      /\ task[c].own \subseteq Budgets /\ task[c].old \subseteq Budgets
      /\ task[c].spent \in Seq(Budgets)
  BY DEF Shape, Task, Phase
<1>2. /\ Distinct(task[c].spent) /\ Distinct(task[c].checks)
      /\ Elems(task[c].spent) = task[c].own \cup task[c].old
      /\ task[c].own \cap task[c].old = {}
      /\ Elems(task[c].checks) \cap Elems(task[c].spent) = {}
  BY DEF Shape
<1>. DEFINE tl == Tail(task[c].spent)
<1>3. /\ tl \in Seq(Budgets) /\ b \in Budgets
      /\ Distinct(tl) /\ b \in Elems(task[c].spent)
      /\ Elems(tl) = Elems(task[c].spent) \ {b}
  BY <1>1, <1>2, TailElems
<1>. HIDE DEF tl
<1>4. t = [task[c] EXCEPT !.spent = tl, !.own = task[c].own \ {b}, !.old = task[c].old \ {b}]
  BY DEF tl, Returned
<1>5. /\ t \in Task /\ t.phase = "refund" /\ t.checks = task[c].checks
      /\ t.spent = tl /\ t.own = task[c].own \ {b} /\ t.old = task[c].old \ {b}
  BY ONLY <1>1, <1>3, <1>4 DEF Task
<1>6. Shape(t)
  BY <1>2, <1>3, <1>5 DEF Shape
<1>. QED
  BY <1>2, <1>3, <1>5, <1>6
-----------------------------------------------------------------------------
Gains(t, b) == IF b \in t.own THEN 1 ELSE 0

NumbersOK ==
  /\ hits \in [Budgets -> Int] /\ windows \in [Budgets -> Nat]
  /\ calls \in Nat /\ faults \in Nat
  /\ admitted \in [Budgets -> Nat] /\ wasted \in [Budgets -> Nat] /\ late \in [Budgets -> Nat]

\* The step of one call keeps IInv when its numbers keep the balance.
LEMMA Moves ==
  ASSUME RateLimitAssumption, IInv, NEW c \in Calls, NEW t, Shape(t),
         task' = [task EXCEPT ![c] = t], NumbersOK',
         \A b \in Budgets :
           /\ hits'[b] - hits[b] = (admitted'[b] - admitted[b]) + Gains(t, b) - Gains(task[c], b)
                                     + (wasted'[b] - wasted[b]) - (late'[b] - late[b])
           /\ admitted'[b] + Held(b) + Gains(t, b) - Gains(task[c], b) <= Limit[b] + late'[b]
  PROVE  IInv'
<1>1. t \in Task /\ task \in [Calls -> Task] /\ NumbersOK /\ \A d \in Calls : Shape(task[d])
  BY DEF IInv, LimitTypeOK, Shape, NumbersOK
<1>2. task' \in [Calls -> Task] /\ \A d \in Calls : Shape(task'[d])
  BY <1>1
<1>3. \A b \in Budgets :
        /\ Held(b) \in Nat /\ Held(b)' \in Nat
        /\ Held(b)' = Held(b) + Gains(t, b) - Gains(task[c], b)
  BY <1>1, HeldAfter DEF Gains
<1>4. \A b \in Budgets : Gains(t, b) \in Int /\ Gains(task[c], b) \in Int
  BY DEF Gains
<1>5. \A b \in Budgets :
        /\ hits'[b] = admitted'[b] + Held(b)' + wasted'[b] - late'[b]
        /\ admitted'[b] + Held(b)' <= Limit[b] + late'[b]
  <2>. TAKE b \in Budgets
  <2>1. /\ hits[b] = admitted[b] + Held(b) + wasted[b] - late[b]
        /\ Limit[b] \in Nat
    BY DEF IInv, Accounted, Held, RateLimitAssumption
  <2>2. /\ hits[b] \in Int /\ admitted[b] \in Nat /\ wasted[b] \in Nat /\ late[b] \in Nat
    BY <1>1 DEF NumbersOK
  <2>3. /\ hits'[b] \in Int /\ admitted'[b] \in Nat /\ wasted'[b] \in Nat /\ late'[b] \in Nat
    BY DEF NumbersOK
  <2>4. /\ Held(b) \in Nat /\ Held(b)' \in Nat /\ Gains(t, b) \in Int /\ Gains(task[c], b) \in Int
        /\ Held(b)' = Held(b) + Gains(t, b) - Gains(task[c], b)
    BY <1>3, <1>4
  <2>5. /\ hits'[b] - hits[b] = (admitted'[b] - admitted[b]) + Gains(t, b) - Gains(task[c], b)
                                  + (wasted'[b] - wasted[b]) - (late'[b] - late[b])
        /\ admitted'[b] + Held(b) + Gains(t, b) - Gains(task[c], b) <= Limit[b] + late'[b]
    OBVIOUS
  <2>. QED
    BY ONLY <2>1, <2>2, <2>3, <2>4, <2>5
<1>6. Accounted'
  BY <1>5 DEF Accounted, Held
<1>. QED
  BY <1>2, <1>5, <1>6 DEF IInv, LimitTypeOK, NumbersOK

LEMMA InitIInv == RateLimitAssumption /\ LimitInit => IInv
<1>. SUFFICES ASSUME RateLimitAssumption, LimitInit PROVE IInv
  OBVIOUS
<1>1. \A c \in Calls : Shape(task[c]) /\ task[c] \in Task
  BY NoTaskShape DEF LimitInit, Shape
<1>2. LimitTypeOK
  BY <1>1 DEF LimitInit, LimitTypeOK
<1>3. \A b \in Budgets : Held(b) = 0
  <2>1. \A b \in Budgets : Holders(b) = {}
    BY NoTaskShape DEF Holders, LimitInit
  <2>. QED
    BY <2>1, FS_EmptySet DEF Held
<1>. QED
  BY <1>1, <1>2, <1>3 DEF IInv, Accounted, Held, LimitInit, RateLimitAssumption

\* What IInv says of one budget.
LEMMA Counts ==
  ASSUME RateLimitAssumption, IInv, NEW e \in Budgets
  PROVE  /\ Held(e) \in Nat /\ Limit[e] \in Nat
         /\ hits[e] = admitted[e] + Held(e) + wasted[e] - late[e]
         /\ admitted[e] + Held(e) <= Limit[e] + late[e]
<1>1. Holders(e) \in SUBSET Calls
  BY DEF Holders
<1>2. Held(e) \in Nat
  BY <1>1, FS_Subset, FS_CardinalityType DEF RateLimitAssumption, Held
<1>. QED
  BY <1>2 DEF IInv, Accounted, Held, RateLimitAssumption

\* What a call is let on with, or refused over, keeps the balance.
LEMMA CheckKeeps ==
  ASSUME RateLimitAssumption, IInv, NEW c \in Calls, Consume(c) \/ StoreFails(c)
  PROVE  IInv'
<1>. DEFINE b == Current(c)
<1>1. /\ Shape(task[c]) /\ Phase(c) = "check" /\ task[c].checks # <<>>
      /\ NumbersOK /\ task \in [Calls -> Task]
  BY DEF IInv, LimitTypeOK, NumbersOK, Consume, StoreFails
<1>2. /\ Shape(Spent(c)) /\ Shape(Excused(c)) /\ b \in Budgets
      /\ b \notin task[c].own
      /\ Spent(c).own = task[c].own \cup {b} /\ Excused(c).own = task[c].own
  BY <1>1, PassedShape
<1>3. Shape(Refused(c)) /\ Refused(c).own = task[c].own
  BY <1>1, RefusedShape
<1>4. \A e \in Budgets : Held(e) \in Nat /\ Limit[e] \in Nat /\ admitted[e] + Held(e) <= Limit[e] + late[e]
                       /\ hits[e] = admitted[e] + Held(e) + wasted[e] - late[e]
  BY Counts
<1>. HIDE DEF b
<1>5. CASE Consume(c) /\ hits[b] + 1 <= Limit[b]
  <2>1. /\ task' = [task EXCEPT ![c] = Spent(c)]
        /\ hits' = [hits EXCEPT ![b] = @ + 1]
        /\ windows' = windows /\ calls' = calls /\ faults' = faults
        /\ admitted' = admitted /\ wasted' = wasted /\ late' = late
    BY <1>5 DEF Consume, b
  <2>2. NumbersOK'
    BY <1>1, <1>2, <2>1 DEF NumbersOK
  <2>3. \A e \in Budgets : Gains(Spent(c), e) - Gains(task[c], e) = IF e = b THEN 1 ELSE 0
    BY <1>2 DEF Gains
  <2>4. \A e \in Budgets :
          /\ hits'[e] - hits[e] = (admitted'[e] - admitted[e]) + Gains(Spent(c), e) - Gains(task[c], e)
                                    + (wasted'[e] - wasted[e]) - (late'[e] - late[e])
          /\ admitted'[e] + Held(e) + Gains(Spent(c), e) - Gains(task[c], e) <= Limit[e] + late'[e]
    <3>. TAKE e \in Budgets
    <3>1. Gains(Spent(c), e) \in Int /\ Gains(task[c], e) \in Int
      BY DEF Gains
    <3>. QED
      BY <1>1, <1>4, <1>5, <2>1, <2>3, <3>1, SMTT(30) DEF NumbersOK
  <2>. QED
    BY <1>2, <2>1, <2>2, <2>4, Moves
<1>6. CASE Consume(c) /\ ~(hits[b] + 1 <= Limit[b])
  <2>1. /\ task' = [task EXCEPT ![c] = Refused(c)]
        /\ hits' = [hits EXCEPT ![b] = @ + 1]
        /\ wasted' = [wasted EXCEPT ![b] = @ + 1]
        /\ windows' = windows /\ calls' = calls /\ faults' = faults
        /\ admitted' = admitted /\ late' = late
    BY <1>6 DEF Consume, b
  <2>2. NumbersOK'
    BY <1>1, <1>2, <2>1 DEF NumbersOK
  <2>3. \A e \in Budgets : Gains(Refused(c), e) = Gains(task[c], e) /\ Gains(task[c], e) \in Int
    BY <1>3 DEF Gains
  <2>4. \A e \in Budgets :
          /\ hits'[e] - hits[e] = (admitted'[e] - admitted[e]) + Gains(Refused(c), e) - Gains(task[c], e)
                                    + (wasted'[e] - wasted[e]) - (late'[e] - late[e])
          /\ admitted'[e] + Held(e) + Gains(Refused(c), e) - Gains(task[c], e) <= Limit[e] + late'[e]
    <3>. TAKE e \in Budgets
    <3>1. /\ hits'[e] - hits[e] = wasted'[e] - wasted[e]
          /\ admitted'[e] = admitted[e] /\ late'[e] = late[e]
          /\ hits[e] \in Int /\ hits'[e] \in Int /\ wasted[e] \in Nat /\ wasted'[e] \in Nat
          /\ admitted[e] \in Nat /\ late[e] \in Nat
      <4>1. /\ hits[e] \in Int /\ hits'[e] \in Int /\ wasted[e] \in Nat /\ wasted'[e] \in Nat
            /\ admitted[e] \in Nat /\ late[e] \in Nat
        BY <1>1, <2>2 DEF NumbersOK
      <4>2. /\ hits'[e] = IF e = b THEN hits[e] + 1 ELSE hits[e]
            /\ wasted'[e] = IF e = b THEN wasted[e] + 1 ELSE wasted[e]
        BY <1>1, <2>1 DEF NumbersOK
      <4>3. admitted'[e] = admitted[e] /\ late'[e] = late[e]
        BY <2>1
      <4>4. hits'[e] - hits[e] = wasted'[e] - wasted[e]
        <5>1. CASE e = b
          <6>1. hits'[e] = hits[e] + 1 /\ wasted'[e] = wasted[e] + 1
            BY <4>2, <5>1
          <6>. QED
            BY <4>1, <6>1
        <5>2. CASE e # b
          <6>1. hits'[e] = hits[e] /\ wasted'[e] = wasted[e]
            BY <4>2, <5>2
          <6>. QED
            BY <4>1, <6>1
        <5>. QED
          BY <5>1, <5>2
      <4>. QED
        BY <4>1, <4>3, <4>4
    <3>2. /\ Gains(Refused(c), e) = Gains(task[c], e) /\ Gains(task[c], e) \in Int
          /\ Held(e) \in Nat /\ Limit[e] \in Nat /\ admitted[e] + Held(e) <= Limit[e] + late[e]
      BY <1>4, <2>3
    <3>. QED
      BY <3>1, <3>2, SMTT(30)
  <2>. QED
    BY <1>3, <2>1, <2>2, <2>4, Moves
<1>7. CASE StoreFails(c)
  <2>. DEFINE t == IF b \in FailsOpen THEN Excused(c) ELSE Refused(c)
  <2>1. /\ task' = [task EXCEPT ![c] = t]
        /\ \/ hits' = hits /\ wasted' = wasted
           \/ hits' = [hits EXCEPT ![b] = @ + 1] /\ wasted' = [wasted EXCEPT ![b] = @ + 1]
        /\ faults' = faults + 1
        /\ windows' = windows /\ calls' = calls
        /\ admitted' = admitted /\ late' = late
    BY <1>7 DEF StoreFails, b
  <2>2. Shape(t) /\ t.own = task[c].own
    BY <1>2, <1>3
  <2>. HIDE DEF t
  <2>3. NumbersOK'
    <3>1. hits' \in [Budgets -> Int] /\ wasted' \in [Budgets -> Nat]
      <4>1. CASE hits' = hits /\ wasted' = wasted
        BY <1>1, <4>1 DEF NumbersOK
      <4>2. CASE hits' = [hits EXCEPT ![b] = @ + 1] /\ wasted' = [wasted EXCEPT ![b] = @ + 1]
        BY <1>1, <1>2, <4>2 DEF NumbersOK
      <4>. QED
        BY <2>1, <4>1, <4>2
    <3>2. faults' \in Nat
      BY <1>1, <2>1 DEF NumbersOK
    <3>3. /\ windows' \in [Budgets -> Nat] /\ calls' \in Nat
          /\ admitted' \in [Budgets -> Nat] /\ late' \in [Budgets -> Nat]
      BY <1>1, <2>1 DEF NumbersOK
    <3>. QED
      BY <3>1, <3>2, <3>3 DEF NumbersOK
  <2>4. \A e \in Budgets : Gains(t, e) = Gains(task[c], e) /\ Gains(task[c], e) \in Int
    BY <2>2 DEF Gains
  <2>5. \A e \in Budgets :
          /\ hits'[e] - hits[e] = (admitted'[e] - admitted[e]) + Gains(t, e) - Gains(task[c], e)
                                    + (wasted'[e] - wasted[e]) - (late'[e] - late[e])
          /\ admitted'[e] + Held(e) + Gains(t, e) - Gains(task[c], e) <= Limit[e] + late'[e]
    <3>. TAKE e \in Budgets
    <3>0. /\ hits[e] \in Int /\ hits'[e] \in Int /\ wasted[e] \in Nat /\ wasted'[e] \in Nat
          /\ admitted[e] \in Nat /\ late[e] \in Nat
      BY <1>1, <2>3 DEF NumbersOK
    <3>1. hits'[e] - hits[e] = wasted'[e] - wasted[e] /\ admitted'[e] = admitted[e] /\ late'[e] = late[e]
      <4>1. admitted'[e] = admitted[e] /\ late'[e] = late[e]
        BY <2>1
      <4>2. CASE hits' = hits /\ wasted' = wasted
        BY <4>2, <4>1, <3>0
      <4>3. CASE hits' = [hits EXCEPT ![b] = @ + 1] /\ wasted' = [wasted EXCEPT ![b] = @ + 1]
        <5>1. /\ hits'[e] = IF e = b THEN hits[e] + 1 ELSE hits[e]
              /\ wasted'[e] = IF e = b THEN wasted[e] + 1 ELSE wasted[e]
          BY <1>1, <4>3 DEF NumbersOK
        <5>. QED
          BY <5>1, <4>1, <3>0
      <4>. QED
        BY <2>1, <4>2, <4>3
    <3>2. /\ Gains(t, e) = Gains(task[c], e) /\ Gains(task[c], e) \in Int
          /\ Held(e) \in Nat /\ Limit[e] \in Nat /\ admitted[e] + Held(e) <= Limit[e] + late[e]
      BY <1>4, <2>4
    <3>. QED
      BY <3>0, <3>1, <3>2, SMTT(30)
  <2>. QED
    BY <2>1, <2>2, <2>3, <2>5, Moves
<1>. QED
  BY <1>5, <1>6, <1>7

\* A call goes through with the slots it holds.
LEMMA AllowKeeps ==
  ASSUME RateLimitAssumption, IInv, NEW c \in Calls, Allow(c)
  PROVE  IInv'
<1>. DEFINE t == [NoTask EXCEPT !.phase = "allowed"]
<1>1. /\ Shape(task[c]) /\ NumbersOK /\ task' = [task EXCEPT ![c] = t]
      /\ admitted' = [b \in Budgets |-> IF b \in task[c].own THEN admitted[b] + 1 ELSE admitted[b]]
      /\ hits' = hits /\ windows' = windows /\ calls' = calls /\ faults' = faults
      /\ wasted' = wasted /\ late' = late
  BY DEF IInv, LimitTypeOK, NumbersOK, Allow
<1>5. /\ t \in Task /\ t.phase = "allowed" /\ t.checks = NoTask.checks /\ t.spent = NoTask.spent
      /\ t.own = NoTask.own /\ t.old = NoTask.old
  BY NoTaskShape DEF NoTask, Task, Shape
<1>. HIDE DEF t
<1>2. Shape(t) /\ t.own = {}
  BY <1>5, NoTaskShape DEF Shape
<1>3. NumbersOK'
  BY <1>1 DEF NumbersOK
<1>4. \A e \in Budgets :
        /\ hits'[e] - hits[e] = (admitted'[e] - admitted[e]) + Gains(t, e) - Gains(task[c], e)
                                  + (wasted'[e] - wasted[e]) - (late'[e] - late[e])
        /\ admitted'[e] + Held(e) + Gains(t, e) - Gains(task[c], e) <= Limit[e] + late'[e]
  <2>. TAKE e \in Budgets
  <2>1. /\ hits[e] \in Int /\ wasted[e] \in Nat /\ admitted[e] \in Nat /\ late[e] \in Nat
        /\ hits' = hits /\ wasted' = wasted /\ late' = late
        /\ admitted'[e] = admitted[e] + Gains(task[c], e)
    BY <1>1 DEF NumbersOK, Gains
  <2>2. Gains(t, e) = 0 /\ Gains(task[c], e) \in Int
    BY <1>2 DEF Gains
  <2>3. Held(e) \in Nat /\ Limit[e] \in Nat /\ admitted[e] + Held(e) <= Limit[e] + late[e]
    BY Counts
  <2>. QED
    BY <2>1, <2>2, <2>3, SMTT(30)
<1>. QED
  BY <1>1, <1>2, <1>3, <1>4, Moves

\* A call hands one slot back, or fails to.
LEMMA ReturnKeeps ==
  ASSUME RateLimitAssumption, IInv, NEW c \in Calls, Refund(c) \/ RefundFails(c)
  PROVE  IInv'
<1>. DEFINE b == Head(task[c].spent)
            t == Returned(c, b)
<1>1. /\ Shape(task[c]) /\ NumbersOK /\ Phase(c) = "refund" /\ task[c].spent # <<>>
      /\ task' = [task EXCEPT ![c] = t]
  BY DEF IInv, LimitTypeOK, NumbersOK, Refund, RefundFails
<1>2. /\ Shape(t) /\ t.own = task[c].own \ {b} /\ b \in Budgets
      /\ b \in task[c].own <=> b \notin task[c].old
  BY <1>1, ReturnedShape
<1>. HIDE DEF t
<1>3. \A e \in Budgets : /\ Gains(t, e) \in Int /\ Gains(task[c], e) \in Int
                         /\ e # b => Gains(t, e) = Gains(task[c], e)
                         /\ Gains(t, b) = 0
  BY <1>2 DEF Gains
<1>4. CASE Refund(c)
  <2>1. /\ hits' = [hits EXCEPT ![b] = @ - 1]
        /\ late' = IF b \in task[c].old THEN [late EXCEPT ![b] = @ + 1] ELSE late
        /\ windows' = windows /\ calls' = calls /\ faults' = faults
        /\ admitted' = admitted /\ wasted' = wasted
    BY <1>4 DEF Refund
  <2>. HIDE DEF b
  <2>2. NumbersOK'
    BY <1>1, <1>2, <2>1 DEF NumbersOK
  <2>3. \A e \in Budgets :
          /\ hits'[e] - hits[e] = (admitted'[e] - admitted[e]) + Gains(t, e) - Gains(task[c], e)
                                    + (wasted'[e] - wasted[e]) - (late'[e] - late[e])
          /\ admitted'[e] + Held(e) + Gains(t, e) - Gains(task[c], e) <= Limit[e] + late'[e]
    <3>. TAKE e \in Budgets
    <3>1. /\ hits[e] \in Int /\ wasted[e] \in Nat /\ admitted[e] \in Nat /\ late[e] \in Nat
          /\ e \in DOMAIN hits /\ e \in DOMAIN late
          /\ admitted' = admitted /\ wasted' = wasted
      BY <1>1, <2>1 DEF NumbersOK
    <3>2. Held(e) \in Nat /\ Limit[e] \in Nat /\ admitted[e] + Held(e) <= Limit[e] + late[e]
      BY Counts
    <3>3. CASE e # b
      <4>1. hits'[e] = hits[e] /\ late'[e] = late[e]
        BY <3>1, <3>3, <2>1
      <4>. QED
        BY <4>1, <3>1, <3>2, <3>3, <1>3
    <3>4. CASE e = b /\ b \in task[c].own
      <4>1. hits'[e] = hits[e] - 1 /\ late'[e] = late[e] /\ Gains(task[c], e) = 1 /\ Gains(t, e) = 0
        BY <3>1, <3>4, <2>1, <1>2, <1>3 DEF Gains
      <4>. QED
        BY <4>1, <3>1, <3>2
    <3>5. CASE e = b /\ b \notin task[c].own
      <4>1. hits'[e] = hits[e] - 1 /\ late'[e] = late[e] + 1 /\ Gains(task[c], e) = 0 /\ Gains(t, e) = 0
        BY <3>1, <3>5, <2>1, <1>2, <1>3 DEF Gains
      <4>. QED
        BY <4>1, <3>1, <3>2
    <3>. QED
      BY <3>3, <3>4, <3>5
  <2>. QED
    BY <1>1, <1>2, <2>2, <2>3, Moves
<1>5. CASE RefundFails(c)
  <2>1. /\ wasted' = IF b \in task[c].own THEN [wasted EXCEPT ![b] = @ + 1] ELSE wasted
        /\ windows' = windows /\ calls' = calls /\ faults' = faults + 1
        /\ admitted' = admitted /\ hits' = hits /\ late' = late
    BY <1>5 DEF RefundFails
  <2>. HIDE DEF b
  <2>2. NumbersOK'
    BY <1>1, <1>2, <2>1 DEF NumbersOK
  <2>3. \A e \in Budgets :
          /\ hits'[e] - hits[e] = (admitted'[e] - admitted[e]) + Gains(t, e) - Gains(task[c], e)
                                    + (wasted'[e] - wasted[e]) - (late'[e] - late[e])
          /\ admitted'[e] + Held(e) + Gains(t, e) - Gains(task[c], e) <= Limit[e] + late'[e]
    <3>. TAKE e \in Budgets
    <3>1. /\ hits[e] \in Int /\ wasted[e] \in Nat /\ admitted[e] \in Nat /\ late[e] \in Nat
          /\ e \in DOMAIN wasted /\ admitted' = admitted /\ hits' = hits /\ late' = late
      BY <1>1, <2>1 DEF NumbersOK
    <3>2. Held(e) \in Nat /\ Limit[e] \in Nat /\ admitted[e] + Held(e) <= Limit[e] + late[e]
      BY Counts
    <3>3. CASE e # b
      <4>1. wasted'[e] = wasted[e]
        BY <3>1, <3>3, <2>1
      <4>. QED
        BY <4>1, <3>1, <3>2, <3>3, <1>3
    <3>4. CASE e = b /\ b \in task[c].own
      <4>1. wasted'[e] = wasted[e] + 1 /\ Gains(task[c], e) = 1 /\ Gains(t, e) = 0
        BY <3>1, <3>4, <2>1, <1>3 DEF Gains
      <4>. QED
        BY <4>1, <3>1, <3>2
    <3>5. CASE e = b /\ b \notin task[c].own
      <4>1. wasted'[e] = wasted[e] /\ Gains(task[c], e) = 0 /\ Gains(t, e) = 0
        BY <3>1, <3>5, <2>1, <1>3 DEF Gains
      <4>. QED
        BY <4>1, <3>1, <3>2
    <3>. QED
      BY <3>3, <3>4, <3>5
  <2>. QED
    BY <1>1, <1>2, <2>2, <2>3, Moves
<1>. QED
  BY <1>4, <1>5

\* A call that holds nothing comes or goes.
LEMMA ComesAndGoes ==
  ASSUME RateLimitAssumption, IInv, NEW c \in Calls,
         \/ \E checks \in Checks : Arrive(c, checks)
         \/ Refuse(c) \/ Leave(c)
  PROVE  IInv'
<1>0. Shape(task[c]) /\ NumbersOK /\ calls \in Nat
  BY DEF IInv, LimitTypeOK, NumbersOK
<1>1. /\ Shape(task[c]) /\ NumbersOK
      /\ hits' = hits /\ windows' = windows /\ faults' = faults /\ calls' \in Nat
      /\ admitted' = admitted /\ wasted' = wasted /\ late' = late
  <2>1. CASE \E checks \in Checks : Arrive(c, checks)
    <3>1. PICK checks \in Checks : Arrive(c, checks)
      BY <2>1
    <3>2. calls' = calls + 1
      BY <3>1 DEF Arrive
    <3>3. /\ hits' = hits /\ windows' = windows /\ faults' = faults
          /\ admitted' = admitted /\ wasted' = wasted /\ late' = late
      BY <3>1 DEF Arrive
    <3>. QED
      BY <1>0, <3>2, <3>3
  <2>2. CASE Refuse(c) \/ Leave(c)
    BY <1>0, <2>2 DEF Refuse, Leave
  <2>. QED
    BY <2>1, <2>2
<1>2. task[c].own = {}
  <2>1. CASE Refuse(c)
    <3>1. task[c].spent = <<>>
      BY <2>1 DEF Refuse
    <3>. QED
      BY <3>1, <1>1, NoElems DEF Shape
  <2>. QED
    BY <2>1, <1>1 DEF Shape, Arrive, Leave, Phase
<1>3. PICK t : task' = [task EXCEPT ![c] = t] /\ Shape(t) /\ t.own = {}
  <2>1. CASE Refuse(c) \/ Leave(c)
    BY <2>1, NoTaskShape DEF Refuse, Leave
  <2>2. CASE \E checks \in Checks : Arrive(c, checks)
    <3>1. PICK checks \in Checks : Arrive(c, checks)
      BY <2>2
    <3>. DEFINE a == [NoTask EXCEPT !.phase = "check", !.checks = checks]
    <3>2. checks \in Seq(Budgets) /\ Distinct(checks)
      BY <3>1 DEF RateLimitAssumption, Distinct
    <3>3. /\ a \in Task /\ a.phase = "check" /\ a.checks = checks /\ a.spent = NoTask.spent
          /\ a.own = NoTask.own /\ a.old = NoTask.old
      BY <3>2, NoTaskShape DEF NoTask, Task, Shape
    <3>4. task' = [task EXCEPT ![c] = a]
      BY <3>1 DEF Arrive
    <3>. HIDE DEF a
    <3>5. Elems(NoTask.spent) = {} /\ Distinct(NoTask.spent)
      BY NoElems DEF NoTask
    <3>6. Shape(a) /\ a.own = {}
      BY <3>2, <3>3, <3>5, NoTaskShape DEF Shape
    <3>. QED
      BY <3>4, <3>6
  <2>. QED
    BY <2>1, <2>2
<1>4. NumbersOK'
  BY <1>1 DEF NumbersOK
<1>5. \A e \in Budgets :
        /\ hits'[e] - hits[e] = (admitted'[e] - admitted[e]) + Gains(t, e) - Gains(task[c], e)
                                  + (wasted'[e] - wasted[e]) - (late'[e] - late[e])
        /\ admitted'[e] + Held(e) + Gains(t, e) - Gains(task[c], e) <= Limit[e] + late'[e]
  <2>. TAKE e \in Budgets
  <2>1. Gains(t, e) = 0 /\ Gains(task[c], e) = 0
    BY <1>2, <1>3 DEF Gains
  <2>2. Held(e) \in Nat /\ Limit[e] \in Nat /\ admitted[e] + Held(e) <= Limit[e] + late[e]
    BY Counts
  <2>3. hits[e] \in Int /\ wasted[e] \in Nat /\ admitted[e] \in Nat /\ late[e] \in Nat
    BY <1>1 DEF NumbersOK
  <2>. QED
    BY <2>1, <2>2, <2>3, <1>1
<1>. QED
  BY <1>3, <1>4, <1>5, Moves

\* A window ends: what was held of it is of an ended window now.
LEMMA WindowKeeps ==
  ASSUME RateLimitAssumption, IInv, NEW b \in Budgets, WindowEnds(b)
  PROVE  IInv'
<1>1. /\ NumbersOK /\ task \in [Calls -> Task]
      /\ windows' = [windows EXCEPT ![b] = @ + 1] /\ hits' = [hits EXCEPT ![b] = 0]
      /\ admitted' = [admitted EXCEPT ![b] = 0] /\ wasted' = [wasted EXCEPT ![b] = 0]
      /\ late' = [late EXCEPT ![b] = 0] /\ calls' = calls /\ faults' = faults
      /\ task' = [c \in Calls |-> IF b \in task[c].own THEN Outlived(c, b) ELSE task[c]]
  BY DEF WindowEnds, IInv, LimitTypeOK, NumbersOK
<1>2. NumbersOK'
  BY <1>1 DEF NumbersOK
<1>3. \A c \in Calls : Shape(task'[c]) /\ task'[c].own = task[c].own \ {b}
  <2>. TAKE c \in Calls
  <2>1. Shape(task[c])
    BY DEF IInv
  <2>2. CASE b \notin task[c].own
    <3>1. task'[c] = task[c] /\ task[c].own \ {b} = task[c].own
      BY <1>1, <2>2
    <3>. QED
      BY <2>1, <3>1
  <2>3. CASE b \in task[c].own
    <3>. DEFINE u == task[c]
                t == Outlived(c, b)
    <3>1. /\ u \in Task /\ u.own \subseteq Budgets /\ u.old \subseteq Budgets
      BY <2>1 DEF Shape, Task
    <3>2. task'[c] = t
      BY <1>1, <2>3
    <3>3. /\ t \in Task /\ t.phase = u.phase /\ t.checks = u.checks /\ t.spent = u.spent
          /\ t.own = u.own \ {b} /\ t.old = u.old \cup {b}
      BY <3>1 DEF Task, Outlived
    <3>. HIDE DEF t, u
    <3>4. Shape(u) /\ b \in u.own
      BY <2>1, <2>3 DEF u
    <3>5. Shape(t)
      BY <3>3, <3>4 DEF Shape
    <3>. QED
      BY <3>2, <3>3, <3>5 DEF t, u
  <2>. QED
    BY <2>2, <2>3
<1>4. task' \in [Calls -> Task]
  BY <1>1, <1>3 DEF Shape
<1>5. \A e \in Budgets : Holders(e)' = IF e = b THEN {} ELSE Holders(e)
  BY <1>3 DEF Holders
<1>6. \A e \in Budgets : Held(e)' = IF e = b THEN 0 ELSE Held(e)
  BY <1>5, FS_EmptySet DEF Held
<1>7. \A e \in Budgets :
        /\ hits'[e] = admitted'[e] + Held(e)' + wasted'[e] - late'[e]
        /\ admitted'[e] + Held(e)' <= Limit[e] + late'[e]
  <2>. TAKE e \in Budgets
  <2>1. /\ Held(e) \in Nat /\ Limit[e] \in Nat
        /\ hits[e] = admitted[e] + Held(e) + wasted[e] - late[e]
        /\ admitted[e] + Held(e) <= Limit[e] + late[e]
    BY Counts
  <2>2. /\ e \in DOMAIN hits /\ e \in DOMAIN admitted /\ e \in DOMAIN wasted /\ e \in DOMAIN late
    BY <1>1 DEF NumbersOK
  <2>3. CASE e = b
    <3>1. hits'[e] = 0 /\ admitted'[e] = 0 /\ wasted'[e] = 0 /\ late'[e] = 0 /\ Held(e)' = 0
      BY <2>2, <2>3, <1>1, <1>6
    <3>. QED
      BY <3>1, <2>1
  <2>4. CASE e # b
    <3>1. /\ hits'[e] = hits[e] /\ admitted'[e] = admitted[e] /\ wasted'[e] = wasted[e]
          /\ late'[e] = late[e] /\ Held(e)' = Held(e)
      BY <2>2, <2>4, <1>1, <1>6
    <3>. QED
      BY <3>1, <2>1
  <2>. QED
    BY <2>3, <2>4
<1>. QED
  BY <1>2, <1>3, <1>4, <1>7 DEF IInv, LimitTypeOK, NumbersOK, Accounted, Held

LEMMA StepKeeps == RateLimitAssumption /\ IInv /\ [LimitNext]_limitVars => IInv'
<1>. SUFFICES ASSUME RateLimitAssumption, IInv, [LimitNext]_limitVars PROVE IInv'
  OBVIOUS
<1>1. CASE UNCHANGED limitVars
  BY <1>1 DEF limitVars, IInv, LimitTypeOK, Accounted, Held, Holders
<1>2. CASE \E c \in Calls : LimitStep(c) \/ Refuse(c) \/ Leave(c)
  BY <1>2, CheckKeeps, AllowKeeps, ReturnKeeps, ComesAndGoes DEF LimitStep
<1>3. CASE \E c \in Calls, checks \in Checks : Arrive(c, checks)
  BY <1>3, ComesAndGoes
<1>4. CASE \E b \in Budgets : WindowEnds(b)
  BY <1>4, WindowKeeps
<1>. QED
  BY <1>1, <1>2, <1>3, <1>4 DEF LimitNext

\* The balance above, in every state the limiter reaches.
THEOREM LimiterKeepsItsBalance == LimitSpec => []IInv
<1>1. LimitInit => IInv
  BY InitIInv, RateLimitAssumption
<1>2. IInv /\ [LimitNext]_limitVars => IInv'
  BY StepKeeps, RateLimitAssumption
<1>. QED
  BY <1>1, <1>2, PTL DEF LimitSpec

\* What Redis counts of an open window is what its calls had, hold, wasted or
\* handed back too late: a refusal leaves nothing behind (consumeAll).
THEOREM RefusalsLeaveNothing == LimitSpec => []Accounted
<1>1. IInv => Accounted
  BY DEF IInv
<1>. QED
  BY <1>1, LimiterKeepsItsBalance, PTL

\* However the calls interleave and the windows end, a window admits at most
\* its limit, and one more for each slot returned into it from an earlier one.
THEOREM WindowsKeepTheirLimit == LimitSpec => []WithinLimit
<1>1. IInv => WithinLimit
  <2>. SUFFICES ASSUME IInv, NEW b \in Budgets PROVE admitted[b] <= Limit[b] + late[b]
    BY DEF WithinLimit
  <2>1. /\ Held(b) \in Nat /\ Limit[b] \in Nat /\ admitted[b] + Held(b) <= Limit[b] + late[b]
    BY Counts, RateLimitAssumption
  <2>2. admitted[b] \in Nat /\ late[b] \in Nat
    BY DEF IInv, LimitTypeOK
  <2>. QED
    BY <2>1, <2>2
<1>. QED
  BY <1>1, LimiterKeepsItsBalance, PTL
-----------------------------------------------------------------------------
(***************************************************************************)
(* The guards.                                                             *)
(***************************************************************************)
HttpRecord == [at : {"idle", "limit", "tenancy", "storing", "permission", "handler", "fault"},
               route : Route, caller : Users \cup Admins,
               knows : SUBSET {"userId", "adminId", "workspaceId", "memberId"}]

\* What the audit makes sure of.
Sound(r) ==
  /\ r \in Route
  /\ ~r.public /\ r.audience = "user" /\ "noWorkspace" \in r.markers => r.markers = {"noWorkspace"}
  /\ Requirement(r) = "workspace" => ~r.public /\ ~Exempt(r)
  /\ Requirement(r) = "admin" => ~r.public /\ r.audience = "admin"

\* What a request knows by the time it is past a guard.
Wiring(q) ==
  /\ q \in HttpRecord /\ Sound(q.route) /\ q.at # "fault"
  /\ q.at \in {"tenancy", "storing", "permission", "handler"} /\ ~q.route.public =>
       (IF q.route.audience = "user" THEN "userId" ELSE "adminId") \in q.knows
  /\ q.at \in {"permission", "handler"} /\ ~Exempt(q.route) =>
       {"workspaceId", "memberId"} \subseteq q.knows

WInv == http \in [Calls -> HttpRecord] /\ \A c \in Calls : Wiring(http[c])
-----------------------------------------------------------------------------
\* No action of the application moves the limiter but by a step of its own.
LEMMA MovesTheLimiter == [Next]_vars => [LimitNext]_limitVars
<1>. SUFFICES ASSUME [Next]_vars, limitVars' # limitVars PROVE LimitNext
  OBVIOUS
<1>1. Next
  BY DEF vars, requestVars
<1>2. ASSUME NEW c \in Calls, Leave(c) \/ Refuse(c) \/ LimitStep(c) PROVE LimitNext
  BY <1>2 DEF LimitNext
<1>3. ASSUME NEW c \in Calls, Arrives(c) PROVE LimitNext
  <2>1. \E checks \in Checks : Arrive(c, checks)
    <3>1. <<Floor>> \in Checks /\ <<Floor, CreateByIp>> \in Checks
      BY WorkspacesAssumption
    <3>. QED
      BY <1>3, <3>1 DEF Arrives, Request
  <2>. QED
    BY <2>1 DEF LimitNext
<1>4. ASSUME NEW c \in Calls, Guards(c) PROVE LimitNext
  BY <1>2, <1>4 DEF Guards, Authenticate, Answer, TenancySkipped, requestVars
<1>5. ASSUME NEW c \in Calls, Tenancy(c) \/ StoreStatus(c) PROVE LimitNext
  BY <1>2, <1>5 DEF Tenancy, StoreStatus, Judge, Answers, Answer
<1>6. ASSUME NEW c \in Calls, PermissionGiven(c) PROVE LimitNext
  BY <1>2, <1>6 DEF PermissionGiven, Permission, Answer
<1>7. ASSUME NEW c \in Calls, Create(c) PROVE LimitNext
  BY <1>2, <1>7 DEF Create, CanCreate, SlugChecked, Pick, Insert, Explain, CreateFails,
                    Answers, Answer, requestVars
<1>8. ASSUME NEW c \in Calls, Review(c) \/ Reads(c) PROVE LimitNext
  BY <1>2, <1>8 DEF Review, Reads, RecordReview, ReviewFails, DropStatus, DropLost,
                    Answers, Answer, requestVars
<1>9. ASSUME NEW c \in Calls, LimiterSteps(c) \/ Refusals(c) PROVE LimitNext
  BY <1>2, <1>9 DEF LimiterSteps, Refusals, TooMany
<1>10. ASSUME NEW b \in Budgets, KeyExpires(b) PROVE LimitNext
  BY <1>10 DEF KeyExpires, LimitNext
<1>11. ASSUME NEW w \in Slugs, Expire(w) PROVE FALSE
  BY <1>11 DEF Expire, requestVars
<1>. QED
  BY <1>1, <1>3, <1>4, <1>5, <1>6, <1>7, <1>8, <1>9, <1>10, <1>11 DEF Next

\* Every workspace route spends and hands back its slots as RateLimit says.
THEOREM DrivesTheLimiter == Spec => LimitSpec
<1>1. Init => LimitInit
  BY DEF Init, RequestsInit
<1>. QED
  BY <1>1, MovesTheLimiter, PTL DEF Spec, LimitSpec

\* So its windows keep their limits too, whatever its requests come to.
THEOREM ItsWindowsKeepTheirLimit == Spec => [](Accounted /\ WithinLimit)
BY DrivesTheLimiter, RefusalsLeaveNothing, WindowsKeepTheirLimit, PTL
-----------------------------------------------------------------------------
\* A route the audit accepts says one thing about who may call it.
LEMMA AuditedIsSound == \A r \in Audited : Sound(r)
<1>. SUFFICES ASSUME NEW r \in Audited PROVE Sound(r)
  OBVIOUS
<1>1. r \in Route /\ Requirement(r) # "fault"
  BY DEF Audited
<1>2. CASE r.public
  BY <1>1, <1>2 DEF Sound, Requirement
<1>3. CASE ~r.public
  <2>1. Cardinality(r.markers) = 1 /\ r.markers \subseteq Allowed(r.audience)
    BY <1>1, <1>3 DEF Requirement
  <2>2. PICK m : r.markers = {m}
    <3>1. IsFiniteSet(Allowed(r.audience))
      <4>1. IsFiniteSet({}) /\ IsFiniteSet({"anyMember"}) /\ IsFiniteSet({"adminKey"})
        BY FS_EmptySet, FS_Singleton
      <4>2. IsFiniteSet({"anyMember"} \cup {"workspaceKey"}) /\ IsFiniteSet({"adminKey"} \cup {"anyAdmin"})
        BY <4>1, FS_AddElement
      <4>3. IsFiniteSet(({"anyMember"} \cup {"workspaceKey"}) \cup {"noWorkspace"})
        BY <4>2, FS_AddElement
      <4>4. /\ UserMarkers = ({"anyMember"} \cup {"workspaceKey"}) \cup {"noWorkspace"}
            /\ AdminMarkers = {"adminKey"} \cup {"anyAdmin"}
        BY DEF UserMarkers, AdminMarkers
      <4>. QED
        BY <4>2, <4>3, <4>4 DEF Allowed
    <3>2. IsFiniteSet(r.markers)
      BY <2>1, <3>1, FS_Subset
    <3>. QED
      BY <2>1, <3>2, FS_Singleton
  <2>3. Requirement(r) = "workspace" => r.markers = {"workspaceKey"} /\ r.audience = "user"
    BY <1>1, <1>3, <2>1, <2>2 DEF Requirement, Allowed, UserMarkers, AdminMarkers, Route
  <2>4. Requirement(r) = "admin" => r.markers = {"adminKey"} /\ r.audience = "admin"
    BY <1>1, <1>3, <2>1, <2>2 DEF Requirement, Allowed, UserMarkers, AdminMarkers, Route
  <2>. QED
    BY <1>1, <1>3, <2>2, <2>3, <2>4 DEF Sound, Exempt
<1>. QED
  BY <1>2, <1>3

LEMMA OwnRoutesAreSound == Sound(NoRoute) /\ Sound(CreateRoute) /\ Sound(ReviewRoute)
<1>1. Sound(NoRoute)
  BY DEF Sound, NoRoute, Route, Requirement
<1>2. /\ CreateRoute = [audience |-> "user", public |-> FALSE, markers |-> {"noWorkspace"}]
      /\ ReviewRoute = [audience |-> "admin", public |-> FALSE, markers |-> {"adminKey"}]
  BY DEF CreateRoute, ReviewRoute
<1>3. CreateRoute \in Route /\ ReviewRoute \in Route
  BY <1>2 DEF Route, UserMarkers, AdminMarkers
<1>4. Cardinality({"noWorkspace"}) = 1 /\ Cardinality({"adminKey"}) = 1
  BY FS_Singleton
<1>5. Requirement(CreateRoute) = "authenticated" /\ Requirement(ReviewRoute) = "admin"
  BY <1>2, <1>4 DEF Requirement, Allowed, UserMarkers, AdminMarkers
<1>6. Sound(CreateRoute)
  BY <1>2, <1>3, <1>5 DEF Sound
<1>7. Sound(ReviewRoute)
  BY <1>2, <1>3, <1>5 DEF Sound
<1>. QED
  BY <1>1, <1>6, <1>7
-----------------------------------------------------------------------------
LEMMA InitWInv == Init => WInv
<1>. SUFFICES ASSUME Init PROVE WInv
  OBVIOUS
<1>1. (CHOOSE u \in Users : TRUE) \in Users
  BY RequestsAssumption
<1>2. NoRequest \in HttpRecord /\ NoRequest.at = "idle" /\ NoRequest.route = NoRoute
  BY <1>1, OwnRoutesAreSound DEF NoRequest, HttpRecord, Sound
<1>3. Wiring(NoRequest)
  BY <1>2, OwnRoutesAreSound DEF Wiring
<1>. QED
  BY <1>2, <1>3 DEF Init, RequestsInit, WInv

\* A request that moves alone keeps the invariant if its new record does.
LEMMA OneMoves ==
  ASSUME WInv, NEW c \in Calls, NEW q, Wiring(q), http' = [http EXCEPT ![c] = q]
  PROVE  WInv'
<1>1. q \in HttpRecord
  BY DEF Wiring
<1>2. \A d \in Calls : http'[d] = IF d = c THEN q ELSE http[d]
  BY DEF WInv
<1>3. \A d \in Calls : Wiring(http'[d])
  <2>. TAKE d \in Calls
  <2>1. CASE d = c
    BY <1>2, <2>1
  <2>2. CASE d # c
    BY <1>2, <2>2 DEF WInv
  <2>. QED
    BY <2>1, <2>2
<1>. QED
  BY <1>1, <1>3 DEF WInv

LEMMA AnswerKeeps ==
  ASSUME WInv, NEW c \in Calls, http' = [http EXCEPT ![c] = NoRequest]
  PROVE  WInv'
<1>1. (CHOOSE u \in Users : TRUE) \in Users
  BY RequestsAssumption
<1>2. NoRequest \in HttpRecord /\ NoRequest.at = "idle" /\ NoRequest.route = NoRoute
  BY <1>1, OwnRoutesAreSound DEF NoRequest, HttpRecord, Sound
<1>3. Wiring(NoRequest)
  BY <1>2, OwnRoutesAreSound DEF Wiring
<1>. QED
  BY <1>3, OneMoves

\* A request past a guard: what that guard has set is what the next one asks.
LEMMA LearnsKeeps ==
  ASSUME WInv, NEW c \in Calls,
         NEW facts \in SUBSET {"userId", "adminId", "workspaceId", "memberId"},
         NEW at \in {"tenancy", "storing", "permission", "handler"},
         Learns(c, facts, at),
         LET k == http[c].knows \cup facts IN
           /\ ~RouteOf(c).public => (IF RouteOf(c).audience = "user" THEN "userId" ELSE "adminId") \in k
           /\ at \in {"permission", "handler"} /\ ~Exempt(RouteOf(c)) => {"workspaceId", "memberId"} \subseteq k
  PROVE  WInv'
<1>. DEFINE q == [http[c] EXCEPT !.at = at, !.knows = http[c].knows \cup facts]
<1>1. http \in [Calls -> HttpRecord] /\ Wiring(http[c])
  BY DEF WInv
<1>2. http' = [http EXCEPT ![c] = q]
  BY <1>1 DEF Learns, HttpRecord
<1>3. /\ q \in HttpRecord /\ q.at = at /\ q.knows = http[c].knows \cup facts
      /\ q.route = http[c].route
  BY <1>1 DEF HttpRecord
<1>. HIDE DEF q
<1>4. Wiring(q)
  BY <1>1, <1>3 DEF Wiring, RouteOf
<1>. QED
  BY <1>2, <1>4, OneMoves

LEMMA GotoKeeps ==
  ASSUME WInv, NEW c \in Calls, NEW at \in {"tenancy", "storing", "permission", "handler"}, Goto(c, at),
         /\ ~RouteOf(c).public =>
              (IF RouteOf(c).audience = "user" THEN "userId" ELSE "adminId") \in http[c].knows
         /\ at \in {"permission", "handler"} /\ ~Exempt(RouteOf(c)) =>
              {"workspaceId", "memberId"} \subseteq http[c].knows
  PROVE  WInv'
<1>. DEFINE q == [http[c] EXCEPT !.at = at]
<1>1. http \in [Calls -> HttpRecord] /\ Wiring(http[c])
  BY DEF WInv
<1>2. http' = [http EXCEPT ![c] = q]
  BY <1>1 DEF Goto, HttpRecord
<1>3. /\ q \in HttpRecord /\ q.at = at /\ q.knows = http[c].knows /\ q.route = http[c].route
  BY <1>1 DEF HttpRecord
<1>. HIDE DEF q
<1>4. Wiring(q)
  BY <1>1, <1>3 DEF Wiring, RouteOf
<1>. QED
  BY <1>2, <1>4, OneMoves

LEMMA ArriveKeeps ==
  ASSUME WInv, NEW c \in Calls, Arrives(c)
  PROVE  WInv'
<1>1. PICK route, caller, checks :
        Request(c, route, caller, checks) /\ Sound(route) /\ caller \in Users \cup Admins
  <2>1. \A r \in Routes : Sound(r)
    BY RequestsAssumption, AuditedIsSound
  <2>2. PICK caller \in Users \cup Admins :
          \/ Request(c, CreateRoute, caller, <<Floor, CreateByIp>>)
          \/ Request(c, ReviewRoute, caller, <<Floor>>)
          \/ \E r \in Routes : Request(c, r, caller, <<Floor>>)
    BY DEF Arrives
  <2>3. CASE Request(c, CreateRoute, caller, <<Floor, CreateByIp>>)
    BY <2>2, <2>3, OwnRoutesAreSound
  <2>4. CASE Request(c, ReviewRoute, caller, <<Floor>>)
    BY <2>2, <2>4, OwnRoutesAreSound
  <2>5. CASE \E r \in Routes : Request(c, r, caller, <<Floor>>)
    BY <2>1, <2>2, <2>5
  <2>. QED
    BY <2>2, <2>3, <2>4, <2>5
<1>. DEFINE q == [NoRequest EXCEPT !.at = "limit", !.route = route, !.caller = caller]
<1>2. q \in HttpRecord /\ q.at = "limit" /\ q.route = route
  BY <1>1 DEF NoRequest, HttpRecord, Sound
<1>3. http' = [http EXCEPT ![c] = q]
  BY <1>1 DEF Request
<1>. HIDE DEF q
<1>4. Wiring(q)
  BY <1>1, <1>2 DEF Wiring
<1>. QED
  BY <1>3, <1>4, OneMoves

LEMMA GuardsKeep ==
  ASSUME WInv, NEW c \in Calls,
         Guards(c) \/ Tenancy(c) \/ StoreStatus(c) \/ PermissionGiven(c)
  PROVE  WInv'
<1>. DEFINE q == http[c]
<1>1. /\ Wiring(q) /\ q \in HttpRecord /\ q.route \in Route /\ Sound(q.route)
      /\ RouteOf(c) = q.route /\ Where(c) = q.at
  BY DEF WInv, Wiring, RouteOf, Where, HttpRecord
<1>2. CASE Answer(c)
  BY <1>2, AnswerKeeps DEF Answer
<1>3. CASE http' = http
  BY <1>3 DEF WInv
<1>4. CASE Authenticate(c)
  <2>1. CASE RouteOf(c).public /\ Goto(c, "tenancy")
    BY <2>1, GotoKeeps
  <2>2. CASE ~RouteOf(c).public
             /\ Learns(c, {IF RouteOf(c).audience = "user" THEN "userId" ELSE "adminId"}, "tenancy")
    BY <2>2, LearnsKeeps
  <2>. QED
    BY <1>2, <1>4, <2>1, <2>2 DEF Authenticate
<1>5. CASE TenancySkipped(c)
  <2>1. Goto(c, "permission") /\ Exempt(RouteOf(c)) /\ q.at = "tenancy"
    BY <1>5, <1>1 DEF TenancySkipped
  <2>. QED
    BY <2>1, <1>1, GotoKeeps DEF Wiring
<1>6. CASE Tenancy(c) \/ StoreStatus(c)
  <2>1. q.at \in {"tenancy", "storing"}
    BY <1>6, <1>1 DEF Tenancy, StoreStatus
  <2>2. CASE Learns(c, {"workspaceId", "memberId"}, "permission")
    BY <2>1, <2>2, <1>1, LearnsKeeps DEF Wiring
  <2>3. CASE Goto(c, "storing")
    BY <2>1, <2>3, <1>1, GotoKeeps DEF Wiring
  <2>. QED
    BY <1>2, <1>6, <2>2, <2>3 DEF Tenancy, StoreStatus, Judge, Answers
<1>7. CASE PermissionGiven(c)
  <2>1. q.at = "permission"
    BY <1>7, <1>1 DEF PermissionGiven, Permission
  <2>2. Wired(c)
    BY <2>1, <1>1 DEF Wired, Wiring, Sound, Exempt, RouteOf
  <2>3. CASE Goto(c, "handler")
    BY <2>1, <2>3, <1>1, GotoKeeps DEF Wiring
  <2>. QED
    BY <1>2, <1>7, <2>2, <2>3 DEF PermissionGiven, Permission
<1>. QED
  BY <1>4, <1>5, <1>6, <1>7 DEF Guards

LEMMA NextKeeps == WInv /\ [Next]_vars => WInv'
<1>. SUFFICES ASSUME WInv, [Next]_vars, http' # http PROVE WInv'
  BY DEF WInv
<1>1. Next
  BY DEF vars, requestVars
<1>2. ASSUME NEW c \in Calls, Refusals(c) PROVE WInv'
  BY <1>2, AnswerKeeps DEF Refusals, TooMany
<1>3. ASSUME NEW c \in Calls, Create(c) PROVE WInv'
  BY <1>3, AnswerKeeps DEF Create, CanCreate, SlugChecked, Pick, Insert, Explain, CreateFails,
                           Answers, Answer, requestVars
<1>4. ASSUME NEW c \in Calls, Review(c) \/ Reads(c) PROVE WInv'
  BY <1>4, AnswerKeeps DEF Review, Reads, RecordReview, ReviewFails, DropStatus, DropLost,
                           Answers, Answer, requestVars
<1>5. ASSUME NEW c \in Calls PROVE ~LimiterSteps(c)
  BY DEF LimiterSteps
<1>6. ASSUME NEW b \in Budgets PROVE ~KeyExpires(b)
  BY DEF KeyExpires
<1>7. ASSUME NEW w \in Slugs PROVE ~Expire(w)
  BY DEF Expire, requestVars
<1>. QED
  BY <1>1, <1>2, <1>3, <1>4, <1>5, <1>6, <1>7, ArriveKeeps, GuardsKeep DEF Next

\* On every route the audit lets start, however requests interleave, the guards
\* find what earlier guards should have set, and so does the handler.
THEOREM GuardsAreWired == Spec => []HandlerHasItsCaller
<1>1. WInv => HandlerHasItsCaller
  <2>. SUFFICES ASSUME WInv, NEW c \in Calls
                PROVE  /\ Where(c) # "fault"
                       /\ Where(c) = "handler" => Needs(RouteOf(c)) \subseteq http[c].knows
    BY DEF HandlerHasItsCaller
  <2>. DEFINE q == http[c]
  <2>1. Wiring(q) /\ q.route.audience \in {"user", "admin"}
    BY DEF WInv, Wiring, HttpRecord, Route
  <2>. QED
    BY <2>1 DEF Wiring, Where, RouteOf, Needs, Exempt, Sound
<1>. QED
  BY <1>1, InitWInv, NextKeeps, PTL DEF Spec
-----------------------------------------------------------------------------
(***************************************************************************)
(* The workspaces.                                                         *)
(***************************************************************************)
Decided == {"active", "rejected"}

WorkRecord ==
  [op : {"other", "create", "review"}, slug : Slugs \cup {None}, outcome : Decided \cup {None},
   todo : SUBSET {"pending", "count"}, attempt : Nat, pick : Slugs \cup {None},
   loaded : {"pending", None} \cup Decided, overtaken : BOOLEAN, old : BOOLEAN,
   step : {"none", "start", "pick", "insert", "explain", "drop"}]

\* What a handler is at is what its steps so far have left it with.
Doing(x) ==
  /\ x \in WorkRecord
  /\ x.op = "review" => x.slug \in Slugs /\ x.outcome \in Decided
  /\ x.step = "insert" => x.pick \in Slugs
  /\ x.step \in {"pick", "insert", "explain"} => x.todo = {}

\* A create that has counted, and that no review overtook, is still below the
\* limit, unless its owner has a workspace pending, which stops it.
Counted(c) ==
  /\ Where(c) = "handler" /\ work[c].op = "create"
  /\ "count" \notin work[c].todo /\ ~work[c].overtaken
  => \/ Cardinality(Owned(Caller(c))) < MaxOwned
     \/ HasPending(Caller(c))

TableInv ==
  /\ status \in [Slugs -> {"pending", None} \cup Decided]
  /\ owner \in [Slugs -> Users \cup Admins \cup {None}]
  /\ IsFiniteSet(Taken)

OwnInv ==
  /\ TableInv
  /\ work \in [Calls -> WorkRecord]
  /\ \A c \in Calls : Doing(work[c]) /\ Counted(c)

\* A step after which no more admins are about to be told they decided.
NoDecision == \A w \in Slugs : Deciders(w)' \subseteq Deciders(w)

OwnKept == OwnInv' /\ NoDecision

LEMMA IdleDoes == Doing(Idle) /\ Idle.op = "other" /\ Idle.step = "none"
BY DEF Doing, Idle, WorkRecord

LEMMA InitOwnInv == Init => OwnInv
<1>. SUFFICES ASSUME Init PROVE OwnInv
  OBVIOUS
<1>1. Taken = {}
  BY DEF Init, Taken
<1>2. TableInv
  BY <1>1, FS_EmptySet DEF Init, TableInv
<1>3. \A c \in Calls : work[c] = Idle
  BY DEF Init
<1>4. work \in [Calls -> WorkRecord]
  BY IdleDoes DEF Init, Doing
<1>. QED
  BY <1>2, <1>3, <1>4, IdleDoes DEF OwnInv, Counted

\* A step of one request that leaves the workspaces alone keeps the invariant
\* if its own record is right, and a create has a count to stand on.
LEMMA AloneKeeps ==
  ASSUME OwnInv, WInv, WInv', UNCHANGED <<status, owner>>,
         NEW c \in Calls, NEW x, Doing(x), work' = [work EXCEPT ![c] = x],
         \A d \in Calls \ {c} : http'[d] = http[d],
         /\ http'[c].at = "handler" /\ x.op = "create" /\ "count" \notin x.todo /\ ~x.overtaken
         => \/ Cardinality(Owned(http'[c].caller)) < MaxOwned
            \/ HasPending(http'[c].caller),
         http'[c].at = "handler" => x.step # "drop"
  PROVE  OwnKept
<1>1. TableInv'
  BY DEF OwnInv, TableInv, Taken
<1>2. \A d \in Calls : work'[d] = IF d = c THEN x ELSE work[d]
  BY DEF OwnInv
<1>3. work' \in [Calls -> WorkRecord]
  BY DEF OwnInv, Doing
<1>4. \A u : Owned(u)' = Owned(u) /\ (HasPending(u)' <=> HasPending(u))
  BY DEF Owned, HasPending
<1>5. ASSUME NEW d \in Calls PROVE Doing(work'[d]) /\ Counted(d)'
  <2>1. CASE d = c
    <3>1. work'[d] = x
      BY <2>1, <1>2
    <3>. QED
      BY <2>1, <3>1, <1>4 DEF Counted, Where, Caller, Owned, HasPending
  <2>2. CASE d # c
    <3>1. work'[d] = work[d] /\ http'[d] = http[d] /\ Doing(work[d]) /\ Counted(d)
      BY <2>2, <1>2 DEF OwnInv
    <3>. QED
      BY <3>1, <1>4 DEF Counted, Where, Caller, Owned, HasPending
  <2>. QED
    BY <2>1, <2>2
<1>6. NoDecision
  <2>. SUFFICES ASSUME NEW w \in Slugs, NEW d \in Deciders(w)'
                PROVE  d \in Deciders(w)
    BY DEF NoDecision
  <2>1. d \in Calls /\ http'[d].at = "handler" /\ work'[d].op = "review"
        /\ work'[d].step = "drop" /\ work'[d].slug = w
    BY DEF Deciders, Does, Where
  <2>2. d # c
    BY <2>1, <1>2
  <2>. QED
    BY <1>2, <2>1, <2>2 DEF Deciders, Does, Where
<1>. QED
  BY <1>1, <1>3, <1>5, <1>6 DEF OwnInv, OwnKept

LEMMA AnsweredKeeps ==
  ASSUME OwnInv, WInv, WInv', UNCHANGED <<status, owner>>, NEW c \in Calls,
         http' = [http EXCEPT ![c] = NoRequest], work' = [work EXCEPT ![c] = Idle]
  PROVE  OwnKept
<1>1. \A d \in Calls \ {c} : http'[d] = http[d]
  BY DEF WInv
<1>. QED
  BY <1>1, IdleDoes, AloneKeeps

\* A request on its way to the handler takes nothing of a create with it.
LEMMA OnItsWayKeeps ==
  ASSUME OwnInv, WInv, WInv', UNCHANGED <<status, owner>>, NEW c \in Calls,
         NEW x, Doing(x), work' = [work EXCEPT ![c] = x],
         NEW q, http' = [http EXCEPT ![c] = q], q.at # "handler"
  PROVE  OwnKept
<1>1. http'[c] = q /\ \A d \in Calls \ {c} : http'[d] = http[d]
  BY DEF WInv
<1>. QED
  BY <1>1, AloneKeeps

\* In a handler a request's record moves and the request does not.
LEMMA HandlingKeeps ==
  ASSUME OwnInv, WInv, UNCHANGED <<status, owner, http>>, NEW c \in Calls,
         NEW x, Doing(x), work' = [work EXCEPT ![c] = x],
         \/ x.op # "create" \/ "count" \in x.todo \/ x.overtaken
         \/ x.op = work[c].op /\ x.todo = work[c].todo /\ x.overtaken = work[c].overtaken
         \/ Cardinality(Owned(Caller(c))) < MaxOwned,
         x.step # "drop"
  PROVE  OwnKept
<1>1. WInv' /\ \A d \in Calls \ {c} : http'[d] = http[d]
  BY DEF WInv
<1>2. Counted(c) /\ http'[c] = http[c]
  BY DEF OwnInv
<1>3. http'[c].at = "handler" /\ x.op = "create" /\ "count" \notin x.todo /\ ~x.overtaken
      => \/ Cardinality(Owned(http'[c].caller)) < MaxOwned
         \/ HasPending(http'[c].caller)
  BY <1>2 DEF Counted, Where, Caller
<1>. QED
  BY <1>1, <1>3, AloneKeeps

LEMMA ArrivesOwn ==
  ASSUME OwnInv, WInv, WInv', NEW c \in Calls, Arrives(c)
  PROVE  OwnKept
<1>1. PICK route, caller, checks : Request(c, route, caller, checks)
  BY DEF Arrives
<1>. DEFINE q == [NoRequest EXCEPT !.at = "limit", !.route = route, !.caller = caller]
<1>2. http' = [http EXCEPT ![c] = q] /\ q.at = "limit"
  BY <1>1 DEF Request, NoRequest
<1>. HIDE DEF q
<1>3. PICK x : Doing(x) /\ work' = [work EXCEPT ![c] = x]
  <2>1. CASE \E slug \in Slugs \cup {None} : Starts(c, [Idle EXCEPT !.op = "create", !.slug = slug])
    BY <2>1 DEF Starts, Idle, Doing, WorkRecord
  <2>2. CASE \E slug \in Taken, outcome \in {"active", "rejected"} :
               Starts(c, [Idle EXCEPT !.op = "review", !.slug = slug, !.outcome = outcome])
    BY <2>2 DEF Starts, Idle, Doing, WorkRecord, Taken, Decided
  <2>3. CASE \E slug \in Taken \cup {None} : Starts(c, [Idle EXCEPT !.slug = slug])
    BY <2>3 DEF Starts, Idle, Doing, WorkRecord, Taken
  <2>. QED
    BY <2>1, <2>2, <2>3 DEF Arrives
<1>. QED
  BY <1>2, <1>3, OnItsWayKeeps DEF Arrives, workspaceVars

LEMMA GuardsOwn ==
  ASSUME OwnInv, WInv, WInv', NEW c \in Calls,
         Guards(c) \/ Tenancy(c) \/ StoreStatus(c)
  PROVE  OwnKept
<1>1. http[c] \in HttpRecord /\ http \in [Calls -> HttpRecord] /\ work \in [Calls -> WorkRecord] /\ Doing(work[c])
  BY DEF WInv, OwnInv
<1>2. UNCHANGED <<status, owner>>
  BY DEF Guards, Tenancy, StoreStatus, workspaceVars
<1>3. ASSUME NEW at \in {"tenancy", "storing", "permission"},
             \/ Goto(c, at)
             \/ \E facts : Learns(c, facts, at)
      PROVE  Where(c)' # "idle" /\ \E q : http' = [http EXCEPT ![c] = q] /\ q.at # "handler"
  <2>1. CASE Goto(c, at)
    <3>1. http' = [http EXCEPT ![c] = [http[c] EXCEPT !.at = at]]
      BY <2>1, <1>1 DEF Goto
    <3>. QED
      BY <3>1, <1>1 DEF Where, HttpRecord
  <2>2. ASSUME NEW facts, Learns(c, facts, at)
        PROVE  Where(c)' # "idle" /\ \E q : http' = [http EXCEPT ![c] = q] /\ q.at # "handler"
    <3>. DEFINE q == [http[c] EXCEPT !.at = at, !.knows = http[c].knows \cup facts]
    <3>1. http' = [http EXCEPT ![c] = q] /\ q.at = at
      BY <2>2, <1>1 DEF Learns, HttpRecord
    <3>. HIDE DEF q
    <3>. QED
      BY <3>1, <1>1 DEF Where
  <2>. QED
    BY <1>3, <2>1, <2>2
<1>4. work = [work EXCEPT ![c] = work[c]]
  BY <1>1
<1>5. CASE Guards(c)
  <2>1. CASE Answer(c)
    <3>1. Where(c)' = "idle"
      BY <2>1, <1>1 DEF Answer, Where, NoRequest
    <3>2. http' = [http EXCEPT ![c] = NoRequest] /\ work' = [work EXCEPT ![c] = Idle]
      BY <1>5, <2>1, <3>1 DEF Answer, Guards
    <3>. QED
      BY <1>2, <3>2, AnsweredKeeps
  <2>2. CASE ~Answer(c)
    <3>1. PICK at \in {"tenancy", "storing", "permission"} :
            Goto(c, at) \/ \E facts : Learns(c, facts, at)
      BY <1>5, <2>2 DEF Guards, Authenticate, TenancySkipped
    <3>2. work' = [work EXCEPT ![c] = work[c]]
      BY <1>3, <1>4, <1>5, <3>1 DEF Guards
    <3>. QED
      BY <1>1, <1>2, <1>3, <3>1, <3>2, OnItsWayKeeps
  <2>. QED
    BY <2>1, <2>2
<1>6. CASE Tenancy(c) \/ StoreStatus(c)
  <2>1. CASE Answers(c)
    BY <1>2, <2>1, AnsweredKeeps DEF Answers, Answer
  <2>2. CASE Learns(c, {"workspaceId", "memberId"}, "permission") /\ work' = work
    BY <1>1, <1>2, <1>3, <1>4, <2>2, OnItsWayKeeps
  <2>3. CASE Goto(c, "storing") /\ work[c].slug # None
             /\ work' = [work EXCEPT ![c].loaded = status[work[c].slug]]
    <3>. DEFINE x == [work[c] EXCEPT !.loaded = status[work[c].slug]]
    <3>1. work[c].slug \in Slugs
      BY <1>1, <2>3 DEF WorkRecord
    <3>2. status[work[c].slug] \in {"pending", None} \cup Decided
      BY <3>1 DEF OwnInv, TableInv
    <3>3. Doing(x)
      BY <1>1, <3>2 DEF Doing, WorkRecord
    <3>4. work' = [work EXCEPT ![c] = x]
      BY <1>1, <2>3
    <3>. HIDE DEF x
    <3>. QED
      BY <1>2, <1>3, <2>3, <3>3, <3>4, OnItsWayKeeps
  <2>. QED
    BY <1>6, <2>1, <2>2, <2>3 DEF Tenancy, StoreStatus, Judge
<1>. QED
  BY <1>5, <1>6

LEMMA PermissionOwn ==
  ASSUME OwnInv, WInv, WInv', NEW c \in Calls, PermissionGiven(c)
  PROVE  OwnKept
<1>1. http[c] \in HttpRecord /\ http \in [Calls -> HttpRecord] /\ work \in [Calls -> WorkRecord] /\ Doing(work[c])
  BY DEF WInv, OwnInv
<1>2. UNCHANGED <<status, owner>>
  BY DEF PermissionGiven, workspaceVars
<1>3. ASSUME NEW at, Goto(c, at) PROVE Where(c)' = at /\ http' = [http EXCEPT ![c] = [http[c] EXCEPT !.at = at]]
  BY <1>1, <1>3 DEF Goto, Where, HttpRecord
<1>4. CASE Answer(c)
  <2>1. Where(c)' = "idle"
    BY <1>4, <1>1 DEF Answer, Where, NoRequest
  <2>. QED
    BY <1>2, <1>4, <2>1, AnsweredKeeps DEF PermissionGiven, Answer
<1>5. CASE Goto(c, "fault")
  <2>1. work' = work /\ work = [work EXCEPT ![c] = work[c]]
    BY <1>1, <1>3, <1>5 DEF PermissionGiven
  <2>2. [http[c] EXCEPT !.at = "fault"].at # "handler"
    BY <1>1 DEF HttpRecord
  <2>. QED
    BY <1>1, <1>2, <1>3, <1>5, <2>1, <2>2, OnItsWayKeeps
<1>6. CASE Goto(c, "handler")
  <2>. DEFINE todo == IF work[c].op = "create" THEN {"pending", "count"} ELSE {}
              x == [work[c] EXCEPT !.step = "start", !.todo = todo]
  <2>1. work' = [work EXCEPT ![c] = x]
    BY <1>1, <1>3, <1>6 DEF PermissionGiven
  <2>2. Doing(x) /\ x.step = "start" /\ (x.op = "create" => "count" \in x.todo)
    BY <1>1 DEF Doing, WorkRecord
  <2>3. \A d \in Calls \ {c} : http'[d] = http[d]
    BY <1>1, <1>3, <1>6
  <2>. HIDE DEF x
  <2>. QED
    BY <1>2, <2>1, <2>2, <2>3, AloneKeeps
<1>. QED
  BY <1>4, <1>5, <1>6 DEF PermissionGiven, Permission

\* What an insert does to its owner's workspaces, and to no one else's.
LEMMA Inserted ==
  ASSUME OwnInv, WInv, NEW c \in Calls, Insert(c), work[c].pick \notin Taken, ~HasPending(Caller(c)),
         NEW u, u = Caller(c), NEW w, w = work[c].pick
  PROVE  /\ \A v : v # u => Owned(v)' = Owned(v) /\ (HasPending(v)' <=> HasPending(v))
         /\ Owned(u)' = Owned(u) \cup {w}
         /\ w \in Slugs \ Taken /\ ~HasPending(u) /\ HasPending(u)'
         /\ Answers(c) /\ TableInv'
<1>1. /\ status \in [Slugs -> {"pending", None} \cup Decided] /\ TableInv
      /\ owner \in [Slugs -> Users \cup Admins \cup {None}] /\ IsFiniteSet(Taken)
      /\ http \in [Calls -> HttpRecord] /\ work \in [Calls -> WorkRecord] /\ Doing(work[c])
  BY DEF OwnInv, TableInv, WInv
<1>2. /\ w \notin Taken /\ ~HasPending(u) /\ Answers(c)
      /\ status' = [status EXCEPT ![w] = "pending"]
      /\ owner' = [owner EXCEPT ![w] = u]
  BY DEF Insert, workspaceVars
<1>3. w \in Slugs /\ status[w] = None
  BY <1>1, <1>2 DEF Doing, Insert, Does, Taken
<1>4. u \in Users \cup Admins
  BY <1>1 DEF Caller, HttpRecord
<1>5. \A v \in Slugs : /\ status'[v] = IF v = w THEN "pending" ELSE status[v]
                       /\ owner'[v] = IF v = w THEN u ELSE owner[v]
  BY <1>1, <1>2, <1>3
<1>6. None \notin {"pending", "active", "rejected"}
  BY WorkspacesAssumption
<1>7. \A v : v # u => Owned(v)' = Owned(v) /\ (HasPending(v)' <=> HasPending(v))
  BY <1>3, <1>5, <1>6 DEF Owned, HasPending
<1>8. Owned(u)' = Owned(u) \cup {w} /\ HasPending(u)'
  BY <1>3, <1>5 DEF Owned, HasPending
<1>9. Taken' = Taken \cup {w}
  BY <1>3, <1>5, <1>6 DEF Taken
<1>10. IsFiniteSet(Taken')
  BY <1>1, <1>9, FS_AddElement
<1>11. TableInv'
  BY <1>1, <1>2, <1>3, <1>4, <1>10 DEF TableInv
<1>. QED
  BY <1>2, <1>3, <1>7, <1>8, <1>11

LEMMA InsertOwn ==
  ASSUME OwnInv, WInv, WInv', NEW c \in Calls, Insert(c), work[c].pick \notin Taken, ~HasPending(Caller(c))
  PROVE  OwnKept
<1>1. Answers(c) /\ TableInv'
  BY Inserted
<1>2. PICK o : /\ o = Caller(c) /\ HasPending(o)'
               /\ \A v : v # o => Owned(v)' = Owned(v) /\ (HasPending(v)' <=> HasPending(v))
  BY Inserted
<1>3. /\ http' = [http EXCEPT ![c] = NoRequest] /\ work' = [work EXCEPT ![c] = Idle]
      /\ http \in [Calls -> HttpRecord] /\ work \in [Calls -> WorkRecord]
  BY <1>1 DEF Answers, Answer, WInv, OwnInv
<1>4. ASSUME NEW d \in Calls PROVE Doing(work'[d]) /\ Counted(d)'
  <2>1. CASE d = c
    <3>1. work'[d] = Idle
      BY <2>1, <1>3
    <3>. QED
      BY <3>1, IdleDoes DEF Counted
  <2>2. CASE d # c
    <3>1. work'[d] = work[d] /\ http'[d] = http[d] /\ Doing(work[d]) /\ Counted(d)
      BY <2>2, <1>3 DEF OwnInv
    <3>2. PICK v : v = Caller(d) /\ v = http'[d].caller
      BY <3>1 DEF Caller
    <3>3. CASE v = o
      BY <1>2, <3>1, <3>2, <3>3 DEF Counted, Caller, HasPending
    <3>4. CASE v # o
      <4>1. Owned(v)' = Owned(v) /\ (HasPending(v)' <=> HasPending(v))
        BY <1>2, <3>4
      <4>. QED
        BY <3>1, <3>2, <4>1 DEF Counted, Caller, Where, HasPending, Owned
    <3>. QED
      BY <3>3, <3>4
  <2>. QED
    BY <2>1, <2>2
<1>5. work' \in [Calls -> WorkRecord]
  BY <1>3, IdleDoes DEF Doing
<1>6. NoDecision
  <2>. SUFFICES ASSUME NEW v \in Slugs, NEW d \in Deciders(v)'
                PROVE  d \in Deciders(v)
    BY DEF NoDecision
  <2>1. d \in Calls /\ http'[d].at = "handler" /\ work'[d].op = "review"
        /\ work'[d].step = "drop" /\ work'[d].slug = v
    BY DEF Deciders, Does, Where
  <2>2. d # c
    BY <2>1, <1>3, IdleDoes
  <2>. QED
    BY <1>3, <2>1, <2>2 DEF Deciders, Does, Where
<1>. QED
  BY <1>1, <1>4, <1>5, <1>6 DEF OwnInv, OwnKept

LEMMA CreatesOwn ==
  ASSUME OwnInv, WInv, WInv', NEW c \in Calls, Create(c)
  PROVE  OwnKept
<1>1. /\ work \in [Calls -> WorkRecord] /\ Doing(work[c]) /\ Counted(c) /\ TableInv
      /\ http \in [Calls -> HttpRecord] /\ http[c] \in HttpRecord
  BY DEF WInv, OwnInv
<1>2. CASE UNCHANGED <<status, owner>> /\ Answers(c)
  BY <1>2, AnsweredKeeps DEF Answers, Answer
<1>3. ASSUME NEW check \in {"pending", "count"}, CanCreate(c, check) PROVE OwnKept
  <2>. DEFINE x == [work[c] EXCEPT !.todo = work[c].todo \ {check}]
  <2>1. CASE /\ check = "count" => Cardinality(Owned(Caller(c))) < MaxOwned
             /\ work' = [work EXCEPT ![c].todo = @ \ {check}]
             /\ UNCHANGED requestVars
    <3>1. work' = [work EXCEPT ![c] = x]
      BY <1>1, <2>1
    <3>2. /\ x \in WorkRecord /\ x.op = work[c].op /\ x.step = "start" /\ x.slug = work[c].slug
          /\ x.outcome = work[c].outcome /\ x.overtaken = work[c].overtaken
          /\ x.todo = work[c].todo \ {check}
      BY <1>1, <1>3 DEF WorkRecord, CanCreate, Does
    <3>3. Doing(x)
      BY <1>1, <3>2 DEF Doing
    <3>4. CASE check = "count"
      <4>1. Cardinality(Owned(Caller(c))) < MaxOwned
        BY <2>1, <3>4
      <4>. HIDE DEF x
      <4>. QED
        BY <1>3, <2>1, <3>1, <3>2, <3>3, <4>1, HandlingKeeps DEF CanCreate, workspaceVars, requestVars
    <3>5. CASE check = "pending"
      <4>1. "count" \in x.todo <=> "count" \in work[c].todo
        BY <3>2, <3>5
      <4>. HIDE DEF x
      <4>2. http' = http
        BY <2>1 DEF requestVars
      <4>3. http'[c].at = "handler" /\ x.op = "create" /\ "count" \notin x.todo /\ ~x.overtaken
            => \/ Cardinality(Owned(http'[c].caller)) < MaxOwned
               \/ HasPending(http'[c].caller)
        BY <1>1, <3>2, <4>1, <4>2 DEF Counted, Where, Caller
      <4>4. \A d \in Calls \ {c} : http'[d] = http[d]
        BY <4>2
      <4>5. UNCHANGED <<status, owner>>
        BY <1>3 DEF CanCreate, workspaceVars
      <4>. QED
        BY <3>1, <3>2, <3>3, <4>3, <4>4, <4>5, AloneKeeps
    <3>. QED
      BY <3>4, <3>5
  <2>2. CASE Answers(c)
    BY <1>2, <1>3, <2>2 DEF CanCreate, workspaceVars
  <2>. QED
    BY <1>3, <2>1, <2>2 DEF CanCreate
<1>4. ASSUME NEW x, Doing(x), x.op = work[c].op, x.todo = work[c].todo, x.overtaken = work[c].overtaken,
             work' = [work EXCEPT ![c] = x], UNCHANGED <<status, owner, http>>, x.step # "drop"
      PROVE  OwnKept
  BY <1>4, HandlingKeeps
<1>5. CASE SlugChecked(c)
  <2>1. CASE Step(c, "pick") /\ UNCHANGED requestVars
    <3>. DEFINE x == [work[c] EXCEPT !.step = "pick"]
    <3>1. work' = [work EXCEPT ![c] = x]
      BY <1>1, <2>1 DEF Step
    <3>2. /\ Doing(x) /\ x.op = work[c].op /\ x.todo = work[c].todo
          /\ x.overtaken = work[c].overtaken /\ x.step # "drop"
      BY <1>1, <1>5 DEF Doing, WorkRecord, SlugChecked
    <3>. HIDE DEF x
    <3>. QED
      BY <1>4, <1>5, <2>1, <3>1, <3>2 DEF SlugChecked, requestVars, workspaceVars
  <2>. QED
    BY <1>2, <1>5, <2>1 DEF SlugChecked, workspaceVars
<1>6. CASE Pick(c)
  <2>1. ASSUME NEW w \in Slugs, work' = [work EXCEPT ![c].pick = w, ![c].step = "insert"], UNCHANGED requestVars
        PROVE  OwnKept
    <3>. DEFINE x == [work[c] EXCEPT !.pick = w, !.step = "insert"]
    <3>1. work' = [work EXCEPT ![c] = x]
      BY <1>1, <2>1
    <3>2. /\ Doing(x) /\ x.op = work[c].op /\ x.todo = work[c].todo
          /\ x.overtaken = work[c].overtaken /\ x.step # "drop"
      BY <1>1, <1>6 DEF Doing, WorkRecord, Pick, Does
    <3>. HIDE DEF x
    <3>. QED
      BY <1>4, <1>6, <2>1, <3>1, <3>2 DEF Pick, requestVars, workspaceVars
  <2>2. work[c].slug # None => work[c].slug \in Slugs
    BY <1>1 DEF WorkRecord
  <2>. QED
    BY <1>2, <1>6, <2>1, <2>2 DEF Pick, workspaceVars
<1>7. CASE Explain(c)
  <2>1. CASE work' = [work EXCEPT ![c].step = "pick", ![c].attempt = @ + 1] /\ UNCHANGED requestVars
    <3>. DEFINE x == [work[c] EXCEPT !.step = "pick", !.attempt = work[c].attempt + 1]
    <3>1. work' = [work EXCEPT ![c] = x]
      BY <1>1, <2>1
    <3>2. /\ x \in WorkRecord /\ x.op = "create" /\ x.step = "pick" /\ work[c].step = "explain"
          /\ x.op = work[c].op /\ x.todo = work[c].todo /\ x.overtaken = work[c].overtaken
      <4>1. work[c] \in WorkRecord /\ work[c].attempt + 1 \in Nat
        BY <1>1 DEF WorkRecord
      <4>. QED
        BY <4>1, <1>7 DEF WorkRecord, Explain, Does
    <3>3. Doing(x)
      BY <1>1, <3>2 DEF Doing
    <3>. HIDE DEF x
    <3>. QED
      BY <1>4, <1>7, <2>1, <3>1, <3>2, <3>3 DEF Explain, requestVars, workspaceVars
  <2>. QED
    BY <1>2, <1>7, <2>1 DEF Explain, workspaceVars
<1>8. CASE CreateFails(c)
  BY <1>2, <1>8 DEF CreateFails, workspaceVars
<1>9. CASE Insert(c)
  <2>1. CASE work[c].pick \in Taken \/ HasPending(Caller(c))
    <3>0. Step(c, "explain") /\ UNCHANGED <<requestVars, workspaceVars>>
      BY <1>9, <2>1 DEF Insert
    <3>. DEFINE x == [work[c] EXCEPT !.step = "explain"]
    <3>1. work' = [work EXCEPT ![c] = x]
      BY <1>1, <3>0 DEF Step
    <3>2. /\ Doing(x) /\ x.op = work[c].op /\ x.todo = work[c].todo
          /\ x.overtaken = work[c].overtaken /\ x.step # "drop"
      BY <1>1, <1>9 DEF Doing, WorkRecord, Insert, Does
    <3>. HIDE DEF x
    <3>. QED
      BY <1>4, <3>0, <3>1, <3>2 DEF requestVars, workspaceVars
  <2>. QED
    BY <1>9, <2>1, InsertOwn
<1>. QED
  BY <1>3, <1>5, <1>6, <1>7, <1>8, <1>9 DEF Create

\* A review takes a workspace from its owner's pending ones: whoever of theirs
\* has counted already is overtaken.
LEMMA ReviewOwn ==
  ASSUME OwnInv, WInv, WInv', NEW c \in Calls, RecordReview(c),
         status[work[c].slug] = "pending"
  PROVE  OwnInv'
<1>. DEFINE w == work[c].slug
            x == [work[c] EXCEPT !.step = "drop"]
<1>1. /\ work \in [Calls -> WorkRecord] /\ Doing(work[c]) /\ TableInv
      /\ status[w] = "pending" /\ status' = [status EXCEPT ![w] = work[c].outcome]
      /\ Reviewed(c, w, x) /\ UNCHANGED <<http, owner>>
      /\ work[c].op = "review"
  BY DEF OwnInv, RecordReview, Does, requestVars
<1>2. w \in Slugs /\ work[c].outcome \in Decided
  BY <1>1 DEF Doing
<1>3. None \notin {"pending", "active", "rejected"}
  BY WorkspacesAssumption
<1>4. Doing(x) /\ x.op = "review"
  BY <1>1 DEF Doing, WorkRecord
<1>. HIDE DEF w, x
<1>5. \A v \in Slugs : status'[v] = IF v = w THEN work[c].outcome ELSE status[v]
  BY <1>1, <1>2 DEF TableInv
<1>6. TableInv'
  <2>1. Taken' = Taken
    BY <1>1, <1>2, <1>3, <1>5 DEF Taken, Decided
  <2>2. status' \in [Slugs -> {"pending", None} \cup Decided]
    BY <1>1, <1>2 DEF TableInv
  <2>. QED
    BY <1>1, <2>1, <2>2 DEF TableInv
<1>7. \A u : u # owner[w] => Owned(u)' = Owned(u) /\ (HasPending(u)' <=> HasPending(u))
  BY <1>1, <1>5 DEF Owned, HasPending
<1>8. ASSUME NEW d \in Calls PROVE Doing(work'[d]) /\ Counted(d)'
  <2>1. CASE d = c
    <3>1. work'[d] = x
      BY <1>1, <2>1 DEF Reviewed
    <3>. QED
      BY <3>1, <1>4 DEF Counted
  <2>2. CASE d # c /\ work[d].op = "create" /\ Where(d) = "handler" /\ Caller(d) = owner[w]
    <3>. DEFINE y == [work[d] EXCEPT !.overtaken = TRUE]
    <3>1. work'[d] = y
      BY <1>1, <2>2 DEF Reviewed
    <3>2. Doing(y) /\ y.overtaken
      <4>1. Doing(work[d])
        BY DEF OwnInv
      <4>. QED
        BY <4>1 DEF Doing, WorkRecord
    <3>. HIDE DEF y
    <3>. QED
      BY <3>1, <3>2 DEF Counted
  <2>3. CASE d # c /\ Where(d) = "storing" /\ work[d].slug = w
    <3>. DEFINE y == [work[d] EXCEPT !.old = TRUE]
    <3>1. work'[d] = y
      BY <1>1, <2>3 DEF Reviewed
    <3>2. Doing(y)
      <4>1. Doing(work[d])
        BY DEF OwnInv
      <4>. QED
        BY <4>1 DEF Doing, WorkRecord
    <3>3. ~(Where(d)' = "handler")
      BY <1>1, <2>3 DEF Where
    <3>. HIDE DEF y
    <3>. QED
      BY <3>1, <3>2, <3>3 DEF Counted
  <2>4. CASE /\ d # c /\ ~(work[d].op = "create" /\ Where(d) = "handler" /\ Caller(d) = owner[w])
             /\ ~(Where(d) = "storing" /\ work[d].slug = w)
    <3>1. work'[d] = work[d] /\ http'[d] = http[d] /\ Doing(work[d]) /\ Counted(d)
      BY <1>1, <2>4 DEF Reviewed, OwnInv
    <3>2. PICK v : v = Caller(d) /\ v = http'[d].caller
      BY <3>1 DEF Caller
    <3>3. CASE v = owner[w]
      BY <2>4, <3>1, <3>2, <3>3 DEF Counted, Where
    <3>4. CASE v # owner[w]
      <4>1. Owned(v)' = Owned(v) /\ (HasPending(v)' <=> HasPending(v))
        BY <1>7, <3>4
      <4>. QED
        BY <3>1, <3>2, <4>1 DEF Counted, Caller, Where, HasPending, Owned
    <3>. QED
      BY <3>3, <3>4
  <2>. QED
    BY <2>1, <2>2, <2>3, <2>4
<1>9. work' \in [Calls -> WorkRecord]
  <2>1. work' = [d \in Calls |-> work'[d]]
    BY <1>1 DEF Reviewed
  <2>. QED
    BY <1>8, <2>1 DEF Doing
<1>. QED
  BY <1>6, <1>8, <1>9 DEF OwnInv

\* A review that counts: the one that finds the workspace pending.
Decides(c) == RecordReview(c) /\ status[work[c].slug] = "pending"
Inserts(c) == Insert(c) /\ work[c].pick \notin Taken /\ ~HasPending(Caller(c))

LEMMA OthersKeep ==
  ASSUME OwnInv, WInv, [Next]_vars
  PROVE  OwnKept \/ \E c \in Calls : Decides(c)
<1>. SUFFICES ASSUME \A c \in Calls : ~Decides(c) PROVE OwnKept
  OBVIOUS
<1>0. WInv'
  BY NextKeeps
<1>1. CASE UNCHANGED <<status, owner, http, work>>
  <2>1. NoDecision
    BY <1>1 DEF NoDecision, Deciders, Does, Where
  <2>. QED
    BY <1>1, <2>1
    DEF OwnKept, OwnInv, TableInv, Taken, Doing, Counted, Where, Caller, Owned, HasPending
<1>2. ASSUME NEW c \in Calls, UNCHANGED <<status, owner>> /\ Answers(c) PROVE OwnKept
  BY <1>0, <1>2, AnsweredKeeps DEF Answers, Answer
<1>3. ASSUME NEW c \in Calls, Refusals(c) PROVE OwnKept
  BY <1>0, <1>3, AnsweredKeeps DEF Refusals, TooMany, workspaceVars
<1>4. ASSUME NEW c \in Calls, Review(c) \/ Reads(c) PROVE OwnKept
  <2>1. CASE RecordReview(c)
    BY <1>2, <2>1 DEF Decides, RecordReview, workspaceVars
  <2>. QED
    BY <1>2, <1>4, <2>1 DEF Review, Reads, ReviewFails, DropStatus, DropLost, workspaceVars
<1>5. ASSUME NEW c \in Calls, LimiterSteps(c) PROVE OwnKept
  BY <1>1, <1>5 DEF LimiterSteps, workspaceVars
<1>6. ASSUME NEW b \in Budgets, KeyExpires(b) PROVE OwnKept
  BY <1>1, <1>6 DEF KeyExpires, workspaceVars
<1>7. ASSUME NEW w \in Slugs, Expire(w) PROVE OwnKept
  BY <1>1, <1>7 DEF Expire, requestVars
<1>8. CASE UNCHANGED vars
  BY <1>1, <1>8 DEF vars, requestVars, workspaceVars
<1>. QED
  BY <1>0, <1>3, <1>4, <1>5, <1>6, <1>7, <1>8, ArrivesOwn, GuardsOwn, PermissionOwn, CreatesOwn DEF Next

LEMMA NextOwn == OwnInv /\ WInv /\ [Next]_vars => OwnInv'
<1>. SUFFICES ASSUME OwnInv, WInv, [Next]_vars PROVE OwnInv'
  OBVIOUS
<1>1. ASSUME NEW c \in Calls, Decides(c) PROVE OwnInv'
  BY <1>1, NextKeeps, ReviewOwn DEF Decides
<1>. QED
  BY <1>1, OthersKeep DEF OwnKept

\* Nothing but an insert and a review that counts moves a workspace.
LEMMA WhoMoves ==
  ASSUME [Next]_vars
  PROVE  UNCHANGED <<status, owner>> \/ \E c \in Calls : Decides(c) \/ Inserts(c)
<1>1. ASSUME NEW c \in Calls, Review(c), ~Decides(c) PROVE UNCHANGED <<status, owner>>
  BY <1>1 DEF Review, Decides, RecordReview, ReviewFails, DropStatus, DropLost, workspaceVars
<1>2. ASSUME NEW c \in Calls, Create(c), ~Inserts(c) PROVE UNCHANGED <<status, owner>>
  BY <1>2 DEF Create, Inserts, CanCreate, SlugChecked, Pick, Insert, Explain, CreateFails, workspaceVars
<1>3. CASE UNCHANGED vars
  BY <1>3 DEF vars, workspaceVars
<1>4. ASSUME NEW c \in Calls, Arrives(c) \/ LimiterSteps(c) \/ Refusals(c) PROVE UNCHANGED <<status, owner>>
  BY <1>4 DEF Arrives, LimiterSteps, Refusals, workspaceVars
<1>5. ASSUME NEW c \in Calls, Guards(c) \/ Tenancy(c) \/ StoreStatus(c) \/ PermissionGiven(c) \/ Reads(c)
      PROVE  UNCHANGED <<status, owner>>
  BY <1>5 DEF Guards, Tenancy, StoreStatus, PermissionGiven, Reads, workspaceVars
<1>6. ASSUME NEW b \in Budgets, KeyExpires(b) PROVE UNCHANGED <<status, owner>>
  BY <1>6 DEF KeyExpires, workspaceVars
<1>7. ASSUME NEW w \in Slugs, Expire(w) PROVE UNCHANGED <<status, owner>>
  BY <1>7 DEF Expire
<1>. QED
  BY <1>1, <1>2, <1>3, <1>4, <1>5, <1>6, <1>7 DEF Next

\* What is counted once stays counted until a review overtakes it: a user owns
\* more than the limit only through a create whose count a review made old.
THEOREM OvertakenCreatesExcuse == Spec => OwnedCapIsExcused
<1>1. OwnInv /\ WInv /\ [Next]_vars =>
        [\A u \in Users :
           Owned(u)' \ Owned(u) # {} =>
             \/ Cardinality(Owned(u)') <= MaxOwned
             \/ \E c \in Calls : /\ Caller(c) = u /\ work[c].overtaken
                                /\ Does(c, "create", "insert") /\ Where(c)' = "idle"]_vars
  <2>. SUFFICES ASSUME OwnInv, WInv, [Next]_vars, NEW u \in Users, Owned(u)' \ Owned(u) # {}
                PROVE  \/ Cardinality(Owned(u)') <= MaxOwned
                       \/ \E c \in Calls : /\ Caller(c) = u /\ work[c].overtaken
                                          /\ Does(c, "create", "insert") /\ Where(c)' = "idle"
    OBVIOUS
  <2>0. None \notin {"pending", "active", "rejected"} /\ MaxOwned \in Nat
    BY WorkspacesAssumption
  <2>1. ASSUME NEW c \in Calls PROVE ~Decides(c)
    <3>. SUFFICES ASSUME Decides(c) PROVE Owned(u)' \subseteq Owned(u)
      OBVIOUS
    <3>. DEFINE w == work[c].slug
    <3>1. Doing(work[c]) /\ work[c].op = "review" /\ status[w] = "pending"
      BY DEF OwnInv, Decides, RecordReview, Does
    <3>2. w \in Slugs
      BY <3>1 DEF Doing
    <3>3. status' = [status EXCEPT ![w] = work[c].outcome] /\ owner' = owner
      BY <3>1 DEF Decides, RecordReview
    <3>. HIDE DEF w
    <3>. QED
      BY <3>1, <3>2, <3>3 DEF Owned, OwnInv, TableInv
  <2>2. PICK c \in Calls : Inserts(c)
    BY <2>1, WhoMoves DEF Owned
  <2>3. PICK v, w : v = Caller(c) /\ w = work[c].pick
    OBVIOUS
  <2>4. /\ \A x : x # v => Owned(x)' = Owned(x)
        /\ Owned(v)' = Owned(v) \cup {w} /\ ~HasPending(v) /\ Answers(c)
    BY <2>2, <2>3, Inserted DEF Inserts
  <2>5. u = v
    BY <2>4
  <2>6. Does(c, "create", "insert") /\ Where(c)' = "idle" /\ work[c].todo = {}
    <3>1. http' = [http EXCEPT ![c] = NoRequest] /\ http \in [Calls -> HttpRecord]
      BY <2>4 DEF Answers, Answer, WInv
    <3>. QED
      BY <2>2, <3>1 DEF Where, NoRequest, Inserts, Insert, OwnInv, Doing, Does
  <2>7. CASE ~work[c].overtaken
    <3>1. Cardinality(Owned(v)) < MaxOwned
      BY <2>3, <2>4, <2>6, <2>7 DEF OwnInv, Counted, Does
    <3>2. IsFiniteSet(Owned(v))
      <4>1. Owned(v) \subseteq Taken /\ IsFiniteSet(Taken)
        BY <2>0 DEF Owned, Taken, OwnInv, TableInv
      <4>. QED
        BY <4>1, FS_Subset
    <3>3. /\ Cardinality(Owned(v)) \in Nat
          /\ Cardinality(Owned(v) \cup {w}) \in {Cardinality(Owned(v)), Cardinality(Owned(v)) + 1}
      BY <3>2, FS_AddElement, FS_CardinalityType
    <3>4. Cardinality(Owned(v) \cup {w}) <= MaxOwned
      BY <2>0, <3>1, <3>3
    <3>5. Owned(u)' = Owned(v) \cup {w}
      BY <2>4, <2>5
    <3>. QED
      BY <3>4, <3>5
  <2>. QED
    BY <2>3, <2>5, <2>6, <2>7
<1>. QED
  BY <1>1, InitWInv, NextKeeps, InitOwnInv, NextOwn, PTL DEF Spec, OwnedCapIsExcused

\* Of admins who decide on a workspace one is told so, and it stays as that one
\* decided, whatever requests are on their way.
THEOREM ReviewedOnce == Spec => OneDecision
<1>1. OwnInv /\ WInv /\ [Next]_vars =>
        [\A w \in Slugs :
           /\ status[w] \in {"active", "rejected"} => status'[w] = status[w]
           /\ Deciders(w)' \ Deciders(w) # {} => status[w] = "pending" /\ status'[w] # "pending"]_vars
  <2>. SUFFICES ASSUME OwnInv, WInv, [Next]_vars, NEW w \in Slugs
                PROVE  /\ status[w] \in {"active", "rejected"} => status'[w] = status[w]
                       /\ Deciders(w)' \ Deciders(w) # {} => status[w] = "pending" /\ status'[w] # "pending"
    OBVIOUS
  <2>0. None \notin {"pending", "active", "rejected"}
    BY WorkspacesAssumption
  <2>1. ASSUME NEW c \in Calls, Decides(c)
        PROVE  /\ status[w] \in {"active", "rejected"} => status'[w] = status[w]
               /\ Deciders(w)' \ Deciders(w) # {} => status[w] = "pending" /\ status'[w] # "pending"
    <3>. DEFINE v == work[c].slug
                x == [work[c] EXCEPT !.step = "drop"]
    <3>1. /\ Doing(work[c]) /\ work[c].op = "review" /\ status[v] = "pending"
          /\ work \in [Calls -> WorkRecord]
      BY <2>1 DEF OwnInv, Decides, RecordReview, Does
    <3>2. v \in Slugs /\ work[c].outcome \in Decided
      BY <3>1 DEF Doing
    <3>3. status' = [status EXCEPT ![v] = work[c].outcome] /\ Reviewed(c, v, x) /\ http' = http
      BY <2>1, <3>1 DEF Decides, RecordReview, requestVars
    <3>4. \A u \in Slugs : status'[u] = IF u = v THEN work[c].outcome ELSE status[u]
      BY <3>2, <3>3 DEF OwnInv, TableInv
    <3>5. ASSUME NEW d \in Deciders(w)', d \notin Deciders(w) PROVE w = v
      <4>1. /\ d \in Calls /\ http'[d].at = "handler" /\ work'[d].op = "review"
            /\ work'[d].step = "drop" /\ work'[d].slug = w
        BY <3>5 DEF Deciders, Does, Where
      <4>2. CASE d = c
        BY <3>1, <3>3, <4>1, <4>2 DEF Reviewed, WorkRecord
      <4>3. CASE d # c
        <5>1. PICK y \in {work[d], [work[d] EXCEPT !.overtaken = TRUE], [work[d] EXCEPT !.old = TRUE]} :
                work'[d] = y
          BY <3>3, <4>1, <4>3 DEF Reviewed
        <5>2. work[d].op = "review" /\ work[d].step = "drop" /\ work[d].slug = w
          BY <3>1, <4>1, <5>1 DEF WorkRecord
        <5>. QED
          BY <3>3, <3>5, <4>1, <5>2 DEF Deciders, Does, Where
      <4>. QED
        BY <4>2, <4>3
    <3>. QED
      BY <3>1, <3>2, <3>4, <3>5 DEF Decided
  <2>2. ASSUME NEW c \in Calls, Inserts(c)
        PROVE  status[w] \in {"active", "rejected"} => status'[w] = status[w]
    <3>1. PICK v : v = work[c].pick /\ v \in Slugs \ Taken
      BY <2>2, Inserted DEF Inserts
    <3>2. status' = [status EXCEPT ![v] = "pending"] /\ status[v] = None
      BY <2>2, <3>1 DEF Inserts, Insert, Taken
    <3>. QED
      BY <2>0, <3>1, <3>2 DEF OwnInv, TableInv
  <2>. QED
    BY <2>1, <2>2, WhoMoves, OthersKeep DEF OwnKept, NoDecision
<1>. QED
  BY <1>1, InitWInv, NextKeeps, InitOwnInv, NextOwn, PTL DEF Spec, OneDecision
-----------------------------------------------------------------------------
(***************************************************************************)
(* The access entries.                                                     *)
(***************************************************************************)

\* A request past the limit is one the limiter has allowed.
Passed(c) == Where(c) \notin {"idle", "limit"} => Phase(c) = "allowed"

PassedInv == task \in [Calls -> Task] /\ \A c \in Calls : Passed(c)

LEMMA InitPassed == Init /\ LimitTypeOK => PassedInv
BY DEF Init, RequestsInit, LimitTypeOK, PassedInv, Passed, Where, NoRequest

\* A request that moves alone is past the limit only if it was allowed to be.
LEMMA PassesAlone ==
  ASSUME PassedInv, WInv, task' \in [Calls -> Task], NEW c \in Calls,
         NEW q, http' = [http EXCEPT ![c] = q],
         \A d \in Calls \ {c} : task'[d].phase = task[d].phase,
         q.at \notin {"idle", "limit"} => Phase(c) = "allowed" /\ task' = task
  PROVE  PassedInv'
<1>1. http'[c] = q /\ \A d \in Calls \ {c} : http'[d] = http[d]
  BY DEF WInv
<1>2. ASSUME NEW d \in Calls PROVE Passed(d)'
  BY <1>1 DEF PassedInv, Passed, Where, Phase
<1>. QED
  BY <1>2 DEF PassedInv

LEMMA LeavesPassed ==
  ASSUME PassedInv, WInv, task' \in [Calls -> Task], NEW c \in Calls, Answer(c) \/ TooMany(c)
  PROVE  PassedInv'
<1>1. http' = [http EXCEPT ![c] = NoRequest] /\ task' = [task EXCEPT ![c] = NoTask]
  BY DEF Answer, TooMany, Leave, Refuse
<1>2. NoRequest.at = "idle"
  BY DEF NoRequest
<1>3. \A d \in Calls \ {c} : task'[d].phase = task[d].phase
  BY <1>1 DEF PassedInv
<1>. QED
  BY <1>1, <1>2, <1>3, PassesAlone

LEMMA GoesPassed ==
  ASSUME PassedInv, WInv, task' \in [Calls -> Task], NEW c \in Calls, UNCHANGED limitVars,
         Phase(c) = "allowed",
         \/ \E at : Goto(c, at)
         \/ \E facts, at : Learns(c, facts, at)
  PROVE  PassedInv'
<1>1. PICK q : http' = [http EXCEPT ![c] = q]
  BY DEF Goto, Learns
<1>. QED
  BY <1>1, PassesAlone DEF limitVars

\* The limiter's own steps are those of a call it has yet to decide on.
LEMMA LimitsPassed ==
  ASSUME PassedInv, WInv, task' \in [Calls -> Task], UNCHANGED http,
         \/ \E c \in Calls : LimitStep(c)
         \/ \E b \in Budgets : WindowEnds(b)
  PROVE  PassedInv'
<1>1. ASSUME NEW c \in Calls, LimitStep(c) PROVE PassedInv'
  <2>1. Phase(c) # "allowed" /\ \A d \in Calls \ {c} : task'[d] = task[d]
    BY <1>1 DEF LimitStep, Consume, StoreFails, Allow, Refund, RefundFails, PassedInv
  <2>2. ASSUME NEW d \in Calls PROVE Passed(d)'
    BY <2>1 DEF PassedInv, Passed, Where, Phase
  <2>. QED
    BY <2>2 DEF PassedInv
<1>2. ASSUME NEW b \in Budgets, WindowEnds(b) PROVE PassedInv'
  <2>1. ASSUME NEW d \in Calls PROVE task'[d].phase = task[d].phase
    <3>1. task'[d] = IF b \in task[d].own THEN Outlived(d, b) ELSE task[d]
      BY <1>2 DEF WindowEnds
    <3>2. PICK t \in Task : t = task[d]
      BY DEF PassedInv
    <3>3. Outlived(d, b).phase = task[d].phase
      BY <3>2 DEF Outlived, Task
    <3>. QED
      BY <3>1, <3>3
  <2>. QED
    BY <2>1 DEF PassedInv, Passed, Where, Phase
<1>. QED
  BY <1>1, <1>2

LEMMA NextPassed ==
  PassedInv /\ WInv /\ LimitTypeOK' /\ [Next]_vars => PassedInv'
<1>. SUFFICES ASSUME PassedInv, WInv, task' \in [Calls -> Task], [Next]_vars PROVE PassedInv'
  BY DEF LimitTypeOK
<1>1. CASE UNCHANGED <<http, task>>
  BY <1>1 DEF PassedInv, Passed, Where, Phase
<1>2. ASSUME NEW c \in Calls, Arrives(c) PROVE PassedInv'
  <2>1. PICK route, caller, checks : Request(c, route, caller, checks)
    BY <1>2 DEF Arrives
  <2>. DEFINE q == [NoRequest EXCEPT !.at = "limit", !.route = route, !.caller = caller]
  <2>2. http' = [http EXCEPT ![c] = q] /\ q.at = "limit"
    BY <2>1 DEF Request, NoRequest
  <2>3. \A d \in Calls \ {c} : task'[d].phase = task[d].phase
    BY <2>1 DEF Request, Arrive, PassedInv
  <2>. HIDE DEF q
  <2>. QED
    BY <2>2, <2>3, PassesAlone
<1>3. ASSUME NEW c \in Calls, Where(c) \notin {"idle", "limit"} PROVE Phase(c) = "allowed"
  BY <1>3 DEF PassedInv, Passed
<1>4. ASSUME NEW c \in Calls, Guards(c) PROVE PassedInv'
  <2>1. CASE Authenticate(c)
    BY <2>1, LeavesPassed, GoesPassed DEF Authenticate
  <2>2. CASE TenancySkipped(c)
    BY <1>3, <2>2, GoesPassed DEF TenancySkipped
  <2>. QED
    BY <1>4, <2>1, <2>2 DEF Guards
<1>5. ASSUME NEW c \in Calls, Tenancy(c) \/ StoreStatus(c) PROVE PassedInv'
  <2>1. Phase(c) = "allowed"
    BY <1>3, <1>5 DEF Tenancy, StoreStatus
  <2>. QED
    BY <1>5, <2>1, LeavesPassed, GoesPassed DEF Tenancy, StoreStatus, Judge, Answers
<1>6. ASSUME NEW c \in Calls, PermissionGiven(c) PROVE PassedInv'
  <2>1. Phase(c) = "allowed" /\ \E granted : Permission(c, granted)
    BY <1>3, <1>6 DEF PermissionGiven, Permission
  <2>. QED
    BY <2>1, LeavesPassed, GoesPassed DEF Permission
<1>7. ASSUME NEW c \in Calls, Create(c) PROVE PassedInv'
  BY <1>1, <1>7, LeavesPassed
     DEF Create, CanCreate, SlugChecked, Pick, Insert, Explain, CreateFails, Answers, requestVars, limitVars
<1>8. ASSUME NEW c \in Calls, Review(c) \/ Reads(c) \/ Refusals(c) PROVE PassedInv'
  BY <1>1, <1>8, LeavesPassed
     DEF Review, Reads, Refusals, RecordReview, ReviewFails, DropStatus, DropLost, Answers,
         requestVars, limitVars
<1>9. ASSUME NEW c \in Calls, LimiterSteps(c) PROVE PassedInv'
  BY <1>9, LimitsPassed DEF LimiterSteps
<1>10. ASSUME NEW b \in Budgets, KeyExpires(b) PROVE PassedInv'
  BY <1>10, LimitsPassed DEF KeyExpires
<1>11. ASSUME NEW w \in Slugs, Expire(w) PROVE PassedInv'
  BY <1>1, <1>11 DEF Expire, requestVars, limitVars
<1>12. CASE UNCHANGED vars
  BY <1>1, <1>12 DEF vars, requestVars, limitVars
<1>. QED
  BY <1>2, <1>4, <1>5, <1>6, <1>7, <1>8, <1>9, <1>10, <1>11, <1>12 DEF Next
-----------------------------------------------------------------------------
\* What a request asks to enter is a workspace there is, on every route that
\* asks for one.
Named(c) == work[c].slug \in Taken \cup {None} \/ Exempt(RouteOf(c))

\* What a request has loaded is the status, unless a review made it old.
Loading(c) ==
  Where(c) = "storing" =>
    /\ work[c].slug \in Taken
    /\ work[c].loaded = status[work[c].slug] \/ work[c].old

EntriesInv ==
  /\ cached \in [Slugs -> {Absent, None, "pending"} \cup Decided]
  /\ \A w \in Slugs : cached[w] # Absent => w \in Taken
  /\ StatusIsExcused

LoadsInv == \A c \in Calls : Named(c) /\ Loading(c)

\* A step of one request, its record right: the others' stay so, and only this
\* one may cease to be about to delete an entry.
LEMMA LoadsAlone ==
  ASSUME LoadsInv, OwnInv, WInv, UNCHANGED status, NEW c \in Calls,
         NEW x, work' = [work EXCEPT ![c] = x],
         \A d \in Calls \ {c} : http'[d] = http[d],
         x.slug \in Taken \cup {None} \/ Exempt(http'[c].route),
         http'[c].at = "storing" =>
           x.slug \in Taken /\ (x.loaded = status[x.slug] \/ x.old)
  PROVE  LoadsInv' /\ \A w \in Slugs : Deciders(w) \ {c} \subseteq Deciders(w)'
<1>1. work'[c] = x /\ \A d \in Calls \ {c} : work'[d] = work[d]
  BY DEF OwnInv
<1>2. Taken' = Taken
  BY DEF Taken
<1>3. ASSUME NEW d \in Calls PROVE Named(d)' /\ Loading(d)'
  <2>1. CASE d = c
    BY <1>1, <1>2, <2>1 DEF Named, Loading, Where, RouteOf
  <2>2. CASE d # c
    <3>1. work'[d] = work[d] /\ http'[d] = http[d] /\ Named(d) /\ Loading(d)
      BY <1>1, <2>2 DEF LoadsInv
    <3>. QED
      BY <1>2, <3>1 DEF Named, Loading, Where, RouteOf
  <2>. QED
    BY <2>1, <2>2
<1>4. ASSUME NEW w \in Slugs, NEW d \in Deciders(w) \ {c} PROVE d \in Deciders(w)'
  BY <1>1 DEF Deciders, Does, Where
<1>. QED
  BY <1>3, <1>4 DEF LoadsInv

\* One that leaves the entries alone keeps what is said of them.
LEMMA EntriesAlone ==
  ASSUME EntriesInv, UNCHANGED <<status, cached, stale>>, NEW c \in Calls,
         ~Does(c, "review", "drop"),
         \A w \in Slugs : Deciders(w) \ {c} \subseteq Deciders(w)'
  PROVE  EntriesInv'
<1>1. \A w \in Slugs : Deciders(w) \subseteq Deciders(w)'
  BY DEF Deciders
<1>. QED
  BY <1>1 DEF EntriesInv, StatusIsExcused, Taken

CacheInv == EntriesInv /\ LoadsInv

LEMMA InitCacheInv == Init => CacheInv
<1>. SUFFICES ASSUME Init PROVE CacheInv
  OBVIOUS
<1>1. EntriesInv
  BY DEF Init, EntriesInv, StatusIsExcused
<1>2. \A c \in Calls : work[c] = Idle /\ Idle.slug = None /\ Where(c) = "idle"
  BY DEF Init, RequestsInit, Idle, Where, NoRequest
<1>. QED
  BY <1>1, <1>2 DEF CacheInv, LoadsInv, Named, Loading

\* An answer leaves an idle call behind.
LEMMA AnsweredLoads ==
  ASSUME LoadsInv, OwnInv, WInv, UNCHANGED status, NEW c \in Calls,
         http' = [http EXCEPT ![c] = NoRequest], work' = [work EXCEPT ![c] = Idle]
  PROVE  LoadsInv' /\ \A w \in Slugs : Deciders(w) \ {c} \subseteq Deciders(w)'
<1>1. Idle.slug = None /\ NoRequest.at = "idle"
  BY DEF Idle, NoRequest
<1>2. http'[c] = NoRequest /\ \A d \in Calls \ {c} : http'[d] = http[d]
  BY DEF WInv
<1>. QED
  BY <1>1, <1>2, LoadsAlone

LEMMA AnsweredCache ==
  ASSUME CacheInv, OwnInv, WInv, UNCHANGED <<status, cached, stale>>, NEW c \in Calls,
         ~Does(c, "review", "drop"),
         http' = [http EXCEPT ![c] = NoRequest], work' = [work EXCEPT ![c] = Idle]
  PROVE  CacheInv'
BY AnsweredLoads, EntriesAlone DEF CacheInv

\* A request that moves on keeps its workspace, its route and what it loaded.
LEMMA OnwardCache ==
  ASSUME CacheInv, OwnInv, WInv, UNCHANGED <<status, cached, stale>>, NEW c \in Calls,
         ~Does(c, "review", "drop"),
         NEW x, work' = [work EXCEPT ![c] = x], x.slug = work[c].slug,
         NEW q, http' = [http EXCEPT ![c] = q], q.route = RouteOf(c), q.at # "storing"
  PROVE  CacheInv'
<1>1. http'[c] = q /\ \A d \in Calls \ {c} : http'[d] = http[d]
  BY DEF WInv
<1>2. Named(c)
  BY DEF CacheInv, LoadsInv
<1>3. LoadsInv' /\ \A w \in Slugs : Deciders(w) \ {c} \subseteq Deciders(w)'
  BY <1>1, <1>2, LoadsAlone DEF CacheInv, Named
<1>. QED
  BY <1>3, EntriesAlone DEF CacheInv

LEMMA ArrivesCache ==
  ASSUME CacheInv, OwnInv, WInv, PassedInv, NEW c \in Calls, Arrives(c)
  PROVE  CacheInv'
<1>1. PICK route, caller, checks, x :
        /\ Request(c, route, caller, checks) /\ work' = [work EXCEPT ![c] = x]
        /\ x.slug \in Taken \cup {None} \/ Exempt(route)
  <2>1. PICK caller \in Users \cup Admins :
       \/ \E slug \in Slugs \cup {None} :
            /\ Request(c, CreateRoute, caller, <<Floor, CreateByIp>>)
            /\ Starts(c, [Idle EXCEPT !.op = "create", !.slug = slug])
       \/ \E slug \in Taken, outcome \in {"active", "rejected"} :
            /\ Request(c, ReviewRoute, caller, <<Floor>>)
            /\ Starts(c, [Idle EXCEPT !.op = "review", !.slug = slug, !.outcome = outcome])
       \/ \E route \in Routes, slug \in Taken \cup {None} :
            /\ Exempt(route) => slug = None
            /\ Request(c, route, caller, <<Floor>>)
            /\ Starts(c, [Idle EXCEPT !.slug = slug])
    BY DEF Arrives
  <2>2. Exempt(CreateRoute)
    BY DEF CreateRoute, Exempt
  <2>3. CASE \E slug \in Slugs \cup {None} :
               /\ Request(c, CreateRoute, caller, <<Floor, CreateByIp>>)
               /\ Starts(c, [Idle EXCEPT !.op = "create", !.slug = slug])
    BY <2>2, <2>3 DEF Starts
  <2>4. CASE \E slug \in Taken, outcome \in {"active", "rejected"} :
               /\ Request(c, ReviewRoute, caller, <<Floor>>)
               /\ Starts(c, [Idle EXCEPT !.op = "review", !.slug = slug, !.outcome = outcome])
    <3>1. PICK slug \in Taken, outcome \in {"active", "rejected"} :
               /\ Request(c, ReviewRoute, caller, <<Floor>>)
               /\ Starts(c, [Idle EXCEPT !.op = "review", !.slug = slug, !.outcome = outcome])
      BY <2>4
    <3>2. [Idle EXCEPT !.op = "review", !.slug = slug, !.outcome = outcome].slug \in Taken
      BY DEF Idle
    <3>. QED
      BY <3>1, <3>2 DEF Starts
  <2>5. CASE \E route \in Routes, slug \in Taken \cup {None} :
               /\ Request(c, route, caller, <<Floor>>)
               /\ Starts(c, [Idle EXCEPT !.slug = slug])
    <3>1. PICK route \in Routes, slug \in Taken \cup {None} :
               /\ Request(c, route, caller, <<Floor>>)
               /\ Starts(c, [Idle EXCEPT !.slug = slug])
      BY <2>5
    <3>2. [Idle EXCEPT !.slug = slug].slug \in Taken \cup {None}
      BY DEF Idle
    <3>. QED
      BY <3>1, <3>2 DEF Starts
  <2>. QED
    BY <2>1, <2>3, <2>4, <2>5
<1>. DEFINE q == [NoRequest EXCEPT !.at = "limit", !.route = route, !.caller = caller]
<1>2. http' = [http EXCEPT ![c] = q] /\ q.at = "limit" /\ q.route = route
  BY <1>1 DEF Request, NoRequest
<1>. HIDE DEF q
<1>3. http'[c] = q /\ \A d \in Calls \ {c} : http'[d] = http[d]
  BY <1>2 DEF WInv
<1>4. UNCHANGED <<status, cached, stale>>
  BY DEF Arrives, workspaceVars
<1>5. LoadsInv' /\ \A w \in Slugs : Deciders(w) \ {c} \subseteq Deciders(w)'
  BY <1>1, <1>2, <1>3, <1>4, LoadsAlone DEF CacheInv
<1>6. ~Does(c, "review", "drop")
  <2>1. Phase(c) = "idle"
    BY <1>1 DEF Request, Arrive
  <2>. QED
    BY <2>1 DEF PassedInv, Passed, Does
<1>. QED
  BY <1>4, <1>5, <1>6, EntriesAlone DEF CacheInv

LEMMA GuardsCache ==
  ASSUME CacheInv, OwnInv, WInv, NEW c \in Calls, Guards(c) \/ PermissionGiven(c)
  PROVE  CacheInv'
<1>1. /\ http[c] \in HttpRecord /\ http \in [Calls -> HttpRecord]
      /\ work \in [Calls -> WorkRecord] /\ work[c] \in WorkRecord
  BY DEF WInv, OwnInv
<1>2. UNCHANGED <<status, cached, stale>>
  BY DEF Guards, PermissionGiven, workspaceVars
<1>3. ~Does(c, "review", "drop")
  BY DEF Guards, Authenticate, TenancySkipped, PermissionGiven, Permission, Does
<1>4. CASE Answer(c)
  <2>1. Where(c)' = "idle" /\ http' = [http EXCEPT ![c] = NoRequest]
    BY <1>4, <1>1 DEF Answer, Where, NoRequest
  <2>2. work' = [work EXCEPT ![c] = Idle]
    BY <2>1 DEF Guards, PermissionGiven
  <2>. QED
    BY <1>2, <1>3, <2>1, <2>2, AnsweredCache
<1>5. CASE ~Answer(c)
  <2>1. PICK at \in {"tenancy", "permission", "handler", "fault"} :
          Goto(c, at) \/ \E facts : Learns(c, facts, at)
    BY <1>5 DEF Guards, Authenticate, TenancySkipped, PermissionGiven, Permission
  <2>2. PICK q : http' = [http EXCEPT ![c] = q] /\ q.route = RouteOf(c) /\ q.at = at
    <3>1. CASE Goto(c, at)
      <4>. DEFINE q == [http[c] EXCEPT !.at = at]
      <4>1. http' = [http EXCEPT ![c] = q] /\ q.route = RouteOf(c) /\ q.at = at
        BY <1>1, <3>1 DEF Goto, RouteOf, HttpRecord
      <4>. HIDE DEF q
      <4>. QED
        BY <4>1
    <3>2. CASE \E facts : Learns(c, facts, at)
      <4>1. PICK facts : Learns(c, facts, at)
        BY <3>2
      <4>. DEFINE q == [http[c] EXCEPT !.at = at, !.knows = http[c].knows \cup facts]
      <4>2. http' = [http EXCEPT ![c] = q] /\ q.route = RouteOf(c) /\ q.at = at
        BY <1>1, <4>1 DEF Learns, RouteOf, HttpRecord
      <4>. HIDE DEF q
      <4>. QED
        BY <4>2
    <3>. QED
      BY <2>1, <3>1, <3>2
  <2>3. Where(c)' # "idle"
    BY <1>1, <2>1, <2>2 DEF Where
  <2>4. PICK x : work' = [work EXCEPT ![c] = x] /\ x.slug = work[c].slug
    <3>1. work = [work EXCEPT ![c] = work[c]]
      BY <1>1
    <3>2. CASE work' = work
      BY <3>1, <3>2
    <3>3. ASSUME NEW todo, work' = [work EXCEPT ![c].step = "start", ![c].todo = todo]
          PROVE  \E x : work' = [work EXCEPT ![c] = x] /\ x.slug = work[c].slug
      <4>. DEFINE x == [work[c] EXCEPT !.step = "start", !.todo = todo]
      <4>1. work' = [work EXCEPT ![c] = x] /\ x.slug = work[c].slug
        BY <1>1, <3>3 DEF WorkRecord
      <4>. HIDE DEF x
      <4>. QED
        BY <4>1
    <3>. QED
      BY <2>3, <3>2, <3>3 DEF Guards, PermissionGiven
  <2>. QED
    BY <1>2, <1>3, <2>1, <2>2, <2>4, OnwardCache
<1>. QED
  BY <1>4, <1>5

\* A load that missed takes the status as it stands.
LEMMA TenancyCache ==
  ASSUME CacheInv, OwnInv, WInv, NEW c \in Calls, Tenancy(c)
  PROVE  CacheInv'
<1>1. /\ http[c] \in HttpRecord /\ http \in [Calls -> HttpRecord]
      /\ work \in [Calls -> WorkRecord] /\ work[c] \in WorkRecord
  BY DEF WInv, OwnInv
<1>2. UNCHANGED <<status, cached, stale>> /\ ~Does(c, "review", "drop")
  BY DEF Tenancy, workspaceVars, Does
<1>3. CASE Answers(c)
  BY <1>2, <1>3, AnsweredCache DEF Answers, Answer
<1>4. CASE Learns(c, {"workspaceId", "memberId"}, "permission") /\ work' = work
  <2>. DEFINE q == [http[c] EXCEPT !.at = "permission",
                                   !.knows = http[c].knows \cup {"workspaceId", "memberId"}]
  <2>1. http' = [http EXCEPT ![c] = q] /\ q.route = RouteOf(c) /\ q.at = "permission"
    BY <1>1, <1>4 DEF Learns, RouteOf, HttpRecord
  <2>2. work' = [work EXCEPT ![c] = work[c]]
    BY <1>1, <1>4
  <2>. HIDE DEF q
  <2>. QED
    BY <1>2, <2>1, <2>2, OnwardCache
<1>5. CASE Goto(c, "storing") /\ work[c].slug # None
           /\ work' = [work EXCEPT ![c].loaded = status[work[c].slug]]
  <2>. DEFINE x == [work[c] EXCEPT !.loaded = status[work[c].slug]]
  <2>1. work' = [work EXCEPT ![c] = x] /\ x.slug = work[c].slug /\ x.loaded = status[x.slug]
    BY <1>1, <1>5 DEF WorkRecord
  <2>2. work[c].slug \in Taken
    BY <1>5 DEF Tenancy, CacheInv, LoadsInv, Named
  <2>3. \A d \in Calls \ {c} : http'[d] = http[d]
    BY <1>1, <1>5 DEF Goto
  <2>. HIDE DEF x
  <2>4. LoadsInv' /\ \A w \in Slugs : Deciders(w) \ {c} \subseteq Deciders(w)'
    BY <1>2, <2>1, <2>2, <2>3, LoadsAlone DEF CacheInv
  <2>. QED
    BY <1>2, <2>4, EntriesAlone DEF CacheInv
<1>. QED
  BY <1>3, <1>4, <1>5 DEF Tenancy, Judge

\* A load is stored: as it stands, or marked as one a review made old.
LEMMA StoreCache ==
  ASSUME CacheInv, OwnInv, WInv, NEW c \in Calls, StoreStatus(c)
  PROVE  CacheInv'
<1>1. /\ http[c] \in HttpRecord /\ http \in [Calls -> HttpRecord]
      /\ work \in [Calls -> WorkRecord] /\ work[c] \in WorkRecord
  BY DEF WInv, OwnInv
<1>2. PICK w \in Taken : w = work[c].slug /\ (work[c].loaded = status[w] \/ work[c].old)
  BY DEF StoreStatus, CacheInv, LoadsInv, Loading
<1>3. /\ UNCHANGED status /\ ~Does(c, "review", "drop")
      /\ cached' = [cached EXCEPT ![w] = work[c].loaded]
      /\ stale' = IF work[c].old THEN stale \cup {w} ELSE stale \ {w}
  BY <1>2 DEF StoreStatus, Does
<1>4. LoadsInv' /\ \A v \in Slugs : Deciders(v) \ {c} \subseteq Deciders(v)'
  <2>1. CASE Answers(c)
    BY <1>3, <2>1, AnsweredLoads DEF Answers, Answer, CacheInv
  <2>2. CASE Learns(c, {"workspaceId", "memberId"}, "permission") /\ work' = work
    <3>. DEFINE q == [http[c] EXCEPT !.at = "permission",
                                     !.knows = http[c].knows \cup {"workspaceId", "memberId"}]
    <3>1. http' = [http EXCEPT ![c] = q] /\ q.route = RouteOf(c) /\ q.at = "permission"
      BY <1>1, <2>2 DEF Learns, RouteOf, HttpRecord
    <3>2. work' = [work EXCEPT ![c] = work[c]]
      BY <1>1, <2>2
    <3>. HIDE DEF q
    <3>3. http'[c] = q /\ \A d \in Calls \ {c} : http'[d] = http[d]
      BY <1>1, <3>1
    <3>. QED
      BY <1>2, <1>3, <3>1, <3>2, <3>3, LoadsAlone DEF CacheInv
  <2>. QED
    BY <2>1, <2>2 DEF StoreStatus, Judge
<1>5. \A v \in Slugs : Deciders(v) \subseteq Deciders(v)'
  BY <1>3, <1>4 DEF Deciders
<1>6. w \in Slugs /\ Taken' = Taken /\ work[c].loaded \in {Absent, None, "pending"} \cup Decided
  BY <1>1, <1>3 DEF Taken, WorkRecord
<1>7. \A v \in Slugs : cached'[v] = IF v = w THEN work[c].loaded ELSE cached[v]
  BY <1>3, <1>6 DEF CacheInv, EntriesInv
<1>8. StatusIsExcused'
  BY <1>2, <1>3, <1>5, <1>7 DEF CacheInv, EntriesInv, StatusIsExcused
<1>9. EntriesInv'
  BY <1>2, <1>3, <1>6, <1>7, <1>8 DEF CacheInv, EntriesInv
<1>. QED
  BY <1>4, <1>9 DEF CacheInv

\* A workspace that is made has no entry yet, and no request names it.
LEMMA InsertCache ==
  ASSUME CacheInv, OwnInv, WInv, NEW c \in Calls, Inserts(c)
  PROVE  CacheInv'
<1>1. PICK w : w = work[c].pick /\ w \in Slugs \ Taken /\ Answers(c)
  BY Inserted DEF Inserts
<1>2. /\ status' = [status EXCEPT ![w] = "pending"] /\ UNCHANGED <<cached, stale>>
      /\ ~Does(c, "review", "drop")
  BY <1>1 DEF Inserts, Insert, Does
<1>3. /\ http' = [http EXCEPT ![c] = NoRequest] /\ http \in [Calls -> HttpRecord]
      /\ work' = [work EXCEPT ![c] = Idle] /\ work \in [Calls -> WorkRecord]
  BY <1>1 DEF Answers, Answer, WInv, OwnInv
<1>4. \A d \in Calls \ {c} : http'[d] = http[d] /\ work'[d] = work[d]
  BY <1>3
<1>5. \A v \in Slugs : status'[v] = IF v = w THEN "pending" ELSE status[v]
  BY <1>1, <1>2 DEF OwnInv, TableInv
<1>6. Taken' = Taken \cup {w} /\ \A v \in Taken : status'[v] = status[v]
  BY <1>1, <1>5, WorkspacesAssumption DEF Taken
<1>7. ASSUME NEW d \in Calls PROVE Named(d)' /\ Loading(d)'
  <2>1. CASE d = c
    <3>1. work'[d] = Idle /\ http'[d] = NoRequest /\ Idle.slug = None /\ NoRequest.at = "idle"
      BY <1>3, <2>1 DEF Idle, NoRequest
    <3>. QED
      BY <3>1 DEF Named, Loading, Where
  <2>2. CASE d # c
    <3>1. work'[d] = work[d] /\ http'[d] = http[d] /\ Named(d) /\ Loading(d)
      BY <1>4, <2>2 DEF CacheInv, LoadsInv
    <3>. QED
      BY <1>6, <3>1 DEF Named, Loading, Where, RouteOf
  <2>. QED
    BY <2>1, <2>2
<1>8. ASSUME NEW v \in Slugs PROVE Deciders(v) \subseteq Deciders(v)'
  BY <1>2, <1>4 DEF Deciders, Does, Where
<1>9. EntriesInv'
  BY <1>1, <1>2, <1>5, <1>6, <1>8 DEF CacheInv, EntriesInv, StatusIsExcused
<1>. QED
  BY <1>7, <1>9 DEF CacheInv, LoadsInv

LEMMA CreatesCache ==
  ASSUME CacheInv, OwnInv, WInv, NEW c \in Calls, Create(c), ~Inserts(c)
  PROVE  CacheInv'
<1>1. /\ http[c] \in HttpRecord /\ http \in [Calls -> HttpRecord]
      /\ work \in [Calls -> WorkRecord] /\ work[c] \in WorkRecord
  BY DEF WInv, OwnInv
<1>2. Where(c) = "handler" /\ work[c].op = "create"
  BY DEF Create, CanCreate, SlugChecked, Pick, Insert, Explain, CreateFails, Does
<1>3. UNCHANGED <<status, cached, stale>> /\ ~Does(c, "review", "drop")
  BY <1>2 DEF Create, Inserts, CanCreate, SlugChecked, Pick, Insert, Explain, CreateFails,
              workspaceVars, Does
<1>4. CASE Answers(c)
  BY <1>3, <1>4, AnsweredCache DEF Answers, Answer
<1>5. CASE ~Answers(c)
  <2>1. UNCHANGED http
    BY <1>5 DEF Create, Inserts, CanCreate, SlugChecked, Pick, Insert, Explain, CreateFails, requestVars
  <2>2. \E x : work' = [work EXCEPT ![c] = x] /\ x.slug = work[c].slug
    <3>1. ASSUME NEW todo, work' = [work EXCEPT ![c].todo = todo]
          PROVE  \E x : work' = [work EXCEPT ![c] = x] /\ x.slug = work[c].slug
      <4>. DEFINE x == [work[c] EXCEPT !.todo = todo]
      <4>1. work' = [work EXCEPT ![c] = x] /\ x.slug = work[c].slug
        BY <1>1, <3>1 DEF WorkRecord
      <4>. HIDE DEF x
      <4>. QED
        BY <4>1
    <3>2. ASSUME NEW step, NEW pick, NEW attempt,
                 work' = [work EXCEPT ![c].step = step, ![c].pick = pick, ![c].attempt = attempt]
          PROVE  \E x : work' = [work EXCEPT ![c] = x] /\ x.slug = work[c].slug
      <4>. DEFINE x == [work[c] EXCEPT !.step = step, !.pick = pick, !.attempt = attempt]
      <4>1. work' = [work EXCEPT ![c] = x] /\ x.slug = work[c].slug
        BY <1>1, <3>2 DEF WorkRecord
      <4>. HIDE DEF x
      <4>. QED
        BY <4>1
    <3>3. CASE \E check \in {"pending", "count"} : CanCreate(c, check)
      <4>1. PICK check \in {"pending", "count"} : CanCreate(c, check)
        BY <3>3
      <4>2. work' = [work EXCEPT ![c].todo = work[c].todo \ {check}]
        BY <1>1, <1>5, <4>1 DEF CanCreate
      <4>. QED
        BY <3>1, <4>2
    <3>4. CASE SlugChecked(c) \/ Insert(c)
      <4>1. PICK step : work' = [work EXCEPT ![c].step = step]
        BY <1>5, <3>4 DEF SlugChecked, Insert, Step
      <4>2. work' = [work EXCEPT ![c].step = step, ![c].pick = work[c].pick, ![c].attempt = work[c].attempt]
        BY <1>1, <4>1 DEF WorkRecord
      <4>. QED
        BY <3>2, <4>2
    <3>5. CASE Pick(c)
      <4>1. PICK pick : work' = [work EXCEPT ![c].pick = pick, ![c].step = "insert"]
        BY <1>5, <3>5 DEF Pick
      <4>2. work' = [work EXCEPT ![c].step = "insert", ![c].pick = pick, ![c].attempt = work[c].attempt]
        BY <1>1, <4>1 DEF WorkRecord
      <4>. QED
        BY <3>2, <4>2
    <3>6. CASE Explain(c)
      <4>1. work' = [work EXCEPT ![c].step = "pick", ![c].attempt = @ + 1]
        BY <1>5, <3>6 DEF Explain
      <4>2. work' = [work EXCEPT ![c].step = "pick", ![c].pick = work[c].pick,
                                 ![c].attempt = work[c].attempt + 1]
        BY <1>1, <4>1 DEF WorkRecord
      <4>. QED
        BY <3>2, <4>2
    <3>. QED
      BY <1>5, <3>3, <3>4, <3>5, <3>6 DEF Create, CreateFails
  <2>3. http' = [http EXCEPT ![c] = http[c]] /\ http[c].at # "storing"
    BY <1>1, <1>2, <2>1 DEF Where
  <2>. QED
    BY <1>3, <2>2, <2>3, OnwardCache DEF RouteOf
<1>. QED
  BY <1>4, <1>5

\* A review that counts makes what is cached of its workspace stale, and is
\* from then on about to delete it; what others have loaded of it becomes old.
LEMMA ReviewCache ==
  ASSUME CacheInv, OwnInv, WInv, NEW c \in Calls, Decides(c)
  PROVE  CacheInv'
<1>0. PICK w, x : w = work[c].slug /\ x = [work[c] EXCEPT !.step = "drop"]
  OBVIOUS
<1>1. /\ work \in [Calls -> WorkRecord] /\ Doing(work[c])
      /\ status[w] = "pending" /\ status' = [status EXCEPT ![w] = work[c].outcome]
      /\ Reviewed(c, w, x) /\ UNCHANGED <<http, owner, cached, stale>>
      /\ work[c].op = "review" /\ work[c].step = "start" /\ Where(c) = "handler"
  BY <1>0 DEF Decides, OwnInv, RecordReview, Does, requestVars
<1>2. w \in Slugs /\ work[c].outcome \in Decided
  BY <1>0, <1>1 DEF Doing
<1>3. x.slug = w /\ x.op = "review" /\ x.step = "drop"
  BY <1>0, <1>1 DEF WorkRecord
<1>4. \A v \in Slugs : status'[v] = IF v = w THEN work[c].outcome ELSE status[v]
  BY <1>1, <1>2 DEF OwnInv, TableInv
<1>5. Taken' = Taken /\ w \in Taken
  BY <1>1, <1>2, <1>4, WorkspacesAssumption DEF Taken, Decided
<1>6. work'[c] = x
  BY <1>1 DEF Reviewed
<1>7. ASSUME NEW d \in Calls \ {c}
      PROVE  /\ work'[d].slug = work[d].slug /\ work'[d].op = work[d].op
             /\ work'[d].step = work[d].step /\ work'[d].loaded = work[d].loaded
             /\ work[d].old => work'[d].old
             /\ Where(d) = "storing" /\ work[d].slug = w => work'[d].old
  <2>1. work[d] \in WorkRecord
    BY <1>1
  <2>2. CASE work[d].op = "create" /\ Where(d) = "handler" /\ Caller(d) = owner[w]
    <3>1. work'[d] = [work[d] EXCEPT !.overtaken = TRUE]
      BY <1>1, <2>2 DEF Reviewed
    <3>. QED
      BY <2>1, <2>2, <3>1 DEF WorkRecord
  <2>3. CASE Where(d) = "storing" /\ work[d].slug = w
    <3>1. work'[d] = [work[d] EXCEPT !.old = TRUE]
      BY <1>1, <2>3 DEF Reviewed
    <3>. QED
      BY <2>1, <3>1 DEF WorkRecord
  <2>4. CASE /\ ~(work[d].op = "create" /\ Where(d) = "handler" /\ Caller(d) = owner[w])
             /\ ~(Where(d) = "storing" /\ work[d].slug = w)
    <3>1. work'[d] = work[d]
      BY <1>1, <2>4 DEF Reviewed
    <3>. QED
      BY <2>4, <3>1
  <2>. QED
    BY <2>2, <2>3, <2>4
<1>8. ASSUME NEW d \in Calls PROVE Named(d)' /\ Loading(d)'
  <2>1. CASE d = c
    <3>1. Where(c)' = "handler"
      BY <1>1 DEF Where
    <3>. QED
      BY <1>3, <1>5, <1>6, <2>1, <3>1 DEF Named, Loading
  <2>2. CASE d # c
    <3>1. http'[d] = http[d] /\ Named(d) /\ Loading(d)
      BY <1>1 DEF CacheInv, LoadsInv
    <3>2. Named(d)'
      BY <1>5, <1>7, <2>2, <3>1 DEF Named, RouteOf
    <3>3. Loading(d)'
      <4>. SUFFICES ASSUME Where(d) = "storing"
                    PROVE  /\ work'[d].slug \in Taken
                           /\ work'[d].loaded = status'[work'[d].slug] \/ work'[d].old
        BY <1>5, <3>1 DEF Loading, Where
      <4>1. work[d].slug \in Taken /\ (work[d].loaded = status[work[d].slug] \/ work[d].old)
        BY <3>1 DEF Loading
      <4>2. work[d].slug \in Slugs
        BY <4>1 DEF Taken
      <4>. QED
        BY <1>4, <1>7, <2>2, <4>1, <4>2
    <3>. QED
      BY <3>2, <3>3
  <2>. QED
    BY <2>1, <2>2
<1>9. c \in Deciders(w)'
  BY <1>1, <1>3, <1>6 DEF Deciders, Does, Where
<1>10. ASSUME NEW v \in Slugs PROVE Deciders(v) \subseteq Deciders(v)'
  <2>. SUFFICES ASSUME NEW d \in Deciders(v) PROVE d \in Deciders(v)'
    OBVIOUS
  <2>1. d \in Calls /\ d # c
    BY <1>1 DEF Deciders, Does
  <2>. QED
    BY <1>1, <1>7, <2>1 DEF Deciders, Does, Where
<1>11. EntriesInv'
  BY <1>1, <1>4, <1>5, <1>9, <1>10 DEF CacheInv, EntriesInv, StatusIsExcused
<1>. QED
  BY <1>8, <1>11 DEF CacheInv, LoadsInv

\* The delete after a review leaves no entry; one that is lost is owned up to.
LEMMA DropCache ==
  ASSUME CacheInv, OwnInv, WInv, NEW c \in Calls, DropStatus(c) \/ DropLost(c)
  PROVE  CacheInv'
<1>1. work[c] \in WorkRecord /\ Doing(work[c]) /\ Does(c, "review", "drop")
  BY DEF OwnInv, DropStatus, DropLost
<1>2. PICK w \in Slugs : w = work[c].slug
  BY <1>1 DEF Doing, Does
<1>3. UNCHANGED status /\ Taken' = Taken
  BY DEF DropStatus, DropLost, Taken
<1>4. LoadsInv' /\ \A v \in Slugs : Deciders(v) \ {c} \subseteq Deciders(v)'
  BY <1>3, AnsweredLoads DEF DropStatus, DropLost, Answers, Answer, CacheInv
<1>5. \A v \in Slugs \ {w} : Deciders(v) \subseteq Deciders(v)'
  BY <1>2, <1>4 DEF Deciders
<1>6. CASE DropStatus(c)
  <2>1. stale' = stale \ {w} /\ cached' = [cached EXCEPT ![w] = Absent]
    BY <1>2, <1>6 DEF DropStatus
  <2>2. \A v \in Slugs : cached'[v] = IF v = w THEN Absent ELSE cached[v]
    BY <2>1 DEF CacheInv, EntriesInv
  <2>3. StatusIsExcused'
    BY <1>3, <1>5, <2>1, <2>2 DEF CacheInv, EntriesInv, StatusIsExcused
  <2>4. EntriesInv'
    BY <1>3, <2>1, <2>2, <2>3 DEF CacheInv, EntriesInv
  <2>. QED
    BY <1>4, <2>4 DEF CacheInv
<1>7. CASE DropLost(c)
  <2>1. stale' = stale \cup {w} /\ cached' = cached
    BY <1>2, <1>7 DEF DropLost
  <2>2. StatusIsExcused'
    BY <1>3, <1>5, <2>1 DEF CacheInv, EntriesInv, StatusIsExcused
  <2>. QED
    BY <1>3, <1>4, <2>1, <2>2 DEF CacheInv, EntriesInv
<1>. QED
  BY <1>6, <1>7

LEMMA ExpireCache ==
  ASSUME CacheInv, NEW w \in Slugs, Expire(w)
  PROVE  CacheInv'
<1>1. UNCHANGED <<http, status, work>> /\ stale' = stale \ {w}
      /\ cached' = [cached EXCEPT ![w] = Absent]
  BY DEF Expire, requestVars
<1>2. \A v \in Slugs : cached'[v] = IF v = w THEN Absent ELSE cached[v]
  BY <1>1 DEF CacheInv, EntriesInv
<1>3. Taken' = Taken /\ \A v \in Slugs : Deciders(v)' = Deciders(v)
  BY <1>1 DEF Taken, Deciders, Does, Where
<1>4. EntriesInv'
  BY <1>1, <1>2, <1>3 DEF CacheInv, EntriesInv, StatusIsExcused
<1>5. LoadsInv'
  BY <1>1, <1>3 DEF CacheInv, LoadsInv, Named, Loading, Where, RouteOf
<1>. QED
  BY <1>4, <1>5 DEF CacheInv

LEMMA NextCache == CacheInv /\ OwnInv /\ WInv /\ PassedInv /\ [Next]_vars => CacheInv'
<1>. SUFFICES ASSUME CacheInv, OwnInv, WInv, PassedInv, [Next]_vars PROVE CacheInv'
  OBVIOUS
<1>1. CASE UNCHANGED <<http, work, status, cached, stale>>
  <2>1. Taken' = Taken /\ \A v \in Slugs : Deciders(v)' = Deciders(v)
    BY <1>1 DEF Taken, Deciders, Does, Where
  <2>2. EntriesInv'
    BY <1>1, <2>1 DEF CacheInv, EntriesInv, StatusIsExcused
  <2>3. LoadsInv'
    BY <1>1, <2>1 DEF CacheInv, LoadsInv, Named, Loading, Where, RouteOf
  <2>. QED
    BY <2>2, <2>3 DEF CacheInv
<1>2. ASSUME NEW c \in Calls, Refusals(c) PROVE CacheInv'
  <2>1. ~Does(c, "review", "drop")
    BY <1>2 DEF Refusals, TooMany, Refuse, PassedInv, Passed, Does
  <2>. QED
    BY <1>2, <2>1, AnsweredCache DEF Refusals, TooMany, workspaceVars
<1>3. ASSUME NEW c \in Calls, Reads(c) \/ ReviewFails(c) PROVE CacheInv'
  <2>1. ~Does(c, "review", "drop")
    BY <1>3 DEF Reads, ReviewFails, Does
  <2>. QED
    BY <1>3, <2>1, AnsweredCache DEF Reads, ReviewFails, Answers, Answer, workspaceVars
<1>4. ASSUME NEW c \in Calls, RecordReview(c) PROVE CacheInv'
  <2>1. CASE Decides(c)
    BY <2>1, ReviewCache
  <2>2. CASE ~Decides(c)
    <3>1. ~Does(c, "review", "drop")
      BY <1>4 DEF RecordReview, Does
    <3>. QED
      BY <1>4, <2>2, <3>1, AnsweredCache DEF Decides, RecordReview, Answers, Answer, workspaceVars
  <2>. QED
    BY <2>1, <2>2
<1>5. ASSUME NEW c \in Calls, Review(c) PROVE CacheInv'
  BY <1>3, <1>4, <1>5, DropCache DEF Review
<1>6. ASSUME NEW c \in Calls, LimiterSteps(c) PROVE CacheInv'
  BY <1>1, <1>6 DEF LimiterSteps, workspaceVars
<1>7. ASSUME NEW b \in Budgets, KeyExpires(b) PROVE CacheInv'
  BY <1>1, <1>7 DEF KeyExpires, workspaceVars
<1>8. CASE UNCHANGED vars
  BY <1>1, <1>8 DEF vars, requestVars, workspaceVars
<1>. QED
  BY <1>2, <1>3, <1>5, <1>6, <1>7, <1>8, ArrivesCache, GuardsCache, TenancyCache, StoreCache,
     InsertCache, CreatesCache, ExpireCache DEF Next

\* An owner reads the status from before a review only while the delete after
\* it is to come, was lost, or was overtaken by a load from before the review.
THEOREM OldStatusExcused == Spec => []StatusIsExcused
<1>2. IInv => LimitTypeOK
  BY DEF IInv
<1>3. CacheInv => StatusIsExcused
  BY DEF CacheInv, EntriesInv
<1>. QED
  BY <1>2, <1>3, DrivesTheLimiter, LimiterKeepsItsBalance, InitWInv, NextKeeps, InitOwnInv, NextOwn,
     InitPassed, NextPassed, InitCacheInv, NextCache, PTL DEF Spec
=============================================================================
