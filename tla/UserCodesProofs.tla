--------------------------- MODULE UserCodesProofs ---------------------------
(***************************************************************************)
(* Theorems about UserCodes: for any number of requests, codes, attempts   *)
(* and failures, an address is registered once, what is sent to it is used *)
(* once, one token at most can set the password, the code sent last stands *)
(* and the guesses at one are bounded.                                     *)
(***************************************************************************)
EXTENDS UserCodes, FiniteSetTheorems, TLAPS

Holding == {"prove", "supersede", "issue"}
Answering == {"expire", "block", "count", "check", "open", "enter"}
Resetting == {"outdate", "reset"}

Request == [stage : {"idle", "register", "welcome", "due", "pick", "retire", "insert"}
                      \cup Answering \cup Holding \cup Resetting,
            purpose : Purposes \cup {None}, code : Codes \cup {None}, picked : SUBSET Codes]
Row == [purpose : Purposes \cup {None}, status : Statuses, age : Ages, attempts : Nat]
Token == [status : Statuses \ {"BLOCKED"}, age : Ages]

Shapes ==
  /\ account \in {"none", "unverified", "verified"} /\ claimant \in Requests \cup {None}
  /\ registered \in Nat /\ faults \in 0..MaxFaults
  /\ code \in [Codes -> Row] /\ lock \in [Codes -> Requests \cup {None}] /\ token \in [Codes -> Token]
  /\ spent \in [Codes -> Nat] /\ opened \in [Codes -> Nat] /\ compared \in [Codes -> Nat]
  /\ req \in [Requests -> Request]

\* The codes born are the first ones, and those to come have no past.
Births ==
  /\ \A i \in Born, j \in Codes : j <= i => j \in Born
  /\ \A i \in Born : code[i].purpose \in Purposes
  /\ \A i \in Codes \ Born : code[i].attempts = 0 /\ compared[i] = 0

\* Only the claimant is about to commit the address, and before it nobody has
\* anything to answer.
Accounts ==
  /\ registered <= 1
  /\ claimant # None => account = "none"
  /\ \A r \in Requests : At(r, "welcome") => claimant = r
  /\ account = "none" =>
       registered = 0 /\ Born = {} /\ \A r \in Requests : req[r].stage \in {"idle", "register", "welcome"}

\* A lock is held by the transaction that has come to where it holds it, and
\* keeps the code ACTIVE.
Holds(q, i) == (q.stage = "insert" /\ i \in q.picked) \/ (q.stage \in Holding /\ i = q.code)

Locks ==
  /\ \A i \in Codes, r \in Requests : lock[i] = r <=> Holds(req[r], i)
  /\ \A i \in Codes : lock[i] # None => i \in Active

\* What a request carries is of its purpose.
Carries(q) ==
  /\ q.stage \in {"due", "pick", "retire", "insert"} => q.purpose \in Purposes
  /\ q.stage \in {"retire", "insert"} => \A i \in q.picked : i \in Born /\ code[i].purpose = q.purpose
  /\ q.stage \in Answering \cup Holding => q.code \in Born
  /\ q.stage \in {"supersede", "issue"} => code[q.code].purpose = "reset"
  /\ q.stage \in Resetting => q.code \in Codes

\* The unique index.
OneActive == \A i, j \in Active : code[i].purpose = code[j].purpose => i = j

\* A token is of a code that was CONSUMED; who is about to give one has seen
\* the one that can still be spent.
Tokens ==
  /\ \A i \in Codes : token[i].status # "unborn" => code[i].status = "CONSUMED"
  /\ \A i, j \in ActiveTokens : i = j
  /\ \A r \in Requests : At(r, "issue") => ActiveTokens \subseteq req[r].picked

Uses ==
  /\ \A i \in Codes : opened[i] <= 1 /\ spent[i] <= 1
  /\ \A i \in Codes : code[i].status # "CONSUMED" => opened[i] = 0
  /\ \A i \in Codes : token[i].status \in {"unborn", "ACTIVE"} => spent[i] = 0
  /\ \A r \in Requests :
       At(r, "enter") => code[req[r].code].status = "CONSUMED" /\ opened[req[r].code] = 0
  /\ \A r, s \in Requests : At(r, "enter") /\ At(s, "enter") /\ req[r].code = req[s].code => r = s

Carrying == \A r \in Requests : Carries(req[r])

IInv == /\ Shapes /\ Births /\ Accounts /\ Locks /\ Carrying
        /\ OneActive /\ Tokens /\ Uses /\ LastCodeStands
-----------------------------------------------------------------------------
(* What a step leaves alone.                                                *)

Moves(r, q) == req' = [req EXCEPT ![r] = q]

LEMMA Moved ==
  ASSUME IInv, NEW r \in Requests, NEW q, Moves(r, q)
  PROVE  \A s \in Requests : req'[s] = IF s = r THEN q ELSE req[s]
BY DEF IInv, Shapes, Moves

LEMMA GoesTo ==
  ASSUME IInv, NEW r \in Requests, NEW stage, Go(r, stage)
  PROVE  Moves(r, [req[r] EXCEPT !.stage = stage])
BY DEF IInv, Shapes, Moves, Go

LEMMA IdleCarries ==
  /\ Idle \in Request /\ Idle.stage = "idle" /\ Carries(Idle)
  /\ \A i \in Codes : ~Holds(Idle, i)
BY DEF Idle, Request, Carries, Holds, Holding, Answering, Resetting

\* No code is born, and what is resolved stays as it is.
Settles(i) ==
  /\ code'[i].purpose = code[i].purpose
  /\ \/ code'[i].status = code[i].status /\ (i \in Active \/ code'[i].attempts = code[i].attempts)
     \/ i \in Active /\ code'[i].status \in {"CONSUMED", "EXPIRED", "BLOCKED"}

LEMMA CodesSettle ==
  ASSUME IInv, \A i \in Codes : Settles(i),
         \A i \in Codes \ Born : compared'[i] = compared[i]
  PROVE  Births' /\ OneActive' /\ LastCodeStands' /\ Born' = Born
<1>1. Born' = Born /\ \A i \in Codes : i \in Active' => i \in Active
  BY DEF Settles, Born, Active
<1>2. \A i \in Codes \ Born : code'[i].attempts = code[i].attempts
  BY DEF Settles, Born, Active
<1>3. Births'
  BY <1>1, <1>2 DEF IInv, Births, Settles, Born
<1>4. OneActive'
  BY <1>1 DEF IInv, OneActive, Settles, Active
<1>5. \A i \in Codes : code'[i].status = "SUPERSEDED" => code[i].status = "SUPERSEDED"
  BY DEF Settles
<1>6. LastCodeStands'
  BY <1>1, <1>5 DEF IInv, LastCodeStands, Settles, Born
<1>. QED
  BY <1>1, <1>3, <1>4, <1>6

LEMMA CodesStand ==
  ASSUME IInv, UNCHANGED code, \A i \in Codes \ Born : compared'[i] = compared[i]
  PROVE  Births' /\ OneActive' /\ LastCodeStands' /\ Born' = Born /\ Active' = Active
<1>1. \A i \in Codes : Settles(i)
  BY DEF Settles
<1>. QED
  BY <1>1, CodesSettle DEF Active

LEMMA CarryingKept ==
  ASSUME IInv, NEW r \in Requests, NEW q, Moves(r, q), Carries(q),
         \A i \in Born : i \in Born' /\ code'[i].purpose = code[i].purpose
  PROVE  Carrying'
<1>1. ASSUME NEW s \in Requests PROVE Carries(req'[s])
  BY Moved DEF IInv, Carrying
<1>. QED
  BY <1>1 DEF Carrying, Carries, Holding, Answering, Resetting, Purposes, Codes

\* The locks others hold are theirs still.
LEMMA LocksKept ==
  ASSUME IInv, NEW r \in Requests, NEW q, Moves(r, q),
         \A i \in Codes : lock'[i] = r <=> Holds(q, i),
         \A i \in Codes : lock'[i] # r /\ lock[i] # r => lock'[i] = lock[i],
         \A i \in Codes : lock[i] # r /\ lock'[i] = r => lock[i] = None,
         \A i \in Codes : lock[i] = r /\ lock'[i] # r => lock'[i] = None,
         \A i \in Codes : lock'[i] # None => i \in Active'
  PROVE  Locks'
<1>1. ASSUME NEW i \in Codes, NEW s \in Requests PROVE lock'[i] = s <=> Holds(req'[s], i)
  <2>1. CASE s = r
    BY <2>1, Moved
  <2>2. CASE s # r
    <3>1. lock'[i] = s <=> lock[i] = s
      BY <2>2, ResetAssumption
    <3>. QED
      BY <2>2, <3>1, Moved DEF IInv, Locks
  <2>. QED
    BY <2>1, <2>2
<1>2. Locks' = /\ \A i \in Codes, s \in Requests : lock'[i] = s <=> Holds(req'[s], i)
               /\ \A i \in Codes : lock'[i] # None => i \in Active'
  BY DEF Locks, Holds
<1>. QED
  BY <1>1, <1>2

LEMMA LocksStand ==
  ASSUME IInv, NEW r \in Requests, NEW q, Moves(r, q), UNCHANGED lock,
         \A i \in Codes : Holds(req[r], i) <=> Holds(q, i),
         \A i \in Active : lock[i] # None => i \in Active'
  PROVE  Locks'
<1>1. \A i \in Codes : lock'[i] = r <=> Holds(q, i)
  BY DEF IInv, Locks
<1>2. \A i \in Codes : lock'[i] # None => i \in Active'
  BY DEF IInv, Locks
<1>. QED
  BY <1>1, <1>2, LocksKept

LEMMA AccountsStand ==
  ASSUME IInv, NEW r \in Requests, NEW q, Moves(r, q), UNCHANGED accountVars, Born' = Born,
         q.stage # "welcome", account = "none" => q.stage \in {"idle", "register"}
  PROVE  Accounts'
BY Moved DEF IInv, Accounts, accountVars, At

LEMMA TokensStand ==
  ASSUME IInv, NEW r \in Requests, NEW q, Moves(r, q), UNCHANGED token,
         \A i \in Codes : code[i].status = "CONSUMED" => code'[i].status = "CONSUMED",
         q.stage = "issue" => ActiveTokens \subseteq q.picked
  PROVE  Tokens'
<1>1. ActiveTokens' = ActiveTokens
  BY DEF ActiveTokens
<1>2. \A s \in Requests : req'[s].stage = "issue" => ActiveTokens \subseteq req'[s].picked
  BY Moved DEF IInv, Tokens, At
<1>. QED
  BY <1>1, <1>2 DEF IInv, Tokens, At

LEMMA UsesStand ==
  ASSUME IInv, NEW r \in Requests, NEW q, Moves(r, q), q.stage # "enter", UNCHANGED <<opened, spent, token>>,
         \A i \in Codes : code[i].status = "CONSUMED" => code'[i].status = "CONSUMED"
  PROVE  Uses'
<1>1. \A s \in Requests : req'[s].stage = "enter" => req'[s] = req[s] /\ req[s].code \in Codes
  BY Moved DEF IInv, Carrying, Carries, Answering, Born
<1>. QED
  BY <1>1 DEF IInv, Uses, At
-----------------------------------------------------------------------------
(* One lemma for each action.                                               *)

\* A step that takes no lock, gives nothing out and at most resolves or counts
\* at codes nobody has locked.
LEMMA SettleStep ==
  ASSUME IInv, NEW r \in Requests, NEW q \in Request, Moves(r, q),
         UNCHANGED <<accountVars, lock, token, spent, opened>>,
         faults' \in 0..MaxFaults, compared' \in [Codes -> Nat], code' \in [Codes -> Row],
         \A i \in Codes : Settles(i) /\ (code'[i].status = "CONSUMED" => code[i].status = "CONSUMED"),
         \A i \in Codes : lock[i] # None => code'[i].status = code[i].status,
         \A i \in Codes \ Born : compared'[i] = compared[i],
         Carries(q), \A i \in Codes : Holds(req[r], i) <=> Holds(q, i), q.stage \notin {"welcome", "enter"},
         account = "none" => q.stage \in {"idle", "register"}, q.stage = "issue" => ActiveTokens \subseteq q.picked
  PROVE  IInv'
<1>1. Births' /\ OneActive' /\ LastCodeStands' /\ Born' = Born
  BY CodesSettle
<1>2. Shapes'
  BY DEF IInv, Shapes, Moves, accountVars
<1>3. Carrying'
  BY <1>1, CarryingKept DEF Settles, Born
<1>4. \A i \in Active : lock[i] # None => i \in Active'
  BY DEF Active
<1>5. Locks'
  BY <1>4, LocksStand
<1>6. Accounts'
  BY <1>1, AccountsStand
<1>7. \A i \in Codes : code[i].status = "CONSUMED" => code'[i].status = "CONSUMED"
  BY DEF Settles, Active
<1>8. Tokens' /\ Uses'
  BY <1>7, TokensStand, UsesStand
<1>. QED
  BY <1>1, <1>2, <1>3, <1>5, <1>6, <1>8 DEF IInv

LEMMA QuietStep ==
  ASSUME IInv, NEW r \in Requests, NEW q \in Request, Moves(r, q),
         UNCHANGED <<accountVars, code, lock, token, spent, opened, faults>>,
         compared' \in [Codes -> Nat], \A i \in Codes \ Born : compared'[i] = compared[i],
         Carries(q), \A i \in Codes : Holds(req[r], i) <=> Holds(q, i), q.stage \notin {"welcome", "enter"},
         account = "none" => q.stage \in {"idle", "register"}, q.stage = "issue" => ActiveTokens \subseteq q.picked
  PROVE  IInv'
<1>1. faults' \in 0..MaxFaults /\ code' \in [Codes -> Row]
  BY DEF IInv, Shapes
<1>2. \A i \in Codes : Settles(i)
  BY DEF Settles
<1>. QED
  BY <1>1, <1>2, SettleStep

LEMMA RegisterReadsKeeps ==
  ASSUME IInv, NEW r \in Requests, RegisterReads(r)
  PROVE  IInv'
<1>. DEFINE q == [req[r] EXCEPT !.stage = "register"]
<1>1. Moves(r, q) /\ At(r, "idle") /\ UNCHANGED <<accountVars, code, lock, token, spent, opened, compared, faults>>
  BY GoesTo DEF RegisterReads
<1>2. q \in Request /\ q.stage = "register" /\ compared \in [Codes -> Nat]
  BY DEF IInv, Shapes, Request
<1>. HIDE DEF q
<1>3. Carries(q) /\ \A i \in Codes : Holds(req[r], i) <=> Holds(q, i)
  BY <1>1, <1>2 DEF Carries, Holds, Holding, Answering, Resetting, At
<1>. QED
  BY <1>1, <1>2, <1>3, QuietStep

LEMMA AskFindsKeeps ==
  ASSUME IInv, NEW r \in Requests, NEW purpose \in Purposes, AskFinds(r, purpose)
  PROVE  IInv'
<1>. DEFINE q == [req[r] EXCEPT !.stage = "due", !.purpose = purpose]
<1>1. /\ Moves(r, q) /\ At(r, "idle") /\ account # "none"
      /\ UNCHANGED <<accountVars, code, lock, token, spent, opened, compared, faults>>
  BY DEF AskFinds, Moves, IInv, Shapes, Request
<1>2. q \in Request /\ q.stage = "due" /\ q.purpose \in Purposes /\ compared \in [Codes -> Nat]
  BY DEF IInv, Shapes, Request
<1>. HIDE DEF q
<1>3. Carries(q) /\ \A i \in Codes : Holds(req[r], i) <=> Holds(q, i)
  BY <1>1, <1>2 DEF Carries, Holds, Holding, Answering, Resetting, At
<1>. QED
  BY <1>1, <1>2, <1>3, QuietStep

\* A request that has no lock ends.
LEMMA DoneStep ==
  ASSUME IInv, NEW r \in Requests, Done(r), req[r].stage \notin {"insert"} \cup Holding,
         UNCHANGED <<accountVars, code, lock, token, spent, opened, compared, faults>>
  PROVE  IInv'
<1>1. Moves(r, Idle) /\ compared \in [Codes -> Nat]
  BY DEF Done, Moves, IInv, Shapes
<1>2. \A i \in Codes : ~Holds(req[r], i)
  BY DEF Holds, Holding
<1>. QED
  BY <1>1, <1>2, IdleCarries, QuietStep

LEMMA AskReadsKeeps ==
  ASSUME IInv, NEW r \in Requests, AskReads(r)
  PROVE  IInv'
<1>. DEFINE q == [req[r] EXCEPT !.stage = "pick"]
<1>1. At(r, "due") /\ UNCHANGED <<accountVars, code, lock, token, spent, opened, compared, faults>>
  BY DEF AskReads
<1>2. CASE Done(r)
  BY <1>1, <1>2, DoneStep DEF At, Holding
<1>3. CASE Go(r, "pick")
  <2>1. Moves(r, q) /\ account # "none" /\ Carries(req[r])
    BY <1>1, <1>3, GoesTo DEF IInv, Accounts, Carrying, At
  <2>2. q \in Request /\ q.stage = "pick" /\ q.purpose = req[r].purpose /\ compared \in [Codes -> Nat]
    BY DEF IInv, Shapes, Request
  <2>. HIDE DEF q
  <2>3. Carries(q) /\ \A i \in Codes : Holds(req[r], i) <=> Holds(q, i)
    BY <1>1, <2>1, <2>2 DEF Carries, Holds, Holding, Answering, Resetting, At
  <2>. QED
    BY <1>1, <2>1, <2>2, <2>3, QuietStep
<1>. QED
  BY <1>2, <1>3 DEF AskReads

LEMMA RetirePicksKeeps ==
  ASSUME IInv, NEW r \in Requests, RetirePicks(r)
  PROVE  IInv'
<1>. DEFINE q == [req[r] EXCEPT !.picked = ActiveFor(req[r].purpose), !.stage = "retire"]
<1>1. At(r, "pick") /\ UNCHANGED <<accountVars, code, lock, token, spent, opened, compared, faults>> /\ Moves(r, q)
  BY DEF RetirePicks, Moves
<1>2. account # "none" /\ Carries(req[r])
  BY <1>1 DEF IInv, Accounts, Carrying, At
<1>3. \A i \in ActiveFor(req[r].purpose) : i \in Born /\ i \in Codes /\ code[i].purpose = req[r].purpose
  BY DEF ActiveFor, Active, Born
<1>4. /\ q \in Request /\ q.stage = "retire" /\ q.purpose = req[r].purpose
      /\ q.picked = ActiveFor(req[r].purpose) /\ compared \in [Codes -> Nat]
  BY <1>3 DEF IInv, Shapes, Request
<1>. HIDE DEF q
<1>5. Carries(q) /\ \A i \in Codes : Holds(req[r], i) <=> Holds(q, i)
  BY <1>1, <1>2, <1>3, <1>4 DEF Carries, Holds, Holding, Answering, Resetting, At
<1>. QED
  BY <1>1, <1>2, <1>4, <1>5, QuietStep

LEMMA AnswerPicksKeeps ==
  ASSUME IInv, NEW r \in Requests, AnswerPicks(r)
  PROVE  IInv'
<1>. DEFINE q == [req[r] EXCEPT !.picked = ActiveTokens, !.stage = "issue"]
<1>1. At(r, "supersede") /\ UNCHANGED <<accountVars, code, lock, token, spent, opened, compared, faults>> /\ Moves(r, q)
  BY DEF AnswerPicks, Moves
<1>2. account # "none" /\ Carries(req[r])
  BY <1>1 DEF IInv, Accounts, Carrying, At
<1>3. /\ q \in Request /\ q.stage = "issue" /\ q.code = req[r].code
      /\ q.picked = ActiveTokens /\ compared \in [Codes -> Nat]
  BY DEF IInv, Shapes, Request, ActiveTokens, Holding
<1>. HIDE DEF q
<1>4. Carries(q) /\ \A i \in Codes : Holds(req[r], i) <=> Holds(q, i)
  BY <1>1, <1>2, <1>3 DEF Carries, Holds, Holding, Answering, Resetting, At
<1>. QED
  BY <1>1, <1>2, <1>3, <1>4, QuietStep

LEMMA AnswerReadsKeeps ==
  ASSUME IInv, NEW r \in Requests, NEW i \in Codes, NEW right \in BOOLEAN, AnswerReads(r, i, right)
  PROVE  IInv'
<1>. DEFINE stage == IF code[i].age = "past" THEN "expire"
                     ELSE IF code[i].attempts >= MaxAttempts THEN "block"
                     ELSE IF right THEN "open" ELSE "count"
            q == [Idle EXCEPT !.stage = stage, !.code = i]
<1>1. At(r, "idle") /\ UNCHANGED <<accountVars, code, lock, token, spent, opened, faults>> /\ Moves(r, q) /\ i \in Active
  BY DEF AnswerReads, Moves
<1>2. i \in Born /\ account # "none"
  BY <1>1 DEF IInv, Accounts, Active, Born
<1>3. stage \in {"expire", "block", "open", "count"}
  OBVIOUS
<1>4. q \in Request /\ q.stage = stage /\ q.code = i
  BY <1>3 DEF Request, Idle, Answering
<1>5. compared' \in [Codes -> Nat] /\ \A j \in Codes \ Born : compared'[j] = compared[j]
  BY <1>2 DEF AnswerReads, IInv, Shapes
<1>. HIDE DEF q, stage
<1>6. Carries(q) /\ \A j \in Codes : Holds(req[r], j) <=> Holds(q, j)
  BY <1>1, <1>2, <1>3, <1>4 DEF Carries, Holds, Holding, Answering, Resetting, At
<1>. QED
  BY <1>1, <1>2, <1>3, <1>4, <1>5, <1>6, QuietStep

LEMMA ResetReadsKeeps ==
  ASSUME IInv, NEW r \in Requests, NEW i \in Codes, ResetReads(r, i)
  PROVE  IInv'
<1>. DEFINE stage == IF token[i].age = "past" THEN "outdate" ELSE "reset"
            q == [Idle EXCEPT !.stage = stage, !.code = i]
<1>1. /\ At(r, "idle") /\ UNCHANGED <<accountVars, code, lock, token, spent, opened, compared, faults>>
      /\ Moves(r, q) /\ token[i].status = "ACTIVE"
  BY DEF ResetReads, Moves
<1>2. account # "none" /\ compared \in [Codes -> Nat]
  BY <1>1 DEF IInv, Shapes, Accounts, Tokens, Born
<1>3. q \in Request /\ q.stage = stage /\ q.code = i /\ stage \in {"outdate", "reset"}
  BY DEF Request, Idle, Resetting
<1>. HIDE DEF q, stage
<1>4. Carries(q) /\ \A j \in Codes : Holds(req[r], j) <=> Holds(q, j)
  BY <1>1, <1>3 DEF Carries, Holds, Holding, Answering, Resetting, At
<1>. QED
  BY <1>1, <1>2, <1>3, <1>4, QuietStep

\* A statement on one code that is not locked.
LEMMA StatementStep ==
  ASSUME IInv, NEW r \in Requests, NEW i \in Codes, NEW q \in Request, Moves(r, q), Unlocked(i),
         req[r].stage \in Answering, Carries(q), q.stage \in {"idle", "check"},
         UNCHANGED <<accountVars, lock, token, spent, opened, compared, faults>>,
         code' \in [Codes -> Row], \A j \in Codes \ {i} : code'[j] = code[j], Settles(i),
         code'[i].status = "CONSUMED" => code[i].status = "CONSUMED"
  PROVE  IInv'
<1>1. \A j \in Codes : Settles(j) /\ (code'[j].status = "CONSUMED" => code[j].status = "CONSUMED")
  BY DEF Settles
<1>2. \A j \in Codes : lock[j] # None => code'[j].status = code[j].status
  BY DEF Unlocked
<1>3. \A j \in Codes : Holds(req[r], j) <=> Holds(q, j)
  BY DEF Holds, Holding, Answering
<1>4. faults \in 0..MaxFaults /\ compared \in [Codes -> Nat] /\ account # "none"
  BY DEF IInv, Shapes, Accounts, Answering
<1>. QED
  BY <1>1, <1>2, <1>3, <1>4, SettleStep

LEMMA ResolveSettles ==
  ASSUME IInv, NEW i \in Codes, NEW status \in {"EXPIRED", "BLOCKED"}, Resolve(i, status)
  PROVE  /\ code' \in [Codes -> Row] /\ (\A j \in Codes \ {i} : code'[j] = code[j]) /\ Settles(i)
         /\ code'[i].status = "CONSUMED" => code[i].status = "CONSUMED"
<1>. DEFINE row == IF code[i].status = "ACTIVE" THEN Resolving(code[i], status) ELSE code[i]
<1>1. code \in [Codes -> Row] /\ code' = [code EXCEPT ![i] = row]
  BY DEF IInv, Shapes, Resolve
<1>2. row \in Row /\ row.purpose = code[i].purpose /\ row.attempts = code[i].attempts
      /\ row.status = IF code[i].status = "ACTIVE" THEN status ELSE code[i].status
  BY <1>1 DEF Row, Resolving, Statuses, Resolved, Ages
<1>. HIDE DEF row
<1>. QED
  BY <1>1, <1>2 DEF Settles, Active

LEMMA AnswerResolvesKeeps ==
  ASSUME IInv, NEW r \in Requests, AnswerResolves(r)
  PROVE  IInv'
<1>. DEFINE i == req[r].code
<1>1. /\ req[r].stage \in Answering /\ Unlocked(i) /\ Moves(r, Idle)
      /\ UNCHANGED <<accountVars, lock, token, spent, opened, compared, faults>>
  BY DEF AnswerResolves, At, Answering, Done, Moves
<1>2. i \in Codes
  BY <1>1 DEF IInv, Carrying, Carries, Born
<1>3. PICK status \in {"EXPIRED", "BLOCKED"} : Resolve(i, status)
  BY DEF AnswerResolves
<1>. HIDE DEF i
<1>. QED
  BY <1>1, <1>2, <1>3, ResolveSettles, IdleCarries, StatementStep

LEMMA AnswerCountsKeeps ==
  ASSUME IInv, NEW r \in Requests, AnswerCounts(r)
  PROVE  IInv'
<1>. DEFINE i == req[r].code
            q == [req[r] EXCEPT !.stage = "check"]
            row == [code[i] EXCEPT !.attempts = IF i \in Active THEN AttemptsAfter(i) ELSE @]
<1>1. At(r, "count") /\ Unlocked(i) /\ Moves(r, q) /\ UNCHANGED <<accountVars, lock, token, spent, opened, compared, faults>>
  BY GoesTo DEF AnswerCounts
<1>2. Carries(req[r]) /\ i \in Codes /\ req[r].stage \in Answering
  BY <1>1 DEF IInv, Carrying, Carries, Born, At, Answering
<1>3. q \in Request /\ q.stage = "check" /\ q.code = i
  BY DEF IInv, Shapes, Request, Answering
<1>4. code \in [Codes -> Row] /\ code' = [code EXCEPT ![i] = row]
  BY <1>2 DEF IInv, Shapes, AnswerCounts, Row
<1>5. row \in Row /\ row.purpose = code[i].purpose /\ row.status = code[i].status
      /\ (i \notin Active => row.attempts = code[i].attempts)
  BY <1>2, <1>4 DEF Row, AttemptsAfter
<1>. HIDE DEF q, row
<1>6. Carries(q)
  BY <1>1, <1>2, <1>3 DEF Carries, Holding, Answering, Resetting, At
<1>. HIDE DEF i
<1>7. code' \in [Codes -> Row] /\ (\A j \in Codes \ {i} : code'[j] = code[j]) /\ code'[i] = row
  BY <1>2, <1>4, <1>5
<1>8. Settles(i) /\ code'[i].status = code[i].status
  BY <1>5, <1>7 DEF Settles
<1>. QED
  BY <1>1, <1>2, <1>3, <1>6, <1>7, <1>8, StatementStep

LEMMA AnswerChecksKeeps ==
  ASSUME IInv, NEW r \in Requests, AnswerChecks(r)
  PROVE  IInv'
<1>. DEFINE i == req[r].code
<1>1. At(r, "check") /\ Unlocked(i) /\ Moves(r, Idle) /\ UNCHANGED <<accountVars, lock, token, spent, opened, compared, faults>>
  BY DEF AnswerChecks, Done, Moves
<1>2. i \in Codes /\ req[r].stage \in Answering
  BY <1>1 DEF IInv, Carrying, Carries, Born, At, Answering
<1>3. CASE Resolve(i, "BLOCKED")
  <2>. HIDE DEF i
  <2>. QED
    BY <1>1, <1>2, <1>3, ResolveSettles, IdleCarries, StatementStep
<1>4. CASE UNCHANGED code
  <2>1. code' \in [Codes -> Row] /\ Settles(i)
    BY <1>4 DEF IInv, Shapes, Settles
  <2>. HIDE DEF i
  <2>. QED
    BY <1>1, <1>2, <1>4, <2>1, IdleCarries, StatementStep
<1>. QED
  BY <1>3, <1>4 DEF AnswerChecks

\* A step on the tokens and what they were used for, by a request without a lock.
LEMMA ResetStep ==
  ASSUME IInv, NEW r \in Requests, Done(r), req[r].stage \in Resetting, NEW i \in Codes,
         UNCHANGED <<accountVars, code, lock, opened, compared, faults>>,
         token' \in [Codes -> Token], \A j \in Codes \ {i} : token'[j] = token[j] /\ spent'[j] = spent[j],
         spent' \in [Codes -> Nat],
         \/ token'[i] = token[i] /\ spent'[i] = spent[i]
         \/ /\ token[i].status = "ACTIVE" /\ token'[i].status = "EXPIRED" /\ spent'[i] = spent[i]
         \/ /\ token[i].status = "ACTIVE" /\ token'[i].status = "CONSUMED" /\ spent'[i] = spent[i] + 1
  PROVE  IInv'
<1>1. Moves(r, Idle) /\ Idle.stage = "idle"
  BY IdleCarries DEF Done, Moves
<1>2. Births' /\ OneActive' /\ LastCodeStands' /\ Born' = Born /\ Active' = Active
  BY CodesStand
<1>3. Shapes'
  BY <1>1, IdleCarries DEF IInv, Shapes, Moves, accountVars
<1>4. Carrying'
  BY <1>1, <1>2, IdleCarries, CarryingKept
<1>5. \A j \in Codes : Holds(req[r], j) <=> Holds(Idle, j)
  BY IdleCarries DEF Holds, Holding, Resetting
<1>6. Locks'
  BY <1>1, <1>2, <1>5, LocksStand
<1>7. Accounts'
  BY <1>1, <1>2, AccountsStand
<1>8. \A j \in Codes :
        /\ token'[j].status = "unborn" <=> token[j].status = "unborn"
        /\ token'[j].status = "ACTIVE" => token[j].status = "ACTIVE"
        /\ \/ spent'[j] = spent[j]
           \/ token[j].status = "ACTIVE" /\ spent'[j] = spent[j] + 1 /\ token'[j].status = "CONSUMED"
  <2>. TAKE j \in Codes
  <2>1. CASE j = i
    BY <2>1
  <2>2. CASE j # i
    BY <2>2
  <2>. QED
    BY <2>1, <2>2
<1>9. Tokens'
  <2>1. ActiveTokens' \subseteq ActiveTokens
    BY <1>8 DEF ActiveTokens
  <2>2. \A s \in Requests : req'[s].stage = "issue" => req'[s] = req[s]
    BY <1>1, Moved
  <2>3. \A s \in Requests : req'[s].stage = "issue" => ActiveTokens' \subseteq req'[s].picked
    BY <2>1, <2>2 DEF IInv, Tokens, At
  <2>4. \A j, k \in ActiveTokens' : j = k
    BY <2>1 DEF IInv, Tokens
  <2>. QED
    BY <1>8, <2>3, <2>4 DEF IInv, Tokens, At
<1>10. Uses'
  <2>1. \A s \in Requests : req'[s].stage = "enter" => req'[s] = req[s]
    BY <1>1, Moved
  <2>2. \A j \in Codes : spent'[j] <= 1 /\ (token'[j].status \in {"unborn", "ACTIVE"} => spent'[j] = 0)
    BY <1>8 DEF IInv, Uses, Shapes
  <2>. QED
    BY <2>1, <2>2 DEF IInv, Uses, At
<1>. QED
  BY <1>2, <1>3, <1>4, <1>6, <1>7, <1>9, <1>10 DEF IInv

LEMMA ResettingCode ==
  ASSUME IInv, NEW r \in Requests, req[r].stage \in Resetting
  PROVE  req[r].code \in Codes
BY DEF IInv, Carrying, Carries

LEMMA TokenResolves ==
  ASSUME IInv, NEW i \in Codes, NEW status \in {"EXPIRED", "CONSUMED", "SUPERSEDED"}
  PROVE  Resolving(token[i], status) \in Token /\ Resolving(token[i], status).status = status
BY DEF IInv, Shapes, Token, Resolving, Statuses, Resolved, Ages

LEMMA ResetExpiresKeeps ==
  ASSUME IInv, NEW r \in Requests, ResetExpires(r)
  PROVE  IInv'
<1>. DEFINE i == req[r].code
            row == IF token[i].status = "ACTIVE" THEN Resolving(token[i], "EXPIRED") ELSE token[i]
<1>1. Done(r) /\ req[r].stage \in Resetting /\ UNCHANGED <<accountVars, code, lock, spent, opened, compared, faults>>
  BY DEF ResetExpires, At, Resetting
<1>2. i \in Codes /\ token \in [Codes -> Token] /\ spent' \in [Codes -> Nat]
  BY <1>1, ResettingCode DEF IInv, Shapes
<1>3. token' = [token EXCEPT ![i] = row]
  BY <1>2 DEF ResetExpires
<1>4. Resolving(token[i], "EXPIRED") \in Token /\ Resolving(token[i], "EXPIRED").status = "EXPIRED"
  BY <1>2, TokenResolves
<1>5. row \in Token /\ (row = token[i] \/ (token[i].status = "ACTIVE" /\ row.status = "EXPIRED"))
  BY <1>2, <1>4
<1>. HIDE DEF i, row
<1>. QED
  BY <1>1, <1>2, <1>3, <1>5, ResetStep

LEMMA ResetCommitsKeeps ==
  ASSUME IInv, NEW r \in Requests, ResetCommits(r)
  PROVE  IInv'
<1>. DEFINE i == req[r].code
            row == Resolving(token[i], "CONSUMED")
<1>1. Done(r) /\ req[r].stage \in Resetting /\ UNCHANGED <<accountVars, code, lock, opened, compared, faults>>
  BY DEF ResetCommits, At, Resetting
<1>2. i \in Codes /\ token \in [Codes -> Token] /\ spent \in [Codes -> Nat]
  BY <1>1, ResettingCode DEF IInv, Shapes
<1>3. row \in Token /\ row.status = "CONSUMED"
  BY <1>2, TokenResolves
<1>4. \/ token[i].status = "ACTIVE" /\ token' = [token EXCEPT ![i] = row] /\ spent' = [spent EXCEPT ![i] = spent[i] + 1]
      \/ UNCHANGED <<token, spent>>
  BY DEF ResetCommits, StillSpendable
<1>. HIDE DEF i, row
<1>. QED
  BY <1>1, <1>2, <1>3, <1>4, ResetStep

\* A request that had no lock takes those of its new place, of ACTIVE codes
\* that nobody held.
LEMMA LockStep ==
  ASSUME IInv, NEW r \in Requests, NEW q \in Request, Moves(r, q), Carries(q),
         UNCHANGED <<accountVars, code, token, spent, opened, compared, faults>>,
         req[r].stage \in {"open", "retire"}, q.stage \in {"prove", "supersede", "insert"},
         \A i \in Codes : Holds(q, i) => i \in Active /\ lock[i] = None,
         lock' = [i \in Codes |-> IF Holds(q, i) THEN r ELSE lock[i]]
  PROVE  IInv'
<1>1. Births' /\ OneActive' /\ LastCodeStands' /\ Born' = Born /\ Active' = Active
  BY CodesStand
<1>2. Shapes'
  BY DEF IInv, Shapes, Moves, accountVars
<1>3. Carrying'
  BY <1>1, CarryingKept
<1>4. \A i \in Codes : lock[i] # r
  BY DEF IInv, Locks, Holds, Holding
<1>5. \A i \in Codes : lock'[i] = IF Holds(q, i) THEN r ELSE lock[i]
  OBVIOUS
<1>6. /\ \A i \in Codes : lock'[i] = r <=> Holds(q, i)
      /\ \A i \in Codes : lock'[i] # r /\ lock[i] # r => lock'[i] = lock[i]
      /\ \A i \in Codes : lock[i] # r /\ lock'[i] = r => lock[i] = None
      /\ \A i \in Codes : lock[i] = r /\ lock'[i] # r => lock'[i] = None
  BY <1>4, <1>5
<1>7. \A i \in Codes : lock'[i] # None => i \in Active'
  BY <1>1, <1>5 DEF IInv, Locks
<1>8. Locks'
  BY <1>6, <1>7, LocksKept
<1>9. Accounts'
  BY <1>1, AccountsStand DEF IInv, Accounts
<1>10. Tokens' /\ Uses'
  BY TokensStand, UsesStand
<1>. QED
  BY <1>1, <1>2, <1>3, <1>8, <1>9, <1>10 DEF IInv

LEMMA RetireLocksKeeps ==
  ASSUME IInv, NEW r \in Requests, RetireLocks(r)
  PROVE  IInv'
<1>. DEFINE still == req[r].picked \cap Active
            q == [req[r] EXCEPT !.picked = still, !.stage = "insert"]
<1>1. /\ At(r, "retire") /\ Moves(r, q) /\ \A i \in req[r].picked : Unlocked(i)
      /\ lock' = [i \in Codes |-> IF i \in still THEN r ELSE lock[i]]
      /\ UNCHANGED <<accountVars, code, token, spent, opened, compared, faults>>
  BY DEF RetireLocks, Moves
<1>2. Carries(req[r]) /\ req[r].stage = "retire"
  BY <1>1 DEF IInv, Carrying, At
<1>3. q \in Request /\ q.stage = "insert" /\ q.picked = still /\ q.purpose = req[r].purpose
  BY DEF IInv, Shapes, Request
<1>. HIDE DEF q
<1>4. Carries(q)
  BY <1>2, <1>3 DEF Carries, Holding, Answering, Resetting
<1>5. \A i \in Codes : Holds(q, i) <=> i \in still
  BY <1>3 DEF Holds, Holding
<1>6. \A i \in Codes : Holds(q, i) => i \in Active /\ lock[i] = None
  BY <1>1, <1>5 DEF Unlocked
<1>7. lock' = [i \in Codes |-> IF Holds(q, i) THEN r ELSE lock[i]]
  BY <1>1, <1>5
<1>. QED
  BY <1>1, <1>2, <1>3, <1>4, <1>6, <1>7, LockStep

LEMMA AnswerConsumesKeeps ==
  ASSUME IInv, NEW r \in Requests, AnswerConsumes(r)
  PROVE  IInv'
<1>. DEFINE i == req[r].code
            stage == IF code[i].purpose = "reset" THEN "supersede" ELSE "prove"
            q == [req[r] EXCEPT !.stage = stage]
<1>1. At(r, "open") /\ Unlocked(i) /\ UNCHANGED <<accountVars, code, token, spent, opened, compared, faults>>
  BY DEF AnswerConsumes
<1>2. Carries(req[r]) /\ i \in Born /\ i \in Codes
  BY <1>1 DEF IInv, Carrying, Carries, Born, At, Answering
<1>3. CASE StillAnswerable(i) /\ lock' = [lock EXCEPT ![i] = r] /\ Go(r, stage)
  <2>1. Moves(r, q)
    BY <1>3, GoesTo
  <2>2. q \in Request /\ q.stage = stage /\ q.code = i /\ q.stage \in {"prove", "supersede"}
    BY DEF IInv, Shapes, Request, Holding
  <2>. HIDE DEF q
  <2>3. Carries(q)
    BY <1>2, <2>2 DEF Carries, Holding, Answering, Resetting
  <2>. HIDE DEF i, stage
  <2>4. \A j \in Codes : Holds(q, j) <=> j = i
    BY <2>2 DEF Holds, Holding
  <2>5. i \in Active
    BY <1>2, <1>3 DEF StillAnswerable, Active
  <2>6. lock' = [j \in Codes |-> IF j = i THEN r ELSE lock[j]]
    BY <1>2, <1>3 DEF IInv, Shapes
  <2>7. lock' = [j \in Codes |-> IF Holds(q, j) THEN r ELSE lock[j]]
    BY <2>4, <2>6
  <2>8. \A j \in Codes : Holds(q, j) => j \in Active /\ lock[j] = None
    BY <1>1, <2>4, <2>5 DEF Unlocked
  <2>. QED
    BY <1>1, <2>1, <2>2, <2>3, <2>7, <2>8, LockStep DEF At
<1>4. CASE UNCHANGED lock /\ Done(r)
  BY <1>1, <1>4, DoneStep DEF At, Holding
<1>. QED
  BY <1>3, <1>4 DEF AnswerConsumes

\* The claim of the address, and the failure of a claim.
LEMMA RegisterInsertsKeeps ==
  ASSUME IInv, NEW r \in Requests, RegisterInserts(r)
  PROVE  IInv'
<1>. DEFINE q == [req[r] EXCEPT !.stage = "welcome"]
<1>1. /\ At(r, "register") /\ claimant = None
      /\ UNCHANGED <<account, registered, code, lock, token, spent, opened, compared, faults>>
  BY DEF RegisterInserts
<1>2. CASE account = "none" /\ claimant' = r /\ Go(r, "welcome")
  <2>1. Moves(r, q)
    BY <1>2, GoesTo
  <2>2. q \in Request /\ q.stage = "welcome"
    BY DEF IInv, Shapes, Request
  <2>. HIDE DEF q
  <2>3. Carries(q) /\ \A i \in Codes : Holds(req[r], i) <=> Holds(q, i)
    BY <1>1, <2>2 DEF Carries, Holds, Holding, Answering, Resetting, At
  <2>4. Births' /\ OneActive' /\ LastCodeStands' /\ Born' = Born /\ Active' = Active
    BY <1>1, CodesStand
  <2>5. Shapes'
    BY <1>1, <1>2, <2>1, <2>2 DEF IInv, Shapes, Moves
  <2>6. Carrying' /\ Locks'
    BY <1>1, <2>1, <2>3, <2>4, CarryingKept, LocksStand
  <2>7. \A s \in Requests : ~At(s, "welcome")
    BY <1>1, ResetAssumption DEF IInv, Accounts
  <2>8. Accounts'
    BY <1>1, <1>2, <2>1, <2>2, <2>4, <2>7, Moved DEF IInv, Accounts, At
  <2>9. Tokens' /\ Uses'
    BY <1>1, <2>1, <2>2, TokensStand, UsesStand
  <2>. QED
    BY <2>4, <2>5, <2>6, <2>8, <2>9 DEF IInv
<1>3. CASE UNCHANGED claimant /\ Done(r)
  BY <1>1, <1>3, DoneStep DEF At, Holding, accountVars
<1>. QED
  BY <1>2, <1>3 DEF RegisterInserts
-----------------------------------------------------------------------------
(* The birth of a code.                                                     *)

\* The codes born are as many as the last of them says.
LEMMA BornAreFirst ==
  ASSUME IInv
  PROVE  Born = 1..Cardinality(Born) /\ Cardinality(Born) \in Nat
<1>. DEFINE n == Cardinality(Born)
<1>1. MaxCodes \in Nat /\ Born \subseteq Codes /\ Codes = 1..MaxCodes
  BY ResetAssumption DEF Born, Codes
<1>2. IsFiniteSet(Born) /\ n \in Nat
  <2>1. IsFiniteSet(1..MaxCodes)
    BY <1>1, FS_Interval
  <2>2. IsFiniteSet(Born)
    BY <1>1, <2>1, FS_Subset
  <2>. QED
    BY <2>2, FS_CardinalityType
<1>3. \A i \in Born : i <= n
  <2>. TAKE i \in Born
  <2>1. 1..i \subseteq Born /\ i \in Nat /\ i >= 1
    BY <1>1 DEF IInv, Births
  <2>2. Cardinality(1..i) = i /\ Cardinality(1..i) <= n
    BY <1>2, <2>1, FS_Interval, FS_Subset
  <2>. QED
    BY <2>2
<1>4. Born \subseteq 1..n
  BY <1>1, <1>3
<1>5. IsFiniteSet(1..n) /\ Cardinality(1..n) = n
  BY <1>2, FS_Interval
<1>. QED
  BY <1>2, <1>4, <1>5, FS_Subset

\* The next code is ACTIVE, and those of its purpose that were are resolved.
Follows(n, purpose, old, i) ==
  IF i = n THEN code'[i] = [code[i] EXCEPT !.status = "ACTIVE", !.purpose = purpose]
  ELSE IF i \in old THEN code'[i] = Resolving(code[i], Retired(i))
  ELSE code'[i] = code[i]

LEMMA CodeBorn ==
  ASSUME IInv, NEW purpose \in Purposes, NEW old \in SUBSET Codes, old = ActiveFor(purpose),
         NEW n \in Codes, n = Cardinality(Born) + 1,
         DOMAIN code' = Codes, code' = [i \in Codes |-> code'[i]],
         \A i \in Codes : Follows(n, purpose, old, i), UNCHANGED compared
  PROVE  /\ code' \in [Codes -> Row] /\ Births' /\ OneActive' /\ LastCodeStands'
         /\ n \notin Born /\ Born' = Born \cup {n} /\ Active' = (Active \ old) \cup {n}
         /\ \A i \in Born : code'[i].purpose = code[i].purpose
         /\ \A i \in Codes : code'[i].status = "CONSUMED" <=> code[i].status = "CONSUMED"
<1>1. code \in [Codes -> Row] /\ n \in Nat /\ Codes \subseteq Nat
  BY ResetAssumption DEF IInv, Shapes, Codes
<1>2. n \notin Born /\ \A i \in Codes : i \in Born <=> i < n
  BY <1>1, BornAreFirst DEF Codes
<1>3. \A i \in old : i \in Active /\ i \in Born /\ code[i].purpose = purpose
  BY DEF ActiveFor, Active, Born
<1>4. code'[n] \in Row /\ code'[n].status = "ACTIVE" /\ code'[n].purpose = purpose /\ code'[n].attempts = code[n].attempts
  <2>1. code'[n] = [code[n] EXCEPT !.status = "ACTIVE", !.purpose = purpose]
    BY DEF Follows
  <2>2. code[n] \in Row
    BY <1>1
  <2>. QED
    BY <2>1, <2>2 DEF Row, Statuses
<1>5. ASSUME NEW i \in old
      PROVE  /\ code'[i] \in Row /\ code'[i].status \in {"EXPIRED", "SUPERSEDED"}
             /\ code'[i].purpose = purpose /\ code'[i].attempts = code[i].attempts
  <2>1. code'[i] = Resolving(code[i], Retired(i))
    BY <1>2, <1>3 DEF Follows
  <2>2. code[i] \in Row /\ Retired(i) \in {"EXPIRED", "SUPERSEDED"}
    BY <1>1 DEF Retired
  <2>. HIDE DEF Retired
  <2>. QED
    BY <1>3, <2>1, <2>2 DEF Resolving, Row, Statuses, Resolved, Ages
<1>6. \A i \in Codes : i # n /\ i \notin old => code'[i] = code[i]
  BY DEF Follows
<1>7. code' \in [Codes -> Row]
  BY <1>1, <1>4, <1>5, <1>6
<1>8. Born' = Born \cup {n}
  <2>1. \A i \in Codes : code'[i].status # "unborn" <=> i \in Born \/ i = n
    BY <1>3, <1>4, <1>5, <1>6 DEF Born
  <2>. QED
    BY <2>1 DEF Born
<1>9. Active' = (Active \ old) \cup {n}
  BY <1>2, <1>4, <1>5, <1>6 DEF Active
<1>10. \A i \in Born : code'[i].purpose = code[i].purpose
  BY <1>2, <1>3, <1>5, <1>6 DEF Born
<1>11. Births'
  <2>1. \A i \in Born', j \in Codes : j <= i => j \in Born'
    <3>1. \A i \in Codes : i \in Born' <=> i <= n
      BY <1>1, <1>2, <1>8
    <3>2. Born' \subseteq Codes
      BY <1>8 DEF Born
    <3>. QED
      BY <1>1, <3>1, <3>2
  <2>2. \A i \in Born' : code'[i].purpose \in Purposes
    BY <1>4, <1>8, <1>10 DEF IInv, Births
  <2>3. \A i \in Codes \ Born' : code'[i].attempts = 0 /\ compared'[i] = 0
    BY <1>3, <1>6, <1>8 DEF IInv, Births
  <2>. QED
    BY <2>1, <2>2, <2>3 DEF Births, Purposes
<1>12. OneActive'
  <2>. SUFFICES ASSUME NEW i \in Active', NEW j \in Active', code'[i].purpose = code'[j].purpose PROVE i = j
    BY DEF OneActive
  <2>1. \A k \in Active \ old : k \in Born /\ code[k].purpose # purpose /\ code'[k].purpose = code[k].purpose
    BY <1>10 DEF Active, Born, ActiveFor
  <2>. QED
    BY <1>4, <1>9, <2>1 DEF IInv, OneActive
<1>13. LastCodeStands'
  <2>. SUFFICES ASSUME NEW i \in Born', code'[i].status = "SUPERSEDED"
                PROVE  \E j \in Born' : j > i /\ code'[j].purpose = code'[i].purpose
    BY DEF LastCodeStands
  <2>1. CASE i \in old
    BY <1>1, <1>2, <1>3, <1>4, <1>5, <1>8, <2>1
  <2>2. CASE i \notin old
    <3>1. i \in Born /\ code[i].status = "SUPERSEDED"
      BY <1>4, <1>6, <1>8, <2>2 DEF Born
    <3>2. PICK j \in Born : j > i /\ code[j].purpose = code[i].purpose
      BY <3>1 DEF IInv, LastCodeStands
    <3>. QED
      BY <1>8, <1>10, <3>1, <3>2
  <2>. QED
    BY <2>1, <2>2
<1>14. \A i \in Codes : code'[i].status = "CONSUMED" <=> code[i].status = "CONSUMED"
  BY <1>2, <1>3, <1>4, <1>5, <1>6 DEF Active, Born
<1>. QED
  BY <1>2, <1>7, <1>8, <1>9, <1>10, <1>11, <1>12, <1>13, <1>14

LEMMA RegisterCommitsKeeps ==
  ASSUME IInv, NEW r \in Requests, RegisterCommits(r)
  PROVE  IInv'
<1>. DEFINE n == Cardinality(Born) + 1
<1>1. /\ At(r, "welcome") /\ n <= MaxCodes /\ account' = "unverified" /\ claimant' = None
      /\ registered' = registered + 1 /\ Moves(r, Idle)
      /\ UNCHANGED <<lock, token, spent, opened, compared, faults>>
      /\ code' = [code EXCEPT ![n].status = "ACTIVE", ![n].purpose = "verification"]
  BY DEF RegisterCommits, Done, Moves
<1>2. account = "none" /\ registered = 0 /\ Born = {} /\ claimant = r
  BY <1>1, ResetAssumption DEF IInv, Accounts
<1>3. n \in Codes /\ code \in [Codes -> Row]
  BY <1>1, BornAreFirst, ResetAssumption DEF Codes, IInv, Shapes
<1>4. ActiveFor("verification") = {} /\ "verification" \in Purposes
  BY <1>2 DEF ActiveFor, Active, Born, Purposes
<1>5. \A i \in Codes : Follows(n, "verification", {}, i)
  BY <1>1, <1>3 DEF Follows, Row
<1>6. DOMAIN code' = Codes /\ code' = [i \in Codes |-> code'[i]]
  BY <1>1, <1>3
<1>. HIDE DEF n
<1>7. /\ code' \in [Codes -> Row] /\ Births' /\ OneActive' /\ LastCodeStands'
      /\ \A i \in Born : i \in Born' /\ code'[i].purpose = code[i].purpose
      /\ \A i \in Codes : code'[i].status = "CONSUMED" <=> code[i].status = "CONSUMED"
      /\ \A i \in Active : i \in Active'
  <2>1. n = Cardinality(Born) + 1 /\ {} \in SUBSET Codes /\ UNCHANGED compared
    BY <1>1 DEF n
  <2>. QED
    BY <1>3, <1>4, <1>5, <1>6, <2>1, CodeBorn
<1>8. Shapes'
  BY <1>1, <1>7, IdleCarries DEF IInv, Shapes, Moves
<1>9. \A i \in Codes : ~Holds(req[r], i)
  BY <1>1 DEF Holds, Holding, At
<1>10. Carrying' /\ Locks'
  BY <1>1, <1>7, <1>9, IdleCarries, CarryingKept, LocksStand
<1>11. \A s \in Requests : ~(req'[s].stage = "welcome")
  BY <1>1, <1>2, IdleCarries, Moved DEF IInv, Accounts, At
<1>12. Accounts'
  BY <1>1, <1>2, <1>11 DEF Accounts, At
<1>13. Tokens' /\ Uses'
  BY <1>1, <1>7, IdleCarries, TokensStand, UsesStand
<1>. QED
  BY <1>7, <1>8, <1>10, <1>12, <1>13 DEF IInv

\* A transaction ends, its locks with it.
Releases(r) == lock' = [i \in Codes |-> IF lock[i] = r THEN None ELSE lock[i]]

LEMMA ReleaseStep ==
  ASSUME IInv, NEW r \in Requests, NEW q, Moves(r, q), Releases(r),
         \A i \in Codes : ~Holds(q, i),
         \A i \in Active : lock[i] # None /\ lock[i] # r => i \in Active'
  PROVE  Locks' /\ lock' \in [Codes -> Requests \cup {None}]
<1>1. \A i \in Codes : lock'[i] = IF lock[i] = r THEN None ELSE lock[i]
  BY DEF Releases
<1>2. /\ \A i \in Codes : lock'[i] # r
      /\ \A i \in Codes : lock'[i] # r /\ lock[i] # r => lock'[i] = lock[i]
      /\ \A i \in Codes : lock[i] = r /\ lock'[i] # r => lock'[i] = None
  BY <1>1, ResetAssumption
<1>3. \A i \in Codes : lock'[i] # None => i \in Active'
  BY <1>1 DEF IInv, Locks
<1>4. Locks'
  BY <1>2, <1>3, LocksKept
<1>. QED
  BY <1>4 DEF IInv, Shapes, Releases

LEMMA FailKeeps ==
  ASSUME IInv, NEW r \in Requests, Fail(r)
  PROVE  IInv'
<1>1. /\ Moves(r, Idle) /\ Releases(r) /\ faults < MaxFaults /\ faults' = faults + 1
      /\ claimant' = (IF claimant = r THEN None ELSE claimant)
      /\ UNCHANGED <<account, registered, code, token, spent, opened, compared>>
  BY DEF Fail, Done, Moves, Releases
<1>2. Births' /\ OneActive' /\ LastCodeStands' /\ Born' = Born /\ Active' = Active
  BY <1>1, CodesStand
<1>3. Locks' /\ lock' \in [Codes -> Requests \cup {None}]
  BY <1>1, <1>2, IdleCarries, ReleaseStep
<1>4. Shapes'
  BY <1>1, <1>3, IdleCarries, ResetAssumption DEF IInv, Shapes, Moves
<1>5. Carrying'
  BY <1>1, <1>2, IdleCarries, CarryingKept
<1>6. Accounts'
  <2>1. \A s \in Requests : req'[s].stage = "welcome" => s # r /\ req[s].stage = "welcome" /\ claimant' = s
    BY <1>1, IdleCarries, Moved DEF IInv, Accounts, At
  <2>2. \A s \in Requests : req'[s] = req[s] \/ req'[s].stage = "idle"
    BY <1>1, IdleCarries, Moved
  <2>. QED
    BY <1>1, <1>2, <2>1, <2>2, ResetAssumption DEF IInv, Accounts, At
<1>7. Tokens' /\ Uses'
  BY <1>1, IdleCarries, TokensStand, UsesStand
<1>. QED
  BY <1>2, <1>3, <1>4, <1>5, <1>6, <1>7 DEF IInv

LEMMA AskCommitsKeeps ==
  ASSUME IInv, NEW r \in Requests, AskCommits(r)
  PROVE  IInv'
<1>. DEFINE n == Cardinality(Born) + 1
            purpose == req[r].purpose
            old == req[r].picked
<1>1. /\ At(r, "insert") /\ Moves(r, Idle) /\ Releases(r)
      /\ UNCHANGED <<accountVars, token, spent, opened, compared, faults>>
  BY DEF AskCommits, Done, Moves, Releases
<1>2. Carries(req[r]) /\ purpose \in Purposes /\ account # "none" /\ code \in [Codes -> Row] /\ old \subseteq Codes
  BY <1>1 DEF IInv, Shapes, Request, Carrying, Carries, Accounts, At
<1>3. \A i \in old : i \in Active /\ lock[i] = r /\ code[i].purpose = purpose
  <2>1. \A i \in old : lock[i] = r
    BY <1>1, <1>2 DEF IInv, Locks, Holds, At
  <2>. QED
    BY <1>1, <1>2, <2>1, ResetAssumption DEF IInv, Locks, Carries, At
<1>4. /\ code' \in [Codes -> Row] /\ Births' /\ OneActive' /\ LastCodeStands'
      /\ \A i \in Born : i \in Born' /\ code'[i].purpose = code[i].purpose
      /\ \A i \in Codes : code'[i].status = "CONSUMED" <=> code[i].status = "CONSUMED"
      /\ \A i \in Active : i \notin old => i \in Active'
  <2>1. CASE UNCHANGED code
    BY <1>1, <1>2, <2>1, CodesStand
  <2>2. n <= MaxCodes <=> ~(n > MaxCodes)
    BY BornAreFirst, ResetAssumption
  <2>3. CASE InTheWay(r) = {} /\ n <= MaxCodes
    <3>1. ActiveFor(purpose) = old
      BY <1>2, <1>3, <2>3 DEF InTheWay, ActiveFor, Active
    <3>2. n \in Codes
      BY <2>3, BornAreFirst, ResetAssumption DEF Codes
    <3>3. code' = [i \in Codes |->
            IF i = n THEN [code[i] EXCEPT !.status = "ACTIVE", !.purpose = purpose]
            ELSE IF i \in old THEN Resolving(code[i], Retired(i)) ELSE code[i]]
      BY <2>2, <2>3 DEF AskCommits
    <3>. HIDE DEF n, purpose, old
    <3>4. \A i \in Codes : Follows(n, purpose, old, i)
      BY <3>3 DEF Follows
    <3>5. DOMAIN code' = Codes /\ code' = [i \in Codes |-> code'[i]]
      BY <3>3
    <3>. QED
      BY <1>1, <1>2, <3>1, <3>2, <3>4, <3>5, CodeBorn DEF n
  <2>. QED
    BY <2>1, <2>2, <2>3 DEF AskCommits
<1>. HIDE DEF n, purpose
<1>5. Locks' /\ lock' \in [Codes -> Requests \cup {None}]
  BY <1>1, <1>3, <1>4, IdleCarries, ReleaseStep
<1>6. Shapes'
  BY <1>1, <1>4, <1>5, IdleCarries DEF IInv, Shapes, Moves, accountVars
<1>7. Carrying'
  BY <1>1, <1>4, IdleCarries, CarryingKept
<1>8. Accounts'
  BY <1>1, <1>2, IdleCarries, Moved DEF IInv, Accounts, accountVars, At
<1>9. Tokens' /\ Uses'
  BY <1>1, <1>4, IdleCarries, TokensStand, UsesStand
<1>. QED
  BY <1>4, <1>5, <1>6, <1>7, <1>8, <1>9 DEF IInv
-----------------------------------------------------------------------------
(* A code is answered.                                                      *)

\* The code of a request that holds it is resolved, and it holds no other.
LEMMA HeldCode ==
  ASSUME IInv, NEW r \in Requests, req[r].stage \in Holding
  PROVE  /\ req[r].code \in Active /\ req[r].code \in Born /\ req[r].code \in Codes /\ account # "none"
         /\ \A j \in Codes : lock[j] = r <=> j = req[r].code
<1>1. Carries(req[r]) /\ req[r].code \in Born /\ req[r].code \in Codes /\ account # "none"
  BY DEF IInv, Carrying, Carries, Born, Accounts, Holding
<1>2. \A j \in Codes : lock[j] = r <=> j = req[r].code
  BY DEF IInv, Locks, Holds, Holding
<1>3. req[r].code \in Active
  BY <1>1, <1>2, ResetAssumption DEF IInv, Locks
<1>. QED
  BY <1>1, <1>2, <1>3

LEMMA ConsumeStep ==
  ASSUME IInv, NEW r \in Requests, NEW q \in Request, Moves(r, q), req[r].stage \in Holding,
         NEW i, i = req[r].code, NEW row, row = Resolving(code[i], "CONSUMED"),
         q.stage \in {"idle", "enter"}, Carries(q), account' = "verified",
         UNCHANGED <<claimant, registered, compared, faults>>,
         code' = [code EXCEPT ![i] = row], lock' = [lock EXCEPT ![i] = None]
  PROVE  /\ code' \in [Codes -> Row] /\ Births' /\ OneActive' /\ LastCodeStands' /\ Carrying' /\ Locks' /\ Accounts'
         /\ lock' \in [Codes -> Requests \cup {None}] /\ req' \in [Requests -> Request]
         /\ \A j \in Codes : code'[j].status = "CONSUMED" <=> code[j].status = "CONSUMED" \/ j = i
<1>1. i \in Active /\ i \in Born /\ i \in Codes /\ account # "none" /\ \A j \in Codes : lock[j] = r <=> j = i
  BY HeldCode
<1>2. code \in [Codes -> Row] /\ lock \in [Codes -> Requests \cup {None}]
  BY DEF IInv, Shapes
<1>3. row \in Row /\ row.status = "CONSUMED" /\ row.purpose = code[i].purpose
  <2>1. code[i] \in Row
    BY <1>1, <1>2
  <2>2. row = [code[i] EXCEPT !.status = "CONSUMED", !.age = "past"]
    BY DEF Resolving
  <2>. QED
    BY <2>1, <2>2 DEF Row, Statuses, Resolved, Ages
<1>4. code' \in [Codes -> Row] /\ code'[i] = row /\ \A j \in Codes : j # i => code'[j] = code[j]
  BY <1>1, <1>2, <1>3
<1>5. \A j \in Codes : Settles(j)
  BY <1>1, <1>3, <1>4 DEF Settles
<1>6. Births' /\ OneActive' /\ LastCodeStands' /\ Born' = Born
  BY <1>5, CodesSettle
<1>7. Carrying'
  BY <1>5, <1>6, CarryingKept DEF Settles, Born
<1>8. Releases(r)
  BY <1>1, <1>2 DEF Releases
<1>9. \A j \in Codes : ~Holds(q, j)
  BY DEF Holds, Holding
<1>10. \A j \in Active : lock[j] # None /\ lock[j] # r => j \in Active'
  BY <1>1, <1>4 DEF Active
<1>11. Locks' /\ lock' \in [Codes -> Requests \cup {None}]
  BY <1>8, <1>9, <1>10, ReleaseStep
<1>12. Accounts'
  BY <1>1, Moved DEF IInv, Accounts, At
<1>13. \A j \in Codes : code'[j].status = "CONSUMED" <=> code[j].status = "CONSUMED" \/ j = i
  BY <1>3, <1>4
<1>14. req' \in [Requests -> Request]
  BY DEF IInv, Shapes, Moves
<1>. QED
  BY <1>4, <1>6, <1>7, <1>11, <1>12, <1>13, <1>14

LEMMA ProvesKeeps ==
  ASSUME IInv, NEW r \in Requests, NEW purpose, Proves(r, purpose)
  PROVE  IInv'
<1>. DEFINE i == req[r].code
            q == [req[r] EXCEPT !.stage = "enter"]
<1>1. /\ At(r, "prove") /\ req[r].stage \in Holding /\ Moves(r, q) /\ account' = "verified"
      /\ UNCHANGED <<claimant, registered, token, spent, opened, compared, faults>>
      /\ lock' = [lock EXCEPT ![i] = None]
      /\ code' = [code EXCEPT ![i] = Resolving(code[i], "CONSUMED")]
  BY GoesTo DEF Proves, At, Holding
<1>2. i \in Active /\ i \in Born /\ i \in Codes
  BY <1>1, HeldCode
<1>3. q \in Request /\ q.stage = "enter" /\ q.code = i
  BY DEF IInv, Shapes, Request, Answering
<1>. HIDE DEF q
<1>4. Carries(q)
  BY <1>2, <1>3 DEF Carries, Holding, Answering, Resetting
<1>5. /\ code' \in [Codes -> Row] /\ Births' /\ OneActive' /\ LastCodeStands' /\ Carrying' /\ Locks' /\ Accounts'
      /\ lock' \in [Codes -> Requests \cup {None}] /\ req' \in [Requests -> Request]
      /\ \A j \in Codes : code'[j].status = "CONSUMED" <=> code[j].status = "CONSUMED" \/ j = i
  BY <1>1, <1>3, <1>4, ConsumeStep
<1>. HIDE DEF i
<1>6. Shapes'
  BY <1>1, <1>5 DEF IInv, Shapes
<1>7. Tokens'
  BY <1>1, <1>3, <1>5, TokensStand
<1>8. Uses'
  <2>1. code[i].status = "ACTIVE" /\ opened[i] = 0
    BY <1>2 DEF IInv, Uses, Active
  <2>2. \A s \in Requests : req'[s].stage = "enter" =>
          (s = r /\ req'[s].code = i)
          \/ (s # r /\ req'[s] = req[s] /\ req[s].code # i /\ req[s].code \in Codes)
    BY <1>1, <1>3, <2>1, Moved DEF IInv, Uses, Carrying, Carries, Answering, Born, At
  <2>3. \A s \in Requests : req'[s].stage = "enter" => code'[req'[s].code].status = "CONSUMED" /\ opened[req'[s].code] = 0
    BY <1>2, <1>5, <2>1, <2>2 DEF IInv, Uses, At
  <2>4. \A s, t \in Requests : req'[s].stage = "enter" /\ req'[t].stage = "enter" /\ req'[s].code = req'[t].code => s = t
    BY <2>2 DEF IInv, Uses, At
  <2>5. \A j \in Codes : code'[j].status # "CONSUMED" => opened[j] = 0
    BY <1>5 DEF IInv, Uses
  <2>. QED
    BY <1>1, <2>3, <2>4, <2>5 DEF IInv, Uses, At
<1>. QED
  BY <1>5, <1>6, <1>7, <1>8 DEF IInv

LEMMA EntersKeeps ==
  ASSUME IInv, NEW r \in Requests, Enters(r)
  PROVE  IInv'
<1>. DEFINE i == req[r].code
<1>1. /\ At(r, "enter") /\ Moves(r, Idle) /\ opened' = [opened EXCEPT ![i] = @ + 1]
      /\ UNCHANGED <<accountVars, code, lock, token, spent, compared, faults>>
  BY DEF Enters, Done, Moves
<1>2. i \in Codes /\ account # "none" /\ code[i].status = "CONSUMED" /\ opened[i] = 0 /\ opened \in [Codes -> Nat]
  BY <1>1 DEF IInv, Shapes, Accounts, Carrying, Carries, Answering, Born, Uses, At
<1>3. Births' /\ OneActive' /\ LastCodeStands' /\ Born' = Born /\ Active' = Active
  BY <1>1, CodesStand
<1>4. opened' \in [Codes -> Nat] /\ opened'[i] = 1 /\ \A j \in Codes : j # i => opened'[j] = opened[j]
  BY <1>1, <1>2
<1>5. Shapes'
  BY <1>1, <1>4, IdleCarries DEF IInv, Shapes, Moves, accountVars
<1>6. \A j \in Codes : Holds(req[r], j) <=> Holds(Idle, j)
  BY <1>1, IdleCarries DEF Holds, Holding, At
<1>7. Carrying' /\ Locks' /\ Accounts' /\ Tokens'
  BY <1>1, <1>3, <1>6, IdleCarries, CarryingKept, LocksStand, AccountsStand, TokensStand
<1>8. Uses'
  <2>1. \A s \in Requests : req'[s].stage = "enter" => s # r /\ req'[s] = req[s] /\ req[s].code # i /\ req[s].code \in Codes
    BY <1>1, IdleCarries, Moved DEF IInv, Uses, Carrying, Carries, Answering, Born, At
  <2>2. \A j \in Codes : opened'[j] <= 1 /\ (code[j].status # "CONSUMED" => opened'[j] = 0)
    BY <1>2, <1>4 DEF IInv, Uses
  <2>3. \A s \in Requests : req'[s].stage = "enter" => code[req'[s].code].status = "CONSUMED" /\ opened'[req'[s].code] = 0
    BY <1>4, <2>1 DEF IInv, Uses, At
  <2>. QED
    BY <1>1, <2>1, <2>2, <2>3 DEF IInv, Uses, At
<1>. QED
  BY <1>3, <1>5, <1>7, <1>8 DEF IInv

\* Whoever gives a token is the only one to, and saw the token there was.
LEMMA AnswerCommitsKeeps ==
  ASSUME IInv, NEW r \in Requests, AnswerCommits(r)
  PROVE  IInv'
<1>. DEFINE i == req[r].code
<1>1. /\ At(r, "issue") /\ req[r].stage \in Holding /\ Moves(r, Idle) /\ account' = "verified"
      /\ UNCHANGED <<claimant, registered, spent, compared, faults>>
      /\ lock' = [lock EXCEPT ![i] = None] /\ opened' = [opened EXCEPT ![i] = @ + 1]
      /\ code' = [code EXCEPT ![i] = Resolving(code[i], "CONSUMED")]
  BY DEF AnswerCommits, Done, Moves, At, Holding
<1>2. /\ i \in Active /\ i \in Born /\ i \in Codes
      /\ \A j \in Codes : lock[j] = r <=> j = i
  BY <1>1, HeldCode
<1>3. code[i].status = "ACTIVE" /\ code[i].purpose = "reset" /\ opened[i] = 0 /\ token[i].status = "unborn" /\ spent[i] = 0
  BY <1>1, <1>2 DEF IInv, Carrying, Carries, Uses, Tokens, Active, At
<1>4. /\ code' \in [Codes -> Row] /\ Births' /\ OneActive' /\ LastCodeStands' /\ Carrying' /\ Locks' /\ Accounts'
      /\ lock' \in [Codes -> Requests \cup {None}] /\ req' \in [Requests -> Request]
      /\ \A j \in Codes : code'[j].status = "CONSUMED" <=> code[j].status = "CONSUMED" \/ j = i
  BY <1>1, IdleCarries, ConsumeStep
<1>5. /\ DOMAIN token' = Codes /\ token' = [j \in Codes |-> token'[j]]
      /\ token'[i] = [status |-> "ACTIVE", age |-> "live"]
      /\ \A j \in Codes : j # i => IF j \in ActiveTokens
                                   THEN token'[j] \in Token /\ token'[j].status \in {"EXPIRED", "SUPERSEDED"}
                                   ELSE token'[j] = token[j]
  <2>1. ActiveTokens \subseteq req[r].picked
    BY <1>1 DEF IInv, Tokens
  <2>2. token' = [j \in Codes |->
          IF j = i THEN [status |-> "ACTIVE", age |-> "live"]
          ELSE IF j \in req[r].picked \cap ActiveTokens
               THEN Resolving(token[j], IF token[j].age = "past" THEN "EXPIRED" ELSE "SUPERSEDED")
               ELSE token[j]]
    BY DEF AnswerCommits
  <2>3. \A j \in Codes : /\ Resolving(token[j], "EXPIRED") \in Token /\ Resolving(token[j], "EXPIRED").status = "EXPIRED"
                         /\ Resolving(token[j], "SUPERSEDED") \in Token
                         /\ Resolving(token[j], "SUPERSEDED").status = "SUPERSEDED"
    BY TokenResolves
  <2>. HIDE DEF i
  <2>. QED
    BY <1>2, <2>1, <2>2, <2>3
<1>6. [status |-> "ACTIVE", age |-> "live"] \in Token
  BY DEF Token, Statuses, Ages
<1>. HIDE DEF i
<1>7. token' \in [Codes -> Token]
  BY <1>5, <1>6 DEF IInv, Shapes
<1>8. opened' \in [Codes -> Nat] /\ opened'[i] = 1 /\ \A j \in Codes : j # i => opened'[j] = opened[j]
  BY <1>1, <1>2, <1>3 DEF IInv, Shapes
<1>9. Shapes'
  BY <1>1, <1>4, <1>7, <1>8 DEF IInv, Shapes
<1>10. ActiveTokens' = {i}
  BY <1>2, <1>5 DEF ActiveTokens
<1>11. Tokens'
  <2>1. \A s \in Requests : ~(req'[s].stage = "issue")
    <3>. SUFFICES ASSUME NEW s \in Requests, s # r, req[s].stage = "issue" PROVE FALSE
      BY <1>1, IdleCarries, Moved
    <3>1. req[s].code \in Active /\ req[s].code \in Codes /\ lock[req[s].code] = s /\ code[req[s].code].purpose = "reset"
      BY HeldCode DEF Holding, IInv, Carrying, Carries
    <3>2. req[s].code = i
      BY <1>2, <1>3, <3>1 DEF IInv, OneActive
    <3>. QED
      BY <1>2, <3>1, <3>2
  <2>2. \A j \in Codes : token'[j].status # "unborn" => code'[j].status = "CONSUMED"
    BY <1>4, <1>5 DEF IInv, Tokens, ActiveTokens
  <2>. QED
    BY <1>10, <2>1, <2>2 DEF Tokens, At
<1>12. Uses'
  <2>1. \A s \in Requests : req'[s].stage = "enter" => s # r /\ req'[s] = req[s] /\ req[s].code # i /\ req[s].code \in Codes
    BY <1>1, <1>3, IdleCarries, Moved DEF IInv, Uses, Carrying, Carries, Answering, Born, At
  <2>2. \A j \in Codes : opened'[j] <= 1 /\ (code'[j].status # "CONSUMED" => opened'[j] = 0)
    BY <1>4, <1>8 DEF IInv, Uses
  <2>3. \A s \in Requests : req'[s].stage = "enter" => code'[req'[s].code].status = "CONSUMED" /\ opened'[req'[s].code] = 0
    BY <1>4, <1>8, <2>1 DEF IInv, Uses, At
  <2>4. \A j \in Codes : token'[j].status \in {"unborn", "ACTIVE"} => spent[j] = 0
    BY <1>3, <1>5 DEF IInv, Uses
  <2>. QED
    BY <1>1, <2>1, <2>2, <2>3, <2>4 DEF IInv, Uses, At
<1>. QED
  BY <1>4, <1>9, <1>11, <1>12 DEF IInv

LEMMA CodeAgesKeeps ==
  ASSUME IInv, NEW i \in Codes, CodeAges(i)
  PROVE  IInv'
<1>1. i \in Active /\ UNCHANGED <<accountVars, lock, token, spent, opened, compared, req, faults>>
  BY DEF CodeAges, Active
<1>. DEFINE row == [code[i] EXCEPT !.age = IF @ = "fresh" THEN "live" ELSE "past"]
<1>2. code \in [Codes -> Row] /\ code' = [code EXCEPT ![i] = row]
  BY DEF IInv, Shapes, CodeAges
<1>3. row \in Row /\ row.status = code[i].status /\ row.purpose = code[i].purpose /\ row.attempts = code[i].attempts
  BY <1>2 DEF Row, Ages
<1>. HIDE DEF row
<1>4. /\ code' \in [Codes -> Row]
      /\ \A j \in Codes : code'[j].status = code[j].status /\ code'[j].purpose = code[j].purpose
                          /\ code'[j].attempts = code[j].attempts
  BY <1>2, <1>3
<1>5. Births' /\ OneActive' /\ LastCodeStands' /\ Born' = Born
  BY <1>1, <1>4, CodesSettle DEF Settles
<1>6. Active' = Active /\ ActiveTokens' = ActiveTokens
  BY <1>1, <1>4 DEF Active, ActiveTokens
<1>7. Shapes'
  BY <1>1, <1>4 DEF IInv, Shapes, accountVars
<1>8. Accounts'
  BY <1>1, <1>5 DEF IInv, Accounts, accountVars, At
<1>9. Locks'
  BY <1>1, <1>6 DEF IInv, Locks, Holds, Holding
<1>10. Carrying'
  BY <1>1, <1>4, <1>5 DEF IInv, Carrying, Carries, Holding, Answering, Resetting, Purposes, Codes, Born
<1>11. Tokens'
  BY <1>1, <1>4, <1>6 DEF IInv, Tokens, At
<1>12. Uses'
  <2>1. \A s \in Requests : req[s].stage = "enter" => req[s].code \in Codes
    BY DEF IInv, Carrying, Carries, Answering, Born
  <2>. QED
    BY <1>1, <1>4, <2>1 DEF IInv, Uses, At
<1>. QED
  BY <1>5, <1>7, <1>8, <1>9, <1>10, <1>11, <1>12 DEF IInv

LEMMA TokenAgesKeeps ==
  ASSUME IInv, NEW i \in Codes, TokenAges(i)
  PROVE  IInv'
<1>. DEFINE row == [token[i] EXCEPT !.age = "past"]
<1>1. UNCHANGED <<accountVars, code, lock, spent, opened, compared, req, faults>>
  BY DEF TokenAges
<1>2. token \in [Codes -> Token] /\ token' = [token EXCEPT ![i] = row]
  BY DEF IInv, Shapes, TokenAges
<1>3. row \in Token /\ row.status = token[i].status
  BY <1>2 DEF Token, Ages
<1>. HIDE DEF row
<1>4. token' \in [Codes -> Token] /\ \A j \in Codes : token'[j].status = token[j].status
  BY <1>2, <1>3
<1>5. Births' /\ OneActive' /\ LastCodeStands' /\ Born' = Born /\ Active' = Active
  BY <1>1, CodesStand
<1>6. ActiveTokens' = ActiveTokens
  BY <1>4 DEF ActiveTokens
<1>7. Shapes'
  BY <1>1, <1>4 DEF IInv, Shapes, accountVars
<1>8. Accounts' /\ Locks'
  BY <1>1, <1>5 DEF IInv, Accounts, Locks, Holds, Holding, accountVars, At
<1>9. Carrying'
  BY <1>1, <1>5 DEF IInv, Carrying, Carries, Holding, Answering, Resetting, Purposes, Codes
<1>10. Tokens' /\ Uses'
  BY <1>1, <1>4, <1>6 DEF IInv, Tokens, Uses, At
<1>. QED
  BY <1>5, <1>7, <1>8, <1>9, <1>10 DEF IInv
-----------------------------------------------------------------------------
LEMMA InitIInv == Init => IInv
<1>. SUFFICES ASSUME Init PROVE IInv
  OBVIOUS
<1>1. Shapes
  BY IdleCarries, ResetAssumption DEF Init, Shapes, Row, Token, Statuses, Resolved, Ages
<1>2. Born = {} /\ Active = {} /\ ActiveTokens = {}
  BY DEF Init, Born, Active, ActiveTokens
<1>3. \A r \in Requests : req[r] = Idle
  BY DEF Init
<1>4. Births /\ OneActive /\ LastCodeStands
  BY <1>2 DEF Births, OneActive, LastCodeStands, Init
<1>5. Accounts
  BY <1>2, <1>3, IdleCarries DEF Init, Accounts, At
<1>6. Locks
  BY <1>3, IdleCarries, ResetAssumption DEF Init, Locks
<1>7. Carrying
  BY <1>3, IdleCarries DEF Carrying
<1>8. Tokens /\ Uses
  BY <1>2, <1>3, IdleCarries DEF Init, Tokens, Uses, At
<1>. QED
  BY <1>1, <1>4, <1>5, <1>6, <1>7, <1>8 DEF IInv

LEMMA NextIInv == IInv /\ [Next]_vars => IInv'
<1>. SUFFICES ASSUME IInv, [Next]_vars PROVE IInv'
  OBVIOUS
<1>1. CASE UNCHANGED vars
  <2>1. Born' = Born /\ Active' = Active /\ ActiveTokens' = ActiveTokens
    BY <1>1 DEF vars, Born, Active, ActiveTokens
  <2>2. Shapes' /\ Births' /\ Accounts' /\ OneActive' /\ LastCodeStands'
    BY <1>1, <2>1 DEF IInv, Shapes, Births, Accounts, OneActive, LastCodeStands, vars, accountVars, At, Purposes
  <2>3. Locks' /\ Carrying'
    BY <1>1, <2>1 DEF IInv, Locks, Holds, Carrying, Carries, Holding, Answering, Resetting, Purposes, Codes, vars
  <2>4. Tokens' /\ Uses'
    BY <1>1, <2>1 DEF IInv, Tokens, Uses, vars, At
  <2>. QED
    BY <2>2, <2>3, <2>4 DEF IInv
<1>2. ASSUME NEW r \in Requests, RequestStep(r) PROVE IInv'
  BY <1>2, RegisterInsertsKeeps, RegisterCommitsKeeps, AskReadsKeeps, RetirePicksKeeps, RetireLocksKeeps,
     AskCommitsKeeps, AnswerResolvesKeeps, AnswerCountsKeeps, AnswerChecksKeeps, AnswerConsumesKeeps,
     ProvesKeeps, EntersKeeps, AnswerPicksKeeps, AnswerCommitsKeeps, ResetExpiresKeeps, ResetCommitsKeeps
     DEF RequestStep, VerifyRegistration, LoginWithCode
<1>3. ASSUME NEW r \in Requests, ResendVerification(r) \/ RequestLoginCode(r) \/ RequestPasswordReset(r) PROVE IInv'
  <2>1. \E purpose \in Purposes : AskFinds(r, purpose)
    BY <1>3 DEF ResendVerification, RequestLoginCode, RequestPasswordReset, Purposes
  <2>. QED
    BY <2>1, AskFindsKeeps
<1>. QED
  BY <1>1, <1>2, <1>3, RegisterReadsKeeps, AnswerReadsKeeps, ResetReadsKeeps, FailKeeps, CodeAgesKeeps, TokenAgesKeeps
     DEF Next

LEMMA AlwaysIInv == SafeSpec => []IInv
BY InitIInv, NextIInv, PTL DEF SafeSpec

\* However many requests race to register the address, to answer a code or to
\* spend a token, each succeeds once.
THEOREM UsedOnce == SafeSpec => []SingleUse
<1>1. IInv => SingleUse
  BY DEF IInv, Accounts, Uses, SingleUse
<1>. QED
  BY <1>1, AlwaysIInv, PTL

\* One token at most can set the password, though no index of the table says so:
\* the codes are answered one after the other.
THEOREM OneTokenLives == SafeSpec => []OneLiveToken
<1>1. IInv => OneLiveToken
  <2>. SUFFICES ASSUME IInv PROVE Cardinality(ActiveTokens) <= 1
    BY DEF OneLiveToken
  <2>1. CASE ActiveTokens = {}
    BY <2>1, FS_EmptySet
  <2>2. CASE ActiveTokens # {}
    <3>1. PICK i : ActiveTokens = {i}
      BY <2>2 DEF IInv, Tokens
    <3>2. Cardinality({i}) = 1
      BY FS_Singleton
    <3>. QED
      BY <3>1, <3>2
  <2>. QED
    BY <2>1, <2>2
<1>. QED
  BY <1>1, AlwaysIInv, PTL

\* A code is superseded by a later one for the same purpose, and by nothing else.
THEOREM OnlyLaterCodesSupersede == SafeSpec => []LastCodeStands
BY AlwaysIInv, PTL DEF IInv
-----------------------------------------------------------------------------
(* Guesses.  What was compared with a code that can still be answered is    *)
(* counted, is about to be, or was lost with a request that died.           *)

Counting(i) == {r \in Requests : At(r, "count") /\ req[r].code = i}

Guesses ==
  \A i \in Codes :
    /\ code[i].attempts + Cardinality(Counting(i)) <= MaxAttempts + Cardinality(Requests) - 1
    /\ i \in Active => compared[i] <= code[i].attempts + Cardinality(Counting(i)) + faults
    /\ compared[i] <= MaxAttempts + Cardinality(Requests) - 1 + faults

GInv == IInv /\ Guesses

LEMMA Counters ==
  ASSUME IInv
  PROVE  /\ Cardinality(Requests) \in Nat /\ MaxAttempts \in Nat /\ MaxAttempts >= 1 /\ faults \in Nat
         /\ \A i \in Codes : /\ IsFiniteSet(Counting(i)) /\ Cardinality(Counting(i)) \in Nat
                             /\ Cardinality(Counting(i)) <= Cardinality(Requests)
                             /\ code[i].attempts \in Nat /\ compared[i] \in Nat
<1>1. IsFiniteSet(Requests) /\ Cardinality(Requests) \in Nat
  BY ResetAssumption, FS_CardinalityType
<1>2. ASSUME NEW i \in Codes
      PROVE  /\ IsFiniteSet(Counting(i)) /\ Cardinality(Counting(i)) \in Nat
             /\ Cardinality(Counting(i)) <= Cardinality(Requests)
  <2>1. Counting(i) \in SUBSET Requests
    BY DEF Counting
  <2>2. IsFiniteSet(Counting(i)) /\ Cardinality(Counting(i)) <= Cardinality(Requests)
    BY <1>1, <2>1, FS_Subset
  <2>. QED
    BY <2>2, FS_CardinalityType
<1>3. \A i \in Codes : code[i].attempts \in Nat /\ compared[i] \in Nat
  BY DEF IInv, Shapes, Row
<1>. QED
  BY <1>1, <1>2, <1>3, ResetAssumption DEF IInv, Shapes

\* A step that neither compares nor counts, nor fails.
Quiet ==
  /\ UNCHANGED <<compared, faults>>
  /\ \A i \in Codes : code'[i].attempts = code[i].attempts /\ (i \in Active' => i \in Active \/ compared[i] = 0)
  /\ \A r \in Requests : req'[r].stage = "count" \/ req[r].stage = "count" => req'[r] = req[r]

LEMMA QuietGuesses ==
  ASSUME GInv, Quiet
  PROVE  Guesses'
<1>1. \A i \in Codes : Counting(i)' = Counting(i)
  BY DEF Quiet, Counting, At
<1>. SUFFICES ASSUME NEW i \in Codes
              PROVE  /\ code'[i].attempts + Cardinality(Counting(i)) <= MaxAttempts + Cardinality(Requests) - 1
                     /\ i \in Active' => compared[i] <= code'[i].attempts + Cardinality(Counting(i)) + faults
                     /\ compared[i] <= MaxAttempts + Cardinality(Requests) - 1 + faults
  BY <1>1 DEF Quiet, Guesses
<1>2. /\ Cardinality(Counting(i)) \in Nat /\ code[i].attempts \in Nat /\ faults \in Nat
      /\ code'[i].attempts = code[i].attempts /\ (i \in Active' => i \in Active \/ compared[i] = 0)
  BY Counters DEF GInv, Quiet
<1>. QED
  BY <1>2 DEF GInv, Guesses

LEMMA QuietMove ==
  ASSUME IInv, NEW r \in Requests, NEW q, Moves(r, q), req[r].stage # "count", q.stage # "count"
  PROVE  \A s \in Requests : req'[s].stage = "count" \/ req[s].stage = "count" => req'[s] = req[s]
BY Moved

\* Those that leave the codes alone.
LEMMA QuietRequests ==
  ASSUME GInv, NEW r \in Requests,
         \/ RegisterReads(r) \/ RegisterInserts(r) \/ (\E purpose \in Purposes : AskFinds(r, purpose))
         \/ AskReads(r) \/ RetirePicks(r) \/ RetireLocks(r) \/ AnswerConsumes(r) \/ Enters(r)
         \/ AnswerPicks(r) \/ (\E i \in Codes : ResetReads(r, i)) \/ ResetExpires(r) \/ ResetCommits(r)
  PROVE  Quiet
<1>1. IInv /\ req \in [Requests -> Request]
  BY DEF GInv, IInv, Shapes
<1>2. UNCHANGED <<code, compared, faults>> /\ req[r].stage # "count"
  BY DEF RegisterReads, RegisterInserts, AskFinds, AskReads, RetirePicks, RetireLocks, AnswerConsumes, Enters,
         AnswerPicks, ResetReads, ResetExpires, ResetCommits, At
<1>3. \A s \in Requests : s # r => req'[s] = req[s]
  BY <1>1 DEF RegisterReads, RegisterInserts, AskFinds, AskReads, RetirePicks, RetireLocks, AnswerConsumes, Enters,
              AnswerPicks, ResetReads, ResetExpires, ResetCommits, Go, Done
<1>4. req'[r].stage # "count"
  <2>1. CASE Done(r)
    BY <1>1, <2>1, IdleCarries DEF Done
  <2>2. ASSUME NEW stage \in {"register", "welcome", "pick", "supersede", "prove"}, Go(r, stage)
        PROVE  req'[r].stage # "count"
    BY <1>1, <2>2 DEF Go, Request
  <2>3. CASE RegisterReads(r) \/ RegisterInserts(r) \/ AskReads(r) \/ AnswerConsumes(r) \/ Enters(r)
             \/ ResetExpires(r) \/ ResetCommits(r)
    BY <2>1, <2>2, <2>3
       DEF RegisterReads, RegisterInserts, AskReads, AnswerConsumes, Enters, ResetExpires, ResetCommits
  <2>4. CASE (\E purpose \in Purposes : AskFinds(r, purpose)) \/ RetirePicks(r) \/ RetireLocks(r) \/ AnswerPicks(r)
    BY <1>1, <2>4 DEF AskFinds, RetirePicks, RetireLocks, AnswerPicks, Request
  <2>5. CASE \E i \in Codes : ResetReads(r, i)
    BY <1>1, <2>5 DEF ResetReads, Idle
  <2>. QED
    BY <2>3, <2>4, <2>5
<1>5. Active' = Active
  BY <1>2 DEF Active
<1>. QED
  BY <1>2, <1>3, <1>4, <1>5 DEF Quiet

\* Those that resolve codes, or add one.
LEMMA QuietResolving ==
  ASSUME GInv, NEW i \in Codes, NEW status,
         code' = [code EXCEPT ![i] = Resolving(code[i], status)] \/ Resolve(i, status) \/ UNCHANGED code,
         status # "ACTIVE"
  PROVE  \A j \in Codes : code'[j].attempts = code[j].attempts /\ (j \in Active' => j \in Active)
<1>1. code \in [Codes -> Row]
  BY DEF GInv, IInv, Shapes
<1>2. /\ Resolving(code[i], status).attempts = code[i].attempts
      /\ Resolving(code[i], status).status = status
  BY <1>1 DEF Resolving, Row
<1>. HIDE DEF Resolving
<1>3. code'[i] \in {code[i], Resolving(code[i], status)} /\ \A j \in Codes : j # i => code'[j] = code[j]
  BY <1>1 DEF Resolve
<1>. QED
  BY <1>2, <1>3 DEF Active

LEMMA QuietCodes ==
  ASSUME GInv, NEW r \in Requests,
         RegisterCommits(r) \/ AskCommits(r) \/ AnswerResolves(r) \/ AnswerChecks(r)
         \/ (\E purpose \in Purposes : Proves(r, purpose)) \/ AnswerCommits(r)
  PROVE  Quiet
<1>1. IInv /\ req \in [Requests -> Request] /\ code \in [Codes -> Row] /\ Carries(req[r])
  BY DEF GInv, IInv, Shapes, Carrying
<1>2. UNCHANGED <<compared, faults>> /\ req[r].stage # "count"
  BY DEF RegisterCommits, AskCommits, AnswerResolves, AnswerChecks, Proves, AnswerCommits, At
<1>3. \A s \in Requests : req'[s].stage = "count" \/ req[s].stage = "count" => req'[s] = req[s]
  <2>1. CASE Done(r)
    BY <1>1, <1>2, <2>1, IdleCarries, QuietMove DEF Done, Moves
  <2>2. CASE Go(r, "enter")
    <3>. DEFINE q == [req[r] EXCEPT !.stage = "enter"]
    <3>1. Moves(r, q) /\ q.stage = "enter"
      BY <1>1, <2>2, GoesTo DEF Request
    <3>. HIDE DEF q
    <3>. QED
      BY <1>1, <1>2, <3>1, QuietMove
  <2>. QED
    BY <2>1, <2>2 DEF RegisterCommits, AskCommits, AnswerResolves, AnswerChecks, Proves, AnswerCommits
<1>4. \A i \in Codes : code'[i].attempts = code[i].attempts /\ (i \in Active' => i \in Active \/ compared[i] = 0)
  <2>1. CASE RegisterCommits(r) \/ AskCommits(r)
    <3>. DEFINE n == Cardinality(Born) + 1
    <3>1. \A i \in Codes : /\ Resolving(code[i], Retired(i)).attempts = code[i].attempts
                           /\ Resolving(code[i], Retired(i)).status # "ACTIVE"
                           /\ [code[i] EXCEPT !.status = "ACTIVE", !.purpose = req[r].purpose].attempts = code[i].attempts
                           /\ [code[i] EXCEPT !.status = "ACTIVE", !.purpose = "verification"].attempts = code[i].attempts
      BY <1>1 DEF Resolving, Row, Retired
    <3>2. \A i \in Codes : i = n => compared[i] = 0
      BY BornAreFirst DEF GInv, IInv, Births
    <3>3. \A i \in Codes : \/ code'[i] = code[i]
                           \/ i = n /\ code'[i].attempts = code[i].attempts
                           \/ code'[i] = Resolving(code[i], Retired(i))
      BY <1>1, <2>1, <3>1 DEF RegisterCommits, AskCommits
    <3>. HIDE DEF n, Resolving, Retired
    <3>. QED
      BY <3>1, <3>2, <3>3 DEF Active
  <2>2. CASE AnswerResolves(r) \/ AnswerChecks(r) \/ (\E purpose \in Purposes : Proves(r, purpose)) \/ AnswerCommits(r)
    <3>1. req[r].code \in Codes
      BY <1>1, <2>2 DEF AnswerResolves, AnswerChecks, Proves, AnswerCommits, Carries, Answering, Holding, Born, At
    <3>2. \E status \in {"EXPIRED", "BLOCKED", "CONSUMED"} :
            \/ code' = [code EXCEPT ![req[r].code] = Resolving(code[req[r].code], status)]
            \/ Resolve(req[r].code, status)
            \/ UNCHANGED code
      BY <2>2 DEF AnswerResolves, AnswerChecks, Proves, AnswerCommits
    <3>. QED
      BY <3>1, <3>2, QuietResolving
  <2>. QED
    BY <2>1, <2>2
<1>. QED
  BY <1>2, <1>3, <1>4 DEF Quiet

LEMMA QuietAges ==
  ASSUME GInv, NEW i \in Codes, CodeAges(i) \/ TokenAges(i)
  PROVE  Quiet
<1>1. code \in [Codes -> Row] /\ UNCHANGED <<compared, faults, req>>
  BY DEF GInv, IInv, Shapes, CodeAges, TokenAges
<1>2. \A j \in Codes : code'[j].attempts = code[j].attempts /\ code'[j].status = code[j].status
  BY <1>1 DEF CodeAges, TokenAges, Row
<1>. QED
  BY <1>1, <1>2 DEF Quiet, Active
-----------------------------------------------------------------------------
\* A guess is compared with a code whose attempts are not used up, whatever
\* others are about to count.
LEMMA AnswerReadsGuesses ==
  ASSUME GInv, NEW r \in Requests, NEW i \in Codes, NEW right \in BOOLEAN, AnswerReads(r, i, right)
  PROVE  Guesses'
<1>. DEFINE stage == IF code[i].age = "past" THEN "expire"
                     ELSE IF code[i].attempts >= MaxAttempts THEN "block"
                     ELSE IF right THEN "open" ELSE "count"
            q == [Idle EXCEPT !.stage = stage, !.code = i]
<1>1. At(r, "idle") /\ UNCHANGED <<code, faults>> /\ Moves(r, q) /\ i \in Active /\ Active' = Active
      /\ IInv /\ compared \in [Codes -> Nat]
  BY DEF AnswerReads, Moves, Active, GInv, IInv, Shapes
<1>2. q.stage = stage /\ q.code = i
  BY DEF Idle
<1>3. \A s \in Requests : req'[s] = IF s = r THEN q ELSE req[s]
  BY <1>1, Moved
<1>4. compared' = IF stage = "count" THEN [compared EXCEPT ![i] = @ + 1] ELSE compared
  BY <1>2, <1>3 DEF AnswerReads
<1>5. CASE stage # "count"
  <2>. HIDE DEF stage, q
  <2>1. Quiet
    BY <1>1, <1>2, <1>3, <1>4, <1>5 DEF Quiet, At
  <2>. QED
    BY <2>1, QuietGuesses
<1>6. CASE stage = "count"
  <2>1. code[i].attempts < MaxAttempts
    BY <1>6, Counters DEF GInv
  <2>. HIDE DEF stage, q
  <2>2. Counting(i)' = Counting(i) \cup {r} /\ r \notin Counting(i)
    BY <1>1, <1>2, <1>3, <1>6 DEF Counting, At
  <2>3. \A j \in Codes : j # i => Counting(j)' = Counting(j)
    BY <1>1, <1>2, <1>3 DEF Counting, At
  <2>4. Cardinality(Counting(i)') = Cardinality(Counting(i)) + 1
    BY <2>2, Counters, FS_AddElement DEF GInv
  <2>5. Cardinality(Counting(i)') <= Cardinality(Requests)
    <3>1. Counting(i)' \in SUBSET Requests
      BY DEF Counting
    <3>. QED
      BY <3>1, ResetAssumption, FS_Subset
  <2>6. compared'[i] = compared[i] + 1 /\ \A j \in Codes : j # i => compared'[j] = compared[j]
    BY <1>1, <1>4, <1>6
  <2>7. /\ code[i].attempts + Cardinality(Counting(i)') <= MaxAttempts + Cardinality(Requests) - 1
        /\ compared'[i] <= code[i].attempts + Cardinality(Counting(i)') + faults
        /\ compared'[i] <= MaxAttempts + Cardinality(Requests) - 1 + faults
    BY <1>1, <2>1, <2>4, <2>5, <2>6, Counters DEF GInv, Guesses
  <2>. QED
    BY <1>1, <2>3, <2>6, <2>7 DEF GInv, Guesses
<1>. QED
  BY <1>5, <1>6

LEMMA AnswerCountsGuesses ==
  ASSUME GInv, NEW r \in Requests, AnswerCounts(r)
  PROVE  Guesses'
<1>. DEFINE q == [req[r] EXCEPT !.stage = "check"]
<1>1. At(r, "count") /\ Moves(r, q) /\ UNCHANGED <<compared, faults>> /\ IInv /\ code \in [Codes -> Row]
  BY GoesTo DEF AnswerCounts, GInv, IInv, Shapes
<1>2. q.stage = "check"
  BY <1>1 DEF IInv, Shapes, Request
<1>3. \A s \in Requests : req'[s] = IF s = r THEN q ELSE req[s]
  BY <1>1, Moved
<1>. HIDE DEF q
<1>4. PICK i \in Codes : i = req[r].code
  BY <1>1 DEF IInv, Carrying, Carries, Born, Answering, At
<1>5. Counting(i)' = Counting(i) \ {r} /\ r \in Counting(i)
  BY <1>1, <1>2, <1>3, <1>4 DEF Counting, At
<1>6. \A j \in Codes : j # i => Counting(j)' = Counting(j)
  BY <1>1, <1>2, <1>3, <1>4 DEF Counting, At
<1>7. code' = [code EXCEPT ![i].attempts = IF i \in Active THEN AttemptsAfter(i) ELSE @]
  BY <1>4 DEF AnswerCounts
<1>8. /\ code'[i].attempts = IF i \in Active THEN code[i].attempts + 1 ELSE code[i].attempts
      /\ code'[i].status = code[i].status /\ \A j \in Codes : j # i => code'[j] = code[j]
  BY <1>1, <1>7 DEF Row, AttemptsAfter
<1>9. Active' = Active
  BY <1>8 DEF Active
<1>10. Cardinality(Counting(i)') = Cardinality(Counting(i)) - 1
  BY <1>1, <1>5, Counters, FS_RemoveElement
<1>11. /\ code'[i].attempts + Cardinality(Counting(i)') <= MaxAttempts + Cardinality(Requests) - 1
       /\ i \in Active => compared[i] <= code'[i].attempts + Cardinality(Counting(i)') + faults
  BY <1>1, <1>8, <1>10, Counters DEF GInv, Guesses
<1>. QED
  BY <1>1, <1>6, <1>8, <1>9, <1>11 DEF GInv, Guesses

LEMMA FailGuesses ==
  ASSUME GInv, NEW r \in Requests, Fail(r)
  PROVE  Guesses'
<1>1. UNCHANGED <<code, compared>> /\ faults' = faults + 1 /\ Moves(r, Idle) /\ Active' = Active /\ IInv
  BY DEF Fail, Done, Moves, Active, GInv
<1>2. \A i \in Codes : Counting(i)' = Counting(i) \ {r}
  BY <1>1, IdleCarries, Moved DEF Counting, At
<1>. SUFFICES ASSUME NEW i \in Codes
              PROVE  /\ code[i].attempts + Cardinality(Counting(i)') <= MaxAttempts + Cardinality(Requests) - 1
                     /\ i \in Active => compared[i] <= code[i].attempts + Cardinality(Counting(i)') + faults'
                     /\ compared[i] <= MaxAttempts + Cardinality(Requests) - 1 + faults'
  BY <1>1 DEF Guesses
<1>3. Cardinality(Counting(i)') = Cardinality(Counting(i)) - (IF r \in Counting(i) THEN 1 ELSE 0)
  BY <1>1, <1>2, Counters, FS_RemoveElement
<1>. QED
  BY <1>1, <1>3, Counters DEF GInv, Guesses

LEMMA NextGuesses == GInv /\ [Next]_vars => Guesses'
<1>. SUFFICES ASSUME GInv, [Next]_vars PROVE Guesses'
  OBVIOUS
<1>1. CASE UNCHANGED vars
  <2>1. Quiet
    BY <1>1 DEF vars, Quiet, Active
  <2>. QED
    BY <2>1, QuietGuesses
<1>2. ASSUME NEW r \in Requests, RequestStep(r) PROVE Guesses'
  <2>1. Quiet \/ AnswerCounts(r)
    BY <1>2, QuietRequests, QuietCodes DEF RequestStep, VerifyRegistration, LoginWithCode, Purposes
  <2>. QED
    BY <2>1, QuietGuesses, AnswerCountsGuesses
<1>3. ASSUME NEW r \in Requests,
             \/ RegisterReads(r) \/ ResendVerification(r) \/ RequestLoginCode(r) \/ RequestPasswordReset(r)
             \/ \E i \in Codes : ResetReads(r, i)
      PROVE  Guesses'
  <2>1. Quiet
    BY <1>3, QuietRequests DEF ResendVerification, RequestLoginCode, RequestPasswordReset, Purposes
  <2>. QED
    BY <2>1, QuietGuesses
<1>4. ASSUME NEW i \in Codes, CodeAges(i) \/ TokenAges(i) PROVE Guesses'
  BY <1>4, QuietAges, QuietGuesses
<1>. QED
  BY <1>1, <1>2, <1>3, <1>4, AnswerReadsGuesses, FailGuesses DEF Next

LEMMA InitGuesses == Init => Guesses
<1>. SUFFICES ASSUME Init PROVE Guesses
  OBVIOUS
<1>1. IInv
  BY InitIInv
<1>2. \A i \in Codes : code[i].attempts = 0 /\ compared[i] = 0 /\ Counting(i) = {}
  BY IdleCarries DEF Init, Counting, At
<1>3. Cardinality({}) = 0
  BY FS_EmptySet
<1>. QED
  BY <1>1, <1>2, <1>3, Counters DEF Guesses

LEMMA AlwaysGInv == SafeSpec => []GInv
<1>1. Init => GInv
  BY InitIInv, InitGuesses DEF GInv
<1>2. GInv /\ [Next]_vars => GInv'
  BY NextIInv, NextGuesses DEF GInv
<1>. QED
  BY <1>1, <1>2, PTL DEF SafeSpec

\* A code is compared with the limit's number of wrong answers, and one for each
\* other request under way and for each that died before it counted.
THEOREM GuessesAreBounded == SafeSpec => []GuessesBounded
<1>1. GInv => GuessesBounded
  BY DEF GInv, Guesses, GuessesBounded
<1>. QED
  BY <1>1, AlwaysGInv, PTL

\* The types, with the most a code's attempts can come to.
THEOREM TypesHold == SafeSpec => []TypeOK
<1>1. GInv => TypeOK
  <2>. SUFFICES ASSUME GInv PROVE TypeOK
    OBVIOUS
  <2>1. \A i \in Codes : code[i].attempts \in 0..(MaxAttempts + Cardinality(Requests) - 1)
    BY Counters DEF GInv, Guesses
  <2>2. code \in [Codes -> [purpose : Purposes \cup {None}, status : Statuses, age : Ages,
                            attempts : 0..(MaxAttempts + Cardinality(Requests) - 1)]]
    BY <2>1 DEF GInv, IInv, Shapes, Row
  <2>3. req \in [Requests ->
       [stage : {"idle", "register", "welcome", "due", "pick", "retire", "insert",
                 "expire", "block", "count", "check", "open", "prove", "enter",
                 "supersede", "issue", "outdate", "reset"},
        purpose : Purposes \cup {None},
        code : Codes \cup {None}, picked : SUBSET Codes]]
    BY DEF GInv, IInv, Shapes, Request, Answering, Holding, Resetting
  <2>. QED
    BY <2>2, <2>3 DEF GInv, IInv, Shapes, Token, TypeOK
<1>. QED
  BY <1>1, AlwaysGInv, PTL
=============================================================================
