---------------------------- MODULE AdminsProofs ----------------------------
(***************************************************************************)
(* Theorems about Admins, for any number of seeders, requests and devices. *)
(***************************************************************************)
EXTENDS Admins, TLAPS

Steps == {"idle", "rehash", "find", "end", "commit", "evict", "issue", "reuse", "validate", "store",
          "rotate", "open"}

(* What a step of a request leaves of the others, and of the request.      *)
Only(c) == \A d \in Calls : d # c => req'[d] = req[d]
Alike(q, r) ==
  /\ q.op = r.op /\ q.ses = r.ses /\ q.tok = r.tok /\ q.pw = r.pw /\ q.since = r.since
  /\ q.valid = r.valid /\ q.seen = r.seen /\ q.ending = r.ending /\ q.tokens = r.tokens /\ q.evict = r.evict

LEMMA IdleRequest == Idle \in Requests
  BY AdminsAssumption DEF Idle, Requests, Ops

LEMMA RequestGoes ==
  ASSUME TypeOK, NEW c \in Calls, NEW q \in Requests, Goes(c, q)
  PROVE  req' \in [Calls -> Requests] /\ req'[c] = q /\ Only(c)
  BY DEF TypeOK, Goes, Only

LEMMA RequestAt == ASSUME TypeOK, NEW c \in Calls PROVE req[c] \in Requests
  BY DEF TypeOK

LEMMA Moved ==
  ASSUME NEW r \in Requests, NEW pc \in Steps
  PROVE  LET q == [r EXCEPT !.pc = pc] IN q \in Requests /\ q.pc = pc /\ Alike(q, r)
  BY DEF Requests, Alike, Steps

LEMMA RequestDone ==
  ASSUME TypeOK, NEW c \in Calls, Done(c)
  PROVE  req' \in [Calls -> Requests] /\ req'[c] = Idle /\ Only(c)
  BY RequestGoes, IdleRequest DEF Done

LEMMA RequestMoves ==
  ASSUME TypeOK, NEW c \in Calls, NEW pc \in Steps, Go(c, pc)
  PROVE  req' \in [Calls -> Requests] /\ req'[c].pc = pc /\ Alike(req'[c], req[c]) /\ Only(c)
<1> DEFINE q == [req[c] EXCEPT !.pc = pc]
<1>1. q \in Requests /\ q.pc = pc /\ Alike(q, req[c])
  BY RequestAt, Moved
<1>2. Goes(c, q)
  BY DEF Go
<1> HIDE DEF q
<1> QED BY <1>1, <1>2, RequestGoes
-----------------------------------------------------------------------------
(* How each action moves its request.                                      *)

LEMMA RehashMoves ==
  ASSUME TypeOK, NEW c \in Calls, Rehash(c)
  PROVE  req' \in [Calls -> Requests] /\ req'[c].pc \in {"find", "end"} /\ Alike(req'[c], req[c]) /\ Only(c)
<1>1. PICK pc \in {"find", "end"} : Go(c, pc)
  BY DEF Rehash
<1> QED BY <1>1, RequestMoves DEF Steps

LEMMA FindMoves ==
  ASSUME TypeOK, NEW c \in Calls, FindOnDevice(c)
  PROVE  /\ req' \in [Calls -> Requests] /\ Only(c)
         /\ \/ req'[c].pc = "commit" /\ Alike(req'[c], req[c])
            \/ req'[c].pc = "end" /\ req'[c].op = req[c].op /\ req'[c].since = req[c].since
               /\ req'[c].evict = req[c].evict /\ req'[c].ending = req[c].ending /\ req'[c].valid = req[c].valid
<1>1. CASE Go(c, "commit")
  BY <1>1, RequestMoves DEF Steps
<1>2. ASSUME NEW s \in LiveOn(req[c].dev), Goes(c, [req[c] EXCEPT !.ses = s, !.pc = "end"])
      PROVE /\ req' \in [Calls -> Requests] /\ Only(c)
            /\ req'[c].pc = "end" /\ req'[c].op = req[c].op /\ req'[c].since = req[c].since
            /\ req'[c].evict = req[c].evict /\ req'[c].ending = req[c].ending /\ req'[c].valid = req[c].valid
  <2>1. s \in 0..MaxSessions
    BY <1>2, AdminsAssumption DEF LiveOn, LiveSessions, Sessions
  <2> DEFINE q == [req[c] EXCEPT !.ses = s, !.pc = "end"]
  <2>2. q \in Requests /\ q.pc = "end" /\ q.op = req[c].op /\ q.since = req[c].since /\ q.evict = req[c].evict
        /\ q.ending = req[c].ending /\ q.valid = req[c].valid
    <3>1. ASSUME NEW r \in Requests
          PROVE LET p == [r EXCEPT !.ses = s, !.pc = "end"] IN
                p \in Requests /\ p.pc = "end" /\ p.op = r.op /\ p.since = r.since /\ p.evict = r.evict
                /\ p.ending = r.ending /\ p.valid = r.valid
      BY <2>1 DEF Requests
    <3> QED BY <3>1, RequestAt
  <2> HIDE DEF q
  <2> QED BY <1>2, <2>2, RequestGoes DEF q
<1> QED BY <1>1, <1>2 DEF FindOnDevice

LEMMA ConflictMoves ==
  ASSUME TypeOK, NEW c \in Calls, SignInConflicts(c)
  PROVE  /\ req' \in [Calls -> Requests] /\ Only(c)
         /\ \/ req'[c] = Idle
            \/ /\ req'[c].pc = "find" /\ req'[c].op = "login"
               /\ req'[c].ending = {} /\ req'[c].evict = req[c].evict /\ req'[c].valid = req[c].valid
<1> DEFINE Again(r) == [r EXCEPT !.pc = "find", !.retried = TRUE, !.ses = 0,
                                 !.ending = {}, !.tokens = {}, !.seen = {}]
<1>1. ASSUME NEW r \in Requests
      PROVE  /\ Again(r) \in Requests /\ Again(r).pc = "find" /\ Again(r).op = r.op
             /\ Again(r).ending = {} /\ Again(r).evict = r.evict /\ Again(r).valid = r.valid
  <2>1. 0 \in 0..MaxSessions /\ {} \subseteq Sessions /\ {} \subseteq Tokens
    BY AdminsAssumption
  <2> QED BY <2>1 DEF Requests
<1>2. /\ Again(req[c]) \in Requests /\ Again(req[c]).pc = "find" /\ Again(req[c]).op = "login"
      /\ Again(req[c]).ending = {} /\ Again(req[c]).evict = req[c].evict /\ Again(req[c]).valid = req[c].valid
  BY <1>1, RequestAt DEF SignInConflicts
<1>3. Done(c) \/ Goes(c, Again(req[c]))
  BY DEF SignInConflicts
<1> HIDE DEF Again
<1>4. CASE Done(c)
  BY <1>4, RequestDone
<1>5. CASE Goes(c, Again(req[c]))
  BY <1>2, <1>5, RequestGoes
<1> QED BY <1>3, <1>4, <1>5

(* What a commit does to its request. *)
Committed(c) ==
  /\ req' \in [Calls -> Requests] /\ Only(c)
  /\ req'[c].pc = "evict" /\ req'[c].op = req[c].op /\ req'[c].valid = req[c].valid
  /\ req'[c].ending = {} /\ req'[c].tokens = {}

LEMMA SignInMoves ==
  ASSUME TypeOK, NEW c \in Calls, SignInCommits(c)
  PROVE  Committed(c) /\ req'[c].evict = {req[c].ses} \ {0}
<1> PICK new \in Sessions :
      Goes(c, [req[c] EXCEPT !.pc = "evict", !.ses = new, !.evict = {req[c].ses} \ {0},
                             !.ending = {}, !.tokens = {}, !.seen = {}])
  BY DEF SignInCommits
<1> DEFINE Signed(r) == [r EXCEPT !.pc = "evict", !.ses = new, !.evict = {r.ses} \ {0},
                                  !.ending = {}, !.tokens = {}, !.seen = {}]
<1>1. ASSUME NEW r \in Requests
      PROVE  /\ Signed(r) \in Requests /\ Signed(r).pc = "evict" /\ Signed(r).op = r.op
             /\ Signed(r).ending = {} /\ Signed(r).tokens = {} /\ Signed(r).evict = {r.ses} \ {0}
             /\ Signed(r).valid = r.valid
  <2> DEFINE V == {r.ses} \ {0}
  <2>1. V \subseteq 0..MaxSessions /\ new \in 0..MaxSessions
    BY AdminsAssumption DEF Requests, Sessions
  <2> HIDE DEF V
  <2>2. LET q == [r EXCEPT !.pc = "evict", !.ses = new, !.evict = V,
                           !.ending = {}, !.tokens = {}, !.seen = {}] IN
        q \in Requests /\ q.pc = "evict" /\ q.op = r.op /\ q.ending = {} /\ q.tokens = {} /\ q.evict = V /\ q.valid = r.valid
    BY <2>1 DEF Requests
  <2> QED BY <2>2 DEF V
<1>2. req[c] \in Requests /\ Goes(c, Signed(req[c]))
  BY RequestAt
<1> HIDE DEF Signed
<1> QED BY <1>1, <1>2, RequestGoes DEF Committed

LEMMA SweptAreSessions ==
  ASSUME NEW c \in Calls
  PROVE  Swept(c) \subseteq LiveSessions /\ LiveSessions \subseteq Sessions /\ SweptTokens(c) \subseteq Tokens
<1>1. Swept(c) \subseteq LiveSessions
  BY DEF Swept
<1> QED BY <1>1 DEF LiveSessions, SweptTokens, LiveTokens

LEMMA StartMoves ==
  ASSUME TypeOK, NEW c \in Calls, StartEnding(c)
  PROVE  /\ req' \in [Calls -> Requests] /\ Only(c)
         /\ \/ req'[c] = Idle
            \/ /\ req'[c].pc = "commit" /\ req'[c].op = req[c].op
               /\ req'[c].ses = req[c].ses /\ req'[c].tok = req[c].tok
               /\ req'[c].ending = Swept(c) /\ req'[c].tokens = SweptTokens(c)
               /\ req'[c].seen = LiveSessions /\ req'[c].evict = req[c].evict /\ req'[c].valid = req[c].valid
<1> DEFINE Started(r, E, T, S) == [r EXCEPT !.pc = "commit", !.ending = E, !.tokens = T, !.seen = S]
<1>1. ASSUME NEW r \in Requests, NEW E \in SUBSET Sessions, NEW T \in SUBSET Tokens, NEW S \in SUBSET Sessions
      PROVE  LET q == Started(r, E, T, S) IN
             /\ q \in Requests /\ q.pc = "commit" /\ q.op = r.op /\ q.ses = r.ses /\ q.tok = r.tok
             /\ q.ending = E /\ q.tokens = T /\ q.seen = S /\ q.evict = r.evict
             /\ q.valid = r.valid
  BY DEF Requests
<1>2. Done(c) \/ Goes(c, Started(req[c], Swept(c), SweptTokens(c), LiveSessions))
  BY DEF StartEnding
<1> HIDE DEF Started
<1>3. CASE Done(c)
  BY <1>3, RequestDone
<1>4. CASE Goes(c, Started(req[c], Swept(c), SweptTokens(c), LiveSessions))
  BY <1>1, <1>4, SweptAreSessions, RequestAt, RequestGoes
<1> QED BY <1>2, <1>3, <1>4

LEMMA EndingMoves ==
  ASSUME TypeOK, NEW c \in Calls, EndingCommits(c)
  PROVE  /\ Committed(c) /\ req'[c].ses = req[c].ses /\ req'[c].tok = req[c].tok
         /\ req'[c].evict = IF req[c].op = "logout" THEN {req[c].ses} ELSE req[c].ending
<1> DEFINE Over(r) == [r EXCEPT !.pc = "evict", !.ending = {}, !.tokens = {}, !.seen = {},
                                !.evict = IF r.op = "logout" THEN {r.ses} ELSE r.ending]
<1>1. ASSUME NEW r \in Requests
      PROVE  /\ Over(r) \in Requests /\ Over(r).pc = "evict" /\ Over(r).op = r.op
             /\ Over(r).ending = {} /\ Over(r).tokens = {} /\ Over(r).valid = r.valid
             /\ Over(r).ses = r.ses /\ Over(r).tok = r.tok
             /\ Over(r).evict = IF r.op = "logout" THEN {r.ses} ELSE r.ending
  <2>1. {r.ses} \subseteq 0..MaxSessions /\ r.ending \subseteq 0..MaxSessions
    BY AdminsAssumption DEF Requests, Sessions
  <2> DEFINE V == IF r.op = "logout" THEN {r.ses} ELSE r.ending
  <2>2. V \subseteq 0..MaxSessions
    BY <2>1
  <2> HIDE DEF V
  <2>3. LET q == [r EXCEPT !.pc = "evict", !.ending = {}, !.tokens = {}, !.seen = {}, !.evict = V] IN
        q \in Requests /\ q.pc = "evict" /\ q.op = r.op /\ q.ending = {} /\ q.tokens = {} /\ q.evict = V
        /\ q.valid = r.valid /\ q.ses = r.ses /\ q.tok = r.tok
    BY <2>2 DEF Requests
  <2> QED BY <2>3 DEF V
<1>2. req[c] \in Requests /\ Goes(c, Over(req[c]))
  BY RequestAt DEF EndingCommits
<1> HIDE DEF Over
<1>3. PICK q : q = Over(req[c])
  OBVIOUS
<1>4. /\ q \in Requests /\ q.pc = "evict" /\ q.op = req[c].op /\ q.ending = {} /\ q.tokens = {}
      /\ q.valid = req[c].valid /\ q.ses = req[c].ses /\ q.tok = req[c].tok
      /\ q.evict = IF req[c].op = "logout" THEN {req[c].ses} ELSE req[c].ending
  BY <1>1, <1>2, <1>3
<1>5. req' \in [Calls -> Requests] /\ req'[c] = q /\ Only(c)
  BY <1>2, <1>3, <1>4, RequestGoes
<1> QED BY <1>4, <1>5 DEF Committed

LEMMA EvictionMoves ==
  ASSUME TypeOK, NEW c \in Calls, AfterEviction(c)
  PROVE  /\ req' \in [Calls -> Requests] /\ Only(c)
         /\ \/ req'[c] = Idle
            \/ /\ req'[c].pc = "issue" /\ req'[c].op = "login" /\ req'[c].evict = {}
               /\ req'[c].ending = req[c].ending /\ req'[c].valid = req[c].valid
<1> DEFINE Cleared(r) == [r EXCEPT !.pc = "issue", !.evict = {}]
<1>1. ASSUME NEW r \in Requests
      PROVE  /\ Cleared(r) \in Requests /\ Cleared(r).pc = "issue" /\ Cleared(r).op = r.op
             /\ Cleared(r).evict = {} /\ Cleared(r).ending = r.ending /\ Cleared(r).valid = r.valid
  BY DEF Requests
<1>2. CASE req[c].op = "login"
  <2>1. Goes(c, Cleared(req[c]))
    BY <1>2 DEF AfterEviction
  <2> HIDE DEF Cleared
  <2> QED BY <1>1, <1>2, <2>1, RequestAt, RequestGoes
<1>3. CASE req[c].op # "login"
  BY <1>3, RequestDone DEF AfterEviction
<1> QED BY <1>2, <1>3

LEMMA ReuseMoves ==
  ASSUME TypeOK, NEW c \in Calls, EndReused(c)
  PROVE  /\ req' \in [Calls -> Requests] /\ Only(c)
         /\ req'[c].pc = "evict" /\ req'[c].op = req[c].op /\ req'[c].ending = req[c].ending
         /\ req'[c].evict = {req[c].ses} /\ req'[c].valid = req[c].valid
         /\ req'[c].ses = req[c].ses /\ req'[c].tok = req[c].tok
<1> DEFINE Reused(r) == [r EXCEPT !.pc = "evict", !.evict = {r.ses}]
<1>1. ASSUME NEW r \in Requests
      PROVE  /\ Reused(r) \in Requests /\ Reused(r).pc = "evict" /\ Reused(r).op = r.op
             /\ Reused(r).ending = r.ending /\ Reused(r).evict = {r.ses}
             /\ Reused(r).valid = r.valid /\ Reused(r).ses = r.ses /\ Reused(r).tok = r.tok
  BY DEF Requests
<1>2. req[c] \in Requests /\ Goes(c, Reused(req[c]))
  BY RequestAt DEF EndReused
<1> HIDE DEF Reused
<1> QED BY <1>1, <1>2, RequestGoes

LEMMA ValidateMoves ==
  ASSUME TypeOK, NEW c \in Calls, Validate(c)
  PROVE  /\ req' \in [Calls -> Requests] /\ Only(c)
         /\ \/ req'[c] = Idle
            \/ /\ req'[c].op = req[c].op /\ req'[c].ses = req[c].ses /\ req'[c].tok = req[c].tok
               /\ req'[c].ending = req[c].ending /\ req'[c].evict = req[c].evict
               /\ \/ req'[c].pc = "store" /\ req'[c].valid = "live" /\ Live(req[c].ses)
                  \/ /\ req'[c].pc = "rotate" /\ req[c].ses \in cached
                     /\ req'[c].valid = "wrong" => /\ ~Live(req[c].ses) /\ req[c].ses \notin stale
                                                   /\ ~Evicting(req[c].ses)
<1> DEFINE Valid(r, pc, v) == [r EXCEPT !.pc = pc, !.valid = v]
           s == req[c].ses
           served == IF Live(s) THEN "live" ELSE IF s \in stale \/ Evicting(s) THEN "excused" ELSE "wrong"
<1>1. ASSUME NEW r \in Requests, NEW pc \in {"store", "rotate"}, NEW v \in {"live", "excused", "wrong"}
      PROVE  LET q == Valid(r, pc, v) IN
             /\ q \in Requests /\ q.pc = pc /\ q.op = r.op /\ q.ses = r.ses /\ q.tok = r.tok
             /\ q.valid = v /\ q.ending = r.ending /\ q.evict = r.evict
  BY DEF Requests
<1>2. \/ Done(c)
      \/ s \in cached /\ Goes(c, Valid(req[c], "rotate", served))
      \/ Live(s) /\ Goes(c, Valid(req[c], "store", "live"))
  BY DEF Validate
<1>3. /\ served \in {"live", "excused", "wrong"}
      /\ served = "wrong" => ~Live(s) /\ s \notin stale /\ ~Evicting(s)
  OBVIOUS
<1> HIDE DEF Valid, served
<1>4. CASE Done(c)
  BY <1>4, RequestDone
<1>5. CASE s \in cached /\ Goes(c, Valid(req[c], "rotate", served))
  BY <1>1, <1>3, <1>5, RequestAt, RequestGoes
<1>6. CASE Live(s) /\ Goes(c, Valid(req[c], "store", "live"))
  BY <1>1, <1>6, RequestAt, RequestGoes
<1> QED BY <1>2, <1>4, <1>5, <1>6

(* What a request begins as. *)
Begun(c, op, pcs) ==
  /\ req' \in [Calls -> Requests] /\ Only(c)
  /\ req'[c].op = op /\ req'[c].pc \in pcs
  /\ req'[c].ending = {} /\ req'[c].evict = {} /\ req'[c].valid = "none"

Starts == {"rehash", "find", "end", "reuse", "validate", "open"}

LEMMA Beginning ==
  ASSUME TypeOK, NEW op \in Ops, NEW pc \in Starts, NEW s \in 0..MaxSessions, NEW t \in Nat
  PROVE  /\ [Idle EXCEPT !.op = op, !.pc = pc, !.ses = s] \in Requests
         /\ [Idle EXCEPT !.op = op, !.pc = pc, !.tok = t] \in Requests
         /\ [Idle EXCEPT !.op = op, !.tok = t, !.ses = s, !.pc = pc] \in Requests
<1>1. {} \in SUBSET Sessions /\ {} \in SUBSET Tokens /\ {} \in SUBSET (0..MaxSessions) /\ 0 \in 0..MaxSessions
  BY AdminsAssumption
<1>2. [Idle EXCEPT !.op = op, !.pc = pc, !.ses = s] \in Requests
  BY <1>1 DEF Idle, Requests, Starts
<1>3. [Idle EXCEPT !.op = op, !.pc = pc, !.tok = t] \in Requests
  BY <1>1 DEF Idle, Requests, Starts
<1>4. [Idle EXCEPT !.op = op, !.tok = t, !.ses = s, !.pc = pc] \in Requests
  BY <1>1 DEF Idle, Requests, Starts
<1> QED BY <1>2, <1>3, <1>4

(* The credential is read as it is. *)
Reading(q, op, next) ==
  q \in Requests /\ q.op = op /\ q.pc \in {"rehash", next} /\ q.ending = {} /\ q.evict = {} /\ q.valid = "none"

LEMMA Reads ==
  ASSUME TypeOK, credential # None, NEW op \in {"login", "change"}, NEW next \in {"find", "end"},
         NEW d \in Devices \cup {None}, NEW s \in 0..MaxSessions
  PROVE  /\ Reading([Verified(op, next) EXCEPT !.dev = d], op, next)
         /\ Reading([Verified(op, next) EXCEPT !.ses = s], op, next)
<1> DEFINE pc == IF credential.weak THEN "rehash" ELSE next
           v == [Idle EXCEPT !.op = op, !.pc = pc, !.pw = credential.pw, !.since = latest]
<1>1. credential.pw \in Nat /\ latest \in Nat /\ pc \in {"rehash", next} /\ pc \in Starts /\ op \in Ops
  BY DEF TypeOK, Starts, Ops
<1>2. Verified(op, next) = v
  BY DEF Verified
<1>3. v.op = op /\ v.pc = pc /\ v.ending = {} /\ v.evict = {} /\ v.valid = "none"
  BY DEF Idle
<1> HIDE DEF pc
<1>4. v \in Requests
  BY <1>1, IdleRequest DEF Requests, Idle, Starts, Ops
<1> HIDE DEF v
<1>5. Reading([v EXCEPT !.dev = d], op, next)
  BY <1>1, <1>3, <1>4 DEF Requests, Reading
<1>6. Reading([v EXCEPT !.ses = s], op, next)
  BY <1>1, <1>3, <1>4 DEF Requests, Reading
<1> QED BY <1>2, <1>5, <1>6

LEMMA SessionsFromOne == \A s \in Sessions : s \in 0..MaxSessions /\ s # 0
  BY AdminsAssumption DEF Sessions

LEMMA LoginMoves ==
  ASSUME TypeOK, NEW c \in Calls, NEW d \in Devices, Login(c, d)
  PROVE  Begun(c, "login", {"rehash", "find"})
<1> DEFINE q == [Verified("login", "find") EXCEPT !.dev = d]
<1>1. Goes(c, q)
  BY DEF Login, Begins
<1>2. 0 \in 0..MaxSessions /\ credential # None
  BY AdminsAssumption DEF Login
<1>3. Reading(q, "login", "find")
  BY <1>2, Reads
<1> HIDE DEF q
<1> QED BY <1>1, <1>3, RequestGoes DEF Begun, Reading

LEMMA ChangeMoves ==
  ASSUME TypeOK, NEW c \in Calls, NEW s \in Sessions, ChangePassword(c, s)
  PROVE  Begun(c, "change", {"rehash", "end"})
<1> DEFINE q == [Verified("change", "end") EXCEPT !.ses = s]
<1>1. Goes(c, q)
  BY DEF ChangePassword, Begins
<1>2. s \in 0..MaxSessions /\ credential # None
  BY SessionsFromOne DEF ChangePassword
<1>3. Reading(q, "change", "end")
  BY <1>2, Reads
<1> HIDE DEF q
<1> QED BY <1>1, <1>3, RequestGoes DEF Begun, Reading

LEMMA EndMoves ==
  ASSUME TypeOK, NEW c \in Calls, NEW op, NEW s \in Sessions, EndSession(c, op, s)
  PROVE  op \in {"logout", "owned", "others"} /\ Begun(c, op, {"end"})
<1> DEFINE q == [Idle EXCEPT !.op = op, !.pc = "end", !.ses = s]
<1>1. op \in {"logout", "owned", "others"} /\ Goes(c, q)
  BY DEF EndSession, Begins
<1>2. q \in Requests
  BY <1>1, Beginning, SessionsFromOne DEF Ops, Starts
<1>3. q.op = op /\ q.pc = "end" /\ q.ending = {} /\ q.evict = {} /\ q.valid = "none"
  BY DEF Idle
<1> HIDE DEF q
<1> QED BY <1>1, <1>2, <1>3, RequestGoes DEF Begun

LEMMA RefreshMoves ==
  ASSUME TypeOK, NEW c \in Calls, NEW t \in Tokens, Refresh(c, t)
  PROVE  /\ Begun(c, "refresh", {"validate", "reuse"})
         /\ req'[c].tok = t /\ req'[c].ses = tokenOf[t]
<1> DEFINE pc == IF token[t] = "live" THEN "validate" ELSE "reuse"
           s == tokenOf[t]
           q == [Idle EXCEPT !.op = "refresh", !.tok = t, !.ses = s, !.pc = pc]
<1>1. Goes(c, q)
  BY DEF Refresh, Begins
<1>2. pc \in {"validate", "reuse"} /\ s \in 0..MaxSessions /\ t \in Nat
  <2>1. pc \in {"validate", "reuse"}
    OBVIOUS
  <2>2. s \in 0..MaxSessions
    BY DEF TypeOK
  <2>3. t \in Nat
    BY AdminsAssumption DEF Tokens
  <2> QED BY <2>1, <2>2, <2>3
<1> HIDE DEF pc, s
<1>3. q.op = "refresh" /\ q.pc = pc /\ q.ending = {} /\ q.evict = {} /\ q.valid = "none" /\ q.tok = t /\ q.ses = s
  <2>1. ASSUME NEW r \in Requests
        PROVE  LET p == [r EXCEPT !.op = "refresh", !.tok = t, !.ses = s, !.pc = pc] IN
               /\ p.op = "refresh" /\ p.pc = pc /\ p.tok = t /\ p.ses = s
               /\ p.ending = r.ending /\ p.evict = r.evict /\ p.valid = r.valid
    BY DEF Requests
  <2>2. Idle.ending = {} /\ Idle.evict = {} /\ Idle.valid = "none"
    BY DEF Idle
  <2> QED BY <2>1, <2>2, IdleRequest
<1>4. q \in Requests
  BY <1>2, Beginning DEF Ops, Starts
<1> HIDE DEF q
<1> QED BY <1>1, <1>2, <1>3, <1>4, RequestGoes DEF Begun, s

LEMMA AnswerMoves ==
  ASSUME TypeOK, NEW c \in Calls, AnswerCode(c)
  PROVE  Begun(c, "answer", {"open"})
<1> DEFINE q == [Idle EXCEPT !.op = "answer", !.pc = "open", !.tok = code]
<1>1. Goes(c, q)
  BY DEF AnswerCode, Begins
<1>2. 0 \in 0..MaxSessions /\ code \in Nat
  BY AdminsAssumption DEF TypeOK
<1>3. q \in Requests
  BY <1>2, Beginning DEF Ops, Starts
<1>4. q.op = "answer" /\ q.pc = "open" /\ q.ending = {} /\ q.evict = {} /\ q.valid = "none"
  BY DEF Idle
<1> HIDE DEF q
<1> QED BY <1>1, <1>3, <1>4, RequestGoes DEF Begun

LEMMA ResetMoves ==
  ASSUME TypeOK, NEW c \in Calls, NEW i \in 1..MaxCodes, ResetPassword(c, i)
  PROVE  Begun(c, "reset", {"end"})
<1> DEFINE q == [Idle EXCEPT !.op = "reset", !.pc = "end", !.tok = i]
<1>1. Goes(c, q)
  BY DEF ResetPassword, Begins
<1>2. 0 \in 0..MaxSessions /\ i \in Nat
  BY AdminsAssumption
<1>3. q \in Requests
  BY <1>2, Beginning DEF Ops, Starts
<1>4. q.op = "reset" /\ q.pc = "end" /\ q.ending = {} /\ q.evict = {} /\ q.valid = "none"
  BY DEF Idle
<1> HIDE DEF q
<1> QED BY <1>1, <1>3, <1>4, RequestGoes DEF Begun
-----------------------------------------------------------------------------
(* Types, in the groups of variables that actions change together.         *)

PersonOK == seeder \in [Seeders -> {"start", "locked", "create", "done"}] /\ admins \in Nat
CredentialOK ==
  /\ verified \in BOOLEAN /\ undone \in BOOLEAN /\ latest \in Nat
  /\ credential \in [pw : Nat, weak : BOOLEAN] \cup {None}
ResetOK ==
  /\ code \in 0..MaxCodes /\ codes \in 0..MaxCodes
  /\ reset \in [1..MaxCodes -> {"unborn", "ACTIVE", "SUPERSEDED", "EXPIRED", "CONSUMED"}]
SessionOK ==
  /\ session \in [Sessions -> {"unborn", "live", "ended"}]
  /\ deviceOf \in [Sessions -> Devices \cup {None}]
  /\ startedIn \in [Sessions -> Nat]
  /\ late \subseteq Sessions /\ kept \subseteq 0..MaxSessions
TokenOK ==
  /\ token \in [Tokens -> {"unborn", "live", "revoked"}]
  /\ tokenOf \in [Tokens -> 0..MaxSessions] /\ lateTokens \subseteq Tokens
CacheOK == cached \subseteq 0..MaxSessions /\ stale \subseteq cached
RequestOK == req \in [Calls -> Requests] /\ calls \in Nat /\ faults \in Nat

LEMMA TypeGroups ==
  TypeOK <=> PersonOK /\ CredentialOK /\ ResetOK /\ SessionOK /\ TokenOK /\ CacheOK /\ RequestOK
  BY DEF TypeOK, PersonOK, CredentialOK, ResetOK, SessionOK, TokenOK, CacheOK, RequestOK

LEMMA GroupsNext ==
  ASSUME PersonOK', CredentialOK', ResetOK', SessionOK', TokenOK', CacheOK', RequestOK'
  PROVE  TypeOK'
  BY DEF TypeOK, PersonOK, CredentialOK, ResetOK, SessionOK, TokenOK, CacheOK, RequestOK

LEMMA SameGroups ==
  ASSUME TypeOK
  PROVE  /\ UNCHANGED personVars => PersonOK'
         /\ UNCHANGED credentialVars => CredentialOK'
         /\ UNCHANGED resetVars => ResetOK'
         /\ UNCHANGED sessionVars => SessionOK'
         /\ UNCHANGED tokenVars => TokenOK'
         /\ UNCHANGED cacheVars => CacheOK'
<1>1. UNCHANGED personVars => PersonOK'
  BY TypeGroups DEF PersonOK, personVars
<1>2. UNCHANGED credentialVars => CredentialOK'
  BY TypeGroups DEF CredentialOK, credentialVars
<1>3. UNCHANGED resetVars => ResetOK'
  BY TypeGroups DEF ResetOK, resetVars
<1>4. UNCHANGED sessionVars => SessionOK'
  BY TypeGroups DEF SessionOK, sessionVars
<1>5. UNCHANGED tokenVars => TokenOK'
  BY TypeGroups DEF TokenOK, tokenVars
<1>6. UNCHANGED cacheVars => CacheOK'
  BY TypeGroups DEF CacheOK, cacheVars
<1> QED BY <1>1, <1>2, <1>3, <1>4, <1>5, <1>6

(* The account is its four groups. *)
LEMMA SameAccount ==
  ASSUME UNCHANGED accountVars
  PROVE  UNCHANGED credentialVars /\ UNCHANGED resetVars /\ UNCHANGED sessionVars /\ UNCHANGED tokenVars
  BY DEF accountVars

LEMMA BeginsTypes ==
  ASSUME TypeOK, NEW c \in Calls, NEW q, Begins(c, q), req' \in [Calls -> Requests]
  PROVE  TypeOK'
<1>1. UNCHANGED personVars /\ UNCHANGED accountVars /\ UNCHANGED cacheVars
  BY DEF Begins
<1>2. RequestOK'
  BY TypeGroups DEF Begins, RequestOK
<1> QED BY <1>1, <1>2, SameAccount, SameGroups, GroupsNext

LEMMA SeedsTypes ==
  ASSUME TypeOK, NEW p \in Seeders, Seeds(p)
  PROVE  TypeOK'
<1>1. UNCHANGED accountVars /\ UNCHANGED cacheVars
  BY DEF Seeds, SeedLock, SeedLooks, SeedCommits, SeedSkips
<1>2. RequestOK'
  BY TypeGroups DEF Seeds, SeedLock, SeedLooks, SeedCommits, SeedSkips, RequestOK
<1>3. PersonOK'
  BY TypeGroups DEF Seeds, SeedLock, SeedLooks, SeedCommits, SeedSkips, PersonOK
<1> QED BY <1>1, <1>2, <1>3, SameAccount, SameGroups, GroupsNext

LEMMA RehashTypes ==
  ASSUME TypeOK, NEW c \in Calls, Rehash(c)
  PROVE  TypeOK'
<1>1. UNCHANGED <<personVars, resetVars, sessionVars, tokenVars, cacheVars>>
  BY DEF Rehash, Proceeds
<1>2. RequestOK'
  BY TypeGroups, RehashMoves DEF Rehash, Proceeds, RequestOK
<1>3. undone' \in BOOLEAN
  BY DEF Rehash
<1>4. req[c].pw \in Nat
  BY RequestAt DEF Requests
<1>5. CredentialOK'
  BY <1>3, <1>4, TypeGroups DEF Rehash, CredentialOK
<1> QED BY <1>1, <1>2, <1>5, SameGroups, GroupsNext

(* A step of a request that leaves the account and the cache. *)
LEMMA QuietTypes ==
  ASSUME TypeOK, NEW c \in Calls, req' \in [Calls -> Requests],
         FindOnDevice(c) \/ SignInConflicts(c) \/ StartEnding(c) \/ Validate(c) \/ RefreshRefused(c)
  PROVE  TypeOK'
<1>1. UNCHANGED personVars /\ UNCHANGED accountVars /\ UNCHANGED cacheVars /\ UNCHANGED <<calls, faults>>
  BY DEF FindOnDevice, SignInConflicts, StartEnding, Validate, RefreshRefused, Proceeds
<1>2. RequestOK'
  BY <1>1, TypeGroups DEF RequestOK
<1> QED BY <1>1, <1>2, SameAccount, SameGroups, GroupsNext

LEMMA SignInTypes ==
  ASSUME TypeOK, NEW c \in Calls, SignInCommits(c)
  PROVE  TypeOK'
<1>1. UNCHANGED <<personVars, credentialVars, resetVars, cacheVars>>
  BY DEF SignInCommits, Proceeds
<1>2. RequestOK'
  BY TypeGroups, SignInMoves DEF SignInCommits, Proceeds, RequestOK, Committed
<1>3. req[c].dev \in Devices \cup {None} /\ req[c].since \in Nat
  BY RequestAt DEF Requests
<1>4. SessionOK'
  BY <1>3, TypeGroups DEF SignInCommits, SessionOK, Ended
<1>5. TokenOK'
  BY TypeGroups DEF SignInCommits, TokenOK, Revoked
<1> QED BY <1>1, <1>2, <1>4, <1>5, SameGroups, GroupsNext

LEMMA NewTokenTypes ==
  ASSUME TypeOK, NEW c \in Calls, NEW parents, NewToken(c, parents)
  PROVE  TokenOK'
<1>1. req[c].ses \in 0..MaxSessions
  BY RequestAt DEF Requests
<1> QED BY <1>1, TypeGroups DEF NewToken, TokenOK

LEMMA TokenTypes ==
  ASSUME TypeOK, NEW c \in Calls, IssueToken(c) \/ Rotate(c)
  PROVE  TypeOK'
<1>1. /\ UNCHANGED <<personVars, credentialVars, resetVars, sessionVars, cacheVars>>
      /\ Done(c) /\ calls' = calls /\ faults' = faults
      /\ \E parents : NewToken(c, parents)
  BY DEF IssueToken, Rotate, Proceeds
<1>2. RequestOK'
  BY <1>1, TypeGroups, RequestDone DEF RequestOK
<1> QED BY <1>1, <1>2, NewTokenTypes, SameGroups, GroupsNext

LEMMA EndingTypes ==
  ASSUME TypeOK, NEW c \in Calls, EndingCommits(c)
  PROVE  TypeOK'
<1>1. UNCHANGED <<personVars, cacheVars>>
  BY DEF EndingCommits, Proceeds
<1>2. RequestOK'
  BY TypeGroups, EndingMoves DEF EndingCommits, Proceeds, RequestOK, Committed
<1>3. req[c].ses \in 0..MaxSessions
  BY RequestAt DEF Requests
<1>4. TokenOK'
  BY TypeGroups DEF EndingCommits, TokenOK, Revoked
<1>5. SessionOK'
  BY <1>3, TypeGroups DEF EndingCommits, SetsPassword, SessionOK, Ended, LiveSessions
<1>6. CredentialOK'
  <2>1. CASE req[c].op \in {"reset", "change"}
    <3>1. latest \in Nat /\ verified \in BOOLEAN /\ verified' = verified /\ undone' = FALSE
          /\ latest' = latest + 1 /\ credential' = [pw |-> latest + 1, weak |-> FALSE]
      BY <2>1, TypeGroups DEF EndingCommits, SetsPassword, CredentialOK
    <3>2. credential' \in [pw : Nat, weak : BOOLEAN]
      BY <3>1
    <3> QED BY <3>1, <3>2 DEF CredentialOK
  <2>2. CASE req[c].op \notin {"reset", "change"}
    BY <2>2, TypeGroups DEF EndingCommits, CredentialOK
  <2> QED BY <2>1, <2>2
<1>7. ResetOK'
  BY TypeGroups DEF EndingCommits, SetsPassword, ResetOK
<1> QED BY <1>1, <1>2, <1>4, <1>5, <1>6, <1>7, SameGroups, GroupsNext

(* A step that leaves the account, and keeps only the cached as stale. *)
LEMMA CacheTypes ==
  ASSUME TypeOK, NEW c \in Calls, req' \in [Calls -> Requests],
         Evict(c) \/ EvictionLost(c) \/ StoreSnapshot(c) \/ Dies(c)
  PROVE  TypeOK'
<1>1. UNCHANGED <<personVars, accountVars>>
  BY DEF Evict, EvictionLost, StoreSnapshot, Dies, Proceeds
<1>2. RequestOK'
  BY TypeGroups DEF RequestOK, Evict, EvictionLost, StoreSnapshot, Dies, Proceeds
<1>3. req[c].ses \in 0..MaxSessions
  BY RequestAt DEF Requests
<1>4. CacheOK'
  BY <1>3, TypeGroups DEF CacheOK, Evict, EvictionLost, StoreSnapshot, Dies
<1> QED BY <1>1, <1>2, <1>4, SameAccount, SameGroups, GroupsNext

LEMMA ReuseTypes ==
  ASSUME TypeOK, NEW c \in Calls, EndReused(c)
  PROVE  TypeOK'
<1>1. UNCHANGED <<personVars, credentialVars, resetVars, cacheVars>>
  BY DEF EndReused, Proceeds
<1>2. RequestOK'
  BY TypeGroups, ReuseMoves DEF EndReused, Proceeds, RequestOK
<1>3. SessionOK' /\ TokenOK'
  BY TypeGroups DEF EndReused, SessionOK, TokenOK
<1> QED BY <1>1, <1>2, <1>3, SameGroups, GroupsNext

LEMMA CodeTypes ==
  ASSUME TypeOK,
         \/ \E c \in Calls : RequestReset(c)
         \/ CodeEnds
         \/ \E i \in 1..MaxCodes : ResetExpires(i)
  PROVE  TypeOK'
<1>1. UNCHANGED <<personVars, credentialVars, sessionVars, tokenVars, cacheVars>>
  BY DEF RequestReset, CodeEnds, ResetExpires
<1>2. RequestOK'
  BY TypeGroups DEF RequestReset, CodeEnds, ResetExpires, RequestOK
<1>3. ResetOK'
  BY TypeGroups, AdminsAssumption DEF RequestReset, CodeEnds, ResetExpires, ResetOK
<1> QED BY <1>1, <1>2, <1>3, SameGroups, GroupsNext

LEMMA OpenTypes ==
  ASSUME TypeOK, NEW c \in Calls, Open(c)
  PROVE  TypeOK'
<1>1. UNCHANGED <<personVars, sessionVars, tokenVars, cacheVars>>
  BY DEF Open, Proceeds
<1>2. RequestOK'
  BY TypeGroups, RequestDone DEF Open, Proceeds, RequestOK
<1>3. CredentialOK'
  BY TypeGroups DEF Open, CredentialOK
<1>4. ResetOK'
  BY TypeGroups, AdminsAssumption DEF Open, ResetOK
<1> QED BY <1>1, <1>2, <1>3, <1>4, SameGroups, GroupsNext

LEMMA ExpireTypes ==
  ASSUME TypeOK, NEW s, Expire(s)
  PROVE  TypeOK'
<1>1. UNCHANGED personVars /\ UNCHANGED accountVars
  BY DEF Expire
<1>2. RequestOK' /\ CacheOK'
  BY TypeGroups DEF Expire, RequestOK, CacheOK
<1> QED BY <1>1, <1>2, SameAccount, SameGroups, GroupsNext

LEMMA InitTypes == Init => TypeOK
<1> SUFFICES ASSUME Init PROVE TypeOK
  OBVIOUS
<1>1. CredentialOK
  <2>1. [pw |-> 0, weak |-> TRUE] \in [pw : Nat, weak : BOOLEAN]
    OBVIOUS
  <2> QED BY <2>1 DEF Init, CredentialOK
<1>2. PersonOK /\ CacheOK /\ RequestOK
  BY IdleRequest, AdminsAssumption DEF Init, PersonOK, CacheOK, RequestOK
<1>3. ResetOK
  BY AdminsAssumption DEF Init, ResetOK
<1>4. SessionOK /\ TokenOK
  BY AdminsAssumption DEF Init, SessionOK, TokenOK
<1> QED BY <1>1, <1>2, <1>3, <1>4, TypeGroups

LEMMA StepTypes == TypeOK /\ [Next]_vars => TypeOK'
<1> SUFFICES ASSUME TypeOK, [Next]_vars PROVE TypeOK'
  OBVIOUS
<1>1. CASE UNCHANGED vars
  <2>1. RequestOK' /\ UNCHANGED <<personVars, accountVars, cacheVars>>
    BY <1>1, TypeGroups DEF vars, RequestOK
  <2> QED BY <2>1, SameAccount, SameGroups, GroupsNext
<1>2. ASSUME NEW p \in Seeders, Seeds(p) PROVE TypeOK'
  BY <1>2, SeedsTypes
<1>3. ASSUME NEW c \in Calls, SignsIn(c) PROVE TypeOK'
  <2>1. ASSUME NEW d \in Devices, Login(c, d) PROVE TypeOK'
    BY <2>1, LoginMoves, BeginsTypes DEF Begun, Login
  <2>2. CASE FindOnDevice(c) \/ SignInConflicts(c)
    BY <2>2, FindMoves, ConflictMoves, QuietTypes
  <2> QED BY <1>3, <2>1, <2>2, RehashTypes, SignInTypes, TokenTypes DEF SignsIn
<1>4. ASSUME NEW c \in Calls, Ends(c) PROVE TypeOK'
  <2>1. ASSUME NEW s \in Sessions, ChangePassword(c, s) PROVE TypeOK'
    BY <2>1, ChangeMoves, BeginsTypes DEF Begun, ChangePassword
  <2>2. ASSUME NEW s \in Sessions, NEW op, EndSession(c, op, s) PROVE TypeOK'
    BY <2>2, EndMoves, BeginsTypes DEF Begun, EndSession
  <2>3. CASE StartEnding(c)
    BY <2>3, StartMoves, QuietTypes
  <2>4. CASE Evict(c) \/ EvictionLost(c)
    BY <2>4, EvictionMoves, CacheTypes DEF Evict, EvictionLost
  <2> QED BY <1>4, <2>1, <2>2, <2>3, <2>4, EndingTypes DEF Ends
<1>5. ASSUME NEW c \in Calls, Refreshes(c) PROVE TypeOK'
  <2>1. ASSUME NEW t \in Tokens, Refresh(c, t) PROVE TypeOK'
    BY <2>1, RefreshMoves, BeginsTypes DEF Begun, Refresh
  <2>2. CASE Validate(c)
    BY <2>2, ValidateMoves, QuietTypes
  <2>3. CASE StoreSnapshot(c)
    BY <2>3, RequestMoves, CacheTypes DEF StoreSnapshot, Steps
  <2>4. CASE RefreshRefused(c)
    BY <2>4, RequestDone, QuietTypes DEF RefreshRefused
  <2> QED BY <1>5, <2>1, <2>2, <2>3, <2>4, ReuseTypes, TokenTypes DEF Refreshes
<1>6. ASSUME NEW c \in Calls, Resets(c) PROVE TypeOK'
  <2>1. CASE AnswerCode(c)
    BY <2>1, AnswerMoves, BeginsTypes DEF Begun, AnswerCode
  <2>2. ASSUME NEW i \in 1..MaxCodes, ResetPassword(c, i) PROVE TypeOK'
    BY <2>2, ResetMoves, BeginsTypes DEF Begun, ResetPassword
  <2> QED BY <1>6, <2>1, <2>2, CodeTypes, OpenTypes DEF Resets
<1>7. ASSUME NEW c \in Calls, Dies(c) PROVE TypeOK'
  BY <1>7, RequestDone, CacheTypes DEF Dies
<1>8. ASSUME NEW s \in Sessions, Expire(s) PROVE TypeOK'
  BY <1>8, ExpireTypes
<1> QED BY <1>1, <1>2, <1>3, <1>4, <1>5, <1>6, <1>7, <1>8, CodeTypes DEF Next

(* The account and the requests keep their types, whatever interleaves. *)
THEOREM AdminTypes == Spec => []TypeOK
<1> QED BY InitTypes, StepTypes, PTL DEF Spec
-----------------------------------------------------------------------------
(* The first admin.  A seeder about to create holds the lock and has seen  *)
(* nobody; a password is known only of an address that was proved, by      *)
(* someone who had a code.                                                 *)

SeedersInTurn ==
  /\ \A p, q \in Seeders : seeder[p] \in {"locked", "create"} /\ seeder[q] \in {"locked", "create"} => p = q
  /\ \A p \in Seeders : seeder[p] = "create" => admins = 0
  /\ admins \in {0, 1}

ClaimedFirst ==
  /\ credential # None => admins = 1 /\ verified
  /\ \A i \in 1..MaxCodes : reset[i] # "unborn" => verified
  /\ \A c \in Calls : req[c].pc # "idle" => admins = 1
  /\ \A c \in Calls : req[c].pc = "rehash" \/ req[c].op \in {"change", "reset"} => verified
  /\ \A c \in Calls : req[c].pc = "rehash" => credential # None

AtTheirSteps == \A c \in Calls :
  /\ req[c].pc = "find" => req[c].op = "login"
  /\ req[c].pc = "rehash" => req[c].op \in {"login", "change"}

Claimed == TypeOK /\ SeedersInTurn /\ ClaimedFirst /\ AtTheirSteps

(* What a request may become. *)
Rightly(c) ==
  /\ req'[c].pc = "rehash" \/ req'[c].op \in {"change", "reset"} => verified'
  /\ req'[c].pc = "find" => req'[c].op = "login"
  /\ req'[c].pc = "rehash" => req'[c].op \in {"login", "change"} /\ credential' # None

LEMMA ClaimStep ==
  ASSUME Claimed, NEW c \in Calls, Only(c), Rightly(c), admins > 0, UNCHANGED personVars,
         verified => verified', credential' # None => credential # None \/ verified',
         credential # None => credential' # None,
         \A i \in 1..MaxCodes : reset'[i] # "unborn" => reset[i] # "unborn" \/ verified'
  PROVE  SeedersInTurn' /\ ClaimedFirst' /\ AtTheirSteps'
<1>1. SeedersInTurn'
  BY DEF Claimed, SeedersInTurn, personVars
<1>2. admins' = 1
  BY DEF Claimed, SeedersInTurn, personVars
<1>3. ClaimedFirst'
  BY <1>2 DEF Claimed, ClaimedFirst, Only, Rightly
<1>4. AtTheirSteps'
  BY DEF Claimed, AtTheirSteps, Only, Rightly
<1> QED BY <1>1, <1>3, <1>4

LEMMA Settable == \A w \in Nat, k \in BOOLEAN : [pw |-> w, weak |-> k] # None
<1> SUFFICES ASSUME NEW w \in Nat, NEW k \in BOOLEAN PROVE [pw |-> w, weak |-> k] # None
  OBVIOUS
<1>1. [pw |-> w, weak |-> k] \in [pw : Nat, weak : BOOLEAN]
  OBVIOUS
<1> QED BY <1>1, AdminsAssumption

LEMMA Busy ==
  ASSUME Claimed, NEW c \in Calls, req[c].pc # "idle"
  PROVE  admins > 0
  BY DEF Claimed, ClaimedFirst

LEMMA IdleIsRight ==
  ASSUME NEW c \in Calls, req'[c] = Idle
  PROVE  Rightly(c)
  BY DEF Rightly, Idle

LEMMA SeedsClaim ==
  ASSUME Claimed, NEW p \in Seeders, Seeds(p)
  PROVE  SeedersInTurn' /\ ClaimedFirst' /\ AtTheirSteps'
<1>1. UNCHANGED <<credential, verified, reset, req>>
  BY DEF Seeds, SeedLock, SeedLooks, SeedCommits, SeedSkips, accountVars, credentialVars, resetVars
<1>2. seeder \in [Seeders -> {"start", "locked", "create", "done"}]
  BY DEF Claimed, TypeOK
<1>3. SeedersInTurn' /\ admins' >= admins
  <2>1. CASE SeedLock(p)
    BY <1>2, <2>1 DEF SeedLock, Claimed, SeedersInTurn
  <2>2. CASE SeedLooks(p)
    BY <1>2, <2>2 DEF SeedLooks, Claimed, SeedersInTurn
  <2>3. CASE SeedCommits(p)
    BY <1>2, <2>3 DEF SeedCommits, Claimed, SeedersInTurn
  <2>4. CASE SeedSkips(p)
    BY <1>2, <2>4 DEF SeedSkips, Claimed, SeedersInTurn
  <2> QED BY <2>1, <2>2, <2>3, <2>4 DEF Seeds
<1>4. ClaimedFirst'
  BY <1>1, <1>3 DEF Claimed, SeedersInTurn, ClaimedFirst
<1>5. AtTheirSteps'
  BY <1>1 DEF Claimed, AtTheirSteps
<1> QED BY <1>3, <1>4, <1>5

LEMMA BeginsClaim ==
  ASSUME Claimed, NEW c \in Calls, NEW q, Begins(c, q), NEW op, NEW pcs, Begun(c, op, pcs),
         "find" \in pcs => op = "login", "rehash" \in pcs => op \in {"login", "change"} /\ credential # None,
         op = "change" => credential # None, op = "reset" => \E i \in 1..MaxCodes : reset[i] # "unborn"
  PROVE  SeedersInTurn' /\ ClaimedFirst' /\ AtTheirSteps'
<1>1. UNCHANGED personVars /\ admins > 0 /\ UNCHANGED <<verified, credential, reset>>
  BY DEF Begins, accountVars, credentialVars, resetVars
<1>2. Rightly(c)
  BY <1>1 DEF Begun, Rightly, Claimed, ClaimedFirst
<1> QED BY <1>1, <1>2, ClaimStep DEF Begun

LEMMA SignsInClaim ==
  ASSUME Claimed, NEW c \in Calls, SignsIn(c)
  PROVE  SeedersInTurn' /\ ClaimedFirst' /\ AtTheirSteps'
<1> USE DEF Claimed
<1>1. ASSUME NEW d \in Devices, Login(c, d) PROVE SeedersInTurn' /\ ClaimedFirst' /\ AtTheirSteps'
  BY <1>1, LoginMoves, BeginsClaim DEF Login
<1>2. CASE Rehash(c)
  <2>1. UNCHANGED personVars /\ verified' = verified /\ reset' = reset /\ req[c].pc = "rehash"
    BY <1>2 DEF Rehash, Proceeds, At, resetVars
  <2>2. verified /\ req[c].op \in {"login", "change"}
    BY <2>1 DEF ClaimedFirst, AtTheirSteps
  <2>3. Go(c, IF req[c].op = "login" THEN "find" ELSE "end")
    BY <1>2 DEF Rehash
  <2>4. req'[c].pc = (IF req[c].op = "login" THEN "find" ELSE "end") /\ Only(c) /\ Alike(req'[c], req[c])
    BY <2>3, RequestMoves DEF Steps
  <2>5. Rightly(c)
    BY <2>1, <2>2, <2>4 DEF Rightly, Alike
  <2>6. credential' # None
    <3>1. req[c].pw \in Nat /\ credential' = [pw |-> req[c].pw, weak |-> FALSE]
      BY <1>2, RequestAt DEF Rehash, Requests
    <3> QED BY <3>1, Settable
  <2> QED BY <2>1, <2>2, <2>4, <2>5, <2>6, ClaimStep, Busy
<1>3. CASE FindOnDevice(c)
  <2>1. UNCHANGED <<personVars, verified, credential, reset>> /\ req[c].pc = "find"
    BY <1>3 DEF FindOnDevice, Proceeds, At, accountVars, credentialVars, resetVars
  <2>2. Rightly(c) /\ Only(c)
    BY <1>3, <2>1, FindMoves DEF Rightly, AtTheirSteps, Alike
  <2> QED BY <2>1, <2>2, ClaimStep, Busy
<1>4. CASE SignInConflicts(c)
  <2>1. UNCHANGED <<personVars, verified, credential, reset>> /\ req[c].pc = "commit"
    BY <1>4 DEF SignInConflicts, Proceeds, At, accountVars, credentialVars, resetVars
  <2>2. Rightly(c) /\ Only(c)
    BY <1>4, ConflictMoves, IdleIsRight DEF Rightly
  <2> QED BY <2>1, <2>2, ClaimStep, Busy
<1>5. CASE SignInCommits(c)
  <2>1. UNCHANGED <<personVars, verified, credential, reset>> /\ req[c].pc = "commit" /\ req[c].op = "login"
    BY <1>5 DEF SignInCommits, Proceeds, At, credentialVars, resetVars
  <2>2. Rightly(c) /\ Only(c)
    BY <1>5, <2>1, SignInMoves DEF Rightly, Committed
  <2> QED BY <2>1, <2>2, ClaimStep, Busy
<1>6. CASE IssueToken(c)
  <2>1. UNCHANGED <<personVars, verified, credential, reset>> /\ req[c].pc = "issue"
    BY <1>6 DEF IssueToken, Proceeds, At, credentialVars, resetVars
  <2>2. Rightly(c) /\ Only(c)
    BY <1>6, RequestDone, IdleIsRight DEF IssueToken
  <2> QED BY <2>1, <2>2, ClaimStep, Busy
<1> QED BY <1>1, <1>2, <1>3, <1>4, <1>5, <1>6 DEF SignsIn

LEMMA EndsClaim ==
  ASSUME Claimed, NEW c \in Calls, Ends(c)
  PROVE  SeedersInTurn' /\ ClaimedFirst' /\ AtTheirSteps'
<1> USE DEF Claimed
<1>1. ASSUME NEW s \in Sessions, ChangePassword(c, s) PROVE SeedersInTurn' /\ ClaimedFirst' /\ AtTheirSteps'
  BY <1>1, ChangeMoves, BeginsClaim DEF ChangePassword
<1>2. ASSUME NEW s \in Sessions, NEW op \in {"logout", "owned", "others"}, EndSession(c, op, s)
      PROVE  SeedersInTurn' /\ ClaimedFirst' /\ AtTheirSteps'
  BY <1>2, EndMoves, BeginsClaim DEF EndSession
<1>3. CASE StartEnding(c)
  <2>1. UNCHANGED <<personVars, verified, credential, reset>> /\ req[c].pc = "end"
    BY <1>3 DEF StartEnding, Proceeds, At, accountVars, credentialVars, resetVars
  <2>2. Rightly(c) /\ Only(c)
    BY <1>3, <2>1, StartMoves, IdleIsRight DEF Rightly, ClaimedFirst
  <2> QED BY <2>1, <2>2, ClaimStep, Busy
<1>4. CASE EndingCommits(c)
  <2>1. UNCHANGED <<personVars, verified>> /\ req[c].pc = "commit"
    BY <1>4 DEF EndingCommits, Proceeds, At
  <2>2. Rightly(c) /\ Only(c)
    BY <1>4, <2>1, EndingMoves DEF Rightly, Committed, ClaimedFirst
  <2>3. CASE req[c].op \in {"change", "reset"}
    <3>1. verified' /\ credential' # None
      <4>1. latest + 1 \in Nat /\ credential' = [pw |-> latest + 1, weak |-> FALSE]
        BY <1>4, <2>3 DEF EndingCommits, SetsPassword, TypeOK
      <4>2. verified'
        BY <2>1, <2>3 DEF ClaimedFirst
      <4> QED BY <4>1, <4>2, Settable
    <3> QED BY <2>1, <2>2, <3>1, ClaimStep, Busy
  <2>4. CASE req[c].op \notin {"change", "reset"}
    <3>1. UNCHANGED <<credential, reset>>
      BY <1>4, <2>4 DEF EndingCommits
    <3> QED BY <2>1, <2>2, <3>1, ClaimStep, Busy
  <2> QED BY <2>3, <2>4
<1>5. CASE Evict(c) \/ EvictionLost(c)
  <2>1. UNCHANGED <<personVars, verified, credential, reset>> /\ req[c].pc = "evict" /\ AfterEviction(c)
    BY <1>5 DEF Evict, EvictionLost, Proceeds, At, accountVars, credentialVars, resetVars
  <2>2. Rightly(c) /\ Only(c)
    BY <2>1, EvictionMoves, IdleIsRight DEF Rightly
  <2> QED BY <2>1, <2>2, ClaimStep, Busy
<1> QED BY <1>1, <1>2, <1>3, <1>4, <1>5 DEF Ends

LEMMA RefreshesClaim ==
  ASSUME Claimed, NEW c \in Calls, Refreshes(c)
  PROVE  SeedersInTurn' /\ ClaimedFirst' /\ AtTheirSteps'
<1> USE DEF Claimed
<1>1. ASSUME NEW t \in Tokens, Refresh(c, t) PROVE SeedersInTurn' /\ ClaimedFirst' /\ AtTheirSteps'
  BY <1>1, RefreshMoves, BeginsClaim DEF Refresh
<1>2. CASE EndReused(c) \/ Validate(c) \/ StoreSnapshot(c) \/ Rotate(c) \/ RefreshRefused(c)
  <2>1. UNCHANGED <<personVars, verified, credential, reset>> /\ req[c].pc # "idle"
    BY <1>2 DEF EndReused, Validate, StoreSnapshot, Rotate, RefreshRefused, Proceeds, At,
                accountVars, credentialVars, resetVars
  <2>2. req'[c] = Idle \/ (req'[c].pc \notin {"rehash", "find"} /\ req'[c].op = req[c].op)
    BY <1>2, ReuseMoves, ValidateMoves, RequestMoves, RequestDone
       DEF StoreSnapshot, Rotate, RefreshRefused, Steps, Alike
  <2>3. Only(c)
    BY <1>2, ReuseMoves, ValidateMoves, RequestMoves, RequestDone DEF StoreSnapshot, Rotate, RefreshRefused, Steps
  <2>4. Rightly(c)
    BY <2>1, <2>2, IdleIsRight DEF Rightly, ClaimedFirst
  <2> QED BY <2>1, <2>3, <2>4, ClaimStep, Busy
<1> QED BY <1>1, <1>2 DEF Refreshes

LEMMA ResetsClaim ==
  ASSUME Claimed, NEW c \in Calls, Resets(c)
  PROVE  SeedersInTurn' /\ ClaimedFirst' /\ AtTheirSteps'
<1> USE DEF Claimed
<1>1. CASE AnswerCode(c)
  BY <1>1, AnswerMoves, BeginsClaim DEF AnswerCode
<1>2. ASSUME NEW i \in 1..MaxCodes, ResetPassword(c, i) PROVE SeedersInTurn' /\ ClaimedFirst' /\ AtTheirSteps'
  BY <1>2, ResetMoves, BeginsClaim DEF ResetPassword
<1>3. CASE RequestReset(c)
  BY <1>3 DEF RequestReset, personVars, credentialVars, SeedersInTurn, ClaimedFirst, AtTheirSteps
<1>4. CASE Open(c)
  <2>1. UNCHANGED personVars /\ req[c].pc = "open" /\ Done(c) /\ credential' = credential
    BY <1>4 DEF Open, Proceeds, At
  <2>2. Rightly(c) /\ Only(c)
    BY <2>1, RequestDone, IdleIsRight
  <2>3. verified => verified'
    BY <1>4 DEF Open
  <2>4. verified' \/ reset' = reset
    BY <1>4 DEF Open
  <2> QED BY <2>1, <2>2, <2>3, <2>4, ClaimStep, Busy
<1> QED BY <1>1, <1>2, <1>3, <1>4 DEF Resets

LEMMA ClaimedInvariant == Spec => []Claimed
<1>1. Init => Claimed
  <2>1. Init => SeedersInTurn /\ ClaimedFirst /\ AtTheirSteps
    BY DEF Init, SeedersInTurn, ClaimedFirst, AtTheirSteps, Idle
  <2> QED BY <2>1, InitTypes DEF Claimed
<1>2. Claimed /\ [Next]_vars => Claimed'
  <2> SUFFICES ASSUME Claimed, [Next]_vars PROVE SeedersInTurn' /\ ClaimedFirst' /\ AtTheirSteps'
    BY StepTypes DEF Claimed
  <2>1. CASE UNCHANGED vars
    BY <2>1 DEF vars, personVars, accountVars, credentialVars, resetVars, Claimed, SeedersInTurn, ClaimedFirst, AtTheirSteps
  <2>2. ASSUME NEW c \in Calls, Dies(c) PROVE SeedersInTurn' /\ ClaimedFirst' /\ AtTheirSteps'
    <3>1. UNCHANGED <<personVars, verified, credential, reset>> /\ req[c].pc # "idle" /\ Done(c)
      BY <2>2 DEF Dies, At, accountVars, credentialVars, resetVars
    <3>2. Only(c) /\ Rightly(c)
      BY <3>1, RequestDone, IdleIsRight DEF Claimed
    <3> QED BY <3>1, <3>2, ClaimStep, Busy
  <2>3. ASSUME NEW s \in Sessions, Expire(s) PROVE SeedersInTurn' /\ ClaimedFirst' /\ AtTheirSteps'
    BY <2>3 DEF Expire, personVars, accountVars, credentialVars, resetVars, Claimed, SeedersInTurn, ClaimedFirst, AtTheirSteps
  <2>4. CASE CodeEnds
    BY <2>4 DEF CodeEnds, personVars, credentialVars, Claimed, SeedersInTurn, ClaimedFirst, AtTheirSteps
  <2>5. ASSUME NEW i \in 1..MaxCodes, ResetExpires(i) PROVE SeedersInTurn' /\ ClaimedFirst' /\ AtTheirSteps'
    <3>1. \A j \in 1..MaxCodes : reset'[j] # "unborn" => reset[j] # "unborn"
      BY <2>5 DEF ResetExpires, Claimed, TypeOK
    <3> QED BY <2>5, <3>1 DEF ResetExpires, personVars, credentialVars, Claimed, SeedersInTurn, ClaimedFirst, AtTheirSteps
  <2> QED BY <2>1, <2>2, <2>3, <2>4, <2>5, SeedsClaim, SignsInClaim, EndsClaim, RefreshesClaim, ResetsClaim DEF Next
<1> QED BY <1>1, <1>2, PTL DEF Spec

(* However many seeders and requests run, there is one first admin, and a  *)
(* password only for a proved address.                                     *)
THEOREM FirstAdminIsOne == Spec => []OneFirstAdmin
<1>1. Claimed => OneFirstAdmin
  BY DEF Claimed, SeedersInTurn, ClaimedFirst, OneFirstAdmin
<1> QED BY <1>1, ClaimedInvariant, PTL
-----------------------------------------------------------------------------
(* The password set last.  A rehash writes the password its request read,  *)
(* and says so when another has been set.                                  *)

LEMMA RehashOwnsUp ==
  ASSUME Claimed, LatestPasswordStands, NEW c \in Calls, Rehash(c)
  PROVE  LatestPasswordStands'
<1>1. credential # None
  BY DEF Rehash, At, Claimed, ClaimedFirst
<1>2. credential.pw # latest => undone
  BY <1>1 DEF LatestPasswordStands
<1>3. latest' = latest /\ credential'.pw = req[c].pw
  BY DEF Rehash
<1>4. undone \/ req[c].pw # credential.pw => undone'
  BY DEF Rehash
<1> QED BY <1>2, <1>3, <1>4 DEF LatestPasswordStands

LEMMA SettingIsLatest ==
  ASSUME LatestPasswordStands, NEW c \in Calls, EndingCommits(c)
  PROVE  LatestPasswordStands'
<1>1. CASE req[c].op \in {"reset", "change"}
  <2>1. credential' = [pw |-> latest + 1, weak |-> FALSE] /\ latest' = latest + 1
    BY <1>1 DEF EndingCommits, SetsPassword
  <2> QED BY <2>1 DEF LatestPasswordStands
<1>2. CASE req[c].op \notin {"reset", "change"}
  BY <1>2 DEF EndingCommits, LatestPasswordStands
<1> QED BY <1>1, <1>2

(* A sign-in takes the password set last, or one a rehash wrote over it.   *)
THEOREM LatestPasswordSignsIn == Spec => []LatestPasswordStands
<1>1. Init => LatestPasswordStands
  BY DEF Init, LatestPasswordStands
<1>2. Claimed /\ LatestPasswordStands /\ [Next]_vars => LatestPasswordStands'
  <2> SUFFICES ASSUME Claimed, LatestPasswordStands, [Next]_vars,
                      ~ \E c \in Calls : Rehash(c) \/ EndingCommits(c)
               PROVE  LatestPasswordStands'
    BY RehashOwnsUp, SettingIsLatest
  <2>1. UNCHANGED <<credential, latest, undone>>
    <3>1. ASSUME NEW c \in Calls, SignsIn(c) PROVE UNCHANGED <<credential, latest, undone>>
      BY <3>1 DEF SignsIn, Login, Begins, FindOnDevice, SignInConflicts, SignInCommits, IssueToken,
                  accountVars, credentialVars
    <3>2. ASSUME NEW c \in Calls, Ends(c) PROVE UNCHANGED <<credential, latest, undone>>
      BY <3>2 DEF Ends, ChangePassword, EndSession, Begins, StartEnding, Evict, EvictionLost,
                  accountVars, credentialVars
    <3>3. ASSUME NEW c \in Calls, Refreshes(c) PROVE UNCHANGED <<credential, latest, undone>>
      BY <3>3 DEF Refreshes, Refresh, Begins, EndReused, Validate, StoreSnapshot, Rotate, RefreshRefused,
                  accountVars, credentialVars
    <3>4. ASSUME NEW c \in Calls, Resets(c) \/ Dies(c) PROVE UNCHANGED <<credential, latest, undone>>
      BY <3>4 DEF Resets, RequestReset, AnswerCode, ResetPassword, Begins, Open, Dies, accountVars, credentialVars
    <3>5. ASSUME NEW p \in Seeders, Seeds(p) PROVE UNCHANGED <<credential, latest, undone>>
      BY <3>5 DEF Seeds, SeedLock, SeedLooks, SeedCommits, SeedSkips, accountVars, credentialVars
    <3> QED BY <3>1, <3>2, <3>3, <3>4, <3>5
            DEF Next, Expire, CodeEnds, ResetExpires, vars, accountVars, credentialVars
  <2> QED BY <2>1 DEF LatestPasswordStands
<1> QED BY <1>1, <1>2, ClaimedInvariant, PTL DEF Spec
-----------------------------------------------------------------------------
(* The sweep of a password.  Those it saw it ends, but the one it keeps.   *)

Sweeping ==
  /\ SweptSessions
  /\ \A c \in Calls : req[c].pc = "commit" =>
       /\ req[c].op = "reset" => req[c].seen \subseteq req[c].ending
       /\ req[c].op = "change" => req[c].seen \subseteq req[c].ending \cup {req[c].ses}

(* What a request about to commit may be. *)
SweepsAll(c) ==
  req'[c].pc = "commit" =>
    /\ req'[c].op = "reset" => req'[c].seen \subseteq req'[c].ending
    /\ req'[c].op = "change" => req'[c].seen \subseteq req'[c].ending \cup {req'[c].ses}

LEMMA SweepStep ==
  ASSUME Sweeping, NEW c \in Calls, Only(c), SweepsAll(c), UNCHANGED <<latest, startedIn, late, kept>>,
         \A s \in Sessions : session'[s] = "live" => session[s] = "live"
  PROVE  Sweeping'
<1>1. SweptSessions'
  BY DEF Sweeping, SweptSessions, LiveSessions, Live
<1> QED BY <1>1 DEF Sweeping, Only, SweepsAll

LEMMA SameRequestsSweep ==
  ASSUME Sweeping, UNCHANGED <<latest, startedIn, late, kept, session, req>>
  PROVE  Sweeping'
  BY DEF Sweeping, SweptSessions, LiveSessions, Live

LEMMA SignInIsLate ==
  ASSUME TypeOK, Sweeping, NEW c \in Calls, SignInCommits(c)
  PROVE  Sweeping'
<1>1. Only(c) /\ req'[c].pc = "evict"
  BY SignInMoves DEF Committed
<1>2. PICK new \in Sessions :
        /\ session' = [Ended(c) EXCEPT ![new] = "live"]
        /\ startedIn' = [startedIn EXCEPT ![new] = req[c].since]
        /\ late' = IF req[c].since # latest THEN late \cup {new} ELSE late
  BY DEF SignInCommits
<1>3. latest' = latest /\ kept' = kept
  BY DEF SignInCommits, credentialVars
<1>4. startedIn' \in [Sessions -> Nat] /\ startedIn'[new] = req[c].since
      /\ \A s \in Sessions : s # new => startedIn'[s] = startedIn[s]
  <2>1. startedIn \in [Sessions -> Nat] /\ req[c].since \in Nat
    BY RequestAt DEF TypeOK, Requests
  <2> QED BY <1>2, <2>1
<1>5. \A s \in Sessions : s # new /\ session'[s] = "live" => session[s] = "live"
  BY <1>2 DEF Ended
<1>6. SweptSessions'
  BY <1>2, <1>3, <1>4, <1>5 DEF Sweeping, SweptSessions, LiveSessions, Live
<1> QED BY <1>1, <1>6 DEF Sweeping, Only

LEMMA PasswordSweeps ==
  ASSUME TypeOK, Sweeping, NEW c \in Calls, EndingCommits(c)
  PROVE  Sweeping'
<1>1. Only(c) /\ req'[c].pc = "evict" /\ req[c].pc = "commit"
  BY EndingMoves DEF Committed, EndingCommits, At
<1>2. \A s \in Sessions : session'[s] = "live" => session[s] = "live" /\ s \notin req[c].ending
  BY DEF EndingCommits, Ended
<1>3. startedIn' = startedIn
  BY DEF EndingCommits
<1>4. CASE req[c].op \in {"reset", "change"}
  <2>1. late' = LiveSessions \ req[c].seen /\ kept' = IF req[c].op = "change" THEN {req[c].ses} ELSE {}
    BY <1>4 DEF EndingCommits, SetsPassword
  <2>2. req[c].seen \subseteq req[c].ending \cup kept'
    BY <1>1, <1>4, <2>1 DEF Sweeping
  <2>3. SweptSessions'
    BY <1>2, <2>1, <2>2 DEF SweptSessions, LiveSessions, Live
  <2> QED BY <1>1, <2>3 DEF Sweeping, Only
<1>5. CASE req[c].op \notin {"reset", "change"}
  <2>1. UNCHANGED <<latest, late, kept>>
    BY <1>5 DEF EndingCommits
  <2> QED BY <1>1, <1>2, <1>3, <2>1, SweepStep DEF SweepsAll
<1> QED BY <1>4, <1>5

LEMMA BegunSweeps ==
  ASSUME Sweeping, NEW c \in Calls, NEW q, Begins(c, q), NEW op, NEW pcs, Begun(c, op, pcs), "commit" \notin pcs
  PROVE  Sweeping'
<1>1. UNCHANGED <<latest, startedIn, late, kept, session>>
  BY DEF Begins, accountVars, credentialVars, sessionVars
<1> QED BY <1>1, SweepStep DEF Begun, SweepsAll

(* Once a password is set, whoever is signed in asked to be after it, set  *)
(* it, or was signing in as it was set.                                    *)
THEOREM SetPasswordSweeps == Spec => []SweptSessions
<1>1. Init => Sweeping
  BY DEF Init, Sweeping, SweptSessions, LiveSessions, Live, Idle
<1>2. Claimed /\ Sweeping /\ [Next]_vars => Sweeping'
  <2> SUFFICES ASSUME Claimed, Sweeping, [Next]_vars PROVE Sweeping'
    OBVIOUS
  <2>0. TypeOK
    BY DEF Claimed
  <2>1. ASSUME NEW c \in Calls, SignsIn(c) PROVE Sweeping'
    <3>1. ASSUME NEW d \in Devices, Login(c, d) PROVE Sweeping'
      BY <2>0, <3>1, LoginMoves, BegunSweeps DEF Login
    <3>2. CASE Rehash(c) \/ FindOnDevice(c) \/ SignInConflicts(c) \/ IssueToken(c)
      <4>1. UNCHANGED <<latest, startedIn, late, kept, session>>
        BY <3>2 DEF Rehash, FindOnDevice, SignInConflicts, IssueToken, accountVars, credentialVars, sessionVars
      <4>2. Only(c)
        BY <2>0, <3>2, RehashMoves, FindMoves, ConflictMoves, RequestDone DEF IssueToken
      <4>3. CASE Rehash(c)
        BY <2>0, <4>1, <4>2, <4>3, RehashMoves, SweepStep DEF SweepsAll
      <4>4. CASE FindOnDevice(c)
        <5>1. req[c].op = "login"
          BY <4>4 DEF FindOnDevice, At, Claimed, AtTheirSteps
        <5> QED BY <2>0, <4>1, <4>2, <4>4, <5>1, FindMoves, SweepStep DEF SweepsAll, Alike
      <4>5. CASE SignInConflicts(c) \/ IssueToken(c)
        <5>1. req'[c] = Idle \/ req'[c].pc = "find"
          BY <2>0, <4>5, ConflictMoves, RequestDone DEF IssueToken
        <5> QED BY <4>1, <4>2, <5>1, SweepStep DEF SweepsAll, Idle
      <4> QED BY <3>2, <4>3, <4>4, <4>5
    <3> QED BY <2>0, <2>1, <3>1, <3>2, SignInIsLate DEF SignsIn
  <2>2. ASSUME NEW c \in Calls, Ends(c) PROVE Sweeping'
    <3>1. ASSUME NEW s \in Sessions, ChangePassword(c, s) PROVE Sweeping'
      BY <2>0, <3>1, ChangeMoves, BegunSweeps DEF ChangePassword
    <3>2. ASSUME NEW s \in Sessions, NEW op, EndSession(c, op, s) PROVE Sweeping'
      BY <2>0, <3>2, EndMoves, BegunSweeps DEF EndSession
    <3>3. CASE StartEnding(c)
      <4>1. UNCHANGED <<latest, startedIn, late, kept, session>>
        BY <3>3 DEF StartEnding, accountVars, credentialVars, sessionVars
      <4>2. Only(c) /\ SweepsAll(c)
        <5>1. req[c].op = "reset" => Swept(c) = LiveSessions
          BY DEF Swept
        <5>2. req[c].op = "change" => Swept(c) = LiveSessions \ {req[c].ses}
          BY DEF Swept
        <5>3. Idle.pc # "commit"
          BY DEF Idle
        <5> QED BY <2>0, <3>3, <5>1, <5>2, <5>3, StartMoves DEF SweepsAll
      <4> QED BY <4>1, <4>2, SweepStep
    <3>4. CASE Evict(c) \/ EvictionLost(c)
      <4>1. UNCHANGED <<latest, startedIn, late, kept, session>> /\ AfterEviction(c)
        BY <3>4 DEF Evict, EvictionLost, accountVars, credentialVars, sessionVars
      <4>2. Only(c) /\ SweepsAll(c)
        BY <2>0, <4>1, EvictionMoves DEF SweepsAll, Idle
      <4> QED BY <4>1, <4>2, SweepStep
    <3> QED BY <2>0, <2>2, <3>1, <3>2, <3>3, <3>4, PasswordSweeps DEF Ends
  <2>3. ASSUME NEW c \in Calls, Refreshes(c) PROVE Sweeping'
    <3>1. ASSUME NEW t \in Tokens, Refresh(c, t) PROVE Sweeping'
      BY <2>0, <3>1, RefreshMoves, BegunSweeps DEF Refresh
    <3>2. CASE EndReused(c) \/ Validate(c) \/ StoreSnapshot(c) \/ Rotate(c) \/ RefreshRefused(c)
      <4>1. UNCHANGED <<latest, startedIn, late, kept>>
        BY <3>2 DEF EndReused, Validate, StoreSnapshot, Rotate, RefreshRefused,
                    accountVars, credentialVars, sessionVars
      <4>2. \A s \in Sessions : session'[s] = "live" => session[s] = "live"
        BY <2>0, <3>2 DEF EndReused, Validate, StoreSnapshot, Rotate, RefreshRefused, accountVars, sessionVars, TypeOK
      <4>3. Only(c) /\ req'[c].pc # "commit"
        BY <2>0, <3>2, ReuseMoves, ValidateMoves, RequestMoves, RequestDone
           DEF StoreSnapshot, Rotate, RefreshRefused, Steps, Idle
      <4> QED BY <4>1, <4>2, <4>3, SweepStep DEF SweepsAll
    <3> QED BY <2>3, <3>1, <3>2 DEF Refreshes
  <2>4. ASSUME NEW c \in Calls, Resets(c) PROVE Sweeping'
    <3>1. CASE AnswerCode(c)
      BY <2>0, <3>1, AnswerMoves, BegunSweeps DEF AnswerCode
    <3>2. ASSUME NEW i \in 1..MaxCodes, ResetPassword(c, i) PROVE Sweeping'
      BY <2>0, <3>2, ResetMoves, BegunSweeps DEF ResetPassword
    <3>3. CASE RequestReset(c)
      BY <3>3, SameRequestsSweep DEF RequestReset, credentialVars, sessionVars
    <3>4. CASE Open(c)
      <4>1. UNCHANGED <<latest, startedIn, late, kept, session>> /\ Done(c)
        BY <3>4 DEF Open, sessionVars
      <4> QED BY <2>0, <4>1, RequestDone, SweepStep DEF SweepsAll, Idle
    <3> QED BY <2>4, <3>1, <3>2, <3>3, <3>4 DEF Resets
  <2>5. ASSUME NEW c \in Calls, Dies(c) PROVE Sweeping'
    <3>1. UNCHANGED <<latest, startedIn, late, kept, session>> /\ Done(c)
      BY <2>5 DEF Dies, accountVars, credentialVars, sessionVars
    <3> QED BY <2>0, <3>1, RequestDone, SweepStep DEF SweepsAll, Idle
  <2>6. ASSUME NEW p \in Seeders, Seeds(p) PROVE Sweeping'
    BY <2>6, SameRequestsSweep
       DEF Seeds, SeedLock, SeedLooks, SeedCommits, SeedSkips, accountVars, credentialVars, sessionVars
  <2>7. ASSUME UNCHANGED vars \/ CodeEnds \/ (\E s \in Sessions : Expire(s)) \/ \E i \in 1..MaxCodes : ResetExpires(i)
        PROVE  Sweeping'
    BY <2>7, SameRequestsSweep DEF vars, CodeEnds, Expire, ResetExpires, accountVars, credentialVars, sessionVars
  <2> QED BY <2>1, <2>2, <2>3, <2>4, <2>5, <2>6, <2>7 DEF Next
<1>3. Sweeping => SweptSessions
  BY DEF Sweeping
<1> QED BY <1>1, <1>2, <1>3, ClaimedInvariant, PTL DEF Spec
-----------------------------------------------------------------------------
(* Tokens and snapshots of sessions that have ended.  A sweep takes the    *)
(* tokens it sees; one that is made while it runs knows that it is late.   *)

Steady(q) ==
  /\ q.evict # {} => q.pc = "evict"
  /\ q.pc # "commit" => q.ending = {}
  /\ q.op \in {"login", "logout"} => q.ending \subseteq {q.ses}
  /\ q.valid # "wrong"
  /\ q.pc \in {"validate", "store", "rotate"} => q.op = "refresh"
  /\ q.op = "refresh" => q.tok \in Tokens /\ token[q.tok] # "unborn" /\ q.ses = tokenOf[q.tok]
  /\ \A t \in Tokens : token[t] = "live" /\ tokenOf[t] \in q.ending => t \in q.tokens \cup lateTokens

EndedInv ==
  /\ Claimed
  /\ \A c \in Calls : Steady(req[c])
  /\ \A t \in Tokens : token[t] = "live" => Live(tokenOf[t]) \/ t \in lateTokens
  /\ \A s \in cached : Live(s) \/ s \in stale \/ Evicting(s)

(* What a step may do to the tokens: a new one is late, or of a session    *)
(* nobody is ending.                                                       *)
TokensGo ==
  /\ lateTokens \subseteq lateTokens'
  /\ \A t \in Tokens : token[t] # "unborn" => token'[t] # "unborn" /\ tokenOf'[t] = tokenOf[t]
  /\ \A t \in Tokens : token'[t] = "live" =>
       \/ token[t] = "live" \/ t \in lateTokens'
       \/ Live(tokenOf'[t]) /\ ~Ending(tokenOf'[t])

(* To the sessions: one that ends leaves no token that is not late.        *)
SessionsGo ==
  \A s \in Sessions : Live(s) =>
    Live(s)' \/ \A t \in Tokens : token'[t] = "live" /\ tokenOf'[t] = s => t \in lateTokens'

(* To the cache, by c: what it serves of an ended session is to be evicted *)
(* by c, or was excused before.                                            *)
CacheGoes(c) ==
  \A s \in cached' :
    \/ Live(s)' \/ s \in stale' \/ s \in req'[c].evict
    \/ s \in cached /\ ~Live(s) /\ s \notin stale /\ s \notin req[c].evict

LEMMA SteadyStays ==
  ASSUME EndedInv, TokensGo, NEW d \in Calls
  PROVE  Steady(req[d]) /\ (req'[d] = req[d] => Steady(req[d])')
<1>1. PICK a : a = req[d]
  OBVIOUS
<1>2. Steady(a)
  BY <1>1 DEF EndedInv
<1>3. a.ending # {} => \A s \in a.ending : Ending(s)
  BY <1>1, <1>2 DEF Steady, Ending, At
<1>4. \A t \in Tokens : token'[t] = "live" /\ tokenOf'[t] \in a.ending => t \in a.tokens \cup lateTokens'
  <2> SUFFICES ASSUME NEW t \in Tokens, token'[t] = "live", tokenOf'[t] \in a.ending
               PROVE  t \in a.tokens \cup lateTokens'
    OBVIOUS
  <2>1. token[t] = "live" \/ t \in lateTokens'
    BY <1>3 DEF TokensGo
  <2>2. token[t] = "live" => tokenOf'[t] = tokenOf[t] /\ lateTokens \subseteq lateTokens'
    BY DEF TokensGo
  <2> QED BY <1>2, <2>1, <2>2 DEF Steady
<1>5. a.op = "refresh" => a.tok \in Tokens /\ token'[a.tok] # "unborn" /\ a.ses = tokenOf'[a.tok]
  BY <1>2 DEF Steady, TokensGo
<1>6. Steady(a)'
  BY <1>2, <1>4, <1>5 DEF Steady
<1>7. req'[d] = req[d] => req'[d] = a
  BY <1>1
<1> QED BY <1>1, <1>2, <1>6, <1>7 DEF Steady

LEMMA EndedStep ==
  ASSUME EndedInv, Claimed', NEW c \in Calls, Only(c), Steady(req[c])', TokensGo, SessionsGo, CacheGoes(c)
  PROVE  EndedInv'
<1>1. (\A d \in Calls : Steady(req[d]))'
  <2>1. ASSUME NEW d \in Calls PROVE Steady(req[d])'
    BY SteadyStays DEF Only
  <2> QED BY <2>1
<1>2. (\A t \in Tokens : token[t] = "live" => Live(tokenOf[t]) \/ t \in lateTokens)'
  <2> SUFFICES ASSUME NEW t \in Tokens, token'[t] = "live", t \notin lateTokens'
               PROVE  Live(tokenOf[t])'
    OBVIOUS
  <2>1. PICK s : s = tokenOf'[t]
    OBVIOUS
  <2>2. Live(s)
    BY <2>1 DEF TokensGo, EndedInv
  <2>3. Live(s)'
    BY <2>1, <2>2 DEF SessionsGo, Live
  <2> QED BY <2>1, <2>3 DEF Live
<1>3. (\A s \in cached : Live(s) \/ s \in stale \/ Evicting(s))'
  <2> SUFFICES ASSUME NEW s \in cached' PROVE (Live(s) \/ s \in stale \/ Evicting(s))'
    OBVIOUS
  <2>1. CASE Live(s)' \/ s \in stale' \/ s \in req'[c].evict
    BY <2>1 DEF Evicting
  <2>2. CASE s \in cached /\ ~Live(s) /\ s \notin stale /\ s \notin req[c].evict
    <3>1. PICK d \in Calls : s \in req[d].evict
      BY <2>2 DEF EndedInv, Evicting
    <3> QED BY <2>2, <3>1 DEF Only, Evicting
  <2> QED BY <2>1, <2>2 DEF CacheGoes
<1> QED BY <1>1, <1>2, <1>3 DEF EndedInv

LEMMA SameTokens ==
  ASSUME EndedInv, UNCHANGED tokenVars
  PROVE  TokensGo
  BY DEF TokensGo, tokenVars

(* A step that leaves the tokens, the sessions and the cache.              *)
LEMMA QuietEnded ==
  ASSUME EndedInv, Claimed', NEW c \in Calls, Only(c), UNCHANGED <<tokenVars, sessionVars, cacheVars>>,
         req[c].evict \subseteq req'[c].evict,
         NEW q, q = req'[c], Steady(q)
  PROVE  EndedInv'
<1>1. UNCHANGED <<token, tokenOf, lateTokens, session, cached, stale>>
  BY DEF tokenVars, sessionVars, cacheVars
<1>2. TokensGo /\ SessionsGo
  BY <1>1 DEF TokensGo, SessionsGo, Live
<1>3. CacheGoes(c)
  BY <1>1 DEF CacheGoes, EndedInv, Live
<1>4. Steady(req[c])'
  BY <1>1 DEF Steady
<1> QED BY <1>2, <1>3, <1>4, EndedStep

LEMMA SteadyAt == ASSUME EndedInv, NEW c \in Calls PROVE Steady(req[c]) /\ TypeOK /\ req[c] \in Requests
  BY RequestAt DEF EndedInv, Claimed

LEMMA SteadyIdle == Steady(Idle) /\ Idle.evict = {}
  BY DEF Steady, Idle

LEMMA BegunEnded ==
  ASSUME EndedInv, Claimed', NEW c \in Calls, NEW q, Begins(c, q), NEW op, NEW pcs, Begun(c, op, pcs),
         "commit" \notin pcs, "store" \notin pcs, "rotate" \notin pcs, "validate" \in pcs => op = "refresh",
         op = "refresh" => req'[c].tok \in Tokens /\ token[req'[c].tok] # "unborn" /\ req'[c].ses = tokenOf[req'[c].tok]
  PROVE  EndedInv'
<1>1. UNCHANGED <<tokenVars, sessionVars, cacheVars>> /\ req[c].pc = "idle"
  BY DEF Begins, accountVars, At
<1>2. PICK r : r = req'[c]
  OBVIOUS
<1>3. Steady(r) /\ req[c].evict = {}
  BY <1>1, <1>2, SteadyAt DEF Begun, Steady
<1> QED BY <1>1, <1>2, <1>3, QuietEnded DEF Begun

LEMMA NewTokenGoes ==
  ASSUME TypeOK, NEW c \in Calls, NEW parents, NewToken(c, parents)
  PROVE  TokensGo
<1>1. PICK new \in Tokens :
        /\ token[new] = "unborn"
        /\ token' = [t \in Tokens |-> IF t = new THEN "live" ELSE IF t \in parents THEN "revoked" ELSE token[t]]
        /\ tokenOf' = [tokenOf EXCEPT ![new] = req[c].ses]
        /\ lateTokens' = IF parents \cap lateTokens # {} \/ ~Live(req[c].ses) \/ Ending(req[c].ses)
                         THEN lateTokens \cup {new} ELSE lateTokens
  BY DEF NewToken, IsNext
<1>2. \A t \in Tokens : tokenOf'[t] = IF t = new THEN req[c].ses ELSE tokenOf[t]
  BY <1>1 DEF TypeOK
<1>3. \A t \in Tokens : token'[t] = IF t = new THEN "live" ELSE IF t \in parents THEN "revoked" ELSE token[t]
  BY <1>1
<1>4. new \in lateTokens' \/ (Live(req[c].ses) /\ ~Ending(req[c].ses))
  BY <1>1
<1>5. lateTokens \subseteq lateTokens'
  BY <1>1
<1> QED BY <1>1, <1>2, <1>3, <1>4, <1>5 DEF TokensGo

LEMMA SameRequestsEnded ==
  ASSUME EndedInv, Claimed', UNCHANGED <<tokenVars, sessionVars, cacheVars, req>>
  PROVE  EndedInv'
<1>1. UNCHANGED <<token, tokenOf, lateTokens, session, cached, stale, req>>
  BY DEF tokenVars, sessionVars, cacheVars
<1> QED BY <1>1 DEF EndedInv, Steady, Live, Evicting

LEMMA DoneEnded ==
  ASSUME EndedInv, Claimed', NEW c \in Calls, Done(c), UNCHANGED <<tokenVars, sessionVars, cacheVars>>, req[c].evict = {}
  PROVE  EndedInv'
<1>1. req'[c] = Idle /\ Only(c)
  BY SteadyAt, RequestDone
<1> QED BY <1>1, SteadyIdle, QuietEnded

LEMMA SignsInEnded ==
  ASSUME EndedInv, Claimed', NEW c \in Calls, SignsIn(c)
  PROVE  EndedInv'
<1>1. TypeOK /\ Steady(req[c]) /\ req[c] \in Requests
  BY SteadyAt
<1>2. ASSUME NEW d \in Devices, Login(c, d) PROVE EndedInv'
  BY <1>1, <1>2, LoginMoves, BegunEnded DEF Login
<1>3. PICK r : r = req'[c]
  OBVIOUS
<1>4. CASE Rehash(c)
  <2>1. UNCHANGED <<tokenVars, sessionVars, cacheVars>> /\ req[c].pc = "rehash" /\ req[c].op \in {"login", "change"}
    BY <1>4 DEF Rehash, At, EndedInv, Claimed, AtTheirSteps
  <2>2. Only(c) /\ r.pc \in {"find", "end"} /\ Alike(r, req[c])
    BY <1>1, <1>3, <1>4, RehashMoves
  <2>3. Steady(r) /\ req[c].evict \subseteq req'[c].evict
    BY <1>1, <1>3, <2>1, <2>2 DEF Steady, Alike
  <2> QED BY <1>3, <2>1, <2>2, <2>3, QuietEnded
<1>5. CASE FindOnDevice(c)
  <2>1. UNCHANGED <<tokenVars, sessionVars, cacheVars>> /\ req[c].pc = "find" /\ req[c].op = "login"
    BY <1>5 DEF FindOnDevice, At, accountVars, EndedInv, Claimed, AtTheirSteps
  <2>2. /\ Only(c) /\ r.pc \in {"commit", "end"} /\ r.op = req[c].op /\ r.evict = req[c].evict
        /\ r.ending = req[c].ending /\ r.valid = req[c].valid
    BY <1>1, <1>3, <1>5, FindMoves DEF Alike
  <2>3. Steady(r) /\ req[c].evict \subseteq req'[c].evict
    BY <1>1, <1>3, <2>1, <2>2 DEF Steady
  <2> QED BY <1>3, <2>1, <2>2, <2>3, QuietEnded
<1>6. CASE SignInConflicts(c)
  <2>1. UNCHANGED <<tokenVars, sessionVars, cacheVars>> /\ req[c].evict = {}
    BY <1>1, <1>6 DEF SignInConflicts, At, accountVars, Steady
  <2>2. /\ Only(c)
        /\ \/ r = Idle
           \/ /\ r.pc = "find" /\ r.op = "login"
              /\ r.ending = {} /\ r.evict = req[c].evict /\ r.valid = req[c].valid
    BY <1>1, <1>3, <1>6, ConflictMoves
  <2>3. Steady(r) /\ req[c].evict \subseteq req'[c].evict
    BY <1>1, <1>3, <2>1, <2>2, SteadyIdle DEF Steady
  <2> QED BY <1>3, <2>1, <2>2, <2>3, QuietEnded
<1>7. CASE SignInCommits(c)
  <2>1. /\ Only(c) /\ r.pc = "evict" /\ r.op = "login" /\ r.valid = req[c].valid /\ r.ending = {}
        /\ r.evict = {req[c].ses} \ {0} /\ req[c].pc = "commit" /\ req[c].op = "login"
    BY <1>1, <1>3, <1>7, SignInMoves DEF Committed, SignInCommits, At
  <2>2. /\ token' = Revoked(c) /\ UNCHANGED <<tokenOf, lateTokens, cached, stale>>
        /\ \E new \in Sessions : session' = [Ended(c) EXCEPT ![new] = "live"]
    BY <1>7 DEF SignInCommits, cacheVars
  <2>3. req[c].evict = {} /\ req[c].ending \subseteq {req[c].ses}
    BY <1>1, <2>1 DEF Steady
  <2>4. \A s \in Sessions : session[s] = "live" => session'[s] = "live" \/ s \in req[c].ending
    BY <2>2 DEF Ended
  <2>5. \A t \in Tokens : token'[t] = IF t \in req[c].tokens THEN "revoked" ELSE token[t]
    BY <2>2 DEF Revoked
  <2>6. TokensGo
    BY <2>2, <2>5 DEF TokensGo
  <2>7. SessionsGo
    BY <1>1, <2>2, <2>4, <2>5 DEF SessionsGo, Live, Steady
  <2>8. CacheGoes(c)
    <3>1. ASSUME NEW s \in cached', s \in req[c].ending PROVE s \in req'[c].evict
      <4>1. s \in Sessions
        BY <1>1, <3>1 DEF Requests
      <4> QED BY <1>3, <2>1, <2>3, <3>1, <4>1, SessionsFromOne
    <3>2. ASSUME NEW s \in cached', Live(s), s \notin req[c].ending PROVE Live(s)'
      BY <2>4, <3>2 DEF Live
    <3> QED BY <2>2, <2>3, <3>1, <3>2 DEF CacheGoes
  <2>9. Steady(req[c])'
    BY <1>1, <1>3, <2>1 DEF Steady
  <2> QED BY <2>1, <2>6, <2>7, <2>8, <2>9, EndedStep
<1>8. CASE IssueToken(c)
  <2>1. /\ Done(c) /\ NewToken(c, {}) /\ UNCHANGED <<session, cached, stale>> /\ req[c].evict = {}
    BY <1>1, <1>8 DEF IssueToken, At, sessionVars, cacheVars, Steady
  <2>2. req'[c] = Idle /\ Only(c)
    BY <1>1, <2>1, RequestDone
  <2>3. TokensGo
    BY <1>1, <2>1, NewTokenGoes
  <2>4. SessionsGo /\ CacheGoes(c)
    BY <2>1 DEF SessionsGo, CacheGoes, EndedInv, Live
  <2>5. Steady(req[c])'
    BY <2>2 DEF Steady, Idle
  <2> QED BY <2>2, <2>3, <2>4, <2>5, EndedStep
<1> QED BY <1>2, <1>4, <1>5, <1>6, <1>7, <1>8 DEF SignsIn

LEMMA EndsEnded ==
  ASSUME EndedInv, Claimed', NEW c \in Calls, Ends(c)
  PROVE  EndedInv'
<1>1. TypeOK /\ Steady(req[c]) /\ req[c] \in Requests
  BY SteadyAt
<1>2. ASSUME NEW s \in Sessions, ChangePassword(c, s) PROVE EndedInv'
  BY <1>1, <1>2, ChangeMoves, BegunEnded DEF ChangePassword
<1>3. ASSUME NEW s \in Sessions, NEW op, EndSession(c, op, s) PROVE EndedInv'
  BY <1>1, <1>3, EndMoves, BegunEnded DEF EndSession
<1>4. PICK r : r = req'[c]
  OBVIOUS
<1>5. CASE StartEnding(c)
  <2>1. UNCHANGED <<tokenVars, sessionVars, cacheVars>> /\ req[c].evict = {}
    BY <1>1, <1>5 DEF StartEnding, At, accountVars, Steady
  <2>2. /\ Only(c)
        /\ \/ r = Idle
           \/ /\ r.pc = "commit" /\ r.op = req[c].op /\ r.ses = req[c].ses /\ r.tok = req[c].tok
              /\ r.ending = Swept(c) /\ r.tokens = SweptTokens(c) /\ r.evict = req[c].evict /\ r.valid = req[c].valid
    BY <1>1, <1>4, <1>5, StartMoves
  <2>3. req[c].op \in {"login", "logout"} => Swept(c) \subseteq {req[c].ses}
    BY DEF Swept
  <2>4. \A t \in Tokens : token[t] = "live" /\ tokenOf[t] \in Swept(c) => t \in SweptTokens(c)
    BY <2>3 DEF SweptTokens, LiveTokens
  <2>5. Steady(r) /\ req[c].evict \subseteq req'[c].evict
    BY <1>1, <1>4, <2>1, <2>2, <2>3, <2>4, SteadyIdle DEF Steady
  <2> QED BY <1>4, <2>1, <2>2, <2>5, QuietEnded
<1>6. CASE EndingCommits(c)
  <2>1. /\ Only(c) /\ r.pc = "evict" /\ r.op = req[c].op /\ r.valid = req[c].valid /\ r.ending = {}
        /\ r.ses = req[c].ses /\ r.tok = req[c].tok /\ req[c].pc = "commit"
        /\ r.evict = IF req[c].op = "logout" THEN {req[c].ses} ELSE req[c].ending
    BY <1>1, <1>4, <1>6, EndingMoves DEF Committed, EndingCommits, At
  <2>2. token' = Revoked(c) /\ UNCHANGED <<tokenOf, lateTokens, cached, stale>> /\ session' = Ended(c)
    BY <1>6 DEF EndingCommits, cacheVars
  <2>3. req[c].evict = {} /\ req[c].ending \subseteq r.evict
    BY <1>1, <2>1 DEF Steady
  <2>4. \A s \in Sessions : session[s] = "live" => session'[s] = "live" \/ s \in req[c].ending
    BY <2>2 DEF Ended
  <2>5. \A t \in Tokens : token'[t] = IF t \in req[c].tokens THEN "revoked" ELSE token[t]
    BY <2>2 DEF Revoked
  <2>6. TokensGo
    BY <2>2, <2>5 DEF TokensGo
  <2>7. SessionsGo
    BY <1>1, <2>2, <2>4, <2>5 DEF SessionsGo, Live, Steady
  <2>8. CacheGoes(c)
    <3>1. ASSUME NEW s \in cached', Live(s), s \notin req[c].ending PROVE Live(s)'
      BY <2>4, <3>1 DEF Live
    <3> QED BY <1>4, <2>2, <2>3, <3>1 DEF CacheGoes
  <2>9. Steady(r)'
    <3>1. r.op = "refresh" => r.tok \in Tokens /\ token'[r.tok] # "unborn" /\ r.ses = tokenOf'[r.tok]
      BY <1>1, <2>1, <2>6 DEF Steady, TokensGo
    <3> QED BY <1>1, <2>1, <3>1 DEF Steady
  <2>10. Steady(req[c])'
    BY <1>4, <2>9 DEF Steady
  <2> QED BY <2>1, <2>6, <2>7, <2>8, <2>10, EndedStep
<1>7. CASE Evict(c) \/ EvictionLost(c)
  <2>1. /\ AfterEviction(c) /\ UNCHANGED accountVars /\ req[c].pc = "evict"
        /\ \/ cached' = cached \ req[c].evict /\ stale' = stale \ req[c].evict
           \/ cached' = cached /\ stale' = stale \cup (req[c].evict \cap cached)
    BY <1>7 DEF Evict, EvictionLost, At
  <2>2. /\ Only(c)
        /\ \/ r = Idle
           \/ /\ r.pc = "issue" /\ r.op = "login" /\ r.evict = {}
              /\ r.ending = req[c].ending /\ r.valid = req[c].valid
    BY <1>1, <1>4, <2>1, EvictionMoves
  <2>3. UNCHANGED <<token, tokenOf, lateTokens, session>>
    BY <2>1 DEF accountVars, tokenVars, sessionVars
  <2>4. TokensGo /\ SessionsGo
    BY <2>3 DEF TokensGo, SessionsGo, Live
  <2>5. CacheGoes(c)
    BY <2>1, <2>3 DEF CacheGoes, EndedInv, Live
  <2>6. Steady(r)
    BY <1>1, <2>1, <2>2, SteadyIdle DEF Steady
  <2>7. Steady(req[c])'
    BY <1>4, <2>3, <2>6 DEF Steady
  <2> QED BY <2>2, <2>4, <2>5, <2>7, EndedStep
<1> QED BY <1>2, <1>3, <1>5, <1>6, <1>7 DEF Ends

LEMMA RefreshesEnded ==
  ASSUME EndedInv, Claimed', NEW c \in Calls, Refreshes(c)
  PROVE  EndedInv'
<1>1. TypeOK /\ Steady(req[c]) /\ req[c] \in Requests
  BY SteadyAt
<1>2. ASSUME NEW t \in Tokens, Refresh(c, t) PROVE EndedInv'
  <2>1. Begun(c, "refresh", {"validate", "reuse"}) /\ req'[c].tok = t /\ req'[c].ses = tokenOf[t] /\ token[t] # "unborn"
    BY <1>1, <1>2, RefreshMoves DEF Refresh
  <2> QED BY <1>2, <2>1, BegunEnded DEF Refresh
<1>3. PICK r : r = req'[c]
  OBVIOUS
<1>4. CASE EndReused(c)
  <2>1. PICK s : s = req[c].ses
    OBVIOUS
  <2>2. /\ Only(c) /\ r.pc = "evict" /\ r.op = req[c].op /\ r.ending = req[c].ending /\ r.evict = {s}
        /\ r.valid = req[c].valid /\ r.ses = s /\ r.tok = req[c].tok /\ req[c].pc = "reuse"
    BY <1>1, <1>3, <1>4, <2>1, ReuseMoves DEF EndReused, At
  <2>3. /\ token' = [t \in Tokens |-> IF t \in LiveTokens({s}) THEN "revoked" ELSE token[t]]
        /\ session' = [session EXCEPT ![s] = "ended"] /\ UNCHANGED <<tokenOf, lateTokens, cached, stale>>
    BY <1>4, <2>1 DEF EndReused, cacheVars
  <2>4. req[c].evict = {} /\ req[c].ending = {}
    BY <1>1, <2>2 DEF Steady
  <2>5. TokensGo
    BY <2>3 DEF TokensGo, LiveTokens
  <2>6. \A x \in Sessions : x # s /\ session[x] = "live" => session'[x] = "live"
    BY <1>1, <2>3 DEF TypeOK
  <2>7. SessionsGo
    BY <2>3, <2>6 DEF SessionsGo, Live, LiveTokens
  <2>8. CacheGoes(c)
    <3>1. ASSUME NEW x \in cached', Live(x), x # s PROVE Live(x)'
      BY <2>6, <3>1 DEF Live
    <3> QED BY <1>3, <2>2, <2>3, <2>4, <3>1 DEF CacheGoes
  <2>9. Steady(r)'
    <3>1. r.op = "refresh" => r.tok \in Tokens /\ token'[r.tok] # "unborn" /\ r.ses = tokenOf'[r.tok]
      BY <1>1, <2>1, <2>2, <2>5 DEF Steady, TokensGo
    <3> QED BY <1>1, <2>2, <2>4, <3>1 DEF Steady
  <2>10. Steady(req[c])'
    BY <1>3, <2>9 DEF Steady
  <2> QED BY <2>2, <2>5, <2>7, <2>8, <2>10, EndedStep
<1>5. CASE Validate(c)
  <2>1. UNCHANGED <<tokenVars, sessionVars, cacheVars>> /\ req[c].pc = "validate"
    BY <1>5 DEF Validate, At, accountVars
  <2>2. /\ Only(c)
        /\ \/ r = Idle
           \/ /\ r.op = req[c].op /\ r.ses = req[c].ses /\ r.tok = req[c].tok
              /\ r.ending = req[c].ending /\ r.evict = req[c].evict
              /\ \/ r.pc = "store" /\ r.valid = "live"
                 \/ /\ r.pc = "rotate" /\ req[c].ses \in cached
                    /\ r.valid = "wrong" => /\ ~Live(req[c].ses) /\ req[c].ses \notin stale
                                             /\ ~Evicting(req[c].ses)
    BY <1>1, <1>3, <1>5, ValidateMoves
  <2>3. r # Idle => r.valid # "wrong"
    BY <2>2 DEF EndedInv
  <2>4. Steady(r) /\ req[c].evict = {}
    BY <1>1, <2>1, <2>2, <2>3, SteadyIdle DEF Steady
  <2> QED BY <1>3, <2>1, <2>2, <2>4, QuietEnded
<1>6. CASE StoreSnapshot(c)
  <2>1. PICK s : s = req[c].ses
    OBVIOUS
  <2>2. /\ cached' = cached \cup {s} /\ stale' = (IF Live(s) THEN stale ELSE stale \cup {s})
        /\ UNCHANGED accountVars /\ req[c].pc = "store" /\ Go(c, "rotate")
    BY <1>6, <2>1 DEF StoreSnapshot, At
  <2>3. Only(c) /\ r.pc = "rotate" /\ Alike(r, req[c])
    BY <1>1, <1>3, <2>2, RequestMoves DEF Steps
  <2>4. UNCHANGED <<token, tokenOf, lateTokens, session>>
    BY <2>2 DEF accountVars, tokenVars, sessionVars
  <2>5. TokensGo /\ SessionsGo
    BY <2>4 DEF TokensGo, SessionsGo, Live
  <2>6. Steady(r) /\ req[c].evict = {}
    BY <1>1, <2>2, <2>3 DEF Steady, Alike
  <2>7. CacheGoes(c)
    BY <2>2, <2>4, <2>6 DEF CacheGoes, EndedInv, Live
  <2>8. Steady(req[c])'
    BY <1>3, <2>4, <2>6 DEF Steady
  <2> QED BY <2>3, <2>5, <2>7, <2>8, EndedStep
<1>7. CASE Rotate(c)
  <2>1. /\ Done(c) /\ NewToken(c, {req[c].tok}) /\ UNCHANGED <<session, cached, stale>> /\ req[c].evict = {}
    BY <1>1, <1>7 DEF Rotate, At, sessionVars, cacheVars, Steady
  <2>2. req'[c] = Idle /\ Only(c)
    BY <1>1, <2>1, RequestDone
  <2>3. TokensGo
    BY <1>1, <2>1, NewTokenGoes
  <2>4. SessionsGo /\ CacheGoes(c)
    BY <2>1 DEF SessionsGo, CacheGoes, EndedInv, Live
  <2>5. Steady(req[c])'
    BY <2>2 DEF Steady, Idle
  <2> QED BY <2>2, <2>3, <2>4, <2>5, EndedStep
<1>8. CASE RefreshRefused(c)
  <2>1. UNCHANGED <<tokenVars, sessionVars, cacheVars>> /\ Done(c) /\ req[c].evict = {}
    BY <1>1, <1>8 DEF RefreshRefused, At, accountVars, Steady
  <2> QED BY <2>1, DoneEnded
<1> QED BY <1>2, <1>4, <1>5, <1>6, <1>7, <1>8 DEF Refreshes

LEMMA ResetsEnded ==
  ASSUME EndedInv, Claimed', NEW c \in Calls, Resets(c)
  PROVE  EndedInv'
<1>1. TypeOK /\ Steady(req[c]) /\ req[c] \in Requests
  BY SteadyAt
<1>2. CASE AnswerCode(c)
  BY <1>1, <1>2, AnswerMoves, BegunEnded DEF AnswerCode
<1>3. ASSUME NEW i \in 1..MaxCodes, ResetPassword(c, i) PROVE EndedInv'
  BY <1>1, <1>3, ResetMoves, BegunEnded DEF ResetPassword
<1>4. CASE RequestReset(c)
  BY <1>4, SameRequestsEnded DEF RequestReset
<1>5. CASE Open(c)
  <2>1. UNCHANGED <<tokenVars, sessionVars, cacheVars>> /\ Done(c) /\ req[c].evict = {}
    BY <1>1, <1>5 DEF Open, At, Steady
  <2> QED BY <2>1, DoneEnded
<1> QED BY <1>2, <1>3, <1>4, <1>5 DEF Resets

LEMMA EndedInvariant == Spec => []EndedInv
<1>1. Init => EndedInv
  <2> SUFFICES ASSUME Init PROVE EndedInv
    OBVIOUS
  <2>1. Claimed
    <3>1. SeedersInTurn /\ ClaimedFirst /\ AtTheirSteps
      BY DEF Init, SeedersInTurn, ClaimedFirst, AtTheirSteps, Idle
    <3> QED BY <3>1, InitTypes DEF Claimed
  <2>2. \A c \in Calls : Steady(req[c])
    BY SteadyIdle DEF Init
  <2> QED BY <2>1, <2>2 DEF Init, EndedInv
<1>2. EndedInv /\ Claimed' /\ [Next]_vars => EndedInv'
  <2> SUFFICES ASSUME EndedInv, Claimed', [Next]_vars PROVE EndedInv'
    OBVIOUS
  <2>1. ASSUME NEW c \in Calls, Dies(c) PROVE EndedInv'
    <3>1. /\ UNCHANGED accountVars /\ cached' = cached /\ stale' = stale \cup (req[c].evict \cap cached) /\ Done(c)
      BY <2>1 DEF Dies
    <3>2. req'[c] = Idle /\ Only(c)
      BY <3>1, SteadyAt, RequestDone
    <3>3. UNCHANGED <<token, tokenOf, lateTokens, session>>
      BY <3>1 DEF accountVars, tokenVars, sessionVars
    <3>4. TokensGo /\ SessionsGo
      BY <3>3 DEF TokensGo, SessionsGo, Live
    <3>5. CacheGoes(c)
      BY <3>1, <3>3 DEF CacheGoes, EndedInv, Live
    <3>6. Steady(req[c])'
      BY <3>2 DEF Steady, Idle
    <3> QED BY <3>2, <3>4, <3>5, <3>6, EndedStep
  <2>2. ASSUME NEW s \in Sessions, Expire(s) PROVE EndedInv'
    <3>1. UNCHANGED accountVars /\ req' = req /\ cached' = cached \ {s} /\ stale' = stale \ {s}
      BY <2>2 DEF Expire
    <3>2. UNCHANGED <<token, tokenOf, lateTokens, session>>
      BY <3>1 DEF accountVars, tokenVars, sessionVars
    <3> QED BY <3>1, <3>2 DEF EndedInv, Steady, Live, Evicting
  <2>3. ASSUME NEW p \in Seeders, Seeds(p) PROVE EndedInv'
    BY <2>3, SameRequestsEnded DEF Seeds, SeedLock, SeedLooks, SeedCommits, SeedSkips, accountVars
  <2>4. ASSUME UNCHANGED vars \/ CodeEnds \/ \E i \in 1..MaxCodes : ResetExpires(i) PROVE EndedInv'
    BY <2>4, SameRequestsEnded DEF vars, CodeEnds, ResetExpires, accountVars
  <2> QED BY <2>1, <2>2, <2>3, <2>4, SignsInEnded, EndsEnded, RefreshesEnded, ResetsEnded DEF Next
<1> QED BY <1>1, <1>2, ClaimedInvariant, PTL DEF Spec

(* Of a session that has ended, a token is refreshed only if it was made   *)
(* as the session ended, and the session only if what it was validated by  *)
(* is excused (refreshSession, rotate).                                    *)
THEOREM EndedAreNotRefreshed == Spec => RefreshOfEnded
<1>1. EndedInv /\ Claimed' /\ [Next]_vars =>
        [\A c \in Calls :
           At(c, "rotate") /\ ~Live(req[c].ses) /\ tokenOf' # tokenOf /\ At(c, "idle")' =>
             req[c].tok \in lateTokens /\ req[c].valid # "wrong"]_vars
  <2> SUFFICES ASSUME EndedInv, [Next]_vars, NEW c \in Calls, req[c].pc = "rotate", ~Live(req[c].ses),
                      tokenOf' # tokenOf, req'[c].pc = "idle"
               PROVE  req[c].tok \in lateTokens /\ req[c].valid # "wrong"
    BY DEF At
  <2>1. PICK d \in Calls : IssueToken(d) \/ Rotate(d)
    <3>1. ASSUME NEW d \in Calls, SignsIn(d), ~IssueToken(d) PROVE tokenOf' = tokenOf
      <4>1. CASE Rehash(d) \/ SignInCommits(d)
        BY <4>1 DEF Rehash, SignInCommits, tokenVars
      <4> QED BY <3>1, <4>1 DEF SignsIn, Login, Begins, FindOnDevice, SignInConflicts, accountVars, tokenVars
    <3>2. ASSUME NEW d \in Calls, Ends(d) PROVE tokenOf' = tokenOf
      <4>1. CASE EndingCommits(d)
        BY <4>1 DEF EndingCommits
      <4> QED BY <3>2, <4>1 DEF Ends, ChangePassword, EndSession, Begins, StartEnding, Evict, EvictionLost,
                                accountVars, tokenVars
    <3>3. ASSUME NEW d \in Calls, Refreshes(d), ~Rotate(d) PROVE tokenOf' = tokenOf
      <4>1. CASE EndReused(d)
        BY <4>1 DEF EndReused
      <4> QED BY <3>3, <4>1 DEF Refreshes, Refresh, Begins, Validate, StoreSnapshot, RefreshRefused,
                                accountVars, tokenVars
    <3>4. ASSUME NEW d \in Calls, Resets(d) \/ Dies(d) PROVE tokenOf' = tokenOf
      BY <3>4 DEF Resets, RequestReset, AnswerCode, ResetPassword, Begins, Open, Dies, accountVars, tokenVars
    <3>5. ASSUME NEW p \in Seeders, Seeds(p) PROVE tokenOf' = tokenOf
      BY <3>5 DEF Seeds, SeedLock, SeedLooks, SeedCommits, SeedSkips, accountVars, tokenVars
    <3> QED BY <3>1, <3>2, <3>3, <3>4, <3>5
            DEF Next, Expire, CodeEnds, ResetExpires, vars, accountVars, tokenVars
  <2>2. d = c
    <3>1. Only(d)
      BY <2>1, SteadyAt, RequestDone DEF IssueToken, Rotate
    <3> QED BY <3>1 DEF Only
  <2>3. token[req[c].tok] = "live"
    BY <2>1, <2>2 DEF IssueToken, Rotate, At
  <2>4. Steady(req[c])
    BY SteadyAt
  <2> QED BY <2>3, <2>4 DEF Steady, EndedInv
<1> QED BY <1>1, EndedInvariant, ClaimedInvariant, PTL DEF Spec, RefreshOfEnded
=============================================================================
