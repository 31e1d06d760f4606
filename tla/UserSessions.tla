---------------------------- MODULE UserSessions ----------------------------
(***************************************************************************)
(* The sessions and refresh tokens of one user: signing in on a device,     *)
(* refreshing, detecting reuse, and the ways to end sessions, run by        *)
(* concurrent requests against PostgreSQL at READ COMMITTED.                *)
(*                                                                          *)
(* A transaction is taken statement by statement and row by row.  Its       *)
(* writes are in its request until it commits; a row it has written is      *)
(* locked; a statement picks its rows from what is committed when it        *)
(* starts, waits for those that are locked and looks at each again.         *)
(***************************************************************************)
EXTENDS Naturals, FiniteSets

CONSTANTS
  Requests,     \* requests, each made once
  Devices,      \* the device ids of the user
  Kinds,        \* what requests there are
  MaxSessions,  \* sessions are 1..MaxSessions, in the order they commit
  MaxTokens,    \* refresh tokens are 1..MaxTokens, in the order they commit
  None

ASSUME SessionAssumption ==
  /\ Kinds \subseteq {"login", "refresh", "logout", "owned", "others", "change", "reset"}
  /\ MaxSessions \in Nat \ {0}
  /\ MaxTokens \in Nat \ {0}
  /\ None \notin Devices
  /\ None \notin Nat

VARIABLES
  session,   \* session[s]: "unborn", "live", or the reason it was revoked for
  deviceOf,  \* deviceOf[s]: its device
  token,     \* token[t]: "unborn", "live", or the reason it was revoked for
  tokenOf,   \* tokenOf[t]: its session
  cached,    \* sessions whose live snapshot a validation may be served
  password,  \* how often the password was set
  pwOf,      \* ghost, pwOf[s]: the password s was started with
  late,      \* ghost: sessions whose sign-in a password change overtook
  req        \* req[r]: the request's kind, its place, its uncommitted writes

vars == <<session, deviceOf, token, tokenOf, cached, password, pwOf, late, req>>
sessionVars == <<session, deviceOf, pwOf, late>>
tokenVars == <<token, tokenOf>>
committed == <<sessionVars, tokenVars, password>>

Sessions == 1..MaxSessions
Tokens == 1..MaxTokens

Ending == {"login", "logout", "owned", "others", "change", "reset", "reuse"}

\* SessionRevokeReason, by what revokes.
SessionReason == [k \in Ending |->
  CASE k = "login" -> "SUPERSEDED"
    [] k = "logout" -> "LOGOUT"
    [] k \in {"owned", "others"} -> "USER_REVOKED"
    [] k = "change" -> "PASSWORD_CHANGED"
    [] k = "reset" -> "PASSWORD_RESET"
    [] k = "reuse" -> "TOKEN_REUSE_DETECTED"]

SessionReasons == {SessionReason[k] : k \in Ending}
TokenReasons == {"ROTATED", "REUSE_DETECTED", "SESSION_REVOKED"}

\* Kinds that revoke every session, or every other one.
Sweeping == {"others", "change", "reset"}
SetsPassword == {"change", "reset"}

Places == {"idle", "credential", "find", "validate", "rotate", "rotateRows", "reuse", "reuseRows",
           "sessions", "sessionRows", "tokens", "tokenRows", "insert", "commit",
           "issue", "done", "conflict", "failed"}

Request == [kind : Kinds \cup {"none", "reuse"}, pc : Places,
            ses : Sessions \cup {None}, tok : Tokens \cup {None},
            dev : Devices \cup {None}, began : Nat, saw : Nat, overtaken : BOOLEAN,
            retried : BOOLEAN, rows : SUBSET Nat,
            wroteS : SUBSET Sessions, wroteT : SUBSET (Tokens \X TokenReasons)]

TypeOK ==
  /\ session \in [Sessions -> {"unborn", "live"} \cup SessionReasons]
  /\ deviceOf \in [Sessions -> Devices \cup {None}]
  /\ token \in [Tokens -> {"unborn", "live"} \cup TokenReasons]
  /\ tokenOf \in [Tokens -> Sessions \cup {None}]
  /\ cached \subseteq Sessions
  /\ password \in Nat
  /\ pwOf \in [Sessions -> Nat]
  /\ late \subseteq Sessions
  /\ req \in [Requests -> Request]
  /\ \A r \in Requests :
       req[r].kind \in {"refresh", "reuse", "logout", "owned"} => req[r].ses \in Sessions

\* Nothing running.
Idle == [kind |-> "none", pc |-> "idle", ses |-> None, tok |-> None, dev |-> None,
         began |-> 0, saw |-> 0, overtaken |-> FALSE, retried |-> FALSE, rows |-> {},
         wroteS |-> {}, wroteT |-> {}]

\* A user who is signed in on one device and has not refreshed yet.
Init ==
  \E d \in Devices :
    /\ session = [s \in Sessions |-> IF s = 1 THEN "live" ELSE "unborn"]
    /\ deviceOf = [s \in Sessions |-> IF s = 1 THEN d ELSE None]
    /\ token = [t \in Tokens |-> IF t = 1 THEN "live" ELSE "unborn"]
    /\ tokenOf = [t \in Tokens |-> IF t = 1 THEN 1 ELSE None]
    /\ cached = {}
    /\ password = 0
    /\ pwOf = [s \in Sessions |-> 0]
    /\ late = {}
    /\ req = [r \in Requests |-> Idle]

-----------------------------------------------------------------------------
At(r, pc) == req[r].pc = pc
Go(r, pc) == req' = [req EXCEPT ![r].pc = pc]

Born(s) == session[s] # "unborn"
Live(s) == session[s] = "live"

TokensWritten(r) == {w[1] : w \in req[r].wroteT}

\* Row locks: a row belongs to the transaction that has written it.
SessionHeld(r, s) == \E q \in Requests \ {r} : s \in req[q].wroteS
TokenHeld(r, t) == \E q \in Requests \ {r} : t \in TokensWritten(q)

\* A sign-in that has begun and not yet ended.
SigningIn(r) == req[r].kind = "login" /\ req[r].pc \notin {"done", "conflict", "failed"}

\* The row of the credential belongs to the transaction that has set it.
CredentialHolders(r) ==
  {q \in Requests \ {r} :
     /\ req[q].kind \in SetsPassword
     /\ req[q].pc \in {"sessions", "sessionRows", "tokens", "tokenRows", "commit"}}

\* A password change whose sweep has picked its sessions and is not committed.
Sweeps(q) == req[q].kind \in SetsPassword /\ req[q].pc \in {"sessionRows", "tokens", "tokenRows", "commit"}

FirstFree(born) == Cardinality(born) + 1
NextSession == FirstFree({s \in Sessions : Born(s)})
NextToken == FirstFree({t \in Tokens : token[t] # "unborn"})

-----------------------------------------------------------------------------
(* Requests begin.                                                          *)

\* The password, or the code, is right; the session is not made yet.  `began`
\* is how many sessions there were: sessions are numbered as they are committed.
StartLogin(r, d) ==
  /\ "login" \in Kinds /\ At(r, "idle")
  /\ req' = [req EXCEPT ![r] = [Idle EXCEPT
       !.kind = "login", !.pc = "find", !.dev = d, !.began = NextSession - 1, !.saw = password,
       !.overtaken = \E q \in Requests : Sweeps(q)]]
  /\ UNCHANGED <<committed, cached>>

\* refreshSession up to the verdict on the token.  An unknown or an expired
\* token is refused and changes nothing.
StartRefresh(r, t, d) ==
  /\ "refresh" \in Kinds /\ At(r, "idle")
  /\ token[t] # "unborn"
  /\ LET begun == [Idle EXCEPT !.kind = "refresh", !.ses = tokenOf[t], !.tok = t, !.dev = d]
     IN req' = [req EXCEPT ![r] =
          IF token[t] = "live" THEN [begun EXCEPT !.pc = "validate"]
          ELSE [begun EXCEPT !.kind = "reuse", !.pc = "reuse"]]
  /\ UNCHANGED <<committed, cached>>

\* Mutant: the tokens first, then the session.
StartEndingTokensFirst(r, k, s) ==
  /\ k \in Kinds \ {"login", "refresh"} /\ At(r, "idle")
  /\ Born(s)
  /\ req' = [req EXCEPT ![r] = [Idle EXCEPT !.kind = k,
       !.pc = IF k \in SetsPassword THEN "credential"
              ELSE IF k \in Sweeping THEN "sessions" ELSE "reuse",
       !.ses = IF k = "reset" THEN None ELSE s]]
  /\ UNCHANGED <<committed, cached>>

\* logout, revokeSession, revokeOtherSessions, changePassword, resetPassword.
StartEnding(r, k, s) ==
  /\ k \in Kinds \ {"login", "refresh"} /\ At(r, "idle")
  /\ Born(s)
  /\ req' = [req EXCEPT ![r] = [Idle EXCEPT !.kind = k,
       !.pc = IF k \in SetsPassword THEN "credential" ELSE "sessions",
       !.ses = IF k = "reset" THEN None ELSE s]]
  /\ UNCHANGED <<committed, cached>>

\* setCredential, inside the transaction and before the sweep.
SetCredential(r) ==
  /\ At(r, "credential") /\ CredentialHolders(r) = {}
  /\ Go(r, "sessions")
  /\ UNCHANGED <<committed, cached>>

-----------------------------------------------------------------------------
(* UserSessionService.validate: the snapshot comes from the database or from *)
(* the cache, which may still serve the live one after the session ended.   *)

ValidateOk(r) ==
  LET s == req[r].ses IN
  /\ At(r, "validate")
  /\ Live(s) \/ s \in cached
  /\ deviceOf[s] = req[r].dev
  /\ cached' = cached \cup {s}
  /\ Go(r, "rotate")
  /\ UNCHANGED committed

ValidateRefuses(r) ==
  LET s == req[r].ses IN
  /\ At(r, "validate")
  /\ ~Live(s) \/ deviceOf[s] # req[r].dev
  /\ Go(r, "done")
  /\ UNCHANGED <<committed, cached>>

\* The eviction after a revoke, or the time to live of a snapshot.
Forget(s) ==
  /\ s \in cached /\ ~Live(s)
  /\ cached' = cached \ {s}
  /\ UNCHANGED <<committed, req>>

-----------------------------------------------------------------------------
(* Statements on user_sessions.                                             *)

\* findLiveIdByDevice
Find(r) ==
  LET found == {s \in Sessions : Live(s) /\ deviceOf[s] = req[r].dev} IN
  /\ At(r, "find")
  /\ IF found = {}
       THEN Go(r, "insert")
       ELSE \E s \in found :
              req' = [req EXCEPT ![r].ses = s, ![r].pc = "sessions"]
  /\ UNCHANGED <<committed, cached>>

SessionScope(r) ==
  IF req[r].kind \in Sweeping THEN Sessions \ {req[r].ses} ELSE {req[r].ses}

\* Mutant: the sweep leaves out one more session.
PickSessionsShort(r) ==
  /\ At(r, "sessions")
  /\ req' = [q \in Requests |->
       IF q = r THEN [req[r] EXCEPT !.pc = "sessionRows",
                        !.rows = {s \in SessionScope(r) : Live(s) /\ s # 1}]
       ELSE IF req[r].kind \in SetsPassword /\ SigningIn(q)
              THEN [req[q] EXCEPT !.overtaken = TRUE]
              ELSE req[q]]
  /\ UNCHANGED <<committed, cached>>

\* revoke, revokeOwned, revokeAllForUser: the rows are picked, and a sweep
\* that sets a password overtakes the sign-ins that are under way.
PickSessions(r) ==
  /\ At(r, "sessions")
  /\ req' = [q \in Requests |->
       IF q = r THEN [req[r] EXCEPT !.pc = "sessionRows",
                        !.rows = {s \in SessionScope(r) : Live(s)}]
       ELSE IF req[r].kind \in SetsPassword /\ SigningIn(q)
              THEN [req[q] EXCEPT !.overtaken = TRUE]
              ELSE req[q]]
  /\ UNCHANGED <<committed, cached>>

\* A row is locked, and written if it is still live.
LockSession(r, s) ==
  /\ At(r, "sessionRows") /\ s \in req[r].rows
  /\ ~SessionHeld(r, s)
  /\ req' = [req EXCEPT ![r].rows = @ \ {s},
                        ![r].wroteS = IF Live(s) THEN @ \cup {s} ELSE @]
  /\ UNCHANGED <<committed, cached>>

\* retire goes on to the tokens whether or not it revoked the session;
\* revokeOwned and revokeAllForUser stop when they revoked nothing.
SessionsDone(r) ==
  /\ At(r, "sessionRows") /\ req[r].rows = {}
  /\ Go(r, IF req[r].kind \in Sweeping \cup {"owned"} /\ req[r].wroteS = {}
             THEN "commit" ELSE "tokens")
  /\ UNCHANGED <<committed, cached>>

-----------------------------------------------------------------------------
(* Statements on user_refresh_tokens.                                       *)

TokenScope(r) == IF req[r].kind \in Sweeping THEN req[r].wroteS ELSE {req[r].ses}

\* The rows a statement picks, and where it then locks them.
PickTokens(r, pc, rowsPc, picked) ==
  /\ At(r, pc)
  /\ req' = [req EXCEPT ![r].pc = rowsPc, ![r].rows = picked]
  /\ UNCHANGED <<committed, cached>>

LiveTokens(r) ==
  {t \in Tokens : token[t] = "live" /\ tokenOf[t] \in TokenScope(r)} \ TokensWritten(r)

\* revokeAllForSessions, and revoke for the one token of a rotation
PickSessionTokens(r) == PickTokens(r, "tokens", "tokenRows", LiveTokens(r))
PickReusedTokens(r) == PickTokens(r, "reuse", "reuseRows", LiveTokens(r))
PickRotated(r) ==
  PickTokens(r, "rotate", "rotateRows", {t \in {req[r].tok} : token[t] = "live"})

TokenReason(pc) ==
  CASE pc = "tokenRows" -> "SESSION_REVOKED"
    [] pc = "reuseRows" -> "REUSE_DETECTED"
    [] pc = "rotateRows" -> "ROTATED"

TokenRows == {"tokenRows", "reuseRows", "rotateRows"}

\* Mutant: a blind update.
LockTokenBlindly(r, t) ==
  /\ req[r].pc \in TokenRows /\ t \in req[r].rows
  /\ ~TokenHeld(r, t)
  /\ req' = [req EXCEPT ![r].rows = @ \ {t},
       ![r].wroteT = @ \cup {<<t, TokenReason(req[r].pc)>>}]
  /\ UNCHANGED <<committed, cached>>

LockToken(r, t) ==
  /\ req[r].pc \in TokenRows /\ t \in req[r].rows
  /\ ~TokenHeld(r, t)
  /\ req' = [req EXCEPT ![r].rows = @ \ {t},
       ![r].wroteT = IF token[t] = "live" THEN @ \cup {<<t, TokenReason(req[r].pc)>>} ELSE @]
  /\ UNCHANGED <<committed, cached>>

\* Mutant: detecting reuse revokes the tokens and leaves the session.
TokensDoneKeepingSession(r) ==
  /\ req[r].pc \in TokenRows /\ req[r].rows = {}
  /\ Go(r, CASE At(r, "tokenRows") -> IF req[r].kind = "login" THEN "insert" ELSE "commit"
             [] At(r, "reuseRows") -> "commit"
             [] At(r, "rotateRows") -> IF req[r].wroteT = {} THEN "done" ELSE "commit")
  /\ UNCHANGED <<committed, cached>>

\* A rotation that lost the race for its token is refused.
TokensDone(r) ==
  /\ req[r].pc \in TokenRows /\ req[r].rows = {}
  /\ Go(r, CASE At(r, "tokenRows") -> IF req[r].kind = "login" THEN "insert" ELSE "commit"
             [] At(r, "reuseRows") -> "sessions"
             [] At(r, "rotateRows") -> IF req[r].wroteT = {} THEN "done" ELSE "commit")
  /\ UNCHANGED <<committed, cached>>

-----------------------------------------------------------------------------
(* The insert of a session under the partial unique index on the device of  *)
(* the live ones.                                                           *)

\* Committed rows the new one clashes with.
Clashing(r) ==
  {s \in Sessions : Live(s) /\ deviceOf[s] = req[r].dev} \ req[r].wroteS

\* Transactions that decide whether it clashes: the insert waits for them.
InsertWaitsFor(r) ==
  {q \in Requests \ {r} :
     \/ req[q].wroteS \cap Clashing(r) # {}
     \/ req[q].kind = "login" /\ req[q].pc = "commit" /\ req[q].dev = req[r].dev}

Insert(r) ==
  /\ At(r, "insert") /\ InsertWaitsFor(r) = {}
  /\ Clashing(r) = {}
  /\ Go(r, "commit")
  /\ UNCHANGED <<committed, cached>>

Undone(r, pc) ==
  [req[r] EXCEPT !.pc = pc, !.rows = {}, !.wroteS = {}, !.wroteT = {}]

\* Mutant: a unique violation is answered with 409 at once.
InsertClashesForGood(r) ==
  /\ At(r, "insert") /\ InsertWaitsFor(r) = {}
  /\ Clashing(r) # {}
  /\ req' = [req EXCEPT ![r] = Undone(r, "conflict")]
  /\ UNCHANGED <<committed, cached>>

\* A unique violation rolls back; startForDevice tries once more.
InsertClashes(r) ==
  /\ At(r, "insert") /\ InsertWaitsFor(r) = {}
  /\ Clashing(r) # {}
  /\ req' = [req EXCEPT ![r] =
       IF req[r].retried THEN Undone(r, "conflict")
       ELSE [Undone(r, "find") EXCEPT !.retried = TRUE, !.ses = None]]
  /\ UNCHANGED <<committed, cached>>

-----------------------------------------------------------------------------
(* Transactions end.                                                        *)

\* The sessions and tokens once r's revocations are committed.
Revoked(r) == [s \in Sessions |->
  IF s \in req[r].wroteS THEN SessionReason[req[r].kind] ELSE session[s]]

Spent(r) == [t \in Tokens |->
  IF t \in TokensWritten(r) THEN (CHOOSE w \in req[r].wroteT : w[1] = t)[2] ELSE token[t]]

Finished(r, pc, s) == [req EXCEPT ![r] = [Undone(r, pc) EXCEPT !.ses = s]]

\* supersedeAndCreate: the device's session is replaced.
CommitLogin(r) ==
  LET s == NextSession IN
  /\ At(r, "commit") /\ req[r].kind = "login" /\ s \in Sessions
  /\ session' = [Revoked(r) EXCEPT ![s] = "live"]
  /\ deviceOf' = [deviceOf EXCEPT ![s] = req[r].dev]
  /\ pwOf' = [pwOf EXCEPT ![s] = req[r].saw]
  /\ late' = IF req[r].overtaken THEN late \cup {s} ELSE late
  /\ token' = Spent(r)
  /\ req' = Finished(r, "issue", s)
  /\ UNCHANGED <<tokenOf, password, cached>>

\* rotate: the spent token and its successor.
CommitRotate(r) ==
  LET t == NextToken IN
  /\ At(r, "commit") /\ req[r].kind = "refresh" /\ t \in Tokens
  /\ token' = [Spent(r) EXCEPT ![t] = "live"]
  /\ tokenOf' = [tokenOf EXCEPT ![t] = req[r].ses]
  /\ req' = Finished(r, "done", req[r].ses)
  /\ UNCHANGED <<sessionVars, password, cached>>

\* The rest: revoke, revokeOwned, revokeAllForUser, revokeReusedSession, and
\* the password that changePassword and resetPassword set beside the sweep.
CommitEnding(r) ==
  LET k == req[r].kind IN
  /\ At(r, "commit") /\ k \notin {"login", "refresh"}
  /\ session' = Revoked(r)
  /\ token' = Spent(r)
  /\ password' = IF k \in SetsPassword THEN password + 1 ELSE password
  /\ pwOf' = IF k = "change" THEN [pwOf EXCEPT ![req[r].ses] = password + 1] ELSE pwOf
  /\ req' = Finished(r, "done", req[r].ses)
  /\ UNCHANGED <<deviceOf, late, tokenOf, cached>>

\* The first refresh token of a session, outside the transaction that made it.
Issue(r) ==
  LET t == NextToken IN
  /\ At(r, "issue") /\ t \in Tokens
  /\ token' = [token EXCEPT ![t] = "live"]
  /\ tokenOf' = [tokenOf EXCEPT ![t] = req[r].ses]
  /\ Go(r, "done")
  /\ UNCHANGED <<sessionVars, password, cached>>

\* A timeout, a deadlock victim, a lost connection or a crash: the transaction
\* is rolled back and the request has failed.
Fail(r) ==
  /\ req[r].pc \notin {"idle", "done", "conflict", "failed"}
  /\ req' = [req EXCEPT ![r] = Undone(r, "failed")]
  /\ UNCHANGED <<committed, cached>>

-----------------------------------------------------------------------------
Start(r) ==
  \/ \E d \in Devices : StartLogin(r, d)
  \/ \E t \in Tokens, d \in Devices : StartRefresh(r, t, d)
  \/ \E k \in Kinds, s \in Sessions : StartEnding(r, k, s)

Step(r) ==
  \/ SetCredential(r) \/ ValidateOk(r) \/ ValidateRefuses(r)
  \/ Find(r) \/ PickSessions(r) \/ SessionsDone(r)
  \/ \E s \in Sessions : LockSession(r, s)
  \/ PickSessionTokens(r) \/ PickReusedTokens(r) \/ PickRotated(r) \/ TokensDone(r)
  \/ \E t \in Tokens : LockToken(r, t)
  \/ Insert(r) \/ InsertClashes(r)
  \/ CommitLogin(r) \/ CommitRotate(r) \/ CommitEnding(r)
  \/ Issue(r)

Next ==
  \/ \E r \in Requests : Start(r) \/ Step(r) \/ Fail(r)
  \/ \E s \in Sessions : Forget(s)

Spec == Init /\ [][Next]_vars

-----------------------------------------------------------------------------
(* Properties.                                                              *)

\* A session never has two live refresh tokens: however many tabs present the
\* same one, rotation gives it one successor.
OneLiveToken ==
  \A t, u \in Tokens :
    token[t] = "live" /\ token[u] = "live" /\ tokenOf[t] = tokenOf[u] => t = u

\* A replayed token costs the session: once the reuse is dealt with, it is over.
ReuseEndsSession ==
  \A r \in Requests :
    req[r].kind = "reuse" /\ At(r, "done") => session[req[r].ses] \in SessionReasons

\* One retry settles a race of two sign-ins on a device: a sign-in is refused
\* with 409 only if two others on the device were committed since it began
\* (startForDevice, user-session.service.ts:40).
ConflictMeansThree ==
  \A r \in Requests : At(r, "conflict") =>
    Cardinality({s \in Sessions :
      s > req[r].began /\ Born(s) /\ deviceOf[s] = req[r].dev}) >= 2

\* A session that outlives a password change was started with the new one,
\* kept by it, or was being started while it ran.
LateSessionsOnly ==
  \A s \in Sessions : Live(s) /\ pwOf[s] < password => s \in late

\* Whom r's statement may wait for.
WaitsFor(r) ==
  {q \in Requests \ {r} :
     \/ At(r, "sessionRows") /\ req[r].rows \cap req[q].wroteS # {}
     \/ req[r].pc \in TokenRows /\ req[r].rows \cap TokensWritten(q) # {}
     \/ At(r, "insert") /\ q \in InsertWaitsFor(r)
     \/ At(r, "credential") /\ q \in CredentialHolders(r)}

\* Two transactions wait for each other only if one of them deals with a
\* reused token, which locks tokens before the session, or both sweep and one
\* does so without setting the password first.
DeadlockNeedsReuse ==
  \A r \in Requests : \A q \in WaitsFor(r) :
    r \in WaitsFor(q) =>
      \/ "reuse" \in {req[r].kind, req[q].kind}
      \/ /\ {req[r].kind, req[q].kind} \subseteq Sweeping
         /\ "others" \in {req[r].kind, req[q].kind}

\* "Retires every live token on one or more sessions": once all requests have
\* ended, a revoked session has no live token.
RevokedHasNoLiveToken ==
  (\A r \in Requests : req[r].pc \in {"idle", "done", "conflict"}) =>
    \A t \in Tokens : token[t] = "live" => Live(tokenOf[t])
=============================================================================
