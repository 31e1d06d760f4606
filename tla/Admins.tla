------------------------------- MODULE Admins -------------------------------
(***************************************************************************)
(* The first admin: created by a seeder without a password, claimed with   *)
(* "forgot password", signing in on devices, changing and resetting the    *)
(* password, refreshing and ending sessions, by concurrent requests.       *)
(*                                                                         *)
(* A transaction that ends sessions is two steps: the first locks their    *)
(* rows and picks their tokens, the second commits.  UserSessions and      *)
(* UserCodes take the users' copy of this code apart, row by row.          *)
(***************************************************************************)
EXTENDS Integers, FiniteSets

CONSTANTS
  Seeders,      \* processes that run the bootstrap seeders
  Calls,        \* concurrent requests, each made again when it has ended
  Devices,
  MaxCalls,     \* bound on the requests made
  MaxSessions,  \* bound: sessions are 1..MaxSessions, in the order they commit
  MaxTokens,    \* bound: refresh tokens are 1..MaxTokens, in the order they commit
  MaxPasswords, \* bound: passwords are 0..MaxPasswords, in the order they are set
  MaxCodes,     \* bound: codes are 1..MaxCodes, and so are the reset tokens they give
  MaxFaults,    \* bound on requests that die and evictions that are lost
  None

ASSUME AdminsAssumption ==
  /\ MaxCalls \in Nat /\ MaxSessions \in Nat \ {0} /\ MaxTokens \in Nat \ {0}
  /\ MaxPasswords \in Nat \ {0} /\ MaxCodes \in Nat /\ MaxFaults \in Nat
  /\ None \notin Devices \cup Nat \cup [pw : Nat, weak : BOOLEAN]

VARIABLES
  seeder,      \* [Seeders -> {"start", "locked", "create", "done"}]
  admins,      \* admins there are
  verified,    \* emailVerifiedAt is set
  credential,  \* None, or the password and whether its hash is of an old cost
  code,        \* the ACTIVE code, or 0
  codes,       \* codes issued
  reset,       \* [1..MaxCodes -> {"unborn", "ACTIVE", "SUPERSEDED", "EXPIRED", "CONSUMED"}]
  session,     \* [1..MaxSessions -> {"unborn", "live", "ended"}]
  deviceOf,    \* [1..MaxSessions -> Devices \cup {None}]
  token,       \* [1..MaxTokens -> {"unborn", "live", "revoked"}]
  tokenOf,     \* [1..MaxTokens -> 0..MaxSessions]
  cached,      \* sessions whose live snapshot is in the cache
  req, calls, faults,
  latest,      \* ghost: the password set last
  undone,      \* ghost: a rehash wrote an older password over it
  startedIn,   \* ghost, startedIn[s]: the password set last when s was asked for
  late,        \* ghost: sessions whose sign-in the password set last overtook
  kept,        \* ghost: the session that set the password last, if one did
  lateTokens,  \* ghost: tokens made as their session ended, and their successors
  stale        \* ghost: ended sessions cached by a load from before, or by a lost eviction

personVars == <<seeder, admins>>
credentialVars == <<verified, credential, latest, undone>>
resetVars == <<code, codes, reset>>
sessionVars == <<session, deviceOf, startedIn, late, kept>>
tokenVars == <<token, tokenOf, lateTokens>>
cacheVars == <<cached, stale>>
accountVars == <<credentialVars, resetVars, sessionVars, tokenVars>>
vars == <<personVars, accountVars, cacheVars, req, calls, faults>>

Sessions == 1..MaxSessions
Tokens == 1..MaxTokens

(* A request: the device it signs in on, its session, its token, the       *)
(* password it read and the one set last by then, what its validation was  *)
(* served, the sessions there were as it swept, those it is ending with    *)
(* their tokens, and what it leaves to evict.                              *)
Idle == [op |-> "none", pc |-> "idle", dev |-> None, ses |-> 0, tok |-> 0, pw |-> 0, since |-> 0,
         retried |-> FALSE, valid |-> "none", seen |-> {},
         ending |-> {}, tokens |-> {}, evict |-> {}]

Ops == {"none", "login", "change", "reset", "logout", "owned", "others", "refresh", "answer"}
Requests ==
  [op : Ops,
   pc : {"idle", "rehash", "find", "end", "commit", "evict", "issue", "reuse", "validate", "store",
         "rotate", "open"},
   dev : Devices \cup {None}, ses : 0..MaxSessions, tok : Nat, pw : Nat, since : Nat,
   retried : BOOLEAN, valid : {"none", "live", "excused", "wrong"}, seen : SUBSET Sessions,
   ending : SUBSET Sessions, tokens : SUBSET Tokens, evict : SUBSET (0..MaxSessions)]

TypeOK ==
  /\ seeder \in [Seeders -> {"start", "locked", "create", "done"}]
  /\ admins \in Nat /\ verified \in BOOLEAN
  /\ credential \in [pw : Nat, weak : BOOLEAN] \cup {None}
  /\ code \in 0..MaxCodes /\ codes \in 0..MaxCodes
  /\ reset \in [1..MaxCodes -> {"unborn", "ACTIVE", "SUPERSEDED", "EXPIRED", "CONSUMED"}]
  /\ session \in [Sessions -> {"unborn", "live", "ended"}]
  /\ deviceOf \in [Sessions -> Devices \cup {None}]
  /\ token \in [Tokens -> {"unborn", "live", "revoked"}]
  /\ tokenOf \in [Tokens -> 0..MaxSessions]
  /\ cached \subseteq 0..MaxSessions /\ stale \subseteq cached
  /\ req \in [Calls -> Requests]
  /\ calls \in Nat /\ faults \in Nat /\ latest \in Nat /\ undone \in BOOLEAN
  /\ startedIn \in [Sessions -> Nat]
  /\ late \subseteq Sessions /\ kept \subseteq 0..MaxSessions /\ lateTokens \subseteq Tokens

(* A deployment that has just been made, or one whose admin set a password *)
(* when hashes were cheaper.                                               *)
Init ==
  /\ seeder = [p \in Seeders |-> "start"]
  /\ \/ admins = 0 /\ verified = FALSE /\ credential = None
     \/ admins = 1 /\ verified = TRUE /\ credential = [pw |-> 0, weak |-> TRUE]
  /\ code = 0 /\ codes = 0
  /\ reset = [i \in 1..MaxCodes |-> "unborn"]
  /\ session = [s \in Sessions |-> "unborn"]
  /\ deviceOf = [s \in Sessions |-> None]
  /\ token = [t \in Tokens |-> "unborn"]
  /\ tokenOf = [t \in Tokens |-> 0]
  /\ cached = {} /\ stale = {}
  /\ req = [c \in Calls |-> Idle]
  /\ calls = 0 /\ faults = 0
  /\ latest = 0 /\ undone = FALSE
  /\ startedIn = [s \in Sessions |-> 0]
  /\ late = {} /\ kept = {} /\ lateTokens = {}

At(c, pc) == req[c].pc = pc
Goes(c, request) == req' = [req EXCEPT ![c] = request]
Go(c, pc) == Goes(c, [req[c] EXCEPT !.pc = pc])
Done(c) == Goes(c, Idle)

Live(s) == s \in Sessions /\ session[s] = "live"
LiveSessions == {s \in Sessions : Live(s)}
LiveOn(d) == {s \in LiveSessions : deviceOf[s] = d}
LiveTokens(ss) == {t \in Tokens : token[t] = "live" /\ tokenOf[t] \in ss}
Evicting(s) == \E c \in Calls : s \in req[c].evict

(* Row locks: sessions, and the credential, between the steps of a         *)
(* transaction.                                                            *)
Ending(s) == \E c \in Calls : At(c, "commit") /\ s \in req[c].ending
SettingPassword == \E c \in Calls : At(c, "commit") /\ req[c].op \in {"reset", "change"}

Begins(c, request) ==
  /\ At(c, "idle") /\ calls < MaxCalls /\ admins > 0
  /\ calls' = calls + 1
  /\ Goes(c, request)
  /\ UNCHANGED <<personVars, accountVars, cacheVars, faults>>

Proceeds(c) == UNCHANGED <<personVars, calls, faults>>
-----------------------------------------------------------------------------
(* AdminSeeder.run *)

\* Mutant: every seeder goes ahead.
SeedLockFree(p) ==
  /\ seeder[p] = "start"
  /\ seeder' = [seeder EXCEPT ![p] = "locked"]
  /\ UNCHANGED <<admins, accountVars, cacheVars, req, calls, faults>>

(* pg_advisory_xact_lock: held until the transaction ends. *)
SeedLock(p) ==
  /\ seeder[p] = "start"
  /\ \A q \in Seeders : seeder[q] \notin {"locked", "create"}
  /\ seeder' = [seeder EXCEPT ![p] = "locked"]
  /\ UNCHANGED <<admins, accountVars, cacheVars, req, calls, faults>>

SeedLooks(p) ==
  /\ seeder[p] = "locked"
  /\ seeder' = [seeder EXCEPT ![p] = IF admins > 0 THEN "done" ELSE "create"]
  /\ UNCHANGED <<admins, accountVars, cacheVars, req, calls, faults>>

(* Or the process dies, and its transaction with it. *)
SeedCommits(p) ==
  /\ seeder[p] = "create"
  /\ seeder' = [seeder EXCEPT ![p] = "done"]
  /\ admins' \in {admins, admins + 1}
  /\ UNCHANGED <<accountVars, cacheVars, req, calls, faults>>

(* SEED_ADMIN_EMAIL is not set. *)
SeedSkips(p) ==
  /\ seeder[p] = "start"
  /\ seeder' = [seeder EXCEPT ![p] = "done"]
  /\ UNCHANGED <<admins, accountVars, cacheVars, req, calls, faults>>
-----------------------------------------------------------------------------
(* The credential, read and verified outside any transaction. *)

Verified(op, next) ==
  [Idle EXCEPT !.op = op, !.pc = IF credential.weak THEN "rehash" ELSE next,
               !.pw = credential.pw, !.since = latest]

Unborn(births) == Cardinality({x \in DOMAIN births : births[x] = "unborn"})
Creating == Cardinality({c \in Calls : req[c].op = "login"})
Setting == Cardinality({c \in Calls : req[c].op \in {"reset", "change"} /\ ~At(c, "evict")})

(* login: without a credential every password is wrong. *)
Login(c, d) ==
  /\ credential # None
  /\ Unborn(session) > Creating /\ Unborn(token) > Creating
  /\ Begins(c, [Verified("login", "find") EXCEPT !.dev = d])

(* changePassword, for a caller whose session the guard found live. *)
ChangePassword(c, s) ==
  /\ credential # None /\ latest + Setting < MaxPasswords
  /\ Live(s) \/ s \in cached
  /\ Begins(c, [Verified("change", "end") EXCEPT !.ses = s])

(* rehashPassword: whatever the hash has become since it was read. *)
Rehash(c) ==
  /\ At(c, "rehash") /\ ~SettingPassword
  /\ credential' = [pw |-> req[c].pw, weak |-> FALSE]
  /\ undone' = (undone \/ req[c].pw # credential.pw)
  /\ Go(c, IF req[c].op = "login" THEN "find" ELSE "end")
  /\ Proceeds(c)
  /\ UNCHANGED <<verified, latest, resetVars, sessionVars, tokenVars, cacheVars>>
-----------------------------------------------------------------------------
(* startForDevice, and the token issued after its transaction. *)

FindOnDevice(c) ==
  /\ At(c, "find")
  /\ IF LiveOn(req[c].dev) = {} THEN Go(c, "commit")
     ELSE \E s \in LiveOn(req[c].dev) : Goes(c, [req[c] EXCEPT !.ses = s, !.pc = "end"])
  /\ Proceeds(c)
  /\ UNCHANGED <<accountVars, cacheVars>>

(* admin_sessions_live_device_key: one retry, then 409. *)
SignInConflicts(c) ==
  /\ At(c, "commit") /\ req[c].op = "login"
  /\ LiveOn(req[c].dev) \ req[c].ending # {}
  /\ IF req[c].retried THEN Done(c)
     ELSE Goes(c, [req[c] EXCEPT !.pc = "find", !.retried = TRUE, !.ses = 0,
                          !.ending = {}, !.tokens = {}, !.seen = {}])
  /\ Proceeds(c)
  /\ UNCHANGED <<accountVars, cacheVars>>

Revoked(c) == [t \in Tokens |-> IF t \in req[c].tokens THEN "revoked" ELSE token[t]]
Ended(c) == [s \in Sessions |-> IF s \in req[c].ending THEN "ended" ELSE session[s]]

(* The next to be born, of the sessions or of the tokens. *)
IsNext(births, x) == births[x] = "unborn" /\ \A y \in 1..(x - 1) : births[y] # "unborn"

SignInCommits(c) == \E new \in Sessions :
  /\ At(c, "commit") /\ req[c].op = "login"
  /\ LiveOn(req[c].dev) \subseteq req[c].ending
  /\ IsNext(session, new)
  /\ session' = [Ended(c) EXCEPT ![new] = "live"]
  /\ token' = Revoked(c)
  /\ deviceOf' = [deviceOf EXCEPT ![new] = req[c].dev]
  /\ startedIn' = [startedIn EXCEPT ![new] = req[c].since]
  /\ late' = IF req[c].since # latest THEN late \cup {new} ELSE late
  /\ Goes(c, [req[c] EXCEPT !.pc = "evict", !.ses = new, !.evict = {req[c].ses} \ {0},
                          !.ending = {}, !.tokens = {}, !.seen = {}])
  /\ Proceeds(c)
  /\ UNCHANGED <<credentialVars, resetVars, kept, tokenOf, lateTokens, cacheVars>>

NewToken(c, parents) == \E new \in Tokens :
  LET s == req[c].ses IN
  /\ IsNext(token, new)
  /\ token' = [t \in Tokens |-> IF t = new THEN "live" ELSE IF t \in parents THEN "revoked" ELSE token[t]]
  /\ tokenOf' = [tokenOf EXCEPT ![new] = s]
  /\ lateTokens' = IF parents \cap lateTokens # {} \/ ~Live(s) \/ Ending(s)
                   THEN lateTokens \cup {new} ELSE lateTokens

IssueToken(c) ==
  /\ At(c, "issue")
  /\ NewToken(c, {})
  /\ Done(c)
  /\ Proceeds(c)
  /\ UNCHANGED <<credentialVars, resetVars, sessionVars, cacheVars>>
-----------------------------------------------------------------------------
(* Ending sessions: logout, revokeSession, revokeOtherSessions, and the    *)
(* sweeps of changePassword and resetPassword.                             *)

\* Mutant: a password change leaves the other sessions signed in.
SweepNobody(c) ==
  CASE req[c].op \in {"login", "owned", "logout"} -> {req[c].ses} \cap LiveSessions
    [] req[c].op = "others" -> LiveSessions \ {req[c].ses}
    [] req[c].op = "change" -> {}
    [] OTHER -> LiveSessions

(* What the update of admin_sessions matches. *)
Swept(c) ==
  CASE req[c].op \in {"login", "owned", "logout"} -> {req[c].ses} \cap LiveSessions
    [] req[c].op \in {"others", "change"} -> LiveSessions \ {req[c].ses}
    [] OTHER -> LiveSessions

EndSession(c, op, s) ==
  /\ op \in {"logout", "owned", "others"} /\ session[s] # "unborn"
  /\ Begins(c, [Idle EXCEPT !.op = op, !.pc = "end", !.ses = s])

\* Mutant: retiring a session leaves its tokens.
RetireKeepsTokens(c) == IF req[c].op \in {"login", "logout"} THEN {} ELSE LiveTokens(Swept(c))

(* revokeAllForSessions: of one session that is given whether or not it     *)
(* was still live (retire), or of those the update returned.                *)
SweptTokens(c) ==
  IF req[c].op \in {"login", "logout"} THEN LiveTokens({req[c].ses}) ELSE LiveTokens(Swept(c))

(* The password of a reset whose token was spent meanwhile is not set.     *)
Refused(c) == req[c].op = "reset" /\ reset[req[c].tok] # "ACTIVE"

(* The first statements: they wait for the credential when they set it,    *)
(* and for the sessions another transaction is ending.                     *)
StartEnding(c) ==
  LET sets == req[c].op \in {"reset", "change"} IN
  /\ At(c, "end")
  /\ sets => ~SettingPassword
  /\ \A s \in Swept(c) : ~Ending(s)
  /\ IF Refused(c) THEN Done(c)
     ELSE Goes(c, [req[c] EXCEPT !.pc = "commit", !.ending = Swept(c),
                          !.tokens = SweptTokens(c), !.seen = LiveSessions])
  /\ Proceeds(c)
  /\ UNCHANGED <<accountVars, cacheVars>>

\* Mutant: the current password is set again.
SetsOldPassword(c) ==
  /\ latest' = latest + 1
  /\ credential' = IF req[c].op = "change" THEN [pw |-> req[c].pw, weak |-> FALSE]
                   ELSE [pw |-> latest + 1, weak |-> FALSE]
  /\ undone' = FALSE
  /\ kept' = IF req[c].op = "change" THEN {req[c].ses} ELSE {}
  /\ late' = LiveSessions \ req[c].seen
  /\ reset' = IF req[c].op = "reset" THEN [reset EXCEPT ![req[c].tok] = "CONSUMED"] ELSE reset

(* The commit.  A password set is the newest, at the cost of the day; its  *)
(* reset token is spent.                                                   *)
SetsPassword(c) ==
  /\ latest' = latest + 1
  /\ credential' = [pw |-> latest + 1, weak |-> FALSE]
  /\ undone' = FALSE
  /\ kept' = IF req[c].op = "change" THEN {req[c].ses} ELSE {}
  /\ late' = LiveSessions \ req[c].seen
  /\ reset' = IF req[c].op = "reset" THEN [reset EXCEPT ![req[c].tok] = "CONSUMED"] ELSE reset

EndingCommits(c) ==
  /\ At(c, "commit") /\ req[c].op # "login"
  /\ session' = Ended(c)
  /\ token' = Revoked(c)
  /\ IF req[c].op \in {"reset", "change"} THEN SetsPassword(c)
     ELSE UNCHANGED <<latest, credential, undone, kept, late, reset>>
  /\ Goes(c, [req[c] EXCEPT !.pc = "evict", !.ending = {}, !.tokens = {}, !.seen = {},
                          !.evict = IF req[c].op = "logout" THEN {req[c].ses} ELSE req[c].ending])
  /\ Proceeds(c)
  /\ UNCHANGED <<verified, code, codes, deviceOf, startedIn, tokenOf, lateTokens, cacheVars>>

(* After the commit, before the answer; an eviction that fails is logged.  *)
AfterEviction(c) ==
  IF req[c].op = "login" THEN Goes(c, [req[c] EXCEPT !.pc = "issue", !.evict = {}]) ELSE Done(c)

Evict(c) ==
  /\ At(c, "evict")
  /\ cached' = cached \ req[c].evict
  /\ stale' = stale \ req[c].evict
  /\ AfterEviction(c)
  /\ Proceeds(c)
  /\ UNCHANGED accountVars

EvictionLost(c) ==
  /\ At(c, "evict") /\ req[c].evict # {} /\ faults < MaxFaults
  /\ faults' = faults + 1
  /\ stale' = stale \cup (req[c].evict \cap cached)
  /\ AfterEviction(c)
  /\ UNCHANGED <<personVars, calls, accountVars, cached>>

Expire(s) ==
  /\ s \in cached
  /\ cached' = cached \ {s} /\ stale' = stale \ {s}
  /\ UNCHANGED <<personVars, accountVars, req, calls, faults>>
-----------------------------------------------------------------------------
(* refreshSession *)

Refresh(c, t) ==
  /\ token[t] # "unborn" /\ Unborn(token) > Creating
  /\ Begins(c, [Idle EXCEPT !.op = "refresh", !.tok = t, !.ses = tokenOf[t],
                            !.pc = IF token[t] = "live" THEN "validate" ELSE "reuse"])

(* revokeReusedSession: the tokens, then the session. *)
EndReused(c) ==
  LET s == req[c].ses IN
  /\ At(c, "reuse") /\ ~Ending(s)
  /\ token' = [t \in Tokens |-> IF t \in LiveTokens({s}) THEN "revoked" ELSE token[t]]
  /\ session' = [session EXCEPT ![s] = "ended"]
  /\ Goes(c, [req[c] EXCEPT !.pc = "evict", !.evict = {s}])
  /\ Proceeds(c)
  /\ UNCHANGED <<credentialVars, resetVars, deviceOf, startedIn, late, kept, tokenOf, lateTokens, cacheVars>>

(* AdminSessionService.validate, by the cache or by the row. *)
Validate(c) ==
  LET s == req[c].ses
      served == IF Live(s) THEN "live" ELSE IF s \in stale \/ Evicting(s) THEN "excused" ELSE "wrong" IN
  /\ At(c, "validate")
  /\ IF s \in cached THEN Goes(c, [req[c] EXCEPT !.pc = "rotate", !.valid = served])
     ELSE IF Live(s) THEN Goes(c, [req[c] EXCEPT !.pc = "store", !.valid = "live"])
     ELSE Done(c)
  /\ Proceeds(c)
  /\ UNCHANGED <<accountVars, cacheVars>>

StoreSnapshot(c) ==
  LET s == req[c].ses IN
  /\ At(c, "store")
  /\ cached' = cached \cup {s}
  /\ stale' = IF Live(s) THEN stale ELSE stale \cup {s}
  /\ Go(c, "rotate")
  /\ Proceeds(c)
  /\ UNCHANGED accountVars

(* rotate, for the session's own device, and before it expires.  One that   *)
(* commits while the session is being ended locked its token first: the    *)
(* sweep waited for it, and did not see the new token.                     *)
Rotate(c) ==
  /\ At(c, "rotate") /\ token[req[c].tok] = "live" /\ Unborn(token) > Creating
  /\ NewToken(c, {req[c].tok})
  /\ Done(c)
  /\ Proceeds(c)
  /\ UNCHANGED <<credentialVars, resetVars, sessionVars, cacheVars>>

RefreshRefused(c) ==
  /\ At(c, "rotate")
  /\ Done(c)
  /\ Proceeds(c)
  /\ UNCHANGED <<accountVars, cacheVars>>
-----------------------------------------------------------------------------
(* requestPasswordReset, verifyPasswordResetCode, resetPassword.           *)

(* issueIfDue: the code that was live is superseded. *)
RequestReset(c) ==
  /\ At(c, "idle") /\ calls < MaxCalls /\ admins > 0 /\ codes < MaxCodes
  /\ calls' = calls + 1
  /\ codes' = codes + 1 /\ code' = codes + 1
  /\ UNCHANGED <<personVars, credentialVars, reset, sessionVars, tokenVars, cacheVars, req, faults>>

(* It expires, or too many wrong answers block it. *)
CodeEnds ==
  /\ code # 0
  /\ code' = 0
  /\ UNCHANGED <<personVars, credentialVars, codes, reset, sessionVars, tokenVars, cacheVars, req, calls, faults>>

(* The right answer, compared outside the transaction. *)
AnswerCode(c) ==
  /\ code # 0
  /\ Begins(c, [Idle EXCEPT !.op = "answer", !.pc = "open", !.tok = code])

(* The transaction: a code resolved meanwhile is refused. *)
Open(c) ==
  LET i == req[c].tok IN
  /\ At(c, "open")
  /\ IF code # i THEN UNCHANGED <<verified, code, reset>>
     ELSE /\ code' = 0
          /\ verified' = TRUE
          /\ reset' = [j \in 1..MaxCodes |-> IF j = i THEN "ACTIVE"
                                             ELSE IF reset[j] = "ACTIVE" THEN "SUPERSEDED" ELSE reset[j]]
  /\ Done(c)
  /\ Proceeds(c)
  /\ UNCHANGED <<credential, latest, undone, codes, sessionVars, tokenVars, cacheVars>>

ResetPassword(c, i) ==
  /\ reset[i] = "ACTIVE" /\ latest + Setting < MaxPasswords
  /\ Begins(c, [Idle EXCEPT !.op = "reset", !.pc = "end", !.tok = i])

ResetExpires(i) ==
  /\ reset[i] = "ACTIVE"
  /\ \A c \in Calls : ~(At(c, "commit") /\ req[c].op = "reset" /\ req[c].tok = i)
  /\ reset' = [reset EXCEPT ![i] = "EXPIRED"]
  /\ UNCHANGED <<personVars, credentialVars, code, codes, sessionVars, tokenVars, cacheVars, req, calls, faults>>
-----------------------------------------------------------------------------
(* The process dies, or a statement fails: the transaction is rolled back. *)
Dies(c) ==
  /\ ~At(c, "idle") /\ faults < MaxFaults
  /\ faults' = faults + 1
  /\ stale' = stale \cup (req[c].evict \cap cached)
  /\ Done(c)
  /\ UNCHANGED <<personVars, calls, accountVars, cached>>

Seeds(p) == SeedLock(p) \/ SeedLooks(p) \/ SeedCommits(p) \/ SeedSkips(p)

SignsIn(c) ==
  \/ \E d \in Devices : Login(c, d)
  \/ Rehash(c) \/ FindOnDevice(c) \/ SignInConflicts(c) \/ SignInCommits(c) \/ IssueToken(c)

Ends(c) ==
  \/ \E s \in Sessions : \/ ChangePassword(c, s)
                         \/ \E op \in {"logout", "owned", "others"} : EndSession(c, op, s)
  \/ StartEnding(c) \/ EndingCommits(c) \/ Evict(c) \/ EvictionLost(c)

Refreshes(c) ==
  \/ \E t \in Tokens : Refresh(c, t)
  \/ EndReused(c) \/ Validate(c) \/ StoreSnapshot(c) \/ Rotate(c) \/ RefreshRefused(c)

Resets(c) ==
  \/ RequestReset(c) \/ AnswerCode(c) \/ Open(c)
  \/ \E i \in 1..MaxCodes : ResetPassword(c, i)

Next ==
  \/ \E p \in Seeders : Seeds(p)
  \/ \E c \in Calls : SignsIn(c) \/ Ends(c) \/ Refreshes(c) \/ Resets(c) \/ Dies(c)
  \/ \E s \in Sessions : Expire(s)
  \/ CodeEnds
  \/ \E i \in 1..MaxCodes : ResetExpires(i)

Spec == Init /\ [][Next]_vars
-----------------------------------------------------------------------------
(* However many seeders run at once, there is one first admin; and nobody  *)
(* has a password before the address it was claimed from was proved.       *)
OneFirstAdmin == admins <= 1 /\ (credential # None => admins = 1 /\ verified)

(* The password set last is the one that signs in, unless a rehash of the  *)
(* one before, read before it was set, was written after it.               *)
LatestPasswordStands == credential # None /\ credential.pw # latest => undone

(* After a password is set, the sessions that live are those asked for     *)
(* with it, the one that set it, and sign-ins it overtook.                 *)
SweptSessions == \A s \in LiveSessions : startedIn[s] = latest \/ s \in late \cup kept

(* A session that has ended is refreshed only with a token made as it      *)
(* ended, and only if it was validated before, or from a snapshot whose    *)
(* eviction is to come, was lost, or was overtaken by a load.              *)
RefreshOfEnded ==
  [][\A c \in Calls :
       At(c, "rotate") /\ ~Live(req[c].ses) /\ tokenOf' # tokenOf /\ At(c, "idle")' =>
         req[c].tok \in lateTokens /\ req[c].valid # "wrong"]_vars

(* The password that was set signs in until another is set. *)
PasswordIsTheLastSet == credential # None => credential.pw = latest
=============================================================================
