----------------------------- MODULE UserCodes -----------------------------
(***************************************************************************)
(* One address: registering it, proving it, signing in with a code sent to  *)
(* it and resetting the password with one, by concurrent requests.  A code  *)
(* is sent for one of three purposes; answered, it opens a session, or is   *)
(* exchanged for a token that sets the password.                            *)
(*                                                                          *)
(* `issueIfDue` and `verify` read before they write; the codes are kept in  *)
(* order by the conditions of the updates, by row locks held to the end of  *)
(* a transaction, and by the partial unique index that allows one ACTIVE    *)
(* code of a purpose.  No index says the same of the tokens.  PostgreSQL is *)
(* taken statement by statement as in UserSessions: a statement picks its   *)
(* rows from what is committed when it starts, waits for those that are     *)
(* locked and looks at each again.                                          *)
(***************************************************************************)
EXTENDS Naturals, FiniteSets

CONSTANTS
  Requests,     \* concurrent requests, each made again when it has ended
  MaxCodes,     \* bound: codes are 1..MaxCodes, in the order they commit
  MaxAttempts,  \* USER_VERIFICATION_CODE_MAX_ATTEMPTS
  MaxFaults,    \* bound: requests that die part of the way
  None

ASSUME ResetAssumption ==
  /\ IsFiniteSet(Requests)
  /\ None \notin Requests
  /\ MaxCodes \in Nat \ {0}
  /\ MaxAttempts \in Nat \ {0}
  /\ MaxFaults \in Nat

VARIABLES
  account,   \* "none", then whether the address is "unverified" or "verified"
  claimant,  \* the transaction that has inserted the address, not committed
  code,      \* code[i]: its purpose, its status, its failed attempts and its age
  lock,      \* lock[i]: the transaction that has written code i, not committed
  token,     \* token[i]: the status and age of the token code i was answered for
  registered, \* ghost: registrations that were answered with success
  spent,     \* ghost, spent[i]: how often that token set the password
  opened,    \* ghost, opened[i]: how often code i opened a session or gave a token
  compared,  \* ghost, compared[i]: wrong answers compared with code i
  req,       \* req[r]: what a request does and how far it has come
  faults

accountVars == <<account, claimant, registered>>
vars == <<accountVars, code, lock, token, spent, opened, compared, req, faults>>

Codes == 1..MaxCodes

Resolved == {"CONSUMED", "EXPIRED", "SUPERSEDED", "BLOCKED"}
Purposes == {"verification", "login", "reset"}
Statuses == {"unborn", "ACTIVE"} \cup Resolved
Ages == {"fresh", "live", "past"}  \* too soon to resend; valid; past expires_at

Idle == [stage |-> "idle", purpose |-> None, code |-> None, picked |-> {}]

TypeOK ==
  /\ account \in {"none", "unverified", "verified"}
  /\ claimant \in Requests \cup {None}
  /\ registered \in Nat
  /\ code \in [Codes -> [purpose : Purposes \cup {None}, status : Statuses, age : Ages,
                         attempts : 0..(MaxAttempts + Cardinality(Requests) - 1)]]
  /\ lock \in [Codes -> Requests \cup {None}]
  /\ token \in [Codes -> [status : Statuses \ {"BLOCKED"}, age : Ages]]
  /\ spent \in [Codes -> Nat]
  /\ opened \in [Codes -> Nat]
  /\ compared \in [Codes -> Nat]
  /\ req \in [Requests ->
       [stage : {"idle", "register", "welcome", "due", "pick", "retire", "insert",
                 "expire", "block", "count", "check", "open", "prove", "enter",
                 "supersede", "issue", "outdate", "reset"},
        purpose : Purposes \cup {None},
        code : Codes \cup {None}, picked : SUBSET Codes]]
  /\ faults \in 0..MaxFaults

\* A new address, or one registered before whose codes are all resolved.
Init ==
  /\ account \in {"none", "unverified", "verified"}
  /\ claimant = None
  /\ registered = IF account = "none" THEN 0 ELSE 1
  /\ code = [i \in Codes |-> [purpose |-> None, status |-> "unborn", age |-> "fresh", attempts |-> 0]]
  /\ lock = [i \in Codes |-> None]
  /\ token = [i \in Codes |-> [status |-> "unborn", age |-> "live"]]
  /\ spent = [i \in Codes |-> 0]
  /\ opened = [i \in Codes |-> 0]
  /\ compared = [i \in Codes |-> 0]
  /\ req = [r \in Requests |-> Idle]
  /\ faults = 0

At(r, stage) == req[r].stage = stage
Go(r, stage) == req' = [req EXCEPT ![r].stage = stage]
Done(r) == req' = [req EXCEPT ![r] = Idle]

\* A resolved code or token; its age is of no more interest.
Resolving(row, status) == [row EXCEPT !.status = status, !.age = "past"]

Active == {i \in Codes : code[i].status = "ACTIVE"}
ActiveFor(purpose) == {i \in Active : code[i].purpose = purpose}
Born == {i \in Codes : code[i].status # "unborn"}
ActiveTokens == {i \in Codes : token[i].status = "ACTIVE"}

\* An update of one code, or of none, by a request that holds no lock: it
\* waits for the lock and looks again.
Unlocked(i) == lock[i] = None

-----------------------------------------------------------------------------
(* registerUser.                                                            *)

RegisterReads(r) ==
  /\ At(r, "idle")
  /\ account = "none"
  /\ Go(r, "register")
  /\ UNCHANGED <<accountVars, code, lock, token, spent, opened, compared, faults>>

\* createAccount: the address is unique; its insert waits for another's, and
\* fails if that one commits.  The user inserted before it is rolled back.
RegisterInserts(r) ==
  /\ At(r, "register")
  /\ claimant = None
  /\ IF account = "none" THEN claimant' = r /\ Go(r, "welcome")
     ELSE UNCHANGED claimant /\ Done(r)
  /\ UNCHANGED <<account, registered, code, lock, token, spent, opened, compared, faults>>

\* The code of an address nobody else has seen, and the commit.
RegisterCommits(r) ==
  LET next == Cardinality(Born) + 1
  IN
  /\ At(r, "welcome")
  /\ next <= MaxCodes
  /\ account' = "unverified"
  /\ claimant' = None
  /\ registered' = registered + 1
  /\ code' = [code EXCEPT ![next].status = "ACTIVE", ![next].purpose = "verification"]
  /\ Done(r)
  /\ UNCHANGED <<lock, token, spent, opened, compared, faults>>

-----------------------------------------------------------------------------
(* resendVerification and the challenge of login, requestLoginCode and      *)
(* requestPasswordReset: issueIfDue, in one transaction with the email.     *)

\* The address is looked up before the transaction.
AskFinds(r, purpose) ==
  /\ At(r, "idle")
  /\ Cardinality(Born) < MaxCodes
  /\ account # "none"
  /\ req' = [req EXCEPT ![r].stage = "due", ![r].purpose = purpose]
  /\ UNCHANGED <<accountVars, code, lock, token, spent, opened, compared, faults>>

\* A code is only sent to prove an address that was not proved then.
ResendVerification(r) == account # "verified" /\ AskFinds(r, "verification")
RequestLoginCode(r) == AskFinds(r, "login")
RequestPasswordReset(r) == AskFinds(r, "reset")

\* A code sent a moment ago is left to be answered.
AskReads(r) ==
  /\ At(r, "due")
  /\ IF \E i \in ActiveFor(req[r].purpose) : code[i].age = "fresh" THEN Done(r)
     ELSE Go(r, "pick")
  /\ UNCHANGED <<accountVars, code, lock, token, spent, opened, compared, faults>>

\* retireActive, its two updates as one: the rows are picked ...
RetirePicks(r) ==
  /\ At(r, "pick")
  /\ req' = [req EXCEPT ![r].picked = ActiveFor(req[r].purpose), ![r].stage = "retire"]
  /\ UNCHANGED <<accountVars, code, lock, token, spent, opened, compared, faults>>

\* What retireActive makes of a code.
Retired(i) == IF code[i].age = "past" THEN "EXPIRED" ELSE "SUPERSEDED"

\* Mutant: the code is retired outside the transaction.
RetireLocksAtOnce(r) ==
  LET still == req[r].picked \cap Active
  IN  /\ At(r, "retire")
      /\ \A i \in req[r].picked : Unlocked(i)
      /\ code' = [i \in Codes |-> IF i \in still
                                  THEN Resolving(code[i], Retired(i)) ELSE code[i]]
      /\ req' = [req EXCEPT ![r].picked = {}, ![r].stage = "insert"]
      /\ UNCHANGED <<accountVars, lock, token, spent, opened, compared, faults>>

\* ... and those that are still ACTIVE once they are free are written.
RetireLocks(r) ==
  LET still == req[r].picked \cap Active
  IN  /\ At(r, "retire")
      /\ \A i \in req[r].picked : Unlocked(i)
      /\ lock' = [i \in Codes |-> IF i \in still THEN r ELSE lock[i]]
      /\ req' = [req EXCEPT ![r].picked = still, ![r].stage = "insert"]
      /\ UNCHANGED <<accountVars, code, token, spent, opened, compared, faults>>

\* Mutant: no unique index; any code may join the ACTIVE ones.
InTheWayOfNothing(r) == {}

\* user_verification_codes_active_key: what is ACTIVE of this purpose and not
\* written by r keeps r from inserting.
InTheWay(r) == ActiveFor(req[r].purpose) \ req[r].picked

\* create, and the commit; the unique index makes the insert wait for a
\* transaction that has written an ACTIVE code, and fail if it stays ACTIVE.
AskCommits(r) ==
  LET next == Cardinality(Born) + 1
  IN
  /\ At(r, "insert")
  /\ \A i \in InTheWay(r) : Unlocked(i)
  /\ IF InTheWay(r) # {} \/ next > MaxCodes
     THEN UNCHANGED code
     ELSE code' = [i \in Codes |->
            IF i = next THEN [code[i] EXCEPT !.status = "ACTIVE", !.purpose = req[r].purpose]
            ELSE IF i \in req[r].picked THEN Resolving(code[i], Retired(i))
            ELSE code[i]]
  /\ lock' = [i \in Codes |-> IF lock[i] = r THEN None ELSE lock[i]]
  /\ Done(r)
  /\ UNCHANGED <<accountVars, token, spent, opened, compared, faults>>

-----------------------------------------------------------------------------
(* verifyRegistration, loginWithCode and verifyPasswordResetCode: verify,    *)
(* then in a transaction consume, mark the address verified (it is never     *)
(* unmarked, so that reading it before decides nothing) and, to reset, issue *)
(* the token.                                                                *)

\* verify: what it reads decides what it does, and a wrong answer is compared
\* there and then.
AnswerReads(r, i, right) ==
  /\ At(r, "idle")
  /\ i \in Active
  /\ req' = [req EXCEPT ![r] =
       [Idle EXCEPT !.stage = IF code[i].age = "past" THEN "expire"
                              ELSE IF code[i].attempts >= MaxAttempts THEN "block"
                              ELSE IF right THEN "open" ELSE "count",
                    !.code = i]]
  /\ compared' = IF req'[r].stage = "count" THEN [compared EXCEPT ![i] = @ + 1]
                 ELSE compared
  /\ UNCHANGED <<accountVars, code, lock, token, spent, opened, faults>>

\* resolve: only an ACTIVE code is resolved.
Resolve(i, status) ==
  code' = [code EXCEPT ![i] = IF @.status = "ACTIVE" THEN Resolving(@, status) ELSE @]

\* markExpired, markBlocked.
AnswerResolves(r) ==
  /\ At(r, "expire") \/ At(r, "block")
  /\ Unlocked(req[r].code)
  /\ Resolve(req[r].code, IF At(r, "expire") THEN "EXPIRED" ELSE "BLOCKED")
  /\ Done(r)
  /\ UNCHANGED <<accountVars, lock, token, spent, opened, compared, faults>>

\* Mutant: the count does not move.
AttemptsLost(i) == code[i].attempts

\* recordFailedAttempt, its first statement: increment.
AttemptsAfter(i) == code[i].attempts + 1

AnswerCounts(r) ==
  LET i == req[r].code
  IN
  /\ At(r, "count")
  /\ Unlocked(i)
  /\ code' = [code EXCEPT ![i].attempts = IF i \in Active THEN AttemptsAfter(i) ELSE @]
  /\ Go(r, "check")
  /\ UNCHANGED <<accountVars, lock, token, spent, opened, compared, faults>>

\* Its second statement, not in a transaction with the first.
AnswerChecks(r) ==
  LET i == req[r].code
  IN
  /\ At(r, "check")
  /\ Unlocked(i)
  /\ IF code[i].attempts >= MaxAttempts THEN Resolve(i, "BLOCKED") ELSE UNCHANGED code
  /\ Done(r)
  /\ UNCHANGED <<accountVars, lock, token, spent, opened, compared, faults>>

\* Mutant: consume without its condition.
StillKnown(i) == code[i].status # "unborn"

\* markConsumed's condition.
StillAnswerable(i) == code[i].status = "ACTIVE"

\* consume: a code resolved meanwhile is refused.
AnswerConsumes(r) ==
  LET i == req[r].code
  IN
  /\ At(r, "open")
  /\ Unlocked(i)
  /\ IF StillAnswerable(i)
     THEN /\ lock' = [lock EXCEPT ![i] = r]
          /\ Go(r, IF code[i].purpose = "reset" THEN "supersede" ELSE "prove")
     ELSE UNCHANGED lock /\ Done(r)
  /\ UNCHANGED <<accountVars, code, token, spent, opened, compared, faults>>

\* markVerified, and the commit.
Proves(r, purpose) ==
  LET i == req[r].code
  IN
  /\ At(r, "prove")
  /\ code[i].purpose = purpose
  /\ code' = [code EXCEPT ![i] = Resolving(@, "CONSUMED")]
  /\ lock' = [lock EXCEPT ![i] = None]
  /\ account' = "verified"
  /\ Go(r, "enter")
  /\ UNCHANGED <<claimant, registered, token, spent, opened, compared, faults>>

\* The welcome goes out with the commit, under a key of the user's own.
VerifyRegistration(r) == Proves(r, "verification")
LoginWithCode(r) == Proves(r, "login")

\* createSessionAndIssueTokens (UserSessions), when the code is spent.
Enters(r) ==
  /\ At(r, "enter")
  /\ opened' = [opened EXCEPT ![req[r].code] = @ + 1]
  /\ Done(r)
  /\ UNCHANGED <<accountVars, code, lock, token, spent, compared, faults>>

\* UserPasswordResetTokenRepository.retireActive picks its rows ...
AnswerPicks(r) ==
  /\ At(r, "supersede")
  /\ req' = [req EXCEPT ![r].picked = ActiveTokens, ![r].stage = "issue"]
  /\ UNCHANGED <<accountVars, code, lock, token, spent, opened, compared, faults>>

\* ... and takes those still ACTIVE; the token is created, and all commits.
AnswerCommits(r) ==
  LET i == req[r].code
  IN
  /\ At(r, "issue")
  /\ code' = [code EXCEPT ![i] = Resolving(@, "CONSUMED")]
  /\ lock' = [lock EXCEPT ![i] = None]
  /\ token' = [j \in Codes |->
       IF j = i THEN [status |-> "ACTIVE", age |-> "live"]
       ELSE IF j \in req[r].picked \cap ActiveTokens
            THEN Resolving(token[j], IF token[j].age = "past" THEN "EXPIRED"
                                     ELSE "SUPERSEDED")
            ELSE token[j]]
  /\ opened' = [opened EXCEPT ![i] = @ + 1]
  /\ account' = "verified"
  /\ Done(r)
  /\ UNCHANGED <<claimant, registered, spent, compared, faults>>

-----------------------------------------------------------------------------
(* resetPassword.                                                           *)

ResetReads(r, i) ==
  /\ At(r, "idle")
  /\ token[i].status = "ACTIVE"
  /\ req' = [req EXCEPT ![r] =
       [Idle EXCEPT !.stage = IF token[i].age = "past" THEN "outdate" ELSE "reset",
                    !.code = i]]
  /\ UNCHANGED <<accountVars, code, lock, token, spent, opened, compared, faults>>

\* markExpired
ResetExpires(r) ==
  LET i == req[r].code
  IN
  /\ At(r, "outdate")
  /\ token' = [token EXCEPT ![i] = IF @.status = "ACTIVE" THEN Resolving(@, "EXPIRED") ELSE @]
  /\ Done(r)
  /\ UNCHANGED <<accountVars, code, lock, spent, opened, compared, faults>>

\* markConsumed's condition.
StillSpendable(i) == token[i].status = "ACTIVE"

\* The transaction: consume, setCredential and revokeAllForUser (UserSessions).
ResetCommits(r) ==
  LET i == req[r].code
  IN
  /\ At(r, "reset")
  /\ IF StillSpendable(i)
     THEN /\ token' = [token EXCEPT ![i] = Resolving(@, "CONSUMED")]
          /\ spent' = [spent EXCEPT ![i] = @ + 1]
     ELSE UNCHANGED <<token, spent>>
  /\ Done(r)
  /\ UNCHANGED <<accountVars, code, lock, opened, compared, faults>>

-----------------------------------------------------------------------------
\* A request dies, or a statement of it fails; its transaction is rolled back.
Fail(r) ==
  /\ ~At(r, "idle")
  /\ faults < MaxFaults
  /\ faults' = faults + 1
  /\ lock' = [i \in Codes |-> IF lock[i] = r THEN None ELSE lock[i]]
  /\ claimant' = IF claimant = r THEN None ELSE claimant
  /\ Done(r)
  /\ UNCHANGED <<account, registered, code, token, spent, opened, compared>>

\* A code can be asked for again, then expires; so does a token.
CodeAges(i) ==
  /\ code[i].status = "ACTIVE"
  /\ code[i].age # "past"
  /\ code' = [code EXCEPT ![i].age = IF @ = "fresh" THEN "live" ELSE "past"]
  /\ UNCHANGED <<accountVars, lock, token, spent, opened, compared, req, faults>>

TokenAges(i) ==
  /\ token[i].status = "ACTIVE"
  /\ token[i].age = "live"
  /\ token' = [token EXCEPT ![i].age = "past"]
  /\ UNCHANGED <<accountVars, code, lock, spent, opened, compared, req, faults>>

RequestStep(r) ==
  \/ RegisterInserts(r) \/ RegisterCommits(r)
  \/ AskReads(r) \/ RetirePicks(r) \/ RetireLocks(r) \/ AskCommits(r)
  \/ AnswerResolves(r) \/ AnswerCounts(r) \/ AnswerChecks(r)
  \/ AnswerConsumes(r) \/ VerifyRegistration(r) \/ LoginWithCode(r) \/ Enters(r)
  \/ AnswerPicks(r) \/ AnswerCommits(r)
  \/ ResetExpires(r) \/ ResetCommits(r)

Next ==
  \/ \E r \in Requests :
       \/ RegisterReads(r)
       \/ ResendVerification(r) \/ RequestLoginCode(r) \/ RequestPasswordReset(r)
       \/ \E i \in Codes, right \in BOOLEAN : AnswerReads(r, i, right)
       \/ \E i \in Codes : ResetReads(r, i)
       \/ RequestStep(r) \/ Fail(r)
  \/ \E i \in Codes : CodeAges(i) \/ TokenAges(i)

SafeSpec == Init /\ [][Next]_vars

\* A request goes on to its end.
Spec == SafeSpec /\ \A r \in Requests : WF_vars(RequestStep(r))

-----------------------------------------------------------------------------
(* Properties.                                                              *)

\* A user never holds two tokens that can set the password.  No index says so:
\* a code can only follow one that is no longer ACTIVE, so whoever answers it
\* sees the token its predecessor was answered for.
OneLiveToken == Cardinality(ActiveTokens) <= 1

\* An address is registered once, however many requests found it free; a code
\* opens one session or gives one token, and a token sets the password once,
\* however many requests read them as good.
SingleUse ==
  /\ registered <= 1
  /\ \A i \in Codes : opened[i] <= 1 /\ spent[i] <= 1

\* What the limit on attempts means: `verify` compares before it counts, so
\* other requests under way, and requests that die, may each add one.
GuessesBounded ==
  \A i \in Codes : compared[i] <= MaxAttempts + Cardinality(Requests) - 1 + faults

\* The code sent last for a purpose was not superseded: who answers it is never
\* told it is out of date because another request failed or lost the race, or
\* because a code was sent for something else.
LastCodeStands ==
  \A i \in Born : code[i].status = "SUPERSEDED" =>
    \E j \in Born : j > i /\ code[j].purpose = code[i].purpose

\* No request waits for ever on another's lock.
RequestsEnd == \A r \in Requests : ~At(r, "idle") ~> At(r, "idle")
=============================================================================
