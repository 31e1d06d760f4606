-------------------------- MODULE UserSessionsProofs --------------------------
(***************************************************************************)
(* Theorems about UserSessions, for any number of requests, devices,        *)
(* sessions and tokens: a session has one live token, a replayed one costs  *)
(* the session, only late sign-ins outlive a password change, only the      *)
(* statements that lock in another order can wait for each other, and a     *)
(* sign-in is refused only when it has met two others.                      *)
(***************************************************************************)
EXTENDS UserSessions, FiniteSetTheorems, TLAPS

USE SessionAssumption DEF SessionAssumption

-----------------------------------------------------------------------------
(* What a request may be at each of its places: what it has picked and      *)
(* what it has written.                                                     *)

Alone == {"login", "logout", "owned", "reuse"}
RowPlaces == {"sessionRows"} \cup TokenRows
Writing == {"sessionRows", "tokens", "tokenRows", "insert", "commit"}
WritingTokens == Writing \cup {"sessions", "reuseRows", "rotateRows"}
Swept == {"sessions", "sessionRows", "tokens", "tokenRows"}

Written(a) == {w[1] : w \in a.wroteT}
Scope(a) == IF a.kind \in Sweeping THEN a.wroteS ELSE {a.ses}

Placed(a) ==
  /\ a.pc = "idle" <=> a.kind = "none"
  /\ a.pc = "credential" => a.kind \in SetsPassword
  /\ a.pc \in {"find", "insert", "issue", "conflict"} => a.kind = "login"
  /\ a.pc \in {"validate", "rotate", "rotateRows"} => a.kind = "refresh"
  /\ a.pc \in {"reuse", "reuseRows"} => a.kind = "reuse"
  /\ a.pc \in Swept => a.kind \in Ending

Named(a) ==
  /\ a.kind = "login" => a.dev \in Devices
  /\ a.kind = "login" /\ a.pc \in Swept \cup {"issue"} => a.ses \in Sessions
  /\ a.kind \in {"refresh", "reuse", "logout", "owned", "others", "change"} => a.ses \in Sessions
  /\ a.kind = "reset" => a.ses = None
  /\ a.kind = "refresh" => a.tok \in Tokens
  /\ a.pc = "find" => a.ses = None

Wrote(a) ==
  /\ a.pc \notin RowPlaces => a.rows = {}
  /\ a.pc \notin Writing => a.wroteS = {}
  /\ a.pc \notin WritingTokens => a.wroteT = {}
  /\ a.kind # "reuse" /\ a.pc \in {"sessions", "sessionRows", "tokens"} => a.wroteT = {}
  /\ a.kind = "refresh" => a.wroteS = {}
  /\ a.kind \notin Sweeping => a.wroteS \subseteq {a.ses}
  /\ a.pc = "sessionRows" =>
       /\ a.rows \cap a.wroteS = {}
       /\ a.rows \subseteq Sessions
       /\ a.kind \notin Sweeping => a.rows \subseteq {a.ses}
  /\ a.pc = "rotateRows" => a.rows \cup Written(a) \subseteq {a.tok} /\ a.rows \cap Written(a) = {}
  /\ a.pc = "commit" /\ a.kind = "refresh" => Written(a) = {a.tok}

Shape(a) == a \in Request /\ Placed(a) /\ Named(a) /\ Wrote(a)

(* A request and what is committed.  What it has written is still as it     *)
(* was; the one session it ends it has written, or will, or has ended.      *)

Keeps(a) == (\A s \in a.wroteS : Live(s)) /\ (\A t \in Written(a) : token[t] = "live")

Owns(a) ==
  /\ a.ses \in Sessions => Born(a.ses)
  /\ a.kind = "login" /\ a.ses \in Sessions => deviceOf[a.ses] = a.dev
  /\ a.kind = "refresh" => token[a.tok] # "unborn" /\ tokenOf[a.tok] = a.ses

Covers(a) ==
  a.kind \in Alone /\ a.pc \in Writing /\ a.ses \in Sessions /\ Live(a.ses) =>
    a.ses \in a.wroteS \/ (a.pc = "sessionRows" /\ a.ses \in a.rows)

Takes(a) ==
  a.kind \notin {"refresh", "reuse"} /\ a.pc \in {"tokenRows", "insert", "commit"} =>
    \A t \in Written(a) \cup a.rows : t \in Tokens /\ token[t] # "unborn" /\ tokenOf[t] \in Scope(a)

Settles(a) ==
  /\ a.kind = "reuse" /\ a.pc = "done" => session[a.ses] \in SessionReasons
  /\ a.pc = "issue" => \A t \in Tokens : token[t] # "unborn" => tokenOf[t] # a.ses
  /\ a.kind = "login" /\ a.pc = "commit" =>
       \A s \in Sessions : Live(s) /\ deviceOf[s] = a.dev => s \in a.wroteS

FitsAs(a) == Keeps(a) /\ Owns(a) /\ Covers(a) /\ Takes(a) /\ Settles(a)
Fits(r) == FitsAs(req[r])

(* Two requests: what one has written the other has not, they do not both   *)
(* set the password, insert on one device, or start one session.            *)

SettingPassword(a) == a.kind \in SetsPassword /\ a.pc \in Swept \cup {"commit"}
Inserted(a) == a.kind = "login" /\ a.pc = "commit"

ApartAs(a, b) ==
  /\ a.wroteS \cap b.wroteS = {}
  /\ Written(a) \cap Written(b) = {}
  /\ ~(SettingPassword(a) /\ SettingPassword(b))
  /\ Inserted(a) /\ Inserted(b) => a.dev # b.dev
  /\ a.pc = "issue" /\ b.pc = "issue" => a.ses # b.ses
Apart(r, q) == ApartAs(req[r], req[q])

(* What is committed. *)

InOrder(born, max) == \E k \in 0..max : born = 1..k
OneLivePerDevice == \A s, u \in Sessions : Live(s) /\ Live(u) /\ deviceOf[s] = deviceOf[u] => s = u

Typed ==
  /\ session \in [Sessions -> {"unborn", "live"} \cup SessionReasons]
  /\ deviceOf \in [Sessions -> Devices \cup {None}]
  /\ token \in [Tokens -> {"unborn", "live"} \cup TokenReasons]
  /\ tokenOf \in [Tokens -> Sessions \cup {None}]
  /\ cached \subseteq Sessions
  /\ password \in Nat
  /\ pwOf \in [Sessions -> Nat]
  /\ late \subseteq Sessions

Store ==
  /\ Typed
  /\ InOrder({s \in Sessions : Born(s)}, MaxSessions)
  /\ InOrder({t \in Tokens : token[t] # "unborn"}, MaxTokens)
  /\ \A t \in Tokens : token[t] # "unborn" => tokenOf[t] \in Sessions /\ Born(tokenOf[t])
  /\ OneLivePerDevice
  /\ OneLiveToken

SessionInv ==
  /\ Store
  /\ req \in [Requests -> Request]
  /\ \A r \in Requests : Shape(req[r]) /\ Fits(r)
  /\ \A r \in Requests : \A q \in Requests \ {r} : Apart(r, q)
-----------------------------------------------------------------------------
(* Steps.  Only the request that takes one is changed, but a sweep that     *)
(* sets a password marks the sign-ins it overtakes.                         *)

Alike(a, b) ==
  /\ a \in Request /\ b \in Request
  /\ a.kind = b.kind /\ a.pc = b.pc /\ a.ses = b.ses /\ a.tok = b.tok /\ a.dev = b.dev
  /\ a.rows = b.rows /\ a.wroteS = b.wroteS /\ a.wroteT = b.wroteT

Becomes(r, d) ==
  /\ req' \in [Requests -> Request]
  /\ req'[r] = d
  /\ \A q \in Requests \ {r} : Alike(req'[q], req[q])

LEMMA AlikeShape ==
  ASSUME NEW a, NEW b, Alike(a, b), Shape(b)
  PROVE  Shape(a)
<1> USE DEF Alike
<1>1. Written(a) = Written(b)
  BY DEF Written
<1>2. Placed(a)
  BY DEF Shape, Placed
<1>3. Named(a)
  BY DEF Shape, Named
<1>4. Wrote(a)
  BY <1>1 DEF Shape, Wrote
<1> QED BY <1>2, <1>3, <1>4 DEF Shape

LEMMA AlikeApart ==
  ASSUME NEW a, NEW b, NEW c, NEW d, Alike(a, b), Alike(c, d), ApartAs(b, d)
  PROVE  ApartAs(a, c)
BY DEF Alike, ApartAs, Written, SettingPassword, Inserted

LEMMA ApartSym ==
  ASSUME NEW a, NEW b, ApartAs(a, b)
  PROVE  ApartAs(b, a)
BY DEF ApartAs

LEMMA WrittenTokens ==
  ASSUME NEW a \in Request
  PROVE  Written(a) \subseteq Tokens
BY DEF Written, Request

LEMMA ReasonsEnd ==
  /\ "live" \notin SessionReasons /\ "unborn" \notin SessionReasons
  /\ "live" \notin TokenReasons /\ "unborn" \notin TokenReasons
  /\ \A k \in Ending : SessionReason[k] \in SessionReasons
BY DEF SessionReasons, SessionReason, Ending, TokenReasons

\* What a step may do to what is committed, of a request that has written a.
Moves(a) ==
  /\ \A s \in Sessions : \/ session'[s] = session[s]
                         \/ session[s] = "unborn" /\ session'[s] = "live"
                         \/ s \in a.wroteS /\ session'[s] \in SessionReasons
  /\ \A s \in Sessions : Born(s) => deviceOf'[s] = deviceOf[s]
  /\ \A t \in Tokens : \/ token'[t] = token[t]
                       \/ token[t] = "unborn" /\ token'[t] = "live"
                       \/ t \in Written(a) /\ token'[t] \in TokenReasons
  /\ \A t \in Tokens : token[t] # "unborn" => tokenOf'[t] = tokenOf[t]

\* A session is born on the device of the sign-in that commits; a token, of
\* a session nobody else is about to give its first one.
Bears(r) ==
  /\ \A s \in Sessions : ~Born(s) /\ session'[s] = "live" =>
       Inserted(req[r]) /\ deviceOf'[s] = req[r].dev
  /\ \A t \in Tokens : token[t] = "unborn" /\ token'[t] = "live" =>
       \A q \in Requests \ {r} : req[q].pc = "issue" => tokenOf'[t] # req[q].ses

\* What others commit leaves a request as it was.
LEMMA OthersFit ==
  ASSUME SessionInv, NEW r \in Requests, NEW q \in Requests \ {r},
         Moves(req[r]), Bears(r), Alike(req'[q], req[q])
  PROVE  Fits(q)'
<1>1. PICK a : a = req[r]
  OBVIOUS
<1>2. PICK b : b = req[q]
  OBVIOUS
<1>3. PICK c : c = req'[q]
  OBVIOUS
<1>4. /\ Shape(b) /\ FitsAs(b) /\ FitsAs(a) /\ ApartAs(a, b) /\ Moves(a) /\ b \in Request
      /\ Alike(c, b) /\ Written(c) = Written(b) /\ Written(b) \subseteq Tokens
  BY <1>1, <1>2, <1>3, WrittenTokens DEF SessionInv, Fits, Apart, Alike, Written
<1>5. /\ \A s \in Sessions : ~Born(s) /\ session'[s] = "live" => Inserted(a) /\ deviceOf'[s] = a.dev
      /\ \A t \in Tokens : token[t] = "unborn" /\ token'[t] = "live" =>
           (b.pc = "issue" => tokenOf'[t] # b.ses)
  BY <1>1, <1>2 DEF Bears
<1>6. /\ b.wroteS \subseteq Sessions
      /\ \A s \in Sessions : Born(s) => Born(s)' /\ (session'[s] = "live" => Live(s))
      /\ \A s \in Sessions : Born(s) /\ s \notin a.wroteS => session'[s] = session[s]
      /\ \A t \in Tokens : token[t] # "unborn" => token'[t] # "unborn"
      /\ \A t \in Tokens : token[t] # "unborn" /\ t \notin Written(a) => token'[t] = token[t]
  BY <1>4, ReasonsEnd DEF Moves, Born, Live, Request
<1>7. Keeps(c)'
  BY <1>4, <1>6 DEF FitsAs, Keeps, ApartAs, Alike, Live, Born
<1>8. Owns(c)'
  BY <1>4, <1>6 DEF FitsAs, Owns, Alike, Moves, Shape, Named
<1>9. Covers(c)'
  BY <1>4, <1>6 DEF FitsAs, Covers, Owns, Alike, Live
<1>10. Takes(c)'
  BY <1>4, <1>6 DEF FitsAs, Takes, Alike, Moves, Scope
<1>11. Settles(c)'
  <2>1. c.kind = "reuse" /\ c.pc = "done" => session'[c.ses] \in SessionReasons
    <3>1. b.kind = "reuse" /\ b.pc = "done" => b.ses \in Sessions /\ session[b.ses] \in SessionReasons
      BY <1>4 DEF FitsAs, Settles, Shape, Named
    <3> QED BY <3>1, <1>4, ReasonsEnd DEF Moves, Alike
  <2>2. c.pc = "issue" => \A t \in Tokens : token'[t] # "unborn" => tokenOf'[t] # c.ses
    <3> SUFFICES ASSUME c.pc = "issue", NEW t \in Tokens, token'[t] # "unborn" PROVE tokenOf'[t] # c.ses
      OBVIOUS
    <3>1. CASE token[t] = "unborn"
      BY <3>1, <1>4, <1>5 DEF FitsAs, Keeps, Moves, Alike
    <3>2. CASE token[t] # "unborn"
      BY <3>2, <1>4 DEF FitsAs, Settles, Moves, Alike
    <3> QED BY <3>1, <3>2
  <2>3. c.kind = "login" /\ c.pc = "commit" =>
          \A s \in Sessions : session'[s] = "live" /\ deviceOf'[s] = c.dev => s \in c.wroteS
    <3> SUFFICES ASSUME c.kind = "login", c.pc = "commit", NEW s \in Sessions, session'[s] = "live",
                        deviceOf'[s] = c.dev
                 PROVE  s \in c.wroteS
      OBVIOUS
    <3>1. Born(s)
      BY <1>4, <1>5 DEF ApartAs, Inserted, Alike
    <3> QED BY <3>1, <1>4, <1>6 DEF FitsAs, Settles, Alike, Moves
  <2> QED BY <2>1, <2>2, <2>3 DEF Settles, Live
<1> QED BY <1>3, <1>7, <1>8, <1>9, <1>10, <1>11 DEF Fits, FitsAs, Keeps, Owns, Covers, Takes, Settles,
                                                  Live, Born, Written, Scope

\* The step of a request that commits, and of one that does not.
LEMMA CommitStep ==
  ASSUME SessionInv, NEW r \in Requests, NEW d, Becomes(r, d), Shape(d), Fits(r)',
         \A q \in Requests \ {r} : ApartAs(d, req[q]),
         Moves(req[r]), Bears(r), Store'
  PROVE  SessionInv'
<1>1. \A q \in Requests : Shape(req'[q])
  <2> TAKE q \in Requests
  <2>1. CASE q = r
    BY <2>1 DEF Becomes
  <2>2. CASE q # r
    BY <2>2, AlikeShape DEF Becomes, SessionInv
  <2> QED BY <2>1, <2>2
<1>2. \A q \in Requests : Fits(q)'
  <2> TAKE q \in Requests
  <2>1. CASE q # r
    BY <2>1, OthersFit DEF Becomes
  <2> QED BY <2>1
<1>3. \A p \in Requests : \A q \in Requests \ {p} : ApartAs(req'[p], req'[q])
  <2> TAKE p \in Requests
  <2> TAKE q \in Requests \ {p}
  <2>1. \A x \in Requests \ {r} : ApartAs(d, req'[x]) /\ ApartAs(req'[x], d)
    <3> TAKE x \in Requests \ {r}
    <3>1. Alike(d, d)
      BY DEF Shape, Alike
    <3> QED BY <3>1, AlikeApart, ApartSym DEF Becomes
  <2>2. CASE p = r
    BY <2>1, <2>2 DEF Becomes
  <2>3. CASE q = r
    BY <2>1, <2>3 DEF Becomes
  <2>4. CASE p # r /\ q # r
    BY <2>4, AlikeApart DEF Becomes, SessionInv, Apart
  <2> QED BY <2>2, <2>3, <2>4
<1>4. \A p \in Requests : \A q \in Requests \ {p} : Apart(p, q)'
  BY <1>3 DEF Apart, ApartAs, Written, SettingPassword, Inserted
<1>5. (req \in [Requests -> Request])'
  BY DEF Becomes
<1>6. (\A q \in Requests : Shape(req[q]))'
  BY <1>1 DEF Shape, Placed, Named, Wrote, Written
<1> QED BY <1>2, <1>4, <1>5, <1>6 DEF SessionInv

LEMMA QuietStep ==
  ASSUME SessionInv, NEW r \in Requests, NEW d, Becomes(r, d), Shape(d), FitsAs(d),
         \A q \in Requests \ {r} : ApartAs(d, req[q]),
         UNCHANGED committed, cached' \subseteq Sessions
  PROVE  SessionInv'
<1>1. UNCHANGED <<session, deviceOf, pwOf, late, token, tokenOf, password>>
  BY DEF committed, sessionVars, tokenVars
<1>2. Store'
  BY <1>1 DEF SessionInv, Store, Typed, OneLivePerDevice, OneLiveToken, Live, Born, InOrder
<1>3. Moves(req[r]) /\ Bears(r)
  BY <1>1 DEF Moves, Bears, Born
<1>4. FitsAs(d)'
  BY <1>1 DEF FitsAs, Keeps, Owns, Covers, Takes, Settles, Live, Born, Written, Scope
<1>5. Fits(r)'
  BY <1>4 DEF Becomes, Fits, FitsAs, Keeps, Owns, Covers, Takes, Settles, Live, Born, Written, Scope
<1> QED BY <1>2, <1>3, <1>5, CommitStep

\* A request that has written no more than before, and takes no new turn.
Narrower(d, a) ==
  /\ d.wroteS \subseteq a.wroteS /\ Written(d) \subseteq Written(a)
  /\ SettingPassword(d) => SettingPassword(a)
  /\ Inserted(d) => Inserted(a) /\ d.dev = a.dev
  /\ d.pc = "issue" => a.pc = "issue" /\ d.ses = a.ses

LEMMA NarrowerApart ==
  ASSUME NEW a, NEW b, NEW d, ApartAs(a, b), Narrower(d, a)
  PROVE  ApartAs(d, b)
BY DEF ApartAs, Narrower

LEMMA NarrowerStep ==
  ASSUME SessionInv, NEW r \in Requests, NEW d, Becomes(r, d), Shape(d), FitsAs(d),
         Narrower(d, req[r]), UNCHANGED committed, cached' \subseteq Sessions
  PROVE  SessionInv'
<1>1. \A q \in Requests \ {r} : ApartAs(d, req[q])
  BY NarrowerApart DEF SessionInv, Apart
<1> QED BY <1>1, QuietStep

LEMMA Becoming ==
  ASSUME SessionInv, NEW r \in Requests, NEW d \in Request, req' = [req EXCEPT ![r] = d]
  PROVE  Becomes(r, d)
BY DEF SessionInv, Becomes, Alike

LEMMA RequestAt ==
  ASSUME SessionInv, NEW r \in Requests, NEW a, a = req[r]
  PROVE  a \in Request /\ Shape(a) /\ FitsAs(a) /\ Written(a) \subseteq Tokens /\ cached \subseteq Sessions
BY WrittenTokens DEF SessionInv, Fits, Store, Typed
-----------------------------------------------------------------------------
(* The steps of a request up to its commit.                                 *)

\* A request that has written nothing.
LEMMA NothingWritten ==
  ASSUME NEW d \in Request, Placed(d), Named(d), d.rows = {}, d.wroteS = {}, d.wroteT = {},
         d.pc \notin RowPlaces \cup {"issue", "commit", "done"}, ~SettingPassword(d)
  PROVE  /\ Shape(d) /\ Keeps(d) /\ Takes(d) /\ Settles(d)
         /\ \A a : Narrower(d, a)
         /\ d.pc \notin Writing => Covers(d)
<1>1. Written(d) = {}
  BY DEF Written
<1>2. Wrote(d)
  BY <1>1 DEF Wrote, RowPlaces
<1> QED BY <1>1, <1>2 DEF Shape, Keeps, Takes, Settles, Covers, Narrower, Inserted

LEMMA NextInOrder ==
  ASSUME NEW born, NEW max \in Nat, InOrder(born, max)
  PROVE  \E k \in 0..max : born = 1..k /\ FirstFree(born) = k + 1
<1>1. PICK k \in 0..max : born = 1..k
  BY DEF InOrder
<1>2. Cardinality(1..k) = k
  BY FS_Interval
<1> QED BY <1>1, <1>2 DEF FirstFree

\* How many sessions there are, and which.
LEMMA SessionsSoFar ==
  ASSUME SessionInv
  PROVE  NextSession - 1 \in Nat /\ \A s \in Sessions : s > NextSession - 1 \/ Born(s)
<1>1. PICK k \in 0..MaxSessions : {s \in Sessions : Born(s)} = 1..k /\ NextSession = k + 1
  BY NextInOrder DEF SessionInv, Store, NextSession
<1>2. \A s \in Sessions : s > k \/ s \in 1..k
  BY DEF Sessions
<1> QED BY <1>1, <1>2

LEMMA StartLoginKeeps ==
  ASSUME SessionInv, NEW r \in Requests, NEW dv \in Devices, StartLogin(r, dv)
  PROVE  SessionInv'
<1>1. PICK o \in BOOLEAN, b \in Nat : o = (\E q \in Requests : Sweeps(q)) /\ b = NextSession - 1
  BY SessionsSoFar
<1>2. PICK d : d = [Idle EXCEPT !.kind = "login", !.pc = "find", !.dev = dv, !.began = b, !.saw = password, !.overtaken = o]
  OBVIOUS
<1>3. /\ d \in Request /\ d.kind = "login" /\ d.pc = "find" /\ d.dev = dv /\ d.ses = None
      /\ d.rows = {} /\ d.wroteS = {} /\ d.wroteT = {}
  BY <1>2 DEF Idle, Request, Places, StartLogin, SessionInv, Store, Typed
<1>4. req' = [req EXCEPT ![r] = d] /\ UNCHANGED committed /\ cached' = cached
  BY <1>1, <1>2 DEF StartLogin
<1>5. Placed(d) /\ Named(d) /\ ~SettingPassword(d) /\ d.pc \notin Writing \cup RowPlaces
  BY <1>3 DEF Placed, Named, SettingPassword, SetsPassword, Swept, Writing, RowPlaces, TokenRows
<1>6. Owns(d)
  BY <1>3 DEF Owns, Sessions
<1> QED BY <1>3, <1>4, <1>5, <1>6, NothingWritten, NarrowerStep, Becoming, RequestAt DEF FitsAs

LEMMA StartRefreshKeeps ==
  ASSUME SessionInv, NEW r \in Requests, NEW t \in Tokens, NEW dv \in Devices, StartRefresh(r, t, dv)
  PROVE  SessionInv'
<1>1. PICK d : /\ req' = [req EXCEPT ![r] = d]
               /\ d \in {[Idle EXCEPT !.kind = "refresh", !.ses = tokenOf[t], !.tok = t, !.dev = dv, !.pc = "validate"],
                         [Idle EXCEPT !.kind = "reuse", !.ses = tokenOf[t], !.tok = t, !.dev = dv, !.pc = "reuse"]}
  BY DEF StartRefresh
<1>2. tokenOf[t] \in Sessions /\ Born(tokenOf[t]) /\ token[t] # "unborn" /\ "refresh" \in Kinds
  BY DEF StartRefresh, SessionInv, Store
<1>3. /\ d \in Request /\ d.ses = tokenOf[t] /\ d.tok = t
      /\ (d.kind = "refresh" /\ d.pc = "validate") \/ (d.kind = "reuse" /\ d.pc = "reuse")
      /\ d.rows = {} /\ d.wroteS = {} /\ d.wroteT = {}
  <2>1. CASE d = [Idle EXCEPT !.kind = "refresh", !.ses = tokenOf[t], !.tok = t, !.dev = dv, !.pc = "validate"]
    BY <2>1, <1>2 DEF Idle, Request, Places
  <2>2. CASE d = [Idle EXCEPT !.kind = "reuse", !.ses = tokenOf[t], !.tok = t, !.dev = dv, !.pc = "reuse"]
    BY <2>2, <1>2 DEF Idle, Request, Places
  <2> QED BY <1>1, <2>1, <2>2
<1>4. UNCHANGED committed /\ cached' = cached
  BY DEF StartRefresh
<1>5. Placed(d) /\ Named(d) /\ ~SettingPassword(d) /\ d.pc \notin Writing \cup RowPlaces
  BY <1>2, <1>3 DEF Placed, Named, SettingPassword, SetsPassword, Swept, Writing, RowPlaces, TokenRows
<1>6. Owns(d)
  BY <1>2, <1>3 DEF Owns
<1> QED BY <1>1, <1>3, <1>4, <1>5, <1>6, NothingWritten, NarrowerStep, Becoming, RequestAt DEF FitsAs

LEMMA StartEndingKeeps ==
  ASSUME SessionInv, NEW r \in Requests, NEW k \in Kinds, NEW s \in Sessions, StartEnding(r, k, s)
  PROVE  SessionInv'
<1>1. PICK p : p = (IF k \in SetsPassword THEN "credential" ELSE "sessions")
  OBVIOUS
<1>2. PICK u : u = (IF k = "reset" THEN None ELSE s)
  OBVIOUS
<1>3. PICK d : d = [Idle EXCEPT !.kind = k, !.pc = p, !.ses = u]
  OBVIOUS
<1>4. /\ d \in Request /\ d.kind = k /\ d.pc = p /\ d.ses = u /\ d.rows = {} /\ d.wroteS = {} /\ d.wroteT = {}
  BY <1>1, <1>2, <1>3 DEF Idle, Request, Places
<1>5. req' = [req EXCEPT ![r] = d] /\ UNCHANGED committed /\ cached' = cached /\ Born(s)
  BY <1>1, <1>2, <1>3 DEF StartEnding
<1>6. k \in {"logout", "owned", "others", "change", "reset"}
  BY DEF StartEnding
<1>7. Placed(d) /\ Named(d) /\ ~SettingPassword(d) /\ d.pc \notin Writing \cup RowPlaces \cup {"issue", "commit", "done"}
  BY <1>1, <1>2, <1>4, <1>6 DEF Placed, Named, SettingPassword, SetsPassword, Swept, Writing, RowPlaces, TokenRows, Ending
<1>8. Owns(d)
  BY <1>2, <1>4, <1>5, <1>6 DEF Owns, Sessions
<1> QED BY <1>4, <1>5, <1>7, <1>8, NothingWritten, NarrowerStep, Becoming, RequestAt DEF FitsAs

\* A request that only goes on.
LEMMA GoesOn ==
  ASSUME SessionInv, NEW r \in Requests, NEW p \in Places, NEW d, d = [req[r] EXCEPT !.pc = p], Go(r, p)
  PROVE  /\ d \in Request /\ d.pc = p /\ d.kind = req[r].kind /\ d.ses = req[r].ses /\ d.tok = req[r].tok
         /\ d.dev = req[r].dev /\ d.rows = req[r].rows /\ d.wroteS = req[r].wroteS /\ d.wroteT = req[r].wroteT
         /\ Written(d) = Written(req[r])
         /\ Becomes(r, d)
<1>1. d \in Request
  BY RequestAt DEF Request
<1>2. req' = [req EXCEPT ![r] = d]
  BY DEF Go
<1>3. Becomes(r, d)
  BY <1>1, <1>2, Becoming
<1>4. /\ d.pc = p /\ d.kind = req[r].kind /\ d.ses = req[r].ses /\ d.tok = req[r].tok
      /\ d.dev = req[r].dev /\ d.rows = req[r].rows /\ d.wroteS = req[r].wroteS /\ d.wroteT = req[r].wroteT
  BY RequestAt DEF Request
<1> QED BY <1>1, <1>3, <1>4 DEF Written

LEMMA SetCredentialKeeps ==
  ASSUME SessionInv, NEW r \in Requests, SetCredential(r)
  PROVE  SessionInv'
<1>1. PICK a : a = req[r]
  OBVIOUS
<1>2. PICK d : d = [req[r] EXCEPT !.pc = "sessions"]
  OBVIOUS
<1>3. Shape(a) /\ FitsAs(a) /\ a.pc = "credential" /\ UNCHANGED committed /\ cached' = cached /\ cached \subseteq Sessions
  BY <1>1, RequestAt DEF SetCredential, At
<1>4. /\ d \in Request /\ d.pc = "sessions" /\ d.kind = a.kind /\ d.ses = a.ses /\ d.rows = a.rows
      /\ d.wroteS = a.wroteS /\ d.wroteT = a.wroteT /\ Becomes(r, d) /\ d.dev = a.dev /\ d.tok = a.tok
  BY <1>1, <1>2, GoesOn DEF SetCredential, Places
<1>5. d.kind \in SetsPassword /\ d.rows = {} /\ d.wroteS = {} /\ d.wroteT = {} /\ Written(d) = {}
  BY <1>3, <1>4 DEF Shape, Placed, Wrote, RowPlaces, TokenRows, Writing, WritingTokens, Written
<1>6. Shape(d)
  BY <1>3, <1>4, <1>5 DEF Shape, Placed, Named, Wrote, RowPlaces, TokenRows, SetsPassword, Ending
<1>7. FitsAs(d)
  BY <1>3, <1>4, <1>5 DEF FitsAs, Keeps, Owns, Covers, Takes, Settles, Writing, SetsPassword
<1>8. \A q \in Requests \ {r} : ApartAs(d, req[q])
  <2> TAKE q \in Requests \ {r}
  <2>1. ~SettingPassword(req[q])
    BY DEF SetCredential, CredentialHolders, SettingPassword, Swept
  <2> QED BY <2>1, <1>4, <1>5 DEF ApartAs, Inserted, SetsPassword
<1> QED BY <1>3, <1>4, <1>6, <1>7, <1>8, QuietStep

LEMMA ValidateKeeps ==
  ASSUME SessionInv, NEW r \in Requests, ValidateOk(r) \/ ValidateRefuses(r)
  PROVE  SessionInv'
<1>1. PICK a : a = req[r]
  OBVIOUS
<1>2. PICK p \in {"rotate", "done"} : Go(r, p)
  BY DEF ValidateOk, ValidateRefuses
<1>3. PICK d : d = [req[r] EXCEPT !.pc = p]
  OBVIOUS
<1>4. Shape(a) /\ FitsAs(a) /\ a.pc = "validate" /\ UNCHANGED committed /\ cached \subseteq Sessions
  BY <1>1, RequestAt DEF ValidateOk, ValidateRefuses, At
<1>5. /\ d \in Request /\ d.pc = p /\ d.kind = a.kind /\ d.ses = a.ses /\ d.rows = a.rows
      /\ d.wroteS = a.wroteS /\ d.wroteT = a.wroteT /\ Becomes(r, d) /\ d.dev = a.dev /\ d.tok = a.tok
  BY <1>1, <1>2, <1>3, GoesOn DEF Places
<1>6. d.kind = "refresh" /\ a.ses \in Sessions /\ d.rows = {} /\ d.wroteS = {} /\ d.wroteT = {} /\ Written(d) = {}
  BY <1>4, <1>5 DEF Shape, Placed, Named, Wrote, RowPlaces, TokenRows, Writing, WritingTokens, Written
<1>7. Shape(d)
  BY <1>4, <1>5, <1>6 DEF Shape, Placed, Named, Wrote, RowPlaces, TokenRows, Swept
<1>8. FitsAs(d)
  BY <1>4, <1>5, <1>6 DEF FitsAs, Keeps, Owns, Covers, Takes, Settles, Writing, Alone
<1>9. cached' \subseteq Sessions
  BY <1>1, <1>4, <1>5, <1>6 DEF ValidateOk, ValidateRefuses
<1>10. Narrower(d, a)
  BY <1>4, <1>5, <1>6 DEF Narrower, SettingPassword, SetsPassword, Inserted
<1> QED BY <1>1, <1>4, <1>5, <1>7, <1>8, <1>9, <1>10, NarrowerStep

LEMMA FindKeeps ==
  ASSUME SessionInv, NEW r \in Requests, Find(r)
  PROVE  SessionInv'
<1>1. PICK a : a = req[r]
  OBVIOUS
<1>2. /\ a \in Request /\ Shape(a) /\ FitsAs(a) /\ a.pc = "find" /\ UNCHANGED committed /\ cached' = cached
      /\ cached \subseteq Sessions
  BY <1>1, RequestAt DEF Find, At
<1>3. /\ a.kind = "login" /\ a.dev \in Devices /\ a.ses = None
      /\ a.rows = {} /\ a.wroteS = {} /\ a.wroteT = {} /\ Written(a) = {}
  BY <1>2 DEF Shape, Placed, Named, Wrote, RowPlaces, TokenRows, Writing, WritingTokens, Written
<1>4. CASE ~ \E s \in Sessions : Live(s) /\ deviceOf[s] = a.dev
  <2>1. Go(r, "insert")
    BY <1>1, <1>4 DEF Find
  <2>2. PICK d : d = [req[r] EXCEPT !.pc = "insert"]
    OBVIOUS
  <2>3. /\ d \in Request /\ d.pc = "insert" /\ d.kind = a.kind /\ d.ses = a.ses /\ d.rows = a.rows
        /\ d.wroteS = a.wroteS /\ d.wroteT = a.wroteT /\ Becomes(r, d) /\ d.dev = a.dev /\ d.tok = a.tok
        /\ Written(d) = {}
    BY <1>1, <1>3, <2>1, <2>2, GoesOn DEF Places
  <2>4. Shape(d)
    BY <1>3, <2>3 DEF Shape, Placed, Named, Wrote, RowPlaces, TokenRows, Swept, Sweeping
  <2>5. FitsAs(d)
    BY <1>2, <1>3, <2>3 DEF FitsAs, Keeps, Owns, Covers, Takes, Settles, Sessions
  <2>6. Narrower(d, a)
    BY <1>3, <2>3 DEF Narrower, SettingPassword, SetsPassword, Inserted
  <2> QED BY <1>1, <1>2, <2>3, <2>4, <2>5, <2>6, NarrowerStep
<1>5. CASE \E s \in Sessions : Live(s) /\ deviceOf[s] = a.dev
  <2>1. PICK s \in Sessions : /\ Live(s) /\ deviceOf[s] = a.dev
                              /\ req' = [req EXCEPT ![r].ses = s, ![r].pc = "sessions"]
    BY <1>1, <1>5 DEF Find
  <2>2. PICK d : d = [a EXCEPT !.ses = s, !.pc = "sessions"]
    OBVIOUS
  <2>3. req' = [req EXCEPT ![r] = d]
    BY <1>1, <2>1, <2>2 DEF SessionInv
  <2>4. /\ d \in Request /\ d.pc = "sessions" /\ d.kind = a.kind /\ d.ses = s /\ d.rows = {} /\ d.dev = a.dev
        /\ d.wroteS = {} /\ d.wroteT = {}
    BY <1>2, <1>3, <2>2 DEF Request, Places
  <2>5. Placed(d) /\ Named(d) /\ ~SettingPassword(d) /\ d.pc \notin Writing \cup RowPlaces
    BY <1>3, <2>4 DEF Placed, Named, SettingPassword, SetsPassword, Swept, Ending, Writing, RowPlaces, TokenRows
  <2>6. Owns(d)
    BY <1>3, <2>1, <2>4 DEF Owns, Live, Born
  <2> QED BY <1>2, <2>3, <2>4, <2>5, <2>6, NothingWritten, NarrowerStep, Becoming DEF FitsAs
<1> QED BY <1>4, <1>5

LEMMA PickSessionsKeeps ==
  ASSUME SessionInv, NEW r \in Requests, PickSessions(r)
  PROVE  SessionInv'
<1>1. PICK a : a = req[r]
  OBVIOUS
<1>2. PICK rows : rows = {s \in SessionScope(r) : Live(s)}
  OBVIOUS
<1>3. PICK d : d = [a EXCEPT !.pc = "sessionRows", !.rows = rows]
  OBVIOUS
<1>4. /\ a \in Request /\ Shape(a) /\ FitsAs(a) /\ a.pc = "sessions" /\ UNCHANGED committed /\ cached' = cached
      /\ cached \subseteq Sessions
  BY <1>1, RequestAt DEF PickSessions, At
<1>5. /\ a.kind \in Ending /\ a.rows = {} /\ a.wroteS = {}
      /\ a.kind # "reuse" => a.wroteT = {}
      /\ a.kind \notin Sweeping => a.ses \in Sessions
  BY <1>4 DEF Shape, Placed, Named, Wrote, RowPlaces, TokenRows, Writing, Swept, Ending, Sweeping
<1>6. /\ rows \subseteq Sessions
      /\ a.kind \notin Sweeping => rows \subseteq {a.ses} /\ (Live(a.ses) => a.ses \in rows)
  BY <1>1, <1>2, <1>5 DEF SessionScope
<1>7. /\ d \in Request /\ d.pc = "sessionRows" /\ d.kind = a.kind /\ d.ses = a.ses /\ d.dev = a.dev /\ d.tok = a.tok
      /\ d.rows = rows /\ d.wroteS = {} /\ d.wroteT = a.wroteT /\ Written(d) = Written(a)
  <2>1. rows \in SUBSET Nat
    BY <1>6 DEF Sessions
  <2>2. /\ d \in Request /\ d.pc = "sessionRows" /\ d.kind = a.kind /\ d.ses = a.ses /\ d.dev = a.dev
        /\ d.tok = a.tok /\ d.rows = rows /\ d.wroteS = a.wroteS /\ d.wroteT = a.wroteT
    BY <1>3, <1>4, <2>1 DEF Request, Places
  <2> QED BY <1>5, <2>2 DEF Written
<1>8. Becomes(r, d)
  <2>1. req'[r] = d
    BY <1>1, <1>2, <1>3 DEF PickSessions
  <2>2. \A q \in Requests \ {r} : req'[q] = [req[q] EXCEPT !.overtaken = TRUE] \/ req'[q] = req[q]
    BY DEF PickSessions
  <2>3. \A q \in Requests \ {r} : req'[q] \in Request /\ Alike(req'[q], req[q])
    <3> TAKE q \in Requests \ {r}
    <3>1. PICK b : b = req[q]
      OBVIOUS
    <3>2. b \in Request
      BY <3>1 DEF SessionInv
    <3>3. CASE req'[q] = [b EXCEPT !.overtaken = TRUE]
      <4>1. PICK e : e = [b EXCEPT !.overtaken = TRUE]
        OBVIOUS
      <4>2. e \in Request /\ Alike(e, b)
        BY <3>2, <4>1 DEF Request, Alike
      <4> QED BY <3>1, <3>3, <4>1, <4>2
    <3>4. CASE req'[q] = b
      BY <3>1, <3>2, <3>4 DEF Alike
    <3> QED BY <2>2, <3>1, <3>3, <3>4
  <2>4. DOMAIN req' = Requests /\ req' = [q \in Requests |-> req'[q]]
    BY DEF PickSessions
  <2>5. req' \in [Requests -> Request]
    BY <1>7, <2>1, <2>3, <2>4
  <2> QED BY <2>1, <2>3, <2>5 DEF Becomes
<1>9. Shape(d)
  BY <1>4, <1>5, <1>6, <1>7 DEF Shape, Placed, Named, Wrote, RowPlaces, TokenRows, Writing, WritingTokens, Swept
<1>10. FitsAs(d)
  <2>1. Keeps(d) /\ Owns(d)
    BY <1>4, <1>5, <1>7 DEF FitsAs, Keeps, Owns
  <2>2. Covers(d)
    BY <1>6, <1>7 DEF Covers, Alone, Sweeping
  <2> QED BY <2>1, <2>2, <1>7 DEF FitsAs, Takes, Settles
<1>11. Narrower(d, a)
  BY <1>4, <1>5, <1>7 DEF Narrower, SettingPassword, Swept, Inserted
<1> QED BY <1>1, <1>4, <1>8, <1>9, <1>10, <1>11, NarrowerStep

LEMMA LockSessionKeeps ==
  ASSUME SessionInv, NEW r \in Requests, NEW s \in Sessions, LockSession(r, s)
  PROVE  SessionInv'
<1>1. PICK a : a = req[r]
  OBVIOUS
<1>2. PICK w : w = (IF Live(s) THEN a.wroteS \cup {s} ELSE a.wroteS)
  OBVIOUS
<1>3. PICK d : d = [a EXCEPT !.rows = a.rows \ {s}, !.wroteS = w]
  OBVIOUS
<1>4. /\ a \in Request /\ Shape(a) /\ FitsAs(a) /\ a.pc = "sessionRows" /\ s \in a.rows
      /\ UNCHANGED committed /\ cached' = cached /\ cached \subseteq Sessions
  BY <1>1, RequestAt DEF LockSession, At
<1>5. req' = [req EXCEPT ![r] = d]
  BY <1>1, <1>2, <1>3 DEF LockSession, SessionInv
<1>6. w \subseteq a.wroteS \cup {s} /\ a.wroteS \subseteq w /\ (Live(s) => s \in w) /\ (s \in w => Live(s) \/ s \in a.wroteS)
  BY <1>2
<1>7. /\ d \in Request /\ d.pc = "sessionRows" /\ d.kind = a.kind /\ d.ses = a.ses /\ d.dev = a.dev /\ d.tok = a.tok
      /\ d.rows = a.rows \ {s} /\ d.wroteS = w /\ d.wroteT = a.wroteT /\ Written(d) = Written(a)
  BY <1>3, <1>4, <1>6 DEF Request, Written
<1>8. a.kind \in Ending /\ (a.kind \notin Sweeping => a.rows \subseteq {a.ses} /\ a.wroteS \subseteq {a.ses})
  BY <1>4 DEF Shape, Placed, Wrote, Swept
<1>9. Shape(d)
  <2>1. Placed(d) /\ Named(d)
    BY <1>4, <1>7 DEF Shape, Placed, Named
  <2>2. Wrote(d)
    BY <1>4, <1>6, <1>7, <1>8 DEF Shape, Wrote, RowPlaces, Writing, WritingTokens, Ending
  <2> QED BY <1>7, <2>1, <2>2 DEF Shape
<1>10. FitsAs(d)
  <2>1. Keeps(d)
    BY <1>4, <1>6, <1>7 DEF FitsAs, Keeps
  <2>2. Owns(d)
    BY <1>4, <1>7 DEF FitsAs, Owns
  <2>3. Covers(d)
    BY <1>4, <1>6, <1>7 DEF FitsAs, Covers, Writing
  <2> QED BY <2>1, <2>2, <2>3, <1>7 DEF FitsAs, Takes, Settles
<1>11. \A q \in Requests \ {r} : ApartAs(d, req[q])
  <2> TAKE q \in Requests \ {r}
  <2>1. PICK b : b = req[q]
    OBVIOUS
  <2>2. ApartAs(a, b) /\ s \notin b.wroteS
    BY <1>1, <2>1 DEF SessionInv, Apart, LockSession, SessionHeld
  <2>3. d.wroteS \cap b.wroteS = {}
    BY <1>6, <1>7, <2>2 DEF ApartAs
  <2> QED BY <1>4, <1>7, <2>1, <2>2, <2>3 DEF ApartAs, SettingPassword, Inserted
<1> QED BY <1>4, <1>5, <1>7, <1>9, <1>10, <1>11, QuietStep, Becoming

LEMMA SessionsDoneKeeps ==
  ASSUME SessionInv, NEW r \in Requests, SessionsDone(r)
  PROVE  SessionInv'
<1>1. PICK a : a = req[r]
  OBVIOUS
<1>2. PICK p : p = (IF a.kind \in Sweeping \cup {"owned"} /\ a.wroteS = {} THEN "commit" ELSE "tokens")
  OBVIOUS
<1>3. PICK d : d = [req[r] EXCEPT !.pc = p]
  OBVIOUS
<1>4. /\ a \in Request /\ Shape(a) /\ FitsAs(a) /\ a.pc = "sessionRows" /\ a.rows = {} /\ Go(r, p)
      /\ UNCHANGED committed /\ cached' = cached /\ cached \subseteq Sessions
  BY <1>1, <1>2, RequestAt DEF SessionsDone, At
<1>5. /\ d \in Request /\ d.pc = p /\ d.kind = a.kind /\ d.ses = a.ses /\ d.rows = a.rows
      /\ d.wroteS = a.wroteS /\ d.wroteT = a.wroteT /\ Becomes(r, d) /\ d.dev = a.dev /\ d.tok = a.tok
      /\ Written(d) = Written(a)
  BY <1>1, <1>2, <1>3, <1>4, GoesOn DEF Places
<1>6. /\ a.kind \in Ending /\ (a.kind # "reuse" => a.wroteT = {} /\ Written(a) = {})
      /\ p \in {"commit", "tokens"} /\ (p = "commit" => a.kind \in Sweeping \cup {"owned"})
      /\ a.kind # "none"
  BY <1>2, <1>4 DEF Shape, Placed, Wrote, Swept, Written, Ending
<1>7. Shape(d)
  <2>1. Placed(d) /\ Named(d)
    BY <1>4, <1>5, <1>6 DEF Shape, Placed, Named, Swept
  <2>2. Wrote(d)
    BY <1>4, <1>5, <1>6 DEF Shape, Wrote, RowPlaces, TokenRows, Writing, WritingTokens, Ending
  <2> QED BY <1>5, <2>1, <2>2 DEF Shape
<1>8. FitsAs(d)
  <2>1. Keeps(d) /\ Owns(d)
    BY <1>4, <1>5 DEF FitsAs, Keeps, Owns
  <2>2. Covers(d)
    BY <1>4, <1>5, <1>6 DEF FitsAs, Covers, Writing
  <2>3. Takes(d) /\ Settles(d)
    BY <1>4, <1>5, <1>6 DEF Takes, Settles, Sweeping, Ending
  <2> QED BY <2>1, <2>2, <2>3 DEF FitsAs
<1>9. Narrower(d, a)
  BY <1>4, <1>5, <1>6 DEF Narrower, SettingPassword, Swept, Inserted, Sweeping
<1> QED BY <1>1, <1>4, <1>5, <1>7, <1>8, <1>9, NarrowerStep

\* The tokens a statement picks.
LEMMA PickTokensKeeps ==
  ASSUME SessionInv, NEW r \in Requests, PickSessionTokens(r) \/ PickReusedTokens(r) \/ PickRotated(r)
  PROVE  SessionInv'
<1>1. PICK a : a = req[r]
  OBVIOUS
<1>2. /\ a \in Request /\ Shape(a) /\ FitsAs(a) /\ Written(a) \subseteq Tokens
      /\ UNCHANGED committed /\ cached' = cached /\ cached \subseteq Sessions
  BY <1>1, RequestAt DEF PickSessionTokens, PickReusedTokens, PickRotated, PickTokens
<1>3. PICK p, rows :
        /\ \/ a.pc = "tokens" /\ p = "tokenRows" /\ rows = LiveTokens(r)
           \/ a.pc = "reuse" /\ p = "reuseRows" /\ rows = LiveTokens(r)
           \/ a.pc = "rotate" /\ p = "rotateRows" /\ rows = {t \in {a.tok} : token[t] = "live"}
        /\ req' = [req EXCEPT ![r].pc = p, ![r].rows = rows]
  BY <1>1 DEF PickSessionTokens, PickReusedTokens, PickRotated, PickTokens, At
<1>4. PICK d : d = [a EXCEPT !.pc = p, !.rows = rows]
  OBVIOUS
<1>5. req' = [req EXCEPT ![r] = d]
  BY <1>1, <1>3, <1>4 DEF SessionInv
<1>6. /\ a.rows = {} /\ (p # "tokenRows" => a.wroteS = {} /\ a.wroteT = {} /\ Written(a) = {})
      /\ (p = "reuseRows" => a.kind = "reuse") /\ (p = "rotateRows" => a.kind = "refresh" /\ a.tok \in Tokens)
      /\ (p = "tokenRows" => a.kind \in Ending)
      /\ (p = "tokenRows" /\ a.kind # "reuse" => Written(a) = {})
  BY <1>2, <1>3 DEF Shape, Placed, Named, Wrote, RowPlaces, TokenRows, Writing, WritingTokens, Written, Swept
<1>7. /\ p \in {"tokenRows", "reuseRows", "rotateRows"} /\ rows \in SUBSET Nat
      /\ p # "rotateRows" => rows \subseteq Tokens /\ \A t \in rows : token[t] = "live" /\ tokenOf[t] \in Scope(a)
      /\ p = "rotateRows" => rows \subseteq {a.tok}
  <2>1. LiveTokens(r) \subseteq Tokens /\ \A t \in LiveTokens(r) : token[t] = "live" /\ tokenOf[t] \in Scope(a)
    BY <1>1 DEF LiveTokens, TokenScope, Scope
  <2> QED BY <1>3, <1>6, <2>1 DEF Tokens
<1>8. /\ d \in Request /\ d.pc = p /\ d.kind = a.kind /\ d.ses = a.ses /\ d.dev = a.dev /\ d.tok = a.tok
      /\ d.rows = rows /\ d.wroteS = a.wroteS /\ d.wroteT = a.wroteT
  BY <1>2, <1>4, <1>7 DEF Request, Places
<1>9. Written(d) = Written(a) /\ Scope(d) = Scope(a)
  BY <1>8 DEF Written, Scope
<1>10. Shape(d)
  <2>1. Placed(d) /\ Named(d)
    BY <1>2, <1>3, <1>6, <1>8 DEF Shape, Placed, Named, Swept, Ending
  <2>2. Wrote(d)
    BY <1>2, <1>3, <1>6, <1>7, <1>8, <1>9 DEF Shape, Wrote, RowPlaces, TokenRows, Writing, WritingTokens
  <2> QED BY <1>8, <2>1, <2>2 DEF Shape
<1>11. FitsAs(d)
  <2>1. Keeps(d) /\ Owns(d)
    BY <1>2, <1>8, <1>9 DEF FitsAs, Keeps, Owns
  <2>2. Covers(d)
    BY <1>2, <1>3, <1>8 DEF FitsAs, Covers, Writing
  <2>3. Takes(d)
    BY <1>6, <1>7, <1>8, <1>9 DEF Takes, Ending
  <2>4. Settles(d)
    BY <1>7, <1>8 DEF Settles
  <2> QED BY <2>1, <2>2, <2>3, <2>4 DEF FitsAs
<1>12. Narrower(d, a)
  BY <1>3, <1>6, <1>8, <1>9 DEF Narrower, SettingPassword, SetsPassword, Swept, Inserted
<1> QED BY <1>1, <1>2, <1>5, <1>8, <1>10, <1>11, <1>12, NarrowerStep, Becoming

LEMMA LockTokenKeeps ==
  ASSUME SessionInv, NEW r \in Requests, NEW t \in Tokens, LockToken(r, t)
  PROVE  SessionInv'
<1>1. PICK a : a = req[r]
  OBVIOUS
<1>2. PICK why : why = TokenReason(a.pc)
  OBVIOUS
<1>3. PICK w : w = (IF token[t] = "live" THEN a.wroteT \cup {<<t, why>>} ELSE a.wroteT)
  OBVIOUS
<1>4. PICK d : d = [a EXCEPT !.rows = a.rows \ {t}, !.wroteT = w]
  OBVIOUS
<1>5. /\ a \in Request /\ Shape(a) /\ FitsAs(a) /\ Written(a) \subseteq Tokens /\ a.pc \in TokenRows /\ t \in a.rows
      /\ UNCHANGED committed /\ cached' = cached /\ cached \subseteq Sessions
  BY <1>1, RequestAt DEF LockToken
<1>6. why \in TokenReasons
  BY <1>2, <1>5 DEF TokenRows, TokenReason, TokenReasons
<1>7. req' = [req EXCEPT ![r] = d]
  BY <1>1, <1>2, <1>3, <1>4 DEF LockToken, SessionInv
<1>8. w \in SUBSET (Tokens \X TokenReasons)
  BY <1>3, <1>5, <1>6 DEF Request
<1>9. /\ d \in Request /\ d.pc = a.pc /\ d.kind = a.kind /\ d.ses = a.ses /\ d.dev = a.dev /\ d.tok = a.tok
      /\ d.rows = a.rows \ {t} /\ d.wroteS = a.wroteS /\ d.wroteT = w /\ Scope(d) = Scope(a)
  <2>1. /\ d \in Request /\ d.pc = a.pc /\ d.kind = a.kind /\ d.ses = a.ses /\ d.dev = a.dev /\ d.tok = a.tok
        /\ d.rows = a.rows \ {t} /\ d.wroteS = a.wroteS /\ d.wroteT = w
    BY <1>4, <1>5, <1>8 DEF Request
  <2> QED BY <2>1 DEF Scope
<1>10. Written(d) = IF token[t] = "live" THEN Written(a) \cup {t} ELSE Written(a)
  <2>1. CASE token[t] = "live"
    <3>1. d.wroteT = a.wroteT \cup {<<t, why>>} /\ <<t, why>>[1] = t
      BY <1>3, <1>9, <2>1
    <3> QED BY <2>1, <3>1 DEF Written
  <2>2. CASE token[t] # "live"
    BY <1>3, <1>9, <2>2 DEF Written
  <2> QED BY <2>1, <2>2
<1>11. Shape(d)
  <2>1. Placed(d) /\ Named(d)
    BY <1>5, <1>9 DEF Shape, Placed, Named
  <2>2. Wrote(d)
    BY <1>5, <1>9, <1>10 DEF Shape, Wrote, RowPlaces, TokenRows, Writing, WritingTokens
  <2> QED BY <1>9, <2>1, <2>2 DEF Shape
<1>12. FitsAs(d)
  <2>1. Keeps(d)
    BY <1>5, <1>9, <1>10 DEF FitsAs, Keeps
  <2>2. Owns(d)
    BY <1>5, <1>9 DEF FitsAs, Owns
  <2>3. Covers(d)
    BY <1>5, <1>9 DEF FitsAs, Covers, TokenRows
  <2>4. Takes(d)
    BY <1>5, <1>9, <1>10 DEF FitsAs, Takes
  <2>5. Settles(d)
    BY <1>5, <1>9 DEF Settles, TokenRows
  <2> QED BY <2>1, <2>2, <2>3, <2>4, <2>5 DEF FitsAs
<1>13. \A q \in Requests \ {r} : ApartAs(d, req[q])
  <2> TAKE q \in Requests \ {r}
  <2>1. PICK b : b = req[q]
    OBVIOUS
  <2>2. ApartAs(a, b) /\ t \notin Written(b)
    BY <1>1, <2>1 DEF SessionInv, Apart, LockToken, TokenHeld, TokensWritten, Written
  <2>3. Written(d) \cap Written(b) = {}
    BY <1>10, <2>2 DEF ApartAs
  <2> QED BY <1>5, <1>9, <2>1, <2>2, <2>3 DEF ApartAs, SettingPassword, Inserted, TokenRows
<1> QED BY <1>5, <1>7, <1>9, <1>11, <1>12, <1>13, QuietStep, Becoming

LEMMA TokensDoneKeeps ==
  ASSUME SessionInv, NEW r \in Requests, TokensDone(r)
  PROVE  SessionInv'
<1>1. PICK a : a = req[r]
  OBVIOUS
<1>2. /\ a \in Request /\ Shape(a) /\ FitsAs(a) /\ a.pc \in TokenRows /\ a.rows = {}
      /\ UNCHANGED committed /\ cached' = cached /\ cached \subseteq Sessions
  BY <1>1, RequestAt DEF TokensDone
<1>3. PICK p : /\ Go(r, p)
               /\ \/ a.pc = "tokenRows" /\ a.kind = "login" /\ p = "insert"
                  \/ a.pc = "tokenRows" /\ a.kind # "login" /\ p = "commit"
                  \/ a.pc = "reuseRows" /\ p = "sessions"
                  \/ a.pc = "rotateRows" /\ a.wroteT = {} /\ p = "done"
                  \/ a.pc = "rotateRows" /\ a.wroteT # {} /\ p = "commit"
  BY <1>1 DEF TokensDone, TokenRows, At
<1>4. PICK d : d = [req[r] EXCEPT !.pc = p]
  OBVIOUS
<1>5. /\ d \in Request /\ d.pc = p /\ d.kind = a.kind /\ d.ses = a.ses /\ d.rows = a.rows
      /\ d.wroteS = a.wroteS /\ d.wroteT = a.wroteT /\ Becomes(r, d) /\ d.dev = a.dev /\ d.tok = a.tok
      /\ Written(d) = Written(a) /\ Scope(d) = Scope(a)
  <2>1. p \in Places
    BY <1>3 DEF Places
  <2> QED BY <1>1, <1>3, <1>4, <2>1, GoesOn DEF Scope
<1>6. /\ a.pc = "tokenRows" => a.kind \in Ending
      /\ a.pc = "reuseRows" => a.kind = "reuse" /\ a.wroteS = {}
      /\ a.pc = "rotateRows" => a.kind = "refresh" /\ a.wroteS = {} /\ Written(a) \subseteq {a.tok}
      /\ a.wroteT # {} => Written(a) # {}
      /\ a.pc # "idle" /\ a.kind # "none"
  BY <1>2 DEF Shape, Placed, Wrote, Swept, Written, Ending, Writing, TokenRows
<1>7. Shape(d)
  <2>1. Placed(d) /\ Named(d)
    BY <1>2, <1>3, <1>5, <1>6 DEF Shape, Placed, Named, Swept, Ending
  <2>2. Wrote(d)
    BY <1>2, <1>3, <1>5, <1>6 DEF Shape, Wrote, RowPlaces, TokenRows, Writing, WritingTokens, Ending
  <2> QED BY <1>5, <2>1, <2>2 DEF Shape
<1>8. FitsAs(d)
  <2>1. Keeps(d) /\ Owns(d)
    BY <1>2, <1>5 DEF FitsAs, Keeps, Owns
  <2>2. Covers(d)
    BY <1>2, <1>3, <1>5, <1>6 DEF FitsAs, Covers, Writing, Alone
  <2>3. Takes(d)
    BY <1>2, <1>3, <1>5, <1>6 DEF FitsAs, Takes, Ending
  <2>4. Settles(d)
    BY <1>3, <1>5, <1>6 DEF Settles
  <2> QED BY <2>1, <2>2, <2>3, <2>4 DEF FitsAs
<1>9. Narrower(d, a)
  BY <1>3, <1>5, <1>6 DEF Narrower, SettingPassword, SetsPassword, Swept, Inserted
<1> QED BY <1>1, <1>2, <1>5, <1>7, <1>8, <1>9, NarrowerStep

LEMMA InsertKeeps ==
  ASSUME SessionInv, NEW r \in Requests, Insert(r)
  PROVE  SessionInv'
<1>1. PICK a : a = req[r]
  OBVIOUS
<1>2. PICK d : d = [req[r] EXCEPT !.pc = "commit"]
  OBVIOUS
<1>3. /\ a \in Request /\ Shape(a) /\ FitsAs(a) /\ a.pc = "insert"
      /\ UNCHANGED committed /\ cached' = cached /\ cached \subseteq Sessions
  BY <1>1, RequestAt DEF Insert, At
<1>4. /\ d \in Request /\ d.pc = "commit" /\ d.kind = a.kind /\ d.ses = a.ses /\ d.rows = a.rows
      /\ d.wroteS = a.wroteS /\ d.wroteT = a.wroteT /\ Becomes(r, d) /\ d.dev = a.dev /\ d.tok = a.tok
      /\ Written(d) = Written(a)
  BY <1>1, <1>2, GoesOn DEF Insert, Places
<1>5. a.kind = "login" /\ a.rows = {}
  BY <1>3 DEF Shape, Placed, Wrote, RowPlaces, TokenRows
<1>6. Shape(d)
  <2>1. Placed(d) /\ Named(d)
    BY <1>3, <1>4, <1>5 DEF Shape, Placed, Named, Swept
  <2>2. Wrote(d)
    BY <1>3, <1>4, <1>5 DEF Shape, Wrote, RowPlaces, TokenRows, Writing, WritingTokens
  <2> QED BY <1>4, <2>1, <2>2 DEF Shape
<1>7. FitsAs(d)
  <2>1. Keeps(d) /\ Owns(d)
    BY <1>3, <1>4 DEF FitsAs, Keeps, Owns
  <2>2. Covers(d)
    BY <1>3, <1>4 DEF FitsAs, Covers, Writing
  <2>3. Takes(d)
    BY <1>3, <1>4, <1>5 DEF FitsAs, Takes, Scope
  <2>4. Settles(d)
    BY <1>1, <1>4, <1>5 DEF Settles, Insert, Clashing
  <2> QED BY <2>1, <2>2, <2>3, <2>4 DEF FitsAs
<1>8. \A q \in Requests \ {r} : ApartAs(d, req[q])
  <2> TAKE q \in Requests \ {r}
  <2>1. PICK b : b = req[q]
    OBVIOUS
  <2>2. ApartAs(a, b)
    BY <1>1, <2>1 DEF SessionInv, Apart
  <2>3. ~(Inserted(b) /\ b.dev = a.dev)
    BY <1>1, <2>1 DEF Insert, InsertWaitsFor, Inserted
  <2> QED BY <1>4, <1>5, <2>1, <2>2, <2>3 DEF ApartAs, SettingPassword, SetsPassword
<1> QED BY <1>3, <1>4, <1>6, <1>7, <1>8, QuietStep

\* A request whose transaction is rolled back.
LEMMA UndoneKeeps ==
  ASSUME SessionInv, NEW r \in Requests, NEW p \in {"failed", "conflict", "find"}, NEW d, d \in Request,
         d.pc = p, d.kind = req[r].kind, d.kind # "none", p # "failed" => d.kind = "login",
         d.ses = req[r].ses \/ (d.kind = "login" /\ d.ses = None), p = "find" => d.ses = None,
         d.tok = req[r].tok, d.dev = req[r].dev, d.rows = {}, d.wroteS = {}, d.wroteT = {},
         req' = [req EXCEPT ![r] = d], UNCHANGED <<committed, cached>>
  PROVE  SessionInv'
<1>1. PICK a : a = req[r]
  OBVIOUS
<1>2. Shape(a) /\ FitsAs(a) /\ cached \subseteq Sessions
  BY <1>1, RequestAt
<1>3. Placed(d) /\ Named(d) /\ ~SettingPassword(d) /\ d.pc \notin Writing \cup RowPlaces
  BY <1>1, <1>2 DEF Shape, Placed, Named, SettingPassword, SetsPassword, Swept, Writing, RowPlaces, TokenRows
<1>4. Owns(d)
  BY <1>1, <1>2 DEF FitsAs, Owns, Sessions
<1> QED BY <1>2, <1>3, <1>4, NothingWritten, NarrowerStep, Becoming DEF FitsAs

LEMMA InsertClashesKeeps ==
  ASSUME SessionInv, NEW r \in Requests, InsertClashes(r)
  PROVE  SessionInv'
<1>1. PICK a : a = req[r]
  OBVIOUS
<1>2. a \in Request /\ Shape(a) /\ a.pc = "insert" /\ a.kind = "login" /\ UNCHANGED <<committed, cached>>
  BY <1>1, RequestAt DEF InsertClashes, At, Shape, Placed
<1>3. CASE a.retried
  <2>1. PICK d : d = Undone(r, "conflict")
    OBVIOUS
  <2>2. /\ d \in Request /\ d.pc = "conflict" /\ d.kind = a.kind /\ d.ses = a.ses /\ d.tok = a.tok /\ d.dev = a.dev
        /\ d.rows = {} /\ d.wroteS = {} /\ d.wroteT = {}
    BY <1>1, <1>2, <2>1 DEF Undone, Request, Places
  <2>3. req' = [req EXCEPT ![r] = d]
    BY <1>1, <1>3, <2>1 DEF InsertClashes
  <2> QED BY <1>1, <1>2, <2>2, <2>3, UndoneKeeps
<1>4. CASE ~a.retried
  <2>1. PICK u : u = Undone(r, "find")
    OBVIOUS
  <2>2. PICK d : d = [u EXCEPT !.retried = TRUE, !.ses = None]
    OBVIOUS
  <2>3. /\ u \in Request /\ u.pc = "find" /\ u.kind = a.kind /\ u.tok = a.tok /\ u.dev = a.dev
        /\ u.rows = {} /\ u.wroteS = {} /\ u.wroteT = {}
    BY <1>1, <1>2, <2>1 DEF Undone, Request, Places
  <2>4. /\ d \in Request /\ d.pc = "find" /\ d.kind = a.kind /\ d.ses = None /\ d.tok = a.tok /\ d.dev = a.dev
        /\ d.rows = {} /\ d.wroteS = {} /\ d.wroteT = {}
    BY <2>2, <2>3 DEF Request
  <2>5. req' = [req EXCEPT ![r] = d]
    BY <1>1, <1>4, <2>1, <2>2 DEF InsertClashes
  <2> QED BY <1>1, <1>2, <2>4, <2>5, UndoneKeeps
<1> QED BY <1>3, <1>4

LEMMA FailKeeps ==
  ASSUME SessionInv, NEW r \in Requests, Fail(r)
  PROVE  SessionInv'
<1>1. PICK a : a = req[r]
  OBVIOUS
<1>2. a \in Request /\ Shape(a) /\ a.pc # "idle"
  BY <1>1, RequestAt DEF Fail
<1>3. PICK d : d = Undone(r, "failed")
  OBVIOUS
<1>4. /\ d \in Request /\ d.pc = "failed" /\ d.kind = a.kind /\ d.ses = a.ses /\ d.tok = a.tok /\ d.dev = a.dev
      /\ d.rows = {} /\ d.wroteS = {} /\ d.wroteT = {}
  BY <1>1, <1>2, <1>3 DEF Undone, Request, Places
<1>5. a.kind # "none"
  BY <1>2 DEF Shape, Placed
<1> QED BY <1>1, <1>3, <1>4, <1>5, UndoneKeeps DEF Fail
-----------------------------------------------------------------------------
(* The commits.                                                             *)

LEMMA OneMore ==
  ASSUME NEW max \in Nat, NEW k \in 0..max, k + 1 \in 1..max
  PROVE  InOrder((1..k) \cup {k + 1}, max)
<1>1. (1..k) \cup {k + 1} = 1..(k + 1)
  OBVIOUS
<1> QED BY <1>1 DEF InOrder

\* What a commit revokes: the sessions and the tokens its request has written.
LEMMA Revokes ==
  ASSUME SessionInv, NEW r \in Requests
  PROVE  /\ Revoked(r) \in [Sessions -> {"unborn", "live"} \cup SessionReasons]
         /\ \A s \in Sessions : s \notin req[r].wroteS => Revoked(r)[s] = session[s]
         /\ \A s \in Sessions : s \in req[r].wroteS => Live(s) /\ Revoked(r)[s] \in SessionReasons
         /\ Spent(r) \in [Tokens -> {"unborn", "live"} \cup TokenReasons]
         /\ \A t \in Tokens : t \notin Written(req[r]) => Spent(r)[t] = token[t]
         /\ \A t \in Tokens : t \in Written(req[r]) => token[t] = "live" /\ Spent(r)[t] \in TokenReasons
<1>1. PICK a : a = req[r]
  OBVIOUS
<1>2. /\ a \in Request /\ Shape(a) /\ Keeps(a) /\ TokensWritten(r) = Written(a)
      /\ session \in [Sessions -> {"unborn", "live"} \cup SessionReasons]
      /\ token \in [Tokens -> {"unborn", "live"} \cup TokenReasons]
  BY <1>1, RequestAt DEF TokensWritten, Written, FitsAs, SessionInv, Store, Typed
<1>3. a.wroteS # {} => a.kind \in Ending
  BY <1>2 DEF Shape, Placed, Wrote, Writing, Swept, Ending, Request
<1>4. \A s \in Sessions : s \in a.wroteS => SessionReason[a.kind] \in SessionReasons
  BY <1>3, ReasonsEnd
<1>5. \A t \in Tokens : t \in Written(a) => (CHOOSE w \in a.wroteT : w[1] = t)[2] \in TokenReasons
  <2> TAKE t \in Tokens
  <2> HAVE t \in Written(a)
  <2>1. \E w \in a.wroteT : w[1] = t
    BY DEF Written
  <2>2. (CHOOSE w \in a.wroteT : w[1] = t) \in a.wroteT
    BY <2>1
  <2> QED BY <2>2, <1>2 DEF Request
<1>6. /\ \A s \in Sessions : Revoked(r)[s] = IF s \in a.wroteS THEN SessionReason[a.kind] ELSE session[s]
      /\ Revoked(r) = [s \in Sessions |-> Revoked(r)[s]]
  BY <1>1 DEF Revoked
<1>7. /\ \A t \in Tokens : Spent(r)[t] = IF t \in Written(a) THEN (CHOOSE w \in a.wroteT : w[1] = t)[2] ELSE token[t]
      /\ Spent(r) = [t \in Tokens |-> Spent(r)[t]]
  BY <1>1, <1>2 DEF Spent
<1>8. Revoked(r) \in [Sessions -> {"unborn", "live"} \cup SessionReasons]
  BY <1>2, <1>4, <1>6
<1>9. Spent(r) \in [Tokens -> {"unborn", "live"} \cup TokenReasons]
  BY <1>2, <1>5, <1>7
<1> QED BY <1>1, <1>2, <1>4, <1>5, <1>6, <1>7, <1>8, <1>9 DEF Keeps

\* A request that has committed.
LEMMA FinishedShape ==
  ASSUME SessionInv, NEW r \in Requests, NEW p \in {"done", "issue"}, NEW s \in Sessions \cup {None},
         req[r].kind # "none", req[r].pc \in {"commit", "issue"},
         p = "issue" => req[r].kind = "login" /\ s \in Sessions,
         p = "done" => s = req[r].ses,
         req' = Finished(r, p, s)
  PROVE  \E d : /\ Becomes(r, d) /\ Shape(d)
                /\ d.kind = req[r].kind /\ d.pc = p /\ d.ses = s /\ d.tok = req[r].tok /\ d.dev = req[r].dev
                /\ d.rows = {} /\ d.wroteS = {} /\ d.wroteT = {} /\ Written(d) = {}
<1>1. PICK a : a = req[r]
  OBVIOUS
<1>2. PICK u : u = Undone(r, p)
  OBVIOUS
<1>3. PICK d : d = [u EXCEPT !.ses = s]
  OBVIOUS
<1>4. a \in Request /\ Shape(a)
  BY <1>1, RequestAt
<1>5. /\ u \in Request /\ u.pc = p /\ u.kind = a.kind /\ u.ses = a.ses /\ u.tok = a.tok /\ u.dev = a.dev
      /\ u.rows = {} /\ u.wroteS = {} /\ u.wroteT = {}
  BY <1>1, <1>2, <1>4 DEF Undone, Request, Places
<1>6. /\ d \in Request /\ d.pc = p /\ d.kind = a.kind /\ d.ses = s /\ d.tok = a.tok /\ d.dev = a.dev
      /\ d.rows = {} /\ d.wroteS = {} /\ d.wroteT = {}
  BY <1>3, <1>5 DEF Request
<1>7. req' = [req EXCEPT ![r] = d]
  BY <1>2, <1>3 DEF Finished
<1>8. Written(d) = {}
  BY <1>6 DEF Written
<1>9. Placed(d) /\ Named(d)
  BY <1>1, <1>4, <1>6 DEF Shape, Placed, Named, Swept
<1>10. Wrote(d)
  BY <1>6, <1>8 DEF Wrote
<1>11. Becomes(r, d)
  BY <1>6, <1>7, Becoming
<1> QED BY <1>1, <1>6, <1>8, <1>9, <1>10, <1>11 DEF Shape

\* A request that is done, or about to issue a token of a session of its own.
LEMMA FinishedApart ==
  ASSUME NEW d, NEW b, d.wroteS = {}, Written(d) = {}, d.pc \in {"done", "issue"},
         d.pc = "issue" /\ b.pc = "issue" => d.ses # b.ses
  PROVE  ApartAs(d, b)
BY DEF ApartAs, SettingPassword, Swept, Inserted

BornSessions == {s \in Sessions : Born(s)}
BornTokens == {t \in Tokens : token[t] # "unborn"}

LEMMA CommitLoginKeeps ==
  ASSUME SessionInv, NEW r \in Requests, CommitLogin(r)
  PROVE  SessionInv'
<1>1. PICK a : a = req[r]
  OBVIOUS
<1>2. PICK s : s = NextSession
  OBVIOUS
<1>3. /\ a \in Request /\ Shape(a) /\ FitsAs(a) /\ a.pc = "commit" /\ a.kind = "login" /\ s \in Sessions
      /\ session' = [Revoked(r) EXCEPT ![s] = "live"] /\ deviceOf' = [deviceOf EXCEPT ![s] = a.dev]
      /\ pwOf' = [pwOf EXCEPT ![s] = a.saw] /\ late' \subseteq late \cup {s} /\ token' = Spent(r)
      /\ tokenOf' = tokenOf /\ password' = password /\ cached' = cached /\ req' = Finished(r, "issue", s)
  BY <1>1, <1>2, RequestAt DEF CommitLogin, At
<1>4. Store /\ Typed /\ a.dev \in Devices /\ a.saw \in Nat
  BY <1>3 DEF SessionInv, Store, Shape, Named, Request
<1>5. PICK k \in 0..MaxSessions : BornSessions = 1..k /\ s = k + 1
  BY <1>2, <1>4, NextInOrder DEF Store, NextSession, BornSessions
<1>6. ~Born(s) /\ s \notin a.wroteS
  <2>1. s \notin 1..k
    BY <1>5
  <2> QED BY <1>1, <1>3, <1>5, <2>1, Revokes DEF BornSessions, Live, Born
<1>7. /\ session'[s] = "live" /\ deviceOf'[s] = a.dev /\ session \in [Sessions -> {"unborn", "live"} \cup SessionReasons]
      /\ \A u \in Sessions \ {s} : session'[u] = Revoked(r)[u] /\ deviceOf'[u] = deviceOf[u]
  BY <1>3, <1>4, Revokes DEF Typed
<1>8. \A u \in Sessions \ {s} :
        /\ u \notin a.wroteS => session'[u] = session[u]
        /\ u \in a.wroteS => Live(u) /\ session'[u] \in SessionReasons
  BY <1>1, <1>7, Revokes
<1>9. \A t \in Tokens : /\ t \notin Written(a) => token'[t] = token[t]
                        /\ t \in Written(a) => token[t] = "live" /\ token'[t] \in TokenReasons
  BY <1>1, <1>3, Revokes
<1>10. \A t \in Tokens : /\ token'[t] # "unborn" <=> token[t] # "unborn"
                         /\ token'[t] = "live" => token[t] = "live"
  BY <1>9, ReasonsEnd
<1>11. \A u \in Sessions \ {s} : /\ session'[u] # "unborn" <=> Born(u)
                                 /\ session'[u] = "live" => Live(u) /\ u \notin a.wroteS
  BY <1>8, ReasonsEnd DEF Born, Live
<1>12. PICK d : /\ Becomes(r, d) /\ Shape(d) /\ d.kind = "login" /\ d.pc = "issue" /\ d.ses = s /\ d.dev = a.dev
                /\ d.rows = {} /\ d.wroteS = {} /\ d.wroteT = {} /\ Written(d) = {}
  BY <1>1, <1>3, FinishedShape
<1>13. Moves(req[r])
  BY <1>1, <1>3, <1>6, <1>7, <1>8, <1>9 DEF Moves, Born
<1>14. Bears(r)
  BY <1>1, <1>3, <1>7, <1>10, <1>11 DEF Bears, Inserted, Live, Born
<1>15. Fits(r)'
  <2>1. \A t \in Tokens : token'[t] # "unborn" => tokenOf'[t] # s
    BY <1>3, <1>4, <1>6, <1>10 DEF Store
  <2>2. Keeps(d)' /\ Covers(d)' /\ Takes(d)'
    BY <1>12 DEF Keeps, Covers, Takes, Writing
  <2>3. Owns(d)' /\ Settles(d)'
    BY <1>7, <1>12, <2>1 DEF Owns, Settles, Born
  <2> QED BY <1>12, <2>2, <2>3 DEF Becomes, Fits, FitsAs, Keeps, Owns, Covers, Takes, Settles, Live, Born, Written, Scope
<1>16. \A q \in Requests \ {r} : ApartAs(d, req[q])
  <2> TAKE q \in Requests \ {r}
  <2>1. PICK b : b = req[q]
    OBVIOUS
  <2>2. b.pc = "issue" => b.ses \in Sessions /\ Born(b.ses)
    BY <2>1, RequestAt DEF Shape, Placed, Named, FitsAs, Owns
  <2>3. b.pc = "issue" => d.ses # b.ses
    BY <1>6, <1>12, <2>2
  <2> QED BY <1>12, <2>1, <2>3, FinishedApart
<1>17. Store'
  <2>1. Typed'
    BY <1>3, <1>4, Revokes DEF Typed
  <2>2. InOrder({u \in Sessions : Born(u)}, MaxSessions)'
    <3>1. {u \in Sessions : session'[u] # "unborn"} = (1..k) \cup {k + 1}
      BY <1>3, <1>5, <1>7, <1>11 DEF BornSessions
    <3>2. k + 1 \in 1..MaxSessions
      BY <1>3, <1>5 DEF Sessions
    <3> QED BY <3>1, <3>2, OneMore DEF Born, InOrder
  <2>3. InOrder({t \in Tokens : token[t] # "unborn"}, MaxTokens)'
    <3>1. {t \in Tokens : token'[t] # "unborn"} = {t \in Tokens : token[t] # "unborn"}
      BY <1>10
    <3> QED BY <1>4, <3>1 DEF Store, InOrder
  <2>4. \A t \in Tokens : token'[t] # "unborn" => tokenOf'[t] \in Sessions /\ session'[tokenOf'[t]] # "unborn"
    BY <1>3, <1>4, <1>6, <1>10, <1>11 DEF Store
  <2>5. OneLivePerDevice'
    <3> SUFFICES ASSUME NEW u \in Sessions, NEW v \in Sessions, session'[u] = "live", session'[v] = "live",
                        deviceOf'[u] = deviceOf'[v]
                 PROVE  u = v
      BY DEF OneLivePerDevice, Live
    <3>1. CASE u = s \/ v = s
      BY <3>1, <1>3, <1>7, <1>11 DEF FitsAs, Settles
    <3>2. CASE u # s /\ v # s
      BY <3>2, <1>4, <1>7, <1>11 DEF Store, OneLivePerDevice
    <3> QED BY <3>1, <3>2
  <2>6. OneLiveToken'
    BY <1>3, <1>4, <1>10 DEF Store, OneLiveToken
  <2> QED BY <2>1, <2>2, <2>3, <2>4, <2>5, <2>6 DEF Store, Born
<1> QED BY <1>12, <1>13, <1>14, <1>15, <1>16, <1>17, CommitStep

\* A token is born of the session ss, which has no other that lives.
TokenBirth(a, ss, t) ==
  /\ session' = session /\ deviceOf' = deviceOf /\ pwOf' = pwOf /\ late' = late
  /\ password' = password /\ cached' = cached
  /\ tokenOf' = [tokenOf EXCEPT ![t] = ss]
  /\ token' \in [Tokens -> {"unborn", "live"} \cup TokenReasons] /\ token'[t] = "live"
  /\ \A u \in Tokens \ {t} :
       /\ u \notin Written(a) => token'[u] = token[u]
       /\ u \in Written(a) => token[u] = "live" /\ token'[u] \in TokenReasons
       /\ token'[u] = "live" => tokenOf[u] # ss

LEMMA TokenIsBorn ==
  ASSUME SessionInv, NEW a \in Request, NEW ss \in Sessions, Born(ss), NEW t \in Tokens, t = NextToken,
         TokenBirth(a, ss, t)
  PROVE  /\ Store' /\ Moves(a) /\ token[t] = "unborn"
         /\ \A u \in Tokens : token[u] = "unborn" /\ token'[u] = "live" => u = t
         /\ \A u \in Tokens : token[u] # "unborn" => token'[u] # "unborn" /\ tokenOf'[u] = tokenOf[u]
<1> USE DEF TokenBirth
<1>1. Store /\ Typed
  BY DEF SessionInv, Store
<1>2. PICK k \in 0..MaxTokens : BornTokens = 1..k /\ t = k + 1
  BY <1>1, NextInOrder DEF Store, NextToken, BornTokens
<1>3. token[t] = "unborn"
  <2>1. t \notin 1..k
    BY <1>2
  <2> QED BY <1>2, <2>1 DEF BornTokens
<1>4. tokenOf'[t] = ss /\ \A u \in Tokens \ {t} : tokenOf'[u] = tokenOf[u]
  BY <1>1 DEF Typed
<1>5. \A u \in Tokens \ {t} : /\ token'[u] # "unborn" <=> token[u] # "unborn"
                              /\ token'[u] = "live" => token[u] = "live"
  BY ReasonsEnd
<1>6. Moves(a)
  BY <1>3, <1>4 DEF Moves
<1>7. Store'
  <2>1. Typed'
    BY <1>1 DEF Typed
  <2>2. InOrder({u \in Tokens : token[u] # "unborn"}, MaxTokens)'
    <3>1. {u \in Tokens : token'[u] # "unborn"} = (1..k) \cup {k + 1}
      BY <1>2, <1>5 DEF BornTokens
    <3>2. k + 1 \in 1..MaxTokens
      BY <1>2 DEF Tokens
    <3> QED BY <3>1, <3>2, OneMore DEF InOrder
  <2>3. InOrder({s \in Sessions : Born(s)}, MaxSessions)' /\ OneLivePerDevice'
    BY <1>1 DEF Store, InOrder, OneLivePerDevice, Live, Born
  <2>4. \A u \in Tokens : token'[u] # "unborn" => tokenOf'[u] \in Sessions /\ session'[tokenOf'[u]] # "unborn"
    BY <1>1, <1>4, <1>5 DEF Store, Born
  <2>5. OneLiveToken'
    BY <1>1, <1>4, <1>5 DEF Store, OneLiveToken
  <2> QED BY <2>1, <2>2, <2>3, <2>4, <2>5 DEF Store, Born
<1> QED BY <1>3, <1>4, <1>5, <1>6, <1>7

LEMMA CommitRotateKeeps ==
  ASSUME SessionInv, NEW r \in Requests, CommitRotate(r)
  PROVE  SessionInv'
<1>1. PICK a : a = req[r]
  OBVIOUS
<1>2. PICK t : t = NextToken
  OBVIOUS
<1>3. /\ a \in Request /\ Shape(a) /\ FitsAs(a) /\ a.pc = "commit" /\ a.kind = "refresh" /\ t \in Tokens
      /\ token' = [Spent(r) EXCEPT ![t] = "live"] /\ tokenOf' = [tokenOf EXCEPT ![t] = a.ses]
      /\ req' = Finished(r, "done", a.ses)
      /\ session' = session /\ deviceOf' = deviceOf /\ pwOf' = pwOf /\ late' = late
      /\ password' = password /\ cached' = cached
  BY <1>1, <1>2, RequestAt DEF CommitRotate, At, sessionVars
<1>4. /\ a.ses \in Sessions /\ Born(a.ses) /\ a.tok \in Tokens /\ Written(a) = {a.tok} /\ token[a.tok] = "live"
      /\ tokenOf[a.tok] = a.ses
  BY <1>3 DEF Shape, Named, Wrote, FitsAs, Keeps, Owns
<1>5. token' \in [Tokens -> {"unborn", "live"} \cup TokenReasons] /\ token'[t] = "live"
  BY <1>3, Revokes
<1>6. \A u \in Tokens \ {t} :
         /\ u \notin Written(a) => token'[u] = token[u]
         /\ u \in Written(a) => token[u] = "live" /\ token'[u] \in TokenReasons
  BY <1>1, <1>3, Revokes
<1>7. \A u \in Tokens \ {t} : token'[u] = "live" => tokenOf[u] # a.ses
  BY <1>4, <1>6, ReasonsEnd DEF SessionInv, Store, OneLiveToken
<1>8. /\ Store' /\ Moves(a) /\ token[t] = "unborn"
      /\ \A u \in Tokens : token[u] = "unborn" /\ token'[u] = "live" => u = t
      /\ \A u \in Tokens : token[u] # "unborn" => token'[u] # "unborn" /\ tokenOf'[u] = tokenOf[u]
  <2>1. TokenBirth(a, a.ses, t)
    BY <1>3, <1>5, <1>6, <1>7 DEF TokenBirth
  <2> QED BY <1>2, <1>3, <1>4, <2>1, TokenIsBorn
<1>9. PICK d : /\ Becomes(r, d) /\ Shape(d) /\ d.kind = "refresh" /\ d.pc = "done" /\ d.ses = a.ses /\ d.tok = a.tok
               /\ d.rows = {} /\ d.wroteS = {} /\ d.wroteT = {} /\ Written(d) = {}
  BY <1>1, <1>3, <1>4, FinishedShape
<1>10. Fits(r)'
  <2>1. Keeps(d)' /\ Covers(d)' /\ Takes(d)' /\ Settles(d)'
    BY <1>9 DEF Keeps, Covers, Takes, Settles, Writing
  <2>2. Owns(d)'
    BY <1>3, <1>4, <1>8, <1>9 DEF Owns, Born
  <2> QED BY <1>9, <2>1, <2>2 DEF Becomes, Fits, FitsAs, Keeps, Owns, Covers, Takes, Settles, Live, Born, Written, Scope
<1>11. \A q \in Requests \ {r} : ApartAs(d, req[q])
  BY <1>9, FinishedApart
<1>12. Bears(r)
  <2>1. \A q \in Requests : req[q].pc = "issue" => a.ses # req[q].ses
    BY <1>4 DEF SessionInv, Fits, FitsAs, Settles
  <2>2. tokenOf'[t] = a.ses
    BY <1>3 DEF SessionInv, Store, Typed
  <2>3. \A s \in Sessions : ~Born(s) => session'[s] # "live"
    BY <1>3 DEF Born
  <2> QED BY <1>8, <2>1, <2>2, <2>3 DEF Bears
<1> QED BY <1>1, <1>8, <1>9, <1>10, <1>11, <1>12, CommitStep

LEMMA IssueKeeps ==
  ASSUME SessionInv, NEW r \in Requests, Issue(r)
  PROVE  SessionInv'
<1>1. PICK a : a = req[r]
  OBVIOUS
<1>2. PICK t : t = NextToken
  OBVIOUS
<1>3. /\ a \in Request /\ Shape(a) /\ FitsAs(a) /\ a.pc = "issue" /\ t \in Tokens
      /\ token' = [token EXCEPT ![t] = "live"] /\ tokenOf' = [tokenOf EXCEPT ![t] = a.ses]
      /\ Go(r, "done")
      /\ session' = session /\ deviceOf' = deviceOf /\ pwOf' = pwOf /\ late' = late
      /\ password' = password /\ cached' = cached
  BY <1>1, <1>2, RequestAt DEF Issue, At, sessionVars
<1>4. a.kind = "login" /\ a.ses \in Sessions /\ Born(a.ses) /\ Written(a) = {}
  BY <1>3 DEF Shape, Placed, Named, Wrote, FitsAs, Owns, Written, WritingTokens, Writing
<1>5. token' \in [Tokens -> {"unborn", "live"} \cup TokenReasons] /\ token'[t] = "live"
  BY <1>3 DEF SessionInv, Store, Typed
<1>6. \A u \in Tokens \ {t} : token'[u] = token[u] /\ (token'[u] = "live" => tokenOf[u] # a.ses)
  BY <1>3 DEF SessionInv, Store, Typed, FitsAs, Settles
<1>7. /\ Store' /\ Moves(a) /\ token[t] = "unborn"
      /\ \A u \in Tokens : token[u] = "unborn" /\ token'[u] = "live" => u = t
      /\ \A u \in Tokens : token[u] # "unborn" => token'[u] # "unborn" /\ tokenOf'[u] = tokenOf[u]
  <2>1. TokenBirth(a, a.ses, t)
    BY <1>3, <1>4, <1>5, <1>6 DEF TokenBirth
  <2> QED BY <1>2, <1>3, <1>4, <2>1, TokenIsBorn
<1>8. PICK d : d = [req[r] EXCEPT !.pc = "done"]
  OBVIOUS
<1>9. /\ d \in Request /\ d.pc = "done" /\ d.kind = a.kind /\ d.ses = a.ses /\ d.rows = a.rows
      /\ d.wroteS = a.wroteS /\ d.wroteT = a.wroteT /\ Becomes(r, d) /\ d.dev = a.dev /\ d.tok = a.tok
      /\ Written(d) = Written(a)
  BY <1>1, <1>3, <1>8, GoesOn DEF Places
<1>10. d.rows = {} /\ d.wroteS = {} /\ d.wroteT = {}
  BY <1>3, <1>9 DEF Shape, Wrote, RowPlaces, TokenRows, Writing, WritingTokens
<1>11. Shape(d)
  <2>1. Placed(d) /\ Named(d)
    BY <1>3, <1>4, <1>9 DEF Shape, Placed, Named, Swept
  <2>2. Wrote(d)
    BY <1>4, <1>9, <1>10 DEF Wrote
  <2> QED BY <1>9, <2>1, <2>2 DEF Shape
<1>12. Fits(r)'
  <2>1. Keeps(d)' /\ Covers(d)' /\ Takes(d)' /\ Settles(d)'
    BY <1>4, <1>9, <1>10 DEF Keeps, Covers, Takes, Settles, Writing
  <2>2. Owns(d)'
    BY <1>3, <1>4, <1>9 DEF Owns, Born, FitsAs
  <2> QED BY <1>9, <2>1, <2>2 DEF Becomes, Fits, FitsAs, Keeps, Owns, Covers, Takes, Settles, Live, Born, Written, Scope
<1>13. \A q \in Requests \ {r} : ApartAs(d, req[q])
  BY <1>4, <1>9, <1>10, FinishedApart
<1>14. Bears(r)
  <2>1. \A q \in Requests \ {r} : req[q].pc = "issue" => a.ses # req[q].ses
    BY <1>1, <1>3 DEF SessionInv, Apart, ApartAs
  <2>2. tokenOf'[t] = a.ses
    BY <1>3 DEF SessionInv, Store, Typed
  <2>3. \A s \in Sessions : ~Born(s) => session'[s] # "live"
    BY <1>3 DEF Born
  <2> QED BY <1>7, <2>1, <2>2, <2>3 DEF Bears
<1> QED BY <1>1, <1>7, <1>9, <1>11, <1>12, <1>13, <1>14, CommitStep

LEMMA CommitEndingKeeps ==
  ASSUME SessionInv, NEW r \in Requests, CommitEnding(r)
  PROVE  SessionInv'
<1>1. PICK a : a = req[r]
  OBVIOUS
<1>2. /\ a \in Request /\ Shape(a) /\ FitsAs(a) /\ a.pc = "commit" /\ a.kind \notin {"login", "refresh"}
      /\ session' = Revoked(r) /\ token' = Spent(r) /\ deviceOf' = deviceOf /\ late' = late /\ tokenOf' = tokenOf
      /\ password' \in {password, password + 1}
      /\ pwOf' = IF a.kind = "change" THEN [pwOf EXCEPT ![a.ses] = password + 1] ELSE pwOf
      /\ cached' = cached /\ req' = Finished(r, "done", a.ses)
  BY <1>1, RequestAt DEF CommitEnding, At
<1>3. Store /\ Typed /\ a.ses \in Sessions \cup {None}
  BY <1>2 DEF SessionInv, Store, Request
<1>4. \A s \in Sessions : /\ s \notin a.wroteS => session'[s] = session[s]
                          /\ s \in a.wroteS => Live(s) /\ session'[s] \in SessionReasons
  BY <1>1, <1>2, Revokes
<1>5. \A t \in Tokens : /\ t \notin Written(a) => token'[t] = token[t]
                        /\ t \in Written(a) => token[t] = "live" /\ token'[t] \in TokenReasons
  BY <1>1, <1>2, Revokes
<1>6. /\ \A s \in Sessions : (session'[s] # "unborn" <=> Born(s)) /\ (session'[s] = "live" => Live(s))
      /\ \A t \in Tokens : (token'[t] # "unborn" <=> token[t] # "unborn") /\ (token'[t] = "live" => token[t] = "live")
  BY <1>4, <1>5, ReasonsEnd DEF Born, Live
<1>7. PICK d : /\ Becomes(r, d) /\ Shape(d) /\ d.kind = a.kind /\ d.pc = "done" /\ d.ses = a.ses
               /\ d.rows = {} /\ d.wroteS = {} /\ d.wroteT = {} /\ Written(d) = {}
  <2>1. a.kind # "none"
    BY <1>2 DEF Shape, Placed
  <2>2. /\ req[r].kind # "none" /\ req[r].pc = "commit" /\ req[r].ses \in Sessions \cup {None}
        /\ req' = Finished(r, "done", req[r].ses)
    BY <1>1, <1>2, <1>3, <2>1
  <2> QED BY <1>1, <2>2, FinishedShape
<1>8. Moves(req[r]) /\ Bears(r)
  BY <1>1, <1>2, <1>4, <1>5, <1>6 DEF Moves, Bears, Born, Live
<1>9. Fits(r)'
  <2>1. Keeps(d)' /\ Covers(d)' /\ Takes(d)'
    BY <1>7 DEF Keeps, Covers, Takes, Writing
  <2>2. Owns(d)'
    BY <1>2, <1>6, <1>7 DEF Owns, Born, FitsAs
  <2>3. Settles(d)'
    <3>1. a.kind = "reuse" => session'[a.ses] \in SessionReasons
      <4> SUFFICES ASSUME a.kind = "reuse" PROVE session'[a.ses] \in SessionReasons
        OBVIOUS
      <4>1. a.ses \in Sessions /\ Born(a.ses) /\ (Live(a.ses) => a.ses \in a.wroteS)
        BY <1>2 DEF Shape, Named, FitsAs, Owns, Covers, Alone, Writing
      <4>2. session[a.ses] \in {"unborn", "live"} \cup SessionReasons
        BY <1>3, <4>1 DEF Typed
      <4> QED BY <1>4, <4>1, <4>2 DEF Born, Live
    <3> QED BY <1>7, <1>2, <3>1 DEF Settles
  <2> QED BY <1>7, <2>1, <2>2, <2>3 DEF Becomes, Fits, FitsAs, Keeps, Owns, Covers, Takes, Settles, Live, Born, Written, Scope
<1>10. \A q \in Requests \ {r} : ApartAs(d, req[q])
  BY <1>7, FinishedApart
<1>11. Store'
  <2>1. Typed'
    <3>1. password' \in Nat /\ pwOf' \in [Sessions -> Nat]
      <4>1. password \in Nat /\ password + 1 \in Nat /\ password' \in Nat /\ pwOf \in [Sessions -> Nat]
        BY <1>2, <1>3 DEF Typed
      <4>2. CASE a.kind = "change"
        BY <1>2, <4>1, <4>2
      <4>3. CASE a.kind # "change"
        BY <1>2, <4>1, <4>3
      <4> QED BY <4>2, <4>3, <4>1
    <3>2. session' \in [Sessions -> {"unborn", "live"} \cup SessionReasons]
      BY <1>2, Revokes
    <3>3. token' \in [Tokens -> {"unborn", "live"} \cup TokenReasons]
      BY <1>2, Revokes
    <3> QED BY <1>2, <1>3, <3>1, <3>2, <3>3 DEF Typed
  <2>2. InOrder({u \in Sessions : Born(u)}, MaxSessions)'
    <3>1. {u \in Sessions : session'[u] # "unborn"} = {u \in Sessions : session[u] # "unborn"}
      BY <1>6 DEF Born
    <3> QED BY <1>3, <3>1 DEF Store, Born, InOrder
  <2>3. InOrder({t \in Tokens : token[t] # "unborn"}, MaxTokens)'
    <3>1. {t \in Tokens : token'[t] # "unborn"} = {t \in Tokens : token[t] # "unborn"}
      BY <1>6
    <3> QED BY <1>3, <3>1 DEF Store, InOrder
  <2>4. \A t \in Tokens : token'[t] # "unborn" => tokenOf'[t] \in Sessions /\ session'[tokenOf'[t]] # "unborn"
    BY <1>2, <1>3, <1>6 DEF Store
  <2>5. OneLivePerDevice'
    BY <1>2, <1>3, <1>6 DEF Store, OneLivePerDevice, Live
  <2>6. OneLiveToken'
    BY <1>2, <1>3, <1>6 DEF Store, OneLiveToken
  <2> QED BY <2>1, <2>2, <2>3, <2>4, <2>5, <2>6 DEF Store, Born
<1> QED BY <1>7, <1>8, <1>9, <1>10, <1>11, CommitStep
-----------------------------------------------------------------------------
(* The invariant, and what follows from it alone.                           *)

LEMMA StepKeeps ==
  ASSUME SessionInv, NEW r \in Requests, Step(r)
  PROVE  SessionInv'
BY SetCredentialKeeps, ValidateKeeps, FindKeeps, PickSessionsKeeps, SessionsDoneKeeps, LockSessionKeeps,
   PickTokensKeeps, TokensDoneKeeps, LockTokenKeeps, InsertKeeps, InsertClashesKeeps, CommitLoginKeeps,
   CommitRotateKeeps, CommitEndingKeeps, IssueKeeps
   DEF Step

\* Entries of the cache that go.
LEMMA ForgetKeeps ==
  ASSUME SessionInv, UNCHANGED vars \/ \E s \in Sessions : Forget(s)
  PROVE  SessionInv'
<1>1. /\ UNCHANGED <<session, deviceOf, pwOf, late, token, tokenOf, password, req>>
      /\ cached' \subseteq cached
  BY DEF Forget, committed, sessionVars, tokenVars, vars
<1>2. Store'
  BY <1>1 DEF SessionInv, Store, Typed, OneLivePerDevice, OneLiveToken, Live, Born, InOrder
<1>3. \A q \in Requests : Fits(q)'
  <2> TAKE q \in Requests
  <2>1. Fits(q)
    BY DEF SessionInv
  <2> QED BY <1>1, <2>1 DEF Fits, FitsAs, Keeps, Owns, Covers, Takes, Settles, Live, Born, Written, Scope
<1>4. (\A q \in Requests : Shape(req[q]))'
  BY <1>1 DEF SessionInv
<1>5. \A p \in Requests : \A q \in Requests \ {p} : Apart(p, q)'
  BY <1>1 DEF SessionInv, Apart
<1> QED BY <1>1, <1>2, <1>3, <1>4, <1>5 DEF SessionInv

LEMMA InitKeeps == Init => SessionInv
<1> SUFFICES ASSUME Init PROVE SessionInv
  OBVIOUS
<1>1. /\ Idle \in Request /\ Idle.pc = "idle" /\ Idle.kind = "none" /\ Idle.ses = None
      /\ Idle.rows = {} /\ Idle.wroteS = {} /\ Idle.wroteT = {}
  BY DEF Idle, Request, Places
<1>2. Placed(Idle) /\ Named(Idle) /\ ~SettingPassword(Idle)
  BY <1>1 DEF Placed, Named, SettingPassword, SetsPassword, Swept
<1>3. /\ Shape(Idle) /\ Keeps(Idle) /\ Takes(Idle) /\ Settles(Idle) /\ Covers(Idle)
      /\ \A a : Narrower(Idle, a)
  BY <1>1, <1>2, NothingWritten DEF RowPlaces, TokenRows, Writing
<1>4. Owns(Idle)
  BY <1>1 DEF Owns, Sessions
<1>5. req = [r \in Requests |-> Idle]
  BY DEF Init
<1>6. \A r \in Requests : Fits(r)
  BY <1>3, <1>4, <1>5 DEF Fits, FitsAs
<1>7. \A r \in Requests : \A q \in Requests \ {r} : Apart(r, q)
  <2>1. ApartAs(Idle, Idle)
    BY <1>1 DEF ApartAs, Written, SettingPassword, Swept, Inserted
  <2> QED BY <1>5, <2>1 DEF Apart
<1>8. Store
  <2>1. PICK d \in Devices :
          /\ session = [s \in Sessions |-> IF s = 1 THEN "live" ELSE "unborn"]
          /\ deviceOf = [s \in Sessions |-> IF s = 1 THEN d ELSE None]
          /\ token = [t \in Tokens |-> IF t = 1 THEN "live" ELSE "unborn"]
          /\ tokenOf = [t \in Tokens |-> IF t = 1 THEN 1 ELSE None]
          /\ cached = {} /\ password = 0 /\ pwOf = [s \in Sessions |-> 0] /\ late = {}
    BY DEF Init
  <2>2. 1 \in Sessions /\ 1 \in Tokens
    BY DEF Sessions, Tokens
  <2>3. Typed
    BY <2>1, <2>2 DEF Typed
  <2>4. InOrder({s \in Sessions : Born(s)}, MaxSessions)
    <3>1. {s \in Sessions : Born(s)} = 1..1 /\ 1 \in 0..MaxSessions
      BY <2>1, <2>2 DEF Born
    <3> QED BY <3>1 DEF InOrder
  <2>5. InOrder({t \in Tokens : token[t] # "unborn"}, MaxTokens)
    <3>1. {t \in Tokens : token[t] # "unborn"} = 1..1 /\ 1 \in 0..MaxTokens
      BY <2>1, <2>2
    <3> QED BY <3>1 DEF InOrder
  <2>6. \A t \in Tokens : token[t] # "unborn" => tokenOf[t] \in Sessions /\ Born(tokenOf[t])
    BY <2>1, <2>2 DEF Born
  <2>7. OneLivePerDevice /\ OneLiveToken
    BY <2>1 DEF OneLivePerDevice, OneLiveToken, Live
  <2> QED BY <2>3, <2>4, <2>5, <2>6, <2>7 DEF Store
<1> QED BY <1>1, <1>3, <1>5, <1>6, <1>7, <1>8 DEF SessionInv

\* The inductive invariant: what a transaction has written is its own and
\* still as it found it, and what is committed is one live session a device
\* and one live token a session.
THEOREM SessionsHold == Spec => []SessionInv
<1>1. SessionInv /\ [Next]_vars => SessionInv'
  <2> SUFFICES ASSUME SessionInv, [Next]_vars PROVE SessionInv'
    OBVIOUS
  <2>1. ASSUME NEW r \in Requests, Start(r) PROVE SessionInv'
    BY <2>1, StartLoginKeeps, StartRefreshKeeps, StartEndingKeeps DEF Start
  <2> QED BY <2>1, StepKeeps, FailKeeps, ForgetKeeps DEF Next
<1> QED BY <1>1, InitKeeps, PTL DEF Spec

\* Sessions, tokens and requests keep their types.
THEOREM SessionTypes == Spec => []TypeOK
<1>1. SessionInv => TypeOK
  BY DEF SessionInv, Store, Typed, Shape, Named, TypeOK
<1> QED BY <1>1, SessionsHold, PTL

\* However many tabs present one refresh token, its session has one that
\* lives (rotate, revokeAllForSessions).
THEOREM RotatedOnce == Spec => []OneLiveToken
<1>1. SessionInv => OneLiveToken
  BY DEF SessionInv, Store
<1> QED BY <1>1, SessionsHold, PTL

\* Once the reuse of a token is dealt with its session is over
\* (revokeReusedSession).
THEOREM ReplayCostsTheSession == Spec => []ReuseEndsSession
<1>1. SessionInv => ReuseEndsSession
  BY DEF SessionInv, Fits, FitsAs, Settles, ReuseEndsSession, At
<1> QED BY <1>1, SessionsHold, PTL
-----------------------------------------------------------------------------
(* Waiting.  A transaction that locks sessions before tokens holds, while   *)
(* it waits, only what those it waits for have passed.                      *)

WaitsAs(a, b, w) ==
  \/ a.pc = "sessionRows" /\ a.rows \cap b.wroteS # {}
  \/ a.pc \in TokenRows /\ a.rows \cap Written(b) # {}
  \/ a.pc = "insert" /\ (b.wroteS \cap w # {} \/ Inserted(b))
  \/ a.pc = "credential" /\ SettingPassword(b)

\* Two requests, one that waits for the other, and neither of a reused token.
Waiting(r, a, q, b) ==
  /\ r \in Requests /\ q \in Requests \ {r} /\ a = req[r] /\ b = req[q]
  /\ WaitsAs(a, b, Clashing(r)) /\ a.kind # "reuse" /\ b.kind # "reuse"

LEMMA Waits ==
  ASSUME SessionInv, NEW r, NEW a, NEW q, NEW b, Waiting(r, a, q, b)
  PROVE  /\ Shape(a) /\ FitsAs(a) /\ Shape(b) /\ FitsAs(b) /\ ApartAs(a, b)
         /\ \A s \in Clashing(r) : s \in Sessions /\ Live(s) /\ deviceOf[s] = a.dev /\ s \notin a.wroteS
BY DEF Waiting, SessionInv, Apart, Fits, Clashing

\* A sign-in that has ended its device's session waits for no other's.
LEMMA EndedItsOwn ==
  ASSUME SessionInv, NEW r, NEW a, NEW q, NEW b, Waiting(r, a, q, b), a.pc = "insert", a.wroteS # {}
  PROVE  Clashing(r) = {}
<1>1. /\ Shape(a) /\ FitsAs(a)
      /\ \A s \in Clashing(r) : s \in Sessions /\ Live(s) /\ deviceOf[s] = a.dev /\ s \notin a.wroteS
  BY Waits
<1>2. a.kind = "login" /\ a.wroteS \subseteq Sessions /\ a.wroteS \subseteq {a.ses}
  BY <1>1 DEF Shape, Placed, Wrote, Sweeping, Request
<1>3. a.wroteS = {a.ses} /\ a.ses \in Sessions /\ Live(a.ses) /\ deviceOf[a.ses] = a.dev
  BY <1>1, <1>2 DEF FitsAs, Keeps, Owns
<1> QED BY <1>1, <1>3 DEF SessionInv, Store, OneLivePerDevice

LEMMA AtSessions ==
  ASSUME SessionInv, NEW r, NEW a, NEW q, NEW b, Waiting(r, a, q, b), Waiting(q, b, r, a),
         a.pc = "sessionRows"
  PROVE  {a.kind, b.kind} \subseteq Sweeping /\ "others" \in {a.kind, b.kind}
<1>1. Shape(a) /\ Shape(b) /\ ApartAs(a, b)
  BY Waits
<1>2. a.rows \cap b.wroteS # {} /\ Written(a) = {} /\ ~Inserted(a)
  BY <1>1 DEF Waiting, WaitsAs, Shape, Wrote, Written, TokenRows, Inserted
<1>3. b.pc # "insert"
  BY <1>2, EndedItsOwn DEF Waiting, WaitsAs, TokenRows
<1>4. b.pc # "credential"
  BY <1>1, <1>2 DEF Shape, Wrote, Writing
<1>5. b.pc = "sessionRows" /\ b.rows \cap a.wroteS # {}
  BY <1>2, <1>3, <1>4 DEF Waiting, WaitsAs
<1>6. a.kind \in Sweeping /\ b.kind \in Sweeping
  BY <1>1, <1>2, <1>5 DEF Shape, Wrote
<1>7. ~(a.kind \in SetsPassword /\ b.kind \in SetsPassword)
  BY <1>1, <1>5 DEF ApartAs, SettingPassword, Swept
<1> QED BY <1>6, <1>7 DEF Sweeping, SetsPassword

LEMMA AtTokens ==
  ASSUME SessionInv, NEW r, NEW a, NEW q, NEW b, Waiting(r, a, q, b), Waiting(q, b, r, a),
         a.pc \in TokenRows, b.pc # "sessionRows"
  PROVE  FALSE
<1>1. Shape(a) /\ Shape(b) /\ FitsAs(a) /\ FitsAs(b) /\ ApartAs(a, b)
  BY Waits
<1>2. PICK t \in a.rows : t \in Written(b)
  BY DEF Waiting, WaitsAs, TokenRows
<1>3. a.kind # "reuse" /\ b.kind # "reuse" /\ a.pc \in {"tokenRows", "rotateRows"} /\ ~Inserted(a)
  BY <1>1 DEF Waiting, TokenRows, Shape, Placed, Inserted
<1>4. b.pc # "credential"
  <2>1. b.wroteT # {}
    BY <1>2 DEF Written
  <2> QED BY <2>1, <1>1 DEF Shape, Wrote, WritingTokens, Writing
<1>5. CASE b.pc \in TokenRows
  <2>1. PICK x \in b.rows : x \in Written(a)
    BY <1>5 DEF Waiting, WaitsAs, TokenRows
  <2>2. b.pc \in {"tokenRows", "rotateRows"}
    BY <1>1, <1>3, <1>5 DEF TokenRows, Shape, Placed
  <2>3. t # x /\ token[t] = "live" /\ token[x] = "live"
    BY <1>1, <1>2, <2>1 DEF ApartAs, FitsAs, Keeps
  <2>4. a.pc = "tokenRows" /\ b.pc = "tokenRows"
    BY <1>1, <1>2, <1>3, <2>1, <2>2, <2>3 DEF Shape, Wrote
  <2>5. a.kind # "refresh" /\ b.kind # "refresh"
    BY <1>1, <2>4 DEF Shape, Placed, Swept, Ending
  <2>6. /\ t \in Tokens /\ x \in Tokens
        /\ {tokenOf[t], tokenOf[x]} \subseteq Scope(a) /\ {tokenOf[t], tokenOf[x]} \subseteq Scope(b)
    BY <1>1, <1>2, <1>3, <2>1, <2>4, <2>5 DEF FitsAs, Takes
  <2>7. tokenOf[t] # tokenOf[x]
    BY <2>3, <2>6 DEF SessionInv, Store, OneLiveToken
  <2>8. Scope(a) = a.wroteS /\ Scope(b) = b.wroteS
    BY <2>6, <2>7 DEF Scope
  <2> QED BY <1>1, <2>6, <2>8 DEF ApartAs
<1>6. CASE b.pc = "insert"
  <2>1. PICK u \in Clashing(q) : u \in a.wroteS
    BY <1>3, <1>6 DEF Waiting, WaitsAs, TokenRows
  <2>2. u \in Sessions /\ Live(u) /\ deviceOf[u] = b.dev /\ u \notin b.wroteS
    BY <2>1, Waits
  <2>3. b.kind = "login" /\ tokenOf[t] = b.ses /\ token[t] # "unborn" /\ t \in Tokens
    BY <1>1, <1>2, <1>6 DEF Shape, Placed, FitsAs, Takes, Scope, Sweeping
  <2>4. b.ses \in Sessions /\ (Live(b.ses) => b.ses \in b.wroteS)
    BY <1>1, <1>6, <2>3 DEF SessionInv, Store, FitsAs, Covers, Alone, Writing
  <2>5. a.kind # "refresh" /\ a.pc = "tokenRows"
    BY <1>1, <1>3, <2>1 DEF Shape, Placed, Wrote
  <2>6. b.ses \in Scope(a)
    BY <1>1, <1>2, <1>3, <2>3, <2>5 DEF FitsAs, Takes
  <2>7. CASE a.kind \in Sweeping
    <3>1. b.ses \in a.wroteS
      BY <2>6, <2>7 DEF Scope
    <3> QED BY <3>1, <1>1, <2>4 DEF FitsAs, Keeps, ApartAs
  <2>8. CASE a.kind \notin Sweeping
    <3>1. u = b.ses
      BY <1>1, <2>1, <2>6, <2>8 DEF Scope, Shape, Wrote
    <3> QED BY <3>1, <2>2, <2>4
  <2> QED BY <2>7, <2>8
<1> QED BY <1>4, <1>5, <1>6 DEF Waiting, WaitsAs

LEMMA AtInsert ==
  ASSUME SessionInv, NEW r, NEW a, NEW q, NEW b, Waiting(r, a, q, b), Waiting(q, b, r, a),
         a.pc \in {"insert", "credential"}, b.pc \in {"insert", "credential"}
  PROVE  FALSE
<1>1. Shape(a) /\ Shape(b)
  BY Waits
<1>2. ~Inserted(a) /\ ~Inserted(b) /\ ~SettingPassword(a) /\ ~SettingPassword(b)
  BY DEF Inserted, SettingPassword, Swept
<1>3. a.pc = "insert" /\ b.pc = "insert" /\ b.wroteS \cap Clashing(r) # {} /\ a.wroteS \cap Clashing(q) # {}
  BY <1>2 DEF Waiting, WaitsAs, TokenRows
<1> QED BY <1>3, EndedItsOwn

\* Two transactions wait for each other only if one of them deals with a
\* reused token, or both sweep and one does so without the password.
THEOREM OthersDoNotDeadlock == Spec => []DeadlockNeedsReuse
<1>1. SessionInv => DeadlockNeedsReuse
  <2> SUFFICES ASSUME SessionInv, NEW r \in Requests, NEW q \in WaitsFor(r), r \in WaitsFor(q),
                      "reuse" \notin {req[r].kind, req[q].kind}
               PROVE  {req[r].kind, req[q].kind} \subseteq Sweeping /\ "others" \in {req[r].kind, req[q].kind}
    BY DEF DeadlockNeedsReuse
  <2>1. PICK a : a = req[r]
    OBVIOUS
  <2>2. PICK b : b = req[q]
    OBVIOUS
  <2>3. q \in Requests \ {r}
    BY DEF WaitsFor
  <2>4. Waiting(r, a, q, b)
    BY <2>1, <2>2, <2>3 DEF WaitsFor, Waiting, WaitsAs, At, TokensWritten, Written, InsertWaitsFor, Inserted,
                            CredentialHolders, SettingPassword, Swept
  <2>5. Waiting(q, b, r, a)
    BY <2>1, <2>2, <2>3 DEF WaitsFor, Waiting, WaitsAs, At, TokensWritten, Written, InsertWaitsFor, Inserted,
                            CredentialHolders, SettingPassword, Swept
  <2>6. CASE a.pc = "sessionRows" \/ b.pc = "sessionRows"
    BY <2>1, <2>2, <2>4, <2>5, <2>6, AtSessions
  <2>7. CASE a.pc # "sessionRows" /\ b.pc # "sessionRows" /\ (a.pc \in TokenRows \/ b.pc \in TokenRows)
    BY <2>4, <2>5, <2>7, AtTokens
  <2>8. CASE a.pc \notin {"sessionRows"} \cup TokenRows /\ b.pc \notin {"sessionRows"} \cup TokenRows
    <3>1. a.pc \in {"insert", "credential"} /\ b.pc \in {"insert", "credential"}
      BY <2>4, <2>5, <2>8 DEF Waiting, WaitsAs
    <3> QED BY <3>1, <2>4, <2>5, AtInsert
  <2> QED BY <2>6, <2>7, <2>8
<1> QED BY <1>1, SessionsHold, PTL
-----------------------------------------------------------------------------
(* Sign-ins that a password change overtakes.  Once its sweep has picked,   *)
(* what it has not taken and will not is late, and so will be whoever is    *)
(* signing in.                                                              *)

SweepsAs(a) == a.kind \in SetsPassword /\ a.pc \in {"sessionRows", "tokens", "tokenRows", "commit"}
SigningAs(a) == a.kind = "login" /\ a.pc \notin {"done", "conflict", "failed"}
Catches(a, s) == s \in a.wroteS \/ (a.pc = "sessionRows" /\ s \in a.rows)

LeavesLate(r) ==
  SweepsAs(req[r]) =>
    \A s \in Sessions : Live(s) /\ s # req[r].ses /\ ~Catches(req[r], s) => s \in late
SawTheLast(q) ==
  SigningAs(req[q]) /\ req[q].pc # "issue" => req[q].overtaken = TRUE \/ req[q].saw = password
Overtakes(r, q) == SweepsAs(req[r]) /\ SigningAs(req[q]) => req[q].overtaken = TRUE

LateInv ==
  /\ LateSessionsOnly
  /\ \A r \in Requests : LeavesLate(r) /\ SawTheLast(r)
  /\ \A r, q \in Requests : Overtakes(r, q)

\* How a request goes on that neither sweeps anew nor begins to sign in.
Onward(a, d) ==
  /\ SweepsAs(d) => SweepsAs(a) /\ d.ses = a.ses /\ \A s \in Sessions : Live(s) /\ Catches(a, s) => Catches(d, s)
  /\ SigningAs(d) => SigningAs(a) /\ d.overtaken = a.overtaken /\ d.saw = a.saw /\ (a.pc = "issue" => d.pc = "issue")

LEMMA OnwardStep ==
  ASSUME LateInv, NEW r \in Requests, NEW d, req' = [req EXCEPT ![r] = d], DOMAIN req = Requests, Onward(req[r], d),
         UNCHANGED <<session, pwOf, late, password>>
  PROVE  LateInv'
<1>1. PICK a : a = req[r]
  OBVIOUS
<1>2. req'[r] = d /\ \A q \in Requests \ {r} : req'[q] = req[q]
  OBVIOUS
<1>3. Onward(a, d) /\ LeavesLate(r) /\ SawTheLast(r)
  BY <1>1 DEF LateInv
<1>4. LateSessionsOnly'
  BY DEF LateInv, LateSessionsOnly, Live
<1>5. \A q \in Requests \ {r} : LeavesLate(q)' /\ SawTheLast(q)'
  BY <1>2 DEF LateInv, LeavesLate, SawTheLast, Live, SweepsAs, SigningAs, Catches
<1>6. LeavesLate(r)'
  BY <1>1, <1>2, <1>3 DEF Onward, LeavesLate, Live, SweepsAs, Catches
<1>7. SawTheLast(r)'
  BY <1>1, <1>2, <1>3 DEF Onward, SawTheLast, SigningAs
<1>8. \A p, q \in Requests : Overtakes(p, q)'
  <2> TAKE p, q \in Requests
  <2>1. SweepsAs(req'[p]) => SweepsAs(req[p])
    BY <1>1, <1>2, <1>3 DEF Onward
  <2>2. SigningAs(req'[q]) => SigningAs(req[q]) /\ req'[q].overtaken = req[q].overtaken
    BY <1>1, <1>2, <1>3 DEF Onward
  <2>3. Overtakes(p, q)
    BY DEF LateInv
  <2> QED BY <2>1, <2>2, <2>3 DEF Overtakes, SweepsAs, SigningAs
<1> QED BY <1>4, <1>5, <1>6, <1>7, <1>8 DEF LateInv

LEMMA OnwardUnlessAtWork ==
  ASSUME NEW a, NEW d, ~SweepsAs(d), ~SigningAs(d)
  PROVE  Onward(a, d)
BY DEF Onward

\* The steps of a request that begins, but not to sign in, and of one whose
\* work ends.
LEMMA IdleOnward ==
  ASSUME SessionInv, LateInv, NEW r \in Requests,
         \/ \E t \in Tokens, d \in Devices : StartRefresh(r, t, d)
         \/ \E k \in Kinds, s \in Sessions : StartEnding(r, k, s)
         \/ SetCredential(r) \/ ValidateOk(r) \/ ValidateRefuses(r) \/ Fail(r) \/ Issue(r) \/ CommitRotate(r)
  PROVE  LateInv'
<1>1. PICK a : a = req[r]
  OBVIOUS
<1>2. a \in Request /\ Shape(a) /\ DOMAIN req = Requests
  BY <1>1, RequestAt DEF SessionInv
<1>3. ASSUME NEW t \in Tokens, NEW dv \in Devices, StartRefresh(r, t, dv) PROVE LateInv'
  <2>1. PICK d : /\ req' = [req EXCEPT ![r] = d]
                 /\ d \in {[Idle EXCEPT !.kind = "refresh", !.ses = tokenOf[t], !.tok = t, !.dev = dv, !.pc = "validate"],
                           [Idle EXCEPT !.kind = "reuse", !.ses = tokenOf[t], !.tok = t, !.dev = dv, !.pc = "reuse"]}
    BY <1>3 DEF StartRefresh
  <2>2. d.kind \in {"refresh", "reuse"}
    BY <2>1 DEF Idle
  <2>3. ~SweepsAs(d) /\ ~SigningAs(d)
    BY <2>2 DEF SweepsAs, SigningAs, SetsPassword
  <2> QED BY <1>1, <1>2, <1>3, <2>1, <2>3, OnwardStep, OnwardUnlessAtWork
          DEF StartRefresh, committed, sessionVars
<1>4. ASSUME NEW k \in Kinds, NEW s \in Sessions, StartEnding(r, k, s) PROVE LateInv'
  <2>1. PICK p : p = (IF k \in SetsPassword THEN "credential" ELSE "sessions")
    OBVIOUS
  <2>2. PICK u : u = (IF k = "reset" THEN None ELSE s)
    OBVIOUS
  <2>3. PICK d : d = [Idle EXCEPT !.kind = k, !.pc = p, !.ses = u]
    OBVIOUS
  <2>4. req' = [req EXCEPT ![r] = d] /\ k # "login"
    BY <1>4, <2>1, <2>2, <2>3 DEF StartEnding
  <2>5. d.kind = k /\ d.pc \in {"credential", "sessions"}
    BY <2>1, <2>3 DEF Idle
  <2>6. ~SweepsAs(d) /\ ~SigningAs(d)
    BY <2>4, <2>5 DEF SweepsAs, SigningAs
  <2> QED BY <1>1, <1>2, <1>4, <2>4, <2>6, OnwardStep, OnwardUnlessAtWork
          DEF StartEnding, committed, sessionVars
<1>5. ASSUME SetCredential(r) \/ ValidateOk(r) \/ ValidateRefuses(r) \/ Issue(r) PROVE LateInv'
  <2>1. PICK p \in {"sessions", "rotate", "done"} : Go(r, p) /\ (p # "done" => a.kind # "login")
    BY <1>1, <1>2, <1>5 DEF SetCredential, ValidateOk, ValidateRefuses, Issue, At, Shape, Placed, SetsPassword
  <2>2. PICK d : d = [a EXCEPT !.pc = p]
    OBVIOUS
  <2>3. req' = [req EXCEPT ![r] = d] /\ d.pc = p /\ d.kind = a.kind
    BY <1>1, <1>2, <2>1, <2>2 DEF Go, Request
  <2>4. ~SweepsAs(d) /\ ~SigningAs(d)
    BY <2>1, <2>3 DEF SweepsAs, SigningAs
  <2>5. UNCHANGED <<session, pwOf, late, password>>
    BY <1>5 DEF SetCredential, ValidateOk, ValidateRefuses, Issue, committed, sessionVars
  <2> QED BY <1>1, <1>2, <2>3, <2>4, <2>5, OnwardStep, OnwardUnlessAtWork
<1>6. ASSUME Fail(r) PROVE LateInv'
  <2>1. PICK d : d = Undone(r, "failed")
    OBVIOUS
  <2>2. req' = [req EXCEPT ![r] = d] /\ d.pc = "failed"
    BY <1>1, <1>2, <1>6, <2>1 DEF Fail, Undone, Request
  <2>3. ~SweepsAs(d) /\ ~SigningAs(d)
    BY <2>2 DEF SweepsAs, SigningAs
  <2> QED BY <1>1, <1>2, <1>6, <2>2, <2>3, OnwardStep, OnwardUnlessAtWork DEF Fail, committed, sessionVars
<1>7. ASSUME CommitRotate(r) PROVE LateInv'
  <2>1. PICK u : u = Undone(r, "done")
    OBVIOUS
  <2>2. PICK d : d = [u EXCEPT !.ses = a.ses]
    OBVIOUS
  <2>3. req' = [req EXCEPT ![r] = d] /\ d.pc = "done"
    BY <1>1, <1>2, <1>7, <2>1, <2>2 DEF CommitRotate, Finished, Undone, Request
  <2>4. ~SweepsAs(d) /\ ~SigningAs(d)
    BY <2>3 DEF SweepsAs, SigningAs
  <2> QED BY <1>1, <1>2, <1>7, <2>3, <2>4, OnwardStep, OnwardUnlessAtWork DEF CommitRotate, sessionVars
<1> QED BY <1>3, <1>4, <1>5, <1>6, <1>7

\* The steps of a sweep after it has picked, and of a sign-in.
LEMMA WorkOnward ==
  ASSUME SessionInv, LateInv, NEW r \in Requests,
         \/ Find(r) \/ SessionsDone(r) \/ TokensDone(r) \/ Insert(r) \/ InsertClashes(r)
         \/ PickSessionTokens(r) \/ PickReusedTokens(r) \/ PickRotated(r)
         \/ \E s \in Sessions : LockSession(r, s)
         \/ \E t \in Tokens : LockToken(r, t)
  PROVE  LateInv'
<1>1. PICK a : a = req[r]
  OBVIOUS
<1>2. a \in Request /\ Shape(a) /\ FitsAs(a) /\ DOMAIN req = Requests
  BY <1>1, RequestAt DEF SessionInv
<1>3. UNCHANGED <<session, pwOf, late, password>>
  BY DEF Find, SessionsDone, TokensDone, Insert, InsertClashes, PickSessionTokens, PickReusedTokens, PickRotated,
         PickTokens, LockSession, LockToken, committed, sessionVars
<1>4. SUFFICES \E d : req' = [req EXCEPT ![r] = d] /\ Onward(a, d)
  BY <1>1, <1>2, <1>3, OnwardStep
<1>5. ASSUME NEW p, Go(r, p), p # "sessionRows", a.pc = "sessionRows" => a.rows = {},
             p \in {"tokens", "tokenRows", "commit"} => a.pc \in {"sessionRows", "tokens", "tokenRows"} \/ a.kind \notin SetsPassword,
             a.pc \notin {"issue", "done", "conflict", "failed"}
      PROVE  \E d : req' = [req EXCEPT ![r] = d] /\ Onward(a, d)
  <2>1. PICK d : d = [a EXCEPT !.pc = p]
    OBVIOUS
  <2>2. /\ req' = [req EXCEPT ![r] = d] /\ d.pc = p /\ d.kind = a.kind /\ d.ses = a.ses /\ d.wroteS = a.wroteS
        /\ d.overtaken = a.overtaken /\ d.saw = a.saw
    BY <1>1, <1>2, <1>5, <2>1 DEF Go, Request
  <2>3. Onward(a, d)
    BY <1>5, <2>2 DEF Onward, SweepsAs, SigningAs, Catches
  <2> QED BY <2>2, <2>3
<1>6. CASE SessionsDone(r)
  BY <1>1, <1>5, <1>6 DEF SessionsDone, At
<1>7. CASE Insert(r)
  BY <1>1, <1>2, <1>5, <1>7 DEF Insert, At, Shape, Placed, SetsPassword
<1>8. CASE TokensDone(r)
  <2>1. PICK p : /\ Go(r, p)
                 /\ \/ a.pc = "tokenRows" /\ p \in {"insert", "commit"}
                    \/ a.pc = "reuseRows" /\ p = "sessions"
                    \/ a.pc = "rotateRows" /\ p \in {"done", "commit"}
    BY <1>1, <1>8 DEF TokensDone, TokenRows, At
  <2>2. a.pc = "rotateRows" => a.kind \notin SetsPassword
    BY <1>2 DEF Shape, Placed, SetsPassword
  <2> QED BY <1>5, <2>1, <2>2
<1>9. CASE Find(r)
  <2>1. CASE Go(r, "insert")
    BY <1>1, <1>5, <1>9, <2>1 DEF Find, At
  <2>2. CASE ~Go(r, "insert")
    <3>1. PICK s \in Sessions : req' = [req EXCEPT ![r].ses = s, ![r].pc = "sessions"]
      BY <1>9, <2>2 DEF Find
    <3>2. PICK d : d = [a EXCEPT !.ses = s, !.pc = "sessions"]
      OBVIOUS
    <3>3. /\ req' = [req EXCEPT ![r] = d] /\ d.pc = "sessions" /\ d.kind = a.kind
          /\ d.overtaken = a.overtaken /\ d.saw = a.saw /\ a.pc = "find"
      BY <1>1, <1>2, <1>9, <3>1, <3>2 DEF Request, Find, At
    <3>4. Onward(a, d)
      BY <3>3 DEF Onward, SweepsAs, SigningAs
    <3> QED BY <3>3, <3>4
  <2> QED BY <2>1, <2>2
<1>10. CASE InsertClashes(r)
  <2>1. a.kind = "login" /\ a.pc = "insert"
    BY <1>1, <1>2, <1>10 DEF InsertClashes, At, Shape, Placed
  <2>2. CASE a.retried
    <3>1. PICK d : d = Undone(r, "conflict")
      OBVIOUS
    <3>2. req' = [req EXCEPT ![r] = d] /\ d.pc = "conflict"
      BY <1>1, <1>2, <1>10, <2>2, <3>1 DEF InsertClashes, Undone, Request
    <3>3. Onward(a, d)
      BY <3>2 DEF Onward, SweepsAs, SigningAs
    <3> QED BY <3>2, <3>3
  <2>3. CASE ~a.retried
    <3>1. PICK u : u = Undone(r, "find")
      OBVIOUS
    <3>2. PICK d : d = [u EXCEPT !.retried = TRUE, !.ses = None]
      OBVIOUS
    <3>3. u.pc = "find" /\ u.kind = a.kind /\ u.overtaken = a.overtaken /\ u.saw = a.saw /\ u \in Request
      BY <1>1, <1>2, <3>1 DEF Undone, Request, Places
    <3>4. req' = [req EXCEPT ![r] = d] /\ d.pc = "find" /\ d.overtaken = a.overtaken /\ d.saw = a.saw
      BY <1>1, <1>10, <2>3, <3>1, <3>2, <3>3 DEF InsertClashes, Request
    <3>5. Onward(a, d)
      BY <2>1, <3>4 DEF Onward, SweepsAs, SigningAs
    <3> QED BY <3>4, <3>5
  <2> QED BY <2>2, <2>3
<1>11. CASE PickSessionTokens(r) \/ PickReusedTokens(r) \/ PickRotated(r)
  <2>1. PICK p, rows : /\ (a.pc = "tokens" /\ p = "tokenRows") \/ (a.pc = "reuse" /\ p = "reuseRows")
                            \/ (a.pc = "rotate" /\ p = "rotateRows")
                       /\ req' = [req EXCEPT ![r].pc = p, ![r].rows = rows]
    BY <1>1, <1>11 DEF PickSessionTokens, PickReusedTokens, PickRotated, PickTokens, At
  <2>2. PICK d : d = [a EXCEPT !.pc = p, !.rows = rows]
    OBVIOUS
  <2>3. /\ req' = [req EXCEPT ![r] = d] /\ d.pc = p /\ d.kind = a.kind /\ d.ses = a.ses /\ d.wroteS = a.wroteS
        /\ d.overtaken = a.overtaken /\ d.saw = a.saw
    BY <1>1, <1>2, <2>1, <2>2 DEF Request
  <2>4. Onward(a, d)
    BY <2>1, <2>3 DEF Onward, SweepsAs, SigningAs, Catches
  <2> QED BY <2>3, <2>4
<1>12. ASSUME NEW s \in Sessions, LockSession(r, s) PROVE \E d : req' = [req EXCEPT ![r] = d] /\ Onward(a, d)
  <2>1. PICK w : w = (IF Live(s) THEN a.wroteS \cup {s} ELSE a.wroteS)
    OBVIOUS
  <2>2. PICK d : d = [a EXCEPT !.rows = a.rows \ {s}, !.wroteS = w]
    OBVIOUS
  <2>3. /\ req' = [req EXCEPT ![r] = d] /\ d.pc = a.pc /\ d.kind = a.kind /\ d.ses = a.ses /\ d.wroteS = w
        /\ d.rows = a.rows \ {s} /\ d.overtaken = a.overtaken /\ d.saw = a.saw
    BY <1>1, <1>2, <1>12, <2>1, <2>2 DEF LockSession, Request
  <2>4. Onward(a, d)
    BY <2>1, <2>3 DEF Onward, SweepsAs, SigningAs, Catches
  <2> QED BY <2>3, <2>4
<1>13. ASSUME NEW t \in Tokens, LockToken(r, t) PROVE \E d : req' = [req EXCEPT ![r] = d] /\ Onward(a, d)
  <2>1. PICK why : why = TokenReason(a.pc)
    OBVIOUS
  <2>2. PICK w : w = (IF token[t] = "live" THEN a.wroteT \cup {<<t, why>>} ELSE a.wroteT)
    OBVIOUS
  <2>3. PICK d : d = [a EXCEPT !.rows = a.rows \ {t}, !.wroteT = w]
    OBVIOUS
  <2>4. /\ req' = [req EXCEPT ![r] = d] /\ d.pc = a.pc /\ d.kind = a.kind /\ d.ses = a.ses /\ d.wroteS = a.wroteS
        /\ d.overtaken = a.overtaken /\ d.saw = a.saw /\ a.pc \in TokenRows
    BY <1>1, <1>2, <1>13, <2>1, <2>2, <2>3 DEF LockToken, Request
  <2>5. Onward(a, d)
    BY <2>4 DEF Onward, SweepsAs, SigningAs, Catches, TokenRows
  <2> QED BY <2>4, <2>5
<1> QED BY <1>6, <1>7, <1>8, <1>9, <1>10, <1>11, <1>12, <1>13

LEMMA StartLoginIsMarked ==
  ASSUME SessionInv, LateInv, NEW r \in Requests, NEW dv \in Devices, StartLogin(r, dv)
  PROVE  LateInv'
<1>1. PICK o \in BOOLEAN, b \in Nat : o = (\E q \in Requests : Sweeps(q)) /\ b = NextSession - 1
  BY SessionsSoFar
<1>2. PICK d : d = [Idle EXCEPT !.kind = "login", !.pc = "find", !.dev = dv, !.began = b, !.saw = password, !.overtaken = o]
  OBVIOUS
<1>3. d.kind = "login" /\ d.pc = "find" /\ d.saw = password /\ d.overtaken = o
  BY <1>2 DEF Idle
<1>4. /\ req' = [req EXCEPT ![r] = d] /\ DOMAIN req = Requests
      /\ UNCHANGED <<session, pwOf, late, password>>
  BY <1>1, <1>2 DEF StartLogin, SessionInv, committed, sessionVars
<1>5. req'[r] = d /\ \A q \in Requests \ {r} : req'[q] = req[q]
  BY <1>4
<1>6. \A p \in Requests : SweepsAs(req'[p]) => SweepsAs(req[p]) /\ req'[p] = req[p] /\ o = TRUE
  BY <1>1, <1>3, <1>5 DEF SweepsAs, Sweeps, SetsPassword
<1>7. LateSessionsOnly'
  BY <1>4 DEF LateInv, LateSessionsOnly, Live
<1>8. \A p \in Requests : LeavesLate(p)'
  BY <1>4, <1>6 DEF LateInv, LeavesLate, SweepsAs, Catches, Live
<1>9. \A q \in Requests : SawTheLast(q)'
  BY <1>3, <1>4, <1>5 DEF LateInv, SawTheLast, SigningAs
<1>10. \A p, q \in Requests : Overtakes(p, q)'
  BY <1>3, <1>5, <1>6 DEF LateInv, Overtakes, SweepsAs, SigningAs
<1> QED BY <1>7, <1>8, <1>9, <1>10 DEF LateInv

LEMMA PickSessionsMarks ==
  ASSUME SessionInv, LateInv, NEW r \in Requests, PickSessions(r)
  PROVE  LateInv'
<1>1. PICK a : a = req[r]
  OBVIOUS
<1>2. PICK rows : rows = {s \in SessionScope(r) : Live(s)}
  OBVIOUS
<1>3. PICK d : d = [a EXCEPT !.pc = "sessionRows", !.rows = rows]
  OBVIOUS
<1>4. /\ a \in Request /\ a.pc = "sessions"
      /\ UNCHANGED <<session, pwOf, late, password>>
  BY <1>1, RequestAt DEF PickSessions, At, committed, sessionVars
<1>5. req'[r] = d
  BY <1>1, <1>2, <1>3 DEF PickSessions
<1>6. /\ d.pc = "sessionRows" /\ d.kind = a.kind /\ d.ses = a.ses /\ d.rows = rows
      /\ d.overtaken = a.overtaken /\ d.saw = a.saw
  BY <1>3, <1>4 DEF Request
<1>7. \A q \in Requests \ {r} :
        /\ req'[q].kind = req[q].kind /\ req'[q].pc = req[q].pc /\ req'[q].ses = req[q].ses
        /\ req'[q].rows = req[q].rows /\ req'[q].wroteS = req[q].wroteS /\ req'[q].saw = req[q].saw
        /\ (req'[q].overtaken = req[q].overtaken \/ req'[q].overtaken = TRUE)
        /\ (a.kind \in SetsPassword /\ SigningAs(req[q]) => req'[q].overtaken = TRUE)
  <2> TAKE q \in Requests \ {r}
  <2>1. PICK b : b = req[q]
    OBVIOUS
  <2>2. b \in Request
    BY <2>1 DEF SessionInv
  <2>3. SigningAs(b) <=> SigningIn(q)
    BY <2>1 DEF SigningAs, SigningIn
  <2>4. CASE a.kind \in SetsPassword /\ SigningIn(q)
    <3>1. req'[q] = [b EXCEPT !.overtaken = TRUE]
      BY <1>1, <2>1, <2>4 DEF PickSessions
    <3> QED BY <2>1, <2>2, <3>1 DEF Request
  <2>5. CASE ~(a.kind \in SetsPassword /\ SigningIn(q))
    <3>1. req'[q] = b
      BY <1>1, <2>1, <2>5 DEF PickSessions
    <3> QED BY <2>1, <2>3, <2>5, <3>1
  <2> QED BY <2>4, <2>5
<1>8. LateSessionsOnly'
  BY <1>4 DEF LateInv, LateSessionsOnly, Live
<1>9. LeavesLate(r)'
  <2>1. SweepsAs(d) => \A s \in Sessions : Live(s) /\ s # d.ses => s \in rows
    BY <1>1, <1>2, <1>6 DEF SweepsAs, SessionScope, Sweeping, SetsPassword
  <2> QED BY <1>4, <1>5, <1>6, <2>1 DEF LeavesLate, SweepsAs, Catches, Live
<1>10. \A q \in Requests \ {r} : LeavesLate(q)'
  BY <1>4, <1>7 DEF LateInv, LeavesLate, SweepsAs, Catches, Live
<1>11. \A q \in Requests : SawTheLast(q)'
  <2>1. SawTheLast(r)'
    BY <1>1, <1>4, <1>5, <1>6 DEF LateInv, SawTheLast, SigningAs
  <2> QED BY <2>1, <1>4, <1>7 DEF LateInv, SawTheLast, SigningAs
<1>12. \A p, q \in Requests : Overtakes(p, q)'
  <2> SUFFICES ASSUME NEW p \in Requests, NEW q \in Requests, SweepsAs(req'[p]), SigningAs(req'[q])
               PROVE  req'[q].overtaken = TRUE
    BY DEF Overtakes, SweepsAs, SigningAs
  <2>1. SigningAs(req[q])
    BY <1>1, <1>4, <1>5, <1>6, <1>7 DEF SigningAs
  <2>2. CASE p = r
    <3>1. a.kind \in SetsPassword /\ q # r
      BY <1>5, <1>6, <2>2 DEF SweepsAs, SigningAs, SetsPassword
    <3> QED BY <1>7, <2>1, <3>1
  <2>3. CASE p # r
    <3>1. SweepsAs(req[p])
      BY <1>7, <2>3 DEF SweepsAs
    <3>2. req[q].overtaken = TRUE
      BY <2>1, <3>1 DEF LateInv, Overtakes
    <3> QED BY <1>1, <1>5, <1>6, <1>7, <3>2
  <2> QED BY <2>2, <2>3
<1> QED BY <1>8, <1>9, <1>10, <1>11, <1>12 DEF LateInv

\* What a request that commits becomes.
LEMMA CommitIsOver ==
  ASSUME SessionInv, NEW r \in Requests, NEW p \in {"done", "issue"}, NEW s, req' = Finished(r, p, s)
  PROVE  /\ req'[r].kind = req[r].kind /\ req'[r].pc = p /\ req'[r].overtaken = req[r].overtaken
         /\ \A q \in Requests \ {r} : req'[q] = req[q]
<1>1. PICK a : a = req[r]
  OBVIOUS
<1>2. PICK u : u = Undone(r, p)
  OBVIOUS
<1>3. PICK d : d = [u EXCEPT !.ses = s]
  OBVIOUS
<1>a. a \in Request
  BY <1>1, RequestAt
<1>4. u \in Request /\ u.kind = a.kind /\ u.pc = p /\ u.overtaken = a.overtaken
  BY <1>1, <1>2, <1>a DEF Undone, Request, Places
<1>5. d.kind = a.kind /\ d.pc = p /\ d.overtaken = a.overtaken
  BY <1>3, <1>4 DEF Request
<1>6. req' = [req EXCEPT ![r] = d] /\ DOMAIN req = Requests
  BY <1>2, <1>3 DEF Finished, SessionInv
<1> QED BY <1>1, <1>5, <1>6

LEMMA CommitLoginIsLate ==
  ASSUME SessionInv, LateInv, NEW r \in Requests, CommitLogin(r)
  PROVE  LateInv'
<1>1. PICK a : a = req[r]
  OBVIOUS
<1>2. PICK n : n = NextSession
  OBVIOUS
<1>3. /\ a \in Request /\ a.pc = "commit" /\ a.kind = "login" /\ n \in Sessions
      /\ session' = [Revoked(r) EXCEPT ![n] = "live"] /\ pwOf' = [pwOf EXCEPT ![n] = a.saw]
      /\ late' = (IF a.overtaken THEN late \cup {n} ELSE late) /\ password' = password
      /\ req' = Finished(r, "issue", n)
  BY <1>1, <1>2, RequestAt DEF CommitLogin, At
<1>4. pwOf \in [Sessions -> Nat] /\ password \in Nat
  BY DEF SessionInv, Store, Typed
<1>5. late \subseteq late' /\ (a.overtaken = TRUE => n \in late')
  BY <1>3
<1>6. a.overtaken = TRUE \/ a.saw = password
  BY <1>1, <1>3 DEF LateInv, SawTheLast, SigningAs
<1>7. \A s \in Sessions : s # n /\ session'[s] = "live" => Live(s) /\ s \notin a.wroteS /\ pwOf'[s] = pwOf[s]
  BY <1>1, <1>3, <1>4, Revokes, ReasonsEnd DEF Live
<1>8. /\ req'[r].kind = "login" /\ req'[r].pc = "issue" /\ req'[r].overtaken = a.overtaken
      /\ \A q \in Requests \ {r} : req'[q] = req[q]
  BY <1>1, <1>3, CommitIsOver
<1>9. LateSessionsOnly'
  <2> SUFFICES ASSUME NEW s \in Sessions, session'[s] = "live", pwOf'[s] < password PROVE s \in late'
    BY <1>3 DEF LateSessionsOnly, Live
  <2>1. CASE s = n
    <3>1. pwOf'[n] = a.saw
      BY <1>3, <1>4
    <3> QED BY <2>1, <3>1, <1>4, <1>5, <1>6
  <2>2. CASE s # n
    BY <2>2, <1>5, <1>7 DEF LateInv, LateSessionsOnly
  <2> QED BY <2>1, <2>2
<1>10. \A p \in Requests : LeavesLate(p)'
  <2> SUFFICES ASSUME NEW p \in Requests, SweepsAs(req'[p]), NEW s \in Sessions, session'[s] = "live",
                      s # req'[p].ses, ~Catches(req'[p], s)
               PROVE  s \in late'
    BY DEF LeavesLate, SweepsAs, Catches, Live
  <2>1. p # r /\ req'[p] = req[p]
    BY <1>8 DEF SweepsAs, SetsPassword
  <2>2. CASE s = n
    <3>1. a.overtaken = TRUE
      BY <1>1, <1>3, <2>1 DEF LateInv, Overtakes, SigningAs
    <3> QED BY <2>2, <3>1, <1>5
  <2>3. CASE s # n
    BY <2>1, <2>3, <1>5, <1>7 DEF LateInv, LeavesLate
  <2> QED BY <2>2, <2>3
<1>11. \A q \in Requests : SawTheLast(q)'
  BY <1>3, <1>8 DEF LateInv, SawTheLast, SigningAs
<1>12. \A p, q \in Requests : Overtakes(p, q)'
  BY <1>1, <1>3, <1>8 DEF LateInv, Overtakes, SweepsAs, SigningAs, SetsPassword
<1> QED BY <1>9, <1>10, <1>11, <1>12 DEF LateInv

LEMMA CommitEndingSweeps ==
  ASSUME SessionInv, LateInv, NEW r \in Requests, CommitEnding(r)
  PROVE  LateInv'
<1>1. PICK a : a = req[r]
  OBVIOUS
<1>2. /\ a \in Request /\ Shape(a) /\ a.pc = "commit" /\ a.kind \notin {"login", "refresh"}
      /\ session' = Revoked(r) /\ late' = late /\ req' = Finished(r, "done", a.ses)
      /\ password' = (IF a.kind \in SetsPassword THEN password + 1 ELSE password)
      /\ pwOf' = (IF a.kind = "change" THEN [pwOf EXCEPT ![a.ses] = password + 1] ELSE pwOf)
  BY <1>1, RequestAt DEF CommitEnding, At
<1>3. pwOf \in [Sessions -> Nat] /\ password \in Nat
  BY DEF SessionInv, Store, Typed
<1>4. \A s \in Sessions : session'[s] = "live" => Live(s) /\ s \notin a.wroteS
  BY <1>1, <1>2, Revokes, ReasonsEnd DEF Live
<1>5. /\ req'[r].kind = a.kind /\ req'[r].pc = "done"
      /\ \A q \in Requests \ {r} : req'[q] = req[q]
  BY <1>1, <1>2, CommitIsOver
<1>6. LateSessionsOnly'
  <2> SUFFICES ASSUME NEW s \in Sessions, session'[s] = "live", pwOf'[s] < password' PROVE s \in late
    BY <1>2 DEF LateSessionsOnly, Live
  <2>1. CASE a.kind \in SetsPassword
    <3>1. SweepsAs(a) /\ ~Catches(a, s) /\ LeavesLate(r)
      BY <1>1, <1>2, <1>4, <2>1 DEF SweepsAs, Catches, LateInv
    <3>2. s # a.ses
      <4>1. CASE a.kind = "change"
        <5>1. s = a.ses => pwOf'[s] = password + 1
          BY <1>2, <1>3, <4>1
        <5> QED BY <5>1, <1>2, <1>3, <2>1
      <4>2. CASE a.kind = "reset"
        BY <1>2, <4>2 DEF Shape, Named, Sessions
      <4> QED BY <4>1, <4>2, <2>1 DEF SetsPassword
    <3> QED BY <1>1, <1>4, <3>1, <3>2 DEF LeavesLate
  <2>2. CASE a.kind \notin SetsPassword
    <3>1. pwOf' = pwOf /\ password' = password
      BY <1>2, <2>2 DEF SetsPassword
    <3> QED BY <1>4, <3>1 DEF LateInv, LateSessionsOnly
  <2> QED BY <2>1, <2>2
<1>7. \A p \in Requests : LeavesLate(p)'
  <2> SUFFICES ASSUME NEW p \in Requests, SweepsAs(req'[p]), NEW s \in Sessions, session'[s] = "live",
                      s # req'[p].ses, ~Catches(req'[p], s)
               PROVE  s \in late
    BY <1>2 DEF LeavesLate, SweepsAs, Catches, Live
  <2>1. req'[p] = req[p]
    BY <1>5 DEF SweepsAs
  <2> QED BY <1>4, <2>1 DEF LateInv, LeavesLate
<1>8. \A q \in Requests : SawTheLast(q)'
  <2> SUFFICES ASSUME NEW q \in Requests, SigningAs(req'[q]), req'[q].pc # "issue"
               PROVE  req'[q].overtaken = TRUE \/ req'[q].saw = password'
    BY DEF SawTheLast, SigningAs
  <2>1. req'[q] = req[q]
    BY <1>5 DEF SigningAs
  <2>2. CASE a.kind \in SetsPassword
    BY <1>1, <1>2, <2>1, <2>2 DEF LateInv, Overtakes, SweepsAs
  <2>3. CASE a.kind \notin SetsPassword
    BY <1>2, <2>1, <2>3 DEF LateInv, SawTheLast
  <2> QED BY <2>2, <2>3
<1>9. \A p, q \in Requests : Overtakes(p, q)'
  <2> SUFFICES ASSUME NEW p \in Requests, NEW q \in Requests, SweepsAs(req'[p]), SigningAs(req'[q])
               PROVE  req'[q].overtaken = TRUE
    BY DEF Overtakes, SweepsAs, SigningAs
  <2>1. req'[p] = req[p] /\ req'[q] = req[q]
    BY <1>5 DEF SweepsAs, SigningAs
  <2> QED BY <2>1 DEF LateInv, Overtakes
<1> QED BY <1>6, <1>7, <1>8, <1>9 DEF LateInv

\* A session that outlives a password change was started with the new one,
\* kept by it, or signed in while it ran (changePassword, resetPassword).
THEOREM OnlyLateSessionsOutlive == Spec => []LateSessionsOnly
<1>1. Init => LateInv
  <2> SUFFICES ASSUME Init PROVE LateInv
    OBVIOUS
  <2>1. /\ req = [r \in Requests |-> Idle] /\ pwOf = [s \in Sessions |-> 0] /\ password = 0
        /\ Idle.kind = "none"
    BY DEF Init, Idle
  <2>2. \A r \in Requests : ~SweepsAs(req[r]) /\ ~SigningAs(req[r])
    BY <2>1 DEF SweepsAs, SigningAs, SetsPassword
  <2> QED BY <2>1, <2>2 DEF LateInv, LateSessionsOnly, LeavesLate, SawTheLast, Overtakes
<1>2. SessionInv /\ LateInv /\ [Next]_vars => LateInv'
  <2> SUFFICES ASSUME SessionInv, LateInv, [Next]_vars PROVE LateInv'
    OBVIOUS
  <2>1. ASSUME UNCHANGED vars \/ \E s \in Sessions : Forget(s) PROVE LateInv'
    <3>1. UNCHANGED <<session, pwOf, late, password, req>>
      BY <2>1 DEF vars, Forget, committed, sessionVars
    <3> QED BY <3>1 DEF LateInv, LateSessionsOnly, LeavesLate, SawTheLast, Overtakes, SweepsAs, SigningAs, Catches, Live
  <2>2. ASSUME NEW r \in Requests, Start(r) \/ Fail(r) PROVE LateInv'
    BY <2>2, StartLoginIsMarked, IdleOnward DEF Start
  <2>3. ASSUME NEW r \in Requests, Step(r) PROVE LateInv'
    BY <2>3, IdleOnward, WorkOnward, PickSessionsMarks, CommitLoginIsLate, CommitEndingSweeps DEF Step
  <2> QED BY <2>1, <2>2, <2>3 DEF Next
<1>3. LateInv => LateSessionsOnly
  BY DEF LateInv
<1> QED BY <1>1, <1>2, <1>3, SessionsHold, PTL DEF Spec
-----------------------------------------------------------------------------
(* What a sign-in has met.  Whoever it clashes with was started after it    *)
(* looked for the session of its device.                                    *)

Trying == {"find", "sessions", "sessionRows", "tokens", "tokenRows", "insert"}
SignsIn(a) == a.kind = "login" /\ a.pc \in Trying
HasLooked(a) == SignsIn(a) /\ a.pc # "find"

\* The sessions of a device that were committed after the first b, when the
\* sessions are ss and on the devices dv.
Newer(ss, dv, d, b) == {s \in Sessions : s > b /\ ss[s] # "unborn" /\ dv[s] = d}

HasMet(ss, dv, a) ==
  /\ SignsIn(a) => \A s \in Sessions : s > a.began \/ ss[s] # "unborn"
  /\ SignsIn(a) /\ a.retried = TRUE => Cardinality(Newer(ss, dv, a.dev, a.began)) >= 1
  /\ HasLooked(a) =>
       \A s \in Sessions : ss[s] = "live" /\ dv[s] = a.dev /\ s # a.ses =>
         /\ Cardinality(Newer(ss, dv, a.dev, a.began)) >= 1
         /\ a.retried = TRUE => Cardinality(Newer(ss, dv, a.dev, a.began)) >= 2
  /\ a.pc = "conflict" => Cardinality(Newer(ss, dv, a.dev, a.began)) >= 2

MetInv == \A r \in Requests : HasMet(session, deviceOf, req[r])

\* What any step does to the sessions: they are not forgotten, and stay where
\* they are and ended.
Ages(ss, dv, tt, ev) ==
  \A s \in Sessions : ss[s] # "unborn" =>
    tt[s] # "unborn" /\ ev[s] = dv[s] /\ (tt[s] = "live" => ss[s] = "live")

\* A request that goes on as it was, and one that is of no account.
GoesOnAs(d, a) ==
  /\ SignsIn(d) => SignsIn(a)
  /\ HasLooked(d) => HasLooked(a)
  /\ d.pc = "conflict" => a.pc = "conflict"
  /\ d.dev = a.dev /\ d.began = a.began /\ d.ses = a.ses /\ d.retried = a.retried
NoSignIn(d) == ~SignsIn(d) /\ d.pc # "conflict"

LEMMA NewerGrow ==
  ASSUME NEW ss, NEW dv, NEW tt, NEW ev, Ages(ss, dv, tt, ev), NEW d, NEW b
  PROVE  \E m, n \in Nat :
           /\ m = Cardinality(Newer(ss, dv, d, b)) /\ n = Cardinality(Newer(tt, ev, d, b)) /\ m <= n
           /\ \A s : s \in Newer(tt, ev, d, b) /\ s \notin Newer(ss, dv, d, b) => m + 1 <= n
<1>1. IsFiniteSet(Sessions)
  BY 1 \in Int, MaxSessions \in Int, FS_Interval DEF Sessions
<1>2. Newer(ss, dv, d, b) \subseteq Sessions /\ Newer(tt, ev, d, b) \subseteq Sessions
  BY DEF Newer
<1>3. Newer(ss, dv, d, b) \subseteq Newer(tt, ev, d, b)
  BY DEF Ages, Newer
<1>4. IsFiniteSet(Newer(ss, dv, d, b)) /\ IsFiniteSet(Newer(tt, ev, d, b))
  BY <1>1, <1>2, FS_Subset
<1>5. PICK m, n \in Nat : m = Cardinality(Newer(ss, dv, d, b)) /\ n = Cardinality(Newer(tt, ev, d, b))
  BY <1>4, FS_CardinalityType
<1>6. m <= n /\ (Newer(ss, dv, d, b) # Newer(tt, ev, d, b) => m < n)
  BY <1>3, <1>4, <1>5, FS_Subset
<1>7. ASSUME NEW s, s \in Newer(tt, ev, d, b), s \notin Newer(ss, dv, d, b) PROVE m + 1 <= n
  <2>1. m < n
    BY <1>6, <1>7
  <2> QED BY <1>5, <2>1
<1> QED BY <1>5, <1>6, <1>7

\* Who goes on has met at least as many as before, and whoever is new to it.
LEMMA MetStays ==
  ASSUME NEW ss, NEW dv, NEW tt, NEW ev, Ages(ss, dv, tt, ev),
         NEW a, HasMet(ss, dv, a), NEW d, GoesOnAs(d, a)
  PROVE  HasMet(tt, ev, d)
<1>1. PICK dev, b : dev = a.dev /\ dev = d.dev /\ b = a.began /\ b = d.began
  BY DEF GoesOnAs
<1>2. PICK m, n \in Nat :
        /\ m = Cardinality(Newer(ss, dv, dev, b)) /\ n = Cardinality(Newer(tt, ev, dev, b)) /\ m <= n
        /\ \A s : s \in Newer(tt, ev, dev, b) /\ s \notin Newer(ss, dv, dev, b) => m + 1 <= n
  BY NewerGrow
<1>3. SignsIn(d) /\ d.retried = TRUE => m >= 1
  BY <1>1, <1>2 DEF GoesOnAs, HasMet
<1>4. d.pc = "conflict" => m >= 2
  BY <1>1, <1>2 DEF GoesOnAs, HasMet
<1>5. ASSUME HasLooked(d), NEW s \in Sessions, tt[s] = "live", ev[s] = dev, s # d.ses
      PROVE  n >= 1 /\ (d.retried = TRUE => n >= 2)
  <2>1. CASE ss[s] # "unborn"
    <3>1. ss[s] = "live" /\ dv[s] = a.dev /\ s # a.ses /\ HasLooked(a) /\ d.retried = a.retried
      BY <1>1, <1>5, <2>1 DEF Ages, GoesOnAs
    <3>2. m >= 1 /\ (d.retried = TRUE => m >= 2)
      BY <1>1, <1>2, <3>1 DEF HasMet
    <3> QED BY <1>2, <3>2
  <2>2. CASE ss[s] = "unborn"
    <3>1. s > b
      BY <1>1, <1>5, <2>2 DEF HasMet, GoesOnAs, HasLooked
    <3>2. s \in Newer(tt, ev, dev, b) /\ s \notin Newer(ss, dv, dev, b)
      BY <1>5, <2>2, <3>1 DEF Newer
    <3>3. m + 1 <= n
      BY <1>2, <3>2
    <3>4. d.retried = TRUE => m >= 1
      BY <1>3, <1>5 DEF HasLooked
    <3> QED BY <1>2, <3>3, <3>4
  <2> QED BY <2>1, <2>2
<1>6. SignsIn(d) /\ d.retried = TRUE => n >= 1
  BY <1>2, <1>3
<1>7. d.pc = "conflict" => n >= 2
  BY <1>2, <1>4
<1>8. SignsIn(d) => \A s \in Sessions : s > d.began \/ tt[s] # "unborn"
  BY DEF HasMet, GoesOnAs, Ages
<1> QED BY <1>1, <1>2, <1>5, <1>6, <1>7, <1>8 DEF HasMet

\* A step after which each request goes on as it was, is of no account, or has
\* met whom it must.
LEMMA MetNext ==
  ASSUME MetInv, Ages(session, deviceOf, session', deviceOf'),
         \A q \in Requests : \/ GoesOnAs(req'[q], req[q]) \/ NoSignIn(req'[q])
                             \/ HasMet(session', deviceOf', req'[q])
  PROVE  MetInv'
<1>1. \A q \in Requests : HasMet(session', deviceOf', req'[q])
  <2> TAKE q \in Requests
  <2>1. HasMet(session, deviceOf, req[q])
    BY DEF MetInv
  <2>2. CASE GoesOnAs(req'[q], req[q])
    BY <2>1, <2>2, MetStays
  <2>3. CASE NoSignIn(req'[q])
    BY <2>3 DEF NoSignIn, HasMet, HasLooked
  <2> QED BY <2>2, <2>3
<1> QED BY <1>1 DEF MetInv

\* A step of one request, the others as they were.
LEMMA MetAlone ==
  ASSUME SessionInv, MetInv, Ages(session, deviceOf, session', deviceOf'),
         NEW r \in Requests, NEW d, req' = [req EXCEPT ![r] = d],
         GoesOnAs(d, req[r]) \/ NoSignIn(d) \/ HasMet(session', deviceOf', d)
  PROVE  MetInv'
<1>1. req'[r] = d /\ \A q \in Requests \ {r} : req'[q] = req[q]
  BY DEF SessionInv
<1>2. \A q \in Requests \ {r} : GoesOnAs(req'[q], req[q])
  BY <1>1 DEF GoesOnAs
<1> QED BY <1>1, <1>2, MetNext

LEMMA AgesQuietly ==
  ASSUME UNCHANGED <<session, deviceOf>>
  PROVE  Ages(session, deviceOf, session', deviceOf')
BY DEF Ages

\* The steps of a request that does not sign in, or that takes itself out.
LEMMA OutOfIt ==
  ASSUME SessionInv, MetInv, NEW r \in Requests, UNCHANGED <<session, deviceOf>>, NEW d,
         req' = [req EXCEPT ![r] = d], NoSignIn(d) \/ GoesOnAs(d, req[r])
  PROVE  MetInv'
BY AgesQuietly, MetAlone

LEMMA GoingMeets ==
  ASSUME SessionInv, MetInv, NEW r \in Requests, UNCHANGED <<session, deviceOf>>,
         NEW pc, Go(r, pc), pc # "conflict",
         req[r].kind # "login" \/ pc \notin Trying \/ req[r].pc \in Trying \ {"find"}
  PROVE  MetInv'
<1>1. PICK a : a = req[r]
  OBVIOUS
<1>2. PICK d : d = [a EXCEPT !.pc = pc]
  OBVIOUS
<1>3. a \in Request /\ req' = [req EXCEPT ![r] = d]
  BY <1>1, <1>2, RequestAt DEF Go
<1>4. d.pc = pc /\ d.kind = a.kind /\ d.dev = a.dev /\ d.began = a.began /\ d.ses = a.ses /\ d.retried = a.retried
  BY <1>2, <1>3 DEF Request
<1>5. CASE a.kind # "login" \/ pc \notin Trying
  BY <1>3, <1>4, <1>5, OutOfIt DEF NoSignIn, SignsIn
<1>6. CASE a.pc \in Trying \ {"find"} /\ a.kind = "login"
  <2>1. GoesOnAs(d, a)
    BY <1>4, <1>6 DEF GoesOnAs, SignsIn, HasLooked
  <2> QED BY <1>1, <1>3, <2>1, OutOfIt
<1> QED BY <1>1, <1>5, <1>6

LEMMA GoersMeet ==
  ASSUME SessionInv, MetInv, NEW r \in Requests,
         \/ SetCredential(r) \/ ValidateOk(r) \/ ValidateRefuses(r) \/ SessionsDone(r)
         \/ TokensDone(r) \/ Insert(r) \/ Issue(r)
  PROVE  MetInv'
<1>1. Shape(req[r])
  BY RequestAt
<1>2. UNCHANGED <<session, deviceOf>>
  BY DEF SetCredential, ValidateOk, ValidateRefuses, SessionsDone, TokensDone, Insert, Issue,
         committed, sessionVars
<1>3. CASE SetCredential(r)
  BY <1>1, <1>2, <1>3, GoingMeets DEF SetCredential, At, Shape, Placed, SetsPassword
<1>4. CASE ValidateOk(r) \/ ValidateRefuses(r)
  BY <1>2, <1>4, GoingMeets DEF ValidateOk, ValidateRefuses, Trying
<1>5. CASE SessionsDone(r)
  <2>1. PICK p \in {"commit", "tokens"} : Go(r, p)
    BY <1>5 DEF SessionsDone
  <2> QED BY <1>2, <1>5, <2>1, GoingMeets DEF SessionsDone, At, Trying
<1>6. CASE TokensDone(r)
  <2>1. PICK p : Go(r, p) /\ p \in {"insert", "commit", "sessions", "done"}
    BY <1>6 DEF TokensDone, TokenRows, At
  <2>2. req[r].kind # "login" \/ req[r].pc \in Trying \ {"find"}
    BY <1>1, <1>6 DEF TokensDone, TokenRows, Shape, Placed, Trying
  <2> QED BY <1>2, <2>1, <2>2, GoingMeets
<1>7. CASE Insert(r) \/ Issue(r)
  BY <1>2, <1>7, GoingMeets DEF Insert, Issue, Trying
<1> QED BY <1>3, <1>4, <1>5, <1>6, <1>7

\* Rows are picked and locked.
LEMMA RowsMeet ==
  ASSUME SessionInv, MetInv, NEW r \in Requests,
         \/ PickSessionTokens(r) \/ PickReusedTokens(r) \/ PickRotated(r)
         \/ \E s \in Sessions : LockSession(r, s)
         \/ \E t \in Tokens : LockToken(r, t)
  PROVE  MetInv'
<1>1. PICK a : a = req[r]
  OBVIOUS
<1>2. a \in Request /\ Shape(a)
  BY <1>1, RequestAt
<1>3. UNCHANGED <<session, deviceOf>>
  BY DEF PickSessionTokens, PickReusedTokens, PickRotated, PickTokens, LockSession, LockToken,
         committed, sessionVars
<1>4. CASE PickSessionTokens(r) \/ PickReusedTokens(r) \/ PickRotated(r)
  <2>1. PICK p, rows : /\ req' = [req EXCEPT ![r].pc = p, ![r].rows = rows]
                       /\ \/ a.pc = "tokens" /\ p = "tokenRows"
                          \/ a.pc = "reuse" /\ p = "reuseRows"
                          \/ a.pc = "rotate" /\ p = "rotateRows"
    BY <1>1, <1>4 DEF PickSessionTokens, PickReusedTokens, PickRotated, PickTokens, At
  <2>2. PICK d : d = [a EXCEPT !.pc = p, !.rows = rows]
    OBVIOUS
  <2>3. d.pc = p /\ d.kind = a.kind /\ d.dev = a.dev /\ d.began = a.began /\ d.ses = a.ses /\ d.retried = a.retried
    BY <1>2, <2>2 DEF Request
  <2>4. req' = [req EXCEPT ![r] = d]
    BY <1>1, <2>1, <2>2 DEF SessionInv
  <2>5. GoesOnAs(d, a)
    BY <1>2, <2>1, <2>3 DEF GoesOnAs, SignsIn, HasLooked, Trying
  <2> QED BY <1>1, <1>3, <2>4, <2>5, OutOfIt
<1>5. CASE \/ \E s \in Sessions : LockSession(r, s)
           \/ \E t \in Tokens : LockToken(r, t)
  <2>1. PICK d : req' = [req EXCEPT ![r] = d] /\ \E x, y, z :
                   d = [a EXCEPT !.rows = x, !.wroteS = y] \/ d = [a EXCEPT !.rows = x, !.wroteT = z]
    <3>1. CASE \E s \in Sessions : LockSession(r, s)
      <4>1. PICK s \in Sessions : LockSession(r, s)
        BY <3>1
      <4>2. PICK y : y = IF Live(s) THEN a.wroteS \cup {s} ELSE a.wroteS
        OBVIOUS
      <4>3. req' = [req EXCEPT ![r] = [a EXCEPT !.rows = a.rows \ {s}, !.wroteS = y]]
        BY <1>1, <4>1, <4>2 DEF LockSession, SessionInv
      <4> QED BY <4>3
    <3>2. CASE \E t \in Tokens : LockToken(r, t)
      <4>1. PICK t \in Tokens : LockToken(r, t)
        BY <3>2
      <4>2. PICK z : z = IF token[t] = "live" THEN a.wroteT \cup {<<t, TokenReason(a.pc)>>} ELSE a.wroteT
        OBVIOUS
      <4>3. req' = [req EXCEPT ![r] = [a EXCEPT !.rows = a.rows \ {t}, !.wroteT = z]]
        BY <1>1, <4>1, <4>2 DEF LockToken, SessionInv
      <4> QED BY <4>3
    <3> QED BY <1>5, <3>1, <3>2
  <2>2. d.pc = a.pc /\ d.kind = a.kind /\ d.dev = a.dev /\ d.began = a.began /\ d.ses = a.ses /\ d.retried = a.retried
    BY <1>2, <2>1 DEF Request
  <2>3. GoesOnAs(d, a)
    BY <2>2 DEF GoesOnAs, SignsIn, HasLooked
  <2> QED BY <1>1, <1>3, <2>1, <2>3, OutOfIt
<1> QED BY <1>4, <1>5

\* Requests begin, fail, and find the session of their device.
LEMMA StartsMeet ==
  ASSUME SessionInv, MetInv, NEW r \in Requests, Start(r)
  PROVE  MetInv'
<1>1. UNCHANGED <<session, deviceOf>>
  BY DEF Start, StartLogin, StartRefresh, StartEnding, committed, sessionVars
<1>2. ASSUME NEW dv \in Devices, StartLogin(r, dv) PROVE MetInv'
  <2>1. PICK o, b : /\ o = \E q \in Requests : Sweeps(q)
                    /\ b = NextSession - 1 /\ \A s \in Sessions : s > b \/ Born(s)
    BY SessionsSoFar
  <2>2. PICK d : d = [Idle EXCEPT !.kind = "login", !.pc = "find", !.dev = dv, !.began = b, !.saw = password, !.overtaken = o]
    OBVIOUS
  <2>3. d.pc = "find" /\ d.retried = FALSE /\ d.began = b /\ req' = [req EXCEPT ![r] = d]
    BY <1>2, <2>1, <2>2 DEF StartLogin, Idle
  <2>4. HasMet(session', deviceOf', d)
    BY <1>1, <2>1, <2>3 DEF HasMet, HasLooked, Born
  <2> QED BY <1>1, <2>3, <2>4, AgesQuietly, MetAlone
<1>3. ASSUME NEW t \in Tokens, NEW dv \in Devices, StartRefresh(r, t, dv) PROVE MetInv'
  <2>1. PICK d : /\ req' = [req EXCEPT ![r] = d]
                 /\ d \in {[Idle EXCEPT !.kind = "refresh", !.ses = tokenOf[t], !.tok = t, !.dev = dv, !.pc = "validate"],
                           [Idle EXCEPT !.kind = "reuse", !.ses = tokenOf[t], !.tok = t, !.dev = dv, !.pc = "reuse"]}
    BY <1>3 DEF StartRefresh
  <2>2. d.kind # "login" /\ d.pc # "conflict"
    BY <2>1 DEF Idle
  <2> QED BY <1>1, <2>1, <2>2, OutOfIt DEF NoSignIn, SignsIn
<1>4. ASSUME NEW k \in Kinds, NEW s \in Sessions, StartEnding(r, k, s) PROVE MetInv'
  <2>1. PICK p, u : p = (IF k \in SetsPassword THEN "credential" ELSE "sessions")
                    /\ u = (IF k = "reset" THEN None ELSE s)
    OBVIOUS
  <2>2. PICK d : d = [Idle EXCEPT !.kind = k, !.pc = p, !.ses = u]
    OBVIOUS
  <2>3. d.kind # "login" /\ d.pc # "conflict" /\ req' = [req EXCEPT ![r] = d]
    BY <1>4, <2>1, <2>2 DEF Idle, StartEnding
  <2> QED BY <1>1, <2>3, OutOfIt DEF NoSignIn, SignsIn
<1> QED BY <1>2, <1>3, <1>4 DEF Start

LEMMA FailMeets ==
  ASSUME SessionInv, MetInv, NEW r \in Requests, Fail(r)
  PROVE  MetInv'
<1>1. PICK d : d = Undone(r, "failed")
  OBVIOUS
<1>2. d.pc = "failed" /\ req' = [req EXCEPT ![r] = d] /\ UNCHANGED <<session, deviceOf>>
  BY <1>1, RequestAt DEF Undone, Request, Fail, committed, sessionVars
<1> QED BY <1>2, OutOfIt DEF NoSignIn, SignsIn, Trying

\* The device has one live session, which is the one that is found.
LEMMA FindMeets ==
  ASSUME SessionInv, MetInv, NEW r \in Requests, Find(r)
  PROVE  MetInv'
<1>1. PICK a : a = req[r]
  OBVIOUS
<1>2. a \in Request /\ Shape(a) /\ HasMet(session, deviceOf, a) /\ a.pc = "find" /\ OneLivePerDevice
  BY <1>1, RequestAt DEF Find, At, SessionInv, Store, MetInv
<1>3. session' = session /\ deviceOf' = deviceOf
  BY DEF Find, committed, sessionVars
<1>4. PICK d :
        /\ req' = [req EXCEPT ![r] = d]
        /\ d.kind = a.kind /\ d.dev = a.dev /\ d.began = a.began /\ d.retried = a.retried /\ d.pc # "conflict"
        /\ \A s \in Sessions : Live(s) /\ deviceOf[s] = a.dev => s = d.ses
  <2>1. CASE ~ \E s \in Sessions : Live(s) /\ deviceOf[s] = a.dev
    <3>1. PICK d : d = [a EXCEPT !.pc = "insert"]
      OBVIOUS
    <3>2. req' = [req EXCEPT ![r] = d]
      BY <1>1, <2>1, <3>1 DEF Find, Go
    <3>3. d.kind = a.kind /\ d.dev = a.dev /\ d.began = a.began /\ d.retried = a.retried /\ d.pc # "conflict"
      BY <1>2, <3>1 DEF Request
    <3> QED BY <2>1, <3>2, <3>3
  <2>2. CASE \E s \in Sessions : Live(s) /\ deviceOf[s] = a.dev
    <3>1. PICK s \in Sessions : /\ Live(s) /\ deviceOf[s] = a.dev
                                /\ req' = [req EXCEPT ![r].ses = s, ![r].pc = "sessions"]
      BY <1>1, <2>2 DEF Find
    <3>2. PICK d : d = [a EXCEPT !.ses = s, !.pc = "sessions"]
      OBVIOUS
    <3>3. req' = [req EXCEPT ![r] = d]
      BY <1>1, <3>1, <3>2 DEF SessionInv
    <3>4. d.kind = a.kind /\ d.dev = a.dev /\ d.began = a.began /\ d.retried = a.retried /\ d.pc # "conflict" /\ d.ses = s
      BY <1>2, <3>2 DEF Request
    <3> QED BY <1>2, <3>1, <3>3, <3>4 DEF OneLivePerDevice
  <2> QED BY <2>1, <2>2
<1>5. HasMet(session, deviceOf, d)
  <2>1. SignsIn(d) => SignsIn(a)
    BY <1>2, <1>4 DEF SignsIn, Trying
  <2> QED BY <1>2, <1>4, <2>1 DEF HasMet, Live
<1>6. HasMet(session', deviceOf', d)
  BY <1>3, <1>5
<1> QED BY <1>3, <1>4, <1>6, AgesQuietly, MetAlone

LEMMA PickMeets ==
  ASSUME SessionInv, MetInv, NEW r \in Requests, PickSessions(r)
  PROVE  MetInv'
<1>1. UNCHANGED <<session, deviceOf>>
  BY DEF PickSessions, committed, sessionVars
<1>2. ASSUME NEW q \in Requests PROVE GoesOnAs(req'[q], req[q])
  <2>1. PICK b : b = req[q]
    OBVIOUS
  <2>2. PICK e : e = req'[q]
    OBVIOUS
  <2>3. b \in Request
    BY <2>1, RequestAt
  <2>4. CASE q = r
    <3>1. PICK x : e = [b EXCEPT !.pc = "sessionRows", !.rows = x]
      BY <2>1, <2>2, <2>4 DEF PickSessions
    <3>2. /\ e.pc = "sessionRows" /\ b.pc = "sessions" /\ e.kind = b.kind /\ e.dev = b.dev /\ e.began = b.began /\ e.ses = b.ses
          /\ e.retried = b.retried
      BY <2>1, <2>3, <2>4, <3>1 DEF Request, PickSessions, At
    <3> QED BY <2>1, <2>2, <3>2 DEF GoesOnAs, SignsIn, HasLooked, Trying
  <2>5. CASE q # r
    <3>1. e = b \/ e = [b EXCEPT !.overtaken = TRUE]
      BY <2>1, <2>2, <2>5 DEF PickSessions
    <3>2. e.pc = b.pc /\ e.kind = b.kind /\ e.dev = b.dev /\ e.began = b.began /\ e.ses = b.ses /\ e.retried = b.retried
      BY <2>3, <3>1 DEF Request
    <3> QED BY <2>1, <2>2, <3>2 DEF GoesOnAs, SignsIn, HasLooked
  <2> QED BY <2>4, <2>5
<1> QED BY <1>1, <1>2, AgesQuietly, MetNext

\* The one it found it has revoked, so it clashes with a newer one.
LEMMA ClashMeets ==
  ASSUME SessionInv, MetInv, NEW r \in Requests, InsertClashes(r)
  PROVE  MetInv'
<1>1. PICK a : a = req[r]
  OBVIOUS
<1>2. /\ a \in Request /\ Shape(a) /\ FitsAs(a) /\ HasMet(session, deviceOf, a)
      /\ a.pc = "insert" /\ a.kind = "login"
  BY <1>1, RequestAt DEF InsertClashes, At, MetInv, Shape, Placed
<1>3. session' = session /\ deviceOf' = deviceOf
  BY DEF InsertClashes, committed, sessionVars
<1>4. PICK s \in Sessions : Live(s) /\ deviceOf[s] = a.dev /\ s \notin a.wroteS
  BY <1>1 DEF InsertClashes, Clashing
<1>5. s # a.ses
  BY <1>2, <1>4 DEF FitsAs, Covers, Alone, Writing
<1>6. /\ Cardinality(Newer(session, deviceOf, a.dev, a.began)) >= 1
      /\ a.retried = TRUE => Cardinality(Newer(session, deviceOf, a.dev, a.began)) >= 2
  BY <1>2, <1>4, <1>5 DEF HasMet, HasLooked, SignsIn, Trying, Live
<1>7. PICK d : d = IF a.retried THEN Undone(r, "conflict")
                   ELSE [Undone(r, "find") EXCEPT !.retried = TRUE, !.ses = None]
  OBVIOUS
<1>8. /\ d.dev = a.dev /\ d.began = a.began
      /\ (d.pc = "conflict" /\ a.retried = TRUE) \/ d.pc = "find"
  <2>1. CASE a.retried
    BY <1>1, <1>2, <1>7, <2>1 DEF Undone, Request
  <2>2. CASE ~a.retried
    BY <1>1, <1>2, <1>7, <2>2 DEF Undone, Request
  <2> QED BY <2>1, <2>2
<1>9. HasMet(session, deviceOf, d)
  BY <1>2, <1>6, <1>8 DEF HasMet, HasLooked, SignsIn, Trying
<1>10. HasMet(session', deviceOf', d)
  BY <1>3, <1>9
<1>11. req' = [req EXCEPT ![r] = d]
  BY <1>1, <1>7 DEF InsertClashes
<1> QED BY <1>3, <1>10, <1>11, AgesQuietly, MetAlone

\* The commits: one session more, or some fewer that live.
LEMMA CommitsMeet ==
  ASSUME SessionInv, MetInv, NEW r \in Requests, CommitLogin(r) \/ CommitRotate(r) \/ CommitEnding(r)
  PROVE  MetInv'
<1>1. PICK pc, u : pc \in {"issue", "done"} /\ req' = Finished(r, pc, u)
  BY DEF CommitLogin, CommitRotate, CommitEnding
<1>2. PICK d : d = [Undone(r, pc) EXCEPT !.ses = u]
  OBVIOUS
<1>3. d.pc = pc /\ req' = [req EXCEPT ![r] = d]
  BY <1>1, <1>2, RequestAt DEF Undone, Request, Finished
<1>4. NoSignIn(d)
  BY <1>1, <1>3 DEF NoSignIn, SignsIn, Trying
<1>5. \A s \in Sessions : Born(s) => Revoked(r)[s] # "unborn" /\ (Revoked(r)[s] = "live" => Live(s))
  BY Revokes, ReasonsEnd DEF Born, Live
<1>6. Ages(session, deviceOf, session', deviceOf')
  <2>1. CASE CommitLogin(r)
    <3>1. PICK s : s = NextSession
      OBVIOUS
    <3>2. /\ s \in Sessions /\ session' = [Revoked(r) EXCEPT ![s] = "live"]
          /\ deviceOf' = [deviceOf EXCEPT ![s] = req[r].dev]
      BY <2>1, <3>1 DEF CommitLogin
    <3>3. ~Born(s)
      <4>1. PICK k \in 0..MaxSessions : BornSessions = 1..k /\ s = k + 1
        BY <3>1, NextInOrder DEF SessionInv, Store, NextSession, BornSessions
      <4> QED BY <3>2, <4>1 DEF BornSessions
    <3>4. \A x \in Sessions \ {s} : session'[x] = Revoked(r)[x] /\ deviceOf'[x] = deviceOf[x]
      BY <3>2, Revokes DEF SessionInv, Store, Typed
    <3> QED BY <1>5, <3>3, <3>4 DEF Ages, Born, Live
  <2>2. CASE CommitRotate(r)
    BY <2>2, AgesQuietly DEF CommitRotate, sessionVars
  <2>3. CASE CommitEnding(r)
    BY <1>5, <2>3 DEF CommitEnding, Ages, Born, Live
  <2> QED BY <2>1, <2>2, <2>3
<1> QED BY <1>3, <1>4, <1>6, MetAlone

\* Two sign-ins that race for a device are settled by one retry: only who met
\* two others that were committed meanwhile is refused with 409
\* (startForDevice).
THEOREM RefusedHasMetTwo == Spec => []ConflictMeansThree
<1>1. Init => MetInv
  <2> SUFFICES ASSUME Init PROVE MetInv
    OBVIOUS
  <2>1. \A r \in Requests : req[r].pc = "idle"
    BY DEF Init, Idle
  <2> QED BY <2>1 DEF MetInv, HasMet, HasLooked, SignsIn, Trying
<1>2. SessionInv /\ MetInv /\ [Next]_vars => MetInv'
  <2> SUFFICES ASSUME SessionInv, MetInv, [Next]_vars PROVE MetInv'
    OBVIOUS
  <2>1. ASSUME UNCHANGED vars \/ \E s \in Sessions : Forget(s) PROVE MetInv'
    <3>1. UNCHANGED <<session, deviceOf, req>>
      BY <2>1 DEF vars, Forget, committed, sessionVars
    <3> QED BY <3>1 DEF MetInv, Born
  <2>2. ASSUME NEW r \in Requests, Start(r) \/ Fail(r) PROVE MetInv'
    BY <2>2, StartsMeet, FailMeets
  <2>3. ASSUME NEW r \in Requests, Step(r) PROVE MetInv'
    BY <2>3, GoersMeet, RowsMeet, FindMeets, PickMeets, ClashMeets, CommitsMeet DEF Step
  <2> QED BY <2>1, <2>2, <2>3 DEF Next
<1>3. MetInv => ConflictMeansThree
  BY DEF MetInv, HasMet, Newer, ConflictMeansThree, At, Born
<1> QED BY <1>1, <1>2, <1>3, SessionsHold, PTL DEF Spec
=============================================================================
