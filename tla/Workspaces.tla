----------------------------- MODULE Workspaces -----------------------------
(***************************************************************************)
(* Workspaces: users ask for them, admins approve or reject them, and the  *)
(* owners enter those that are active.  A workspace is named by its slug,  *)
(* which is unique and never given up.  The cap on what one user owns is   *)
(* counted before the transaction that creates; that a user has one        *)
(* workspace pending at a time is a partial unique index.                  *)
(***************************************************************************)
EXTENDS Requests

CONSTANTS
  Slugs,        \* workspaces, by slug
  MaxOwned,     \* MAX_OWNED_WORKSPACES
  Attempts,     \* WORKSPACE_CREATE_ATTEMPTS
  Floor,        \* the floor's key, one address
  CreateByIp,   \* the key of create-workspace-by-ip
  Absent, None

ASSUME WorkspacesAssumption ==
  /\ MaxOwned \in Nat /\ Attempts \in Nat \ {0}
  /\ Floor \in Budgets /\ CreateByIp \in Budgets /\ Floor # CreateByIp
  /\ Checks = {<<Floor>>, <<Floor, CreateByIp>>}
  /\ None \notin Slugs \cup Users \cup {"pending", "active", "rejected"}

VARIABLES
  status,   \* [Slugs -> {None, "pending", "active", "rejected"}]
  owner,    \* [Slugs -> Users \cup {None}]
  cached,   \* workspace-access entries
  stale,    \* entries whose delete was lost, or that a load from before it filled
  work      \* [Calls -> record]: what each handler is at

workspaceVars == <<status, owner, cached, stale>>
vars == <<requestVars, workspaceVars, work>>

(***************************************************************************)
(* A handler: its operation; the slug asked for or entered; the outcome an *)
(* admin decides; the checks still to make; the attempt; the slug picked;  *)
(* the status loaded for the cache.  `overtaken`: a workspace of the same  *)
(* owner was reviewed since the checks began; `old`: the one it loaded.    *)
(***************************************************************************)
Idle == [op |-> "other", slug |-> None, outcome |-> None, todo |-> {}, attempt |-> 0,
         pick |-> None, loaded |-> None, overtaken |-> FALSE, old |-> FALSE, step |-> "none"]

Init ==
  /\ RequestsInit
  /\ status = [w \in Slugs |-> None]
  /\ owner = [w \in Slugs |-> None]
  /\ cached = [w \in Slugs |-> Absent]
  /\ stale = {}
  /\ work = [c \in Calls |-> Idle]

Caller(c) == http[c].caller
Does(c, op, step) == Where(c) = "handler" /\ work[c].op = op /\ work[c].step = step
Step(c, step) == work' = [work EXCEPT ![c].step = step]
Answers(c) == Answer(c) /\ work' = [work EXCEPT ![c] = Idle]

Taken == {w \in Slugs : status[w] # None}
Owned(u) == {w \in Slugs : owner[w] = u /\ status[w] \in {"pending", "active"}}
HasPending(u) == \E w \in Slugs : owner[w] = u /\ status[w] = "pending"

(* The routes that have a handler here; any other does nothing but answer. *)
CreateRoute == [audience |-> "user", public |-> FALSE, markers |-> {"noWorkspace"}]
ReviewRoute == [audience |-> "admin", public |-> FALSE, markers |-> {"adminKey"}]

Starts(c, w) == work' = [work EXCEPT ![c] = w]

Arrives(c) ==
  /\ \E caller \in Users \cup Admins :
       \/ \E slug \in Slugs \cup {None} :
            /\ Request(c, CreateRoute, caller, <<Floor, CreateByIp>>)
            /\ Starts(c, [Idle EXCEPT !.op = "create", !.slug = slug])
       \/ \E slug \in Taken, outcome \in {"active", "rejected"} :
            /\ Request(c, ReviewRoute, caller, <<Floor>>)
            /\ Starts(c, [Idle EXCEPT !.op = "review", !.slug = slug, !.outcome = outcome])
       \/ \E route \in Routes, slug \in Taken \cup {None} :
            /\ Exempt(route) => slug = None
            /\ Request(c, route, caller, <<Floor>>)
            /\ Starts(c, [Idle EXCEPT !.slug = slug])
  /\ UNCHANGED workspaceVars
-----------------------------------------------------------------------------
(* WorkspaceGuard and what it resolves. *)

(* MEMBERSHIP_STATUS_ACCESS and WORKSPACE_STATUS_ACCESS: the owner is the  *)
(* one member a workspace gets, and only an active workspace lets in.      *)
Admits(c, s) == owner[work[c].slug] = Caller(c) /\ s = "active"

Judge(c, s) ==
  IF Admits(c, s)
  THEN Learns(c, {"workspaceId", "memberId"}, "permission") /\ UNCHANGED <<limitVars, work>>
  ELSE Answers(c)

(* No header is 400.  `remember`: a hit is judged, a miss loads the row.   *)
Tenancy(c) ==
  /\ Where(c) = "tenancy" /\ ~Exempt(RouteOf(c))
  /\ IF work[c].slug = None THEN Answers(c)
     ELSE IF cached[work[c].slug] # Absent THEN Judge(c, cached[work[c].slug])
     ELSE /\ Goto(c, "storing")
          /\ work' = [work EXCEPT ![c].loaded = status[work[c].slug]]
          /\ UNCHANGED limitVars
  /\ UNCHANGED workspaceVars

StoreStatus(c) ==
  /\ Where(c) = "storing"
  /\ cached' = [cached EXCEPT ![work[c].slug] = work[c].loaded]
  /\ stale' = IF work[c].old THEN stale \cup {work[c].slug} ELSE stale \ {work[c].slug}
  /\ Judge(c, work[c].loaded)
  /\ UNCHANGED <<status, owner>>

(* The owner holds every permission; an admin, what their roles give.      *)
PermissionGiven(c) ==
  /\ \E granted \in BOOLEAN :
       /\ RouteOf(c).audience = "user" => granted
       /\ Permission(c, granted)
  /\ work' = IF Where(c)' = "handler"
             THEN [work EXCEPT ![c].step = "start",
                               ![c].todo = IF work[c].op = "create" THEN {"pending", "count"} ELSE {}]
             ELSE IF Where(c)' = "idle" THEN [work EXCEPT ![c] = Idle]
             ELSE work
  /\ UNCHANGED workspaceVars

(* A route that only reads. *)
Reads(c) ==
  /\ Does(c, "other", "start")
  /\ Answers(c)
  /\ UNCHANGED workspaceVars
-----------------------------------------------------------------------------
(* createWorkspace *)

\* Mutant: the limit is off by one.
CanCreatePastCap(c, check) ==
  /\ Does(c, "create", "start") /\ check \in work[c].todo
  /\ \/ check = "pending" /\ HasPending(Caller(c)) /\ Answers(c)
     \/ check = "count" /\ Cardinality(Owned(Caller(c))) > MaxOwned /\ Answers(c)
     \/ /\ check = "pending" => ~HasPending(Caller(c))
        /\ check = "count" => Cardinality(Owned(Caller(c))) <= MaxOwned
        /\ work' = [work EXCEPT ![c].todo = @ \ {check}]
        /\ UNCHANGED requestVars
  /\ UNCHANGED workspaceVars

(* assertCanCreate: two reads at once, in either order; 409 on either.     *)
CanCreate(c, check) ==
  /\ Does(c, "create", "start") /\ check \in work[c].todo
  /\ \/ check = "pending" /\ HasPending(Caller(c)) /\ Answers(c)
     \/ check = "count" /\ Cardinality(Owned(Caller(c))) >= MaxOwned /\ Answers(c)
     \/ /\ check = "pending" => ~HasPending(Caller(c))
        /\ check = "count" => Cardinality(Owned(Caller(c))) < MaxOwned
        /\ work' = [work EXCEPT ![c].todo = @ \ {check}]
        /\ UNCHANGED requestVars
  /\ UNCHANGED workspaceVars

(* An explicit slug that is taken is 409. *)
SlugChecked(c) ==
  /\ Does(c, "create", "start") /\ work[c].todo = {}
  /\ IF work[c].slug \in Taken THEN Answers(c)
     ELSE Step(c, "pick") /\ UNCHANGED requestVars
  /\ UNCHANGED workspaceVars

(* pickSlug: a candidate that is free; 409 when every one is taken.        *)
Pick(c) ==
  /\ Does(c, "create", "pick")
  /\ \/ /\ work[c].slug # None
        /\ work' = [work EXCEPT ![c].pick = work[c].slug, ![c].step = "insert"]
        /\ UNCHANGED requestVars
     \/ /\ work[c].slug = None
        /\ \E w \in Slugs \ Taken :
             work' = [work EXCEPT ![c].pick = w, ![c].step = "insert"]
        /\ UNCHANGED requestVars
     \/ work[c].slug = None /\ Taken # {} /\ Answers(c)
  /\ UNCHANGED workspaceVars

(* The transaction: the workspace and its owner's membership, or one of    *)
(* the two unique indexes.                                                 *)
Insert(c) ==
  /\ Does(c, "create", "insert")
  /\ IF work[c].pick \in Taken \/ HasPending(Caller(c))
     THEN /\ Step(c, "explain")
          /\ UNCHANGED <<requestVars, workspaceVars>>
     ELSE /\ status' = [status EXCEPT ![work[c].pick] = "pending"]
          /\ owner' = [owner EXCEPT ![work[c].pick] = Caller(c)]
          /\ Answers(c)
          /\ UNCHANGED <<cached, stale>>

(* explainCreateConflict, then another attempt. *)
ToldPending(c) == HasPending(Caller(c))
ToldTaken(c) == ~HasPending(Caller(c)) /\ work[c].slug # None

Explain(c) ==
  /\ Does(c, "create", "explain")
  /\ IF ToldPending(c) \/ ToldTaken(c) \/ work[c].attempt + 1 = Attempts
     THEN Answers(c)
     ELSE /\ work' = [work EXCEPT ![c].step = "pick", ![c].attempt = @ + 1]
          /\ UNCHANGED requestVars
  /\ UNCHANGED workspaceVars

(* A timeout, a lost connection: nothing is created. *)
CreateFails(c) ==
  /\ Does(c, "create", "insert")
  /\ Answers(c)
  /\ UNCHANGED workspaceVars
-----------------------------------------------------------------------------
(* review *)

(* The others learn of a commit: creates of the owner, loads of the row.   *)
Reviewed(c, w, next) ==
  work' = [d \in Calls |->
             IF d = c THEN next
             ELSE IF work[d].op = "create" /\ Where(d) = "handler" /\ Caller(d) = owner[w]
             THEN [work[d] EXCEPT !.overtaken = TRUE]
             ELSE IF Where(d) = "storing" /\ work[d].slug = w
             THEN [work[d] EXCEPT !.old = TRUE]
             ELSE work[d]]

\* Mutant: the row is updated whatever its status.
RecordReviewAnyway(c) ==
  /\ Does(c, "review", "start")
  /\ status' = [status EXCEPT ![work[c].slug] = work[c].outcome]
  /\ Reviewed(c, work[c].slug, [work[c] EXCEPT !.step = "drop"])
  /\ UNCHANGED <<requestVars, owner, cached, stale>>

(* recordReview: conditional on the row still being pending; else 409.     *)
RecordReview(c) ==
  /\ Does(c, "review", "start")
  /\ LET w == work[c].slug IN
       IF status[w] # "pending"
       THEN Answers(c) /\ UNCHANGED workspaceVars
       ELSE /\ status' = [status EXCEPT ![w] = work[c].outcome]
            /\ Reviewed(c, w, [work[c] EXCEPT !.step = "drop"])
            /\ UNCHANGED <<requestVars, owner, cached, stale>>

ReviewFails(c) ==
  /\ Does(c, "review", "start")
  /\ Answers(c)
  /\ UNCHANGED workspaceVars

(* After the commit: the access entry, or not when Redis refuses or the    *)
(* process dies.                                                           *)
DropStatus(c) ==
  /\ Does(c, "review", "drop")
  /\ cached' = [cached EXCEPT ![work[c].slug] = Absent]
  /\ stale' = stale \ {work[c].slug}
  /\ Answers(c)
  /\ UNCHANGED <<status, owner>>

DropLost(c) ==
  /\ Does(c, "review", "drop")
  /\ stale' = stale \cup {work[c].slug}
  /\ Answers(c)
  /\ UNCHANGED <<status, owner, cached>>

(* Admins who decided, their answer still to come. *)
Deciders(w) == {c \in Calls : Does(c, "review", "drop") /\ work[c].slug = w}

Expire(w) ==
  /\ cached[w] # Absent
  /\ cached' = [cached EXCEPT ![w] = Absent]
  /\ stale' = stale \ {w}
  /\ UNCHANGED <<requestVars, status, owner, work>>
-----------------------------------------------------------------------------
LimiterSteps(c) == LimitStep(c) /\ UNCHANGED <<http, workspaceVars, work>>

Refusals(c) ==
  /\ TooMany(c)
  /\ work' = [work EXCEPT ![c] = Idle]
  /\ UNCHANGED workspaceVars

Guards(c) ==
  /\ Authenticate(c) \/ TenancySkipped(c)
  /\ work' = IF Where(c)' = "idle" THEN [work EXCEPT ![c] = Idle] ELSE work
  /\ UNCHANGED workspaceVars

Create(c) ==
  \/ \E check \in {"pending", "count"} : CanCreate(c, check)
  \/ SlugChecked(c) \/ Pick(c) \/ Insert(c) \/ Explain(c) \/ CreateFails(c)

Review(c) ==
  RecordReview(c) \/ ReviewFails(c) \/ DropStatus(c) \/ DropLost(c)

KeyExpires(b) == WindowEnds(b) /\ UNCHANGED <<http, workspaceVars, work>>

Next ==
  \/ \E c \in Calls :
       \/ Arrives(c) \/ LimiterSteps(c) \/ Refusals(c)
       \/ Guards(c) \/ Tenancy(c) \/ StoreStatus(c) \/ PermissionGiven(c)
       \/ Reads(c) \/ Create(c) \/ Review(c)
  \/ \E b \in Budgets : KeyExpires(b)
  \/ \E w \in Slugs : Expire(w)

Spec == Init /\ [][Next]_vars
-----------------------------------------------------------------------------
(* A user owns more than the cap only through a create during whose checks *)
(* another workspace of theirs was reviewed: one made after it counted.    *)
OwnedCapIsExcused ==
  [][\A u \in Users :
       Owned(u)' \ Owned(u) # {} =>
         \/ Cardinality(Owned(u)') <= MaxOwned
         \/ \E c \in Calls : /\ Caller(c) = u /\ work[c].overtaken
                            /\ Does(c, "create", "insert") /\ Where(c)' = "idle"]_vars

(* Of any number of admins deciding on a workspace one is answered as      *)
(* having decided, and it stays as that one decided (recordReview).        *)
OneDecision ==
  [][\A w \in Slugs :
       /\ status[w] \in {"active", "rejected"} => status'[w] = status[w]
       /\ Deciders(w)' \ Deciders(w) # {} => status[w] = "pending" /\ status'[w] # "pending"]_vars

(* The owner of a workspace that was reviewed reads its old status only    *)
(* while the reviewer's delete is to come, or was lost, or a load from     *)
(* before the review was stored after it.                                  *)
StatusIsExcused ==
  \A w \in Slugs :
    cached[w] \notin {Absent, status[w]} =>
      w \in stale \/ Deciders(w) # {}

(* 409 WORKSPACE_SLUG_TAKEN: an explicit slug in use. *)
SlugTakenMeansInUse ==
  [][\A c \in Calls :
       Does(c, "create", "explain") /\ ToldTaken(c) /\ Where(c)' = "idle" =>
         work[c].slug \in Taken]_vars
=============================================================================
