------------------------------ MODULE Requests ------------------------------
(***************************************************************************)
(* The guards a request goes through, in the order the application binds   *)
(* them: the rate limit, authentication, the workspace, the permission.    *)
(* Each reads the route's markers for itself; that they agree is checked   *)
(* at boot by an audit of every route, and trusted from then on.           *)
(***************************************************************************)
EXTENDS RateLimit

CONSTANTS
  Users, Admins,   \* who a valid token names
  Routes           \* the application's routes

VARIABLE http      \* [Calls -> record]: the request each call is

requestVars == <<limitVars, http>>

UserMarkers == {"noWorkspace", "anyMember", "workspaceKey"}
AdminMarkers == {"anyAdmin", "adminKey"}

(* What the decorators say of a route; strayKey: the key it names is in no *)
(* catalogue; onController: a permission marker sits on the class.         *)
Route == [audience : {"user", "admin"}, public : BOOLEAN,
          markers : SUBSET (UserMarkers \cup AdminMarkers \cup {"strayKey", "onController"})]

Allowed(audience) == IF audience = "user" THEN UserMarkers ELSE AdminMarkers

(* resolveRouteRequirement: one marker, of the route's audience, on the    *)
(* method; none at all on a public route.                                  *)
Requirement(r) ==
  IF r.public THEN IF r.markers = {} THEN "public" ELSE "fault"
  ELSE IF Cardinality(r.markers) # 1 \/ ~(r.markers \subseteq Allowed(r.audience)) THEN "fault"
  ELSE IF r.markers = {"workspaceKey"} THEN "workspace"
  ELSE IF r.markers = {"adminKey"} THEN "admin"
  ELSE "authenticated"

(* The audit refuses to start with any other route. *)
Audited == {r \in Route : Requirement(r) # "fault"}

ASSUME RequestsAssumption == Routes \subseteq Audited /\ Users # {} /\ Users \cap Admins = {}

NoRoute == [audience |-> "user", public |-> TRUE, markers |-> {}]

(* Whose token the request bears; that of an admin on a user's route, or a *)
(* user's on an admin's, stands for every token that is missing or bad.    *)
(* `knows` is the request context: what the guards have set in it.         *)
NoRequest == [at |-> "idle", route |-> NoRoute, caller |-> CHOOSE u \in Users : TRUE, knows |-> {}]

RequestsInit == LimitInit /\ http = [c \in Calls |-> NoRequest]

Where(c) == http[c].at
RouteOf(c) == http[c].route
Goto(c, at) == http' = [http EXCEPT ![c].at = at]
Learns(c, facts, at) == http' = [http EXCEPT ![c].at = at, ![c].knows = @ \cup facts]

Request(c, route, caller, checks) ==
  /\ Arrive(c, checks)
  /\ http' = [http EXCEPT ![c] = [NoRequest EXCEPT !.at = "limit", !.route = route,
                                                   !.caller = caller]]

(* An answer, whatever it is. *)
Answer(c) ==
  /\ Leave(c)
  /\ http' = [http EXCEPT ![c] = NoRequest]

TooMany(c) ==
  /\ Refuse(c)
  /\ http' = [http EXCEPT ![c] = NoRequest]

(* ApiAuthGuard: the token of a user opens no admin route, nor the reverse. *)
Authentic(c) ==
  http[c].caller \in (IF RouteOf(c).audience = "user" THEN Users ELSE Admins)

Authenticate(c) ==
  /\ Where(c) = "limit" /\ Phase(c) = "allowed"
  /\ \/ RouteOf(c).public /\ Goto(c, "tenancy") /\ UNCHANGED limitVars
     \/ /\ ~RouteOf(c).public /\ Authentic(c)
        /\ Learns(c, {IF RouteOf(c).audience = "user" THEN "userId" ELSE "adminId"}, "tenancy")
        /\ UNCHANGED limitVars
     \/ ~RouteOf(c).public /\ ~Authentic(c) /\ Answer(c)

\* Mutant: a route for any member is taken for one outside workspaces.
ExemptAnyMember(r) ==
  r.public \/ r.markers \cap {"noWorkspace", "anyMember"} # {} \/ r.audience # "user"

(* WorkspaceGuard.isExempt, and the audience it is for. *)
Exempt(r) == r.public \/ "noWorkspace" \in r.markers \/ r.audience # "user"

TenancySkipped(c) ==
  /\ Where(c) = "tenancy" /\ Exempt(RouteOf(c))
  /\ Goto(c, "permission")
  /\ UNCHANGED limitVars

(* PermissionGuard on the facts the request context holds. *)
Wired(c) ==
  /\ Requirement(RouteOf(c)) = "workspace" => {"userId", "workspaceId", "memberId"} \subseteq http[c].knows
  /\ Requirement(RouteOf(c)) = "admin" => "adminId" \in http[c].knows

Permission(c, granted) ==
  /\ Where(c) = "permission"
  /\ IF ~Wired(c) THEN Goto(c, "fault") /\ UNCHANGED limitVars
     ELSE IF Requirement(RouteOf(c)) \in {"workspace", "admin"} /\ ~granted THEN Answer(c)
     ELSE Goto(c, "handler") /\ UNCHANGED limitVars
-----------------------------------------------------------------------------
(* What a handler may read of its caller: CurrentUserId, CurrentAdminId,   *)
(* CurrentWorkspaceId and CurrentMemberId throw when it is not there.      *)
Needs(r) ==
  IF r.public THEN {}
  ELSE IF r.audience = "admin" THEN {"adminId"}
  ELSE IF r.markers = {"noWorkspace"} THEN {"userId"}
  ELSE {"userId", "workspaceId", "memberId"}

(* On every route the audit lets start, no guard meets a context another   *)
(* should have filled, and the handler finds the caller it asks for.       *)
HandlerHasItsCaller ==
  \A c \in Calls :
    /\ Where(c) # "fault"
    /\ Where(c) = "handler" => Needs(RouteOf(c)) \subseteq http[c].knows
=============================================================================
