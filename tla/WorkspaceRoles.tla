--------------------------- MODULE WorkspaceRoles ---------------------------
(***************************************************************************)
(* The custom roles of one workspace: created, edited and deleted by       *)
(* members whose own permissions come from such roles, through two caches. *)
(*                                                                         *)
(* A request resolves its caller's grant once, in the guard, and acts on   *)
(* it to the end.  Its transaction runs at READ COMMITTED: a statement     *)
(* picks the rows it can see and then waits for those another transaction  *)
(* holds.  An edit that names the role locks its row; one that only sets   *)
(* permissions passes no column to the update, which then writes nothing   *)
(* and locks nothing.                                                      *)
(***************************************************************************)
EXTENDS Naturals, FiniteSets

CONSTANTS
  Requests,        \* requests the processes serve at a time
  Members,         \* members who are not the owner
  Owner,           \* the workspace's owner
  Custom,          \* ids of custom roles
  Default,         \* ids of default roles
  DefaultsFor,     \* the catalogue: [Default -> SUBSET Keys]
  Keys,            \* the catalogue's permission keys
  Restricted,      \* those that belong to the owner alone
  Manage,          \* workspace.role.manage, what the write routes ask for
  Wanted,          \* the sets of permissions a request may ask for
  InitialRoles,    \* the roles each member holds: [Members -> SUBSET roles]
  InitialGrants,   \* the grants of the custom roles there are at first
  MaxCustomRoles,  \* MAX_CUSTOM_ROLES
  MaxRequests,     \* bound on the requests served
  Absent, None

ASSUME RolesAssumption ==
  /\ Manage \in Keys \ Restricted
  /\ Restricted \subseteq Keys
  /\ Wanted \subseteq SUBSET Keys
  /\ DefaultsFor \in [Default -> SUBSET (Keys \ Restricted)]
  /\ InitialRoles \in [Members -> SUBSET (DOMAIN InitialGrants \cup Default)]
  /\ InitialGrants \in [DOMAIN InitialGrants -> SUBSET (Keys \ Restricted)]
  /\ DOMAIN InitialGrants \subseteq Custom
  /\ Custom \cap Default = {} /\ None \notin Custom
  /\ IsFiniteSet(DOMAIN InitialGrants) /\ IsFiniteSet(Requests) /\ Requests # {}
  /\ MaxCustomRoles \in Nat /\ MaxRequests \in Nat
  /\ Cardinality(DOMAIN InitialGrants) <= MaxCustomRoles
  /\ Owner \notin Members

VARIABLES
  roles,       \* the workspace's rows of workspace_roles
  grants,      \* workspace_role_permissions: [Custom -> SUBSET Keys]
  held,        \* workspace_member_roles: [Members -> SUBSET (Custom \cup Default)]
  rolesCache,  \* workspace-member-roles entries
  grantsCache, \* workspace-role-grants entries
  req,         \* what each request does and where it stands
  fresh,       \* ids no role has had
  served,      \* requests begun
  stale        \* roles whose cached grants a late store or a lost delete left behind

vars == <<roles, grants, held, rolesCache, grantsCache, req, fresh, served, stale>>

(***************************************************************************)
(* A request: its caller, operation and input; `can`, the grant its guard  *)
(* resolved; `loaded`, what it read for the cache; `gone` and `added`, the *)
(* grants its transaction has deleted and inserted; `left`, those still to *)
(* insert; `seen`, those its delete found, and `skipped`, those another    *)
(* deleted first; `meets`, the writes of the same role that committed      *)
(* since it read the role; `old`, the roles that changed since it loaded   *)
(* them; `holders`, whose entries the removal of a role will drop.         *)
(***************************************************************************)
Idle == [phase |-> "idle", caller |-> Owner, op |-> "read", role |-> None, want |-> {},
         renames |-> FALSE, mine |-> {}, can |-> {}, loaded |-> <<>>, seen |-> {}, gone |-> {},
         skipped |-> {}, added |-> {}, left |-> {}, meets |-> {}, old |-> {}, holders |-> {}]

Init ==
  /\ roles = DOMAIN InitialGrants
  /\ grants = [r \in Custom |-> IF r \in DOMAIN InitialGrants THEN InitialGrants[r] ELSE {}]
  /\ held = InitialRoles
  /\ rolesCache = [m \in Members |-> Absent]
  /\ grantsCache = [r \in Custom |-> Absent]
  /\ req = [q \in Requests |-> Idle]
  /\ fresh = Custom \ DOMAIN InitialGrants
  /\ served = 0
  /\ stale = {}

At(q, p) == req[q].phase = p
Set(q, r) == req' = [req EXCEPT ![q] = r]
Goto(q, p) == Set(q, [req[q] EXCEPT !.phase = p])
Table == <<roles, grants, held, fresh>>
Caches == <<rolesCache, grantsCache, stale>>
-----------------------------------------------------------------------------
(* The guard: the caller's roles, what they grant, and whether the route's *)
(* permission is among it.                                                 *)

CustomOf(q) == req[q].mine \cap Custom

(* permissionsOf: default roles from the catalogue, custom ones from what  *)
(* was read, restricted keys from neither.                                 *)
PermissionsOf(mine, read) ==
  UNION {IF r \in Default THEN DefaultsFor[r] ELSE read[r] \ Restricted : r \in mine}

(* The owner holds no role and every permission. *)
Arrive(q, caller, op, role, want, renames) ==
  /\ At(q, "idle") /\ served < MaxRequests
  /\ served' = served + 1
  /\ Set(q, [Idle EXCEPT !.phase = IF caller = Owner THEN "guard" ELSE "roles",
                         !.caller = caller, !.op = op, !.role = role, !.want = want,
                         !.renames = renames, !.can = IF caller = Owner THEN Keys ELSE {}])
  /\ UNCHANGED <<Table, Caches>>

(* rolesOf: `remember`, with no lock: a hit, or a load that is stored later. *)
ReadRoles(q) ==
  /\ At(q, "roles")
  /\ LET entry == rolesCache[req[q].caller] IN
       Set(q, IF entry # Absent
              THEN [req[q] EXCEPT !.phase = "grants", !.mine = entry]
              ELSE [req[q] EXCEPT !.phase = "storeRoles", !.mine = held[req[q].caller]])
  /\ UNCHANGED <<Table, Caches, served>>

StoreRoles(q) ==
  /\ At(q, "storeRoles")
  /\ rolesCache' = [rolesCache EXCEPT ![req[q].caller] = req[q].mine]
  /\ Goto(q, "grants")
  /\ UNCHANGED <<Table, grantsCache, stale, served>>

(* customGrants: one getMany, one query for every role it missed, setMany. *)
ReadGrants(q) ==
  /\ At(q, "grants")
  /\ LET missing == {r \in CustomOf(q) : grantsCache[r] = Absent}
         read == [r \in CustomOf(q) |-> IF r \in missing THEN grants[r] ELSE grantsCache[r]] IN
       Set(q, [req[q] EXCEPT !.phase = IF missing = {} THEN "guard" ELSE "storeGrants",
                             !.loaded = [r \in missing |-> grants[r]],
                             !.can = PermissionsOf(req[q].mine, read)])
  /\ UNCHANGED <<Table, Caches, served>>

StoreGrants(q) ==
  /\ At(q, "storeGrants")
  /\ LET loaded == req[q].loaded IN
       /\ grantsCache' = [r \in Custom |->
                            IF r \in DOMAIN loaded THEN loaded[r] ELSE grantsCache[r]]
       /\ stale' = (stale \ DOMAIN loaded) \cup (DOMAIN loaded \cap req[q].old)
  /\ Set(q, [req[q] EXCEPT !.phase = "guard", !.loaded = <<>>, !.old = {}])
  /\ UNCHANGED <<Table, rolesCache, served>>

End(q) == Set(q, Idle)

(* 403 before the handler when the route's permission is not held. *)
Guard(q) ==
  /\ At(q, "guard")
  /\ IF req[q].op = "read" \/ Manage \notin req[q].can THEN End(q) ELSE Goto(q, "check")
  /\ UNCHANGED <<Table, Caches, served>>
-----------------------------------------------------------------------------
(* What a write checks before its transaction. *)

(* checkGrantable: no restricted key (422), none beyond the caller (403). *)
Grantable(q) == req[q].want \cap Restricted = {} /\ req[q].want \subseteq req[q].can

\* Mutant: only the set asked for is judged, not the role as it stands.
EditableBeyond(q) == req[q].role \in roles

(* findEditableOrThrow and assertRoleWithinCaller: 404, 422 for a default  *)
(* role, 403 for a role that holds what the caller lacks.                  *)
Editable(q) == req[q].role \in roles /\ grants[req[q].role] \ Restricted \subseteq req[q].can

Check(q) ==
  /\ At(q, "check")
  /\ CASE req[q].op = "create" -> IF Grantable(q) THEN Goto(q, "count") ELSE End(q)
       [] req[q].op = "update" ->
            IF Editable(q) /\ Grantable(q) THEN Goto(q, "update") ELSE End(q)
       [] req[q].op = "rename" -> IF Editable(q) THEN Goto(q, "update") ELSE End(q)
       [] req[q].op = "remove" ->     \* 409 while an invitation names the role
            \/ Editable(q) /\ Goto(q, "unassign")
            \/ End(q)
  /\ UNCHANGED <<Table, Caches, served>>
-----------------------------------------------------------------------------
(* Locks.  A row of the role is held exclusively by the edit that updated  *)
(* it or the delete that took it, and shared by a transaction that has     *)
(* inserted a grant of it, which only the delete is kept out by.           *)

SameRole(q, p) == p # q /\ req[p].role = req[q].role

Updated(p) == req[p].renames /\ req[p].phase \in {"delete", "waitDelete", "insert", "commit"}
Deleted(p) == req[p].phase \in {"cascade", "commitRemove"}
RowHeld(q) == \E p \in Requests : SameRole(q, p) /\ (Updated(p) \/ Deleted(p))

(* Rows of the role's grants another transaction has deleted or inserted.  *)
Gone(q) == UNION {req[p].gone : p \in {p \in Requests : SameRole(q, p)}}
Added(q) == UNION {req[p].added : p \in {p \in Requests : SameRole(q, p)}}

\* Mutant: the limit is off by one.
CountPastLimit(q) ==
  /\ At(q, "count")
  /\ IF Cardinality(roles) > MaxCustomRoles THEN End(q) ELSE Goto(q, "create")
  /\ UNCHANGED <<Table, Caches, served>>

(* createCustom: the count and the insert are two statements. *)
Count(q) ==
  /\ At(q, "count")
  /\ IF Cardinality(roles) >= MaxCustomRoles THEN End(q) ELSE Goto(q, "create")
  /\ UNCHANGED <<Table, Caches, served>>

(* The new role and its grants become visible together. *)
CreateCustom(q) ==
  /\ At(q, "create")
  /\ \E r \in fresh :
       /\ fresh' = fresh \ {r}
       /\ roles' = roles \cup {r}
       /\ grants' = [grants EXCEPT ![r] = req[q].want]
  /\ End(q)
  /\ UNCHANGED <<held, Caches, served>>

\* Mutant: the name is written last, so nothing locks the row first.
UpdateCustomUnlocked(q) ==
  /\ At(q, "update")
  /\ IF req[q].role \notin roles THEN End(q)
     ELSE Goto(q, IF req[q].op = "rename" THEN "commit" ELSE "delete")
  /\ UNCHANGED <<Table, Caches, served>>

(* updateCustom: a missing row is an error; with no column to set, no lock. *)
UpdateCustom(q) ==
  /\ At(q, "update")
  /\ req[q].renames => ~RowHeld(q)
  /\ IF req[q].role \notin roles THEN End(q)
     ELSE Goto(q, IF req[q].op = "rename" THEN "commit" ELSE "delete")
  /\ UNCHANGED <<Table, Caches, served>>

(* replaceGrants, first statement: it takes the rows it sees, and waits    *)
(* for those another has deleted.                                          *)
DeleteGrants(q) ==
  /\ At(q, "delete")
  /\ LET rows == grants[req[q].role] IN
       Set(q, [req[q] EXCEPT !.phase = IF rows \cap Gone(q) = {} THEN "insert" ELSE "waitDelete",
                             !.gone = rows \ Gone(q), !.seen = rows, !.skipped = {}, !.left = req[q].want])
  /\ UNCHANGED <<Table, Caches, served>>

(* Rows the other did delete are skipped; those it gave back are taken.    *)
DeleteGrantsEnds(q) ==
  /\ At(q, "waitDelete")
  /\ req[q].seen \cap Gone(q) = {}
  /\ Set(q, [req[q] EXCEPT !.phase = "insert", !.gone = req[q].seen \ req[q].skipped])
  /\ UNCHANGED <<Table, Caches, served>>

(* Second statement, row by row in the order the request gave.  A row      *)
(* another is changing is waited for, one that is there is left, and a new *)
(* one needs the role it belongs to.                                       *)
AddGrant(q, k) ==
  /\ At(q, "insert") /\ k \in req[q].left
  /\ k \notin Gone(q) \cup Added(q)
  /\ \/ /\ k \in grants[req[q].role] \ req[q].gone
        /\ Set(q, [req[q] EXCEPT !.left = @ \ {k}])
     \/ /\ k \notin grants[req[q].role] \ req[q].gone
        /\ \A p \in Requests : SameRole(q, p) => ~Deleted(p)
        /\ IF req[q].role \notin roles THEN End(q)
           ELSE Set(q, [req[q] EXCEPT !.left = @ \ {k}, !.added = @ \cup {k}])
  /\ UNCHANGED <<Table, Caches, served>>

GrantsAdded(q) ==
  /\ At(q, "insert") /\ req[q].left = {}
  /\ Goto(q, "commit")
  /\ UNCHANGED <<Table, Caches, served>>

(* findHolderIds and removeRoleFromAll. *)
Unassign(q) ==
  /\ At(q, "unassign")
  /\ Set(q, [req[q] EXCEPT !.phase = "deleteRow",
                           !.holders = {m \in Members : req[q].role \in held[m]}])
  /\ UNCHANGED <<Table, Caches, served>>

(* deleteCustom: the row, then its grants by cascade. *)
DeleteCustom(q) ==
  /\ At(q, "deleteRow")
  /\ ~RowHeld(q) /\ Added(q) = {}
  /\ IF req[q].role \notin roles THEN End(q) ELSE Goto(q, "cascade")
  /\ UNCHANGED <<Table, Caches, served>>

Cascade(q) ==
  /\ At(q, "cascade")
  /\ grants[req[q].role] \cap Gone(q) = {}
  /\ Set(q, [req[q] EXCEPT !.phase = "commitRemove", !.gone = grants[req[q].role]])
  /\ UNCHANGED <<Table, Caches, served>>
-----------------------------------------------------------------------------
(* The end of a transaction, and what follows it. *)

InTransaction ==
  {"update", "delete", "waitDelete", "insert", "commit",
   "unassign", "deleteRow", "cascade", "commitRemove"}

(* What the others learn from a commit of q: a waiting delete, that the    *)
(* rows are gone; a load, that it is old; a write, that it was overtaken.  *)
Met(q, p) ==
  IF SameRole(q, p) /\ req[p].phase \in InTransaction
  THEN [req[p] EXCEPT !.skipped = @ \cup req[q].gone,
                      !.meets = @ \cup {[want |-> req[q].want, renames |-> req[q].renames]}]
  ELSE IF p # q /\ req[p].phase = "storeGrants"
  THEN [req[p] EXCEPT !.old = @ \cup {req[q].role}]
  ELSE req[p]

Committed(q, next) ==
  req' = [p \in Requests |-> IF p = q THEN next ELSE Met(q, p)]

Dropping(q) == [req[q] EXCEPT !.phase = "dropGrants", !.gone = {}, !.added = {}]

CommitUpdate(q) ==
  /\ At(q, "commit")
  /\ LET r == req[q].role IN
       grants' = [grants EXCEPT ![r] = (@ \ req[q].gone) \cup req[q].added]
  /\ IF req[q].op = "rename" THEN End(q) ELSE Committed(q, Dropping(q))
  /\ UNCHANGED <<roles, held, fresh, Caches, served>>

CommitRemove(q) ==
  /\ At(q, "commitRemove")
  /\ LET r == req[q].role IN
       /\ roles' = roles \ {r}
       /\ grants' = [grants EXCEPT ![r] = {}]
       /\ held' = [m \in Members |-> held[m] \ {r}]
  /\ Committed(q, Dropping(q))
  /\ UNCHANGED <<fresh, Caches, served>>

\* Mutant: the entry of a removed role is left to expire.
DropGrantsOfEdits(q) ==
  /\ At(q, "dropGrants")
  /\ grantsCache' = IF req[q].op = "remove" THEN grantsCache
                    ELSE [grantsCache EXCEPT ![req[q].role] = Absent]
  /\ stale' = stale \ {req[q].role}
  /\ IF req[q].op = "remove" THEN Goto(q, "dropRoles") ELSE End(q)
  /\ UNCHANGED <<Table, rolesCache, served>>

(* After the commit: the grants' entry, then, of a removed role, the       *)
(* entries of its holders.                                                 *)
DropGrants(q) ==
  /\ At(q, "dropGrants")
  /\ grantsCache' = [grantsCache EXCEPT ![req[q].role] = Absent]
  /\ stale' = stale \ {req[q].role}
  /\ IF req[q].op = "remove" THEN Goto(q, "dropRoles") ELSE End(q)
  /\ UNCHANGED <<Table, rolesCache, served>>

DropRoles(q) ==
  /\ At(q, "dropRoles")
  /\ rolesCache' = [m \in Members |-> IF m \in req[q].holders THEN Absent ELSE rolesCache[m]]
  /\ End(q)
  /\ UNCHANGED <<Table, grantsCache, stale, served>>

(* Redis refuses, or the process dies: the entries stay until they expire. *)
DropLost(q) ==
  /\ req[q].phase \in {"dropGrants", "dropRoles"}
  /\ stale' = IF At(q, "dropGrants") THEN stale \cup {req[q].role} ELSE stale
  /\ End(q)
  /\ UNCHANGED <<Table, rolesCache, grantsCache, served>>

(* A name that is taken, a timeout, a lost connection, a crash.            *)
Rollback(q) ==
  /\ req[q].phase \in InTransaction \cup {"count", "create"}
  /\ End(q)
  /\ UNCHANGED <<Table, Caches, served>>

ExpireGrants(r) ==
  /\ grantsCache[r] # Absent
  /\ grantsCache' = [grantsCache EXCEPT ![r] = Absent]
  /\ stale' = stale \ {r}
  /\ UNCHANGED <<Table, rolesCache, req, served>>

ExpireRoles(m) ==
  /\ rolesCache[m] # Absent
  /\ rolesCache' = [rolesCache EXCEPT ![m] = Absent]
  /\ UNCHANGED <<Table, grantsCache, stale, req, served>>
-----------------------------------------------------------------------------
(* Which transaction another may be waiting for; PostgreSQL ends one of    *)
(* two that wait for each other.                                           *)
Waits(q, p) ==
  /\ SameRole(q, p)
  /\ \/ At(q, "update") /\ req[q].renames /\ (Updated(p) \/ Deleted(p))
     \/ At(q, "waitDelete") /\ req[q].seen \cap req[p].gone # {}
     \/ At(q, "insert") /\ req[q].left \cap (req[p].gone \cup req[p].added) # {}
     \/ At(q, "insert") /\ req[q].left # {} /\ Deleted(p)
     \/ /\ At(q, "deleteRow")
        /\ Updated(p) \/ Deleted(p) \/ req[p].added # {}
     \/ At(q, "cascade") /\ grants[req[q].role] \cap req[p].gone # {}

Victim(q) ==
  /\ \E p \in Requests : Waits(q, p) /\ Waits(p, q)
  /\ End(q)
  /\ UNCHANGED <<Table, Caches, served>>

Arrives(q) ==
  \E caller \in Members \cup {Owner} :
    \/ Arrive(q, caller, "read", None, {}, FALSE)
    \/ \E want \in Wanted : Arrive(q, caller, "create", None, want, FALSE)
    \/ \E r \in Custom \ fresh :
         \/ \E want \in Wanted, renames \in BOOLEAN : Arrive(q, caller, "update", r, want, renames)
         \/ Arrive(q, caller, "rename", r, {}, TRUE)
         \/ Arrive(q, caller, "remove", r, {}, FALSE)

(* A step the request takes by itself. *)
Step(q) ==
  \/ ReadRoles(q) \/ StoreRoles(q) \/ ReadGrants(q) \/ StoreGrants(q) \/ Guard(q) \/ Check(q)
  \/ Count(q) \/ CreateCustom(q)
  \/ UpdateCustom(q) \/ DeleteGrants(q) \/ DeleteGrantsEnds(q)
  \/ \E k \in Keys : AddGrant(q, k)
  \/ GrantsAdded(q) \/ CommitUpdate(q)
  \/ Unassign(q) \/ DeleteCustom(q) \/ Cascade(q) \/ CommitRemove(q)
  \/ DropGrants(q) \/ DropRoles(q) \/ Victim(q)

Next ==
  \/ \E q \in Requests : Arrives(q) \/ Step(q) \/ Rollback(q) \/ DropLost(q)
  \/ \E r \in Custom : ExpireGrants(r)
  \/ \E m \in Members : ExpireRoles(m)

(* A request that can go on does; entries expire.  Nothing else is promised. *)
Fairness ==
  /\ \A q \in Requests : WF_vars(Step(q))
  /\ \A r \in Custom : WF_vars(ExpireGrants(r))
  /\ \A m \in Members : WF_vars(ExpireRoles(m))

Spec == Init /\ [][Next]_vars /\ Fairness
-----------------------------------------------------------------------------
(* Every variable has its type, a role that is gone has no grant and no    *)
(* holder, and no grant is restricted.                                     *)
TypeOK ==
  /\ roles \subseteq Custom /\ fresh \subseteq Custom \ roles
  /\ grants \in [Custom -> SUBSET (Keys \ Restricted)]
  /\ \A r \in Custom \ roles : grants[r] = {} /\ \A m \in Members : r \notin held[m]
  /\ \A r \in Custom : grantsCache[r] = Absent \/ grantsCache[r] \subseteq Keys
  /\ \A m \in Members : rolesCache[m] = Absent \/ rolesCache[m] \subseteq Custom \cup Default
  /\ served \in 0..MaxRequests /\ stale \subseteq Custom

(* PATCH leaves the role with the set it was given, unless another edit of *)
(* the role committed in between and one of the two left the role's row    *)
(* unlocked: then with no more than the two sets (replaceGrants).          *)
ReplacesTheSet ==
  [][\A q \in Requests :
       At(q, "commit") /\ At(q, "dropGrants")' =>
         LET now == grants'[req[q].role]
             others == {e \in req[q].meets : ~e.renames \/ ~req[q].renames} IN
         \/ now = req[q].want
         \/ /\ others # {}
            /\ now \subseteq req[q].want \cup UNION {e.want : e \in others}]_vars

(* A role holding what the caller lacks is read-only to them: what a write *)
(* takes from a role its caller holds, but for what another write gave the *)
(* role after the caller was judged (assertRoleWithinCaller).              *)
ReadOnlyBeyondCaller ==
  [][\A q \in Requests :
       req[q].phase \in {"commit", "commitRemove"} /\ At(q, "dropGrants")' =>
         grants[req[q].role] \ grants'[req[q].role]
           \subseteq req[q].can \cup UNION {e.want : e \in req[q].meets}]_vars

(* A cached set differs from the role's grants only while the edit's own   *)
(* delete is to come, after that delete was lost, or when a load from      *)
(* before the edit was stored after the delete.                            *)
CachedIsExcused ==
  \A r \in Custom :
    grantsCache[r] \notin {Absent, grants[r]} =>
      r \in stale \/ \E q \in Requests : req[q].role = r /\ At(q, "dropGrants")

(* Two transactions wait for each other only if one of them is an edit     *)
(* that did not lock the role's row.                                       *)
DeadlockNeedsUnlocked ==
  \A q, p \in Requests :
    Waits(q, p) /\ Waits(p, q) =>
      \E x \in {q, p} : req[x].op = "update" /\ ~req[x].renames

(* A workspace has more custom roles than the limit only by creates that   *)
(* overlapped: never more than one for each other request there is.        *)
CapIsExcused == Cardinality(roles) < MaxCustomRoles + Cardinality(Requests)

(* Every request ends, whoever holds what it waits for. *)
RequestsEnd == \A q \in Requests : ~At(q, "idle") ~> At(q, "idle")
=============================================================================
