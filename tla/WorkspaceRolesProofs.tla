------------------------ MODULE WorkspaceRolesProofs ------------------------
(***************************************************************************)
(* Theorems about WorkspaceRoles, for any number of requests, members,     *)
(* roles and permissions.                                                  *)
(***************************************************************************)
EXTENDS WorkspaceRoles, FiniteSetTheorems, TLAPS

(* The row lock, by the state of the request that has it.                  *)
Updating(r) == r.renames /\ r.phase \in {"delete", "waitDelete", "insert", "commit"}
Deleting(r) == r.phase \in {"cascade", "commitRemove"}
Holding(r) == Updating(r) \/ Deleting(r)

(* Two transactions on one role: one holds its row, and none has inserted  *)
(* a grant of a role the other has deleted.                                *)
Compatible(a, b) ==
  a.role = b.role =>
    /\ ~(Holding(a) /\ Holding(b))
    /\ Deleting(a) => b.added = {}
    /\ Deleting(b) => a.added = {}

Writes == {"update", "rename", "remove"}

(* What a request is, and where it can be. *)
IsRequest(r) ==
  /\ DOMAIN r = DOMAIN Idle
  /\ r.phase \in {"roles", "storeRoles"} => r.caller \in Members
  /\ r.op \in {"read", "create"} \cup Writes
  /\ r.phase = "check" => r.op # "read"
  /\ r.op \in Writes => r.role \in Custom \ fresh
  /\ r.op = "rename" => r.renames
  /\ r.op = "remove" => ~r.renames
  /\ r.op \in {"rename", "remove"} => r.want = {}
  /\ r.phase \in InTransaction \cup {"dropGrants", "dropRoles"} => r.op \in Writes
  /\ r.phase \in {"update", "commit"} => r.op # "remove"
  /\ r.phase \in {"delete", "waitDelete", "insert"} => r.op = "update"
  /\ r.phase \in {"unassign", "deleteRow", "cascade", "commitRemove", "dropRoles"} => r.op = "remove"
  /\ r.phase = "dropGrants" => r.op # "rename"
  /\ r.phase \in {"count", "create"} => r.op = "create"
  /\ r.renames \in BOOLEAN /\ r.want \subseteq Keys
  /\ r.phase \in InTransaction \cup {"count", "create"} => r.want \cap Restricted = {}
  /\ r.added \subseteq r.want /\ r.left \subseteq r.want
  /\ r.gone # {} => r.phase \in {"waitDelete", "insert", "commit", "cascade", "commitRemove"} /\ r.op # "rename"
  /\ r.added # {} => r.phase \in {"insert", "commit"} /\ r.op = "update"
  /\ r.phase = "commit" /\ r.op = "update" => r.left = {}
  /\ r.mine \subseteq (Custom \cup Default) \ fresh
  /\ DOMAIN r.loaded \subseteq Custom \ fresh
  /\ \A x \in DOMAIN r.loaded : r.loaded[x] \subseteq Keys

WantedBy(edits) == UNION {e.want : e \in edits}

(* Edits of its role that committed under it, and that the row lock did    *)
(* not keep apart from it.                                                 *)
Overlapping(r) == {e \in r.meets : ~e.renames \/ ~r.renames}

(* What the role has by now is within what the caller was judged against   *)
(* and other edits gave it; and of what an edit has not taken, all was     *)
(* given by edits it overlapped with.                                      *)
Edited(r) ==
  /\ r.phase \in InTransaction /\ r.op \in {"update", "remove"} =>
       grants[r.role] \subseteq r.can \cup WantedBy(r.meets)
  /\ r.phase = "waitDelete" =>
       /\ grants[r.role] \subseteq (r.seen \ r.skipped) \cup WantedBy(Overlapping(r))
       /\ r.left = r.want
  /\ r.phase \in {"insert", "commit"} /\ r.op = "update" =>
       /\ grants[r.role] \subseteq r.gone \cup WantedBy(Overlapping(r))
       /\ Overlapping(r) = {} => r.want \subseteq r.left \cup r.added

(* What it writes to is there. *)
Rooted(r) == Deleting(r) \/ r.added # {} => r.role \in roles

(* What it loaded for the cache is current, or known to be old. *)
LoadedRight(r) ==
  r.phase = "storeGrants" => \A x \in DOMAIN r.loaded : r.loaded[x] = grants[x] \/ x \in r.old

Good(r) == IsRequest(r) /\ Edited(r) /\ Rooted(r) /\ LoadedRight(r)

(* A role that is gone has no grant and no holder, one that has not been   *)
(* yet is in no cache, and no grant is restricted.                         *)
Tables ==
  /\ roles \subseteq Custom /\ fresh \subseteq Custom \ roles
  /\ grants \in [Custom -> SUBSET (Keys \ Restricted)]
  /\ \A r \in Custom \ roles : grants[r] = {}
  /\ held \in [Members -> SUBSET (roles \cup Default)]

Entries ==
  /\ DOMAIN grantsCache = Custom /\ DOMAIN rolesCache = Members
  /\ \A r \in fresh : grantsCache[r] = Absent
  /\ \A r \in Custom : grantsCache[r] = Absent \/ grantsCache[r] \subseteq Keys
  /\ \A m \in Members : rolesCache[m] # Absent => rolesCache[m] \subseteq (Custom \cup Default) \ fresh
  /\ stale \subseteq Custom

(* A create that has counted is a role to be. *)
Creates == {q \in Requests : req[q].phase = "create"}
Capped == IsFiniteSet(roles) /\ Cardinality(roles) + Cardinality(Creates) < MaxCustomRoles + Cardinality(Requests)

WritingInv ==
  /\ Tables /\ Entries /\ CachedIsExcused /\ Capped
  /\ DOMAIN req = Requests
  /\ \A q \in Requests : Good(req[q])
  /\ \A q, p \in Requests : q # p => Compatible(req[q], req[p])
-----------------------------------------------------------------------------
LEMMA IdleFields ==
  /\ DOMAIN Idle = {"phase", "caller", "op", "role", "want", "renames", "mine", "can", "loaded", "seen", "gone",
                    "skipped", "added", "left", "meets", "old", "holders"}
  /\ Idle.phase = "idle" /\ Idle.op = "read" /\ Idle.role = None /\ Idle.want = {} /\ Idle.renames = FALSE
  /\ Idle.mine = {} /\ Idle.loaded = <<>> /\ Idle.gone = {} /\ Idle.added = {} /\ Idle.left = {} /\ Idle.meets = {}
  /\ Idle.seen = {} /\ Idle.skipped = {} /\ Idle.old = {} /\ Idle.can = {}
  BY DEF Idle

LEMMA IdleGood == Good(Idle) /\ ~Holding(Idle)
<1>1. DOMAIN Idle.loaded = {}
  BY IdleFields
<1>2. IsRequest(Idle)
  BY <1>1, IdleFields DEF IsRequest, Writes, InTransaction
<1> QED BY <1>1, <1>2, IdleFields DEF Good, Edited, Rooted, LoadedRight, Holding, Updating, Deleting, InTransaction

(* Requests that hold no row and have inserted nothing are in nobody's way. *)
Inert(r) == ~Holding(r) /\ r.added = {}

LEMMA InertCompatible == \A a, b : Inert(a) => Compatible(a, b)
  BY DEF Inert, Compatible, Holding

(* All of a request but its phase. *)
Same(a, r) ==
  /\ DOMAIN r = DOMAIN Idle
  /\ r.caller = a.caller /\ r.op = a.op /\ r.role = a.role /\ r.want = a.want /\ r.renames = a.renames
  /\ r.mine = a.mine /\ r.can = a.can /\ r.loaded = a.loaded /\ r.seen = a.seen /\ r.gone = a.gone
  /\ r.skipped = a.skipped /\ r.added = a.added /\ r.left = a.left /\ r.meets = a.meets /\ r.old = a.old
  /\ r.holders = a.holders

LEMMA PhaseMoves ==
  ASSUME NEW a, DOMAIN a = DOMAIN Idle, NEW x, NEW r, r = [a EXCEPT !.phase = x]
  PROVE  r.phase = x /\ Same(a, r)
  BY IdleFields DEF Same

LEMMA GotoMoves ==
  ASSUME WritingInv, NEW q \in Requests, NEW x, Goto(q, x)
  PROVE  \E r : r.phase = x /\ Same(req[q], r) /\ req' = [req EXCEPT ![q] = r]
<1>1. PICK r : r = [req[q] EXCEPT !.phase = x]
  OBVIOUS
<1>2. DOMAIN req[q] = DOMAIN Idle
  BY DEF WritingInv, Good, IsRequest
<1>3. r.phase = x /\ Same(req[q], r)
  BY <1>1, <1>2, PhaseMoves
<1> QED BY <1>1, <1>3 DEF Goto, Set

(* One request moves, and of the rest at most the caches. *)
LEMMA CacheMoves ==
  ASSUME WritingInv, UNCHANGED Table, Entries', CachedIsExcused', NEW q \in Requests, NEW r, req' = [req EXCEPT ![q] = r],
         Good(r), \A p \in Requests \ {q} : Compatible(r, req[p]),
         r.phase = "create" => req[q].phase = "create" \/ Cardinality(roles) < MaxCustomRoles
  PROVE  WritingInv'
<1>1. DOMAIN req' = Requests /\ req'[q] = r /\ \A p \in Requests \ {q} : req'[p] = req[p]
  BY DEF WritingInv
<1>2. UNCHANGED <<roles, grants, held, fresh>>
  BY DEF Table
<1>3. Tables'
  BY <1>2 DEF WritingInv, Tables
<1>4. (\A p \in Requests : Good(req[p]))'
  <2>1. ASSUME NEW p \in Requests PROVE Good(req'[p])
    BY <1>1 DEF WritingInv
  <2> QED BY <1>2, <2>1 DEF Good, IsRequest, Edited, Rooted, LoadedRight
<1>5. (\A p, o \in Requests : p # o => Compatible(req[p], req[o]))'
  <2>1. \A a, b : Compatible(a, b) => Compatible(b, a)
    BY DEF Compatible
  <2> QED BY <1>1, <2>1 DEF WritingInv
<1>6. Capped'
  <2>1. Creates' \subseteq Creates \cup {q} /\ (Creates' \subseteq Creates \/ Cardinality(roles) < MaxCustomRoles)
    BY <1>1 DEF Creates
  <2>2. IsFiniteSet(Requests) /\ Cardinality(Requests) \in Nat /\ MaxCustomRoles \in Nat
    BY RolesAssumption, FS_CardinalityType
  <2>3. IsFiniteSet(Creates) /\ IsFiniteSet(Creates') /\ Cardinality(Creates') <= Cardinality(Requests)
        /\ Cardinality(Creates) \in Nat /\ Cardinality(Creates') \in Nat /\ Cardinality(roles) \in Nat
    <3>1. Creates \subseteq Requests /\ Creates' \subseteq Requests
      BY DEF Creates
    <3> QED BY <2>2, <3>1, FS_Subset, FS_CardinalityType DEF WritingInv, Capped
  <2>4. CASE Creates' \subseteq Creates
    <3>1. Cardinality(Creates') <= Cardinality(Creates)
      BY <2>3, <2>4, FS_Subset
    <3> QED BY <1>2, <2>2, <2>3, <3>1 DEF WritingInv, Capped
  <2>5. CASE Cardinality(roles) < MaxCustomRoles
    BY <1>2, <2>2, <2>3, <2>5 DEF WritingInv, Capped
  <2> QED BY <2>1, <2>4, <2>5
<1> QED BY <1>1, <1>3, <1>4, <1>5, <1>6 DEF WritingInv

LEMMA OneMoves ==
  ASSUME WritingInv, UNCHANGED Table, UNCHANGED Caches, NEW q \in Requests, NEW r, req' = [req EXCEPT ![q] = r],
         Good(r), \A p \in Requests \ {q} : Compatible(r, req[p]),
         r.phase = "create" => req[q].phase = "create" \/ Cardinality(roles) < MaxCustomRoles,
         req[q].phase # "dropGrants"
  PROVE  WritingInv'
<1>1. \A p \in Requests \ {q} : req'[p] = req[p]
  BY DEF WritingInv
<1>2. UNCHANGED <<roles, grants, held, fresh, rolesCache, grantsCache, stale>>
  BY DEF Table, Caches
<1>3. Entries'
  BY <1>2 DEF WritingInv, Entries
<1>4. CachedIsExcused'
  <2>1. \A p \in Requests : req[p].phase = "dropGrants" => req'[p].phase = "dropGrants" /\ req'[p].role = req[p].role
    BY <1>1
  <2> QED BY <1>2, <2>1 DEF WritingInv, CachedIsExcused, At
<1> QED BY <1>3, <1>4, CacheMoves

LEMMA InertMoves ==
  ASSUME WritingInv, UNCHANGED Table, UNCHANGED Caches, NEW q \in Requests, NEW r, req' = [req EXCEPT ![q] = r],
         Good(r), Inert(r), r.phase # "create", req[q].phase # "dropGrants"
  PROVE  WritingInv'
  BY InertCompatible, OneMoves

LEMMA EndMoves ==
  ASSUME WritingInv, UNCHANGED Table, UNCHANGED Caches, NEW q \in Requests, End(q), req[q].phase # "dropGrants"
  PROVE  WritingInv'
<1>1. Inert(Idle) /\ Idle.phase # "create" /\ Good(Idle)
  BY IdleGood, IdleFields DEF Inert
<1>2. req' = [req EXCEPT ![q] = Idle]
  BY DEF End, Set
<1> QED BY <1>1, <1>2, InertMoves
-----------------------------------------------------------------------------
(* The guard and the caches it reads through.                              *)

LEMMA Requested == ASSUME WritingInv, NEW q \in Requests PROVE Good(req[q]) /\ DOMAIN req[q] = DOMAIN Idle /\ DOMAIN req = Requests
  BY DEF WritingInv, Good, IsRequest

Asked(q, caller, op, role, want, renames) ==
  /\ Arrive(q, caller, op, role, want, renames)
  /\ op \in {"read", "create"} \cup Writes
  /\ op \in Writes => role \in Custom \ fresh
  /\ op = "rename" => renames
  /\ op = "remove" => ~renames
  /\ op \in {"rename", "remove"} => want = {}
  /\ renames \in BOOLEAN /\ want \subseteq Keys

LEMMA ArriveMoves ==
  ASSUME WritingInv, NEW q \in Requests, Arrives(q)
  PROVE  WritingInv'
<1>1. PICK caller, op, role, want, renames : caller \in Members \cup {Owner} /\ Asked(q, caller, op, role, want, renames)
  <2>1. PICK caller \in Members \cup {Owner} :
          \/ Arrive(q, caller, "read", None, {}, FALSE)
          \/ \E want \in Wanted : Arrive(q, caller, "create", None, want, FALSE)
          \/ \E r \in Custom \ fresh :
               \/ \E want \in Wanted, renames \in BOOLEAN : Arrive(q, caller, "update", r, want, renames)
               \/ Arrive(q, caller, "rename", r, {}, TRUE)
               \/ Arrive(q, caller, "remove", r, {}, FALSE)
    BY DEF Arrives
  <2>2. \A want \in Wanted : want \subseteq Keys
    BY RolesAssumption
  <2>3. CASE Arrive(q, caller, "read", None, {}, FALSE)
    <3>1. Asked(q, caller, "read", None, {}, FALSE)
      BY <2>3 DEF Asked, Writes
    <3> QED BY <3>1
  <2>4. ASSUME NEW want \in Wanted, Arrive(q, caller, "create", None, want, FALSE)
        PROVE  Asked(q, caller, "create", None, want, FALSE)
    BY <2>2, <2>4 DEF Asked, Writes
  <2>5. ASSUME NEW r \in Custom \ fresh, NEW want \in Wanted, NEW renames \in BOOLEAN,
               Arrive(q, caller, "update", r, want, renames)
        PROVE  Asked(q, caller, "update", r, want, renames)
    BY <2>2, <2>5 DEF Asked, Writes
  <2>6. ASSUME NEW r \in Custom \ fresh, Arrive(q, caller, "rename", r, {}, TRUE)
        PROVE  Asked(q, caller, "rename", r, {}, TRUE)
    BY <2>6 DEF Asked, Writes
  <2>7. ASSUME NEW r \in Custom \ fresh, Arrive(q, caller, "remove", r, {}, FALSE)
        PROVE  Asked(q, caller, "remove", r, {}, FALSE)
    BY <2>7 DEF Asked, Writes
  <2> QED BY <2>1, <2>3, <2>4, <2>5, <2>6, <2>7
<1>2. PICK x, c : x = (IF caller = Owner THEN "guard" ELSE "roles") /\ c = (IF caller = Owner THEN Keys ELSE {})
  OBVIOUS
<1>3. PICK r : r = [Idle EXCEPT !.phase = x, !.caller = caller, !.op = op, !.role = role, !.want = want,
                                !.renames = renames, !.can = c]
  OBVIOUS
<1>4. req' = [req EXCEPT ![q] = r] /\ UNCHANGED Table /\ UNCHANGED Caches /\ req[q].phase # "dropGrants"
  BY <1>1, <1>2, <1>3 DEF Asked, Arrive, Set, At
<1>5. /\ DOMAIN r = DOMAIN Idle /\ r.phase \in {"guard", "roles"} /\ r.caller = caller /\ r.op = op /\ r.role = role /\ r.want = want
      /\ r.renames = renames /\ r.mine = {} /\ r.loaded = <<>> /\ r.gone = {} /\ r.added = {} /\ r.left = {}
  BY <1>2, <1>3, IdleFields
<1>6. DOMAIN r.loaded = {} /\ (r.phase = "roles" => caller \in Members)
  BY <1>1, <1>2, <1>3, <1>5, IdleFields
<1>7. IsRequest(r)
  BY <1>1, <1>5, <1>6 DEF Asked, IsRequest, InTransaction
<1>8. Good(r) /\ Inert(r)
  BY <1>5, <1>7 DEF Good, Edited, Rooted, LoadedRight, Inert, Holding, Updating, Deleting, InTransaction
<1> QED BY <1>4, <1>5, <1>8, InertMoves

LEMMA ReadRolesMoves ==
  ASSUME WritingInv, NEW q \in Requests, ReadRoles(q)
  PROVE  WritingInv'
<1>1. PICK a : a = req[q]
  OBVIOUS
<1>0. a.caller \in Members
  BY <1>1, Requested DEF Good, IsRequest, ReadRoles, At
<1>2. PICK x, e : /\ x \in {"grants", "storeRoles"} /\ req' = [req EXCEPT ![q] = [a EXCEPT !.phase = x, !.mine = e]]
                  /\ e \subseteq (Custom \cup Default) \ fresh
  <2>1. CASE rolesCache[a.caller] # Absent
    <3>1. req' = [req EXCEPT ![q] = [a EXCEPT !.phase = "grants", !.mine = rolesCache[a.caller]]]
      BY <1>1, <2>1 DEF ReadRoles, Set
    <3>2. rolesCache[a.caller] \subseteq (Custom \cup Default) \ fresh
      BY <1>0, <2>1 DEF WritingInv, Entries
    <3> QED BY <3>1, <3>2
  <2>2. CASE rolesCache[a.caller] = Absent
    <3>1. req' = [req EXCEPT ![q] = [a EXCEPT !.phase = "storeRoles", !.mine = held[a.caller]]]
      BY <1>1, <2>2 DEF ReadRoles, Set
    <3>2. held[a.caller] \subseteq (Custom \cup Default) \ fresh
      BY <1>0, RolesAssumption DEF WritingInv, Tables
    <3> QED BY <3>1, <3>2
  <2> QED BY <2>1, <2>2
<1>3. PICK r : r = [a EXCEPT !.phase = x, !.mine = e]
  OBVIOUS
<1>4. Good(a) /\ DOMAIN a = DOMAIN Idle /\ a.phase = "roles" /\ UNCHANGED Table /\ UNCHANGED Caches
  BY <1>1, Requested DEF ReadRoles, At
<1>5. /\ DOMAIN r = DOMAIN Idle /\ r.phase = x /\ r.caller = a.caller /\ r.op = a.op /\ r.role = a.role /\ r.want = a.want
      /\ r.renames = a.renames /\ r.mine = e /\ r.loaded = a.loaded /\ r.gone = a.gone /\ r.added = a.added
      /\ r.left = a.left
  BY <1>3, <1>4, IdleFields
<1>6. a.added = {} /\ a.gone = {}
  BY <1>4 DEF Good, IsRequest
<1>7. Good(r) /\ Inert(r)
  BY <1>2, <1>4, <1>5, <1>6 DEF Good, IsRequest, Edited, Rooted, LoadedRight, Inert, Holding, Updating, Deleting, InTransaction
<1> QED BY <1>1, <1>2, <1>3, <1>4, <1>5, <1>7, InertMoves

LEMMA StoreRolesMoves ==
  ASSUME WritingInv, NEW q \in Requests, StoreRoles(q)
  PROVE  WritingInv'
<1>1. PICK a : a = req[q]
  OBVIOUS
<1>2. /\ a.phase = "storeRoles" /\ Goto(q, "grants") /\ UNCHANGED Table /\ UNCHANGED <<grantsCache, stale>>
      /\ rolesCache' = [rolesCache EXCEPT ![a.caller] = a.mine]
  BY <1>1 DEF StoreRoles, At
<1>3. PICK r : r.phase = "grants" /\ Same(a, r) /\ req' = [req EXCEPT ![q] = r]
  BY <1>1, <1>2, GotoMoves
<1>4. Good(a) /\ UNCHANGED <<roles, grants, held, fresh>>
  BY <1>1, <1>2, Requested DEF Table
<1>5. Good(r) /\ Inert(r)
  BY <1>2, <1>3, <1>4 DEF Same, Good, IsRequest, Edited, Rooted, LoadedRight, Inert, Holding, Updating, Deleting, InTransaction
<1>6. Entries'
  <2>1. a.mine \subseteq (Custom \cup Default) \ fresh
    BY <1>4 DEF Good, IsRequest
  <2>2. \A m \in Members : rolesCache'[m] = a.mine \/ rolesCache'[m] = rolesCache[m]
    BY <1>2 DEF WritingInv, Entries
  <2>3. DOMAIN rolesCache' = Members
    BY <1>2 DEF WritingInv, Entries
  <2> QED BY <1>2, <1>4, <2>1, <2>2, <2>3 DEF WritingInv, Entries
<1>7. CachedIsExcused'
  <2>1. \A p \in Requests : req[p].phase = "dropGrants" => req'[p] = req[p]
    BY <1>1, <1>2, <1>3, Requested
  <2> QED BY <1>2, <1>4, <2>1 DEF WritingInv, CachedIsExcused, At
<1> QED BY <1>2, <1>3, <1>5, <1>6, <1>7, InertCompatible, CacheMoves

LEMMA ReadGrantsMoves ==
  ASSUME WritingInv, NEW q \in Requests, ReadGrants(q)
  PROVE  WritingInv'
<1>1. PICK a : a = req[q]
  OBVIOUS
<1>2. PICK missing : missing = {x \in CustomOf(q) : grantsCache[x] = Absent}
  OBVIOUS
<1>3. PICK x, load, c : /\ x \in {"guard", "storeGrants"} /\ load = [s \in missing |-> grants[s]]
                        /\ req' = [req EXCEPT ![q] = [a EXCEPT !.phase = x, !.loaded = load, !.can = c]]
  <2>1. PICK x, c : /\ x = (IF missing = {} THEN "guard" ELSE "storeGrants")
                    /\ c = PermissionsOf(a.mine, [s \in CustomOf(q) |-> IF s \in missing THEN grants[s] ELSE grantsCache[s]])
    OBVIOUS
  <2>2. req' = [req EXCEPT ![q] = [a EXCEPT !.phase = x, !.loaded = [s \in missing |-> grants[s]], !.can = c]]
    BY <1>1, <1>2, <2>1 DEF ReadGrants, Set
  <2> QED BY <2>1, <2>2
<1>4. PICK r : r = [a EXCEPT !.phase = x, !.loaded = load, !.can = c]
  OBVIOUS
<1>5. Good(a) /\ DOMAIN a = DOMAIN Idle /\ a.phase = "grants" /\ UNCHANGED Table /\ UNCHANGED Caches
  BY <1>1, Requested DEF ReadGrants, At
<1>6. /\ DOMAIN r = DOMAIN Idle /\ r.phase = x /\ r.caller = a.caller /\ r.op = a.op /\ r.role = a.role /\ r.want = a.want
      /\ r.renames = a.renames /\ r.mine = a.mine /\ r.loaded = load /\ r.gone = a.gone /\ r.added = a.added
      /\ r.left = a.left
  BY <1>4, <1>5, IdleFields
<1>7. a.added = {} /\ a.gone = {} /\ DOMAIN load \subseteq Custom \ fresh
  BY <1>1, <1>2, <1>3, <1>5 DEF Good, IsRequest, CustomOf
<1>8. \A s \in DOMAIN load : load[s] \subseteq Keys
  BY <1>3, <1>7 DEF WritingInv, Tables
<1>9. IsRequest(r) /\ Inert(r)
  BY <1>3, <1>5, <1>6, <1>7, <1>8 DEF Good, IsRequest, Inert, Holding, Updating, Deleting, InTransaction
<1>10. Good(r)
  BY <1>3, <1>6, <1>7, <1>9 DEF Good, Edited, Rooted, LoadedRight, Deleting, InTransaction
<1> QED BY <1>1, <1>3, <1>4, <1>5, <1>6, <1>9, <1>10, InertMoves

LEMMA StoreGrantsMoves ==
  ASSUME WritingInv, NEW q \in Requests, StoreGrants(q)
  PROVE  WritingInv'
<1>1. PICK a : a = req[q]
  OBVIOUS
<1>2. PICK load : load = a.loaded
  OBVIOUS
<1>3. /\ a.phase = "storeGrants" /\ UNCHANGED Table /\ rolesCache' = rolesCache
      /\ grantsCache' = [s \in Custom |-> IF s \in DOMAIN load THEN load[s] ELSE grantsCache[s]]
      /\ stale' = (stale \ DOMAIN load) \cup (DOMAIN load \cap a.old)
      /\ req' = [req EXCEPT ![q] = [a EXCEPT !.phase = "guard", !.loaded = <<>>, !.old = {}]]
  BY <1>1, <1>2 DEF StoreGrants, At, Set
<1>4. PICK r : r = [a EXCEPT !.phase = "guard", !.loaded = <<>>, !.old = {}]
  OBVIOUS
<1>5. Good(a) /\ DOMAIN a = DOMAIN Idle /\ UNCHANGED <<roles, grants, held, fresh>>
  BY <1>1, <1>3, Requested DEF Table
<1>6. /\ DOMAIN r = DOMAIN Idle /\ r.phase = "guard" /\ r.caller = a.caller /\ r.op = a.op /\ r.role = a.role
      /\ r.want = a.want /\ r.renames = a.renames /\ r.mine = a.mine /\ r.loaded = <<>> /\ r.gone = a.gone
      /\ r.added = a.added /\ r.left = a.left
  BY <1>4, <1>5, IdleFields
<1>7. a.added = {} /\ a.gone = {} /\ DOMAIN r.loaded = {} /\ DOMAIN load \subseteq Custom \ fresh
  BY <1>2, <1>3, <1>5, <1>6 DEF Good, IsRequest
<1>8. Good(r) /\ Inert(r)
  BY <1>5, <1>6, <1>7 DEF Good, IsRequest, Edited, Rooted, LoadedRight, Inert, Holding, Updating, Deleting, InTransaction
<1>9. Entries'
  <2>1. DOMAIN grantsCache' = Custom /\ stale' \subseteq Custom
    BY <1>3, <1>7 DEF WritingInv, Entries
  <2>2. \A s \in fresh : grantsCache'[s] = Absent
    BY <1>3, <1>7 DEF WritingInv, Entries, Tables
  <2>3. ASSUME NEW s \in Custom PROVE grantsCache'[s] = Absent \/ grantsCache'[s] \subseteq Keys
    <3>1. \A t \in DOMAIN load : load[t] \subseteq Keys
      BY <1>2, <1>5 DEF Good, IsRequest
    <3>2. grantsCache[s] = Absent \/ grantsCache[s] \subseteq Keys
      BY DEF WritingInv, Entries
    <3> QED BY <1>3, <3>1, <3>2
  <2> QED BY <1>3, <1>5, <2>1, <2>2, <2>3 DEF WritingInv, Entries
<1>10. CachedIsExcused'
  <2>1. \A p \in Requests : req[p].phase = "dropGrants" => req'[p] = req[p]
    BY <1>1, <1>3, Requested
  <2>2. \A s \in DOMAIN load : load[s] = grants[s] \/ s \in a.old
    BY <1>2, <1>3, <1>5 DEF Good, LoadedRight
  <2>3. ASSUME NEW s \in Custom, grantsCache'[s] \notin {Absent, grants[s]}
        PROVE  s \in stale' \/ \E p \in Requests : req'[p].role = s /\ req'[p].phase = "dropGrants"
    <3>1. CASE s \in DOMAIN load
      BY <1>3, <2>2, <2>3, <3>1
    <3>2. CASE s \notin DOMAIN load
      <4>1. grantsCache[s] \notin {Absent, grants[s]}
        BY <1>3, <2>3, <3>2
      <4>2. s \in stale \/ \E p \in Requests : req[p].role = s /\ req[p].phase = "dropGrants"
        BY <4>1 DEF WritingInv, CachedIsExcused, At
      <4> QED BY <1>3, <2>1, <3>2, <4>2
    <3> QED BY <3>1, <3>2
  <2> QED BY <1>5, <2>3 DEF CachedIsExcused, At
<1> QED BY <1>3, <1>4, <1>6, <1>8, <1>9, <1>10, InertCompatible, CacheMoves

LEMMA GuardMoves ==
  ASSUME WritingInv, NEW q \in Requests, Guard(q)
  PROVE  WritingInv'
<1>1. req[q].phase = "guard" /\ (End(q) \/ (req[q].op # "read" /\ Goto(q, "check"))) /\ UNCHANGED Table /\ UNCHANGED Caches
  BY DEF Guard, At
<1>2. CASE End(q)
  BY <1>1, <1>2, EndMoves
<1>3. CASE req[q].op # "read" /\ Goto(q, "check")
  <2>1. PICK r : r.phase = "check" /\ Same(req[q], r) /\ req' = [req EXCEPT ![q] = r]
    BY <1>3, GotoMoves
  <2>2. Good(req[q])
    BY Requested
  <2>3. IsRequest(r) /\ Inert(r)
    BY <1>1, <1>3, <2>1, <2>2 DEF Same, Good, IsRequest, Inert, Holding, Updating, Deleting, InTransaction
  <2>4. Good(r)
    BY <2>1, <2>3 DEF Good, Edited, Rooted, LoadedRight, Inert, Deleting, InTransaction
  <2> QED BY <1>1, <2>1, <2>3, <2>4, InertMoves
<1> QED BY <1>1, <1>2, <1>3
-----------------------------------------------------------------------------
(* What a write checks, and the count of a create.                         *)

LEMMA CheckMoves ==
  ASSUME WritingInv, NEW q \in Requests, Check(q)
  PROVE  WritingInv'
<1>1. PICK a : a = req[q]
  OBVIOUS
<1>2. Good(a) /\ a.phase = "check" /\ UNCHANGED Table /\ UNCHANGED Caches
  BY <1>1, Requested DEF Check, At
<1>3. \/ End(q)
      \/ a.op = "create" /\ Grantable(q) /\ Goto(q, "count")
      \/ a.op = "update" /\ Editable(q) /\ Grantable(q) /\ Goto(q, "update")
      \/ a.op = "rename" /\ Editable(q) /\ Goto(q, "update")
      \/ a.op = "remove" /\ Editable(q) /\ Goto(q, "unassign")
  <2>1. a.op \in {"create", "update", "rename", "remove"}
    BY <1>2 DEF Good, IsRequest, Writes
  <2> QED BY <1>1, <2>1 DEF Check
<1>4. Editable(q) /\ a.op \in Writes => grants[a.role] \subseteq a.can
  BY <1>1, <1>2, RolesAssumption DEF Editable, WritingInv, Tables, Good, IsRequest
<1>5. Grantable(q) => a.want \cap Restricted = {}
  BY <1>1 DEF Grantable
<1>6. CASE End(q)
  BY <1>1, <1>2, <1>6, EndMoves
<1>7. CASE a.op = "create" /\ Grantable(q) /\ Goto(q, "count")
  <2>1. PICK r : r.phase = "count" /\ Same(a, r) /\ req' = [req EXCEPT ![q] = r]
    BY <1>1, <1>7, GotoMoves
  <2>2. Good(r) /\ Inert(r)
    BY <1>2, <1>5, <1>7, <2>1 DEF Same, Good, IsRequest, Edited, Rooted, LoadedRight, Inert, Holding, Updating, Deleting, InTransaction
  <2> QED BY <1>1, <1>2, <2>1, <2>2, InertMoves
<1>8. CASE a.op \in {"update", "rename"} /\ Editable(q) /\ (a.op = "update" => Grantable(q)) /\ Goto(q, "update")
  <2>1. PICK r : r.phase = "update" /\ Same(a, r) /\ req' = [req EXCEPT ![q] = r]
    BY <1>1, <1>8, GotoMoves
  <2>2. IsRequest(r) /\ Inert(r)
    BY <1>2, <1>5, <1>8, <2>1, RolesAssumption DEF Same, Good, IsRequest, Inert, Holding, Updating, Deleting, InTransaction, Writes
  <2>3. Edited(r)
    BY <1>4, <1>8, <2>1 DEF Same, Edited, Writes
  <2>4. Good(r)
    BY <2>1, <2>2, <2>3 DEF Good, Inert, Rooted, LoadedRight, Deleting
  <2> QED BY <1>1, <1>2, <2>1, <2>2, <2>4, InertMoves
<1>9. CASE a.op = "remove" /\ Editable(q) /\ Goto(q, "unassign")
  <2>1. PICK r : r.phase = "unassign" /\ Same(a, r) /\ req' = [req EXCEPT ![q] = r]
    BY <1>1, <1>9, GotoMoves
  <2>2. IsRequest(r) /\ Inert(r)
    BY <1>2, <1>9, <2>1 DEF Same, Good, IsRequest, Inert, Holding, Updating, Deleting, InTransaction, Writes
  <2>3. Edited(r)
    BY <1>4, <1>9, <2>1 DEF Same, Edited, Writes
  <2>4. Good(r)
    BY <2>1, <2>2, <2>3 DEF Good, Inert, Rooted, LoadedRight, Deleting
  <2> QED BY <1>1, <1>2, <2>1, <2>2, <2>4, InertMoves
<1> QED BY <1>3, <1>6, <1>7, <1>8, <1>9

LEMMA CountMoves ==
  ASSUME WritingInv, NEW q \in Requests, Count(q)
  PROVE  WritingInv'
<1>1. PICK a : a = req[q]
  OBVIOUS
<1>2. Good(a) /\ a.phase = "count" /\ UNCHANGED Table /\ UNCHANGED Caches
  BY <1>1, Requested DEF Count, At
<1>3. End(q) \/ (Goto(q, "create") /\ ~(Cardinality(roles) >= MaxCustomRoles))
  BY DEF Count
<1>4. CASE End(q)
  BY <1>1, <1>2, <1>4, EndMoves
<1>5. CASE Goto(q, "create") /\ ~(Cardinality(roles) >= MaxCustomRoles)
  <2>1. PICK r : r.phase = "create" /\ Same(a, r) /\ req' = [req EXCEPT ![q] = r]
    BY <1>1, <1>5, GotoMoves
  <2>2. Good(r) /\ Inert(r)
    BY <1>2, <2>1 DEF Same, Good, IsRequest, Edited, Rooted, LoadedRight, Inert, Holding, Updating, Deleting, InTransaction
  <2>3. Cardinality(roles) < MaxCustomRoles
    <3>1. Cardinality(roles) \in Nat /\ MaxCustomRoles \in Nat
      BY FS_CardinalityType, RolesAssumption DEF WritingInv, Capped
    <3> QED BY <1>5, <3>1
  <2> QED BY <1>1, <1>2, <2>1, <2>2, <2>3, InertCompatible, OneMoves
<1> QED BY <1>3, <1>4, <1>5
-----------------------------------------------------------------------------
(* The statements of an edit's transaction and of a removal's.             *)

LEMMA EditMoves ==
  ASSUME WritingInv, NEW q \in Requests, UNCHANGED Table, UNCHANGED Caches, req[q].phase \in InTransaction,
         NEW r, req' = [req EXCEPT ![q] = r], Good(r), r.phase \in InTransaction, r.role = req[q].role,
         \A p \in Requests \ {q} : p \in Requests /\ SameRole(q, p) => Compatible(r, req[p])
  PROVE  WritingInv'
<1>1. \A p \in Requests \ {q} : Compatible(r, req[p])
  BY DEF Compatible, SameRole
<1>2. req[q].phase # "dropGrants" /\ r.phase # "create"
  BY DEF InTransaction
<1> QED BY <1>1, <1>2, OneMoves

LEMMA RowFree ==
  ASSUME NEW q \in Requests, NEW p \in Requests, SameRole(q, p), ~RowHeld(q)
  PROVE  ~Holding(req[p])
  BY DEF RowHeld, Holding, Updating, Deleting, Updated, Deleted

LEMMA UpdateMoves ==
  ASSUME WritingInv, NEW q \in Requests, UpdateCustom(q)
  PROVE  WritingInv'
<1>1. PICK a : a = req[q]
  OBVIOUS
<1>2. /\ Good(a) /\ a.phase = "update" /\ UNCHANGED Table /\ UNCHANGED Caches
      /\ a.renames => ~RowHeld(q)
  BY <1>1, Requested DEF UpdateCustom, At
<1>3. \/ End(q)
      \/ \E x : Goto(q, x) /\ x = (IF a.op = "rename" THEN "commit" ELSE "delete")
  BY <1>1 DEF UpdateCustom
<1>4. CASE End(q)
  BY <1>1, <1>2, <1>4, EndMoves
<1>5. ASSUME NEW x, Goto(q, x), x = (IF a.op = "rename" THEN "commit" ELSE "delete")
      PROVE  WritingInv'
  <2>1. PICK r : r.phase = x /\ Same(a, r) /\ req' = [req EXCEPT ![q] = r]
    BY <1>1, <1>5, GotoMoves
  <2>2. IsRequest(a) /\ a.gone = {} /\ a.added = {} /\ a.op \in {"update", "rename"}
    BY <1>2 DEF Good, IsRequest, Writes, InTransaction
  <2>3. IsRequest(r)
    BY <1>2, <1>5, <2>1, <2>2 DEF Same, IsRequest, InTransaction
  <2>4. Good(r)
    BY <1>2, <1>5, <2>1, <2>2, <2>3 DEF Same, Good, Edited, Rooted, LoadedRight, Deleting, InTransaction
  <2>5. ASSUME NEW p \in Requests, SameRole(q, p)
        PROVE  Compatible(r, req[p])
    <3>1. ~Deleting(r) /\ (Holding(r) => a.renames) /\ r.added = {}
      BY <1>5, <2>1, <2>2 DEF Same, Holding, Updating, Deleting
    <3> QED BY <1>2, <2>5, <3>1, RowFree DEF Compatible
  <2>6. req[q].phase \in InTransaction /\ r.phase \in InTransaction /\ r.role = req[q].role
    BY <1>1, <1>2, <1>5, <2>1 DEF InTransaction, Same
  <2> QED BY <1>2, <2>1, <2>4, <2>5, <2>6, EditMoves
<1> QED BY <1>3, <1>4, <1>5

(* It holds the row if it did, and has added no more.                      *)
LEMMA StillCompatible ==
  ASSUME WritingInv, NEW q \in Requests, NEW p \in Requests \ {q}, NEW r, r.role = req[q].role,
         Holding(r) => Holding(req[q]), Deleting(r) => Deleting(req[q]), r.added \subseteq req[q].added
  PROVE  Compatible(r, req[p])
<1>1. Compatible(req[q], req[p])
  BY DEF WritingInv
<1> QED BY <1>1 DEF Compatible

LEMMA DeleteMoves ==
  ASSUME WritingInv, NEW q \in Requests, DeleteGrants(q)
  PROVE  WritingInv'
<1>1. PICK a, rows, gone, x :
        /\ a = req[q] /\ rows = grants[a.role] /\ gone = rows \ Gone(q)
        /\ x = (IF rows \cap Gone(q) = {} THEN "insert" ELSE "waitDelete")
  OBVIOUS
<1>2. PICK r : r = [a EXCEPT !.phase = x, !.gone = gone, !.seen = rows, !.skipped = {}, !.left = a.want]
  OBVIOUS
<1>3. req' = [req EXCEPT ![q] = r] /\ a.phase = "delete" /\ UNCHANGED Table /\ UNCHANGED Caches
  BY <1>1, <1>2 DEF DeleteGrants, Set, At
<1>4. Good(a) /\ DOMAIN a = DOMAIN Idle /\ a.added = {} /\ a.op = "update"
  BY <1>1, <1>3, Requested DEF Good, IsRequest
<1>5. /\ DOMAIN r = DOMAIN Idle /\ r.phase = x /\ r.caller = a.caller /\ r.op = a.op /\ r.role = a.role
      /\ r.want = a.want /\ r.renames = a.renames /\ r.mine = a.mine /\ r.can = a.can /\ r.loaded = a.loaded
      /\ r.gone = gone /\ r.added = a.added /\ r.left = a.want /\ r.seen = rows /\ r.skipped = {} /\ r.meets = a.meets
  BY <1>2, <1>4, IdleFields
<1>6. x \in {"insert", "waitDelete"} /\ (x = "insert" => gone = rows)
  BY <1>1
<1>7. IsRequest(r)
  BY <1>3, <1>4, <1>5, <1>6 DEF Good, IsRequest, InTransaction
<1>8. Edited(r)
  BY <1>1, <1>3, <1>4, <1>5, <1>6 DEF Good, Edited, InTransaction
<1>9. Good(r)
  BY <1>4, <1>5, <1>6, <1>7, <1>8 DEF Good, Rooted, LoadedRight, Deleting
<1>10. /\ Holding(r) => Holding(a)
       /\ ~Deleting(r)
       /\ a.phase \in InTransaction /\ r.phase \in InTransaction
  BY <1>3, <1>5, <1>6 DEF Holding, Updating, Deleting, InTransaction
<1>11. \A p \in Requests \ {q} : Compatible(r, req[p])
  BY <1>1, <1>5, <1>10, StillCompatible
<1> QED BY <1>1, <1>3, <1>5, <1>9, <1>10, <1>11, EditMoves

LEMMA DeleteEndsMoves ==
  ASSUME WritingInv, NEW q \in Requests, DeleteGrantsEnds(q)
  PROVE  WritingInv'
<1>1. PICK a, gone : a = req[q] /\ gone = a.seen \ a.skipped
  OBVIOUS
<1>2. PICK r : r = [a EXCEPT !.phase = "insert", !.gone = gone]
  OBVIOUS
<1>3. req' = [req EXCEPT ![q] = r] /\ a.phase = "waitDelete" /\ UNCHANGED Table /\ UNCHANGED Caches
  BY <1>1, <1>2 DEF DeleteGrantsEnds, Set, At
<1>4. Good(a) /\ DOMAIN a = DOMAIN Idle /\ a.added = {} /\ a.op = "update"
  BY <1>1, <1>3, Requested DEF Good, IsRequest
<1>5. /\ DOMAIN r = DOMAIN Idle /\ r.phase = "insert" /\ r.caller = a.caller /\ r.op = a.op /\ r.role = a.role
      /\ r.want = a.want /\ r.renames = a.renames /\ r.mine = a.mine /\ r.can = a.can /\ r.loaded = a.loaded
      /\ r.gone = gone /\ r.added = a.added /\ r.left = a.left /\ r.meets = a.meets
  BY <1>2, <1>4, IdleFields
<1>6. IsRequest(r)
  BY <1>3, <1>4, <1>5 DEF Good, IsRequest, InTransaction
<1>7. Edited(r)
  <2>1. Overlapping(r) = Overlapping(a)
    BY <1>5 DEF Overlapping
  <2> QED BY <1>1, <1>3, <1>4, <1>5, <2>1 DEF Good, Edited, InTransaction
<1>8. Good(r)
  BY <1>4, <1>5, <1>6, <1>7 DEF Good, Rooted, LoadedRight, Deleting
<1>9. /\ Holding(r) => Holding(a)
      /\ ~Deleting(r)
      /\ a.phase \in InTransaction /\ r.phase \in InTransaction
  BY <1>3, <1>5 DEF Holding, Updating, Deleting, InTransaction
<1>10. \A p \in Requests \ {q} : Compatible(r, req[p])
  BY <1>1, <1>5, <1>9, StillCompatible
<1> QED BY <1>1, <1>3, <1>5, <1>8, <1>9, <1>10, EditMoves

LEMMA AddGrantMoves ==
  ASSUME WritingInv, NEW q \in Requests, NEW k, AddGrant(q, k)
  PROVE  WritingInv'
<1>1. PICK a, left : a = req[q] /\ left = a.left \ {k}
  OBVIOUS
<1>2. a.phase = "insert" /\ k \in a.left /\ UNCHANGED Table /\ UNCHANGED Caches
  BY <1>1 DEF AddGrant, At
<1>3. Good(a) /\ DOMAIN a = DOMAIN Idle /\ a.op = "update" /\ k \in a.want
  BY <1>1, <1>2, Requested DEF Good, IsRequest
<1>4. \/ End(q)
      \/ \E added : /\ \/ added = a.added /\ k \in grants[a.role] \ a.gone
                       \/ added = a.added \cup {k} /\ a.role \in roles /\ \A p \in Requests : SameRole(q, p) => ~Deleted(p)
                    /\ Set(q, [a EXCEPT !.left = left, !.added = added])
  <2>1. CASE k \in grants[a.role] \ a.gone
    <3>1. Set(q, [a EXCEPT !.left = left])
      BY <1>1, <2>1 DEF AddGrant
    <3>2. PICK added : added = a.added
      OBVIOUS
    <3>3. [a EXCEPT !.left = left, !.added = added] = [a EXCEPT !.left = left]
      BY <1>3, <3>2, IdleFields
    <3> QED BY <2>1, <3>1, <3>2, <3>3
  <2>2. CASE ~(k \in grants[a.role] \ a.gone)
    <3>1. PICK added : added = a.added \cup {k}
      OBVIOUS
    <3> QED BY <1>1, <2>2, <3>1 DEF AddGrant
  <2> QED BY <2>1, <2>2
<1>5. CASE End(q)
  BY <1>1, <1>2, <1>5, EndMoves
<1>6. ASSUME NEW added, Set(q, [a EXCEPT !.left = left, !.added = added]),
             \/ added = a.added /\ k \in grants[a.role] \ a.gone
             \/ added = a.added \cup {k} /\ a.role \in roles /\ \A p \in Requests : SameRole(q, p) => ~Deleted(p)
      PROVE  WritingInv'
  <2>1. PICK r : r = [a EXCEPT !.left = left, !.added = added]
    OBVIOUS
  <2>2. /\ DOMAIN r = DOMAIN Idle /\ r.phase = a.phase /\ r.caller = a.caller /\ r.op = a.op /\ r.role = a.role
        /\ r.want = a.want /\ r.renames = a.renames /\ r.mine = a.mine /\ r.can = a.can /\ r.loaded = a.loaded
        /\ r.gone = a.gone /\ r.added = added /\ r.left = left /\ r.meets = a.meets
    BY <1>3, <2>1, IdleFields
  <2>3. req' = [req EXCEPT ![q] = r]
    BY <1>6, <2>1 DEF Set
  <2>4. added \subseteq a.want /\ left \subseteq a.want
    BY <1>1, <1>3, <1>6 DEF Good, IsRequest
  <2>5. IsRequest(r)
    BY <1>2, <1>3, <2>2, <2>4 DEF Good, IsRequest, InTransaction
  <2>6. Edited(r)
    <3>1. Overlapping(r) = Overlapping(a)
      BY <2>2 DEF Overlapping
    <3>2. /\ grants[a.role] \subseteq a.gone \cup WantedBy(Overlapping(a))
          /\ Overlapping(a) = {} => a.want \subseteq a.left \cup a.added
          /\ grants[a.role] \subseteq a.can \cup WantedBy(a.meets)
      BY <1>2, <1>3 DEF Good, Edited, InTransaction
    <3>3. Overlapping(a) = {} => a.want \subseteq left \cup added
      BY <1>1, <1>6, <3>2 DEF WantedBy
    <3> QED BY <1>2, <2>2, <3>1, <3>2, <3>3 DEF Edited
  <2>7. Good(r)
    BY <1>2, <1>3, <1>6, <2>2, <2>5, <2>6 DEF Good, Rooted, LoadedRight, Deleting
  <2>8. ASSUME NEW p \in Requests \ {q}, SameRole(q, p)
        PROVE  Compatible(r, req[p])
    <3>1. Compatible(a, req[p])
      BY <1>1 DEF WritingInv
    <3>2. Deleting(req[p]) => r.added \subseteq a.added
      BY <1>6, <2>2, <2>8 DEF Deleting, Deleted
    <3>3. (Holding(r) <=> Holding(a)) /\ ~Deleting(r)
      BY <1>2, <2>2 DEF Holding, Updating, Deleting
    <3> QED BY <2>2, <3>1, <3>2, <3>3 DEF Compatible
  <2>9. a.phase \in InTransaction /\ r.phase \in InTransaction
    BY <1>2, <2>2 DEF InTransaction
  <2> QED BY <1>1, <1>2, <2>2, <2>3, <2>7, <2>8, <2>9, EditMoves
<1> QED BY <1>4, <1>5, <1>6

LEMMA GrantsAddedMoves ==
  ASSUME WritingInv, NEW q \in Requests, GrantsAdded(q)
  PROVE  WritingInv'
<1>1. PICK a : a = req[q]
  OBVIOUS
<1>2. Good(a) /\ a.phase = "insert" /\ a.left = {} /\ UNCHANGED Table /\ UNCHANGED Caches /\ Goto(q, "commit")
  BY <1>1, Requested DEF GrantsAdded, At
<1>3. PICK r : r.phase = "commit" /\ Same(a, r) /\ req' = [req EXCEPT ![q] = r]
  BY <1>1, <1>2, GotoMoves
<1>4. IsRequest(r)
  BY <1>2, <1>3 DEF Same, Good, IsRequest, InTransaction
<1>5. Edited(r)
  <2>1. Overlapping(r) = Overlapping(a)
    BY <1>3 DEF Overlapping, Same
  <2> QED BY <1>2, <1>3, <2>1 DEF Good, Edited, InTransaction, Same
<1>6. Good(r)
  BY <1>2, <1>3, <1>4, <1>5 DEF Same, Good, Rooted, LoadedRight, Deleting
<1>7. /\ Holding(r) => Holding(a)
      /\ ~Deleting(r)
      /\ a.phase \in InTransaction /\ r.phase \in InTransaction
  BY <1>2, <1>3 DEF Holding, Updating, Deleting, InTransaction, Same
<1>8. \A p \in Requests \ {q} : Compatible(r, req[p])
  BY <1>1, <1>3, <1>7, StillCompatible DEF Same
<1> QED BY <1>1, <1>2, <1>3, <1>6, <1>7, <1>8, EditMoves DEF Same

LEMMA UnassignMoves ==
  ASSUME WritingInv, NEW q \in Requests, Unassign(q)
  PROVE  WritingInv'
<1>1. PICK a, who : a = req[q] /\ who = {m \in Members : a.role \in held[m]}
  OBVIOUS
<1>2. PICK r : r = [a EXCEPT !.phase = "deleteRow", !.holders = who]
  OBVIOUS
<1>3. req' = [req EXCEPT ![q] = r] /\ a.phase = "unassign" /\ UNCHANGED Table /\ UNCHANGED Caches
  BY <1>1, <1>2 DEF Unassign, Set, At
<1>4. Good(a) /\ DOMAIN a = DOMAIN Idle /\ a.added = {} /\ a.gone = {} /\ a.op = "remove"
  BY <1>1, <1>3, Requested DEF Good, IsRequest
<1>5. /\ DOMAIN r = DOMAIN Idle /\ r.phase = "deleteRow" /\ r.caller = a.caller /\ r.op = a.op /\ r.role = a.role
      /\ r.want = a.want /\ r.renames = a.renames /\ r.mine = a.mine /\ r.can = a.can /\ r.loaded = a.loaded
      /\ r.gone = a.gone /\ r.added = a.added /\ r.left = a.left /\ r.meets = a.meets
  BY <1>2, <1>4, IdleFields
<1>6. IsRequest(r)
  BY <1>3, <1>4, <1>5 DEF Good, IsRequest, InTransaction
<1>7. Good(r) /\ Inert(r)
  BY <1>3, <1>4, <1>5, <1>6 DEF Good, Edited, Rooted, LoadedRight, Inert, Holding, Updating, Deleting, InTransaction
<1> QED BY <1>1, <1>3, <1>5, <1>7, InertMoves

LEMMA DeleteCustomMoves ==
  ASSUME WritingInv, NEW q \in Requests, DeleteCustom(q)
  PROVE  WritingInv'
<1>1. PICK a : a = req[q]
  OBVIOUS
<1>2. Good(a) /\ a.phase = "deleteRow" /\ UNCHANGED Table /\ UNCHANGED Caches /\ ~RowHeld(q) /\ Added(q) = {}
  BY <1>1, Requested DEF DeleteCustom, At
<1>3. End(q) \/ (a.role \in roles /\ Goto(q, "cascade"))
  BY <1>1 DEF DeleteCustom
<1>4. CASE End(q)
  BY <1>1, <1>2, <1>4, EndMoves
<1>5. CASE a.role \in roles /\ Goto(q, "cascade")
  <2>1. PICK r : r.phase = "cascade" /\ Same(a, r) /\ req' = [req EXCEPT ![q] = r]
    BY <1>1, <1>5, GotoMoves
  <2>2. IsRequest(r) /\ r.added = {}
    BY <1>2, <2>1 DEF Same, Good, IsRequest, InTransaction
  <2>3. Good(r)
    BY <1>2, <1>5, <2>1, <2>2 DEF Same, Good, Edited, Rooted, LoadedRight, InTransaction
  <2>4. ASSUME NEW p \in Requests, SameRole(q, p)
        PROVE  Compatible(r, req[p])
    <3>1. ~Holding(req[p])
      BY <1>2, <2>4, RowFree
    <3>2. req[p].added \subseteq Added(q)
      BY <2>4 DEF Added
    <3> QED BY <1>2, <2>2, <3>1, <3>2 DEF Compatible, Holding
  <2>5. req[q].phase \in InTransaction /\ r.phase \in InTransaction /\ r.role = req[q].role
    BY <1>1, <1>2, <2>1 DEF InTransaction, Same
  <2> QED BY <1>2, <2>1, <2>3, <2>4, <2>5, EditMoves
<1> QED BY <1>3, <1>4, <1>5

LEMMA CascadeMoves ==
  ASSUME WritingInv, NEW q \in Requests, Cascade(q)
  PROVE  WritingInv'
<1>1. PICK a, gone : a = req[q] /\ gone = grants[a.role]
  OBVIOUS
<1>2. PICK r : r = [a EXCEPT !.phase = "commitRemove", !.gone = gone]
  OBVIOUS
<1>3. req' = [req EXCEPT ![q] = r] /\ a.phase = "cascade" /\ UNCHANGED Table /\ UNCHANGED Caches
  BY <1>1, <1>2 DEF Cascade, Set, At
<1>4. Good(a) /\ DOMAIN a = DOMAIN Idle /\ a.added = {} /\ a.op = "remove" /\ a.role \in roles
  BY <1>1, <1>3, Requested DEF Good, IsRequest, Rooted, Deleting
<1>5. /\ DOMAIN r = DOMAIN Idle /\ r.phase = "commitRemove" /\ r.caller = a.caller /\ r.op = a.op /\ r.role = a.role
      /\ r.want = a.want /\ r.renames = a.renames /\ r.mine = a.mine /\ r.can = a.can /\ r.loaded = a.loaded
      /\ r.gone = gone /\ r.added = a.added /\ r.left = a.left /\ r.meets = a.meets
  BY <1>2, <1>4, IdleFields
<1>6. IsRequest(r)
  BY <1>3, <1>4, <1>5 DEF Good, IsRequest, InTransaction
<1>7. Good(r)
  BY <1>3, <1>4, <1>5, <1>6 DEF Good, Edited, Rooted, LoadedRight, InTransaction
<1>8. Holding(a) /\ Deleting(a) /\ a.phase \in InTransaction /\ r.phase \in InTransaction
  BY <1>3, <1>5 DEF Holding, Updating, Deleting, InTransaction
<1>9. \A p \in Requests \ {q} : Compatible(r, req[p])
  BY <1>1, <1>5, <1>8, StillCompatible
<1> QED BY <1>1, <1>3, <1>5, <1>7, <1>8, <1>9, EditMoves
-----------------------------------------------------------------------------
(* What becomes visible to the others.                                     *)

LEMMA CreateMoves ==
  ASSUME WritingInv, NEW q \in Requests, CreateCustom(q)
  PROVE  WritingInv'
<1>1. PICK x \in fresh : /\ fresh' = fresh \ {x} /\ roles' = roles \cup {x}
                         /\ grants' = [grants EXCEPT ![x] = req[q].want]
  BY DEF CreateCustom
<1>2. /\ req[q].phase = "create" /\ req' = [req EXCEPT ![q] = Idle] /\ held' = held
      /\ UNCHANGED <<rolesCache, grantsCache, stale>>
  BY DEF CreateCustom, At, End, Set, Caches
<1>3. x \in Custom \ roles
  BY DEF WritingInv, Tables
<1>4. DOMAIN req' = Requests /\ req'[q] = Idle /\ \A p \in Requests \ {q} : req'[p] = req[p]
  BY <1>2, Requested
<1>5. \A s \in Custom \ {x} : grants'[s] = grants[s]
  BY <1>1 DEF WritingInv, Tables
<1>6. Tables'
  <2>1. req[q].want \subseteq Keys \ Restricted
    BY <1>2, Requested DEF Good, IsRequest
  <2>2. grants' \in [Custom -> SUBSET (Keys \ Restricted)]
    BY <1>1, <2>1 DEF WritingInv, Tables
  <2>3. held' \in [Members -> SUBSET (roles' \cup Default)]
    BY <1>1, <1>2 DEF WritingInv, Tables
  <2>4. \A s \in Custom \ roles' : grants'[s] = {}
    BY <1>1, <1>5 DEF WritingInv, Tables
  <2>5. roles' \subseteq Custom /\ fresh' \subseteq Custom \ roles'
    BY <1>1, <1>3 DEF WritingInv, Tables
  <2> QED BY <2>2, <2>3, <2>4, <2>5 DEF Tables
<1>7. Entries'
  BY <1>1, <1>2 DEF WritingInv, Entries
<1>8. CachedIsExcused'
  <2>1. \A p \in Requests : req[p].phase = "dropGrants" => req'[p] = req[p]
    BY <1>2, <1>4
  <2>2. grantsCache[x] = Absent
    BY DEF WritingInv, Entries
  <2>3. ASSUME NEW s \in Custom, grantsCache[s] \notin {Absent, grants'[s]}
        PROVE  s \in stale \/ \E p \in Requests : req'[p].role = s /\ req'[p].phase = "dropGrants"
    <3>1. s # x /\ grantsCache[s] \notin {Absent, grants[s]}
      BY <1>5, <2>2, <2>3
    <3>2. s \in stale \/ \E p \in Requests : req[p].role = s /\ req[p].phase = "dropGrants"
      BY <3>1 DEF WritingInv, CachedIsExcused, At
    <3> QED BY <2>1, <3>2
  <2> QED BY <1>2, <2>3 DEF CachedIsExcused, At
<1>9. (\A p \in Requests : Good(req[p]))'
  <2>1. Good(Idle)'
    <3>1. DOMAIN Idle.loaded = {}
      BY IdleFields
    <3>2. IsRequest(Idle)'
      BY <3>1, IdleFields DEF IsRequest, Writes, InTransaction
    <3> QED BY <3>1, <3>2, IdleFields DEF Good, Edited, Rooted, LoadedRight, Deleting, InTransaction
  <2>2. ASSUME NEW a, Good(a)
        PROVE  Good(a)'
    <3>1. IsRequest(a)'
      BY <1>1, <2>2 DEF Good, IsRequest
    <3>2. Rooted(a)' /\ LoadedRight(a)'
      BY <1>1, <1>5, <2>2 DEF Good, IsRequest, Rooted, LoadedRight
    <3>3. a.phase \in InTransaction => grants'[a.role] = grants[a.role]
      BY <1>5, <2>2 DEF Good, IsRequest
    <3>4. Edited(a)'
      BY <2>2, <3>3 DEF Good, Edited, InTransaction
    <3> QED BY <3>1, <3>2, <3>4 DEF Good
  <2>3. ASSUME NEW p \in Requests PROVE Good(req[p])'
    <3>1. PICK a : a = req'[p]
      OBVIOUS
    <3>2. a = Idle \/ a = req[p]
      BY <1>4, <3>1
    <3>3. Good(a)'
      BY <2>1, <2>2, <3>2, Requested
    <3> QED BY <3>1, <3>3 DEF Good, IsRequest, Edited, Rooted, LoadedRight
  <2> QED BY <2>3
<1>10. (\A p, o \in Requests : p # o => Compatible(req[p], req[o]))'
  <2>1. \A a, b : Compatible(a, b) => Compatible(b, a)
    BY DEF Compatible
  <2>2. Inert(Idle)
    BY IdleGood, IdleFields DEF Inert
  <2> QED BY <1>4, <2>1, <2>2, InertCompatible DEF WritingInv
<1>11. Capped'
  <2>1. Creates' = Creates \ {q} /\ q \in Creates
    BY <1>2, <1>4, IdleFields DEF Creates
  <2>2. IsFiniteSet(Creates) /\ IsFiniteSet(roles)
    <3>1. Creates \subseteq Requests
      BY DEF Creates
    <3> QED BY <3>1, RolesAssumption, FS_Subset DEF WritingInv, Capped
  <2>3. Cardinality(Creates') = Cardinality(Creates) - 1 /\ Cardinality(Creates) \in Nat /\ Cardinality(roles) \in Nat
    BY <2>1, <2>2, FS_RemoveElement, FS_CardinalityType
  <2>4. IsFiniteSet(roles') /\ Cardinality(roles') = Cardinality(roles) + 1
    BY <1>1, <1>3, <2>2, FS_AddElement
  <2>5. MaxCustomRoles \in Nat /\ Cardinality(Requests) \in Nat
    BY RolesAssumption, FS_CardinalityType
  <2> QED BY <2>3, <2>4, <2>5 DEF WritingInv, Capped
<1> QED BY <1>4, <1>6, <1>7, <1>8, <1>9, <1>10, <1>11 DEF WritingInv

LEMMA MetFields ==
  ASSUME WritingInv, NEW q \in Requests, NEW p \in Requests \ {q}
  PROVE  LET a == req[p]
             b == Met(q, p)
             e == [want |-> req[q].want, renames |-> req[q].renames]
         IN /\ DOMAIN b = DOMAIN Idle /\ b.phase = a.phase /\ b.caller = a.caller /\ b.op = a.op /\ b.role = a.role
            /\ b.want = a.want /\ b.renames = a.renames /\ b.mine = a.mine /\ b.can = a.can /\ b.loaded = a.loaded
            /\ b.seen = a.seen /\ b.gone = a.gone /\ b.added = a.added /\ b.left = a.left
            /\ SameRole(q, p) /\ a.phase \in InTransaction =>
                 b.skipped = a.skipped \cup req[q].gone /\ b.meets = a.meets \cup {e}
            /\ ~(SameRole(q, p) /\ a.phase \in InTransaction) => b.skipped = a.skipped /\ b.meets = a.meets
            /\ a.phase = "storeGrants" => b.old = a.old \cup {req[q].role}
<1>1. PICK a, e : a = req[p] /\ e = [want |-> req[q].want, renames |-> req[q].renames]
  OBVIOUS
<1>2. DOMAIN a = DOMAIN Idle
  BY <1>1, Requested
<1>3. CASE SameRole(q, p) /\ a.phase \in InTransaction
  <2>1. Met(q, p) = [a EXCEPT !.skipped = @ \cup req[q].gone, !.meets = @ \cup {e}]
    BY <1>1, <1>3 DEF Met
  <2>2. PICK b : b = [a EXCEPT !.skipped = @ \cup req[q].gone, !.meets = @ \cup {e}]
    OBVIOUS
  <2>3. a.phase # "storeGrants"
    BY <1>3 DEF InTransaction
  <2> QED BY <1>1, <1>2, <1>3, <2>1, <2>2, <2>3, IdleFields
<1>4. CASE ~(SameRole(q, p) /\ a.phase \in InTransaction) /\ a.phase = "storeGrants"
  <2>1. Met(q, p) = [a EXCEPT !.old = @ \cup {req[q].role}]
    BY <1>1, <1>4 DEF Met
  <2> QED BY <1>1, <1>2, <1>4, <2>1, IdleFields
<1>5. CASE ~(SameRole(q, p) /\ a.phase \in InTransaction) /\ a.phase # "storeGrants"
  <2>1. Met(q, p) = a
    BY <1>1, <1>5 DEF Met
  <2> QED BY <1>1, <1>2, <1>5, <2>1
<1> QED BY <1>3, <1>4, <1>5

(* A request that another's commit meets is as good as before.             *)
LEMMA MetGood ==
  ASSUME WritingInv, NEW q \in Requests, NEW p \in Requests \ {q},
         req[q].phase \in {"commit", "commitRemove"},
         NEW now, now \subseteq (grants[req[q].role] \ req[q].gone) \cup req[q].added,
         grants' = [grants EXCEPT ![req[q].role] = now], UNCHANGED fresh,
         roles' = roles \/ (Deleting(req[q]) /\ roles' = roles \ {req[q].role}),
         NEW b, b = Met(q, p)
  PROVE  Good(b)'
<1>1. PICK a, c, e : a = req[p] /\ c = req[q] /\ e = [want |-> c.want, renames |-> c.renames]
  OBVIOUS
<1>2. /\ DOMAIN b = DOMAIN Idle /\ b.phase = a.phase /\ b.caller = a.caller /\ b.op = a.op /\ b.role = a.role
      /\ b.want = a.want /\ b.renames = a.renames /\ b.mine = a.mine /\ b.can = a.can /\ b.loaded = a.loaded
      /\ b.seen = a.seen /\ b.gone = a.gone /\ b.added = a.added /\ b.left = a.left
      /\ a.role = c.role /\ a.phase \in InTransaction =>
           b.skipped = a.skipped \cup c.gone /\ b.meets = a.meets \cup {e}
      /\ ~(a.role = c.role /\ a.phase \in InTransaction) => b.skipped = a.skipped /\ b.meets = a.meets
      /\ a.phase = "storeGrants" => b.old = a.old \cup {c.role}
  BY <1>1, MetFields DEF SameRole
<1>3. Good(a) /\ Good(c) /\ Compatible(a, c) /\ c.role \in Custom \ fresh /\ c.added \subseteq c.want
  <2>1. c.phase \in InTransaction
    BY <1>1 DEF InTransaction
  <2> QED BY <1>1, <2>1, Requested DEF WritingInv, Good, IsRequest
<1>4. \A s \in Custom : grants'[s] = IF s = c.role THEN now ELSE grants[s]
  BY <1>1 DEF WritingInv, Tables
<1>5. IsRequest(b)'
  <2>1. fresh' = fresh /\ DOMAIN b.loaded \subseteq Custom \ fresh
    BY <1>2, <1>3 DEF Good, IsRequest
  <2> QED BY <1>2, <1>3, <2>1 DEF Good, IsRequest
<1>6. LoadedRight(b)'
  <2>1. ASSUME a.phase = "storeGrants", NEW s \in DOMAIN a.loaded
        PROVE  a.loaded[s] = grants'[s] \/ s \in b.old
    BY <1>2, <1>3, <1>4, <2>1 DEF Good, IsRequest, LoadedRight
  <2> QED BY <1>2, <2>1 DEF LoadedRight
<1>7. Rooted(b)'
  BY <1>1, <1>2, <1>3 DEF Good, Rooted, Compatible, Holding, Deleting
<1>8. Edited(b)'
  <2>1. CASE ~(a.role = c.role /\ a.phase \in InTransaction)
    <3>1. a.phase \in InTransaction => grants'[b.role] = grants[b.role]
      BY <1>2, <1>3, <1>4, <2>1 DEF Good, IsRequest
    <3>2. Overlapping(b) = Overlapping(a)
      BY <1>2, <2>1 DEF Overlapping
    <3> QED BY <1>2, <1>3, <2>1, <3>1, <3>2 DEF Good, Edited, InTransaction
  <2>2. CASE a.role = c.role /\ a.phase \in InTransaction
    <3>1. grants'[b.role] \subseteq (grants[a.role] \ c.gone) \cup c.want
      BY <1>1, <1>2, <1>3, <1>4, <2>2
    <3>2. b.meets = a.meets \cup {e} /\ b.skipped = a.skipped \cup c.gone /\ e.want = c.want /\ e.renames = c.renames
      BY <1>1, <1>2, <2>2
    <3>3. WantedBy(b.meets) = WantedBy(a.meets) \cup c.want
      BY <3>2 DEF WantedBy
    <3>4. grants'[b.role] \subseteq (grants[a.role] \ c.gone) \cup c.added
      BY <1>1, <1>2, <1>3, <1>4, <2>2
    <3>5. ASSUME a.phase \in {"waitDelete", "insert", "commit"}, a.op = "update"
          PROVE  /\ grants'[b.role] \subseteq (grants[a.role] \ c.gone) \cup WantedBy(Overlapping(b))
                 /\ WantedBy(Overlapping(a)) \subseteq WantedBy(Overlapping(b))
                 /\ Overlapping(b) = {} => Overlapping(a) = {}
      <4>1. Overlapping(a) \subseteq Overlapping(b)
        BY <1>2, <3>2 DEF Overlapping
      <4>2. c.added # {} => e \in Overlapping(b)
        <5>1. c.added # {} => c.phase = "commit" /\ c.op = "update"
          BY <1>1, <1>3 DEF Good, IsRequest
        <5>2. c.added # {} => ~(c.renames /\ a.renames)
          BY <1>3, <2>2, <3>5, <5>1 DEF Compatible, Holding, Updating
        <5> QED BY <1>2, <1>3, <3>2, <5>2 DEF Overlapping, Good, IsRequest
      <4>3. c.added \subseteq WantedBy(Overlapping(b))
        BY <1>3, <3>2, <4>2 DEF WantedBy
      <4> QED BY <3>4, <4>1, <4>3 DEF WantedBy
    <3>6. a.op \in {"update", "remove"} => grants'[b.role] \subseteq b.can \cup WantedBy(b.meets)
      BY <1>2, <1>3, <2>2, <3>1, <3>3 DEF Good, Edited
    <3>7. a.phase = "waitDelete" =>
            grants'[b.role] \subseteq (b.seen \ b.skipped) \cup WantedBy(Overlapping(b)) /\ b.left = b.want
      <4>1. ASSUME a.phase = "waitDelete"
            PROVE  grants'[b.role] \subseteq (b.seen \ b.skipped) \cup WantedBy(Overlapping(b)) /\ b.left = b.want
        <5>1. a.op = "update"
          BY <1>3, <4>1 DEF Good, IsRequest
        <5>2. grants[a.role] \subseteq (a.seen \ a.skipped) \cup WantedBy(Overlapping(a)) /\ a.left = a.want
          BY <1>3, <4>1 DEF Good, Edited
        <5> QED BY <1>2, <3>2, <3>5, <4>1, <5>1, <5>2
      <4> QED BY <4>1
    <3>8. a.phase \in {"insert", "commit"} /\ a.op = "update" =>
            /\ grants'[b.role] \subseteq b.gone \cup WantedBy(Overlapping(b))
            /\ Overlapping(b) = {} => b.want \subseteq b.left \cup b.added
      BY <1>2, <1>3, <3>5 DEF Good, Edited
    <3> QED BY <1>2, <3>6, <3>7, <3>8 DEF Edited
  <2> QED BY <2>1, <2>2
<1> QED BY <1>5, <1>6, <1>7, <1>8 DEF Good

LEMMA CommitMoves ==
  ASSUME WritingInv, NEW q \in Requests, Committed(q, Dropping(q)),
         req[q].phase \in {"commit", "commitRemove"}, req[q].op # "rename",
         NEW now, now \subseteq (grants[req[q].role] \ req[q].gone) \cup req[q].added,
         grants' = [grants EXCEPT ![req[q].role] = now], UNCHANGED fresh, UNCHANGED Caches,
         roles' = roles \/ (Deleting(req[q]) /\ roles' = roles \ {req[q].role}),
         Tables'
  PROVE  WritingInv'
<1>1. PICK a, r : a = req[q] /\ r = [a EXCEPT !.phase = "dropGrants", !.gone = {}, !.added = {}]
  OBVIOUS
<1>2. Good(a) /\ DOMAIN a = DOMAIN Idle /\ a.role \in Custom \ fresh
  BY <1>1, Requested DEF Good, IsRequest, InTransaction
<1>3. /\ DOMAIN r = DOMAIN Idle /\ r.phase = "dropGrants" /\ r.caller = a.caller /\ r.op = a.op /\ r.role = a.role
      /\ r.want = a.want /\ r.renames = a.renames /\ r.mine = a.mine /\ r.loaded = a.loaded /\ r.gone = {}
      /\ r.added = {} /\ r.left = a.left
  BY <1>1, <1>2, IdleFields
<1>4. DOMAIN req' = Requests /\ req'[q] = r /\ \A p \in Requests \ {q} : req'[p] = Met(q, p)
  BY <1>1 DEF Committed, Dropping
<1>5. \A p \in Requests \ {q} : /\ req'[p].phase = req[p].phase /\ req'[p].role = req[p].role
                                /\ req'[p].renames = req[p].renames /\ req'[p].added = req[p].added
  BY <1>4, MetFields
<1>6. UNCHANGED <<rolesCache, grantsCache, stale>>
  BY DEF Caches
<1>7. Good(r)'
  <2>1. IsRequest(r)'
    BY <1>1, <1>2, <1>3 DEF Good, IsRequest, Writes, InTransaction
  <2> QED BY <1>3, <2>1 DEF Good, Edited, Rooted, LoadedRight, Deleting, InTransaction
<1>8. (\A p \in Requests : Good(req[p]))'
  <2>1. ASSUME NEW p \in Requests PROVE Good(req[p])'
    <3>1. PICK b : b = req'[p]
      OBVIOUS
    <3>2. Good(b)'
      <4>1. CASE p = q
        BY <1>4, <1>7, <3>1, <4>1
      <4>2. CASE p # q
        <5>1. b = Met(q, p) /\ p \in Requests \ {q}
          BY <1>4, <3>1, <4>2
        <5> QED BY <5>1, MetGood
      <4> QED BY <4>1, <4>2
    <3> QED BY <3>1, <3>2 DEF Good, IsRequest, Edited, Rooted, LoadedRight
  <2> QED BY <2>1
<1>9. (\A p, o \in Requests : p # o => Compatible(req[p], req[o]))'
  <2>1. Inert(req'[q])
    BY <1>3, <1>4 DEF Inert, Holding, Updating, Deleting
  <2>2. \A x, y : Compatible(x, y) => Compatible(y, x)
    BY DEF Compatible
  <2>3. \A p, o \in Requests \ {q} : p # o => Compatible(req'[p], req'[o])
    BY <1>5 DEF WritingInv, Compatible, Holding, Updating, Deleting
  <2>4. \A p, o \in Requests : p # o => Compatible(req'[p], req'[o])
    BY <2>1, <2>2, <2>3, InertCompatible
  <2> QED BY <2>4 DEF Compatible, Holding, Updating, Deleting
<1>10. Entries'
  BY <1>6 DEF WritingInv, Entries
<1>11. CachedIsExcused'
  <2>1. ASSUME NEW s \in Custom, grantsCache[s] \notin {Absent, grants'[s]}
        PROVE  s \in stale \/ \E p \in Requests : req'[p].role = s /\ req'[p].phase = "dropGrants"
    <3>1. CASE s = a.role
      BY <1>3, <1>4, <3>1
    <3>2. CASE s # a.role
      <4>1. grants'[s] = grants[s]
        BY <1>1, <3>2 DEF WritingInv, Tables
      <4>2. s \in stale \/ \E p \in Requests : req[p].role = s /\ req[p].phase = "dropGrants"
        BY <2>1, <4>1 DEF WritingInv, CachedIsExcused, At
      <4> QED BY <1>5, <4>2
    <3> QED BY <3>1, <3>2
  <2> QED BY <1>6, <2>1 DEF CachedIsExcused, At
<1>12. Capped'
  <2>1. Creates' = Creates
    BY <1>3, <1>4, <1>5 DEF Creates
  <2>2. roles' \subseteq roles /\ IsFiniteSet(roles)
    BY DEF WritingInv, Capped
  <2>3. IsFiniteSet(roles') /\ Cardinality(roles') <= Cardinality(roles)
    BY <2>2, FS_Subset
  <2>4. IsFiniteSet(Creates)
    <3>1. Creates \subseteq Requests
      BY DEF Creates
    <3> QED BY <3>1, RolesAssumption, FS_Subset
  <2>5. /\ Cardinality(roles) \in Nat /\ Cardinality(roles') \in Nat /\ Cardinality(Creates) \in Nat
        /\ MaxCustomRoles \in Nat /\ Cardinality(Requests) \in Nat
    BY <2>2, <2>3, <2>4, RolesAssumption, FS_CardinalityType
  <2> QED BY <2>1, <2>3, <2>5 DEF WritingInv, Capped
<1> QED BY <1>4, <1>8, <1>9, <1>10, <1>11, <1>12 DEF WritingInv

LEMMA CommitUpdateMoves ==
  ASSUME WritingInv, NEW q \in Requests, CommitUpdate(q)
  PROVE  WritingInv'
<1>1. PICK a, now : a = req[q] /\ now = (grants[a.role] \ a.gone) \cup a.added
  OBVIOUS
<1>2. /\ a.phase = "commit" /\ UNCHANGED <<roles, held, fresh>> /\ UNCHANGED Caches
      /\ grants' = [grants EXCEPT ![a.role] = now]
      /\ IF a.op = "rename" THEN End(q) ELSE Committed(q, Dropping(q))
  BY <1>1 DEF CommitUpdate, At
<1>3. Good(a) /\ a.role \in Custom \ fresh
  BY <1>1, <1>2, Requested DEF Good, IsRequest, InTransaction
<1>4. CASE a.op = "rename"
  <2>1. a.gone = {} /\ a.added = {}
    BY <1>2, <1>3, <1>4 DEF Good, IsRequest
  <2>2. grants' = grants
    BY <1>1, <1>2, <2>1 DEF WritingInv, Tables
  <2> QED BY <1>1, <1>2, <1>4, <2>2, EndMoves DEF Table
<1>5. CASE a.op # "rename"
  <2>1. now \subseteq Keys \ Restricted
    BY <1>1, <1>2, <1>3 DEF WritingInv, Tables, Good, IsRequest, InTransaction
  <2>2. a.role \notin roles => now = {}
    BY <1>1, <1>3 DEF WritingInv, Tables, Good, Rooted
  <2>3. grants' \in [Custom -> SUBSET (Keys \ Restricted)]
    BY <1>2, <2>1 DEF WritingInv, Tables
  <2>4. \A s \in Custom \ roles : grants'[s] = {}
    BY <1>2, <2>2 DEF WritingInv, Tables
  <2>5. Tables'
    BY <1>2, <2>3, <2>4 DEF WritingInv, Tables
  <2> QED BY <1>1, <1>2, <1>5, <2>5, CommitMoves
<1> QED BY <1>4, <1>5

LEMMA CommitRemoveMoves ==
  ASSUME WritingInv, NEW q \in Requests, CommitRemove(q)
  PROVE  WritingInv'
<1>1. PICK a : a = req[q]
  OBVIOUS
<1>2. /\ a.phase = "commitRemove" /\ fresh' = fresh /\ UNCHANGED Caches /\ roles' = roles \ {a.role}
      /\ grants' = [grants EXCEPT ![a.role] = {}] /\ held' = [m \in Members |-> held[m] \ {a.role}]
      /\ Committed(q, Dropping(q))
  BY <1>1 DEF CommitRemove, At
<1>3. a.op = "remove" /\ a.role \in Custom /\ Deleting(a)
  BY <1>1, <1>2, Requested DEF Good, IsRequest, Writes, Deleting
<1>4. Tables'
  <2>1. grants' \in [Custom -> SUBSET (Keys \ Restricted)]
    BY <1>2 DEF WritingInv, Tables
  <2>2. \A s \in Custom \ roles' : grants'[s] = {}
    BY <1>2 DEF WritingInv, Tables
  <2>3. held' \in [Members -> SUBSET (roles' \cup Default)]
    BY <1>2 DEF WritingInv, Tables
  <2>4. roles' \subseteq Custom /\ fresh' \subseteq Custom \ roles'
    BY <1>2 DEF WritingInv, Tables
  <2> QED BY <2>1, <2>2, <2>3, <2>4 DEF Tables
<1>5. {} \subseteq (grants[a.role] \ a.gone) \cup a.added
  OBVIOUS
<1> QED BY <1>1, <1>2, <1>3, <1>4, <1>5, CommitMoves
-----------------------------------------------------------------------------
(* What follows a commit, and the entries that expire.                     *)

LEMMA DropGrantsMoves ==
  ASSUME WritingInv, NEW q \in Requests, DropGrants(q)
  PROVE  WritingInv'
<1>1. PICK a : a = req[q]
  OBVIOUS
<1>2. /\ a.phase = "dropGrants" /\ grantsCache' = [grantsCache EXCEPT ![a.role] = Absent]
      /\ stale' = stale \ {a.role} /\ UNCHANGED Table /\ rolesCache' = rolesCache
      /\ IF a.op = "remove" THEN Goto(q, "dropRoles") ELSE End(q)
  BY <1>1 DEF DropGrants, At
<1>3. Good(a) /\ UNCHANGED <<roles, grants, held, fresh>>
  BY <1>1, <1>2, Requested DEF Table
<1>4. PICK r : req' = [req EXCEPT ![q] = r] /\ Good(r) /\ Inert(r) /\ r.phase # "create"
  <2>1. CASE a.op # "remove"
    BY <1>2, <2>1, IdleGood, IdleFields DEF End, Set, Inert
  <2>2. CASE a.op = "remove"
    <3>1. PICK r : r.phase = "dropRoles" /\ Same(a, r) /\ req' = [req EXCEPT ![q] = r]
      BY <1>1, <1>2, <2>2, GotoMoves
    <3>2. Good(r) /\ Inert(r)
      BY <1>2, <1>3, <2>2, <3>1 DEF Same, Good, IsRequest, Edited, Rooted, LoadedRight, Inert, Holding, Updating, Deleting, InTransaction
    <3> QED BY <3>1, <3>2
  <2> QED BY <2>1, <2>2
<1>5. Entries'
  BY <1>2, <1>3 DEF WritingInv, Entries, Tables
<1>6. CachedIsExcused'
  <2>1. \A p \in Requests \ {q} : req'[p] = req[p]
    BY <1>4, Requested
  <2>2. ASSUME NEW s \in Custom, grantsCache'[s] \notin {Absent, grants[s]}
        PROVE  s \in stale' \/ \E p \in Requests : req'[p].role = s /\ req'[p].phase = "dropGrants"
    <3>1. s # a.role /\ grantsCache'[s] = grantsCache[s]
      BY <1>2, <2>2 DEF WritingInv, Entries
    <3>2. s \in stale \/ \E p \in Requests : req[p].role = s /\ req[p].phase = "dropGrants"
      BY <2>2, <3>1 DEF WritingInv, CachedIsExcused, At
    <3> QED BY <1>1, <1>2, <2>1, <3>1, <3>2
  <2> QED BY <1>3, <2>2 DEF CachedIsExcused, At
<1> QED BY <1>2, <1>4, <1>5, <1>6, InertCompatible, CacheMoves

LEMMA DropRolesMoves ==
  ASSUME WritingInv, NEW q \in Requests, DropRoles(q)
  PROVE  WritingInv'
<1>1. /\ req[q].phase = "dropRoles" /\ req' = [req EXCEPT ![q] = Idle] /\ UNCHANGED Table
      /\ UNCHANGED <<grantsCache, stale>>
      /\ rolesCache' = [m \in Members |-> IF m \in req[q].holders THEN Absent ELSE rolesCache[m]]
  BY DEF DropRoles, At, End, Set
<1>2. Good(Idle) /\ Inert(Idle) /\ Idle.phase # "create" /\ UNCHANGED <<roles, grants, held, fresh>>
  BY <1>1, IdleGood, IdleFields DEF Inert, Table
<1>3. Entries'
  BY <1>1, <1>2 DEF WritingInv, Entries
<1>4. CachedIsExcused'
  <2>1. \A p \in Requests : req[p].phase = "dropGrants" => req'[p] = req[p]
    BY <1>1, Requested
  <2> QED BY <1>1, <1>2, <2>1 DEF WritingInv, CachedIsExcused, At
<1> QED BY <1>1, <1>2, <1>3, <1>4, InertCompatible, CacheMoves

LEMMA DropLostMoves ==
  ASSUME WritingInv, NEW q \in Requests, DropLost(q)
  PROVE  WritingInv'
<1>1. PICK a : a = req[q]
  OBVIOUS
<1>2. /\ a.phase \in {"dropGrants", "dropRoles"} /\ req' = [req EXCEPT ![q] = Idle] /\ UNCHANGED Table
      /\ UNCHANGED <<rolesCache, grantsCache>>
      /\ stale' = IF a.phase = "dropGrants" THEN stale \cup {a.role} ELSE stale
  BY <1>1 DEF DropLost, At, End, Set
<1>3. /\ Good(Idle) /\ Inert(Idle) /\ Idle.phase # "create" /\ UNCHANGED <<roles, grants, held, fresh>>
      /\ a.role \in Custom
  BY <1>1, <1>2, Requested, IdleGood, IdleFields DEF Inert, Table, Good, IsRequest
<1>4. Entries'
  BY <1>2, <1>3 DEF WritingInv, Entries
<1>5. CachedIsExcused'
  <2>1. \A p \in Requests \ {q} : req'[p] = req[p]
    BY <1>2, Requested
  <2>2. ASSUME NEW s \in Custom, grantsCache[s] \notin {Absent, grants[s]}
        PROVE  s \in stale' \/ \E p \in Requests : req'[p].role = s /\ req'[p].phase = "dropGrants"
    <3>1. s \in stale \/ \E p \in Requests : req[p].role = s /\ req[p].phase = "dropGrants"
      BY <2>2 DEF WritingInv, CachedIsExcused, At
    <3> QED BY <1>1, <1>2, <2>1, <3>1
  <2> QED BY <1>2, <1>3, <2>2 DEF CachedIsExcused, At
<1> QED BY <1>2, <1>3, <1>4, <1>5, InertCompatible, CacheMoves

(* An entry that is dropped is in nobody's way.                            *)
LEMMA ExpireMoves ==
  ASSUME WritingInv, UNCHANGED <<roles, grants, held, fresh, req>>, stale' \subseteq stale,
         DOMAIN grantsCache' = Custom, DOMAIN rolesCache' = Members,
         \A s \in Custom : grantsCache'[s] = Absent \/ (grantsCache'[s] = grantsCache[s] /\ (s \in stale => s \in stale')),
         \A m \in Members : rolesCache'[m] \in {Absent, rolesCache[m]}
  PROVE  WritingInv'
<1>1. Tables' /\ Capped' /\ DOMAIN req' = Requests
  BY DEF WritingInv, Tables, Capped, Creates
<1>2. Entries'
  BY DEF WritingInv, Entries, Tables
<1>3. (\A q \in Requests : Good(req[q]))'
  BY DEF WritingInv, Good, IsRequest, Edited, Rooted, LoadedRight
<1>4. (\A q, p \in Requests : q # p => Compatible(req[q], req[p]))'
  BY DEF WritingInv, Compatible, Holding, Updating, Deleting
<1>5. CachedIsExcused'
  BY DEF WritingInv, CachedIsExcused, At
<1> QED BY <1>1, <1>2, <1>3, <1>4, <1>5 DEF WritingInv

LEMMA ExpireGrantsMoves ==
  ASSUME WritingInv, NEW s \in Custom, ExpireGrants(s)
  PROVE  WritingInv'
  BY ExpireMoves DEF ExpireGrants, Table, WritingInv, Entries

LEMMA ExpireRolesMoves ==
  ASSUME WritingInv, NEW m \in Members, ExpireRoles(m)
  PROVE  WritingInv'
  BY ExpireMoves DEF ExpireRoles, Table, WritingInv, Entries

LEMMA RollbackMoves ==
  ASSUME WritingInv, NEW q \in Requests, Rollback(q)
  PROVE  WritingInv'
  BY EndMoves DEF Rollback, InTransaction

LEMMA VictimMoves ==
  ASSUME WritingInv, NEW q \in Requests, Victim(q)
  PROVE  WritingInv'
<1>1. PICK p \in Requests : Waits(q, p)
  BY DEF Victim
<1>2. req[q].phase # "dropGrants"
  BY <1>1 DEF Waits, At
<1> QED BY <1>2, EndMoves DEF Victim
-----------------------------------------------------------------------------
LEMMA InitialInv == Init => WritingInv
<1> SUFFICES ASSUME Init PROVE WritingInv
  OBVIOUS
<1>1. Tables
  <2>1. roles \subseteq Custom /\ fresh = Custom \ roles
    BY RolesAssumption DEF Init
  <2>2. grants \in [Custom -> SUBSET (Keys \ Restricted)]
    BY RolesAssumption DEF Init
  <2>3. held \in [Members -> SUBSET (roles \cup Default)]
    BY RolesAssumption DEF Init
  <2>4. \A r \in Custom \ roles : grants[r] = {}
    BY DEF Init
  <2> QED BY <2>1, <2>2, <2>3, <2>4 DEF Tables
<1>2. Entries /\ CachedIsExcused
  BY DEF Init, Entries, CachedIsExcused
<1>3. Capped
  <2>1. Creates = {}
    BY IdleFields DEF Init, Creates
  <2>2. IsFiniteSet(roles) /\ Cardinality(roles) <= MaxCustomRoles
    BY RolesAssumption DEF Init
  <2>3. Cardinality(Creates) = 0 /\ Cardinality(Requests) \in Nat /\ Cardinality(Requests) # 0
    BY <2>1, RolesAssumption, FS_EmptySet, FS_CardinalityType
  <2>4. Cardinality(roles) \in Nat /\ MaxCustomRoles \in Nat
    BY <2>2, RolesAssumption, FS_CardinalityType
  <2> QED BY <2>2, <2>3, <2>4 DEF Capped
<1>4. DOMAIN req = Requests /\ \A q \in Requests : req[q] = Idle
  BY DEF Init
<1>5. Inert(Idle)
  BY IdleGood, IdleFields DEF Inert
<1> QED BY <1>1, <1>2, <1>3, <1>4, <1>5, IdleGood, InertCompatible DEF WritingInv

LEMMA StepMoves ==
  ASSUME WritingInv, [Next]_vars
  PROVE  WritingInv'
<1>1. CASE \E q \in Requests : Arrives(q) \/ Step(q) \/ Rollback(q) \/ DropLost(q)
  <2>1. PICK q \in Requests : Arrives(q) \/ Step(q) \/ Rollback(q) \/ DropLost(q)
    BY <1>1
  <2>2. CASE Arrives(q)
    BY <2>2, ArriveMoves
  <2>3. CASE Step(q)
    BY <2>3, ReadRolesMoves, StoreRolesMoves, ReadGrantsMoves, StoreGrantsMoves, GuardMoves, CheckMoves, CountMoves,
       CreateMoves, UpdateMoves, DeleteMoves, DeleteEndsMoves, AddGrantMoves, GrantsAddedMoves, CommitUpdateMoves,
       UnassignMoves, DeleteCustomMoves, CascadeMoves, CommitRemoveMoves, DropGrantsMoves, DropRolesMoves, VictimMoves
       DEF Step
  <2>4. CASE Rollback(q)
    BY <2>4, RollbackMoves
  <2>5. CASE DropLost(q)
    BY <2>5, DropLostMoves
  <2> QED BY <2>1, <2>2, <2>3, <2>4, <2>5
<1>2. CASE \E r \in Custom : ExpireGrants(r)
  BY <1>2, ExpireGrantsMoves
<1>3. CASE \E m \in Members : ExpireRoles(m)
  BY <1>3, ExpireRolesMoves
<1>4. CASE UNCHANGED vars
  <2>1. UNCHANGED <<roles, grants, held, fresh, req, rolesCache, grantsCache, stale>>
    BY <1>4 DEF vars
  <2>2. DOMAIN grantsCache' = Custom /\ DOMAIN rolesCache' = Members
    BY <2>1 DEF WritingInv, Entries
  <2> QED BY <2>1, <2>2, ExpireMoves
<1> QED BY <1>1, <1>2, <1>3, <1>4 DEF Next

(* Whatever the requests do, what each has read, taken and given is what   *)
(* the tables and the others account for.                                  *)
THEOREM WritingHolds == Spec => []WritingInv
<1>1. WritingInv /\ [Next]_vars => WritingInv'
  BY StepMoves
<1> QED BY InitialInv, <1>1, PTL DEF Spec
-----------------------------------------------------------------------------
(* The grants a guard acts on are those of the table, or of an edit that   *)
(* is about to drop them, or that lost its delete (effectivePermissions).  *)
THEOREM StaleEntriesAreExcused == Spec => []CachedIsExcused
<1>1. WritingInv => CachedIsExcused
  BY DEF WritingInv
<1> QED BY <1>1, WritingHolds, PTL

(* createCustom may pass MAX_CUSTOM_ROLES, but never by as many as there   *)
(* are requests.                                                           *)
THEOREM CapHolds == Spec => []CapIsExcused
<1>1. WritingInv => CapIsExcused
  <2> SUFFICES ASSUME WritingInv PROVE CapIsExcused
    OBVIOUS
  <2>1. IsFiniteSet(Creates)
    <3>1. Creates \subseteq Requests
      BY DEF Creates
    <3> QED BY <3>1, RolesAssumption, FS_Subset
  <2>2. /\ Cardinality(Creates) \in Nat /\ Cardinality(roles) \in Nat
        /\ MaxCustomRoles \in Nat /\ Cardinality(Requests) \in Nat
    BY <2>1, RolesAssumption, FS_CardinalityType DEF WritingInv, Capped
  <2> QED BY <2>2 DEF WritingInv, Capped, CapIsExcused
<1> QED BY <1>1, WritingHolds, PTL

(* Requests begun. *)
Counted == served \in 0..MaxRequests

(* Every variable has its type: what a request loads for a cache is of the *)
(* catalogue, and no grant is restricted.                                  *)
THEOREM TypesHold == Spec => []TypeOK
<1>1. WritingInv /\ Counted => TypeOK
  BY RolesAssumption DEF WritingInv, Tables, Entries, TypeOK, Counted
<1>2. Init => Counted
  BY RolesAssumption DEF Init, Counted
<1>3. Counted /\ [Next]_vars => Counted'
  <2> SUFFICES ASSUME served \in 0..MaxRequests, [Next]_vars PROVE served' \in 0..MaxRequests
    BY DEF Counted
  <2>1. ASSUME NEW q \in Requests, Arrives(q) PROVE served' = served + 1 /\ served < MaxRequests
    BY <2>1 DEF Arrives, Arrive
  <2>2. ASSUME NEW q \in Requests, Step(q) \/ Rollback(q) \/ DropLost(q) PROVE served' = served
    BY <2>2 DEF Step, ReadRoles, StoreRoles, ReadGrants, StoreGrants, Guard, Check, Count, CreateCustom, UpdateCustom,
                DeleteGrants, DeleteGrantsEnds, AddGrant, GrantsAdded, CommitUpdate, Unassign, DeleteCustom, Cascade,
                CommitRemove, DropGrants, DropRoles, Victim, Rollback, DropLost
  <2>3. (\E r \in Custom : ExpireGrants(r)) \/ (\E m \in Members : ExpireRoles(m)) \/ UNCHANGED vars => served' = served
    BY DEF ExpireGrants, ExpireRoles, vars
  <2> QED BY <2>1, <2>2, <2>3, RolesAssumption DEF Next
<1> QED BY <1>1, <1>2, <1>3, WritingHolds, PTL DEF Spec

(* Two transactions that wait for each other each have rows the other      *)
(* wants: an edit that renames, and a removal, would first have to hold    *)
(* the role's row, which two cannot.                                       *)
THEOREM DeadlocksAreExcused == Spec => []DeadlockNeedsUnlocked
<1>1. WritingInv => DeadlockNeedsUnlocked
  <2> SUFFICES ASSUME WritingInv, NEW q \in Requests, NEW p \in Requests, Waits(q, p), Waits(p, q),
                      \A x \in {q, p} : ~(req[x].op = "update" /\ ~req[x].renames)
               PROVE  FALSE
    BY DEF DeadlockNeedsUnlocked
  <2>1. ASSUME NEW x \in {q, p}, NEW y \in {q, p}, Waits(x, y)
        PROVE  Holding(req[y])
    <3>1. Holding(req[y]) \/ req[y].gone # {} \/ req[y].added # {}
      BY <2>1 DEF Waits, Holding, Updating, Deleting, Updated, Deleted
    <3>2. Good(req[y]) /\ ~(req[y].op = "update" /\ ~req[y].renames)
      BY Requested
    <3>3. req[y].added # {} => Holding(req[y])
      BY <3>2 DEF Good, IsRequest, Holding, Updating
    <3>4. req[y].gone # {} => Holding(req[y])
      <4>1. ASSUME req[y].gone # {} PROVE Holding(req[y])
        <5>1. req[y].phase \in {"waitDelete", "insert", "commit", "cascade", "commitRemove"} /\ req[y].op # "rename"
          BY <3>2, <4>1 DEF Good, IsRequest
        <5>2. req[y].op \in Writes
          BY <3>2, <5>1 DEF Good, IsRequest, InTransaction
        <5>3. req[y].phase \in {"cascade", "commitRemove"} \/ req[y].op = "update"
          BY <3>2, <5>1, <5>2 DEF Good, IsRequest, Writes
        <5> QED BY <3>2, <5>1, <5>3 DEF Holding, Updating, Deleting
      <4> QED BY <4>1
    <3> QED BY <3>1, <3>3, <3>4
  <2>2. p # q /\ req[p].role = req[q].role
    BY DEF Waits, SameRole
  <2> QED BY <2>1, <2>2 DEF WritingInv, Compatible
<1> QED BY <1>1, WritingHolds, PTL
-----------------------------------------------------------------------------
(* A commit is the only step that leaves its entries to be dropped.        *)

LEMMA OneRequest ==
  ASSUME WritingInv, NEW p \in Requests, Arrives(p) \/ Step(p) \/ Rollback(p) \/ DropLost(p)
  PROVE  CommitUpdate(p) \/ CommitRemove(p) \/ \E r : Set(p, r)
<1>1. ASSUME Arrives(p) PROVE \E r : Set(p, r)
  BY <1>1 DEF Arrives, Arrive
<1>2. ASSUME Rollback(p) \/ DropLost(p) \/ Victim(p) \/ DropRoles(p) \/ CreateCustom(p) PROVE \E r : Set(p, r)
  BY <1>2 DEF Rollback, DropLost, Victim, DropRoles, CreateCustom, End
<1>3. ASSUME ReadRoles(p) \/ StoreRoles(p) \/ ReadGrants(p) \/ StoreGrants(p) \/ Guard(p) \/ Check(p) \/ Count(p)
      PROVE  \E r : Set(p, r)
  <2>1. ReadRoles(p) => \E r : Set(p, r)
    BY DEF ReadRoles
  <2>2. ReadGrants(p) => \E r : Set(p, r)
    BY DEF ReadGrants
  <2>3. StoreRoles(p) \/ StoreGrants(p) \/ Guard(p) \/ Count(p) => \E r : Set(p, r)
    BY DEF StoreRoles, StoreGrants, Guard, Count, End, Goto
  <2>4. ASSUME Check(p), req[p].op \in {"create", "update", "rename", "remove"} PROVE \E r : Set(p, r)
    BY <2>4 DEF Check, End, Goto
  <2>5. Check(p) => req[p].op \in {"create", "update", "rename", "remove"}
    BY Requested DEF Check, At, Good, IsRequest, Writes
  <2> QED BY <1>3, <2>1, <2>2, <2>3, <2>4, <2>5
<1>4. ASSUME UpdateCustom(p) \/ DeleteGrants(p) \/ DeleteGrantsEnds(p) \/ (\E k \in Keys : AddGrant(p, k)) \/ GrantsAdded(p)
      PROVE  \E r : Set(p, r)
  <2>1. UpdateCustom(p) => \E r : Set(p, r)
    BY DEF UpdateCustom, End, Goto
  <2>2. DeleteGrants(p) \/ DeleteGrantsEnds(p) => \E r : Set(p, r)
    BY DEF DeleteGrants, DeleteGrantsEnds
  <2>3. ASSUME NEW k, AddGrant(p, k) PROVE \E r : Set(p, r)
    BY <2>3 DEF AddGrant, End
  <2>4. GrantsAdded(p) => \E r : Set(p, r)
    BY DEF GrantsAdded, Goto
  <2> QED BY <1>4, <2>1, <2>2, <2>3, <2>4
<1>5. ASSUME Unassign(p) \/ DeleteCustom(p) \/ Cascade(p) \/ DropGrants(p) PROVE \E r : Set(p, r)
  BY <1>5 DEF Unassign, DeleteCustom, Cascade, DropGrants, End, Goto
<1> QED BY <1>1, <1>2, <1>3, <1>4, <1>5 DEF Step

LEMMA OnlyCommitsDrop ==
  ASSUME WritingInv, [Next]_vars, NEW q \in Requests,
         req[q].phase \in {"commit", "commitRemove"}, req'[q].phase = "dropGrants"
  PROVE  (CommitUpdate(q) /\ req[q].op = "update") \/ CommitRemove(q)
<1>1. PICK p \in Requests : Arrives(p) \/ Step(p) \/ Rollback(p) \/ DropLost(p)
  BY DEF Next, ExpireGrants, ExpireRoles, vars
<1>2. p = q
  <2>1. SUFFICES ASSUME p # q PROVE FALSE
    OBVIOUS
  <2>2. req'[q].phase = req[q].phase
    <3>1. CASE \E r : Set(p, r)
      BY <2>1, <3>1 DEF Set, WritingInv
    <3>2. CASE Committed(p, Dropping(p))
      <4>1. req'[q] = Met(p, q)
        BY <2>1, <3>2 DEF Committed
      <4> QED BY <2>1, <4>1, MetFields
    <3> QED BY <1>1, <3>1, <3>2, OneRequest DEF CommitUpdate, CommitRemove, End
  <2> QED BY <2>2
<1>3. ~End(q)
  BY IdleFields DEF End, Set, WritingInv
<1>4. ~(Rollback(q) \/ DropLost(q) \/ Victim(q) \/ Arrives(q))
  BY <1>3 DEF Rollback, DropLost, Victim, Arrives, Arrive, At
<1>5. CommitUpdate(q) \/ CommitRemove(q)
  BY <1>1, <1>2, <1>4
     DEF Step, ReadRoles, StoreRoles, ReadGrants, StoreGrants, Guard, Check, Count, CreateCustom, UpdateCustom,
         DeleteGrants, DeleteGrantsEnds, AddGrant, GrantsAdded, Unassign, DeleteCustom, Cascade, DropGrants, DropRoles, At
<1>6. CommitUpdate(q) => req[q].op = "update"
  <2>1. ASSUME CommitUpdate(q) PROVE req[q].op = "update"
    <3>1. req[q].phase = "commit" /\ req[q].op # "rename"
      BY <1>3, <2>1 DEF CommitUpdate, At
    <3> QED BY <3>1, Requested DEF Good, IsRequest, InTransaction, Writes
  <2> QED BY <2>1
<1> QED BY <1>5, <1>6

(* An edit leaves the role the set it was given, or, when another's commit *)
(* came between and one of the two left the role's row unlocked, no more   *)
(* than the two gave (replaceGrants).                                      *)
THEOREM EditsReplace == Spec => ReplacesTheSet
<1>1. WritingInv /\ [Next]_vars =>
        [\A q \in Requests :
           At(q, "commit") /\ At(q, "dropGrants")' =>
             LET now == grants'[req[q].role]
                 others == {e \in req[q].meets : ~e.renames \/ ~req[q].renames} IN
             \/ now = req[q].want
             \/ /\ others # {}
                /\ now \subseteq req[q].want \cup UNION {e.want : e \in others}]_vars
  <2> SUFFICES ASSUME WritingInv, [Next]_vars, NEW q \in Requests, req[q].phase = "commit", req'[q].phase = "dropGrants"
               PROVE  \/ grants'[req[q].role] = req[q].want
                      \/ /\ Overlapping(req[q]) # {}
                         /\ grants'[req[q].role] \subseteq req[q].want \cup WantedBy(Overlapping(req[q]))
    BY DEF At, Overlapping, WantedBy
  <2>1. CommitUpdate(q) /\ req[q].op = "update"
    BY OnlyCommitsDrop DEF CommitRemove, At
  <2>2. PICK a : a = req[q]
    OBVIOUS
  <2>3. Good(a) /\ a.phase = "commit" /\ a.op = "update"
    BY <2>1, <2>2, Requested
  <2>4. grants'[a.role] = (grants[a.role] \ a.gone) \cup a.added
    <3>1. a.role \in Custom
      BY <2>3 DEF Good, IsRequest, Writes
    <3> QED BY <2>1, <2>2, <3>1 DEF CommitUpdate, WritingInv, Tables
  <2>5. /\ grants[a.role] \subseteq a.gone \cup WantedBy(Overlapping(a))
        /\ Overlapping(a) = {} => a.want \subseteq a.left \cup a.added
        /\ a.left = {} /\ a.added \subseteq a.want
    BY <2>3 DEF Good, Edited, IsRequest
  <2>6. Overlapping(a) = {} => WantedBy(Overlapping(a)) = {}
    BY DEF WantedBy
  <2> QED BY <2>2, <2>4, <2>5, <2>6
<1> QED BY <1>1, WritingHolds, PTL DEF Spec, ReplacesTheSet

(* What a write takes from a role, its caller holds, but for what other    *)
(* writes gave it after the caller was judged (assertRoleWithinCaller).    *)
THEOREM CallersTakeTheirOwn == Spec => ReadOnlyBeyondCaller
<1>1. WritingInv /\ [Next]_vars =>
        [\A q \in Requests :
           req[q].phase \in {"commit", "commitRemove"} /\ At(q, "dropGrants")' =>
             grants[req[q].role] \ grants'[req[q].role]
               \subseteq req[q].can \cup UNION {e.want : e \in req[q].meets}]_vars
  <2> SUFFICES ASSUME WritingInv, [Next]_vars, NEW q \in Requests,
                      req[q].phase \in {"commit", "commitRemove"}, req'[q].phase = "dropGrants"
               PROVE  grants[req[q].role] \subseteq req[q].can \cup WantedBy(req[q].meets)
    BY DEF At, WantedBy
  <2>1. req[q].op = "update" \/ req[q].phase = "commitRemove"
    BY OnlyCommitsDrop DEF CommitRemove, At
  <2>2. Good(req[q])
    BY Requested
  <2>3. req[q].op \in {"update", "remove"} /\ req[q].phase \in InTransaction
    BY <2>1, <2>2 DEF Good, IsRequest, InTransaction
  <2> QED BY <2>2, <2>3 DEF Good, Edited
<1> QED BY <1>1, WritingHolds, PTL DEF Spec, ReadOnlyBeyondCaller
=============================================================================
