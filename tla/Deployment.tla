----------------------------- MODULE Deployment -----------------------------
(***************************************************************************)
(* What a release writes as it is deployed: an instance that boots brings  *)
(* the job schedules in Redis to those its code declares, and a seed run   *)
(* brings the permission mirrors and the default roles to its catalogue.   *)
(* Instances and runs of several releases overlap in a rolling deployment  *)
(* and a rollback, and any of them can fail half-way.                      *)
(*                                                                         *)
(* The seeder of the first admin is in Admins.                             *)
(***************************************************************************)
EXTENDS Integers, Sequences, SequencesExt

CONSTANTS
  Processes,     \* instances that boot and seed runs, at any one time
  Releases,
  Queues, Jobs,
  Declared,      \* Declared[r]: the slots <<queue, job>> its providers declare
  WorkspaceKeys, AdminKeys,
  Catalogue,     \* Catalogue[r][k]: None, or [restricted, text, defaultFor]
  RoleOrder,     \* the default roles, in the order of the catalogue
  RoleText,      \* RoleText[r][d]: what the role's row says of it
  Selections,    \* sets of seeders a run is asked for (--only, --kinds)
  MaxStarts,     \* bound on the processes started
  MaxFaults,     \* bound on those that fail
  None

ASSUME DeploymentAssumption ==
  /\ \A r \in Releases : Declared[r] \subseteq Queues \X Jobs
  /\ RoleOrder \in Seq(ToSet(RoleOrder))
  /\ RoleText = [r \in Releases |-> [d \in ToSet(RoleOrder) |-> RoleText[r][d]]]
  /\ MaxStarts \in Nat /\ MaxFaults \in Nat /\ None \notin Releases

VARIABLES
  schedules,  \* [Slots -> Releases \cup {None}]: whose pattern the schedule has
  rows,       \* the mirrors: [Keys -> None, or [restricted, text]]
  roleRows,   \* [DefaultRoles -> None, or its text]
  grants,     \* pairs <<role, key>>
  run,        \* what each process is at
  starts, faults,
  settled     \* ghost: the release whose boot, and whose whole seed run, was the
              \* last to succeed, if none of another release ran then or started since

tables == <<rows, roleRows, grants>>
vars == <<schedules, tables, run, starts, faults, settled>>

Slots == Queues \X Jobs
Keys == WorkspaceKeys \cup AdminKeys
DefaultRoles == ToSet(RoleOrder)
Text(r, k) == [restricted |-> Catalogue[r][k].restricted, text |-> Catalogue[r][k].text]
DefaultsFor(r, d) == {k \in WorkspaceKeys : Catalogue[r][k] # None /\ d \in Catalogue[r][k].defaultFor}

(* `todo`, `queues`, `ids`: schedules to upsert, queues to clean and what   *)
(* is to be removed from this one.  `left`, `rolesLeft`: seeders and roles  *)
(* to go.  `create`, `update`: a mirror's plan.  `found`, `plus`, `minus`:  *)
(* the role's row, and its grants to add and remove.  `written`, `add`,     *)
(* `remove`: what the transaction did to roles and grants, and has locked.  *)
Idle == [kind |-> "none", release |-> None, pc |-> "idle", foreign |-> FALSE,
         todo |-> {}, queues |-> {}, ids |-> {},
         left |-> {}, whole |-> FALSE, rolesLeft |-> <<>>, create |-> {}, update |-> {},
         found |-> None, plus |-> {}, minus |-> {}, written |-> {}, add |-> {}, remove |-> {}]

Init ==
  /\ schedules = [s \in Slots |-> None]
  /\ rows = [k \in Keys |-> None]
  /\ roleRows = [d \in DefaultRoles |-> None]
  /\ grants = {}
  /\ run = [p \in Processes |-> Idle]
  /\ starts = 0 /\ faults = 0
  /\ settled = [kind \in {"boot", "seed"} |-> None]

At(p, pc) == run[p].pc = pc
Done(p) == run' = [run EXCEPT ![p] = Idle]
Others(p) == Processes \ {p}
-----------------------------------------------------------------------------
(* definePermissionCatalogue throws as the module is loaded, and neither    *)
(* the application nor a seed run starts.                                  *)
Defined(r) ==
  \A k \in Keys : Catalogue[r][k] # None =>
    /\ Catalogue[r][k].restricted => Catalogue[r][k].defaultFor = {}
    /\ Catalogue[r][k].defaultFor \subseteq IF k \in WorkspaceKeys THEN DefaultRoles ELSE {}

Starts(p, process) ==
  LET Foreign(q) == run[q].kind = process.kind /\ run[q].release # process.release IN
  /\ At(p, "idle") /\ starts < MaxStarts /\ Defined(process.release)
  /\ starts' = starts + 1
  /\ run' = [q \in Processes |->
       IF q = p THEN [process EXCEPT !.foreign = \E o \in Others(p) : Foreign(o)]
       ELSE IF Foreign(q) THEN [run[q] EXCEPT !.foreign = TRUE] ELSE run[q]]
  /\ settled' = [settled EXCEPT ![process.kind] = IF @ = process.release THEN @ ELSE None]
  /\ UNCHANGED <<schedules, tables, faults>>

Succeeds(p) ==
  /\ settled' = IF run[p].foreign \/ ~run[p].whole THEN settled
                ELSE [settled EXCEPT ![run[p].kind] = run[p].release]
  /\ Done(p)

(* A failed sync is logged; an error in a seed run ends it, and rolls back  *)
(* the seeder it was in.                                                   *)
Fails(p) ==
  /\ ~At(p, "idle") /\ faults < MaxFaults
  /\ faults' = faults + 1
  /\ Done(p)
  /\ UNCHANGED <<schedules, tables, starts, settled>>
-----------------------------------------------------------------------------
(* JobScheduleRegistry.onApplicationBootstrap *)

Boot(p, r) ==
  Starts(p, [Idle EXCEPT !.kind = "boot", !.release = r, !.pc = "sync", !.whole = TRUE,
                         !.todo = Declared[r], !.queues = Queues])

Upsert(p) ==
  \E s \in run[p].todo :
    /\ At(p, "sync")
    /\ schedules' = [schedules EXCEPT ![s] = run[p].release]
    /\ run' = [run EXCEPT ![p].todo = @ \ {s}]
    /\ UNCHANGED <<tables, starts, faults, settled>>

\* Mutant: what counts is the job's name, on whichever queue it is declared.
UndeclaredAnywhere(p, q) ==
  {s \in {q} \X Jobs : schedules[s] # None /\ ~\E d \in Declared[run[p].release] : d[2] = s[2]}

Undeclared(p, q) == {s \in {q} \X Jobs : schedules[s] # None /\ s \notin Declared[run[p].release]}

ListSchedules(p) ==
  \E q \in run[p].queues :
    /\ At(p, "sync") /\ run[p].todo = {} /\ run[p].ids = {}
    /\ run' = [run EXCEPT ![p].queues = @ \ {q}, ![p].ids = Undeclared(p, q)]
    /\ UNCHANGED <<schedules, tables, starts, faults, settled>>

RemoveSchedule(p) ==
  \E s \in run[p].ids :
    /\ schedules' = [schedules EXCEPT ![s] = None]
    /\ run' = [run EXCEPT ![p].ids = @ \ {s}]
    /\ UNCHANGED <<tables, starts, faults, settled>>

Synced(p) ==
  /\ At(p, "sync")
  /\ run[p].todo = {} /\ run[p].queues = {} /\ run[p].ids = {}
  /\ Succeeds(p)
  /\ UNCHANGED <<schedules, tables, starts, faults>>
-----------------------------------------------------------------------------
(* SeedRunner.run: the selected seeders in their order, each a transaction. *)

Seeders == {"workspace-permissions", "workspace-default-roles", "admin-permissions"}

First(left) ==
  IF "workspace-permissions" \in left THEN "workspace-permissions"
  ELSE IF "workspace-default-roles" \in left THEN "workspace-default-roles"
  ELSE "admin-permissions"

Begins(process) ==
  LET left == process.left IN
  [process EXCEPT !.pc = IF left = {} THEN "seeded"
                         ELSE IF First(left) = "workspace-default-roles" THEN "find" ELSE "plan",
                  !.rolesLeft = RoleOrder]

Seed(p, r, selection) ==
  Starts(p, Begins([Idle EXCEPT !.kind = "seed", !.release = r,
                                !.left = Seeders \cap selection,
                                !.whole = Seeders \subseteq selection]))

(* The seeder has committed: what it held is released. *)
NextSeeder(p) ==
  run' = [run EXCEPT ![p] = Begins([Idle EXCEPT !.kind = "seed", !.release = run[p].release,
                                                !.foreign = run[p].foreign, !.whole = run[p].whole,
                                                !.left = run[p].left \ {First(run[p].left)}])]

Mirror(p) == IF First(run[p].left) = "admin-permissions" THEN AdminKeys ELSE WorkspaceKeys

\* Mutant: a permission that became restricted is the same row.
SameWording(a, b) == a.text = b.text

SameRow(a, b) == a.text = b.text /\ a.restricted = b.restricted

(* planPermissionMirror; what only the table has stays. *)
PlanMirror(p) ==
  LET r == run[p].release
      entries == {k \in Mirror(p) : Catalogue[r][k] # None} IN
  /\ At(p, "plan")
  /\ run' = [run EXCEPT ![p].pc = "write",
                        ![p].create = {k \in entries : rows[k] = None},
                        ![p].update = {k \in entries : rows[k] # None /\ ~SameRow(rows[k], Text(r, k))}]
  /\ UNCHANGED <<schedules, tables, starts, faults, settled>>

RowsHeld(p) == IF At(p, "commit") THEN run[p].create \cup run[p].update ELSE {}

(* createMany does not skip duplicates: a row committed since the plan     *)
(* fails the run.  A row another transaction holds is waited for.          *)
WriteMirror(p) ==
  /\ At(p, "write")
  /\ \A q \in Others(p) : RowsHeld(q) \cap (run[p].create \cup run[p].update) = {}
  /\ IF \E k \in run[p].create : rows[k] # None THEN Done(p)
     ELSE run' = [run EXCEPT ![p].pc = "commit"]
  /\ UNCHANGED <<schedules, tables, starts, faults, settled>>

CommitMirror(p) ==
  /\ At(p, "commit")
  /\ rows' = [k \in Keys |-> IF k \in RowsHeld(p) THEN Text(run[p].release, k) ELSE rows[k]]
  /\ NextSeeder(p)
  /\ UNCHANGED <<schedules, roleRows, grants, starts, faults, settled>>
-----------------------------------------------------------------------------
(* WorkspaceDefaultRoleSeeder.run: every default role in one transaction.  *)

FindRole(p) ==
  /\ At(p, "find") /\ run[p].rolesLeft # <<>>
  /\ run' = [run EXCEPT ![p].pc = "role", ![p].found = roleRows[Head(run[p].rolesLeft)]]
  /\ UNCHANGED <<schedules, tables, starts, faults, settled>>

(* The role is created, updated or left alone; then its grants are read.   *)
WriteRole(p) ==
  LET d == Head(run[p].rolesLeft)
      r == run[p].release
      changes == run[p].found # RoleText[r][d]
      desired == {d} \X DefaultsFor(r, d)
      current == {g \in grants : g[1] = d} IN
  /\ At(p, "role")
  /\ changes => \A q \in Others(p) : d \notin run[q].written
  /\ IF run[p].found = None /\ roleRows[d] # None THEN Done(p)
     ELSE run' = [run EXCEPT ![p].pc = "grants",
                             ![p].written = IF changes THEN @ \cup {d} ELSE @,
                             ![p].plus = desired \ current, ![p].minus = current \ desired]
  /\ UNCHANGED <<schedules, tables, starts, faults, settled>>

(* Duplicates are skipped; a key the mirror does not have breaks the        *)
(* foreign key.                                                            *)
WriteGrants(p) ==
  LET q == run[p] IN
  /\ At(p, "grants")
  /\ \A o \in Others(p) : (run[o].add \cup run[o].remove) \cap (q.plus \cup q.minus) = {}
  /\ IF \E g \in q.plus : rows[g[2]] = None THEN Done(p)
     ELSE run' = [run EXCEPT ![p].pc = "find", ![p].rolesLeft = Tail(@),
                             ![p].add = @ \cup q.plus, ![p].remove = @ \cup q.minus,
                             ![p].plus = {}, ![p].minus = {}, ![p].found = None]
  /\ UNCHANGED <<schedules, tables, starts, faults, settled>>

CommitRoles(p) ==
  /\ At(p, "find") /\ run[p].rolesLeft = <<>>
  /\ roleRows' = [d \in DefaultRoles |->
       IF d \in run[p].written THEN RoleText[run[p].release][d] ELSE roleRows[d]]
  /\ grants' = (grants \cup run[p].add) \ run[p].remove
  /\ NextSeeder(p)
  /\ UNCHANGED <<schedules, rows, starts, faults, settled>>

Seeded(p) ==
  /\ At(p, "seeded")
  /\ Succeeds(p)
  /\ UNCHANGED <<schedules, tables, starts, faults>>
-----------------------------------------------------------------------------
Syncs(p) ==
  \/ \E r \in Releases : Boot(p, r)
  \/ Upsert(p) \/ ListSchedules(p) \/ RemoveSchedule(p) \/ Synced(p)

Seeds(p) ==
  \/ \E r \in Releases, selection \in Selections : Seed(p, r, selection)
  \/ PlanMirror(p) \/ WriteMirror(p) \/ CommitMirror(p)
  \/ FindRole(p) \/ WriteRole(p) \/ WriteGrants(p) \/ CommitRoles(p) \/ Seeded(p)

Next == \E p \in Processes : Syncs(p) \/ Seeds(p) \/ Fails(p)

Spec == Init /\ [][Next]_vars
-----------------------------------------------------------------------------
(* Once an instance has booted that no instance of another release booted  *)
(* beside or after, the schedules are those its release declares, on the   *)
(* queues and with the patterns it declares: no other instance of it that  *)
(* boots, whole or half, disturbs them.                                    *)
SyncSettles ==
  LET r == settled["boot"] IN
  r # None => schedules = [s \in Slots |-> IF s \in Declared[r] THEN r ELSE None]

(* Once a whole seed run has ended that none of another release ran beside *)
(* or after, the mirrors say what its catalogue says and each default role *)
(* grants what its catalogue gives it, which is nothing the mirror marks   *)
(* restricted: whichever other runs of it there are and however they end.  *)
SeedSettles ==
  LET r == settled["seed"] IN
  r # None =>
    /\ \A k \in Keys : Catalogue[r][k] # None => rows[k] = Text(r, k)
    /\ roleRows = RoleText[r]
    /\ grants = UNION {{d} \X DefaultsFor(r, d) : d \in DefaultRoles}
    /\ \A g \in grants : ~rows[g[2]].restricted
=============================================================================
