-------------------------- MODULE DeploymentProofs --------------------------
(***************************************************************************)
(* Theorems about Deployment: for any number of processes and releases,    *)
(* the schedules settle as the last release declares them, and the mirrors *)
(* and default roles as its catalogue says.                                *)
(***************************************************************************)
EXTENDS Deployment, TLAPS

SeedSteps == {"plan", "write", "commit", "find", "role", "grants", "seeded"}

(* What is a process: one that syncs, one that seeds, or none.             *)
IsRun(q) ==
  /\ DOMAIN q = DOMAIN Idle
  /\ q.foreign \in BOOLEAN
  /\ \/ q.kind = "none" /\ q.pc = "idle" /\ q.ids = {}
     \/ q.kind = "seed" /\ q.pc \in SeedSteps /\ q.ids = {}
     \/ q.kind = "boot" /\ q.pc = "sync"

(* One that syncs is to upsert what its release declares and to remove     *)
(* what it does not.                                                       *)
IsSync(q) ==
  q.kind = "boot" =>
    /\ q.release \in Releases
    /\ q.todo \subseteq Declared[q.release]
    /\ q.ids \subseteq Slots \ Declared[q.release]
    /\ q.queues \subseteq Queues

(* What it has done so far is there, if no other release is about.         *)
HasDone(q) ==
  q.kind = "boot" /\ ~q.foreign =>
    /\ \A s \in Declared[q.release] \ q.todo : schedules[s] = q.release
    /\ \A s \in Slots \ Declared[q.release] : s[1] \notin q.queues /\ s \notin q.ids => schedules[s] = None

Shapes ==
  /\ schedules \in [Slots -> Releases \cup {None}]
  /\ DOMAIN settled = {"boot", "seed"}
  /\ DOMAIN run = Processes
  /\ \A p \in Processes : IsRun(run[p]) /\ IsSync(run[p])

Alone ==
  /\ \A p, o \in Processes :
       run[p].kind = "boot" /\ ~run[p].foreign /\ run[o].kind = "boot" => run[o].release = run[p].release
  /\ settled["boot"] # None =>
       \A p \in Processes : run[p].kind = "boot" => run[p].release = settled["boot"]

Syncing == Shapes /\ Alone /\ (\A p \in Processes : HasDone(run[p])) /\ SyncSettles

LEMMA DeclaredSlots == (\A r \in Releases : Declared[r] \subseteq Slots) /\ None \notin Releases
  BY DeploymentAssumption DEF Slots

LEMMA IdleFields ==
  /\ DOMAIN Idle = {"kind", "release", "pc", "foreign", "todo", "queues", "ids", "left", "whole", "rolesLeft",
                    "create", "update", "found", "plus", "minus", "written", "add", "remove"}
  /\ Idle.kind = "none" /\ Idle.pc = "idle" /\ Idle.ids = {} /\ Idle.foreign = FALSE
  BY DEF Idle

LEMMA IdleIsRun == IsRun(Idle) /\ IsSync(Idle)
  BY IdleFields DEF IsRun, IsSync

(* A process that syncs is what it was, if it still is one. *)
Same(q, r) ==
  r.kind = "boot" =>
    /\ q.kind = "boot" /\ r.release = q.release /\ r.foreign = q.foreign
    /\ r.todo = q.todo /\ r.queues = q.queues /\ r.ids = q.ids

LEMMA QuietStep ==
  ASSUME Syncing, UNCHANGED schedules, DOMAIN settled' = {"boot", "seed"}, settled'["boot"] = settled["boot"],
         DOMAIN run' = Processes, \A q \in Processes : IsRun(run'[q]) /\ Same(run[q], run'[q])
  PROVE  Syncing'
<1>1. Shapes'
  BY DEF Syncing, Shapes, Same, IsSync
<1>2. Alone'
  BY DEF Syncing, Alone, Same
<1>3. (\A q \in Processes : HasDone(run[q]))'
  BY DEF Syncing, HasDone, Same
<1>4. SyncSettles'
  BY DEF Syncing, SyncSettles
<1> QED BY <1>1, <1>2, <1>3, <1>4 DEF Syncing

LEMMA DoneStep ==
  ASSUME Syncing, NEW p \in Processes, Done(p)
  PROVE  DOMAIN run' = Processes /\ \A q \in Processes : IsRun(run'[q]) /\ Same(run[q], run'[q])
<1>1. DOMAIN run = Processes /\ \A q \in Processes : IsRun(run[q])
  BY DEF Syncing, Shapes
<1>2. DOMAIN run' = Processes /\ \A q \in Processes : run'[q] = IF q = p THEN Idle ELSE run[q]
  BY <1>1 DEF Done
<1> QED BY <1>1, <1>2, IdleIsRun, IdleFields DEF Same
-----------------------------------------------------------------------------
(* A process starts.  It is alone if no other release was about, and those *)
(* of another release are no longer.                                       *)

Like(q, r) ==
  /\ DOMAIN r = DOMAIN Idle
  /\ r.kind = q.kind /\ r.release = q.release /\ r.pc = q.pc
  /\ r.todo = q.todo /\ r.queues = q.queues /\ r.ids = q.ids
  /\ r.left = q.left /\ r.whole = q.whole /\ r.rolesLeft = q.rolesLeft
  /\ r.create = q.create /\ r.update = q.update /\ r.found = q.found
  /\ r.plus = q.plus /\ r.minus = q.minus
  /\ r.written = q.written /\ r.add = q.add /\ r.remove = q.remove

LEMMA Marked ==
  ASSUME NEW q, DOMAIN q = DOMAIN Idle, NEW x
  PROVE  LET r == [q EXCEPT !.foreign = x] IN Like(q, r) /\ r.foreign = x
  BY IdleFields DEF Like

LEMMA Started ==
  ASSUME Syncing, NEW p \in Processes, NEW process, Starts(p, process), DOMAIN process = DOMAIN Idle
  PROVE  /\ DOMAIN run' = Processes
         /\ Like(process, run'[p])
         /\ run'[p].foreign = \E o \in Processes \ {p} : run[o].kind = process.kind /\ run[o].release # process.release
         /\ \A q \in Processes \ {p} :
              /\ Like(run[q], run'[q])
              /\ IF run[q].kind = process.kind /\ run[q].release # process.release
                 THEN run'[q].foreign = TRUE ELSE run'[q] = run[q]
<1> DEFINE Foreign(q) == run[q].kind = process.kind /\ run[q].release # process.release
           x == \E o \in Processes \ {p} : Foreign(o)
<1>1. \A q \in Processes : DOMAIN run[q] = DOMAIN Idle /\ Like(run[q], run[q])
  BY DEF Syncing, Shapes, IsRun, Like
<1>2. run' = [q \in Processes |-> IF q = p THEN [process EXCEPT !.foreign = x]
                                 ELSE IF Foreign(q) THEN [run[q] EXCEPT !.foreign = TRUE] ELSE run[q]]
  BY DEF Starts, Others
<1>3. run'[p] = [process EXCEPT !.foreign = x]
  BY <1>2
<1>4. \A q \in Processes \ {p} : run'[q] = IF Foreign(q) THEN [run[q] EXCEPT !.foreign = TRUE] ELSE run[q]
  BY <1>2
<1>5. ASSUME NEW q \in Processes \ {p}
      PROVE  Like(run[q], run'[q]) /\ IF Foreign(q) THEN run'[q].foreign = TRUE ELSE run'[q] = run[q]
  <2>1. CASE Foreign(q)
    <3> DEFINE m == [run[q] EXCEPT !.foreign = TRUE]
    <3>1. Like(run[q], m) /\ m.foreign = TRUE
      BY <1>1, Marked
    <3>2. run'[q] = m
      BY <1>4, <2>1
    <3> HIDE DEF m
    <3> QED BY <2>1, <3>1, <3>2
  <2>2. CASE ~Foreign(q)
    BY <1>1, <1>4, <2>2
  <2> QED BY <2>1, <2>2
<1>6. Like(process, run'[p]) /\ run'[p].foreign = x
  BY <1>3, Marked
<1> QED BY <1>2, <1>5, <1>6

LEMMA BootStep ==
  ASSUME Syncing, NEW p \in Processes, NEW r \in Releases, Boot(p, r)
  PROVE  Syncing'
<1> DEFINE process == [Idle EXCEPT !.kind = "boot", !.release = r, !.pc = "sync", !.whole = TRUE,
                                   !.todo = Declared[r], !.queues = Queues]
<1>1. /\ DOMAIN process = DOMAIN Idle /\ process.kind = "boot" /\ process.release = r /\ process.pc = "sync"
      /\ process.todo = Declared[r] /\ process.queues = Queues /\ process.ids = {}
  BY IdleFields
<1>2. Starts(p, process)
  BY DEF Boot
<1> HIDE DEF process
<1>3. /\ DOMAIN run' = Processes
      /\ DOMAIN run'[p] = DOMAIN Idle /\ run'[p].kind = "boot" /\ run'[p].release = r /\ run'[p].pc = "sync"
      /\ run'[p].todo = Declared[r] /\ run'[p].queues = Queues /\ run'[p].ids = {}
      /\ run'[p].foreign \in BOOLEAN
      /\ ~run'[p].foreign => \A o \in Processes : o # p /\ run[o].kind = "boot" => run[o].release = r
  <2>1. Like(process, run'[p]) /\ DOMAIN run' = Processes
    BY <1>1, <1>2, Started
  <2>2. run'[p].foreign = \E o \in Processes \ {p} : run[o].kind = process.kind /\ run[o].release # process.release
    BY <1>1, <1>2, Started
  <2>3. run'[p].foreign \in BOOLEAN
    BY <2>2
  <2>4. ~run'[p].foreign => \A o \in Processes : o # p /\ run[o].kind = "boot" => run[o].release = r
    BY <1>1, <2>2
  <2> QED BY <1>1, <2>1, <2>3, <2>4 DEF Like
<1>4. \A q \in Processes \ {p} :
        /\ DOMAIN run'[q] = DOMAIN Idle
        /\ run'[q].kind = run[q].kind /\ run'[q].release = run[q].release /\ run'[q].pc = run[q].pc
        /\ run'[q].todo = run[q].todo /\ run'[q].queues = run[q].queues /\ run'[q].ids = run[q].ids
        /\ run'[q].foreign \in BOOLEAN
        /\ ~run'[q].foreign => ~run[q].foreign /\ (run[q].kind = "boot" => run[q].release = r)
  <2>1. \A q \in Processes \ {p} :
          /\ Like(run[q], run'[q])
          /\ IF run[q].kind = "boot" /\ run[q].release # r
             THEN run'[q].foreign = TRUE ELSE run'[q].foreign = run[q].foreign
    <3>1. \A q \in Processes \ {p} :
            /\ Like(run[q], run'[q])
            /\ IF run[q].kind = process.kind /\ run[q].release # process.release
               THEN run'[q].foreign = TRUE ELSE run'[q] = run[q]
      BY <1>1, <1>2, Started
    <3> QED BY <1>1, <3>1
  <2>2. \A q \in Processes : run[q].foreign \in BOOLEAN
    BY DEF Syncing, Shapes, IsRun
  <2> QED BY <2>1, <2>2 DEF Like
<1>5. schedules' = schedules /\ settled' = [settled EXCEPT !["boot"] = IF @ = r THEN @ ELSE None]
  BY <1>1, <1>2 DEF Starts
<1>6. DOMAIN settled' = {"boot", "seed"} /\ settled'["boot"] = IF settled["boot"] = r THEN r ELSE None
  BY <1>5 DEF Syncing, Shapes
<1>7. Shapes'
  <2>1. IsRun(run'[p]) /\ \A q \in Processes \ {p} : IsRun(run'[q])
    BY <1>3, <1>4 DEF Syncing, Shapes, IsRun
  <2>2. IsSync(run'[p]) /\ \A q \in Processes \ {p} : IsSync(run'[q])
    BY <1>3, <1>4 DEF Syncing, Shapes, IsSync
  <2> QED BY <1>3, <1>5, <1>6, <2>1, <2>2 DEF Syncing, Shapes
<1>8. Alone'
  BY <1>3, <1>4, <1>6 DEF Syncing, Alone
<1>9. (\A q \in Processes : HasDone(run[q]))'
  <2>1. (HasDone(run[p]))'
    BY <1>3 DEF HasDone, Slots
  <2>2. ASSUME NEW q \in Processes \ {p} PROVE (HasDone(run[q]))'
    BY <1>4, <1>5 DEF Syncing, HasDone
  <2> QED BY <2>1, <2>2
<1>10. SyncSettles'
  BY <1>5, <1>6 DEF Syncing, SyncSettles
<1> QED BY <1>7, <1>8, <1>9, <1>10 DEF Syncing
-----------------------------------------------------------------------------
(* A sync runs.  Only p's slots change, as its release declares them.      *)

LEMMA UpsertStep ==
  ASSUME Syncing, NEW p \in Processes, Upsert(p)
  PROVE  Syncing'
<1>1. PICK s \in run[p].todo :
        /\ At(p, "sync")
        /\ schedules' = [schedules EXCEPT ![s] = run[p].release]
        /\ run' = [run EXCEPT ![p].todo = @ \ {s}]
        /\ UNCHANGED settled
  BY DEF Upsert
<1> DEFINE r == run[p].release
<1>2. run[p].kind = "boot" /\ r \in Releases /\ s \in Declared[r] /\ Declared[r] \subseteq Slots
  BY <1>1, DeclaredSlots DEF Syncing, Shapes, IsRun, IsSync, At, SeedSteps
<1>3. /\ DOMAIN run' = Processes
      /\ DOMAIN run'[p] = DOMAIN Idle /\ run'[p].kind = "boot" /\ run'[p].release = r /\ run'[p].pc = "sync"
      /\ run'[p].foreign = run[p].foreign /\ run'[p].queues = run[p].queues /\ run'[p].ids = run[p].ids
      /\ run'[p].todo = run[p].todo \ {s}
      /\ \A q \in Processes \ {p} : run'[q] = run[q]
  BY <1>1, <1>2, IdleFields DEF Syncing, Shapes, IsRun, At
<1>4. schedules' \in [Slots -> Releases \cup {None}] /\ schedules'[s] = r
      /\ \A t \in Slots : t # s => schedules'[t] = schedules[t]
  BY <1>1, <1>2 DEF Syncing, Shapes
<1>5. Shapes'
  <2>1. IsRun(run'[p]) /\ IsSync(run'[p])
    BY <1>2, <1>3 DEF Syncing, Shapes, IsRun, IsSync
  <2> QED BY <1>1, <1>3, <1>4, <2>1 DEF Syncing, Shapes
<1>6. Alone'
  BY <1>1, <1>2, <1>3 DEF Syncing, Alone
<1>7. (\A q \in Processes : HasDone(run[q]))'
  <2>1. (HasDone(run[p]))'
    BY <1>2, <1>3, <1>4 DEF Syncing, HasDone
  <2>2. ASSUME NEW q \in Processes \ {p} PROVE (HasDone(run[q]))'
    <3>1. run[q].kind = "boot" /\ ~run[q].foreign => run[q].release = r
      BY <1>2 DEF Syncing, Alone
    <3> QED BY <1>2, <1>3, <1>4, <3>1 DEF Syncing, HasDone
  <2> QED BY <2>1, <2>2
<1>8. SyncSettles'
  <2>1. settled["boot"] # None => settled["boot"] = r
    BY <1>2 DEF Syncing, Alone
  <2>2. settled["boot"] # None => schedules' = schedules
    BY <1>2, <1>4, <2>1 DEF Syncing, Shapes, SyncSettles
  <2> QED BY <1>1, <2>2 DEF Syncing, SyncSettles
<1> QED BY <1>5, <1>6, <1>7, <1>8 DEF Syncing

LEMMA RemoveStep ==
  ASSUME Syncing, NEW p \in Processes, RemoveSchedule(p)
  PROVE  Syncing'
<1>1. PICK s \in run[p].ids :
        /\ schedules' = [schedules EXCEPT ![s] = None]
        /\ run' = [run EXCEPT ![p].ids = @ \ {s}]
        /\ UNCHANGED settled
  BY DEF RemoveSchedule
<1> DEFINE r == run[p].release
<1>2. run[p].kind = "boot" /\ run[p].pc = "sync" /\ r \in Releases /\ s \in Slots \ Declared[r]
  BY <1>1 DEF Syncing, Shapes, IsRun, IsSync
<1>3. /\ DOMAIN run' = Processes
      /\ DOMAIN run'[p] = DOMAIN Idle /\ run'[p].kind = "boot" /\ run'[p].release = r /\ run'[p].pc = "sync"
      /\ run'[p].foreign = run[p].foreign /\ run'[p].queues = run[p].queues /\ run'[p].todo = run[p].todo
      /\ run'[p].ids = run[p].ids \ {s}
      /\ \A q \in Processes \ {p} : run'[q] = run[q]
  BY <1>1, <1>2, IdleFields DEF Syncing, Shapes, IsRun
<1>4. schedules' \in [Slots -> Releases \cup {None}] /\ schedules'[s] = None
      /\ \A t \in Slots : t # s => schedules'[t] = schedules[t]
  BY <1>1, <1>2 DEF Syncing, Shapes
<1>5. Shapes'
  <2>1. IsRun(run'[p]) /\ IsSync(run'[p])
    BY <1>2, <1>3 DEF Syncing, Shapes, IsRun, IsSync
  <2> QED BY <1>1, <1>3, <1>4, <2>1 DEF Syncing, Shapes
<1>6. Alone'
  BY <1>1, <1>2, <1>3 DEF Syncing, Alone
<1>7. (\A q \in Processes : HasDone(run[q]))'
  <2>1. (HasDone(run[p]))'
    BY <1>2, <1>3, <1>4, DeclaredSlots DEF Syncing, HasDone
  <2>2. ASSUME NEW q \in Processes \ {p} PROVE (HasDone(run[q]))'
    <3>1. run[q].kind = "boot" /\ ~run[q].foreign => run[q].release = r
      BY <1>2 DEF Syncing, Alone
    <3> QED BY <1>2, <1>3, <1>4, <3>1, DeclaredSlots DEF Syncing, HasDone
  <2> QED BY <2>1, <2>2
<1>8. SyncSettles'
  <2>1. settled["boot"] # None => settled["boot"] = r
    BY <1>2 DEF Syncing, Alone
  <2>2. settled["boot"] # None => schedules' = schedules
    BY <1>2, <1>4, <2>1 DEF Syncing, Shapes, SyncSettles
  <2> QED BY <1>1, <2>2 DEF Syncing, SyncSettles
<1> QED BY <1>5, <1>6, <1>7, <1>8 DEF Syncing

LEMMA ListStep ==
  ASSUME Syncing, NEW p \in Processes, ListSchedules(p)
  PROVE  Syncing'
<1>1. PICK i \in run[p].queues :
        /\ At(p, "sync") /\ run[p].todo = {} /\ run[p].ids = {}
        /\ run' = [run EXCEPT ![p].queues = @ \ {i}, ![p].ids = Undeclared(p, i)]
        /\ UNCHANGED <<schedules, settled>>
  BY DEF ListSchedules
<1> DEFINE r == run[p].release
           u == Undeclared(p, i)
<1>2. run[p].kind = "boot" /\ r \in Releases
  BY <1>1 DEF Syncing, Shapes, IsRun, IsSync, At, SeedSteps
<1>3. /\ DOMAIN run' = Processes
      /\ DOMAIN run'[p] = DOMAIN Idle /\ run'[p].kind = "boot" /\ run'[p].release = r /\ run'[p].pc = "sync"
      /\ run'[p].foreign = run[p].foreign /\ run'[p].todo = {}
      /\ run'[p].queues = run[p].queues \ {i} /\ run'[p].ids = u
      /\ \A q \in Processes \ {p} : run'[q] = run[q]
  BY <1>1, <1>2, IdleFields DEF Syncing, Shapes, IsRun, At
<1>4. u \cap Declared[r] = {} /\ \A s \in Slots \ Declared[r] : s[1] = i /\ s \notin u => schedules[s] = None
  BY DEF Undeclared, Slots
<1>5. CASE i \in Queues
  <2>1. u \subseteq Slots
    BY <1>5 DEF Undeclared, Slots
  <2>2. IsRun(run'[p]) /\ IsSync(run'[p])
    BY <1>2, <1>3, <1>4, <2>1 DEF Syncing, Shapes, IsRun, IsSync
  <2>3. Shapes'
    BY <1>1, <1>3, <2>2 DEF Syncing, Shapes
  <2>4. Alone'
    BY <1>1, <1>2, <1>3 DEF Syncing, Alone
  <2>5. (\A q \in Processes : HasDone(run[q]))'
    <3>1. (HasDone(run[p]))'
      BY <1>1, <1>2, <1>3, <1>4 DEF Syncing, HasDone
    <3>2. ASSUME NEW q \in Processes \ {p} PROVE (HasDone(run[q]))'
      BY <1>1, <1>3 DEF Syncing, HasDone
    <3> QED BY <3>1, <3>2
  <2>6. SyncSettles'
    BY <1>1 DEF Syncing, SyncSettles
  <2> QED BY <2>3, <2>4, <2>5, <2>6 DEF Syncing
<1>6. i \in Queues
  BY <1>1, <1>2 DEF Syncing, Shapes, IsSync
<1> QED BY <1>5, <1>6

LEMMA SyncedStep ==
  ASSUME Syncing, NEW p \in Processes, Synced(p)
  PROVE  Syncing'
<1> DEFINE r == run[p].release
<1>1. /\ At(p, "sync") /\ run[p].todo = {} /\ run[p].queues = {} /\ run[p].ids = {}
      /\ schedules' = schedules /\ Done(p)
      /\ settled' = IF run[p].foreign \/ ~run[p].whole THEN settled ELSE [settled EXCEPT ![run[p].kind] = r]
  BY DEF Synced, Succeeds
<1>2. run[p].kind = "boot" /\ r \in Releases
  BY <1>1 DEF Syncing, Shapes, IsRun, IsSync, At, SeedSteps
<1>3. DOMAIN run' = Processes /\ \A q \in Processes : IsRun(run'[q]) /\ Same(run[q], run'[q])
  BY <1>1, DoneStep
<1>4. CASE run[p].foreign \/ ~run[p].whole
  BY <1>1, <1>3, <1>4, QuietStep DEF Syncing, Shapes
<1>5. CASE ~run[p].foreign /\ run[p].whole
  <2>1. settled' = [settled EXCEPT !["boot"] = r]
    BY <1>1, <1>2, <1>5
  <2>2. DOMAIN settled' = {"boot", "seed"} /\ settled'["boot"] = r
    BY <2>1 DEF Syncing, Shapes
  <2>3. Shapes'
    BY <1>1, <1>3, <2>2 DEF Syncing, Shapes, Same, IsSync
  <2>4. \A q \in Processes : run'[q].kind = "boot" => run'[q].release = r
    BY <1>2, <1>3, <1>5 DEF Syncing, Alone, Same
  <2>5. Alone'
    BY <2>2, <2>4 DEF Alone
  <2>6. (\A q \in Processes : HasDone(run[q]))'
    BY <1>1, <1>3 DEF Syncing, HasDone, Same
  <2>7. SyncSettles'
    <3>1. \A s \in Slots : schedules[s] = IF s \in Declared[r] THEN r ELSE None
      BY <1>1, <1>2, <1>5 DEF Syncing, HasDone
    <3> QED BY <1>1, <2>2, <3>1 DEF Syncing, Shapes, SyncSettles
  <2> QED BY <2>3, <2>5, <2>6, <2>7 DEF Syncing
<1>6. run[p].foreign \in BOOLEAN
  BY DEF Syncing, Shapes, IsRun
<1> QED BY <1>4, <1>5, <1>6
-----------------------------------------------------------------------------
(* A seed run leaves the schedules, and the processes that sync, alone.    *)

LEMMA Beginning ==
  ASSUME NEW q, DOMAIN q = DOMAIN Idle
  PROVE  LET b == Begins(q) IN
         /\ DOMAIN b = DOMAIN Idle /\ b.pc \in SeedSteps
         /\ b.kind = q.kind /\ b.release = q.release /\ b.foreign = q.foreign /\ b.ids = q.ids
<1> DEFINE pc == IF q.left = {} THEN "seeded"
                 ELSE IF First(q.left) = "workspace-default-roles" THEN "find" ELSE "plan"
<1>1. Begins(q) = [q EXCEPT !.pc = pc, !.rolesLeft = RoleOrder]
  BY DEF Begins
<1>2. pc \in SeedSteps
  BY DEF SeedSteps
<1> HIDE DEF pc
<1> QED BY <1>1, <1>2, IdleFields

LEMMA SeedStep ==
  ASSUME Syncing, NEW p \in Processes, NEW r \in Releases, NEW selection, Seed(p, r, selection)
  PROVE  Syncing'
<1> DEFINE left == Seeders \cap selection
           whole == Seeders \subseteq selection
           q == [Idle EXCEPT !.kind = "seed", !.release = r, !.left = left, !.whole = whole]
           process == Begins(q)
<1>1. Starts(p, process)
  BY DEF Seed
<1> HIDE DEF left, whole
<1>2. DOMAIN q = DOMAIN Idle /\ q.kind = "seed" /\ q.ids = {}
  BY IdleFields
<1> HIDE DEF q
<1>3. DOMAIN process = DOMAIN Idle /\ process.kind = "seed" /\ process.pc \in SeedSteps /\ process.ids = {}
  BY <1>2, Beginning
<1> HIDE DEF process
<1>4. /\ DOMAIN run' = Processes /\ Like(process, run'[p])
      /\ run'[p].foreign = \E o \in Processes \ {p} : run[o].kind = process.kind /\ run[o].release # process.release
      /\ \A o \in Processes \ {p} :
              /\ Like(run[o], run'[o])
              /\ IF run[o].kind = process.kind /\ run[o].release # process.release
                 THEN run'[o].foreign = TRUE ELSE run'[o].foreign = run[o].foreign
  BY <1>1, <1>3, Started
<1>5. IsRun(run'[p]) /\ Same(run[p], run'[p])
  <2>1. run'[p].foreign \in BOOLEAN
    BY <1>4
  <2> QED BY <1>3, <1>4, <2>1 DEF Like, IsRun, Same
<1>6. \A o \in Processes \ {p} : IsRun(run'[o]) /\ Same(run[o], run'[o])
  <2> SUFFICES ASSUME NEW o \in Processes \ {p} PROVE IsRun(run'[o]) /\ Same(run[o], run'[o])
    OBVIOUS
  <2>1. IsRun(run[o])
    BY DEF Syncing, Shapes
  <2>2. Like(run[o], run'[o]) /\ (run'[o].foreign = TRUE \/ run'[o].foreign = run[o].foreign)
        /\ (run[o].kind = "boot" => run'[o].foreign = run[o].foreign)
    BY <1>3, <1>4
  <2> QED BY <2>1, <2>2 DEF Like, IsRun, Same
<1>7. schedules' = schedules /\ DOMAIN settled' = {"boot", "seed"} /\ settled'["boot"] = settled["boot"]
  <2>1. schedules' = schedules /\ \E x : settled' = [settled EXCEPT !["seed"] = x]
    BY <1>1, <1>3 DEF Starts
  <2> QED BY <2>1 DEF Syncing, Shapes
<1> QED BY <1>4, <1>5, <1>6, <1>7, QuietStep

(* One process takes a step of its seed run. *)
LEMMA SeedsOn ==
  ASSUME Syncing, NEW p \in Processes, run[p].pc \in SeedSteps, UNCHANGED <<schedules, settled>>,
         NEW q, run' = [run EXCEPT ![p] = q],
         DOMAIN q = DOMAIN Idle, q.pc \in SeedSteps, q.kind = "seed", q.foreign = run[p].foreign, q.ids = {}
  PROVE  Syncing'
<1>1. DOMAIN run' = Processes /\ run'[p] = q /\ \A o \in Processes \ {p} : run'[o] = run[o]
  BY DEF Syncing, Shapes
<1>2. \A o \in Processes : IsRun(run[o])
  BY DEF Syncing, Shapes
<1>3. IsRun(q) /\ Same(run[p], q)
  BY <1>2 DEF IsRun, Same
<1>4. \A o \in Processes : IsRun(run'[o]) /\ Same(run[o], run'[o])
  BY <1>1, <1>2, <1>3 DEF Same
<1> QED BY <1>1, <1>4, QuietStep DEF Syncing, Shapes

LEMMA Seeding ==
  ASSUME Syncing, NEW p \in Processes, run[p].pc \in SeedSteps
  PROVE  /\ DOMAIN run[p] = DOMAIN Idle /\ run[p].kind = "seed" /\ run[p].ids = {} /\ run[p].foreign \in BOOLEAN
         /\ DOMAIN run = Processes
  BY DEF Syncing, Shapes, IsRun, SeedSteps

LEMMA DoneQuietly ==
  ASSUME Syncing, NEW p \in Processes, Done(p), UNCHANGED <<schedules, settled>>
  PROVE  Syncing'
  BY DoneStep, QuietStep DEF Syncing, Shapes

LEMMA NextSeederStep ==
  ASSUME Syncing, NEW p \in Processes, run[p].pc \in SeedSteps, NextSeeder(p), UNCHANGED <<schedules, settled>>
  PROVE  Syncing'
<1> DEFINE r == run[p].release
           x == run[p].foreign
           w == run[p].whole
           left == run[p].left \ {First(run[p].left)}
           q == [Idle EXCEPT !.kind = "seed", !.release = r, !.foreign = x, !.whole = w, !.left = left]
           b == Begins(q)
<1>1. run' = [run EXCEPT ![p] = b]
  BY DEF NextSeeder
<1>2. x = run[p].foreign
  OBVIOUS
<1> HIDE DEF r, x, w, left
<1>3. DOMAIN q = DOMAIN Idle /\ q.kind = "seed" /\ q.ids = {} /\ q.foreign = x
  BY IdleFields
<1> HIDE DEF q
<1>4. DOMAIN b = DOMAIN Idle /\ b.pc \in SeedSteps /\ b.kind = "seed" /\ b.ids = {} /\ b.foreign = x
  BY <1>3, Beginning
<1> HIDE DEF b
<1> QED BY <1>1, <1>2, <1>4, SeedsOn

LEMMA SeedsStep ==
  ASSUME Syncing, NEW p \in Processes, Seeds(p)
  PROVE  Syncing'
<1>1. ASSUME NEW r \in Releases, NEW selection \in Selections, Seed(p, r, selection) PROVE Syncing'
  BY <1>1, SeedStep
<1>2. CASE PlanMirror(p)
  <2>1. run[p].pc \in SeedSteps /\ UNCHANGED <<schedules, settled>>
    BY <1>2 DEF PlanMirror, At, SeedSteps
  <2>2. PICK x, y : run' = [run EXCEPT ![p].pc = "write", ![p].create = x, ![p].update = y]
    BY <1>2 DEF PlanMirror
  <2> DEFINE q == [run[p] EXCEPT !.pc = "write", !.create = x, !.update = y]
  <2>3. DOMAIN q = DOMAIN Idle /\ q.pc = "write" /\ q.kind = "seed" /\ q.ids = {} /\ q.foreign = run[p].foreign
    BY <2>1, Seeding, IdleFields
  <2>4. run' = [run EXCEPT ![p] = q]
    BY <2>1, <2>2, Seeding, IdleFields
  <2> HIDE DEF q
  <2> QED BY <2>1, <2>3, <2>4, SeedsOn DEF SeedSteps
<1>3. CASE WriteMirror(p)
  <2>1. run[p].pc \in SeedSteps /\ UNCHANGED <<schedules, settled>>
    BY <1>3 DEF WriteMirror, At, SeedSteps
  <2>2. CASE Done(p)
    BY <2>1, <2>2, DoneQuietly
  <2>3. CASE run' = [run EXCEPT ![p].pc = "commit"]
    <3> DEFINE q == [run[p] EXCEPT !.pc = "commit"]
    <3>1. DOMAIN q = DOMAIN Idle /\ q.pc = "commit" /\ q.kind = "seed" /\ q.ids = {} /\ q.foreign = run[p].foreign
      BY <2>1, Seeding, IdleFields
    <3>2. run' = [run EXCEPT ![p] = q]
      BY <2>3
    <3> HIDE DEF q
    <3> QED BY <2>1, <3>1, <3>2, SeedsOn DEF SeedSteps
  <2> QED BY <1>3, <2>2, <2>3 DEF WriteMirror
<1>4. CASE CommitMirror(p) \/ CommitRoles(p)
  BY <1>4, NextSeederStep DEF CommitMirror, CommitRoles, At, SeedSteps
<1>5. CASE FindRole(p)
  <2>1. run[p].pc \in SeedSteps /\ UNCHANGED <<schedules, settled>>
    BY <1>5 DEF FindRole, At, SeedSteps
  <2>2. PICK x : run' = [run EXCEPT ![p].pc = "role", ![p].found = x]
    BY <1>5 DEF FindRole
  <2> DEFINE q == [run[p] EXCEPT !.pc = "role", !.found = x]
  <2>3. DOMAIN q = DOMAIN Idle /\ q.pc = "role" /\ q.kind = "seed" /\ q.ids = {} /\ q.foreign = run[p].foreign
    BY <2>1, Seeding, IdleFields
  <2>4. run' = [run EXCEPT ![p] = q]
    BY <2>1, <2>2, Seeding, IdleFields
  <2> HIDE DEF q
  <2> QED BY <2>1, <2>3, <2>4, SeedsOn DEF SeedSteps
<1>6. CASE WriteRole(p)
  <2>1. run[p].pc \in SeedSteps /\ UNCHANGED <<schedules, settled>>
    BY <1>6 DEF WriteRole, At, SeedSteps
  <2>2. CASE Done(p)
    BY <2>1, <2>2, DoneQuietly
  <2>3. ASSUME NEW x, NEW y, NEW z,
               run' = [run EXCEPT ![p].pc = "grants", ![p].written = x, ![p].plus = y, ![p].minus = z]
        PROVE  Syncing'
    <3> DEFINE q == [run[p] EXCEPT !.pc = "grants", !.written = x, !.plus = y, !.minus = z]
    <3>1. DOMAIN q = DOMAIN Idle /\ q.pc = "grants" /\ q.kind = "seed" /\ q.ids = {} /\ q.foreign = run[p].foreign
      BY <2>1, Seeding, IdleFields
    <3>2. run' = [run EXCEPT ![p] = q]
      BY <2>1, <2>3, Seeding, IdleFields
    <3> HIDE DEF q
    <3> QED BY <2>1, <3>1, <3>2, SeedsOn DEF SeedSteps
  <2>4. ~Done(p) => \E x, y, z :
          run' = [run EXCEPT ![p].pc = "grants", ![p].written = x, ![p].plus = y, ![p].minus = z]
    <3> DEFINE d == Head(run[p].rolesLeft)
               changes == run[p].found # RoleText[run[p].release][d]
               desired == {d} \X DefaultsFor(run[p].release, d)
               current == {g \in grants : g[1] = d}
               x == IF changes THEN run[p].written \cup {d} ELSE run[p].written
               y == desired \ current
               z == current \ desired
    <3>1. ~Done(p) => run' = [run EXCEPT ![p].pc = "grants",
                                         ![p].written = IF changes THEN @ \cup {d} ELSE @,
                                         ![p].plus = y, ![p].minus = z]
      BY <1>6 DEF WriteRole
    <3>2. ~Done(p) => run' = [run EXCEPT ![p].pc = "grants", ![p].written = x, ![p].plus = y, ![p].minus = z]
      <4> HIDE DEF changes, d, y, z
      <4> QED BY <2>1, <3>1, Seeding, IdleFields
    <3> HIDE DEF x, y, z
    <3> QED BY <3>2
  <2> QED BY <2>2, <2>3, <2>4
<1>7. CASE WriteGrants(p)
  <2>1. run[p].pc \in SeedSteps /\ UNCHANGED <<schedules, settled>>
    BY <1>7 DEF WriteGrants, At, SeedSteps
  <2>2. CASE Done(p)
    BY <2>1, <2>2, DoneQuietly
  <2>3. CASE ~Done(p)
    <3> DEFINE a == run[p]
               t == Tail(a.rolesLeft)
               x == a.add \cup a.plus
               y == a.remove \cup a.minus
               q == [a EXCEPT !.pc = "find", !.rolesLeft = t, !.add = x, !.remove = y,
                              !.plus = {}, !.minus = {}, !.found = None]
    <3>1. run' = [run EXCEPT ![p].pc = "find", ![p].rolesLeft = Tail(@),
                             ![p].add = @ \cup a.plus, ![p].remove = @ \cup a.minus,
                             ![p].plus = {}, ![p].minus = {}, ![p].found = None]
      BY <1>7, <2>3 DEF WriteGrants
    <3>2. run' = [run EXCEPT ![p] = q]
      BY <2>1, <3>1, Seeding, IdleFields
    <3> HIDE DEF t, x, y
    <3>3. DOMAIN q = DOMAIN Idle /\ q.pc = "find" /\ q.kind = "seed" /\ q.ids = {} /\ q.foreign = run[p].foreign
      BY <2>1, Seeding, IdleFields
    <3> HIDE DEF q
    <3> QED BY <2>1, <3>2, <3>3, SeedsOn DEF SeedSteps
  <2> QED BY <2>2, <2>3
<1>8. CASE Seeded(p)
  <2>1. run[p].pc \in SeedSteps /\ Done(p) /\ schedules' = schedules
        /\ (settled' = settled \/ settled' = [settled EXCEPT ![run[p].kind] = run[p].release])
    BY <1>8 DEF Seeded, Succeeds, At, SeedSteps
  <2>2. DOMAIN settled' = {"boot", "seed"} /\ settled'["boot"] = settled["boot"]
    BY <2>1, Seeding DEF Syncing, Shapes
  <2> QED BY <2>1, <2>2, DoneStep, QuietStep
<1> QED BY <1>1, <1>2, <1>3, <1>4, <1>5, <1>6, <1>7, <1>8 DEF Seeds
-----------------------------------------------------------------------------
LEMMA SyncingInit == Init => Syncing
<1> SUFFICES ASSUME Init PROVE Syncing
  OBVIOUS
<1>1. Shapes
  BY IdleIsRun DEF Init, Shapes
<1>2. Alone /\ (\A p \in Processes : HasDone(run[p])) /\ SyncSettles
  BY IdleFields DEF Init, Alone, HasDone, SyncSettles
<1> QED BY <1>1, <1>2 DEF Syncing

LEMMA SyncingNext == Syncing /\ [Next]_vars => Syncing'
<1> SUFFICES ASSUME Syncing, [Next]_vars PROVE Syncing'
  OBVIOUS
<1>1. CASE UNCHANGED vars
  BY <1>1 DEF vars, Syncing, Shapes, Alone, HasDone, SyncSettles, IsSync
<1>2. ASSUME NEW p \in Processes, Syncs(p) PROVE Syncing'
  BY <1>2, BootStep, UpsertStep, ListStep, RemoveStep, SyncedStep DEF Syncs
<1>3. ASSUME NEW p \in Processes, Seeds(p) PROVE Syncing'
  BY <1>3, SeedsStep
<1>4. ASSUME NEW p \in Processes, Fails(p) PROVE Syncing'
  BY <1>4, DoneQuietly DEF Fails
<1> QED BY <1>1, <1>2, <1>3, <1>4 DEF Next

(* Whatever boots, seeds and failures there are, of however many releases: *)
(* after an instance has booted with no other release beside or since, the *)
(* schedules are exactly those its release declares.                       *)
THEOREM SchedulesSettle == Spec => []SyncSettles
<1>1. Syncing => SyncSettles
  BY DEF Syncing
<1> QED BY <1>1, SyncingInit, SyncingNext, PTL DEF Spec
-----------------------------------------------------------------------------
(***************************************************************************)
(* Seed runs.                                                              *)
(***************************************************************************)
Desired(r) == UNION {{d} \X DefaultsFor(r, d) : d \in DefaultRoles}
MirrorKeys(s) == IF s = "admin-permissions" THEN AdminKeys ELSE WorkspaceKeys
Entries(r, s) == {k \in MirrorKeys(s) : Catalogue[r][k] # None}

AtMirror(q) == q.pc \in {"plan", "write", "commit"}
AtRoles(q) == q.pc \in {"find", "role", "grants"}

(* A run plans and writes only what its release declares, and takes away   *)
(* only what it does not.                                                  *)
IsSeed(q) ==
  q.kind = "seed" =>
    /\ q.release \in Releases /\ Defined(q.release)
    /\ q.left \subseteq Seeders
    /\ q.pc = "seeded" => q.left = {}
    /\ AtMirror(q) => q.left # {} /\ First(q.left) # "workspace-default-roles"
    /\ AtRoles(q) => q.left # {} /\ First(q.left) = "workspace-default-roles"
    /\ q.rolesLeft \in Seq(DefaultRoles)
    /\ q.pc \in {"role", "grants"} => q.rolesLeft # <<>>
    /\ q.pc \in {"write", "commit"} => q.create \cup q.update \subseteq Entries(q.release, First(q.left))
    /\ q.add \cup q.plus \subseteq Desired(q.release)
    /\ (q.remove \cup q.minus) \cap Desired(q.release) = {}

(* What a mirror says, some release has said. *)
Tables ==
  /\ DOMAIN rows = Keys
  /\ \A k \in Keys : rows[k] = None \/ \E r \in Releases : rows[k] = Text(r, k)
  /\ roleRows = [d \in DefaultRoles |-> roleRows[d]]
  /\ grants \subseteq DefaultRoles \X WorkspaceKeys

Mirrored(r, s) == \A k \in Entries(r, s) : rows[k] = Text(r, k)

RolesAre(r) ==
  /\ \A d \in DefaultRoles : roleRows[d] = RoleText[r][d]
  /\ grants = Desired(r)

(* A role as it will be when q commits. *)
Written(q, d) == d \in q.written \/ roleRows[d] = RoleText[q.release][d]

Ready(q, d, add, remove) ==
  /\ Written(q, d)
  /\ \A g \in Desired(q.release) : g[1] = d => g \in grants \cup add
  /\ \A g \in grants \ Desired(q.release) : g[1] = d => g \in remove

(* What it has done so far is there, or in its transaction, if no other    *)
(* release is about.                                                       *)
Finished(q) ==
  q.whole => \A s \in Seeders \ q.left :
    IF s = "workspace-default-roles" THEN RolesAre(q.release) ELSE Mirrored(q.release, s)

Planned(q) ==
  q.pc \in {"write", "commit"} =>
    \A k \in Entries(q.release, First(q.left)) \ (q.create \cup q.update) : rows[k] = Text(q.release, k)

Prepared(q) ==
  /\ AtRoles(q) => \A d \in DefaultRoles \ ToSet(q.rolesLeft) : Ready(q, d, q.add, q.remove)
  /\ LET d == Head(q.rolesLeft) IN
       /\ q.pc = "role" /\ q.found = RoleText[q.release][d] => roleRows[d] = RoleText[q.release][d]
       /\ q.pc = "grants" => Ready(q, d, q.plus, q.minus)

SeedDone(q) == q.kind = "seed" /\ ~q.foreign => Finished(q) /\ Planned(q) /\ Prepared(q)

AloneSeed ==
  /\ \A p, o \in Processes :
       run[p].kind = "seed" /\ ~run[p].foreign /\ run[o].kind = "seed" => run[o].release = run[p].release
  /\ settled["seed"] # None =>
       \A p \in Processes : run[p].kind = "seed" => run[p].release = settled["seed"]

Complete(r) == RolesAre(r) /\ \A s \in Seeders \ {"workspace-default-roles"} : Mirrored(r, s)

Settled == LET r == settled["seed"] IN r # None => r \in Releases /\ Defined(r) /\ Complete(r)

SeedInv == Tables /\ AloneSeed /\ Settled /\ \A p \in Processes : IsSeed(run[p]) /\ SeedDone(run[p])
-----------------------------------------------------------------------------
(* The roles to go are those of the head and of the tail.                  *)
LEMMA HeadAndTail ==
  ASSUME NEW S, NEW s \in Seq(S), s # <<>>
  PROVE  Head(s) \in S /\ Tail(s) \in Seq(S) /\ ToSet(s) \subseteq {Head(s)} \cup ToSet(Tail(s))
<1>1. Len(s) \in Nat \ {0} /\ Len(Tail(s)) = Len(s) - 1 /\ Head(s) = s[1] /\ s[1] \in S /\ Tail(s) \in Seq(S)
  OBVIOUS
<1>2. ASSUME NEW i \in 1..Len(s), i # 1 PROVE s[i] \in ToSet(Tail(s))
  <2>1. i - 1 \in 1..Len(Tail(s)) /\ Tail(s)[i - 1] = s[i]
    BY <1>1, <1>2
  <2>2. i - 1 \in DOMAIN Tail(s)
    BY <1>1, <2>1
  <2> QED BY <2>1, <2>2 DEF ToSet
<1>3. DOMAIN s = 1..Len(s)
  OBVIOUS
<1> QED BY <1>1, <1>2, <1>3 DEF ToSet

LEMMA SeedInvInit == Init => SeedInv
<1> SUFFICES ASSUME Init PROVE SeedInv
  OBVIOUS
<1>1. \A p \in Processes : run[p].kind = "none"
  BY IdleFields DEF Init
<1>2. Tables
  BY DEF Init, Tables
<1>3. settled["seed"] = None
  BY DEF Init
<1> QED BY <1>1, <1>2, <1>3 DEF SeedInv, AloneSeed, Settled, IsSeed, SeedDone

(* Processes that are not seeding, or whose run stands still.              *)
LEMMA StandStill ==
  ASSUME SeedInv, UNCHANGED <<rows, roleRows, grants>>, settled'["seed"] = settled["seed"],
         \A q \in Processes : run'[q].kind = "seed" => run'[q] = run[q]
  PROVE  SeedInv'
<1>1. Tables' /\ AloneSeed' /\ Settled'
  BY DEF SeedInv, Tables, AloneSeed, Settled, Complete, RolesAre, Mirrored
<1>2. ASSUME NEW q \in Processes PROVE IsSeed(run'[q]) /\ SeedDone(run[q])'
  <2>1. CASE run'[q].kind = "seed"
    <3>1. run'[q] = run[q] /\ IsSeed(run[q]) /\ SeedDone(run[q])
      BY <2>1 DEF SeedInv
    <3> QED BY <3>1 DEF SeedDone, Finished, Planned, Prepared, Ready, Written, RolesAre, Mirrored
  <2>2. CASE run'[q].kind # "seed"
    BY <2>2 DEF IsSeed, SeedDone
  <2> QED BY <2>1, <2>2
<1> QED BY <1>1, <1>2 DEF SeedInv

(* A step of the tables towards what r declares. *)
Towards(r) ==
  /\ \A k \in Keys : rows'[k] \in {rows[k], Text(r, k)}
  /\ \A d \in DefaultRoles : roleRows'[d] \in {roleRows[d], RoleText[r][d]}
  /\ \A g : /\ g \in grants' \ grants => g \in Desired(r)
            /\ g \in grants \ grants' => g \notin Desired(r)

LEMMA EntriesAreKeys == \A r, s : Entries(r, s) \subseteq Keys
  BY DEF Entries, MirrorKeys, Keys

LEMMA Stable ==
  ASSUME NEW r, Towards(r)
  PROVE  /\ \A s : Mirrored(r, s) => Mirrored(r, s)'
         /\ RolesAre(r) => RolesAre(r)'
         /\ \A q : q.kind = "seed" /\ q.release = r /\ IsSeed(q) /\ SeedDone(q) => SeedDone(q)'
<1>1. ASSUME NEW s, Mirrored(r, s) PROVE Mirrored(r, s)'
  BY <1>1, EntriesAreKeys DEF Mirrored, Towards
<1>2. ASSUME RolesAre(r) PROVE RolesAre(r)'
  BY <1>2 DEF RolesAre, Towards
<1>3. ASSUME NEW q, q.kind = "seed", q.release = r, IsSeed(q), SeedDone(q), ~q.foreign PROVE SeedDone(q)'
  <2>1. Finished(q) /\ Planned(q) /\ Prepared(q)
    BY <1>3 DEF SeedDone
  <2>2. Finished(q)'
    BY <1>1, <1>2, <1>3, <2>1 DEF Finished
  <2>3. Planned(q)'
    BY <1>3, <2>1, EntriesAreKeys DEF Planned, Towards
  <2>4. ASSUME NEW d \in DefaultRoles, NEW x, NEW y, Ready(q, d, x, y) PROVE Ready(q, d, x, y)'
    BY <1>3, <2>4 DEF Ready, Written, Towards
  <2>5. Prepared(q)'
    <3>1. q.pc \in {"role", "grants"} => Head(q.rolesLeft) \in DefaultRoles
      BY <1>3, HeadAndTail DEF IsSeed
    <3>2. AtRoles(q) => \A d \in DefaultRoles \ ToSet(q.rolesLeft) : Ready(q, d, q.add, q.remove)'
      BY <2>1, <2>4 DEF Prepared
    <3>3. PICK d : d = Head(q.rolesLeft)
      OBVIOUS
    <3>4. q.pc = "role" /\ q.found = RoleText[r][d] => roleRows'[d] = RoleText[r][d]
      BY <1>3, <2>1, <3>1, <3>3 DEF Prepared, Towards
    <3>5. q.pc = "grants" => Ready(q, d, q.plus, q.minus)'
      BY <2>1, <2>4, <3>1, <3>3 DEF Prepared
    <3> QED BY <1>3, <3>2, <3>3, <3>4, <3>5 DEF Prepared
  <2> QED BY <2>2, <2>3, <2>5 DEF SeedDone
<1>4. ASSUME NEW q, q.foreign PROVE SeedDone(q)'
  BY <1>4 DEF SeedDone
<1> QED BY <1>1, <1>2, <1>3, <1>4

LEMMA DoneStill ==
  ASSUME Syncing, SeedInv, NEW p \in Processes, Done(p),
         UNCHANGED <<rows, roleRows, grants>>, settled'["seed"] = settled["seed"]
  PROVE  SeedInv'
<1>1. \A q \in Processes : run'[q] = IF q = p THEN Idle ELSE run[q]
  BY DEF Done, Syncing, Shapes
<1>2. \A q \in Processes : run'[q].kind = "seed" => run'[q] = run[q]
  BY <1>1, IdleFields
<1> QED BY <1>2, StandStill

LEMMA SyncsStill ==
  ASSUME Syncing, SeedInv, NEW p \in Processes, Syncs(p)
  PROVE  SeedInv'
<1>1. ASSUME NEW r \in Releases, Boot(p, r) PROVE SeedInv'
  <2> DEFINE process == [Idle EXCEPT !.kind = "boot", !.release = r, !.pc = "sync", !.whole = TRUE,
                                     !.todo = Declared[r], !.queues = Queues]
  <2>1. DOMAIN process = DOMAIN Idle /\ process.kind = "boot"
    BY IdleFields
  <2>2. Starts(p, process)
    BY <1>1 DEF Boot
  <2> HIDE DEF process
  <2>3. Like(process, run'[p]) /\ \A q \in Processes \ {p} :
          /\ Like(run[q], run'[q])
          /\ IF run[q].kind = process.kind /\ run[q].release # process.release
             THEN run'[q].foreign = TRUE ELSE run'[q] = run[q]
    BY <2>1, <2>2, Started
  <2>4. \A q \in Processes : run'[q].kind = "seed" => run'[q] = run[q]
    BY <2>1, <2>3 DEF Like
  <2>5. UNCHANGED tables /\ \E x : settled' = [settled EXCEPT !["boot"] = x]
    BY <2>1, <2>2 DEF Starts
  <2>6. UNCHANGED <<rows, roleRows, grants>> /\ settled'["seed"] = settled["seed"]
    BY <2>5 DEF tables, Syncing, Shapes
  <2> QED BY <2>4, <2>6, StandStill
<1>2. ASSUME NEW q, run' = [run EXCEPT ![p] = q], q.kind = "boot", UNCHANGED <<tables, settled>> PROVE SeedInv'
  <2>1. \A o \in Processes : run'[o].kind = "seed" => run'[o] = run[o]
    BY <1>2 DEF Syncing, Shapes
  <2> QED BY <1>2, <2>1, StandStill DEF tables
<1>3. \A o \in Processes : run[o].pc = "sync" \/ run[o].ids # {} => run[o].kind = "boot"
  BY DEF Syncing, Shapes, IsRun, SeedSteps
<1>4. DOMAIN run[p] = DOMAIN Idle /\ DOMAIN run = Processes
  BY DEF Syncing, Shapes, IsRun
<1>5. CASE Upsert(p)
  <2>1. PICK x : run' = [run EXCEPT ![p].todo = x] /\ UNCHANGED <<tables, settled>> /\ run[p].kind = "boot"
    <3>1. PICK s : run' = [run EXCEPT ![p].todo = @ \ {s}]
      BY <1>5 DEF Upsert
    <3> DEFINE x == run[p].todo \ {s}
    <3>2. run' = [run EXCEPT ![p].todo = x]
      BY <3>1
    <3> HIDE DEF x
    <3> QED BY <1>3, <1>5, <3>2 DEF Upsert, At
  <2> DEFINE q == [run[p] EXCEPT !.todo = x]
  <2>2. q.kind = "boot" /\ run' = [run EXCEPT ![p] = q]
    BY <1>4, <2>1, IdleFields
  <2> HIDE DEF q
  <2> QED BY <1>2, <2>1, <2>2
<1>6. CASE ListSchedules(p)
  <2>1. PICK x, y : run' = [run EXCEPT ![p].queues = x, ![p].ids = y] /\ UNCHANGED <<tables, settled>>
                    /\ run[p].kind = "boot"
    <3>1. PICK i : run' = [run EXCEPT ![p].queues = @ \ {i}, ![p].ids = Undeclared(p, i)]
      BY <1>6 DEF ListSchedules
    <3> DEFINE x == run[p].queues \ {i}
               y == Undeclared(p, i)
    <3>2. run' = [run EXCEPT ![p].queues = x, ![p].ids = y]
      BY <1>4, <3>1, IdleFields
    <3> HIDE DEF x, y
    <3> QED BY <1>3, <1>6, <3>2 DEF ListSchedules, At
  <2> DEFINE q == [run[p] EXCEPT !.queues = x, !.ids = y]
  <2>2. q.kind = "boot" /\ run' = [run EXCEPT ![p] = q]
    BY <1>4, <2>1, IdleFields
  <2> HIDE DEF q
  <2> QED BY <1>2, <2>1, <2>2
<1>7. CASE RemoveSchedule(p)
  <2>1. PICK s \in run[p].ids : run' = [run EXCEPT ![p].ids = @ \ {s}] /\ UNCHANGED <<tables, settled>>
    BY <1>7 DEF RemoveSchedule
  <2> DEFINE x == run[p].ids \ {s}
             q == [run[p] EXCEPT !.ids = x]
  <2>2. run' = [run EXCEPT ![p] = q] /\ run[p].kind = "boot"
    BY <1>3, <2>1
  <2> HIDE DEF x
  <2>3. q.kind = "boot"
    BY <1>4, <2>2, IdleFields
  <2> HIDE DEF q
  <2> QED BY <1>2, <2>1, <2>2, <2>3
<1>8. CASE Synced(p)
  <2>1. run[p].kind = "boot" /\ Done(p) /\ UNCHANGED tables
        /\ (settled' = settled \/ settled' = [settled EXCEPT ![run[p].kind] = run[p].release])
    BY <1>3, <1>8 DEF Synced, Succeeds, At
  <2>2. settled'["seed"] = settled["seed"]
    BY <2>1 DEF Syncing, Shapes
  <2> QED BY <2>1, <2>2, DoneStill DEF tables
<1> QED BY <1>1, <1>5, <1>6, <1>7, <1>8 DEF Syncs
-----------------------------------------------------------------------------
(* A seeder begins: nothing of it is done, and nothing is planned.         *)

(* A run at the start of a seeder. *)
Fresh(q, b) ==
  /\ b.kind = q.kind /\ b.release = q.release /\ b.foreign = q.foreign /\ b.whole = q.whole /\ b.left = q.left
  /\ b.pc = IF q.left = {} THEN "seeded"
            ELSE IF First(q.left) = "workspace-default-roles" THEN "find" ELSE "plan"
  /\ b.rolesLeft = RoleOrder /\ b.add = {} /\ b.plus = {} /\ b.remove = {} /\ b.minus = {}

SeedRun(r, x, w, l) ==
  [Idle EXCEPT !.kind = "seed", !.release = r, !.foreign = x, !.whole = w, !.left = l]

LEMMA BeginsFresh ==
  ASSUME NEW r, NEW x, NEW w, NEW l, NEW q, q = SeedRun(r, x, w, l)
  PROVE  /\ DOMAIN q = DOMAIN Idle
         /\ q.kind = "seed" /\ q.release = r /\ q.foreign = x /\ q.whole = w /\ q.left = l
         /\ Fresh(q, Begins(q))
<1> DEFINE pc == IF q.left = {} THEN "seeded"
                 ELSE IF First(q.left) = "workspace-default-roles" THEN "find" ELSE "plan"
<1>1. /\ DOMAIN q = DOMAIN Idle /\ q.kind = "seed" /\ q.release = r /\ q.foreign = x /\ q.whole = w /\ q.left = l
      /\ q.add = {} /\ q.plus = {} /\ q.remove = {} /\ q.minus = {}
  BY DEF Idle, SeedRun
<1>2. Begins(q) = [q EXCEPT !.pc = pc, !.rolesLeft = RoleOrder]
  BY DEF Begins
<1>3. Fresh(q, Begins(q))
  <2>1. PICK c : c = pc
    OBVIOUS
  <2>2. Begins(q) = [q EXCEPT !.pc = c, !.rolesLeft = RoleOrder]
    BY <1>2, <2>1
  <2> QED BY <1>1, <2>1, <2>2, IdleFields DEF Fresh
<1> QED BY <1>1, <1>3

LEMMA FreshIsSeed ==
  ASSUME NEW q, NEW b, Fresh(q, b), q.kind = "seed", q.release \in Releases, Defined(q.release), q.left \subseteq Seeders
  PROVE  IsSeed(b) /\ (Finished(q) => SeedDone(b)) /\ (Finished(q)' => SeedDone(b)')
<1>1. RoleOrder \in Seq(DefaultRoles)
  BY DeploymentAssumption DEF DefaultRoles
<1>2. IsSeed(b)
  BY <1>1 DEF Fresh, IsSeed, AtMirror, AtRoles
<1>3. (Finished(q) => Finished(b)) /\ (Finished(q)' => Finished(b)')
  BY DEF Fresh, Finished
<1>4. Planned(b) /\ Planned(b)' /\ Prepared(b) /\ Prepared(b)'
  BY DEF Fresh, Planned, Prepared, AtRoles, DefaultRoles
<1> QED BY <1>2, <1>3, <1>4 DEF SeedDone

LEMMA SeedStarts ==
  ASSUME Syncing, SeedInv, NEW p \in Processes, NEW r \in Releases, NEW selection, Seed(p, r, selection)
  PROVE  SeedInv'
<1> DEFINE left == Seeders \cap selection
           whole == Seeders \subseteq selection
<1>1. PICK l, w : l = left /\ w = whole
  OBVIOUS
<1>b. PICK x : x = Idle.foreign
  OBVIOUS
<1>a. PICK q : q = SeedRun(r, x, w, l)
  OBVIOUS
<1> DEFINE process == Begins(q)
<1>2. Starts(p, process)
  <2>1. q = [Idle EXCEPT !.kind = "seed", !.release = r, !.left = l, !.whole = w]
    <3>1. q = [Idle EXCEPT !.kind = "seed", !.release = r, !.foreign = FALSE, !.whole = w, !.left = l]
      BY <1>a, <1>b, IdleFields DEF SeedRun
    <3>2. [Idle EXCEPT !.kind = "seed", !.release = r, !.foreign = FALSE, !.whole = w, !.left = l]
            = [Idle EXCEPT !.kind = "seed", !.release = r, !.left = l, !.whole = w]
      BY IdleFields DEF Idle
    <3> QED BY <3>1, <3>2
  <2> QED BY <1>1, <2>1 DEF Seed
<1>3. q.kind = "seed" /\ q.release = r /\ q.left = l /\ q.whole = w /\ q.foreign = x /\ Fresh(q, process)
  BY <1>a, BeginsFresh
<1>4. DOMAIN process = DOMAIN Idle
  BY <1>a, BeginsFresh, Beginning
<1>5. Defined(r)
  BY <1>2, <1>3 DEF Starts, Fresh
<1>6. Finished(q)
  BY <1>1, <1>3 DEF Finished
<1>7. IsSeed(process) /\ SeedDone(process)
  BY <1>1, <1>3, <1>5, <1>6, FreshIsSeed
<1>8. process.kind = "seed" /\ process.release = r
  BY <1>3 DEF Fresh
<1> HIDE DEF process
<1>9. /\ Like(process, run'[p])
      /\ run'[p].foreign = \E o \in Processes \ {p} : run[o].kind = "seed" /\ run[o].release # r
      /\ \A o \in Processes \ {p} :
           /\ Like(run[o], run'[o])
           /\ IF run[o].kind = "seed" /\ run[o].release # r THEN run'[o].foreign = TRUE ELSE run'[o] = run[o]
  <2>1. /\ Like(process, run'[p])
        /\ run'[p].foreign = \E o \in Processes \ {p} : run[o].kind = process.kind /\ run[o].release # process.release
        /\ \A o \in Processes \ {p} :
             /\ Like(run[o], run'[o])
             /\ IF run[o].kind = process.kind /\ run[o].release # process.release
                THEN run'[o].foreign = TRUE ELSE run'[o] = run[o]
    BY <1>2, <1>4, Started
  <2> QED BY <1>8, <2>1
<1>10. UNCHANGED <<rows, roleRows, grants>> /\ settled'["seed"] = IF settled["seed"] = r THEN r ELSE None
  BY <1>2, <1>8 DEF Starts, tables, Syncing, Shapes
<1>11. \A o \in Processes : run[o].foreign \in BOOLEAN
  BY DEF Syncing, Shapes, IsRun
<1>12. AloneSeed'
  <2>1. \A o \in Processes \ {p} : run'[o].kind = run[o].kind /\ run'[o].release = run[o].release
          /\ (~run'[o].foreign => ~run[o].foreign /\ (run[o].kind = "seed" => run[o].release = r))
    BY <1>9, <1>11 DEF Like
  <2>2. run'[p].kind = "seed" /\ run'[p].release = r
    BY <1>8, <1>9 DEF Like
  <2>3. ~run'[p].foreign => \A o \in Processes \ {p} : run[o].kind = "seed" => run[o].release = r
    BY <1>9
  <2>4. ASSUME NEW a \in Processes, NEW o \in Processes,
               run'[a].kind = "seed", ~run'[a].foreign, run'[o].kind = "seed"
        PROVE  run'[o].release = run'[a].release
    BY <2>1, <2>2, <2>3, <2>4 DEF SeedInv, AloneSeed
  <2>5. ASSUME NEW a \in Processes, settled'["seed"] # None, run'[a].kind = "seed"
        PROVE  run'[a].release = settled'["seed"]
    BY <1>10, <2>1, <2>2, <2>5 DEF SeedInv, AloneSeed
  <2> QED BY <2>4, <2>5 DEF AloneSeed
<1>13. Tables' /\ Settled'
  <2>1. Tables'
    BY <1>10 DEF SeedInv, Tables
  <2>2. Settled'
    BY <1>10 DEF SeedInv, Settled, Complete, RolesAre, Mirrored
  <2> QED BY <2>1, <2>2
<1>14. ASSUME NEW a, NEW b, Like(a, b), IsSeed(a), SeedDone(a), ~b.foreign => ~a.foreign
       PROVE  IsSeed(b) /\ SeedDone(b)'
  <2>1. IsSeed(b)
    BY <1>14 DEF Like, IsSeed, AtMirror, AtRoles
  <2>2. SeedDone(b)
    BY <1>14 DEF Like, SeedDone, Finished, Planned, Prepared, Ready, Written, AtRoles
  <2> QED BY <1>10, <2>1, <2>2 DEF SeedDone, Finished, Planned, Prepared, Ready, Written, RolesAre, Mirrored
<1>15. ASSUME NEW o \in Processes PROVE IsSeed(run'[o]) /\ SeedDone(run[o])'
  <2>1. PICK a : Like(a, run'[o]) /\ IsSeed(a) /\ SeedDone(a) /\ (~run'[o].foreign => ~a.foreign)
    <3>1. CASE o = p
      <4>1. ~process.foreign
        BY <1>b, <1>3, IdleFields DEF Fresh
      <4> QED BY <1>7, <1>9, <3>1, <4>1
    <3>2. CASE o # p
      BY <1>9, <1>11, <3>2 DEF SeedInv
    <3> QED BY <3>1, <3>2
  <2>2. PICK b : b = run'[o]
    OBVIOUS
  <2>3. IsSeed(b) /\ SeedDone(b)'
    BY <1>14, <2>1, <2>2
  <2> QED BY <2>2, <2>3 DEF SeedDone, Finished, Planned, Prepared, Ready, Written
<1> QED BY <1>12, <1>13, <1>15 DEF SeedInv
-----------------------------------------------------------------------------
(* A run plans, and what it has planned or written is there or in it.      *)

LEMMA OwnMove ==
  ASSUME Syncing, SeedInv, NEW p \in Processes, run[p].kind = "seed", UNCHANGED <<rows, roleRows, grants, settled>>,
         NEW q, run' = [run EXCEPT ![p] = q],
         q.kind = "seed", q.release = run[p].release, q.foreign = run[p].foreign, IsSeed(q), SeedDone(q)
  PROVE  SeedInv'
<1>1. run'[p] = q /\ \A o \in Processes \ {p} : run'[o] = run[o]
  BY DEF Syncing, Shapes
<1>2. Tables' /\ AloneSeed' /\ Settled'
  <2>1. Tables' /\ Settled'
    BY DEF SeedInv, Tables, Settled, Complete, RolesAre, Mirrored
  <2>2. AloneSeed'
    BY <1>1 DEF SeedInv, AloneSeed
  <2> QED BY <2>1, <2>2
<1>3. ASSUME NEW o \in Processes PROVE IsSeed(run'[o]) /\ SeedDone(run[o])'
  <2>1. IsSeed(run'[o]) /\ SeedDone(run'[o])
    BY <1>1 DEF SeedInv
  <2> QED BY <2>1 DEF SeedDone, Finished, Planned, Prepared, Ready, Written, RolesAre, Mirrored
<1> QED BY <1>2, <1>3 DEF SeedInv

LEMMA SeedRuns ==
  ASSUME Syncing, SeedInv, NEW p \in Processes, run[p].pc \in SeedSteps
  PROVE  /\ DOMAIN run[p] = DOMAIN Idle /\ run[p].kind = "seed" /\ DOMAIN run = Processes
         /\ IsSeed(run[p]) /\ SeedDone(run[p])
  BY Seeding DEF SeedInv

LEMMA DesiredOf ==
  ASSUME NEW r, NEW d \in DefaultRoles, NEW g
  PROVE  g \in {d} \X DefaultsFor(r, d) <=> g \in Desired(r) /\ g[1] = d
  BY DEF Desired

LEMMA PlanMoves ==
  ASSUME Syncing, SeedInv, NEW p \in Processes, PlanMirror(p)
  PROVE  SeedInv'
<1>1. run[p].pc = "plan" /\ run[p].pc \in SeedSteps /\ UNCHANGED <<rows, roleRows, grants, settled>>
  BY DEF PlanMirror, At, SeedSteps, tables
<1>2. PICK a : a = run[p]
  OBVIOUS
<1>3. DOMAIN a = DOMAIN Idle /\ a.kind = "seed" /\ a.pc = "plan" /\ DOMAIN run = Processes /\ IsSeed(a) /\ SeedDone(a)
  BY <1>1, <1>2, SeedRuns
<1>4. PICK e : e = Entries(a.release, First(a.left))
  OBVIOUS
<1>5. PICK x, y : /\ x = {k \in e : rows[k] = None}
                  /\ y = {k \in e : rows[k] # None /\ ~SameRow(rows[k], Text(a.release, k))}
  OBVIOUS
<1>6. PICK q : q = [a EXCEPT !.pc = "write", !.create = x, !.update = y]
  OBVIOUS
<1>7. run' = [run EXCEPT ![p] = q]
  <2>1. e = {k \in Mirror(p) : Catalogue[run[p].release][k] # None}
    BY <1>2, <1>4 DEF Entries, MirrorKeys, Mirror
  <2>2. run' = [run EXCEPT ![p].pc = "write", ![p].create = x, ![p].update = y]
    BY <1>2, <1>5, <2>1 DEF PlanMirror
  <2> QED BY <1>2, <1>3, <1>6, <2>2, IdleFields
<1>8. /\ q.kind = a.kind /\ q.release = a.release /\ q.foreign = a.foreign /\ q.whole = a.whole /\ q.left = a.left
      /\ q.pc = "write" /\ q.rolesLeft = a.rolesLeft /\ q.create = x /\ q.update = y
      /\ q.add = a.add /\ q.plus = a.plus /\ q.remove = a.remove /\ q.minus = a.minus
  BY <1>3, <1>6, IdleFields
<1>9. IsSeed(q)
  <2>1. x \cup y \subseteq Entries(q.release, First(q.left))
    BY <1>4, <1>5, <1>8
  <2> QED BY <1>3, <1>8, <2>1 DEF IsSeed, AtMirror, AtRoles
<1>10. SeedDone(q)
  <2> SUFFICES ASSUME ~q.foreign PROVE Finished(q) /\ Planned(q) /\ Prepared(q)
    BY DEF SeedDone
  <2>1. Finished(q)
    BY <1>3, <1>8 DEF SeedDone, Finished
  <2>2. Planned(q)
    <3> SUFFICES ASSUME NEW k \in e \ (x \cup y) PROVE rows[k] = Text(a.release, k)
      BY <1>4, <1>8 DEF Planned
    <3>1. rows[k] # None /\ SameRow(rows[k], Text(a.release, k))
      BY <1>5
    <3>2. PICK r \in Releases : rows[k] = Text(r, k)
      BY <1>4, <3>1, EntriesAreKeys DEF SeedInv, Tables
    <3> QED BY <3>1, <3>2 DEF SameRow, Text
  <2>3. Prepared(q)
    BY <1>8 DEF Prepared, AtRoles
  <2> QED BY <2>1, <2>2, <2>3
<1> QED BY <1>1, <1>2, <1>3, <1>7, <1>8, <1>9, <1>10, OwnMove

LEMMA WriteMirrorMoves ==
  ASSUME Syncing, SeedInv, NEW p \in Processes, WriteMirror(p)
  PROVE  SeedInv'
<1>1. run[p].pc = "write" /\ run[p].pc \in SeedSteps /\ UNCHANGED <<rows, roleRows, grants, settled>>
  BY DEF WriteMirror, At, SeedSteps, tables
<1>2. CASE Done(p)
  BY <1>1, <1>2, DoneStill
<1>3. CASE run' = [run EXCEPT ![p].pc = "commit"]
  <2>1. PICK a : a = run[p]
    OBVIOUS
  <2>2. DOMAIN a = DOMAIN Idle /\ a.kind = "seed" /\ a.pc = "write" /\ DOMAIN run = Processes /\ IsSeed(a) /\ SeedDone(a)
    BY <1>1, <2>1, SeedRuns
  <2>3. PICK q : q = [a EXCEPT !.pc = "commit"]
    OBVIOUS
  <2>4. run' = [run EXCEPT ![p] = q]
    BY <1>3, <2>1, <2>3
  <2>5. /\ q.kind = a.kind /\ q.release = a.release /\ q.foreign = a.foreign /\ q.whole = a.whole /\ q.left = a.left
        /\ q.pc = "commit" /\ q.rolesLeft = a.rolesLeft /\ q.create = a.create /\ q.update = a.update
        /\ q.add = a.add /\ q.plus = a.plus /\ q.remove = a.remove /\ q.minus = a.minus
    BY <2>2, <2>3, IdleFields
  <2>6. IsSeed(q)
    BY <2>2, <2>5 DEF IsSeed, AtMirror, AtRoles
  <2>7. SeedDone(q)
    BY <2>2, <2>5 DEF SeedDone, Finished, Planned, Prepared, AtRoles
  <2> QED BY <1>1, <2>1, <2>2, <2>4, <2>5, <2>6, <2>7, OwnMove
<1> QED BY <1>2, <1>3 DEF WriteMirror

LEMMA FindMoves ==
  ASSUME Syncing, SeedInv, NEW p \in Processes, FindRole(p)
  PROVE  SeedInv'
<1>1. /\ run[p].pc = "find" /\ run[p].pc \in SeedSteps /\ UNCHANGED <<rows, roleRows, grants, settled>>
      /\ run[p].rolesLeft # <<>>
  BY DEF FindRole, At, SeedSteps, tables
<1>2. PICK a : a = run[p]
  OBVIOUS
<1>3. DOMAIN a = DOMAIN Idle /\ a.kind = "seed" /\ a.pc = "find" /\ DOMAIN run = Processes /\ IsSeed(a) /\ SeedDone(a)
  BY <1>1, <1>2, SeedRuns
<1>4. PICK x : x = roleRows[Head(a.rolesLeft)]
  OBVIOUS
<1>5. PICK q : q = [a EXCEPT !.pc = "role", !.found = x]
  OBVIOUS
<1>6. run' = [run EXCEPT ![p] = q]
  <2>1. run' = [run EXCEPT ![p].pc = "role", ![p].found = x]
    BY <1>2, <1>4 DEF FindRole
  <2> QED BY <1>2, <1>3, <1>5, <2>1, IdleFields
<1>7. /\ q.kind = a.kind /\ q.release = a.release /\ q.foreign = a.foreign /\ q.whole = a.whole /\ q.left = a.left
      /\ q.pc = "role" /\ q.rolesLeft = a.rolesLeft /\ q.found = x /\ q.written = a.written
      /\ q.add = a.add /\ q.plus = a.plus /\ q.remove = a.remove /\ q.minus = a.minus
  BY <1>3, <1>5, IdleFields
<1>8. IsSeed(q)
  BY <1>1, <1>2, <1>3, <1>7 DEF IsSeed, AtMirror, AtRoles
<1>9. SeedDone(q)
  BY <1>3, <1>4, <1>7 DEF SeedDone, Finished, Planned, Prepared, AtRoles, Ready, Written
<1> QED BY <1>1, <1>2, <1>3, <1>6, <1>7, <1>8, <1>9, OwnMove

LEMMA WriteRoleMoves ==
  ASSUME Syncing, SeedInv, NEW p \in Processes, WriteRole(p)
  PROVE  SeedInv'
<1>1. run[p].pc = "role" /\ run[p].pc \in SeedSteps /\ UNCHANGED <<rows, roleRows, grants, settled>>
  BY DEF WriteRole, At, SeedSteps, tables
<1>2. CASE Done(p)
  BY <1>1, <1>2, DoneStill
<1>3. CASE ~Done(p)
  <2>1. PICK a : a = run[p]
    OBVIOUS
  <2>2. DOMAIN a = DOMAIN Idle /\ a.kind = "seed" /\ a.pc = "role" /\ DOMAIN run = Processes /\ IsSeed(a) /\ SeedDone(a)
    BY <1>1, <2>1, SeedRuns
  <2>3. PICK d, r : d = Head(a.rolesLeft) /\ r = a.release
    OBVIOUS
  <2>4. PICK w, y, z : /\ w = IF a.found # RoleText[r][d] THEN a.written \cup {d} ELSE a.written
                       /\ y = ({d} \X DefaultsFor(r, d)) \ {g \in grants : g[1] = d}
                       /\ z = {g \in grants : g[1] = d} \ ({d} \X DefaultsFor(r, d))
    OBVIOUS
  <2>5. PICK q : q = [a EXCEPT !.pc = "grants", !.written = w, !.plus = y, !.minus = z]
    OBVIOUS
  <2>6. run' = [run EXCEPT ![p] = q]
    <3>1. run' = [run EXCEPT ![p].pc = "grants",
                             ![p].written = IF a.found # RoleText[r][d] THEN @ \cup {d} ELSE @,
                             ![p].plus = y, ![p].minus = z]
      BY <1>3, <2>1, <2>3, <2>4 DEF WriteRole
    <3>2. run' = [run EXCEPT ![p].pc = "grants", ![p].written = w, ![p].plus = y, ![p].minus = z]
      BY <2>1, <2>2, <2>4, <3>1, IdleFields
    <3> QED BY <2>1, <2>2, <2>5, <3>2, IdleFields
  <2>7. /\ q.kind = a.kind /\ q.release = a.release /\ q.foreign = a.foreign /\ q.whole = a.whole /\ q.left = a.left
        /\ q.pc = "grants" /\ q.rolesLeft = a.rolesLeft /\ q.written = w
        /\ q.add = a.add /\ q.plus = y /\ q.remove = a.remove /\ q.minus = z
    BY <2>2, <2>5, IdleFields
  <2>8. d \in DefaultRoles /\ a.rolesLeft # <<>>
    BY <2>2, <2>3, HeadAndTail DEF IsSeed
  <2>9. IsSeed(q)
    <3>1. y \subseteq Desired(r) /\ z \cap Desired(r) = {}
      BY <2>4, <2>8, DesiredOf
    <3> QED BY <2>2, <2>3, <2>7, <2>8, <3>1 DEF IsSeed, AtMirror, AtRoles
  <2>10. SeedDone(q)
    <3> SUFFICES ASSUME ~q.foreign PROVE Finished(q) /\ Planned(q) /\ Prepared(q)
      BY DEF SeedDone
    <3>1. Finished(a) /\ Prepared(a) /\ a.written \subseteq w
      BY <2>2, <2>4, <2>7 DEF SeedDone
    <3>2. Finished(q)
      BY <2>7, <3>1 DEF Finished
    <3>3. Planned(q)
      BY <2>7 DEF Planned
    <3>4. ASSUME NEW e \in DefaultRoles \ ToSet(q.rolesLeft) PROVE Ready(q, e, q.add, q.remove)
      <4>1. Ready(a, e, a.add, a.remove)
        BY <2>2, <2>7, <3>1, <3>4 DEF Prepared, AtRoles
      <4> QED BY <2>7, <3>1, <4>1 DEF Ready, Written
    <3>5. Ready(q, d, q.plus, q.minus)
      <4>1. Written(q, d)
        BY <2>2, <2>3, <2>4, <2>7, <3>1 DEF Prepared, Written
      <4>2. \A g \in Desired(r) : g[1] = d => g \in grants \cup y
        BY <2>4, <2>8, DesiredOf
      <4>3. \A g \in grants \ Desired(r) : g[1] = d => g \in z
        BY <2>4, <2>8, DesiredOf
      <4> QED BY <2>3, <2>7, <4>1, <4>2, <4>3 DEF Ready
    <3>6. Prepared(q)
      BY <2>3, <2>7, <3>4, <3>5 DEF Prepared
    <3> QED BY <3>2, <3>3, <3>6
  <2> QED BY <1>1, <2>1, <2>2, <2>6, <2>7, <2>9, <2>10, OwnMove
<1> QED BY <1>2, <1>3

LEMMA WriteGrantsMoves ==
  ASSUME Syncing, SeedInv, NEW p \in Processes, WriteGrants(p)
  PROVE  SeedInv'
<1>1. run[p].pc = "grants" /\ run[p].pc \in SeedSteps /\ UNCHANGED <<rows, roleRows, grants, settled>>
  BY DEF WriteGrants, At, SeedSteps, tables
<1>2. CASE Done(p)
  BY <1>1, <1>2, DoneStill
<1>3. CASE ~Done(p)
  <2>1. PICK a : a = run[p]
    OBVIOUS
  <2>2. DOMAIN a = DOMAIN Idle /\ a.kind = "seed" /\ a.pc = "grants" /\ DOMAIN run = Processes /\ IsSeed(a) /\ SeedDone(a)
    BY <1>1, <2>1, SeedRuns
  <2>3. PICK d, t, x, y : d = Head(a.rolesLeft) /\ t = Tail(a.rolesLeft) /\ x = a.add \cup a.plus /\ y = a.remove \cup a.minus
    OBVIOUS
  <2>4. PICK q : q = [a EXCEPT !.pc = "find", !.rolesLeft = t, !.add = x, !.remove = y,
                               !.plus = {}, !.minus = {}, !.found = None]
    OBVIOUS
  <2>5. run' = [run EXCEPT ![p] = q]
    <3>1. run' = [run EXCEPT ![p].pc = "find", ![p].rolesLeft = Tail(@),
                             ![p].add = @ \cup a.plus, ![p].remove = @ \cup a.minus,
                             ![p].plus = {}, ![p].minus = {}, ![p].found = None]
      BY <1>3, <2>1 DEF WriteGrants
    <3>2. run' = [run EXCEPT ![p].pc = "find", ![p].rolesLeft = t,
                             ![p].add = x, ![p].remove = y,
                             ![p].plus = {}, ![p].minus = {}, ![p].found = None]
      BY <2>1, <2>2, <2>3, <3>1, IdleFields
    <3> QED BY <2>1, <2>2, <2>4, <3>2, IdleFields
  <2>6. /\ q.kind = a.kind /\ q.release = a.release /\ q.foreign = a.foreign /\ q.whole = a.whole /\ q.left = a.left
        /\ q.pc = "find" /\ q.rolesLeft = t /\ q.written = a.written
        /\ q.add = x /\ q.plus = {} /\ q.remove = y /\ q.minus = {}
    BY <2>2, <2>4, IdleFields
  <2>7. t \in Seq(DefaultRoles) /\ ToSet(a.rolesLeft) \subseteq {d} \cup ToSet(t)
    BY <2>2, <2>3, HeadAndTail DEF IsSeed
  <2>8. IsSeed(q)
    BY <2>2, <2>3, <2>6, <2>7 DEF IsSeed, AtMirror, AtRoles
  <2>9. SeedDone(q)
    <3> SUFFICES ASSUME ~q.foreign PROVE Finished(q) /\ Planned(q) /\ Prepared(q)
      BY DEF SeedDone
    <3>1. Finished(a) /\ Prepared(a)
      BY <2>2, <2>6 DEF SeedDone
    <3>2. Finished(q)
      BY <2>6, <3>1 DEF Finished
    <3>3. Planned(q)
      BY <2>6 DEF Planned
    <3>4. ASSUME NEW e \in DefaultRoles \ ToSet(t) PROVE Ready(q, e, x, y)
      <4>1. Ready(a, e, a.add, a.remove) \/ Ready(a, e, a.plus, a.minus)
        BY <2>2, <2>3, <2>7, <3>1, <3>4 DEF Prepared, AtRoles
      <4> QED BY <2>3, <2>6, <4>1 DEF Ready, Written
    <3>5. Prepared(q)
      BY <2>6, <3>4 DEF Prepared
    <3> QED BY <3>2, <3>3, <3>5
  <2> QED BY <1>1, <2>1, <2>2, <2>5, <2>6, <2>8, <2>9, OwnMove
<1> QED BY <1>2, <1>3
-----------------------------------------------------------------------------
(* A seeder commits.  The tables move towards what its release declares,   *)
(* and what the other runs of that release have done stays done.           *)

LEMMA CommitMove ==
  ASSUME Syncing, SeedInv, NEW p \in Processes, NEW a, a = run[p], a.kind = "seed", settled' = settled,
         Towards(a.release), Tables', NEW q, run' = [run EXCEPT ![p] = q],
         q.kind = "seed", q.release = a.release, q.foreign = a.foreign, IsSeed(q), SeedDone(q)'
  PROVE  SeedInv'
<1>1. run'[p] = q /\ \A o \in Processes \ {p} : run'[o] = run[o]
  BY DEF Syncing, Shapes
<1>2. AloneSeed'
  BY <1>1 DEF SeedInv, AloneSeed
<1>3. Settled'
  <2>1. PICK r : r = settled["seed"]
    OBVIOUS
  <2>2. r # None => r = a.release /\ Complete(r)
    BY <2>1 DEF SeedInv, AloneSeed, Settled
  <2>3. r # None => Complete(r)'
    BY <2>2, Stable DEF Complete
  <2> QED BY <2>1, <2>3 DEF SeedInv, Settled
<1>4. ASSUME NEW o \in Processes PROVE IsSeed(run'[o]) /\ SeedDone(run[o])'
  <2>1. PICK b : b = run'[o]
    OBVIOUS
  <2>2. CASE o = p
    <3>1. b = q
      BY <1>1, <2>1, <2>2
    <3> QED BY <2>1, <3>1 DEF SeedDone, Finished, Planned, Prepared, Ready, Written
  <2>3. CASE o # p
    <3>1. b = run[o] /\ IsSeed(b) /\ SeedDone(b)
      BY <1>1, <2>1, <2>3 DEF SeedInv
    <3>2. b.kind = "seed" /\ ~b.foreign => b.release = a.release
      BY <3>1 DEF SeedInv, AloneSeed
    <3>3. SeedDone(b)'
      <4>1. CASE b.kind = "seed" /\ ~b.foreign
        BY <3>1, <3>2, <4>1, Stable
      <4>2. CASE ~(b.kind = "seed" /\ ~b.foreign)
        BY <4>2 DEF SeedDone
      <4> QED BY <4>1, <4>2
    <3> QED BY <2>1, <3>1, <3>3 DEF SeedDone, Finished, Planned, Prepared, Ready, Written
  <2> QED BY <2>2, <2>3
<1> QED BY <1>2, <1>3, <1>4 DEF SeedInv

(* The run goes on to its next seeder, with the one it was in finished. *)
LEMMA NextMove ==
  ASSUME Syncing, SeedInv, NEW p \in Processes, NEW a, a = run[p], run[p].pc \in SeedSteps, settled' = settled,
         Towards(a.release), Tables', NextSeeder(p),
         ~a.foreign => IF First(a.left) = "workspace-default-roles" THEN RolesAre(a.release)'
                       ELSE Mirrored(a.release, First(a.left))'
  PROVE  SeedInv'
<1>1. a.kind = "seed" /\ IsSeed(a) /\ SeedDone(a)
  BY SeedRuns
<1>2. PICK l : l = a.left \ {First(a.left)}
  OBVIOUS
<1>3. PICK c : c = SeedRun(a.release, a.foreign, a.whole, l)
  OBVIOUS
<1>4. PICK b : b = Begins(c)
  OBVIOUS
<1>5. run' = [run EXCEPT ![p] = b]
  BY <1>2, <1>3, <1>4 DEF NextSeeder, SeedRun
<1>6. /\ c.kind = "seed" /\ c.release = a.release /\ c.foreign = a.foreign /\ c.whole = a.whole /\ c.left = l
      /\ Fresh(c, b)
  BY <1>3, <1>4, BeginsFresh
<1>7. b.kind = "seed" /\ b.release = a.release /\ b.foreign = a.foreign
  BY <1>6 DEF Fresh
<1>8. IsSeed(b) /\ (Finished(c)' => SeedDone(b)')
  BY <1>1, <1>2, <1>6, FreshIsSeed DEF IsSeed
<1>9. ~a.foreign => Finished(c)'
  <2> SUFFICES ASSUME ~a.foreign, a.whole, NEW s \in Seeders \ l
               PROVE  IF s = "workspace-default-roles" THEN RolesAre(a.release)' ELSE Mirrored(a.release, s)'
    BY <1>6 DEF Finished
  <2>1. CASE s = First(a.left)
    BY <2>1
  <2>2. CASE s # First(a.left)
    <3>1. IF s = "workspace-default-roles" THEN RolesAre(a.release) ELSE Mirrored(a.release, s)
      BY <1>1, <1>2, <2>2 DEF SeedDone, Finished
    <3> QED BY <3>1, Stable
  <2> QED BY <2>1, <2>2
<1>10. SeedDone(b)'
  BY <1>7, <1>8, <1>9 DEF SeedDone
<1> QED BY <1>1, <1>5, <1>7, <1>8, <1>10, CommitMove

LEMMA CommitMirrorMoves ==
  ASSUME Syncing, SeedInv, NEW p \in Processes, CommitMirror(p)
  PROVE  SeedInv'
<1>1. /\ run[p].pc = "commit" /\ run[p].pc \in SeedSteps /\ NextSeeder(p)
      /\ UNCHANGED <<roleRows, grants, settled>>
  BY DEF CommitMirror, At, SeedSteps
<1>2. PICK a : a = run[p]
  OBVIOUS
<1>3. a.pc = "commit" /\ a.kind = "seed" /\ IsSeed(a) /\ SeedDone(a)
  BY <1>1, <1>2, SeedRuns
<1>4. PICK e : e = Entries(a.release, First(a.left))
  OBVIOUS
<1>5. a.create \cup a.update \subseteq e /\ e \subseteq Keys /\ First(a.left) # "workspace-default-roles" /\ a.release \in Releases
  BY <1>3, <1>4, EntriesAreKeys DEF IsSeed, AtMirror
<1>6. rows' = [k \in Keys |-> IF k \in a.create \cup a.update THEN Text(a.release, k) ELSE rows[k]]
  BY <1>1, <1>2 DEF CommitMirror, RowsHeld, At
<1>7. Towards(a.release)
  BY <1>1, <1>6 DEF Towards
<1>8. Tables'
  BY <1>1, <1>5, <1>6 DEF SeedInv, Tables
<1>9. ~a.foreign => Mirrored(a.release, First(a.left))'
  <2>1. ~a.foreign => \A k \in e \ (a.create \cup a.update) : rows[k] = Text(a.release, k)
    BY <1>3, <1>4 DEF SeedDone, Planned
  <2> QED BY <1>4, <1>5, <1>6, <2>1 DEF Mirrored
<1> QED BY <1>1, <1>2, <1>5, <1>7, <1>8, <1>9, NextMove

LEMMA CommitRolesMoves ==
  ASSUME Syncing, SeedInv, NEW p \in Processes, CommitRoles(p)
  PROVE  SeedInv'
<1>1. /\ run[p].pc = "find" /\ run[p].pc \in SeedSteps /\ NextSeeder(p) /\ run[p].rolesLeft = <<>>
      /\ UNCHANGED <<rows, settled>>
  BY DEF CommitRoles, At, SeedSteps
<1>2. PICK a, r : a = run[p] /\ r = a.release
  OBVIOUS
<1>3. a.pc = "find" /\ a.kind = "seed" /\ IsSeed(a) /\ SeedDone(a)
  BY <1>1, <1>2, SeedRuns
<1>4. /\ roleRows' = [d \in DefaultRoles |-> IF d \in a.written THEN RoleText[r][d] ELSE roleRows[d]]
      /\ grants' = (grants \cup a.add) \ a.remove
  BY <1>2 DEF CommitRoles
<1>5. a.add \subseteq Desired(r) /\ a.remove \cap Desired(r) = {} /\ First(a.left) = "workspace-default-roles"
  BY <1>2, <1>3 DEF IsSeed, AtRoles
<1>6. Towards(r)
  BY <1>1, <1>4, <1>5 DEF Towards
<1>7. Desired(r) \subseteq DefaultRoles \X WorkspaceKeys
  BY DEF Desired, DefaultsFor
<1>8. Tables'
  <2>1. roleRows' = [d \in DefaultRoles |-> roleRows'[d]]
    BY <1>4
  <2> QED BY <1>1, <1>4, <1>5, <1>7, <2>1 DEF SeedInv, Tables
<1>9. ~a.foreign => RolesAre(r)'
  <2> SUFFICES ASSUME ~a.foreign PROVE RolesAre(r)'
    OBVIOUS
  <2>1. \A d \in DefaultRoles : Ready(a, d, a.add, a.remove)
    <3>1. ToSet(a.rolesLeft) = {}
      BY <1>1, <1>2 DEF ToSet
    <3> QED BY <1>3, <3>1 DEF SeedDone, Prepared, AtRoles
  <2>2. \A d \in DefaultRoles : roleRows'[d] = RoleText[r][d]
    BY <1>2, <1>4, <2>1 DEF Ready, Written
  <2>3. ASSUME NEW g \in Desired(r) PROVE g \in grants'
    <3>1. g[1] \in DefaultRoles
      BY <1>7
    <3> QED BY <1>2, <1>4, <1>5, <2>1, <3>1 DEF Ready
  <2>4. ASSUME NEW g \in grants' PROVE g \in Desired(r)
    <3>1. CASE g \in a.add
      BY <1>5, <3>1
    <3>2. CASE g \in grants
      <4>1. g[1] \in DefaultRoles
        BY <3>2 DEF SeedInv, Tables
      <4> QED BY <1>2, <1>4, <2>1, <2>4, <3>2, <4>1 DEF Ready
    <3> QED BY <1>4, <3>1, <3>2
  <2> QED BY <2>2, <2>3, <2>4 DEF RolesAre
<1> QED BY <1>1, <1>2, <1>5, <1>6, <1>8, <1>9, NextMove

LEMMA SeededMoves ==
  ASSUME Syncing, SeedInv, NEW p \in Processes, Seeded(p)
  PROVE  SeedInv'
<1>1. /\ run[p].pc = "seeded" /\ run[p].pc \in SeedSteps /\ Done(p) /\ UNCHANGED <<rows, roleRows, grants>>
      /\ settled' = IF run[p].foreign \/ ~run[p].whole THEN settled ELSE [settled EXCEPT ![run[p].kind] = run[p].release]
  BY DEF Seeded, Succeeds, At, SeedSteps, tables
<1>2. PICK a, r : a = run[p] /\ r = a.release
  OBVIOUS
<1>3. a.pc = "seeded" /\ a.kind = "seed" /\ IsSeed(a) /\ SeedDone(a)
  BY <1>1, <1>2, SeedRuns
<1>4. CASE run[p].foreign \/ ~run[p].whole
  BY <1>1, <1>4, DoneStill
<1>5. CASE ~run[p].foreign /\ run[p].whole
  <2>1. settled'["seed"] = r
    BY <1>1, <1>2, <1>3, <1>5 DEF Syncing, Shapes
  <2>2. \A q \in Processes : run'[q] = IF q = p THEN Idle ELSE run[q]
    BY <1>1 DEF Done, Syncing, Shapes
  <2>3. \A q \in Processes : run'[q].kind = "seed" => run'[q] = run[q]
    BY <2>2, IdleFields
  <2>4. AloneSeed'
    <3>1. \A q \in Processes : run[q].kind = "seed" => run[q].release = r
      BY <1>2, <1>3, <1>5 DEF SeedInv, AloneSeed
    <3> QED BY <2>1, <2>3, <3>1 DEF SeedInv, AloneSeed
  <2>5. Complete(r)
    <3>1. "workspace-default-roles" \in Seeders \ a.left /\ a.left = {}
      BY <1>3 DEF IsSeed, Seeders
    <3>2. \A s \in Seeders \ a.left : IF s = "workspace-default-roles" THEN RolesAre(r) ELSE Mirrored(r, s)
      BY <1>2, <1>3, <1>5 DEF SeedDone, Finished
    <3> QED BY <3>1, <3>2 DEF Complete
  <2>6. Complete(r)'
    BY <1>1, <2>5 DEF Complete, RolesAre, Mirrored
  <2>7. Settled'
    BY <1>2, <1>3, <2>1, <2>6 DEF IsSeed, Settled
  <2>8. Tables'
    BY <1>1 DEF SeedInv, Tables
  <2>9. ASSUME NEW q \in Processes PROVE IsSeed(run'[q]) /\ SeedDone(run[q])'
    <3>1. IsSeed(run'[q]) /\ SeedDone(run'[q])
      <4>1. CASE run'[q].kind = "seed"
        BY <2>3, <4>1 DEF SeedInv
      <4>2. CASE run'[q].kind # "seed"
        BY <4>2 DEF IsSeed, SeedDone
      <4> QED BY <4>1, <4>2
    <3> QED BY <1>1, <3>1 DEF SeedDone, Finished, Planned, Prepared, Ready, Written, RolesAre, Mirrored
  <2> QED BY <2>4, <2>7, <2>8, <2>9 DEF SeedInv
<1> QED BY <1>4, <1>5
-----------------------------------------------------------------------------
LEMMA SeedInvNext == Syncing /\ SeedInv /\ [Next]_vars => SeedInv'
<1> SUFFICES ASSUME Syncing, SeedInv, [Next]_vars PROVE SeedInv'
  OBVIOUS
<1>1. CASE UNCHANGED vars
  BY <1>1, StandStill DEF vars, tables
<1>2. ASSUME NEW p \in Processes, Syncs(p) PROVE SeedInv'
  BY <1>2, SyncsStill
<1>3. ASSUME NEW p \in Processes, Seeds(p) PROVE SeedInv'
  BY <1>3, SeedStarts, PlanMoves, WriteMirrorMoves, CommitMirrorMoves, FindMoves, WriteRoleMoves, WriteGrantsMoves,
     CommitRolesMoves, SeededMoves DEF Seeds
<1>4. ASSUME NEW p \in Processes, Fails(p) PROVE SeedInv'
  BY <1>4, DoneStill DEF Fails, tables
<1> QED BY <1>1, <1>2, <1>3, <1>4 DEF Next

(* Whatever boots, seed runs and failures there are, of however many       *)
(* releases: after a whole seed run with no other release beside or since, *)
(* the mirrors, the default roles and their grants are what the catalogue  *)
(* of its release says, and no default role grants what is restricted.     *)
THEOREM SeedsSettle == Spec => []SeedSettles
<1>1. SeedInv => SeedSettles
  <2> SUFFICES ASSUME SeedInv, NEW r, r = settled["seed"], r # None
               PROVE  /\ \A k \in Keys : Catalogue[r][k] # None => rows[k] = Text(r, k)
                      /\ roleRows = RoleText[r]
                      /\ grants = Desired(r)
                      /\ \A g \in grants : ~rows[g[2]].restricted
    BY DEF SeedSettles, Desired
  <2>1. r \in Releases /\ Defined(r) /\ Complete(r)
    BY DEF SeedInv, Settled
  <2>2. ASSUME NEW k \in Keys, Catalogue[r][k] # None PROVE rows[k] = Text(r, k)
    <3>1. k \in Entries(r, "admin-permissions") \/ k \in Entries(r, "workspace-permissions")
      BY <2>2 DEF Entries, MirrorKeys, Keys
    <3> QED BY <2>1, <3>1 DEF Complete, Mirrored, Seeders
  <2>3. roleRows = RoleText[r]
    <3>1. RoleText[r] = [d \in DefaultRoles |-> RoleText[r][d]]
      BY <2>1, DeploymentAssumption DEF DefaultRoles
    <3>2. roleRows = [d \in DefaultRoles |-> roleRows[d]]
      BY DEF SeedInv, Tables
    <3> QED BY <2>1, <3>1, <3>2 DEF Complete, RolesAre
  <2>4. grants = Desired(r)
    BY <2>1 DEF Complete, RolesAre
  <2>5. ASSUME NEW g \in grants PROVE ~rows[g[2]].restricted
    <3>1. PICK k : k = g[2]
      OBVIOUS
    <3>2. k \in WorkspaceKeys /\ Catalogue[r][k] # None /\ Catalogue[r][k].defaultFor # {}
      BY <2>4, <2>5, <3>1 DEF Desired, DefaultsFor
    <3>3. ~Catalogue[r][k].restricted
      BY <2>1, <3>2 DEF Defined, Keys
    <3>4. PICK c : c = Catalogue[r][k].restricted
      OBVIOUS
    <3>5. Text(r, k).restricted = c
      BY <3>4 DEF Text
    <3>6. rows[k] = Text(r, k)
      BY <2>2, <3>2 DEF Keys
    <3> QED BY <3>1, <3>3, <3>4, <3>5, <3>6, Zenon
  <2> QED BY <2>2, <2>3, <2>4, <2>5
<1> QED BY <1>1, SyncingInit, SyncingNext, SeedInvInit, SeedInvNext, PTL DEF Spec
=============================================================================
