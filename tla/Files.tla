------------------------------- MODULE Files -------------------------------
(***************************************************************************)
(* The uploads of one workspace: their rows, the objects they leave in      *)
(* storage, the bytes counted against the workspace's quota, and the logo   *)
(* that points at one of them.                                              *)
(*                                                                          *)
(* FileUploadService.complete, ProcessFileJob, WorkspaceService's changes   *)
(* of the logo and FilePurgeService all write the same rows; what keeps     *)
(* them apart is the condition each update repeats, since storage is in no  *)
(* transaction.  Every file is PUBLIC, as every FILE_PURPOSE_POLICY is: the *)
(* client uploads to "incoming/" and the stored copies are elsewhere.       *)
(*                                                                          *)
(* A transaction that only updates rows by a condition is one step, the one *)
(* it commits in: the rows it wrote are locked until then.                  *)
(***************************************************************************)
EXTENDS Integers, FiniteSets

CONSTANTS
  FileIds,      \* uploads, each started once
  Completers,   \* concurrent calls of complete
  Owners,       \* concurrent calls of updateWorkspace and removeLogo
  Workers,      \* job slots of the media queue's workers
  Purgers,      \* runs of the two purge jobs
  Declared,     \* the size a client declares
  ImageSize, ThumbSize,  \* the sizes of what processing stores
  Quota,        \* WORKSPACE_STORAGE_QUOTA_BYTES
  MaxAttempts,  \* QUEUE_SETTINGS.media.attempts
  MaxStalls,    \* BullMQ's maxStalledCount
  MaxPuts,      \* bound: uploads by the client to one presigned URL
  MaxFaults,    \* bound: failed calls, crashes and lost locks
  Nothing       \* no file, no worker

ASSUME FilesAssumption ==
  /\ IsFiniteSet(FileIds)
  /\ Nothing \notin FileIds \cup Workers
  /\ {Declared, ImageSize, ThumbSize, Quota, MaxAttempts} \subseteq Nat \ {0}
  /\ {MaxStalls, MaxPuts, MaxFaults} \subseteq Nat

VARIABLES
  row,       \* row[f]: the row of "files", and of "file_variants"
  usage,     \* workspace_storage_usage.used_bytes
  logo,      \* workspaces.logo_file_id
  objects,   \* what is in storage: pairs of a file and a kind of object
  rightSize, \* files whose object in "incoming/" has the declared size
  puts,      \* puts[f]: how often the client has uploaded
  call,      \* call[c]: a call of complete
  change,    \* change[o]: a change of the logo
  job,       \* job[f]: the file's job in BullMQ
  run,       \* run[w]: the job a worker runs and how far it has come
  purge,     \* purge[p]: what a purge run has read
  drifted,   \* ghost: files purged by an outdated count
  picked,    \* ghost: files a purge has read as expired and unattached
  faults

ownerVars == <<logo, change>>
jobVars == <<job, run>>
storageVars == <<objects, rightSize, puts>>
ghostVars == <<drifted, picked>>
filesVars == <<row, usage, storageVars, ownerVars, call, jobVars, purge, ghostVars, faults>>

Stored == {"image", "thumbnail"}
Kinds == Stored \cup {"incoming"}
Status == {"NONE", "PENDING", "UPLOADED", "READY", "REJECTED", "PURGED"}

\* `uploaded`: uploaded_at is set.  `expires`: expires_at is still ahead, has
\* passed, or was cleared.  `deleted`: deleted_at is unset, within the grace
\* period, or older.
Row == [status : Status, uploaded : BOOLEAN, variant : BOOLEAN,
        attached : BOOLEAN, expires : {"ahead", "past", "cleared"},
        deleted : {"no", "grace", "old"}]

NewRow == [status |-> "NONE", uploaded |-> FALSE, variant |-> FALSE,
           attached |-> FALSE, expires |-> "ahead", deleted |-> "no"]

Resting == [file |-> Nothing, stage |-> "idle"]
NoRun == [file |-> Nothing, stage |-> "idle", left |-> {}, last |-> FALSE]
NoChange == [stage |-> "idle", from |-> Nothing, to |-> Nothing]
NoPurge == [stage |-> "idle", what |-> "unattached", files |-> {},
            bytes |-> [f \in FileIds |-> 0], variants |-> {}]

FilesTypeOK ==
  /\ row \in [FileIds -> Row]
  /\ usage \in Nat
  /\ logo \in FileIds \cup {Nothing}
  /\ objects \subseteq FileIds \X Kinds
  /\ rightSize \subseteq FileIds
  /\ puts \in [FileIds -> 0..MaxPuts]
  /\ call \in [Completers -> [file : FileIds \cup {Nothing},
                              stage : {"idle", "head", "confirm", "reject", "drop"}]]
  /\ change \in [Owners -> [stage : {"idle", "moving"}, from : FileIds \cup {Nothing},
                            to : FileIds \cup {Nothing}]]
  /\ job \in [FileIds -> [state : {"none", "waiting", "active", "finished"},
                          holder : Workers \cup {Nothing},
                          made : 0..MaxAttempts, stalls : 0..MaxStalls]]
  /\ run \in [Workers -> [file : FileIds \cup {Nothing},
                          stage : {"idle", "read", "put", "mark", "clean", "threw",
                                   "refused", "drop"},
                          left : SUBSET Stored, last : BOOLEAN]]
  /\ purge \in [Purgers -> [stage : {"idle", "public", "private", "rows"},
                            what : {"unattached", "released"},
                            files : SUBSET FileIds, bytes : [FileIds -> Nat],
                            variants : SUBSET FileIds]]
  /\ drifted \subseteq FileIds
  /\ picked \subseteq FileIds
  /\ faults \in 0..MaxFaults

FilesInit ==
  /\ row = [f \in FileIds |-> NewRow]
  /\ usage = 0
  /\ logo = Nothing
  /\ objects = {}
  /\ rightSize = {}
  /\ puts = [f \in FileIds |-> 0]
  /\ call = [c \in Completers |-> Resting]
  /\ change = [o \in Owners |-> NoChange]
  /\ job = [f \in FileIds |-> [state |-> "none", holder |-> Nothing, made |-> 0, stalls |-> 0]]
  /\ run = [w \in Workers |-> NoRun]
  /\ purge = [p \in Purgers |-> NoPurge]
  /\ drifted = {}
  /\ picked = {}
  /\ faults = 0

Fault ==
  /\ faults < MaxFaults
  /\ faults' = faults + 1

\* A row the soft-delete extension lets a query see.
Visible(f) == row[f].status \notin {"NONE", "PURGED"} /\ row[f].deleted = "no"

\* countedBytes: what the row says usage holds for it.
CountedBytes(f) ==
  IF ~row[f].uploaded THEN 0
  ELSE (IF row[f].status = "READY" THEN ImageSize ELSE Declared)
       + (IF row[f].variant THEN ThumbSize ELSE 0)

\* What `files` come to: the bytes are counted as the elements of a set.
TotalBytes(bytes, files) == Cardinality(UNION {{f} \X (1..bytes[f]) : f \in files})

-----------------------------------------------------------------------------
(* FileUploadService.                                                       *)

\* start: the quota check is advisory.
Start(f) ==
  /\ row[f].status = "NONE"
  /\ usage + Declared <= Quota
  /\ row' = [row EXCEPT ![f].status = "PENDING"]
  /\ UNCHANGED <<usage, storageVars, ownerVars, call, jobVars, purge, ghostVars, faults>>

\* The client uploads through the presigned URL, which takes any size and
\* outlives neither the row's expiry nor, with the soonest purge, the row.
ClientPuts(f) ==
  /\ row[f].status \in {"PENDING", "UPLOADED", "READY", "REJECTED"}
  /\ row[f].expires # "past"
  /\ puts[f] < MaxPuts
  /\ puts' = [puts EXCEPT ![f] = @ + 1]
  /\ objects' = objects \cup {<<f, "incoming">>}
  /\ \E right \in BOOLEAN :
       rightSize' = IF right THEN rightSize \cup {f} ELSE rightSize \ {f}
  /\ UNCHANGED <<row, usage, ownerVars, call, jobVars, purge, ghostVars, faults>>

CompleteReads(c, f) ==
  /\ call[c].stage = "idle"
  /\ Visible(f)
  /\ row[f].status = "PENDING"
  /\ row[f].expires = "ahead"
  /\ call' = [call EXCEPT ![c] = [file |-> f, stage |-> "head"]]
  /\ UNCHANGED <<row, usage, storageVars, ownerVars, jobVars, purge, ghostVars, faults>>

CompleteHeads(c) ==
  /\ call[c].stage = "head"
  /\ LET f == call[c].file
     IN  call' = [call EXCEPT ![c] =
           IF <<f, "incoming">> \notin objects THEN Resting
           ELSE [@ EXCEPT !.stage = IF f \in rightSize THEN "confirm" ELSE "reject"]]
  /\ UNCHANGED <<row, usage, storageVars, ownerVars, jobVars, purge, ghostVars, faults>>

\* markUploaded's condition.
StillPending(f) == Visible(f) /\ row[f].status = "PENDING"

MarkUploaded(f) ==
  row' = [row EXCEPT ![f].status = "UPLOADED", ![f].uploaded = TRUE]

\* Mutant: the quota is left to the advisory check.
AddUnchecked == usage' = usage + Declared

\* addWithinQuota checks and adds in one statement.
AddWithinQuota ==
  /\ usage + Declared <= Quota
  /\ usage' = usage + Declared

\* The transaction.  Over the quota it is rolled back; when another call has
\* confirmed the file it does nothing.  The job is promised with it.
CompleteConfirms(c) ==
  /\ call[c].stage = "confirm"
  /\ call' = [call EXCEPT ![c] = Resting]
  /\ LET f == call[c].file
     IN  \/ /\ StillPending(f)
            /\ MarkUploaded(f)
            /\ AddWithinQuota
            /\ job' = [job EXCEPT ![f].state = "waiting"]
         \/ /\ StillPending(f) => usage + Declared > Quota
            /\ UNCHANGED <<row, usage, job>>
  /\ UNCHANGED <<storageVars, ownerVars, run, purge, ghostVars, faults>>

\* markRejected
MarkRejected(f) ==
  row' = IF Visible(f) /\ row[f].status \in {"PENDING", "UPLOADED"}
         THEN [row EXCEPT ![f].status = "REJECTED"]
         ELSE row

CompleteRejects(c) ==
  /\ call[c].stage = "reject"
  /\ MarkRejected(call[c].file)
  /\ call' = [call EXCEPT ![c].stage = "drop"]
  /\ UNCHANGED <<usage, storageVars, ownerVars, jobVars, purge, ghostVars, faults>>

CompleteDrops(c) ==
  /\ call[c].stage = "drop"
  /\ objects' = objects \ {<<call[c].file, "incoming">>}
  /\ rightSize' = rightSize \ {call[c].file}
  /\ call' = [call EXCEPT ![c] = Resting]
  /\ UNCHANGED <<row, usage, puts, ownerVars, jobVars, purge, ghostVars, faults>>

\* A call to the database or to storage fails, or the process crashes.
CompleteFails(c) ==
  /\ call[c].stage # "idle"
  /\ call' = [call EXCEPT ![c] = Resting]
  /\ Fault
  /\ UNCHANGED <<row, usage, storageVars, ownerVars, jobVars, purge, ghostVars>>

-----------------------------------------------------------------------------
(* WorkspaceService: the logo.  A change reads the workspace and, for a new  *)
(* logo, the file and the clock; what it read decides what it then writes,   *)
(* each write guarded.                                                       *)

\* updateWorkspace (to # Nothing), with FilesService.attach's early returns; or
\* removeLogo (to = Nothing).
ChangeReads(o, to) ==
  /\ change[o].stage = "idle"
  /\ to # logo
  /\ to # Nothing =>
       /\ Visible(to)
       /\ row[to].expires = "ahead"
       /\ ~row[to].attached
       /\ row[to].status \in {"UPLOADED", "READY"}
  /\ change' = [change EXCEPT ![o] = [stage |-> "moving", from |-> logo, to |-> to]]
  /\ UNCHANGED <<row, usage, storageVars, logo, call, jobVars, purge, ghostVars, faults>>

\* StoredFileRepository.attach's condition: `expires_at > now` compares with
\* the clock read earlier, so only a cleared expires_at can fail it.
Attachable(f) ==
  /\ Visible(f)
  /\ ~row[f].attached
  /\ row[f].expires # "cleared"
  /\ row[f].status \in {"UPLOADED", "READY"}

\* Mutant: the logo is replaced whatever it is by now.
LogoIsAny(from) == TRUE

\* replaceLogo's condition.
LogoIs(from) == logo = from

\* attach, replaceLogo and release of the old logo commit together; a
\* condition that fails throws, and nothing is written.
ChangeCommits(o) ==
  LET from == change[o].from
      to == change[o].to
  IN
  /\ change[o].stage = "moving"
  /\ change' = [change EXCEPT ![o] = NoChange]
  /\ IF LogoIs(from) /\ (to # Nothing => Attachable(to))
     THEN /\ logo' = to
          /\ row' = [f \in FileIds |->
               IF f = to THEN [row[f] EXCEPT !.attached = TRUE, !.expires = "cleared"]
               ELSE IF f = from /\ row[f].deleted = "no"
                    THEN [row[f] EXCEPT !.deleted = "grace"]
                    ELSE row[f]]
     ELSE UNCHANGED <<logo, row>>
  /\ UNCHANGED <<usage, storageVars, call, jobVars, purge, ghostVars, faults>>

ChangeFails(o) ==
  /\ change[o].stage = "moving"
  /\ change' = [change EXCEPT ![o] = NoChange]
  /\ Fault
  /\ UNCHANGED <<row, usage, storageVars, logo, call, jobVars, purge, ghostVars>>

-----------------------------------------------------------------------------
(* ProcessFileJob, under BullMQ: one worker holds the job's lock, and may    *)
(* lose it without knowing.                                                  *)

\* The job moves on only for the worker that holds its lock.
Leave(w, state, more) ==
  LET f == run[w].file
  IN  /\ run' = [run EXCEPT ![w] = NoRun]
      /\ job' = IF job[f].holder = w
                THEN [job EXCEPT ![f].state = state, ![f].holder = Nothing,
                                 ![f].made = @ + more]
                ELSE job

Go(w, stage) == run' = [run EXCEPT ![w].stage = stage]

\* findById and the early return.
Take(w, f) ==
  /\ run[w].stage = "idle"
  /\ job[f].state = "waiting"
  /\ IF Visible(f) /\ row[f].status = "UPLOADED"
     THEN /\ run' = [run EXCEPT ![w] =
                       [file |-> f, stage |-> "read", left |-> {},
                        last |-> job[f].made + 1 >= MaxAttempts]]
          /\ job' = [job EXCEPT ![f].state = "active", ![f].holder = w]
     ELSE /\ job' = [job EXCEPT ![f].state = "finished"]
          /\ UNCHANGED run
  /\ UNCHANGED <<row, usage, storageVars, ownerVars, call, purge, ghostVars, faults>>

\* openStream, detectContentType and processImage: the content is accepted or
\* refused; an object that is not there is an error like any other.
ReadUpload(w) ==
  /\ run[w].stage = "read"
  /\ IF <<run[w].file, "incoming">> \in objects
     THEN \/ run' = [run EXCEPT ![w].stage = "put", ![w].left = Stored]
          \/ Go(w, "refused")
     ELSE Go(w, "threw")
  /\ UNCHANGED <<row, usage, storageVars, ownerVars, call, job, purge, ghostVars, faults>>

\* Promise.all of the two puts, in either order.
PutObject(w, kind) ==
  /\ run[w].stage = "put"
  /\ kind \in run[w].left
  /\ objects' = objects \cup {<<run[w].file, kind>>}
  /\ run' = [run EXCEPT ![w].left = @ \ {kind},
                        ![w].stage = IF run[w].left = {kind} THEN "mark" ELSE @]
  /\ UNCHANGED <<row, usage, rightSize, puts, ownerVars, call, job, purge, ghostVars, faults>>

\* What `adjust` adds to usage; the column may not go below zero.
Adjustment == ImageSize + ThumbSize - Declared

\* markReady, saveVariant and adjust in one transaction.
MarkReady(w) ==
  LET f == run[w].file
  IN
  /\ run[w].stage = "mark"
  /\ IF ~(Visible(f) /\ row[f].status = "UPLOADED")
     THEN Leave(w, "finished", 0) /\ UNCHANGED <<row, usage>>
     ELSE /\ UNCHANGED job
          /\ IF usage + Adjustment < 0
             THEN Go(w, "threw") /\ UNCHANGED <<row, usage>>
             ELSE /\ row' = [row EXCEPT ![f].status = "READY", ![f].variant = TRUE]
                  /\ usage' = usage + Adjustment
                  /\ Go(w, "clean")
  /\ UNCHANGED <<storageVars, ownerVars, call, purge, ghostVars, faults>>

\* After commit; an error is logged, and the bucket's lifecycle rule is left
\* to remove the upload.
RemoveUpload(w, fails) ==
  /\ run[w].stage = "clean"
  /\ IF fails
     THEN Fault /\ UNCHANGED <<objects, rightSize>>
     ELSE /\ objects' = objects \ {<<run[w].file, "incoming">>}
          /\ rightSize' = rightSize \ {run[w].file}
          /\ UNCHANGED faults
  /\ Leave(w, "finished", 0)
  /\ UNCHANGED <<row, usage, puts, ownerVars, call, purge, ghostVars>>

\* A call of `process` fails.  A put that was under way may still land.
ProcessFails(w) ==
  /\ run[w].stage \in {"read", "put", "mark"}
  /\ \E landed \in SUBSET run[w].left :
       objects' = objects \cup ({run[w].file} \X landed)
  /\ run' = [run EXCEPT ![w].stage = "threw", ![w].left = {}]
  /\ Fault
  /\ UNCHANGED <<row, usage, rightSize, puts, ownerVars, call, job, purge, ghostVars>>

\* Mutant: an attempt that fails is the last one, but not handled as the last.
RetryNever(w) ==
  /\ run[w].stage = "threw"
  /\ ~run[w].last
  /\ Leave(w, "finished", 1)
  /\ UNCHANGED <<row, usage, storageVars, ownerVars, call, purge, ghostVars, faults>>

\* An error is tried again, unless this was the last attempt.
Retry(w) ==
  /\ run[w].stage = "threw"
  /\ ~run[w].last
  /\ Leave(w, "waiting", 1)
  /\ UNCHANGED <<row, usage, storageVars, ownerVars, call, purge, ghostVars, faults>>

\* reject: markRejected, whether it matches or not, then the upload goes.
Reject(w) ==
  /\ \/ run[w].stage = "refused"
     \/ run[w].stage = "threw" /\ run[w].last
  /\ MarkRejected(run[w].file)
  /\ Go(w, "drop")
  /\ UNCHANGED <<usage, storageVars, ownerVars, call, job, purge, ghostVars, faults>>

RejectDrops(w) ==
  /\ run[w].stage = "drop"
  /\ objects' = objects \ {<<run[w].file, "incoming">>}
  /\ rightSize' = rightSize \ {run[w].file}
  /\ Leave(w, "finished", 0)
  /\ UNCHANGED <<row, usage, puts, ownerVars, call, purge, ghostVars, faults>>

\* reject itself fails, inside handle's catch.
RejectFails(w) ==
  /\ \/ run[w].stage \in {"refused", "drop"}
     \/ run[w].stage = "threw" /\ run[w].last
  /\ Leave(w, IF run[w].last THEN "finished" ELSE "waiting", 1)
  /\ Fault
  /\ UNCHANGED <<row, usage, storageVars, ownerVars, call, purge, ghostVars>>

\* The worker dies or only loses its lock; BullMQ hands the job to another,
\* or fails it, without its handler, once it has stalled too often.
Stall(f, dies) ==
  LET w == job[f].holder
      spent == job[f].stalls = MaxStalls
  IN
  /\ job[f].state = "active"
  /\ Fault
  /\ job' = [job EXCEPT ![f].state = IF spent THEN "finished" ELSE "waiting",
                        ![f].holder = Nothing,
                        ![f].stalls = IF spent THEN @ ELSE @ + 1]
  /\ run' = IF dies THEN [run EXCEPT ![w] = NoRun] ELSE run
  /\ UNCHANGED <<row, usage, storageVars, ownerVars, call, purge, ghostVars>>

-----------------------------------------------------------------------------
(* FilePurgeService.  One batch; the next is another run.                    *)

ExpiredUnattached(f) ==
  row[f].status \notin {"NONE", "PURGED"} /\ ~row[f].attached /\ row[f].expires = "past"

\* Mutant: the purge does not wait for the grace period to end.
ReleasedAtAll(f) ==
  row[f].status \notin {"NONE", "PURGED"} /\ row[f].deleted # "no"

ReleasedLongAgo(f) ==
  row[f].status \notin {"NONE", "PURGED"} /\ row[f].deleted = "old"

\* findExpiredUnattached goes through the soft-delete filter,
\* findReleasedBefore around it.
PurgeReads(p, what) ==
  LET due == {f \in FileIds : IF what = "unattached"
                              THEN ExpiredUnattached(f) /\ Visible(f)
                              ELSE ReleasedLongAgo(f)}
  IN
  /\ purge[p].stage = "idle"
  /\ due # {}
  /\ purge' = [purge EXCEPT ![p] =
       [stage |-> "public", what |-> what, files |-> due,
        bytes |-> [f \in FileIds |-> IF f \in due THEN CountedBytes(f) ELSE 0],
        variants |-> {f \in due : row[f].variant}]]
  /\ picked' = IF what = "unattached" THEN picked \cup due ELSE picked
  /\ UNCHANGED <<row, usage, storageVars, ownerVars, call, jobVars, drifted, faults>>

\* objectKeysOf, one bucket after the other: the thumbnail only by its
\* variant row.
PurgeObjects(p) ==
  LET files == purge[p].files
      doomed == IF purge[p].stage = "public"
                THEN (files \X {"image"}) \cup (purge[p].variants \X {"thumbnail"})
                ELSE files \X {"incoming"}
  IN
  /\ purge[p].stage \in {"public", "private"}
  /\ objects' = objects \ doomed
  /\ rightSize' = IF purge[p].stage = "private" THEN rightSize \ files ELSE rightSize
  /\ purge' = [purge EXCEPT ![p].stage = IF @ = "public" THEN "private" ELSE "rows"]
  /\ UNCHANGED <<row, usage, puts, ownerVars, call, jobVars, ghostVars, faults>>

\* Mutant: every row that was read counts as deleted.
ReadRows(p) == purge[p].files

\* The rows the batch's DELETE takes: its condition is checked again.
DeletedRows(p) ==
  {f \in purge[p].files : IF purge[p].what = "unattached"
                          THEN ExpiredUnattached(f) ELSE ReleasedLongAgo(f)}

\* subtract: GREATEST(used_bytes - bytes, 0)
Less(bytes) == IF usage > bytes THEN usage - bytes ELSE 0

\* deleteRows and subtract in one transaction: what is given back is what the
\* rows said when they were read.
PurgeRows(p) ==
  LET gone == DeletedRows(p)
      back == TotalBytes(purge[p].bytes, gone)
  IN
  /\ purge[p].stage = "rows"
  /\ row' = [f \in FileIds |-> IF f \in gone THEN [NewRow EXCEPT !.status = "PURGED"]
                               ELSE row[f]]
  /\ logo' = IF logo \in gone THEN Nothing ELSE logo  \* ON DELETE SET NULL
  /\ usage' = Less(back)
  /\ drifted' = drifted \cup {f \in gone : /\ row[f].status # "PURGED"
                                          /\ purge[p].bytes[f] # CountedBytes(f)}
  /\ purge' = [purge EXCEPT ![p] = NoPurge]
  /\ UNCHANGED <<storageVars, change, picked, call, jobVars, faults>>

PurgeFails(p) ==
  /\ purge[p].stage # "idle"
  /\ purge' = [purge EXCEPT ![p] = NoPurge]
  /\ Fault
  /\ UNCHANGED <<row, usage, storageVars, ownerVars, call, jobVars, ghostVars>>

\* Time: expires_at passes, the grace period ends.
Expire(f) ==
  /\ row[f].status \notin {"NONE", "PURGED"}
  /\ row[f].expires = "ahead"
  /\ row' = [row EXCEPT ![f].expires = "past"]
  /\ UNCHANGED <<usage, storageVars, ownerVars, call, jobVars, purge, ghostVars, faults>>

GraceEnds(f) ==
  /\ row[f].deleted = "grace"
  /\ row' = [row EXCEPT ![f].deleted = "old"]
  /\ UNCHANGED <<usage, storageVars, ownerVars, call, jobVars, purge, ghostVars, faults>>

-----------------------------------------------------------------------------
WorkerStep(w) ==
  \/ ReadUpload(w)
  \/ \E kind \in Stored : PutObject(w, kind)
  \/ MarkReady(w)
  \/ RemoveUpload(w, FALSE)
  \/ Retry(w)
  \/ Reject(w)
  \/ RejectDrops(w)

FilesNext ==
  \/ \E f \in FileIds : Start(f) \/ ClientPuts(f) \/ Expire(f) \/ GraceEnds(f)
  \/ \E c \in Completers, f \in FileIds : CompleteReads(c, f)
  \/ \E c \in Completers :
       \/ CompleteHeads(c) \/ CompleteConfirms(c)
       \/ CompleteRejects(c) \/ CompleteDrops(c) \/ CompleteFails(c)
  \/ \E o \in Owners, to \in FileIds \cup {Nothing} : ChangeReads(o, to)
  \/ \E o \in Owners : ChangeCommits(o) \/ ChangeFails(o)
  \/ \E w \in Workers, f \in FileIds : Take(w, f)
  \/ \E w \in Workers :
       WorkerStep(w) \/ RemoveUpload(w, TRUE) \/ ProcessFails(w) \/ RejectFails(w)
  \/ \E f \in FileIds, dies \in BOOLEAN : Stall(f, dies)
  \/ \E p \in Purgers, what \in {"unattached", "released"} : PurgeReads(p, what)
  \/ \E p \in Purgers : PurgeObjects(p) \/ PurgeRows(p) \/ PurgeFails(p)

FilesSafeSpec == FilesInit /\ [][FilesNext]_filesVars

\* A worker that is free takes a waiting job, and a run goes on to its end;
\* the hourly purge comes round, and goes on to its end.
FilesFairness ==
  /\ \A f \in FileIds : WF_filesVars(\E w \in Workers : Take(w, f))
  /\ \A w \in Workers : WF_filesVars(WorkerStep(w))
  /\ \A p \in Purgers :
       WF_filesVars(PurgeReads(p, "unattached") \/ PurgeObjects(p) \/ PurgeRows(p))

FilesSpec == FilesSafeSpec /\ FilesFairness

-----------------------------------------------------------------------------
(* Properties.                                                              *)

CountedTotal == TotalBytes([f \in FileIds |-> CountedBytes(f)], FileIds)

\* used_bytes is what the rows say it is, whatever is completed, processed and
\* purged at once, as long as no purge deleted a row that had changed since it
\* was read.
UsageIsExcused == drifted = {} => usage = CountedTotal

\* "the counter": used_bytes is always what the rows say it is.
UsageIsExact == usage = CountedTotal

\* Two uploads may each pass the advisory check, but only one is confirmed
\* when both do not fit, as long as processing does not grow a file.
QuotaHolds == Adjustment <= 0 => usage <= Quota

\* The workspace's logo is its one attached file that was not released: of two
\* changes at once, neither leaves a file attached to nobody or releases the
\* one that is shown.
OwnerAndFileAgree ==
  {f \in FileIds : row[f].attached /\ row[f].deleted = "no"} = {logo} \ {Nothing}

\* A READY file has both its objects until a purge has picked it, as expired or
\* as released longer ago than the grace period: no call, run or change of the
\* logo takes them from it, and no purge that picked other files.
ServedFilesExist ==
  \A f \in FileIds \ picked :
    row[f].status = "READY" /\ row[f].deleted # "old" => {f} \X Stored \subseteq objects

\* READY and REJECTED are final, whichever call or run comes late.
OutcomeIsFinal ==
  [][\A f \in FileIds : row[f].status \in {"READY", "REJECTED"}
       => row'[f].status \in {row[f].status, "PURGED"}]_filesVars

\* "if the file is UPLOADED, processing will run": it ends READY or REJECTED,
\* or is released or purged, unless it was attached after a purge had picked it.
\* (As long as the last attempt is not the one that cannot record its failure.)
SettlesInTheEnd ==
  \A f \in FileIds :
    Visible(f) /\ row[f].status = "UPLOADED"
      ~> \/ ~(Visible(f) /\ row[f].status = "UPLOADED")
         \/ f \in picked /\ row[f].attached

\* A confirmed upload gets an outcome, and only one: it settles, and what a late
\* call or a run that was presumed dead does afterwards does not change it.
FileSettles == SettlesInTheEnd /\ OutcomeIsFinal

\* "Never an expired file: the purge may already be deleting its objects, and
\* attaching it would leave an owner pointing at nothing": the logo's file, once
\* READY, has its objects.  The clock that is compared was read before.
OwnerPointsAtSomething ==
  logo # Nothing /\ row[logo].status = "READY" => {logo} \X Stored \subseteq objects

Busy(f) ==
  \/ \E p \in Purgers : f \in purge[p].files
  \/ \E w \in Workers : run[w].file = f

\* "the other order would orphan objects nothing points at": when the row is
\* gone and nobody works on the file any more, so are its stored objects.
NothingIsLeftBehind ==
  \A f \in FileIds : row[f].status = "PURGED" /\ ~Busy(f)
    => ({f} \X Stored) \cap objects = {}

\* "REJECTED rows still carry expires_at, so the hourly purge takes them."
RejectedStillExpires ==
  \A f \in FileIds : Visible(f) /\ row[f].status = "REJECTED"
    => row[f].expires # "cleared"
=============================================================================
