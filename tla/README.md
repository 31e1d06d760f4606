# bulletproof-nest: a verification development

TLA+ models of the parts of this NestJS application in which the order of steps
matters: what is committed, what is put in a queue or a cache after the commit,
who may hold a row, and what a second request, a late worker or a restarted
process finds. Every definition is translated from `src/src`; `PROJECT.json`
maps each one to the lines it stands for.

    tlc -workers 2 -config MCOutbox.cfg MCOutbox.tla     # one run
    tlapm DeliveryProofs.tla                             # one set of proofs

## The system

One code base runs as an HTTP process and as a worker process, any number of
each, on one PostgreSQL database (READ COMMITTED), one Redis (cache, locks, rate
limits, BullMQ queues), one S3-like storage and an email provider.

| part (`src/src/...`) | state it keeps | operations | what must hold |
|---|---|---|---|
| job dispatch and outbox (`infrastructure/queue`) | `outbox_messages` rows: status, attempts, lease (`available_at`), expiry; BullMQ jobs | dispatch, fast path, relay tick, publish, expire, abandon, purge | a committed dispatch reaches the queue, expires or is abandoned; a row never says what did not happen |
| job processors (`infrastructure/queue`) | BullMQ's attempts, locks, stalls | run, retry, dead letter | two runs of one job do no harm |
| job schedules (`infrastructure/queue/registry`) | schedulers in Redis | sync at boot | after a release's boot the schedules it declares, and no others, exist, unless another booted beside it |
| email (`core/communication`, `infrastructure/communication`, `modules/communication`) | `outbound_messages`: status and what goes with it | send, deliver, mark sent/failed/expired | SENT only if accepted; status only moves forward; a message is settled |
| circuit breaker (`core/cache/resilience`) | state, consecutive failures, two clocks | shouldAllow, recordSuccess, recordFailure | open only in an outage; closes after it |
| cache (`core/cache`, `infrastructure/cache`, `infrastructure/redis`) | entries, locks | remember, lock, wait, set, delete | staleness is explained and ends |
| transactions (`infrastructure/database`) | the ambient client, after-commit hooks | run, runAfterCommit | hooks run after the commit only |
| sessions and refresh tokens (`modules/user-auth`) | `user_sessions`, `user_refresh_tokens`, the session cache | sign in, rotate, log out, revoke | one live token per session; a reused token ends the session |
| codes and password reset (`modules/user-auth`) | `user_verification_codes`, `user_password_reset_tokens` | issue, answer, exchange, reset | one live code and token; used once; guesses bounded |
| credentials, registration, identities (`modules/user-auth`, `modules/users`) | users, identities, credentials | register, prove, login, rehash, profile | an address is registered once; the last password stands |
| admin authentication, admins (`modules/admin-auth`, `modules/admins`) | the admins' mirror of the above | the same; bootstrap | one first admin; a password set ends the sessions it did not open; only a late rehash undoes it |
| files (`modules/files`, `infrastructure/storage`) | `files`, `file_variants`, usage, objects | request, complete, process, attach, release, purge | usage is counted; owner and file agree; nothing is served that is gone |
| workspaces (`modules/workspaces`) | workspaces, members, the access cache | create, review, enter, update, logo | the cap is exceeded only by a create that was overtaken; one decision; access follows the status |
| roles and grants (`modules/workspace-roles`, `modules/admin-roles`) | roles, grants, assignments, two caches | create, edit, rename, delete, resolve | grants are what one edit set, or it is known why not; nobody takes from a role what is beyond them |
| permissions, seeding (`core/permissions`, `core/seeding`) | the catalogue, its mirror tables, the default roles | mirror, seed | after a release's seed run the tables say what its catalogue says, unless another ran beside it |
| rate limit (`core/rate-limit`, `infrastructure/rate-limit`) | fixed windows in Redis | consume, consumeAll, refund | a refusal costs nothing; a window lets through no more than its limit and its late refunds |
| guards, request context (`core/auth`, `core/tenancy`, `core/permissions`, `core/context`) | one request's own | limit, authenticate, enter, permit | a handler runs only with the caller it needs |
| HTTP edge, logging, configuration | none that interleaves | | |

How they interact. A use case runs in `TransactionService.run`; a dispatch
inserts its outbox row in that transaction and registers the fast path, a cache
delete, or both as after-commit hooks, whose failures are logged and swallowed.
Workers take jobs from BullMQ and write the tables the use cases read. Caches are
filled by readers and emptied by writers, with no order between the two. Guards
read sessions and grants through those caches. The purge jobs run hourly against
rows that requests and workers still use. Every request passes the limiter and the
guards before its handler. A deployment runs the seeders, and every instance syncs
the schedules as it boots, beside instances of the release before.

What is hard: overlapping transactions at READ COMMITTED (a statement picks its
rows before it waits for their locks); work that outlives its lease or lock; a
crash between the commit and its hooks; acknowledgements that are lost; values
read before an `await` and used after it; counters and caps read and then acted
on. `PROJECT.json` lists each such place with its line under `hazards`, and the
properties that look at it.

## Modules

| module | component | extends / instantiates |
|---|---|---|
| `JobPromise` | abstract: what a dispatch promises | |
| `Outbox` | dispatcher, outbox table, relay, purge | implements `JobPromise` |
| `EmailDelivery` | `EmailService`, the job, the recorder | `JobPromise` in place of the outbox |
| `CircuitBreaker` | the breaker in front of the cache | |
| `ReadThrough` | `CacheService.remember` with lock, a transaction's delete after commit | |
| `UserSessions` | session, refresh-token and auth services | |
| `UserCodes` | registration, codes and reset tokens | |
| `Files` | upload, processing, attachment, purge, usage | |
| `RateLimit` | `consumeAll` and its refunds | |
| `Requests` | the global guards, in their order | `RateLimit` |
| `Workspaces` | the workspace handlers behind those guards | `Requests`; implements `RateLimit` |
| `WorkspaceRoles` | custom roles, their grants and the two caches | |
| `Admins` | bootstrap, credentials, sessions, tokens and reset of the admin | |
| `Deployment` | schedule sync and seed runs of several releases | |
| `MC...` | one instance module per component | the component |
| `DeliveryProofs` | proofs about the two halves of the queue | `Outbox`, `EmailDelivery` |
| `StorageProofs` | proofs about what lies beside the database | `ReadThrough`, `CircuitBreaker`, `Files` |
| `WorkspacesProofs` | proofs about the limiter, the guards and the handlers | `Workspaces` |
| `UserSessionsProofs`, `UserCodesProofs`, `WorkspaceRolesProofs`, `AdminsProofs`, `DeploymentProofs` | proofs about the module they are named after | that module |

Where one proof module extends several components, the names of all but one carry
a prefix (`FilesInit`, `EmailTypeOK`), so that they can be extended together.

`JobPromise` is the interface between the queue's halves: `Outbox` is shown to
implement it, and `EmailDelivery` is built on it, so neither contains the other.

### Outbox
`status`, `key`, `attempts` are the row's columns. The lease is the set `due`: a
row is due when `available_at` has passed, a claim takes it out, and `BecomeDue`
puts it back after the lease or the backoff, so no clock is counted. `expiry`
says whether the row's expiry exists, is ahead or has passed. `task[a][r]` is how
far publisher `a` (a relay, or the request's fast path) has come with row `r`:
`Send`, `PublishOutcome` and the recording step are separate, because each is an
`await`. An add that timed out may still land (`late`). A job that names a queue
this build lacks is told by its key (`Legacy`). `ORDER BY available_at` is
abstracted to any batch of the right size. Rows are finite and each is used
once, so a behaviour may stop: deadlock is not checked.

### EmailDelivery
One message per key. The worker's steps are the handler's awaits: the expiry
check, the send, the outcome, the record, the end of the run. The provider
accepts at most once per idempotency key, and a request given up on may still be
accepted. A stalled job is taken again while its first run goes on. Templates and
error tables are abstracted to three outcomes: accepted, refused, rejected for
good. A message is sent once, so a behaviour may stop.

### CircuitBreaker
The three fields of the class, and its two clocks as `cooled` and `overdue`.
Commands are admitted, and report later or never; `streak` is a ghost that
counts failures since the last reported success.

### ReadThrough
The instance is a workspace's access entry: `remember` with its read, the lock's
three outcomes, the waits, the load and the store, against writers that commit
and then delete the key. Redis may lose any call; the breaker's refusals appear
as such losses. The loader reads through the ambient client, so in places inside
its caller's open transaction; at READ COMMITTED that is one read of what is
committed all the same, since none of those transactions has written the row it
loads.
Single-flight makes one process one loader of a key, so a process is a loader.

### UserSessions
Each kind of request is a sequence of the statements of its transaction. A
statement first picks the rows that are committed, then takes them one at a time,
waiting for a row another transaction has written and looking at its condition
again, which is what READ COMMITTED does. A cycle of waits makes the database
end one of them. Requests are one-shot, expiry by the clock and the rehash of a
credential are not modelled. `began` is a ghost: how many sessions there were when
a sign-in began.

### UserCodes
One address, registered or not at first. `code[i]` is a row of
`user_verification_codes` with its purpose, `token[i]` the reset token it was
exchanged for; `lock[i]` the uncommitted writer, `claimant` that of the address.
Each `await` of `issueIfDue`, `verify`, `consume` and the transactions around them
is a step; the session or the token a code is answered for comes after. A
password login with an unproved address asks for a code as `ResendVerification`
does. `retireActive` of the tokens is two updates (expired, then superseded) that
are one step here: nothing between them is seen by another transaction. The row
of the address is only locked by whoever marks it verified, after the code, so it
adds no order of its own. A resolved row's age is not kept. The slots are bounded
by `MaxCodes`.

### Files
Rows, objects and usage of one workspace; the owner is the workspace's logo. A
purge is one batch, and the next is another run. The presigned URL may be used
until the file is rejected or gone, which allows more than its lifetime would.
Every file is public, so it has an image and a thumbnail. The job dispatched in
`complete`'s transaction reaches the queue: that is what `Outbox` shows. An
object left under `incoming/` belongs to the bucket's lifecycle rule and is not
counted as left behind. A sum of bytes is the size of the set of them (`TotalBytes`),
so that the proofs need no recursion. `adjust` after processing looks at no quota,
so the quota is kept as long as the processed image and its thumbnail are no larger
than what was uploaded. `picked` is a ghost: the files that a purge run has read
as expired and unattached, which an `attach` with an older clock may still take.
Files are finite, so a behaviour may stop.

### RateLimit, Requests, Workspaces
`RateLimit` is `consumeAll`: one Redis command per check, in order, and after a
refusal one refund per slot already spent. A window may end between any two
(`WindowEnds`), a command may be lost before or after it counted, and the rule
then says whether the call goes on (`FailsOpen`). A slot is `own` while its window
is open and `old` after; a refund of an old one credits the next window, which
`late` counts. The refunds of `RateLimit` are why a counter may be below zero.

`Requests` adds the guards in the order `app.module.ts` and the modules' providers
bind them, and what each sets in the request context. A route is what its
decorators say of it; the audit at boot refuses every other combination, so
`Routes` is any set of routes the audit accepts. The CSRF guard compares two
values of one request and is left out.

`Workspaces` adds three handlers: create, with the cap counted before the
transaction, the pending index and the slug's, and the reading that explains a
unique violation; an admin's review, a guarded update and a delete after commit;
and entering, where the guard reads the access entry. It extends `Requests`, so
every call to a handler has come through the limiter and the guards, and its
steps are shown to be steps of `RateLimit` or to leave it alone. An address, a
member and a slug are one each of a small set. Calls and windows are bounded, so
a behaviour may stop.

### WorkspaceRoles
A request resolves its caller's grants once, in the guard, through the
member-roles entry and the grants entries of its roles, and acts on them to the
end (`can`). An edit is the statements of its transaction: the update of the
role, the delete of its grants, which picks the rows it sees and waits for those
it finds locked, and the inserts, which wait for an uncommitted duplicate and
skip one that commits. Prisma writes no statement for an update without columns
(external), so an edit of permissions alone locks nothing: two of them may leave
the union of their sets, and may wait for each other. `meets` is a ghost: the
edits of the role that committed since the request was judged.

### Admins
One admin. A transaction that ends sessions is two steps, the first with its
locks and the second the commit; `UserSessions` and `UserCodes` take the users'
copy of that code apart, row by row. The rehash after a login is a write of its
own, whatever the credential has become: `undone` says that it has undone a
password set since. Passwords, sessions, tokens and codes are numbered in the
order they commit. `latest`, `startedIn`, `late`, `kept`, `lateTokens` and `stale`
are ghosts. How many attempts a code has left is an input, and no admin is
suspended (nothing in the code does it).

### Deployment
A process is an instance that boots or a seed run, of one release. A boot upserts
what its providers declare, lists each queue and removes what it does not declare,
one Redis call at a time. A seed run takes the selected seeders in their order,
each a transaction: the two permission mirrors (the plan, the writes, the commit)
and the default roles with their grants. Any may fail between two steps. `settled`
names the release whose boot, or whole seed run, was the last to succeed with none
of another beside it or begun since. A mirror's writes lock their rows in one
step: two runs that locked them in opposite orders would end with one of them
failing, which is a step of its own. A restart of the old release during a rollout
does remove what the new one declared; the properties say only what holds with
no other release about.

## Runs

| run | asks | bounds |
|---|---|---|
| `outbox` | does every committed dispatch end as `JobPromise` says, and does a row say only what happened? | two scopes in one run: two rows that may carry one job id, or one of them a job of an earlier build, one of which may expire, with one relay that takes one row at a time; one row that may expire with two relays. In both the fast path, three attempts, one fault |
| `email` | does the record tell the truth while two runs of a job overlap, and is the message settled after a crash? | one message, two workers, two adds, two attempts, one forgiven stall, two faults |
| `breaker` | does the breaker open only for an outage and close after it? | four commands, threshold two, two outages, a lost command |
| `cache` | when is an old value served, and does it end? | two processes, two writers, one wait |
| `sessions` | what do any three requests leave behind, and when is a sign-in refused with 409? | two devices, one of them signed in before |
| `reset` | is an address registered once, is there one live code and one live token, each used once, and are guesses bounded? | two requests at a time, two codes of any purpose, two attempts, a request that dies |
| `files` | usage, quota, logo, served objects | two files; two `complete`s and two purge runs, two of these four at a time; two logo changes; a worker |
| `files_settles` | does every file end, and once? | one file, put up to twice, two `complete`s, two worker slots, a purge, a logo change, a crash |
| `roles` | does a role end with the set an edit gave it, untouched by those it is beyond, and is the cache what it is? | two requests at a time, three in all; an owner and a member; four ids and a limit of two roles; four keys, one restricted |
| `workspaces` | budgets, guards, the cap and the review, behind one front door | two calls at a time, three in all; one hit in each of two budgets, one end of each window, one lost command; two slugs, a cap of one, two attempts; a user and an admin; a route of each kind |
| `admins` | one first admin; what a password set, a late rehash and an ended session leave | two seeders; two calls at a time, four in all; two devices, three sessions, three tokens, two passwords, one code, a crash or a lost eviction |
| `deployment` | what is left when a release's boot or seed run ends? | three releases, one of which does not start; two processes at a time, four in all; whole and partial selections; one that fails |

Why these bounds. Each hazard is between two actors and one row, sometimes a
third that comes late; the runs have two of each, and a third where the
hazard needs one: a sign-in, the password set that overtakes it and the refresh
of what it left (`admins`), a role's edit beside another and the read of it after
(`roles`), the old release, the new one and the old one restarted (`deployment`).
The outbox asks two questions that never meet: what rows do to each other in a
batch or over one job id needs two rows, what relays do to each other needs two
relays whose leases on one row run out; so `MCOutbox` gives each its scope, and a
batch of one is one that two due rows overflow. Its attempts are three, so that a
stale relay's snapshot can be two failures behind. Elsewhere
attempts and thresholds are two, the least that tells "the last" from "not the
last". Faults are one or two: a second fault matters where a retry answers the
first (`email`). Where more is wanted the proofs hold for every number. Symmetry
is used only where no liveness is checked.

Every property has a mutant in `PROJECT.json`: a plausible mistake in one
definition (a lost guard, a swapped order) that the run then finds.

### Fairness
Only what the code schedules. The relay ticks and its rows become due (timers);
nothing is assumed of the fast path, which may die. Workers take what waits and
their runs end, since every provider and database call has a timeout; BullMQ
finds the jobs of dead workers. The breaker's timers run and requests keep
coming. Redis' expiries pass. The database ends a deadlock and hands a released
lock on. The purge job comes round. Commits, crashes and requests are never
assumed. `RateLimit`, `Requests`, `Workspaces`, `Admins` and `Deployment` assume no
fairness: what they promise is that nothing wrong happens.

## What the code does and what is said of it

Seven configurations check one property each that a comment or a document of the
repository states and the code does not keep; TLC finds a counterexample. They are
kept beside the runs, to be run when one of those places changes.

| configuration | property | the code, and what is said of it |
|---|---|---|
| `MCReadThrough_delete` | `DeleteIsEnough` | a load that read before the commit may store after the delete (`core/cache/cache.service.ts:271`), though no delete was lost; `workspaces/API.md:52-54` and `workspace-access.cache.ts:59` have the delete suffice. `StaleIsExcused` says exactly when it does not |
| `MCFiles_drift` | `UsageIsExact` | a purge gives back what the rows said when it read them (`file-purge.service.ts:94`, against `file-purge.util.ts:45-46`); a `complete` or the end of processing in between leaves the usage off for good. `UsageIsExcused` shows this is the only way |
| `MCFiles_orphan` | `NothingIsLeftBehind` | a thumbnail stored while or before the purge deletes is named by no row, and stays (`file-purge.util.ts:19`, against `:10`) |
| `MCFiles_expired` | `OwnerPointsAtSomething` | `attach` compares the expiry with a clock read before its checks (`files.service.ts:26`), so it may take a file that has expired and that a purge is deleting: the owner is left pointing at nothing, which `stored-file.repository.ts:117-120` says never happens ("Never an expired file: the purge may already be deleting its objects"). `ServedFilesExist` shows that only a file a purge had picked loses its objects |
| `MCFiles_stuck` | `RejectedStillExpires` | a file attached before processing rejects it has lost its expiry and is in no purge (`stored-file.repository.ts:129`, against `files/API.md:319-320`) |
| `MCWorkspaces_slug` | `SlugTakenMeansInUse` | a create that lost to another workspace of the same owner may be told that its slug is taken, if the other was reviewed before it looked again (`workspace.service.ts:218`, against `modules/workspaces/API.md:149, 448`) |
| `MCAdmins_rehash` | `PasswordIsTheLastSet` | the rehash after a login is written unconditionally (`admin-credential.repository.ts:23-25`; the users' is the same): the old password may come back over one just set. `LatestPasswordStands` shows this is the only way |

Stated in the modules and refuted when put in a cfg, where we found nothing said to
the contrary: `Outbox!ExpiredBeforePublished` (an add that landed and was not
recorded may be recorded as expired), `EmailDelivery!ChecksTheRecordFirst` (the
handler does not look at the record; the idempotency key keeps the repeat harmless)
and `UserSessions!RevokedHasNoLiveToken` (a logout may miss the successor an
uncommitted rotation inserted; the session's check refuses it).

Stated in the modules and true of the same instances, but in no run, since others
say more: each `TypeOK`, `Outbox!ExpiredIsPast`, `EmailDelivery`'s
`OnlyMovesForward`, `EmailUsesThePromise` and `JobEnds`, `ReadThrough`'s
`OthersKeepTheirLock` and `LoadEnds`, the `RequestsEnd` of `UserCodes` (with one code)
and of `WorkspaceRoles` (with fewer requests), and `Workspaces!StatusIsExcused`. All
but those that say what must happen in the end (`JobEnds`, `LoadEnds`, `RequestsEnd`)
are theorems.

## Proofs

Every invariant and every action property that a run checks is a theorem, proved by
`tlapm` for every value of the constants that satisfies the module's assumption (TLC
evaluates the assumptions in each run). Each proof has the same shape: an inductive
invariant, one lemma for each action or group of actions, and the property from the
invariant. What makes each one inductive is the argument that the code is right:

* `DeliveryProofs`, the outbox. `IInv` adds to the claims that an acknowledged
  publish has landed (else `DispatchedWasLanded` is not preserved by the step that
  records it), that a claim's snapshot of `attempts` is never ahead of the row (else
  a stale relay could abandon early), and that nobody works for a row that is not
  written. `FinishedFinal` and `OutboxKeepsPromise` (every step of the outbox is a
  step of `JobPromise` or a stutter) follow by what a step does to one row.
* `DeliveryProofs`, the email. `EmailInv`: who is about to record a message as sent
  has seen it accepted; only an active job is held, and one that may still run has
  an attempt and a stall left; the columns agree with the status, which is why a
  repeated `markFailed` must match no row. `RecordMovesForward` is what the rank
  guard is for, and `EmailRestsOnThePromise` that the email uses of the outbox only
  what the outbox is shown to promise.
* `StorageProofs`, the breaker and the cache. The count kept is never more than the
  failures since the last success, so a breaker that is not closed has earned it.
  The entry is other than the committed version only while a delete is owed, was
  lost, or a load from before it is under way. The lock of a key
  leaves its holder only by its expiry or by the holder itself (`LockIsTheHolders`).
* `StorageProofs`, the files. `used_bytes` is the size of a set, the counted bytes of
  the rows; each update of a row moves it by what it moves the usage, and a purge
  gives back what its deleted rows counted unless one of them has changed (`drifted`).
  The lock of a job is held by a run of it that knows whether it is the last. The
  logo is the one file in use. An object is missing only from a file that is
  *doomed*: purged, released long ago, or picked by a purge as expired. Doom is for
  good, and whatever a purge has read is doomed.
* `UserCodesProofs`. A row's lock is held by the transaction that has come to where
  it holds it, until it commits, and keeps the code ACTIVE; so the unique index
  gives one ACTIVE code of a purpose, and one request at most that consumes it. Who
  is about to give a reset token has picked the one that still lives, else there
  would be two. Guesses are those counted, those about to be counted, and those
  lost with a request that died, which is the bound of `GuessesBounded`.
* `UserSessionsProofs`. `SessionInv`: what a transaction has written is its own and
  still as it found it, which is all that row locks give; the one session it ends it
  has written, will write, or has ended already; two sign-ins do not insert on one
  device. Hence one live session of a device, one live token of a session, and a
  replayed token's session ended. `DeadlockNeedsReuse` compares what any two
  requests wait for under that invariant. `LateInv`: once the sweep of a new
  password has picked, what it will not take is late, and whoever is signing in is
  marked as overtaken. `MetInv` counts the sessions of its device that were
  committed since a sign-in began: it found the one that was live and has revoked
  it, so who it clashes with at its insert was committed since; on its retry another
  was (`RefusedHasMetTwo`).
* `WorkspacesProofs`. The limiter's books balance: a counter is what calls were let
  through with, what those still checking or refunding hold, and what was wasted,
  less the late refunds; the step of one call keeps it if its own numbers do
  (`Moves`), whatever finite set of calls there is. Every step of `Workspaces` is a
  step of `RateLimit` or leaves it alone (`DrivesTheLimiter`), so those theorems hold
  of it unproved again. `GuardsAreWired` is the order of the guards as an
  invariant: what the context knows at each place of a request. `OwnInv`: a create
  that has counted and that no review overtook is still below the limit, or its
  owner has a workspace pending, which stops it at the index. `CacheInv`: a status
  that a request has loaded, or that is cached, is the workspace's or was made old by
  a review (`OldStatusExcused`); it rests on `PassedInv`, by which a
  request that the limiter refuses is no reviewer about to delete an entry.
* `WorkspaceRolesProofs`. `WritingInv`: a role's row is locked by one transaction at
  most; what an edit has not taken was given by edits it overlapped with; what the
  role holds is within what the caller was judged against and what other edits gave
  it; a load that is not current is known to be old; roles and counted creates are
  fewer than the limit and the requests together. `EditsReplace` and
  `CallersTakeTheirOwn` are about what a commit does to one request's `meets`.
* `AdminsProofs`. A request's place types what it carries. `FirstAdminIsOne` adds that
  only the holder of the advisory lock has looked and found nobody.
  `LatestPasswordSignsIn` is by the ghost that a late rehash sets. `SetPasswordSweeps`
  needs what a sweep under way will leave: the sessions that commit between its pick
  and its commit are those its commit counts as `late`. `EndedInv`: a live token of
  an ended session is late, a sweep in flight takes every token it saw, and an ended
  session in the cache is stale or about to be evicted.
* `DeploymentProofs`. A boot, or a seed run, that no other release ran beside is only
  beside runs of its own release; upserts are idempotent among those, and what they
  remove was never declared. So what it has done so far is there, or will be when
  its transaction commits, and at its end that is everything (`SyncSettles`,
  `SeedSettles`).

Proved besides what the runs check: each module's types (but the limiter's and the
workspaces', which are parts of `IInv` and `WInv`, and those of `Deployment`),
`RecordMovesForward`, `EmailRestsOnThePromise`, `OutcomeStands` (the safety half of
`FileSettles`), `LockIsTheHolders`, `OldStatusExcused`, and the refinements of
`JobPromise` and `RateLimit`.

Only model-checked: everything that is eventually true (`KeepsItsPromise`,
`MessageIsSettled`, `Recovers`, `StalenessEnds`, `FileSettles`), since liveness under
fairness is out of the prover's reach. `KeepsItsPromise` has its safety part proved.

## Not modelled

`PROJECT.json` gives the reason for each component. In short:

* Most of the repository's lines are controllers, DTOs, schemas, constants,
  mappers, error formats, documentation, logging and configuration. They hold no
  state of their own and their steps do not interleave; the models take what they
  decide as the inputs of an action, or as a constant.
* The Prisma extensions rewrite one query at a time. BullMQ, Redis, PostgreSQL,
  storage and the email provider are external and appear by what the code uses of
  them.
* Admin roles have the shape of the workspace's behind other tables, and are not a
  second instance. Their inserts do not skip duplicates, so two edits at once end
  with one of them answered as a name conflict.
* The users' profile and avatar: the avatar moves by a guarded update with an
  attach and a release, as the logo of `Files`; names are single-row writes. The
  snapshots of a user and an admin are read through the cache as `ReadThrough` has
  it.
* Signing and verifying tokens, hashing, the CSRF comparison, the parsing of user
  agents and images: functions of their input.

Five hazards have no property, because the code does go wrong there: a message whose
job the relay expires or abandons stays QUEUED; objects put beside a purge are named
by no row (`MCFiles_orphan`); a file attached by an old clock loses its objects
(`MCFiles_expired`); a file rejected after it was attached is in no purge
(`MCFiles_stuck`); a unique violation is explained by what is read afterwards
(`MCWorkspaces_slug`). In four others the property excuses exactly what the code
does not prevent, and shows that nothing else happens: a late rehash
(`LatestPasswordStands`), a sign-in that a password change overtook
(`LateSessionsOnly`), a release that boots beside another (`SyncSettles`), a purge
that counts from rows read earlier (`UsageIsExcused`).

## Plan

Admin roles and the profiles, should they come to differ in more than their tables
from what `WorkspaceRoles` and `Files` show.
