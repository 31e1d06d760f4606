---------------------------- MODULE ReadThrough ----------------------------
(***************************************************************************)
(* One key of the read-through cache: CacheService.remember in several      *)
(* processes, the Redis lock it may take, the writers that change the row   *)
(* behind the key, and the delete they run after their commit.              *)
(*                                                                          *)
(* Sessions, workspace access and role grants are all cached this way.  A   *)
(* value is named by the version of the row it was read from.  The breaker  *)
(* (CircuitBreaker) may be open at any moment and Redis may fail at any     *)
(* moment: a cache operation can always be a miss, a skip or a late effect. *)
(***************************************************************************)
EXTENDS Naturals

CONSTANTS
  Procs,      \* processes; SingleFlight leaves each one load at a time
  Writers,    \* transactions that change the row and then delete the key
  None,       \* no entry, no value, no holder
  MaxWaits    \* CACHE_LOCK.MAX_WAITS

ASSUME CacheAssumption ==
  /\ None \notin Procs
  /\ None \notin Nat
  /\ MaxWaits \in Nat

VARIABLES
  version,  \* the committed version of the row
  entry,    \* the version in Redis, or None
  lock,     \* the process whose token is in Redis, or None
  flight,   \* flight[p]: how far p's load has come
  value,    \* value[p]: the version p has loaded and not yet stored
  holds,    \* processes with a lock handle, valid or not
  waits,    \* how many times p has waited for the lock
  writer,   \* writer[w]: "idle", "open", "committed", "done" or "lost"
  late,     \* versions whose SET timed out at the client
  missed    \* ghost: versions that some delete is known to have missed

vars == <<version, entry, lock, flight, value, holds, waits, writer, late, missed>>
cacheVars == <<entry, late>>
flightVars == <<flight, value, waits>>

Versions == Nat
Stage == {"none", "locking", "waiting", "loading", "loaded", "releasing"}

TypeOK ==
  /\ version \in Versions
  /\ entry \in Versions \cup {None}
  /\ lock \in Procs \cup {None}
  /\ flight \in [Procs -> Stage]
  /\ value \in [Procs -> Versions \cup {None}]
  /\ holds \subseteq Procs
  /\ waits \in [Procs -> 0..MaxWaits]
  /\ writer \in [Writers -> {"idle", "open", "committed", "done", "lost"}]
  /\ late \subseteq Versions
  /\ missed \subseteq Versions

Init ==
  /\ version = 0
  /\ entry = None
  /\ lock = None
  /\ flight = [p \in Procs |-> "none"]
  /\ value = [p \in Procs |-> None]
  /\ holds = {}
  /\ waits = [p \in Procs |-> 0]
  /\ writer = [w \in Writers |-> "idle"]
  /\ late = {}
  /\ missed = {}

GoOn(p, stage) == flight' = [flight EXCEPT ![p] = stage]

-----------------------------------------------------------------------------
(* remember: a hit changes nothing; a miss, a skip or an error starts a     *)
(* load, unless the process already has one to join.                        *)

Remember(p, locked) ==
  /\ flight[p] = "none"
  /\ GoOn(p, IF locked THEN "locking" ELSE "loading")
  /\ UNCHANGED <<version, cacheVars, lock, value, holds, waits, writer, missed>>

(* loadWithLock *)

Acquire(p) ==
  /\ flight[p] = "locking"
  /\ lock = None
  /\ lock' = p
  /\ holds' = holds \cup {p}
  /\ GoOn(p, "loading")
  /\ UNCHANGED <<version, cacheVars, value, waits, writer, missed>>

\* Redis cannot be asked: load unguarded.  The SET may have been applied, and
\* then nobody holds a handle for the token.
AcquireUnavailable(p) ==
  /\ flight[p] = "locking"
  /\ lock' \in IF lock = None THEN {None, p} ELSE {lock}
  /\ GoOn(p, "loading")
  /\ UNCHANGED <<version, cacheVars, value, holds, waits, writer, missed>>

AcquireHeld(p) ==
  /\ flight[p] = "locking"
  /\ lock # None
  /\ GoOn(p, "waiting")
  /\ UNCHANGED <<version, cacheVars, lock, value, holds, waits, writer, missed>>

\* One more turn of the loop that found nothing.
Wait(p) ==
  /\ flight[p] = "waiting"
  /\ waits[p] < MaxWaits
  /\ waits' = [waits EXCEPT ![p] = @ + 1]
  /\ UNCHANGED <<version, cacheVars, lock, flight, value, holds, writer, missed>>

\* Mutant: the waiter stores what it found once more, with a time to live of its own.
WaitFindsAndStores(p) ==
  /\ flight[p] = "waiting"
  /\ waits[p] < MaxWaits
  /\ entry # None
  /\ value' = [value EXCEPT ![p] = entry]
  /\ GoOn(p, "loaded")
  /\ waits' = [waits EXCEPT ![p] = 0]
  /\ UNCHANGED <<version, cacheVars, lock, holds, writer, missed>>

WaitFinds(p) ==
  /\ flight[p] = "waiting"
  /\ waits[p] < MaxWaits
  /\ entry # None
  /\ GoOn(p, "none")
  /\ waits' = [waits EXCEPT ![p] = 0]
  /\ UNCHANGED <<version, cacheVars, lock, value, holds, writer, missed>>

WaitExhausted(p) ==
  /\ flight[p] = "waiting"
  /\ waits[p] = MaxWaits
  /\ GoOn(p, "loading")
  /\ waits' = [waits EXCEPT ![p] = 0]
  /\ UNCHANGED <<version, cacheVars, lock, value, holds, writer, missed>>

(* loadAndStore *)

\* The committed version, whichever client the loader reads with: it may run
\* inside a caller's transaction, but at READ COMMITTED that sees the same row as
\* any other client, as no transaction that loads has written the row it loads.
Load(p) ==
  /\ flight[p] = "loading"
  /\ value' = [value EXCEPT ![p] = version]
  /\ GoOn(p, "loaded")
  /\ UNCHANGED <<version, cacheVars, lock, holds, waits, writer, missed>>

\* After the value is stored, or not, the lock is given back if it was taken.
Finish(p) ==
  /\ GoOn(p, IF p \in holds THEN "releasing" ELSE "none")
  /\ value' = [value EXCEPT ![p] = None]

LoaderThrows(p) ==
  /\ flight[p] = "loading"
  /\ Finish(p)
  /\ UNCHANGED <<version, cacheVars, lock, holds, waits, writer, missed>>

Store(p) ==
  /\ flight[p] = "loaded"
  /\ entry' = value[p]
  /\ Finish(p)
  /\ UNCHANGED <<version, late, lock, holds, waits, writer, missed>>

\* The set is skipped by the breaker, fails, or times out on its way.
StoreFails(p, timedOut) ==
  /\ flight[p] = "loaded"
  /\ late' = IF timedOut THEN late \cup {value[p]} ELSE late
  /\ Finish(p)
  /\ UNCHANGED <<version, entry, lock, holds, waits, writer, missed>>

LateSet(v) ==
  /\ v \in late
  /\ late' = late \ {v}
  /\ entry' = v
  /\ UNCHANGED <<version, lock, flightVars, holds, writer, missed>>

\* Compare and delete, in one script.
Release(p) ==
  /\ flight[p] = "releasing"
  /\ lock' = IF lock = p THEN None ELSE lock
  /\ holds' = holds \ {p}
  /\ GoOn(p, "none")
  /\ UNCHANGED <<version, cacheVars, value, waits, writer, missed>>

\* The script could not be run: the lock is left to expire.
ReleaseFails(p) ==
  /\ flight[p] = "releasing"
  /\ holds' = holds \ {p}
  /\ GoOn(p, "none")
  /\ UNCHANGED <<version, cacheVars, lock, value, waits, writer, missed>>

-----------------------------------------------------------------------------
(* A writer: TransactionService.run around the change, and the delete as an *)
(* after-commit hook.                                                       *)

Begin(w) ==
  /\ writer[w] = "idle"
  /\ writer' = [writer EXCEPT ![w] = "open"]
  /\ UNCHANGED <<version, cacheVars, lock, flightVars, holds, missed>>

\* A rollback runs no hook.
Rollback(w) ==
  /\ writer[w] = "open"
  /\ writer' = [writer EXCEPT ![w] = "done"]
  /\ UNCHANGED <<version, cacheVars, lock, flightVars, holds, missed>>

\* Mutant: the delete ran inside the transaction, none runs after it.
CommitAfterDelete(w) ==
  /\ writer[w] = "open"
  /\ version' = version + 1
  /\ writer' = [writer EXCEPT ![w] = "done"]
  /\ UNCHANGED <<cacheVars, lock, flightVars, holds, missed>>

Commit(w) ==
  /\ writer[w] = "open"
  /\ version' = version + 1
  /\ writer' = [writer EXCEPT ![w] = "committed"]
  /\ UNCHANGED <<cacheVars, lock, flightVars, holds, missed>>

\* Versions that a delete at this moment cannot reach: they are on their way
\* to the cache.
Underway == late \cup ({value[p] : p \in Procs} \ {None})

Evict(w) ==
  /\ writer[w] = "committed"
  /\ entry' = None
  /\ writer' = [writer EXCEPT ![w] = "done"]
  /\ missed' = missed \cup (Underway \ {version})
  /\ UNCHANGED <<version, late, lock, flightVars, holds>>

\* Skipped by the breaker, failed, or the process died before the hook ran.
EvictLost(w) ==
  /\ writer[w] = "committed"
  /\ writer' = [writer EXCEPT ![w] = "lost"]
  /\ missed' = missed \cup ((Underway \cup {entry}) \ {version, None})
  /\ UNCHANGED <<version, cacheVars, lock, flightVars, holds>>

-----------------------------------------------------------------------------
(* Time and crashes.                                                        *)

\* A process dies in the middle of a load.
Crash(p) ==
  /\ flight[p] # "none"
  /\ GoOn(p, "none")
  /\ holds' = holds \ {p}
  /\ value' = [value EXCEPT ![p] = None]
  /\ waits' = [waits EXCEPT ![p] = 0]
  /\ UNCHANGED <<version, cacheVars, lock, writer, missed>>

EntryExpires ==
  /\ entry # None
  /\ entry' = None
  /\ UNCHANGED <<version, late, lock, flightVars, holds, writer, missed>>

\* The lock's time to live may run out under its holder.
LockExpires ==
  /\ lock # None
  /\ lock' = None
  /\ UNCHANGED <<version, cacheVars, flightVars, holds, writer, missed>>

-----------------------------------------------------------------------------
FlightStep(p) ==
  \/ Acquire(p) \/ AcquireUnavailable(p) \/ AcquireHeld(p)
  \/ Wait(p) \/ WaitFinds(p) \/ WaitExhausted(p)
  \/ Load(p) \/ LoaderThrows(p)
  \/ Store(p) \/ \E timedOut \in BOOLEAN : StoreFails(p, timedOut)
  \/ Release(p) \/ ReleaseFails(p)

Next ==
  \/ \E p \in Procs, locked \in BOOLEAN : Remember(p, locked)
  \/ \E p \in Procs : FlightStep(p) \/ Crash(p)
  \/ \E w \in Writers : Begin(w) \/ Rollback(w) \/ Commit(w) \/ Evict(w) \/ EvictLost(w)
  \/ \E v \in late : LateSet(v)
  \/ EntryExpires \/ LockExpires

SafeSpec == Init /\ [][Next]_vars

\* A load that has begun goes on, every entry expires, a late command lands.
Fairness ==
  /\ \A p \in Procs : WF_vars(FlightStep(p))
  /\ WF_vars(\E v \in late : LateSet(v))
  /\ WF_vars(EntryExpires)

Spec == SafeSpec /\ Fairness

-----------------------------------------------------------------------------
(* Properties.                                                              *)

\* The key is stale only while its writer is about to delete it, or if the
\* stale value slipped past the delete: it was read before the commit and not
\* yet stored, or the delete was lost.  Deleting after the commit gives this.
StaleIsExcused ==
  (entry # None /\ entry # version) =>
    entry \in missed \/ \E w \in Writers : writer[w] = "committed"

\* What the proofs use: the same of every version that is on its way.
Settling == \E w \in Writers : writer[w] = "committed"
InCache == Underway \cup ({entry} \ {None})

IInv ==
  /\ TypeOK
  /\ \A p \in Procs : flight[p] = "loaded" => value[p] # None
  /\ \A v \in InCache : v # version => (v \in missed \/ Settling)

\* A lock that was lost to its time to live is not taken from the next holder:
\* only expiry or the holder's own release frees it.
OthersKeepTheirLock ==
  [][\A p \in Procs : lock = p /\ lock' = None =>
       LockExpires \/ (flight[p] = "releasing" /\ flight'[p] = "none")]_vars

\* Whatever becomes of the lock and of its holder, a load comes to an end.
LoadEnds == \A p \in Procs : flight[p] # "none" ~> flight[p] = "none"

\* Staleness ends for good.  The writers are finitely many, so from some moment
\* on nothing stale is in the cache or comes back to it: the time to live ends
\* what the deletes missed, and no process hands on what it found there.
StalenessEnds == <>[](entry \in {None, version})

\* "invalidated explicitly by every status or role change, so removal locks a
\* member out on their next request rather than when a TTL expires": unless a
\* delete is still to come or was lost, nothing in the cache is stale.
DeleteIsEnough ==
  (\A w \in Writers : writer[w] \notin {"committed", "lost"}) => entry \in {None, version}
=============================================================================
