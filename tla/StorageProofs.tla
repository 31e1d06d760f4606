--------------------------- MODULE StorageProofs ---------------------------
(***************************************************************************)
(* Theorems about what is kept outside the database and its transactions:   *)
(* the cache (ReadThrough, for any number of processes and writers), the    *)
(* breaker between it and Redis (CircuitBreaker, for every set of commands  *)
(* and threshold), and the stored files (Files, for any number of uploads,  *)
(* calls, workers and purge runs).                                          *)
(***************************************************************************)
EXTENDS ReadThrough, CircuitBreaker, Files, FiniteSetTheorems, TLAPS

LoadedHasValue == \A p \in Procs : flight[p] = "loaded" => value[p] # None

\* A step that commits nothing, deletes nothing and brings no new version into
\* the cache or on its way there keeps what IInv says of the versions.
LEMMA NothingNew ==
  ASSUME IInv, TypeOK', LoadedHasValue', InCache' \subseteq InCache,
         version' = version, missed' = missed, Settling' = Settling
  PROVE  IInv'
BY DEF IInv, LoadedHasValue

\* The steps of a load before and after the load itself.
LEMMA FlightKeeps ==
  ASSUME IInv, CacheAssumption, NEW p \in Procs,
         \/ \E locked \in BOOLEAN : Remember(p, locked)
         \/ FlightStep(p) \/ Crash(p),
         ~Load(p)
  PROVE  IInv'
<1> USE DEF IInv, TypeOK, GoOn, Stage, Versions, LoadedHasValue, cacheVars
<1> DEFINE Same == /\ version' = version
                   /\ missed' = missed
                   /\ writer' = writer
<1>1. ASSUME NEW locked \in BOOLEAN, Remember(p, locked)
      PROVE  Same /\ TypeOK' /\ LoadedHasValue' /\ InCache' \subseteq InCache
  BY <1>1 DEF Remember, InCache, Underway
<1>2. CASE Acquire(p)
  <2>1. Same /\ TypeOK' /\ LoadedHasValue'
    BY <1>2 DEF Acquire
  <2>2. InCache' \subseteq InCache
    BY <1>2 DEF Acquire, InCache, Underway
  <2>. QED
    BY <2>1, <2>2, NothingNew DEF Settling
<1>3. CASE AcquireUnavailable(p)
  <2>1. Same /\ TypeOK' /\ LoadedHasValue'
    BY <1>3 DEF AcquireUnavailable
  <2>2. InCache' \subseteq InCache
    BY <1>3 DEF AcquireUnavailable, InCache, Underway
  <2>. QED
    BY <2>1, <2>2, NothingNew DEF Settling
<1>4. CASE AcquireHeld(p) \/ Wait(p) \/ WaitFinds(p) \/ WaitExhausted(p)
  <2>1. Same /\ LoadedHasValue'
    BY <1>4 DEF AcquireHeld, Wait, WaitFinds, WaitExhausted
  <2>2. TypeOK'
    <3>1. waits' \in [Procs -> 0..MaxWaits]
      BY <1>4, CacheAssumption DEF CacheAssumption, AcquireHeld, Wait, WaitFinds, WaitExhausted
    <3>2. flight' \in [Procs -> Stage]
      BY <1>4 DEF AcquireHeld, Wait, WaitFinds, WaitExhausted
    <3>. QED
      BY <1>4, <3>1, <3>2 DEF AcquireHeld, Wait, WaitFinds, WaitExhausted
  <2>3. InCache' \subseteq InCache
    BY <1>4 DEF AcquireHeld, Wait, WaitFinds, WaitExhausted, InCache, Underway
  <2>. QED
    BY <2>1, <2>2, <2>3, NothingNew DEF Settling
<1>5. CASE LoaderThrows(p) \/ Store(p)
  <2>1. Same /\ LoadedHasValue'
    BY <1>5 DEF LoaderThrows, Store, Finish
  <2>2. TypeOK'
    <3>1. entry' \in Versions \cup {None}
      BY <1>5 DEF LoaderThrows, Store
    <3>2. value' \in [Procs -> Versions \cup {None}] /\ flight' \in [Procs -> Stage]
      BY <1>5 DEF LoaderThrows, Store, Finish
    <3>. QED
      BY <1>5, <3>1, <3>2 DEF LoaderThrows, Store
  <2>3. InCache' \subseteq InCache
    BY <1>5 DEF LoaderThrows, Store, Finish, InCache, Underway
  <2>. QED
    BY <2>1, <2>2, <2>3, NothingNew DEF Settling
<1>6. ASSUME NEW timedOut \in BOOLEAN, StoreFails(p, timedOut)
      PROVE  Same /\ TypeOK' /\ LoadedHasValue' /\ InCache' \subseteq InCache
  <2>1. Same /\ TypeOK' /\ LoadedHasValue'
    BY <1>6 DEF StoreFails, Finish
  <2>2. InCache' \subseteq InCache
    BY <1>6 DEF StoreFails, Finish, InCache, Underway
  <2>. QED
    BY <2>1, <2>2
<1>7. CASE Release(p) \/ ReleaseFails(p)
  <2>1. Same /\ TypeOK' /\ LoadedHasValue'
    BY <1>7 DEF Release, ReleaseFails
  <2>2. InCache' \subseteq InCache
    BY <1>7 DEF Release, ReleaseFails, InCache, Underway
  <2>. QED
    BY <2>1, <2>2, NothingNew DEF Settling
<1>8. CASE Crash(p)
  <2>1. Same /\ TypeOK' /\ LoadedHasValue'
    BY <1>8, CacheAssumption DEF CacheAssumption, Crash
  <2>2. InCache' \subseteq InCache
    BY <1>8 DEF Crash, InCache, Underway
  <2>. QED
    BY <2>1, <2>2, NothingNew DEF Settling
<1>. QED
  BY <1>1, <1>2, <1>3, <1>4, <1>5, <1>6, <1>7, <1>8, NothingNew
     DEF FlightStep, Settling

\* A load brings the committed version, which is not stale.
LEMMA LoadKeeps ==
  ASSUME IInv, CacheAssumption, NEW p \in Procs, Load(p)
  PROVE  IInv'
<1> USE DEF IInv, TypeOK, GoOn, Stage, Versions, Load, cacheVars
<1>1. TypeOK' /\ \A q \in Procs : flight'[q] = "loaded" => value'[q] # None
  BY CacheAssumption DEF CacheAssumption
<1>2. InCache' \subseteq InCache \cup {version}
  BY DEF InCache, Underway
<1>3. version' = version /\ missed' = missed /\ Settling' = Settling
  BY DEF Settling
<1>. QED
  BY <1>1, <1>2, <1>3

\* A commit makes every cached version stale, and its delete is still to come.
LEMMA CommitKeeps ==
  ASSUME IInv, NEW w \in Writers, Commit(w)
  PROVE  IInv'
<1> USE DEF IInv, TypeOK, Stage, Versions, Commit, cacheVars, flightVars
<1>1. TypeOK' /\ \A q \in Procs : flight'[q] = "loaded" => value'[q] # None
  OBVIOUS
<1>2. Settling'
  BY DEF Settling
<1>. QED
  BY <1>1, <1>2

\* A delete empties the key and gives up on what it cannot reach; a lost
\* delete gives up on the key as well.
LEMMA EvictKeeps ==
  ASSUME IInv, CacheAssumption, NEW w \in Writers, Evict(w) \/ EvictLost(w)
  PROVE  IInv'
<1>1. Underway \subseteq Versions
  <2>1. \A p \in Procs : value[p] \in Versions \cup {None}
    BY DEF IInv, TypeOK
  <2>2. late \subseteq Versions
    BY DEF IInv, TypeOK
  <2>. QED
    BY <2>1, <2>2 DEF Underway
<1> USE DEF IInv, TypeOK, Stage, Versions, Evict, EvictLost, cacheVars, flightVars
<1>2. TypeOK' /\ \A q \in Procs : flight'[q] = "loaded" => value'[q] # None
  BY <1>1, CacheAssumption DEF CacheAssumption
<1>3. Underway' = Underway /\ version' = version
  BY DEF Underway
<1>4. InCache' \subseteq InCache
  BY <1>3 DEF InCache
<1>5. None \notin Underway
  BY <1>1, CacheAssumption DEF CacheAssumption
<1>6. \A v \in InCache' : v # version => v \in missed'
  <2>1. CASE Evict(w)
    <3>1. InCache' = Underway /\ missed' = missed \cup (Underway \ {version})
      BY <2>1, <1>3, <1>5 DEF InCache
    <3>. QED
      BY <3>1
  <2>2. CASE EvictLost(w)
    <3>1. /\ InCache' = InCache
          /\ missed' = missed \cup ((Underway \cup {entry}) \ {version, None})
      BY <2>2, <1>3 DEF InCache
    <3>. QED
      BY <3>1, <1>5 DEF InCache
  <2>. QED
    BY <2>1, <2>2
<1>. QED
  BY <1>2, <1>3, <1>4, <1>6

\* Late sets, transactions that begin or roll back, and time.
LEMMA RestKeeps ==
  ASSUME IInv,
         \/ \E v \in late : LateSet(v)
         \/ \E w \in Writers : Begin(w) \/ Rollback(w)
         \/ EntryExpires \/ LockExpires
  PROVE  IInv'
<1> USE DEF IInv, TypeOK, Stage, Versions, LoadedHasValue, cacheVars, flightVars
<1>1. ASSUME NEW v \in late, LateSet(v)
      PROVE  IInv'
  <2>1. TypeOK' /\ LoadedHasValue'
    BY <1>1 DEF LateSet
  <2>2. InCache' \subseteq InCache
    BY <1>1 DEF LateSet, InCache, Underway
  <2>. QED
    BY <1>1, <2>1, <2>2, NothingNew DEF LateSet, Settling
<1>2. ASSUME NEW w \in Writers, Begin(w) \/ Rollback(w)
      PROVE  IInv'
  <2>1. TypeOK' /\ LoadedHasValue'
    BY <1>2 DEF Begin, Rollback
  <2>2. InCache' = InCache
    BY <1>2 DEF Begin, Rollback, InCache, Underway
  <2>3. Settling' = Settling
    BY <1>2, Zenon DEF Begin, Rollback, Settling
  <2>. QED
    BY <1>2, <2>1, <2>2, <2>3, NothingNew DEF Begin, Rollback
<1>3. CASE EntryExpires \/ LockExpires
  <2>1. TypeOK' /\ LoadedHasValue'
    BY <1>3 DEF EntryExpires, LockExpires
  <2>2. InCache' \subseteq InCache
    BY <1>3 DEF EntryExpires, LockExpires, InCache, Underway
  <2>. QED
    BY <1>3, <2>1, <2>2, NothingNew DEF EntryExpires, LockExpires, Settling
<1>. QED
  BY <1>1, <1>2, <1>3

\* The inductive invariant: every version that is in the cache or on its way
\* there is current, given up on, or about to be deleted.
THEOREM CacheInvariant == SafeSpec => []IInv
<1>1. Init => IInv
  <2> SUFFICES ASSUME Init PROVE IInv
    OBVIOUS
  <2>1. TypeOK
    BY CacheAssumption DEF Init, TypeOK, CacheAssumption, Stage, Versions
  <2>2. InCache = {}
    BY DEF Init, InCache, Underway
  <2>. QED
    BY <2>1, <2>2 DEF Init, IInv
<1>2. IInv /\ [Next]_vars => IInv'
  <2> SUFFICES ASSUME IInv, [Next]_vars PROVE IInv'
    OBVIOUS
  <2>1. CASE UNCHANGED vars
    BY <2>1 DEF vars, IInv, TypeOK, InCache, Underway, Settling
  <2>2. CASE Next
    BY <2>2, CacheAssumption, FlightKeeps, LoadKeeps, CommitKeeps, EvictKeeps, RestKeeps
       DEF Next, FlightStep
  <2>. QED
    BY <2>1, <2>2
<1>. QED
  BY <1>1, <1>2, PTL DEF SafeSpec

\* Deleting after the commit: what is stale slipped past a delete, or its
\* delete is still to come.
THEOREM StaleOnlyIfExcused == SafeSpec => []StaleIsExcused
<1>1. IInv => StaleIsExcused
  BY DEF IInv, InCache, StaleIsExcused, Settling
<1>. QED
  BY <1>1, CacheInvariant, PTL

\* Every variable of the cache keeps its type.
THEOREM CacheTypes == SafeSpec => []TypeOK
<1>1. IInv => TypeOK
  BY DEF IInv
<1>. QED
  BY <1>1, CacheInvariant, PTL

\* The steps that may free a lock: its own release, and its expiry.
LEMMA WhoFreesTheLock ==
  ASSUME TypeOK, CacheAssumption, [Next]_vars, NEW p \in Procs, lock = p, lock' = None
  PROVE  LockExpires \/ (flight[p] = "releasing" /\ flight'[p] = "none")
<1>0. p # None /\ flight \in [Procs -> Stage]
  BY DEF TypeOK, CacheAssumption
<1>1. lock' # lock
  BY <1>0
<1>2. ASSUME NEW q \in Procs, FlightStep(q) PROVE Release(q)
  <2>1. ~Acquire(q) /\ ~AcquireUnavailable(q)
    BY <1>0, <1>1 DEF Acquire, AcquireUnavailable
  <2>2. ~AcquireHeld(q) /\ ~Wait(q) /\ ~WaitFinds(q) /\ ~WaitExhausted(q)
    BY <1>1 DEF AcquireHeld, Wait, WaitFinds, WaitExhausted
  <2>3. /\ ~Load(q) /\ ~LoaderThrows(q) /\ ~Store(q) /\ ~ReleaseFails(q)
        /\ \A timedOut \in BOOLEAN : ~StoreFails(q, timedOut)
    BY <1>1 DEF Load, LoaderThrows, Store, ReleaseFails, StoreFails
  <2>. QED
    BY <1>2, <2>1, <2>2, <2>3 DEF FlightStep
<1>3. ASSUME NEW q \in Procs, Release(q)
      PROVE  flight[p] = "releasing" /\ flight'[p] = "none"
  <2>1. q = p
    BY <1>1, <1>3 DEF Release
  <2>. QED
    BY <1>0, <1>3, <2>1 DEF Release, GoOn
<1>4. ASSUME NEW q \in Procs PROVE ~Crash(q) /\ \A locked \in BOOLEAN : ~Remember(q, locked)
  BY <1>1 DEF Crash, Remember
<1>5. ASSUME NEW w \in Writers
      PROVE  ~Begin(w) /\ ~Rollback(w) /\ ~Commit(w) /\ ~Evict(w) /\ ~EvictLost(w)
  BY <1>1 DEF Begin, Rollback, Commit, Evict, EvictLost
<1>6. ~EntryExpires /\ (\A v \in late : ~LateSet(v)) /\ ~UNCHANGED vars
  BY <1>1 DEF EntryExpires, LateSet, vars
<1>. QED
  BY <1>2, <1>3, <1>4, <1>5, <1>6 DEF Next

\* A holder whose lock ran out does not free the lock of the next one.
THEOREM LockIsTheHolders == SafeSpec => OthersKeepTheirLock
<1>1. TypeOK /\ [Next]_vars =>
        [\A p \in Procs : lock = p /\ lock' = None =>
           LockExpires \/ (flight[p] = "releasing" /\ flight'[p] = "none")]_vars
  BY CacheAssumption, WhoFreesTheLock
<1>. QED
  BY <1>1, CacheTypes, PTL DEF SafeSpec, OthersKeepTheirLock
-----------------------------------------------------------------------------
(***************************************************************************)
(* The breaker.                                                            *)
(***************************************************************************)

USE BreakerAssumption DEF BreakerAssumption

\* The two reports are where the count and the streak meet: a success resets
\* both, a failure raises both, and the breaker opens at the threshold.
LEMMA SuccessKeeps ==
  ASSUME BreakerInv, NEW c \in Calls, Succeed(c)
  PROVE  BreakerInv'
BY DEF BreakerInv, BreakerTypeOK, States, OpenMeansOutage, CountIsEarned, Succeed, RecordSuccess

LEMMA FailureKeeps ==
  ASSUME BreakerInv, NEW c \in Calls, FailCall(c)
  PROVE  BreakerInv'
<1> USE DEF BreakerInv, BreakerTypeOK, States, OpenMeansOutage, CountIsEarned, FailCall
<1>1. streak' \in 0..MaxStreak /\ streak' >= streak
  OBVIOUS
<1>2. current = "HALF_OPEN" \/ consecutiveFailures + 1 >= Threshold
        => streak' >= Threshold
  OBVIOUS
<1>3. CASE current = "HALF_OPEN" \/ consecutiveFailures + 1 >= Threshold
  <2>1. Open
    BY <1>3 DEF RecordFailure
  <2>2. cooled' \in BOOLEAN /\ overdue' \in BOOLEAN
    BY <2>1, Zenon DEF Open
  <2>. QED
    BY <2>1, <2>2, <1>1, <1>2, <1>3 DEF Open
<1>4. CASE ~(current = "HALF_OPEN" \/ consecutiveFailures + 1 >= Threshold)
  <2>1. /\ consecutiveFailures' = consecutiveFailures + 1
        /\ UNCHANGED <<current, cooled, overdue>>
    BY <1>4 DEF RecordFailure
  <2>2. consecutiveFailures' \in 0..Threshold - 1
    BY <1>4, <2>1
  <2>3. consecutiveFailures' <= streak'
    BY <1>4, <2>1
  <2>. QED
    BY <2>1, <2>2, <2>3, <1>1
<1>. QED
  BY <1>3, <1>4

LEMMA AdmitKeeps ==
  ASSUME BreakerInv, NEW c \in Calls, Admit(c)
  PROVE  BreakerInv'
<1>1. cooled' \in BOOLEAN /\ overdue' \in BOOLEAN
  BY Zenon DEF BreakerInv, BreakerTypeOK, Admit, ShouldAllow, StartProbe, breaker
<1>2. current = "CLOSED" => current' = "CLOSED"
  BY DEF Admit, ShouldAllow, ProbeAgain, breaker
<1>3. current' \in States /\ consecutiveFailures' = consecutiveFailures
  BY DEF BreakerInv, BreakerTypeOK, States, Admit, ShouldAllow, StartProbe, breaker
<1>4. calls' \in [Calls -> {"idle", "good", "bad", "hung"}]
  BY DEF BreakerInv, BreakerTypeOK, Admit
<1>. QED
  BY <1>1, <1>2, <1>3, <1>4 DEF BreakerInv, BreakerTypeOK, OpenMeansOutage, CountIsEarned, States, Admit

\* What Redis and the clock do touches neither the count nor the streak.
LEMMA OutsideKeeps ==
  ASSUME BreakerInv,
         \/ \E c \in Calls : Hang(c)
         \/ GoAway \/ ComeBack \/ CoolDown \/ ProbeTimesOut
  PROVE  BreakerInv'
<1> USE DEF BreakerInv, BreakerTypeOK, States, OpenMeansOutage, CountIsEarned
<1>1. CASE \E c \in Calls : Hang(c)
  BY <1>1 DEF Hang, breaker
<1>2. CASE GoAway
  <2>1. calls' \in [Calls -> {"idle", "good", "bad", "hung"}]
    BY <1>2 DEF GoAway
  <2>2. outages' \in 0..MaxOutages
    BY <1>2 DEF GoAway
  <2>3. healthy' \in BOOLEAN
    BY <1>2, Zenon DEF GoAway
  <2>. QED
    BY <1>2, <2>1, <2>2, <2>3 DEF GoAway, breaker
<1>3. CASE ComeBack
  BY <1>3 DEF ComeBack, breaker
<1>4. CASE CoolDown
  BY <1>4 DEF CoolDown
<1>5. CASE ProbeTimesOut
  BY <1>5 DEF ProbeTimesOut
<1>. QED
  BY <1>1, <1>2, <1>3, <1>4, <1>5

\* The inductive invariant holds in every reachable state.
THEOREM BreakerInvariant == BreakerSafeSpec => []BreakerInv
<1>1. BreakerInit => BreakerInv
  <2> SUFFICES ASSUME BreakerInit PROVE BreakerInv
    OBVIOUS
  <2>1. {cooled, overdue, healthy} \subseteq BOOLEAN
    BY Zenon DEF BreakerInit
  <2>2. calls \in [Calls -> {"idle", "good", "bad", "hung"}]
    BY DEF BreakerInit
  <2>. QED
    BY <2>1, <2>2 DEF BreakerInit, BreakerInv, BreakerTypeOK, States, OpenMeansOutage, CountIsEarned
<1>2. BreakerInv /\ [BreakerNext]_breakerVars => BreakerInv'
  <2> SUFFICES ASSUME BreakerInv, [BreakerNext]_breakerVars PROVE BreakerInv'
    OBVIOUS
  <2>1. CASE UNCHANGED breakerVars
    BY <2>1 DEF breakerVars, breaker, BreakerInv, BreakerTypeOK, OpenMeansOutage, CountIsEarned
  <2>2. CASE BreakerNext
    BY <2>2, SuccessKeeps, FailureKeeps, AdmitKeeps, OutsideKeeps DEF BreakerNext
  <2>. QED
    BY <2>1, <2>2
<1>. QED
  BY <1>1, <1>2, PTL DEF BreakerSafeSpec

\* The breaker's fields keep their types, the count below the threshold.
THEOREM BreakerTypes == BreakerSafeSpec => []BreakerTypeOK
<1>1. BreakerInv => BreakerTypeOK
  BY DEF BreakerInv
<1>. QED
  BY <1>1, BreakerInvariant, PTL

\* A breaker that is not closed has seen Threshold failures in a row.
THEOREM BreakerOpensLate == BreakerSafeSpec => []OpenMeansOutage
<1>1. BreakerInv => OpenMeansOutage
  BY DEF BreakerInv
<1>. QED
  BY <1>1, BreakerInvariant, PTL

-----------------------------------------------------------------------------
(* Files.  Any number of uploads, calls, workers and purges; a finite set of *)
(* files, so that their bytes can be counted.                               *)

BytesOf(bytes, files) == UNION {{f} \X (1..bytes[f]) : f \in files}

\* The bytes of one file.
LEMMA BytesOfAFile ==
  ASSUME NEW f, NEW n \in Nat
  PROVE  IsFiniteSet({f} \X (1..n)) /\ Cardinality({f} \X (1..n)) = n
<1>1. PICK A, B : A = {f} /\ B = 1..n
  OBVIOUS
<1>2. IsFiniteSet(A) /\ Cardinality(A) = 1
  BY <1>1, FS_Singleton
<1>3. IsFiniteSet(B) /\ Cardinality(B) = n
  BY <1>1, FS_Interval
<1>4. IsFiniteSet(A \X B) /\ Cardinality(A \X B) = 1 * n
  BY <1>2, <1>3, FS_Product
<1> QED BY <1>1, <1>4

\* The bytes of finitely many files are finitely many.
LEMMA BytesAreFinite ==
  ASSUME NEW S, IsFiniteSet(S), NEW bytes, \A f \in S : bytes[f] \in Nat
  PROVE  IsFiniteSet(BytesOf(bytes, S)) /\ TotalBytes(bytes, S) \in Nat
<1> DEFINE One(f) == {f} \X (1..bytes[f])
           Ones == {One(f) : f \in S}
           g == [f \in S |-> One(f)]
<1>1. g \in Surjection(S, Ones)
  BY DEF Surjection
<1>2. IsFiniteSet(Ones)
  BY <1>1, FS_Surjection
<1>3. \A T \in Ones : IsFiniteSet(T)
  <2> SUFFICES ASSUME NEW f \in S PROVE IsFiniteSet(One(f))
    OBVIOUS
  <2> QED BY BytesOfAFile
<1>4. BytesOf(bytes, S) = UNION Ones
  BY DEF BytesOf
<1>5. IsFiniteSet(UNION Ones)
  <2> HIDE DEF Ones
  <2> QED BY <1>2, <1>3, FS_UNION
<1>6. IsFiniteSet(BytesOf(bytes, S))
  BY <1>4, <1>5
<1> QED BY <1>6, FS_CardinalityType DEF TotalBytes, BytesOf

\* What some of the files hold and what the others hold is what all hold.
LEMMA BytesAdd ==
  ASSUME NEW S, IsFiniteSet(S), NEW bytes, \A f \in S : bytes[f] \in Nat, NEW T \in SUBSET S
  PROVE  TotalBytes(bytes, S) = TotalBytes(bytes, T) + TotalBytes(bytes, S \ T)
<1>1. IsFiniteSet(T) /\ IsFiniteSet(S \ T)
  BY FS_Subset
<1>2. IsFiniteSet(BytesOf(bytes, T)) /\ IsFiniteSet(BytesOf(bytes, S \ T))
  BY <1>1, BytesAreFinite
<1>3. BytesOf(bytes, T) \cap BytesOf(bytes, S \ T) = {}
  BY DEF BytesOf
<1>4. BytesOf(bytes, S) = BytesOf(bytes, T) \cup BytesOf(bytes, S \ T)
  BY DEF BytesOf
<1>5. PICK A, B : A = BytesOf(bytes, T) /\ B = BytesOf(bytes, S \ T)
  OBVIOUS
<1>6. IsFiniteSet(A) /\ IsFiniteSet(B) /\ A \cap B = {}
  BY <1>2, <1>3, <1>5
<1>7. Cardinality(A) \in Nat /\ Cardinality(B) \in Nat
  BY <1>6, FS_CardinalityType
<1>8. Cardinality(A \cup B) = Cardinality(A) + Cardinality(B) - Cardinality(A \cap B)
  BY <1>6, FS_Union
<1>9. Cardinality(A \cup B) = Cardinality(A) + Cardinality(B)
  BY <1>6, <1>7, <1>8, FS_EmptySet
<1> QED BY <1>4, <1>5, <1>9 DEF TotalBytes, BytesOf

\* Only the files' own bytes matter.
LEMMA BytesSame ==
  ASSUME NEW S, NEW bytes, NEW others, \A f \in S : bytes[f] = others[f]
  PROVE  TotalBytes(bytes, S) = TotalBytes(others, S)
<1>1. {{f} \X (1..bytes[f]) : f \in S} = {{f} \X (1..others[f]) : f \in S}
  OBVIOUS
<1> QED BY <1>1 DEF TotalBytes

\* A file alone.
LEMMA BytesOfOne ==
  ASSUME NEW f, NEW bytes, bytes[f] \in Nat
  PROVE  TotalBytes(bytes, {f}) = bytes[f]
<1>1. UNION {{d} \X (1..bytes[d]) : d \in {f}} = {f} \X (1..bytes[f])
  OBVIOUS
<1>2. Cardinality({f} \X (1..bytes[f])) = bytes[f]
  BY BytesOfAFile
<1> QED BY <1>1, <1>2 DEF TotalBytes

\* One file changes, and the total by as much.
LEMMA BytesMove ==
  ASSUME NEW S, IsFiniteSet(S), NEW f \in S, NEW bytes, NEW others,
         \A d \in S : bytes[d] \in Nat /\ others[d] \in Nat,
         \A d \in S \ {f} : others[d] = bytes[d]
  PROVE  TotalBytes(others, S) = TotalBytes(bytes, S) + others[f] - bytes[f]
<1> {f} \in SUBSET S
  OBVIOUS
<1>1. TotalBytes(bytes, S) = bytes[f] + TotalBytes(bytes, S \ {f})
  <2>1. TotalBytes(bytes, S) = TotalBytes(bytes, {f}) + TotalBytes(bytes, S \ {f})
    BY BytesAdd
  <2> QED BY <2>1, BytesOfOne
<1>2. TotalBytes(others, S) = others[f] + TotalBytes(others, S \ {f})
  <2>1. TotalBytes(others, S) = TotalBytes(others, {f}) + TotalBytes(others, S \ {f})
    BY BytesAdd
  <2> QED BY <2>1, BytesOfOne
<1>3. TotalBytes(others, S \ {f}) = TotalBytes(bytes, S \ {f})
  BY BytesSame
<1>4. TotalBytes(bytes, S \ {f}) \in Nat
  BY FS_Subset, BytesAreFinite
<1> QED BY <1>1, <1>2, <1>3, <1>4

\* Files that go take with them what they held.
LEMMA BytesGo ==
  ASSUME NEW S, IsFiniteSet(S), NEW T \in SUBSET S, NEW bytes, NEW others,
         \A d \in S : bytes[d] \in Nat,
         \A d \in S : others[d] = (IF d \in T THEN 0 ELSE bytes[d])
  PROVE  TotalBytes(bytes, S) = TotalBytes(others, S) + TotalBytes(bytes, T)
<1>1. TotalBytes(bytes, S) = TotalBytes(bytes, T) + TotalBytes(bytes, S \ T)
  BY BytesAdd
<1>2. TotalBytes(others, S) = TotalBytes(others, T) + TotalBytes(others, S \ T)
  BY BytesAdd
<1>3. TotalBytes(others, S \ T) = TotalBytes(bytes, S \ T)
  BY BytesSame
<1>4. BytesOf(others, T) = {}
  BY DEF BytesOf
<1>5. TotalBytes(others, T) = 0
  BY <1>4, FS_EmptySet DEF TotalBytes, BytesOf
<1>6. TotalBytes(bytes, T) \in Nat /\ TotalBytes(bytes, S \ T) \in Nat
  BY FS_Subset, BytesAreFinite
<1> QED BY <1>1, <1>2, <1>3, <1>5, <1>6

-----------------------------------------------------------------------------
(* What is always true of the rows, the jobs, the logo and the objects.     *)

\* What a row's status says of the rest of it.
RowHolds(d) ==
  /\ d.status \in {"NONE", "PENDING", "PURGED"} => d.uploaded = FALSE
  /\ d.status \in {"UPLOADED", "READY"} => d.uploaded = TRUE
  /\ d.variant = TRUE <=> d.status = "READY"
  /\ d.status \in {"NONE", "PURGED"} => d.attached = FALSE /\ d.deleted = "no"

\* CountedBytes, of a row.
Counted(d) ==
  IF d.uploaded = FALSE THEN 0
  ELSE (IF d.status = "READY" THEN ImageSize ELSE Declared)
       + (IF d.variant = TRUE THEN ThumbSize ELSE 0)

\* A stored object of such a file may be missing: a purge has picked it as
\* expired, or it was released long ago, or its row is gone.
Doomed(f) ==
  \/ f \in picked
  \/ row[f].status = "PURGED"
  \/ row[f].deleted = "old"

CallsTyped ==
  /\ call \in [Completers -> [file : FileIds \cup {Nothing},
                              stage : {"idle", "head", "confirm", "reject", "drop"}]]
  /\ \A c \in Completers : call[c].stage # "idle" => call[c].file \in FileIds

ChangesTyped ==
  /\ change \in [Owners -> [stage : {"idle", "moving"}, from : FileIds \cup {Nothing},
                            to : FileIds \cup {Nothing}]]
  /\ \A o \in Owners : change[o].stage = "moving" => change[o].from # change[o].to

JobRow == [state : {"none", "waiting", "active", "finished"},
           holder : Workers \cup {Nothing},
           made : 0..MaxAttempts, stalls : 0..MaxStalls]
RunRow == [file : FileIds \cup {Nothing},
           stage : {"idle", "read", "put", "mark", "clean", "threw", "refused", "drop"},
           left : SUBSET Stored, last : BOOLEAN]
PurgeRow == [stage : {"idle", "public", "private", "rows"},
             what : {"unattached", "released"},
             files : SUBSET FileIds, bytes : [FileIds -> Nat],
             variants : SUBSET FileIds]

\* The lock of a job is held by a run of it that knows whether it is the last.
JobHolds(f) ==
  /\ job[f].holder # Nothing =>
       /\ job[f].state = "active"
       /\ run[job[f].holder].file = f
       /\ run[job[f].holder].stage # "idle"
       /\ run[job[f].holder].last = TRUE <=> job[f].made + 1 >= MaxAttempts
  /\ job[f].state = "active" => job[f].holder # Nothing
  /\ job[f].state \in {"waiting", "active"} => job[f].made < MaxAttempts
  /\ row[f].status \in {"NONE", "PENDING"} => job[f].state = "none"
  /\ job[f].state = "none" => job[f].made = 0

\* What a run says it has put is there.
RunHolds(w) ==
  /\ run[w].stage # "idle" => run[w].file \in FileIds
  /\ run[w].stage = "mark" => run[w].left = {}
  /\ run[w].stage \in {"put", "mark"} =>
       \A kind \in Stored \ run[w].left :
         <<run[w].file, kind>> \in objects \/ Doomed(run[w].file)

ReadyHasItsObjects(f) ==
  row[f].status = "READY" => Doomed(f) \/ \A kind \in Stored : <<f, kind>> \in objects

RowsInv ==
  /\ row \in [FileIds -> Row]
  /\ usage \in Nat
  /\ drifted \subseteq FileIds
  /\ \A f \in FileIds : RowHolds(row[f])
  /\ UsageIsExcused
  /\ QuotaHolds

JobsInv ==
  /\ job \in [FileIds -> JobRow]
  /\ run \in [Workers -> RunRow]
  /\ \A f \in FileIds : JobHolds(f)

OwnerInv ==
  /\ logo \in FileIds \cup {Nothing}
  /\ ChangesTyped
  /\ OwnerAndFileAgree

ObjectsInv ==
  /\ objects \subseteq FileIds \X Kinds
  /\ rightSize \subseteq FileIds
  /\ picked \subseteq FileIds
  /\ puts \in [FileIds -> 0..MaxPuts]
  /\ faults \in 0..MaxFaults
  /\ purge \in [Purgers -> PurgeRow]
  /\ \A p \in Purgers, f \in FileIds : f \in purge[p].files => Doomed(f)
  /\ \A p \in Purgers : purge[p].variants \subseteq purge[p].files
  /\ \A w \in Workers : RunHolds(w)
  /\ \A f \in FileIds : ReadyHasItsObjects(f)

FilesInv == RowsInv /\ JobsInv /\ OwnerInv /\ ObjectsInv /\ CallsTyped

LEMMA AllTotal ==
  CountedTotal = TotalBytes([f \in FileIds |-> Counted(row[f])], FileIds)
BY BytesSame DEF CountedTotal, CountedBytes, Counted

\* The rows before the first upload.
LEMMA RowsBegin == FilesInit => RowsInv
<1> SUFFICES ASSUME FilesInit PROVE RowsInv
  OBVIOUS
<1>1. /\ row \in [FileIds -> Row] /\ usage = 0 /\ drifted \subseteq FileIds
      /\ \A f \in FileIds : row[f] = NewRow
  BY DEF FilesInit, Row, NewRow, Status
<1>2. \A f \in FileIds : RowHolds(row[f]) /\ Counted(row[f]) = 0
  BY <1>1 DEF RowHolds, Counted, NewRow
<1>3. CountedTotal = 0
  <2> DEFINE all == [f \in FileIds |-> Counted(row[f])]
  <2>1. \A f \in FileIds : all[f] = 0
    BY <1>2
  <2>2. BytesOf(all, FileIds) = {}
    BY <2>1 DEF BytesOf
  <2>3. TotalBytes(all, FileIds) = 0
    BY <2>2, FS_EmptySet DEF TotalBytes, BytesOf
  <2> QED BY <2>3, AllTotal
<1> QED BY <1>1, <1>2, <1>3, FilesAssumption
        DEF RowsInv, UsageIsExcused, QuotaHolds, FilesAssumption

\* A row that holds counts a natural number of bytes.
LEMMA CountedIsNat ==
  ASSUME NEW d
  PROVE  Counted(d) \in Nat
BY FilesAssumption DEF Counted, FilesAssumption

\* One row changes, and usage by what that row counts more or less.
LEMMA RowMoves ==
  ASSUME RowsInv, NEW f \in FileIds, NEW d \in Row, RowHolds(d),
         row' = [row EXCEPT ![f] = d], drifted' = drifted,
         usage' \in Nat, usage' = usage + Counted(d) - Counted(row[f]),
         QuotaHolds'
  PROVE  RowsInv'
<1>1. /\ row' \in [FileIds -> Row] /\ \A e \in FileIds : RowHolds(row'[e])
      /\ row'[f] = d /\ \A e \in FileIds \ {f} : row'[e] = row[e]
  BY DEF RowsInv
<1>2. PICK old, new : /\ old = [e \in FileIds |-> Counted(row[e])]
                      /\ new = [e \in FileIds |-> Counted(row'[e])]
  OBVIOUS
<1>3. /\ \A e \in FileIds : old[e] \in Nat /\ new[e] \in Nat
      /\ \A e \in FileIds \ {f} : new[e] = old[e]
      /\ old[f] = Counted(row[f]) /\ new[f] = Counted(d)
  BY <1>1, <1>2, CountedIsNat
<1>4. TotalBytes(new, FileIds) = TotalBytes(old, FileIds) + new[f] - old[f]
  BY <1>3, BytesMove, FilesAssumption DEF FilesAssumption
<1>5. CountedTotal = TotalBytes(old, FileIds) /\ CountedTotal' = TotalBytes(new, FileIds)
  BY <1>2, AllTotal, BytesSame DEF CountedTotal, CountedBytes, Counted
<1>6. TotalBytes(old, FileIds) \in Nat
  BY <1>3, BytesAreFinite, FilesAssumption DEF FilesAssumption
<1>7. UsageIsExcused'
  BY <1>3, <1>4, <1>5, <1>6 DEF RowsInv, UsageIsExcused
<1> QED BY <1>1, <1>7 DEF RowsInv

\* The same when the row counts what it did.
LEMMA RowChanges ==
  ASSUME RowsInv, NEW f \in FileIds, NEW d \in Row, RowHolds(d),
         row' = [row EXCEPT ![f] = d], drifted' = drifted, usage' = usage,
         Counted(d) = Counted(row[f])
  PROVE  RowsInv'
<1>1. usage' \in Nat /\ usage' = usage + Counted(d) - Counted(row[f])
  BY CountedIsNat DEF RowsInv
<1>2. QuotaHolds'
  BY DEF RowsInv, QuotaHolds, Adjustment
<1> QED BY <1>1, <1>2, RowMoves

\* Nothing of the rows changes.
LEMMA RowsStay ==
  ASSUME RowsInv, row' = row, usage' = usage, drifted' = drifted
  PROVE  RowsInv'
<1>1. CountedTotal' = CountedTotal
  BY DEF CountedTotal, CountedBytes
<1> QED BY <1>1 DEF RowsInv, UsageIsExcused, QuotaHolds, Adjustment

LEMMA RejectionKeeps ==
  ASSUME RowsInv, NEW f \in FileIds, MarkRejected(f), usage' = usage, drifted' = drifted
  PROVE  RowsInv'
<1>1. CASE Visible(f) /\ row[f].status \in {"PENDING", "UPLOADED"}
  <2>1. PICK d : d = [row[f] EXCEPT !.status = "REJECTED"]
    OBVIOUS
  <2>2. row[f] \in Row /\ RowHolds(row[f])
    BY DEF RowsInv
  <2>3. d \in Row /\ RowHolds(d) /\ Counted(d) = Counted(row[f])
    BY <1>1, <2>1, <2>2 DEF Row, Status, RowHolds, Counted
  <2>4. row' = [row EXCEPT ![f] = d]
    BY <1>1, <2>1 DEF MarkRejected
  <2> QED BY <2>3, <2>4, RowChanges
<1>2. CASE ~(Visible(f) /\ row[f].status \in {"PENDING", "UPLOADED"})
  BY <1>2, RowsStay DEF MarkRejected
<1> QED BY <1>1, <1>2

\* The transaction of `complete` adds what its row then counts, within the
\* quota.
LEMMA ConfirmKeepsRows ==
  ASSUME RowsInv, CallsTyped, NEW c \in Completers, CompleteConfirms(c)
  PROVE  RowsInv'
<1> USE DEF ghostVars
<1>1. PICK f : f = call[c].file
  OBVIOUS
<1>2. f \in FileIds /\ row[f] \in Row /\ RowHolds(row[f])
  BY <1>1 DEF RowsInv, CallsTyped, CompleteConfirms
<1>3. drifted' = drifted
  BY DEF CompleteConfirms
<1>4. CASE StillPending(f) /\ MarkUploaded(f) /\ AddWithinQuota
  <2>1. PICK d : d = [row[f] EXCEPT !.status = "UPLOADED", !.uploaded = TRUE]
    OBVIOUS
  <2>2. d \in Row /\ RowHolds(d) /\ Counted(d) = Declared /\ Counted(row[f]) = 0
    <3>1. /\ d \in Row /\ d.status = "UPLOADED" /\ d.uploaded = TRUE
          /\ d.variant = row[f].variant /\ row[f].status = "PENDING"
      BY <1>2, <1>4, <2>1 DEF Row, Status, StillPending
    <3>2. row[f].variant # TRUE /\ row[f].uploaded = FALSE
      BY <1>2, <3>1 DEF RowHolds
    <3>3. Declared + 0 = Declared
      BY FilesAssumption DEF FilesAssumption
    <3> QED BY <3>1, <3>2, <3>3 DEF RowHolds, Counted
  <2>3. row' = [row EXCEPT ![f] = d]
    BY <1>2, <1>4, <2>1 DEF MarkUploaded, RowsInv
  <2>4. usage' = usage + Declared /\ usage' \in Nat /\ usage' <= Quota
    BY <1>4, FilesAssumption DEF AddWithinQuota, RowsInv, FilesAssumption
  <2>5. usage' = usage + Counted(d) - Counted(row[f])
    BY <2>2, <2>4, FilesAssumption DEF RowsInv, FilesAssumption
  <2> QED BY <1>2, <1>3, <2>2, <2>3, <2>4, <2>5, RowMoves DEF QuotaHolds
<1>5. CASE row' = row /\ usage' = usage
  BY <1>3, <1>5, RowsStay
<1> QED BY <1>1, <1>4, <1>5 DEF CompleteConfirms

\* Processing corrects usage by what its row then counts more or less.
LEMMA ReadyKeepsRows ==
  ASSUME RowsInv, ObjectsInv, NEW w \in Workers, MarkReady(w)
  PROVE  RowsInv'
<1> USE DEF ghostVars
<1>1. PICK f : f = run[w].file
  OBVIOUS
<1>2. f \in FileIds /\ row[f] \in Row /\ RowHolds(row[f]) /\ drifted' = drifted
  BY <1>1 DEF RowsInv, ObjectsInv, RunHolds, MarkReady
<1>3. CASE /\ Visible(f) /\ row[f].status = "UPLOADED" /\ ~(usage + Adjustment < 0)
           /\ row' = [row EXCEPT ![f].status = "READY", ![f].variant = TRUE]
           /\ usage' = usage + Adjustment
  <2>1. PICK d : d = [row[f] EXCEPT !.status = "READY", !.variant = TRUE]
    OBVIOUS
  <2>2. /\ d \in Row /\ RowHolds(d)
        /\ Counted(d) = ImageSize + ThumbSize /\ Counted(row[f]) = Declared
    <3>1. /\ d \in Row /\ d.status = "READY" /\ d.uploaded = row[f].uploaded
          /\ d.variant = TRUE /\ row[f].status = "UPLOADED"
      BY <1>2, <1>3, <2>1 DEF Row, Status
    <3>2. row[f].variant # TRUE /\ row[f].uploaded = TRUE
      BY <1>2, <3>1 DEF RowHolds
    <3>3. Declared + 0 = Declared
      BY FilesAssumption DEF FilesAssumption
    <3> QED BY <3>1, <3>2, <3>3 DEF RowHolds, Counted
  <2>3. row' = [row EXCEPT ![f] = d]
    BY <1>2, <1>3, <2>1 DEF RowsInv
  <2>4. usage \in Nat /\ Adjustment = ImageSize + ThumbSize - Declared
    BY DEF RowsInv, Adjustment
  <2>5. usage' \in Nat /\ usage' = usage + Counted(d) - Counted(row[f])
    BY <1>3, <2>2, <2>4, FilesAssumption DEF FilesAssumption
  <2>6. QuotaHolds'
    BY <1>3, <2>4, FilesAssumption DEF RowsInv, QuotaHolds, FilesAssumption, Adjustment
  <2> QED BY <1>2, <2>2, <2>3, <2>5, <2>6, RowMoves
<1>4. CASE row' = row /\ usage' = usage
  BY <1>2, <1>4, RowsStay
<1> QED BY <1>1, <1>3, <1>4 DEF MarkReady

\* What a purge gives back is what the rows it deleted counted, unless it says
\* that one of them had changed.
LEMMA PurgeKeepsRows ==
  ASSUME RowsInv, ObjectsInv, NEW p \in Purgers, PurgeRows(p)
  PROVE  RowsInv'
<1>1. PICK G, bytes, old, new :
        /\ G = DeletedRows(p) /\ bytes = purge[p].bytes
        /\ old = [e \in FileIds |-> Counted(row[e])]
        /\ new = [e \in FileIds |-> Counted(row'[e])]
  OBVIOUS
<1>2. /\ G \in SUBSET FileIds /\ \A e \in FileIds : bytes[e] \in Nat
      /\ \A f \in G : row[f].status # "PURGED"
  BY <1>1 DEF ObjectsInv, PurgeRow, DeletedRows, ExpiredUnattached, ReleasedLongAgo
<1>3. PICK gone : gone = [NewRow EXCEPT !.status = "PURGED"]
  OBVIOUS
<1>4. gone \in Row /\ RowHolds(gone) /\ Counted(gone) = 0
  BY <1>3 DEF Row, NewRow, Status, RowHolds, Counted
<1>5. /\ row' = [f \in FileIds |-> IF f \in G THEN gone ELSE row[f]]
      /\ usage' = Less(TotalBytes(bytes, G))
      /\ drifted' = drifted \cup {f \in G : row[f].status # "PURGED" /\ bytes[f] # CountedBytes(f)}
  BY <1>1, <1>3 DEF PurgeRows
<1>6. /\ row' \in [FileIds -> Row] /\ \A f \in FileIds : RowHolds(row'[f])
      /\ drifted' \subseteq FileIds
  BY <1>2, <1>4, <1>5 DEF RowsInv
<1>7. /\ \A e \in FileIds : old[e] \in Nat
      /\ \A e \in FileIds : new[e] = (IF e \in G THEN 0 ELSE old[e])
  BY <1>1, <1>4, <1>5, CountedIsNat
<1>8. TotalBytes(old, FileIds) = TotalBytes(new, FileIds) + TotalBytes(old, G)
  BY <1>2, <1>7, BytesGo, FilesAssumption DEF FilesAssumption
<1>9. \A e \in FileIds : new[e] \in Nat
  BY <1>7
<1>10. /\ TotalBytes(new, FileIds) \in Nat /\ TotalBytes(old, G) \in Nat
       /\ TotalBytes(bytes, G) \in Nat
  <2>1. IsFiniteSet(FileIds) /\ IsFiniteSet(G)
    BY <1>2, FS_Subset, FilesAssumption DEF FilesAssumption
  <2>2. TotalBytes(new, FileIds) \in Nat
    BY <1>9, <2>1, BytesAreFinite
  <2>3. TotalBytes(old, G) \in Nat
    BY <1>2, <1>7, <2>1, BytesAreFinite
  <2>4. TotalBytes(bytes, G) \in Nat
    BY <1>2, <2>1, BytesAreFinite
  <2> QED BY <2>2, <2>3, <2>4
<1>11. CountedTotal = TotalBytes(old, FileIds) /\ CountedTotal' = TotalBytes(new, FileIds)
  BY <1>1, AllTotal, BytesSame DEF CountedTotal, CountedBytes, Counted
<1>12. usage' \in Nat /\ usage' <= usage
  BY <1>5, <1>10 DEF Less, RowsInv
<1>13. QuotaHolds'
  BY <1>12, FilesAssumption DEF RowsInv, QuotaHolds, FilesAssumption, Adjustment
<1>14. UsageIsExcused'
  <2> SUFFICES ASSUME drifted' = {} PROVE usage' = CountedTotal'
    BY DEF UsageIsExcused
  <2>1. usage = CountedTotal
    BY <1>5 DEF RowsInv, UsageIsExcused
  <2>2. \A f \in G : bytes[f] = old[f]
    BY <1>1, <1>2, <1>5 DEF CountedBytes, Counted
  <2>3. TotalBytes(bytes, G) = TotalBytes(old, G)
    BY <2>2, BytesSame
  <2> QED BY <1>5, <1>8, <1>10, <1>11, <2>1, <2>3 DEF Less
<1> QED BY <1>6, <1>12, <1>13, <1>14 DEF RowsInv

\* A change of the logo leaves what its rows count.
LEMMA ChangeKeepsRows ==
  ASSUME RowsInv, OwnerInv, NEW o \in Owners, ChangeCommits(o)
  PROVE  RowsInv'
<1> USE DEF ghostVars
<1>1. CASE UNCHANGED <<logo, row>>
  BY <1>1, RowsStay DEF ChangeCommits
<1>2. CASE ~UNCHANGED <<logo, row>>
  <2>1. PICK from, to : from = change[o].from /\ to = change[o].to
    OBVIOUS
  <2>2. /\ LogoIs(from) /\ (to # Nothing => Attachable(to))
        /\ row' = [f \in FileIds |->
               IF f = to THEN [row[f] EXCEPT !.attached = TRUE, !.expires = "cleared"]
               ELSE IF f = from /\ row[f].deleted = "no"
                    THEN [row[f] EXCEPT !.deleted = "grace"]
                    ELSE row[f]]
        /\ usage' = usage /\ drifted' = drifted
    BY <1>2, <2>1 DEF ChangeCommits
  <2>3. \A f \in FileIds : /\ row'[f] \in Row /\ RowHolds(row'[f])
                           /\ Counted(row'[f]) = Counted(row[f])
    <3> SUFFICES ASSUME NEW f \in FileIds
                 PROVE  /\ row'[f] \in Row /\ RowHolds(row'[f])
                        /\ Counted(row'[f]) = Counted(row[f])
      OBVIOUS
    <3>1. row[f] \in Row /\ RowHolds(row[f])
      BY DEF RowsInv
    <3>2. CASE f = to
      <4>1. PICK d : d = [row[f] EXCEPT !.attached = TRUE, !.expires = "cleared"]
        OBVIOUS
      <4>2. row[f].status \notin {"NONE", "PURGED"}
        BY <2>2, <3>2, FilesAssumption DEF Attachable, Visible, FilesAssumption
      <4>3. d \in Row /\ RowHolds(d) /\ Counted(d) = Counted(row[f])
        BY <3>1, <4>1, <4>2 DEF Row, RowHolds, Counted
      <4> QED BY <2>2, <3>2, <4>1, <4>3
    <3>3. CASE f # to /\ f = from /\ row[f].deleted = "no"
      <4>1. PICK d : d = [row[f] EXCEPT !.deleted = "grace"]
        OBVIOUS
      <4>2. row[f].attached = TRUE
        BY <2>2, <3>3, <3>1, FilesAssumption
        DEF OwnerInv, OwnerAndFileAgree, LogoIs, FilesAssumption, Row
      <4>3. d \in Row /\ RowHolds(d) /\ Counted(d) = Counted(row[f])
        BY <3>1, <4>1, <4>2 DEF Row, RowHolds, Counted
      <4> QED BY <2>2, <3>3, <4>1, <4>3
    <3>4. CASE f # to /\ ~(f = from /\ row[f].deleted = "no")
      <4>1. row'[f] = row[f]
        BY <2>2, <3>4
      <4> QED BY <3>1, <4>1
    <3> QED BY <3>2, <3>3, <3>4
  <2>4. CountedTotal' = CountedTotal
    <3>1. PICK old, new : /\ old = [e \in FileIds |-> Counted(row[e])]
                          /\ new = [e \in FileIds |-> Counted(row'[e])]
      OBVIOUS
    <3>2. TotalBytes(old, FileIds) = TotalBytes(new, FileIds)
      BY <2>3, <3>1, BytesSame
    <3>3. CountedTotal' = TotalBytes(new, FileIds)
      BY <3>1, BytesSame DEF CountedTotal, CountedBytes, Counted
    <3> QED BY <3>1, <3>2, <3>3, AllTotal
  <2>5. row' \in [FileIds -> Row]
    BY <2>2, <2>3
  <2> QED BY <2>2, <2>3, <2>4, <2>5 DEF RowsInv, UsageIsExcused, QuotaHolds, Adjustment
<1> QED BY <1>1, <1>2

\* Every step keeps the rows and what is counted of them.
LEMMA StepKeepsRows == FilesInv /\ [FilesNext]_filesVars => RowsInv'
<1> SUFFICES ASSUME FilesInv, [FilesNext]_filesVars PROVE RowsInv'
  OBVIOUS
<1> RowsInv /\ JobsInv /\ OwnerInv /\ ObjectsInv /\ CallsTyped
  BY DEF FilesInv
<1> USE DEF ghostVars
<1>1. ASSUME NEW f \in FileIds, Start(f) \/ Expire(f) \/ GraceEnds(f) PROVE RowsInv'
  <2>1. PICK d : \/ Start(f) /\ d = [row[f] EXCEPT !.status = "PENDING"]
                 \/ Expire(f) /\ d = [row[f] EXCEPT !.expires = "past"]
                 \/ GraceEnds(f) /\ d = [row[f] EXCEPT !.deleted = "old"]
    BY <1>1
  <2>2. row[f] \in Row /\ RowHolds(row[f])
    BY DEF RowsInv
  <2>3. d \in Row /\ RowHolds(d) /\ Counted(d) = Counted(row[f])
    <3>1. CASE Start(f) /\ d = [row[f] EXCEPT !.status = "PENDING"]
      BY <2>2, <3>1 DEF Start, Row, Status, RowHolds, Counted
    <3>2. CASE Expire(f) /\ d = [row[f] EXCEPT !.expires = "past"]
      BY <2>2, <3>2 DEF Expire, Row, RowHolds, Counted
    <3>3. CASE GraceEnds(f) /\ d = [row[f] EXCEPT !.deleted = "old"]
      BY <2>2, <3>3 DEF GraceEnds, Row, RowHolds, Counted
    <3> QED BY <2>1, <3>1, <3>2, <3>3
  <2>4. row' = [row EXCEPT ![f] = d] /\ usage' = usage /\ drifted' = drifted
    BY <2>1, <2>2 DEF Start, Expire, GraceEnds, RowsInv
  <2> QED BY <2>3, <2>4, RowChanges
<1>2. ASSUME NEW c \in Completers, CompleteRejects(c) PROVE RowsInv'
  <2>1. call[c].file \in FileIds
    BY <1>2 DEF CompleteRejects, CallsTyped
  <2> QED BY <1>2, <2>1, RejectionKeeps DEF CompleteRejects
<1>3. ASSUME NEW w \in Workers, Reject(w) PROVE RowsInv'
  <2>1. run[w].file \in FileIds
    BY <1>3 DEF Reject, ObjectsInv, RunHolds
  <2> QED BY <1>3, <2>1, RejectionKeeps DEF Reject
<1>4. ASSUME row' = row, usage' = usage, drifted' = drifted PROVE RowsInv'
  BY <1>4, RowsStay
<1>5. ASSUME NEW f \in FileIds, ClientPuts(f) \/ \E dies \in BOOLEAN : Stall(f, dies) PROVE RowsInv'
  BY <1>4, <1>5 DEF ClientPuts, Stall
<1>6. ASSUME NEW c \in Completers,
             \/ \E f \in FileIds : CompleteReads(c, f)
             \/ CompleteHeads(c) \/ CompleteDrops(c) \/ CompleteFails(c)
      PROVE  RowsInv'
  BY <1>4, <1>6 DEF CompleteReads, CompleteHeads, CompleteDrops, CompleteFails
<1>7. ASSUME NEW o \in Owners, ChangeFails(o) \/ \E to \in FileIds \cup {Nothing} : ChangeReads(o, to)
      PROVE  RowsInv'
  BY <1>4, <1>7 DEF ChangeFails, ChangeReads
<1>8. ASSUME NEW w \in Workers,
             \/ \E f \in FileIds : Take(w, f)
             \/ ReadUpload(w) \/ \E kind \in Stored : PutObject(w, kind)
             \/ \E fails \in BOOLEAN : RemoveUpload(w, fails)
             \/ Retry(w) \/ RejectDrops(w) \/ ProcessFails(w) \/ RejectFails(w)
      PROVE  RowsInv'
  BY <1>4, <1>8 DEF Take, ReadUpload, PutObject, RemoveUpload, Retry, RejectDrops, ProcessFails,
     RejectFails
<1>9. ASSUME NEW p \in Purgers,
             \/ \E what \in {"unattached", "released"} : PurgeReads(p, what)
             \/ PurgeObjects(p) \/ PurgeFails(p)
      PROVE  RowsInv'
  BY <1>4, <1>9 DEF PurgeReads, PurgeObjects, PurgeFails
<1>10. CASE UNCHANGED filesVars
  BY <1>4, <1>10 DEF filesVars
<1> QED BY <1>1, <1>2, <1>3, <1>5, <1>6, <1>7, <1>8, <1>9, <1>10,
           ConfirmKeepsRows, ChangeKeepsRows, ReadyKeepsRows, PurgeKeepsRows
        DEF FilesNext, WorkerStep

\* A row that is new is what it was, a file that is doomed stays so, only
\* processing makes a row READY, and READY and REJECTED are final.
MakesReady(f) == \E w \in Workers : MarkReady(w) /\ run[w].file = f

RowGoesOn(f) ==
  /\ Doomed(f) => Doomed(f)'
  /\ row'[f].status \in {"NONE", "PENDING"} => row[f].status \in {"NONE", "PENDING"}
  /\ row'[f].status = "READY" =>
       row[f].status = "READY" \/ MakesReady(f)
  /\ row[f].status \in {"READY", "REJECTED"} => row'[f].status \in {row[f].status, "PURGED"}

LEMMA RowsThatStay ==
  ASSUME row' = row, picked \subseteq picked'
  PROVE  \A f \in FileIds : RowGoesOn(f)
BY DEF RowGoesOn, Doomed

\* One row moves on, by its status or by its clock.
LEMMA OneRowGoesOn ==
  ASSUME NEW f \in FileIds, NEW d, row \in [FileIds -> Row], row' = [row EXCEPT ![f] = d],
         picked' = picked,
         d.status \in {"NONE", "PENDING"} => row[f].status \in {"NONE", "PENDING"},
         row[f].status = "PURGED" => d.status = "PURGED",
         d.status = "READY" => row[f].status = "READY" \/ MakesReady(f),
         row[f].status \in {"READY", "REJECTED"} => d.status = row[f].status,
         row[f].deleted = "old" => d.deleted = "old"
  PROVE  \A e \in FileIds : RowGoesOn(e)
<1> SUFFICES ASSUME NEW e \in FileIds PROVE RowGoesOn(e)
  OBVIOUS
<1>1. CASE e = f
  <2>1. row'[e] = d
    BY <1>1
  <2> QED BY <1>1, <2>1 DEF RowGoesOn, Doomed
<1>2. CASE e # f
  <2>1. row'[e] = row[e]
    BY <1>2
  <2> QED BY <2>1 DEF RowGoesOn, Doomed
<1> QED BY <1>1, <1>2

LEMMA RejectionGoesOn ==
  ASSUME row \in [FileIds -> Row], NEW f \in FileIds, MarkRejected(f), picked' = picked
  PROVE  \A e \in FileIds : RowGoesOn(e)
<1>1. CASE Visible(f) /\ row[f].status \in {"PENDING", "UPLOADED"}
  <2>1. PICK d : d = [row[f] EXCEPT !.status = "REJECTED"]
    OBVIOUS
  <2>2. /\ d.status = "REJECTED" /\ d.deleted = row[f].deleted
        /\ row' = [row EXCEPT ![f] = d]
    BY <1>1, <2>1 DEF MarkRejected, Row
  <2> QED BY <1>1, <2>2, OneRowGoesOn
<1>2. CASE ~(Visible(f) /\ row[f].status \in {"PENDING", "UPLOADED"})
  BY <1>2, RowsThatStay DEF MarkRejected
<1> QED BY <1>1, <1>2

LEMMA ChangeGoesOn ==
  ASSUME FilesInv, NEW o \in Owners, ChangeCommits(o)
  PROVE  \A e \in FileIds : RowGoesOn(e)
<1>1. CASE UNCHANGED <<logo, row>>
  BY <1>1, RowsThatStay DEF ChangeCommits, ghostVars
<1>2. CASE ~UNCHANGED <<logo, row>>
  <2>1. PICK from, to : from = change[o].from /\ to = change[o].to
    OBVIOUS
  <2>2. /\ to # Nothing => Attachable(to)
        /\ row' = [f \in FileIds |->
               IF f = to THEN [row[f] EXCEPT !.attached = TRUE, !.expires = "cleared"]
               ELSE IF f = from /\ row[f].deleted = "no"
                    THEN [row[f] EXCEPT !.deleted = "grace"]
                    ELSE row[f]]
        /\ picked' = picked
    BY <1>2, <2>1 DEF ChangeCommits, ghostVars
  <2> SUFFICES ASSUME NEW f \in FileIds PROVE RowGoesOn(f)
    OBVIOUS
  <2>3. row[f] \in Row /\ f # Nothing
    BY FilesAssumption DEF FilesInv, RowsInv, FilesAssumption
  <2>4. CASE f = to
    <3>1. PICK d : d = [row[f] EXCEPT !.attached = TRUE, !.expires = "cleared"]
      OBVIOUS
    <3>2. row'[f] = d /\ d.status = row[f].status /\ d.deleted = row[f].deleted
      BY <2>2, <2>3, <2>4, <3>1 DEF Row
    <3> QED BY <2>2, <3>2 DEF RowGoesOn, Doomed
  <2>5. CASE f # to /\ f = from /\ row[f].deleted = "no"
    <3>1. PICK d : d = [row[f] EXCEPT !.deleted = "grace"]
      OBVIOUS
    <3>2. row'[f] = d /\ d.status = row[f].status
      BY <2>2, <2>3, <2>5, <3>1 DEF Row
    <3> QED BY <2>2, <2>5, <3>2 DEF RowGoesOn, Doomed
  <2>6. CASE f # to /\ ~(f = from /\ row[f].deleted = "no")
    <3>1. row'[f] = row[f]
      BY <2>2, <2>6
    <3> QED BY <2>2, <3>1 DEF RowGoesOn, Doomed
  <2> QED BY <2>4, <2>5, <2>6
<1> QED BY <1>1, <1>2

LEMMA PurgeGoesOn ==
  ASSUME NEW p \in Purgers, PurgeRows(p)
  PROVE  \A e \in FileIds : RowGoesOn(e)
<1>1. PICK G, gone : G = DeletedRows(p) /\ gone = [NewRow EXCEPT !.status = "PURGED"]
  OBVIOUS
<1>2. row' = [f \in FileIds |-> IF f \in G THEN gone ELSE row[f]] /\ picked' = picked
  BY <1>1 DEF PurgeRows
<1>3. gone.status = "PURGED"
  BY <1>1 DEF NewRow
<1> SUFFICES ASSUME NEW f \in FileIds PROVE RowGoesOn(f)
  OBVIOUS
<1>4. row'[f] = gone \/ row'[f] = row[f]
  BY <1>2
<1> QED BY <1>2, <1>3, <1>4 DEF RowGoesOn, Doomed

LEMMA RowsGoOn == FilesInv /\ [FilesNext]_filesVars => \A f \in FileIds : RowGoesOn(f)
<1> SUFFICES ASSUME FilesInv, [FilesNext]_filesVars PROVE \A f \in FileIds : RowGoesOn(f)
  OBVIOUS
<1> DEFINE Goal == \A f \in FileIds : RowGoesOn(f)
<1>a. row \in [FileIds -> Row]
  BY DEF FilesInv, RowsInv
<1>1. ASSUME NEW f \in FileIds, Start(f) \/ Expire(f) \/ GraceEnds(f) PROVE Goal
  <2>1. PICK d : \/ Start(f) /\ d = [row[f] EXCEPT !.status = "PENDING"]
                 \/ Expire(f) /\ d = [row[f] EXCEPT !.expires = "past"]
                 \/ GraceEnds(f) /\ d = [row[f] EXCEPT !.deleted = "old"]
    BY <1>1
  <2>2. row[f] \in Row /\ row' = [row EXCEPT ![f] = d] /\ picked' = picked
    BY <1>a, <2>1 DEF Start, Expire, GraceEnds, ghostVars
  <2>3. CASE Start(f) /\ d = [row[f] EXCEPT !.status = "PENDING"]
    <3>1. /\ d.status = "PENDING" /\ d.deleted = row[f].deleted
          /\ row[f].status = "NONE"
      BY <2>2, <2>3 DEF Row, Start
    <3> QED BY <1>a, <2>2, <3>1, OneRowGoesOn
  <2>4. CASE Expire(f) /\ d = [row[f] EXCEPT !.expires = "past"]
    <3>1. d.status = row[f].status /\ d.deleted = row[f].deleted
      BY <2>2, <2>4 DEF Row
    <3> QED BY <1>a, <2>2, <3>1, OneRowGoesOn
  <2>5. CASE GraceEnds(f) /\ d = [row[f] EXCEPT !.deleted = "old"]
    <3>1. d.status = row[f].status /\ d.deleted = "old"
      BY <2>2, <2>5 DEF Row
    <3> QED BY <1>a, <2>2, <3>1, OneRowGoesOn
  <2> QED BY <2>1, <2>3, <2>4, <2>5
<1>2. ASSUME NEW c \in Completers, CompleteRejects(c) PROVE Goal
  <2>1. call[c].file \in FileIds /\ picked' = picked
    BY <1>2 DEF CompleteRejects, FilesInv, CallsTyped, ghostVars
  <2> QED BY <1>a, <1>2, <2>1, RejectionGoesOn DEF CompleteRejects
<1>3. ASSUME NEW w \in Workers, Reject(w) PROVE Goal
  <2>1. run[w].file \in FileIds /\ picked' = picked
    BY <1>3 DEF Reject, FilesInv, ObjectsInv, RunHolds, ghostVars
  <2> QED BY <1>a, <1>3, <2>1, RejectionGoesOn DEF Reject
<1>4. ASSUME row' = row, picked \subseteq picked' PROVE Goal
  BY <1>4, RowsThatStay
<1>5. ASSUME NEW f \in FileIds, ClientPuts(f) \/ \E dies \in BOOLEAN : Stall(f, dies) PROVE Goal
  BY <1>4, <1>5 DEF ClientPuts, Stall, ghostVars
<1>6. ASSUME NEW c \in Completers,
             \/ \E f \in FileIds : CompleteReads(c, f)
             \/ CompleteHeads(c) \/ CompleteDrops(c) \/ CompleteFails(c)
      PROVE  Goal
  BY <1>4, <1>6 DEF CompleteReads, CompleteHeads, CompleteDrops, CompleteFails, ghostVars
<1>7. ASSUME NEW o \in Owners, ChangeFails(o) \/ \E to \in FileIds \cup {Nothing} : ChangeReads(o, to)
      PROVE  Goal
  BY <1>4, <1>7 DEF ChangeFails, ChangeReads, ghostVars
<1>8. ASSUME NEW w \in Workers,
             \/ \E f \in FileIds : Take(w, f)
             \/ ReadUpload(w) \/ \E kind \in Stored : PutObject(w, kind)
             \/ \E fails \in BOOLEAN : RemoveUpload(w, fails)
             \/ Retry(w) \/ RejectDrops(w) \/ ProcessFails(w) \/ RejectFails(w)
      PROVE  Goal
  BY <1>4, <1>8 DEF Take, ReadUpload, PutObject, RemoveUpload, Retry, RejectDrops, ProcessFails,
     RejectFails, ghostVars
<1>9. ASSUME NEW p \in Purgers,
             \/ \E what \in {"unattached", "released"} : PurgeReads(p, what)
             \/ PurgeObjects(p) \/ PurgeFails(p)
      PROVE  Goal
  BY <1>4, <1>9 DEF PurgeReads, PurgeObjects, PurgeFails, ghostVars
<1>10. CASE UNCHANGED filesVars
  BY <1>4, <1>10 DEF filesVars, ghostVars
<1>11. ASSUME NEW c \in Completers, CompleteConfirms(c) PROVE Goal
  <2>1. PICK f : f = call[c].file
    OBVIOUS
  <2>2. f \in FileIds /\ row[f] \in Row /\ picked' = picked
    BY <1>a, <1>11, <2>1 DEF CompleteConfirms, FilesInv, CallsTyped, ghostVars
  <2>3. CASE StillPending(f) /\ MarkUploaded(f)
    <3>1. PICK d : d = [row[f] EXCEPT !.status = "UPLOADED", !.uploaded = TRUE]
      OBVIOUS
    <3>2. /\ row' = [row EXCEPT ![f] = d]
          /\ d.status = "UPLOADED" /\ d.deleted = row[f].deleted
          /\ row[f].status = "PENDING"
      BY <1>a, <2>2, <2>3, <3>1 DEF MarkUploaded, StillPending, Row
    <3> QED BY <1>a, <2>2, <3>2, OneRowGoesOn
  <2>4. CASE row' = row
    BY <1>4, <2>2, <2>4
  <2> QED BY <1>11, <2>1, <2>3, <2>4 DEF CompleteConfirms
<1>12. ASSUME NEW w \in Workers, MarkReady(w) PROVE Goal
  <2>1. PICK f : f = run[w].file
    OBVIOUS
  <2>2. f \in FileIds /\ row[f] \in Row /\ picked' = picked
    BY <1>a, <1>12, <2>1 DEF MarkReady, FilesInv, ObjectsInv, RunHolds, ghostVars
  <2>3. CASE /\ row[f].status = "UPLOADED"
             /\ row' = [row EXCEPT ![f].status = "READY", ![f].variant = TRUE]
    <3>1. PICK d : d = [row[f] EXCEPT !.status = "READY", !.variant = TRUE]
      OBVIOUS
    <3>2. /\ row' = [row EXCEPT ![f] = d]
          /\ d.status = "READY" /\ d.deleted = row[f].deleted
          /\ row[f].status = "UPLOADED"
      BY <1>a, <2>2, <2>3, <3>1 DEF Row
    <3>3. MakesReady(f)
      BY <1>12, <2>1 DEF MakesReady
    <3> QED BY <1>a, <2>2, <3>2, <3>3, OneRowGoesOn
  <2>4. CASE row' = row
    BY <1>4, <2>2, <2>4
  <2> QED BY <1>12, <2>1, <2>3, <2>4 DEF MarkReady
<1> QED BY <1>1, <1>2, <1>3, <1>5, <1>6, <1>7, <1>8, <1>9, <1>10, <1>11, <1>12,
           ChangeGoesOn, PurgeGoesOn
        DEF FilesNext, WorkerStep

\* The file is shown by the workspace.
InUse(f) == row[f].attached = TRUE /\ row[f].deleted = "no"

LEMMA AgreeIsInUse ==
  ASSUME row \in [FileIds -> Row], logo \in FileIds \cup {Nothing}
  PROVE  OwnerAndFileAgree <=> \A f \in FileIds : InUse(f) <=> f = logo
<1>1. \A f \in FileIds : row[f].attached \in BOOLEAN
  BY DEF Row
<1>2. Nothing \notin FileIds
  BY FilesAssumption DEF FilesAssumption
<1> QED BY <1>1, <1>2 DEF OwnerAndFileAgree, InUse

LEMMA OwnerStays ==
  ASSUME OwnerInv, row \in [FileIds -> Row], row' \in [FileIds -> Row],
         logo' = logo, ChangesTyped',
         \A f \in FileIds : InUse(f)' <=> InUse(f)
  PROVE  OwnerInv'
<1>1. logo \in FileIds \cup {Nothing}
  BY DEF OwnerInv
<1>2. \A f \in FileIds : InUse(f) <=> f = logo
  BY <1>1, AgreeIsInUse DEF OwnerInv
<1>3. \A f \in FileIds : InUse(f)' <=> f = logo'
  BY <1>2
<1>4. OwnerAndFileAgree'
  <2>1. \A f \in FileIds : row'[f].attached \in BOOLEAN
    BY DEF Row
  <2>2. Nothing \notin FileIds
    BY FilesAssumption DEF FilesAssumption
  <2> QED BY <1>1, <1>3, <2>1, <2>2 DEF OwnerAndFileAgree, InUse
<1> QED BY <1>1, <1>4 DEF OwnerInv

\* A change that finds the logo it read attaches the one file and releases
\* the other.
LEMMA ChangeKeepsOwner ==
  ASSUME FilesInv, NEW o \in Owners, ChangeCommits(o), row' \in [FileIds -> Row]
  PROVE  OwnerInv'
<1> RowsInv /\ OwnerInv
  BY DEF FilesInv
<1>1. ChangesTyped'
  BY DEF ChangeCommits, OwnerInv, ChangesTyped, NoChange
<1>2. CASE UNCHANGED <<logo, row>>
  BY <1>1, <1>2, OwnerStays DEF InUse, RowsInv
<1>3. CASE ~UNCHANGED <<logo, row>>
  <2>1. PICK from, to : from = change[o].from /\ to = change[o].to
    OBVIOUS
  <2>2. /\ logo = from /\ (to # Nothing => Attachable(to)) /\ logo' = to
        /\ row' = [f \in FileIds |->
               IF f = to THEN [row[f] EXCEPT !.attached = TRUE, !.expires = "cleared"]
               ELSE IF f = from /\ row[f].deleted = "no"
                    THEN [row[f] EXCEPT !.deleted = "grace"]
                    ELSE row[f]]
    BY <1>3, <2>1 DEF ChangeCommits, LogoIs
  <2>3. to \in FileIds \cup {Nothing} /\ from # to
    BY <2>1 DEF OwnerInv, ChangesTyped, ChangeCommits
  <2>4. \A f \in FileIds : InUse(f) <=> f = from
    BY <2>2, AgreeIsInUse DEF OwnerInv, RowsInv
  <2>5. \A f \in FileIds : InUse(f)' <=> f = to
    <3> SUFFICES ASSUME NEW f \in FileIds PROVE InUse(f)' <=> f = to
      OBVIOUS
    <3>1. row[f] \in Row /\ f # Nothing
      BY FilesAssumption DEF RowsInv, FilesAssumption
    <3>2. CASE f = to
      <4>1. PICK d : d = [row[f] EXCEPT !.attached = TRUE, !.expires = "cleared"]
        OBVIOUS
      <4>2. d.attached = TRUE /\ d.deleted = row[f].deleted
        BY <3>1, <4>1 DEF Row
      <4>3. row[f].deleted = "no"
        BY <2>2, <3>1, <3>2 DEF Attachable, Visible
      <4> QED BY <2>2, <3>2, <4>1, <4>2, <4>3 DEF InUse
    <3>3. CASE f # to /\ f = from
      <4>1. PICK d : d = [row[f] EXCEPT !.deleted = "grace"]
        OBVIOUS
      <4>2. d.deleted = "grace"
        BY <3>1, <4>1 DEF Row
      <4>3. row[f].deleted = "no"
        BY <2>4, <3>3 DEF InUse
      <4> QED BY <2>2, <3>3, <4>1, <4>2, <4>3 DEF InUse
    <3>4. CASE f # to /\ f # from
      <4>1. row'[f] = row[f]
        BY <2>2, <3>4
      <4> QED BY <2>4, <3>4, <4>1 DEF InUse
    <3> QED BY <3>2, <3>3, <3>4
  <2>6. OwnerAndFileAgree'
    <3>1. \A f \in FileIds : row'[f].attached \in BOOLEAN
      BY DEF Row
    <3>2. Nothing \notin FileIds
      BY FilesAssumption DEF FilesAssumption
    <3> QED BY <2>2, <2>3, <2>5, <3>1, <3>2 DEF OwnerAndFileAgree, InUse
  <2> QED BY <1>1, <2>2, <2>3, <2>6 DEF OwnerInv
<1> QED BY <1>2, <1>3

\* A purge takes no file in use, so the logo is left.
LEMMA PurgeKeepsOwner ==
  ASSUME FilesInv, NEW p \in Purgers, PurgeRows(p), row' \in [FileIds -> Row]
  PROVE  OwnerInv'
<1> RowsInv /\ OwnerInv
  BY DEF FilesInv
<1>1. PICK G, gone : G = DeletedRows(p) /\ gone = [NewRow EXCEPT !.status = "PURGED"]
  OBVIOUS
<1>2. /\ row' = [f \in FileIds |-> IF f \in G THEN gone ELSE row[f]]
      /\ logo' = (IF logo \in G THEN Nothing ELSE logo)
      /\ change' = change
  BY <1>1 DEF PurgeRows
<1>3. gone.attached = FALSE
  BY <1>1 DEF NewRow
<1>4. \A f \in FileIds : f \in G => ~InUse(f)
  BY <1>1 DEF DeletedRows, ExpiredUnattached, ReleasedLongAgo, InUse
<1>5. G \subseteq FileIds
  BY <1>1 DEF DeletedRows, FilesInv, ObjectsInv, PurgeRow
<1>6. \A f \in FileIds : InUse(f)' <=> InUse(f)
  <2> SUFFICES ASSUME NEW f \in FileIds PROVE InUse(f)' <=> InUse(f)
    OBVIOUS
  <2>1. CASE f \in G
    <3>1. row'[f] = gone
      BY <1>2, <2>1
    <3> QED BY <1>3, <1>4, <2>1, <3>1 DEF InUse
  <2>2. CASE f \notin G
    <3>1. row'[f] = row[f]
      BY <1>2, <2>2
    <3> QED BY <3>1 DEF InUse
  <2> QED BY <2>1, <2>2
<1>7. logo' = logo
  <2>1. \A f \in FileIds : InUse(f) <=> f = logo
    BY AgreeIsInUse DEF OwnerInv, RowsInv
  <2> QED BY <1>2, <1>4, <1>5, <2>1
<1>8. ChangesTyped'
  BY <1>2 DEF OwnerInv, ChangesTyped
<1> QED BY <1>2, <1>6, <1>7, <1>8, OwnerStays DEF RowsInv

\* Of one row only what is neither its owner nor its release changes.
LEMMA OneRowOwner ==
  ASSUME OwnerInv, row \in [FileIds -> Row], row' \in [FileIds -> Row],
         NEW f \in FileIds, NEW d, row' = [row EXCEPT ![f] = d],
         d.attached = row[f].attached, d.deleted = "no" <=> row[f].deleted = "no",
         logo' = logo, change' = change
  PROVE  OwnerInv'
<1>1. \A e \in FileIds : InUse(e)' <=> InUse(e)
  <2> SUFFICES ASSUME NEW e \in FileIds PROVE InUse(e)' <=> InUse(e)
    OBVIOUS
  <2>1. row'[e] = (IF e = f THEN d ELSE row[e])
    OBVIOUS
  <2> QED BY <2>1 DEF InUse
<1>2. ChangesTyped'
  BY DEF OwnerInv, ChangesTyped
<1> QED BY <1>1, <1>2, OwnerStays

LEMMA RejectionOwner ==
  ASSUME OwnerInv, row \in [FileIds -> Row], row' \in [FileIds -> Row],
         NEW f \in FileIds, MarkRejected(f), logo' = logo, change' = change
  PROVE  OwnerInv'
<1>1. CASE Visible(f) /\ row[f].status \in {"PENDING", "UPLOADED"}
  <2>1. PICK d : d = [row[f] EXCEPT !.status = "REJECTED"]
    OBVIOUS
  <2>2. /\ d.attached = row[f].attached /\ d.deleted = row[f].deleted
        /\ row' = [row EXCEPT ![f] = d]
    BY <1>1, <2>1 DEF MarkRejected, Row
  <2> QED BY <2>2, OneRowOwner
<1>2. CASE ~(Visible(f) /\ row[f].status \in {"PENDING", "UPLOADED"})
  <2>1. row' = row /\ ChangesTyped'
    BY <1>2 DEF MarkRejected, OwnerInv, ChangesTyped
  <2> QED BY <2>1, OwnerStays DEF InUse
<1> QED BY <1>1, <1>2

LEMMA StepKeepsOwner == FilesInv /\ [FilesNext]_filesVars => OwnerInv'
<1> SUFFICES ASSUME FilesInv, [FilesNext]_filesVars PROVE OwnerInv'
  OBVIOUS
<1>a. /\ row \in [FileIds -> Row] /\ row' \in [FileIds -> Row] /\ OwnerInv
  BY StepKeepsRows DEF FilesInv, RowsInv
<1>1. ASSUME NEW f \in FileIds, Start(f) \/ Expire(f) \/ GraceEnds(f) PROVE OwnerInv'
  <2>1. PICK d : \/ Start(f) /\ d = [row[f] EXCEPT !.status = "PENDING"]
                 \/ Expire(f) /\ d = [row[f] EXCEPT !.expires = "past"]
                 \/ GraceEnds(f) /\ d = [row[f] EXCEPT !.deleted = "old"]
    BY <1>1
  <2>2. /\ row[f] \in Row /\ row' = [row EXCEPT ![f] = d]
        /\ logo' = logo /\ change' = change
    BY <1>a, <2>1 DEF Start, Expire, GraceEnds, ownerVars
  <2>3. d.attached = row[f].attached /\ (d.deleted = "no" <=> row[f].deleted = "no")
    BY <2>1, <2>2 DEF Row, GraceEnds
  <2> QED BY <1>a, <2>2, <2>3, OneRowOwner
<1>2. ASSUME NEW c \in Completers, CompleteRejects(c) PROVE OwnerInv'
  <2>1. call[c].file \in FileIds /\ logo' = logo /\ change' = change
    BY <1>2 DEF CompleteRejects, FilesInv, CallsTyped, ownerVars
  <2> QED BY <1>a, <1>2, <2>1, RejectionOwner DEF CompleteRejects
<1>3. ASSUME NEW w \in Workers, Reject(w) PROVE OwnerInv'
  <2>1. run[w].file \in FileIds /\ logo' = logo /\ change' = change
    BY <1>3 DEF Reject, FilesInv, ObjectsInv, RunHolds, ownerVars
  <2> QED BY <1>a, <1>3, <2>1, RejectionOwner DEF Reject
<1>4. ASSUME row' = row, logo' = logo, change' = change PROVE OwnerInv'
  BY <1>a, <1>4, OwnerStays DEF InUse, OwnerInv, ChangesTyped
<1>5. ASSUME NEW f \in FileIds, ClientPuts(f) \/ \E dies \in BOOLEAN : Stall(f, dies) PROVE OwnerInv'
  BY <1>4, <1>5 DEF ClientPuts, Stall, ownerVars
<1>6. ASSUME NEW c \in Completers,
             \/ \E f \in FileIds : CompleteReads(c, f)
             \/ CompleteHeads(c) \/ CompleteDrops(c) \/ CompleteFails(c)
      PROVE  OwnerInv'
  BY <1>4, <1>6 DEF CompleteReads, CompleteHeads, CompleteDrops, CompleteFails, ownerVars
<1>7. ASSUME NEW o \in Owners, ChangeFails(o) \/ \E to \in FileIds \cup {Nothing} : ChangeReads(o, to)
      PROVE  OwnerInv'
  <2>1. row' = row /\ logo' = logo
    BY <1>7 DEF ChangeFails, ChangeReads
  <2>2. ChangesTyped'
    <3>1. CASE ChangeFails(o)
      BY <1>a, <3>1 DEF ChangeFails, ChangesTyped, NoChange, OwnerInv
    <3>2. ASSUME NEW to \in FileIds \cup {Nothing}, ChangeReads(o, to) PROVE ChangesTyped'
      BY <1>a, <3>2 DEF ChangeReads, ChangesTyped, OwnerInv
    <3> QED BY <1>7, <3>1, <3>2
  <2> QED BY <1>a, <2>1, <2>2, OwnerStays DEF InUse
<1>8. ASSUME NEW w \in Workers,
             \/ \E f \in FileIds : Take(w, f)
             \/ ReadUpload(w) \/ \E kind \in Stored : PutObject(w, kind)
             \/ \E fails \in BOOLEAN : RemoveUpload(w, fails)
             \/ Retry(w) \/ RejectDrops(w) \/ ProcessFails(w) \/ RejectFails(w)
      PROVE  OwnerInv'
  BY <1>4, <1>8 DEF Take, ReadUpload, PutObject, RemoveUpload, Retry, RejectDrops, ProcessFails,
     RejectFails, ownerVars
<1>9. ASSUME NEW p \in Purgers,
             \/ \E what \in {"unattached", "released"} : PurgeReads(p, what)
             \/ PurgeObjects(p) \/ PurgeFails(p)
      PROVE  OwnerInv'
  BY <1>4, <1>9 DEF PurgeReads, PurgeObjects, PurgeFails, ownerVars
<1>10. CASE UNCHANGED filesVars
  BY <1>4, <1>10 DEF filesVars, ownerVars
<1>11. ASSUME NEW c \in Completers, CompleteConfirms(c) PROVE OwnerInv'
  <2>1. PICK f : f = call[c].file
    OBVIOUS
  <2>2. f \in FileIds /\ row[f] \in Row /\ logo' = logo /\ change' = change
    BY <1>a, <1>11, <2>1 DEF CompleteConfirms, FilesInv, CallsTyped, ownerVars
  <2>3. CASE MarkUploaded(f)
    <3>1. PICK d : d = [row[f] EXCEPT !.status = "UPLOADED", !.uploaded = TRUE]
      OBVIOUS
    <3>2. /\ row' = [row EXCEPT ![f] = d]
          /\ d.attached = row[f].attached /\ d.deleted = row[f].deleted
      BY <1>a, <2>2, <2>3, <3>1 DEF MarkUploaded, Row
    <3> QED BY <1>a, <2>2, <3>2, OneRowOwner
  <2>4. CASE row' = row
    BY <1>4, <2>2, <2>4
  <2> QED BY <1>11, <2>1, <2>3, <2>4 DEF CompleteConfirms
<1>12. ASSUME NEW w \in Workers, MarkReady(w) PROVE OwnerInv'
  <2>1. PICK f : f = run[w].file
    OBVIOUS
  <2>2. f \in FileIds /\ row[f] \in Row /\ logo' = logo /\ change' = change
    BY <1>a, <1>12, <2>1 DEF MarkReady, FilesInv, ObjectsInv, RunHolds, ownerVars
  <2>3. CASE row' = [row EXCEPT ![f].status = "READY", ![f].variant = TRUE]
    <3>1. PICK d : d = [row[f] EXCEPT !.status = "READY", !.variant = TRUE]
      OBVIOUS
    <3>2. /\ row' = [row EXCEPT ![f] = d]
          /\ d.attached = row[f].attached /\ d.deleted = row[f].deleted
      BY <1>a, <2>2, <2>3, <3>1 DEF Row
    <3> QED BY <1>a, <2>2, <3>2, OneRowOwner
  <2>4. CASE row' = row
    BY <1>4, <2>2, <2>4
  <2> QED BY <1>12, <2>1, <2>3, <2>4 DEF MarkReady
<1> QED BY <1>a, <1>1, <1>2, <1>3, <1>5, <1>6, <1>7, <1>8, <1>9, <1>10, <1>11, <1>12,
           ChangeKeepsOwner, PurgeKeepsOwner
        DEF FilesNext, WorkerStep

LEMMA StepKeepsCalls == FilesInv /\ [FilesNext]_filesVars => CallsTyped'
<1> SUFFICES ASSUME FilesInv, [FilesNext]_filesVars PROVE CallsTyped'
  OBVIOUS
<1>a. CallsTyped
  BY DEF FilesInv
<1>1. ASSUME call' = call PROVE CallsTyped'
  BY <1>a, <1>1 DEF CallsTyped
<1>2. ASSUME NEW c \in Completers,
             \/ \E f \in FileIds : CompleteReads(c, f)
             \/ CompleteHeads(c) \/ CompleteConfirms(c)
             \/ CompleteRejects(c) \/ CompleteDrops(c) \/ CompleteFails(c)
      PROVE  CallsTyped'
  <2>1. PICK d : d = call'[c]
    OBVIOUS
  <2>2. call' = [call EXCEPT ![c] = d]
    BY <1>2, <1>a, <2>1 DEF CallsTyped, CompleteReads, CompleteHeads, CompleteConfirms,
       CompleteRejects, CompleteDrops, CompleteFails
  <2>3. d = Resting \/ /\ d.stage \in {"head", "confirm", "reject", "drop"}
                       /\ d.file \in FileIds /\ d = [file |-> d.file, stage |-> d.stage]
    <3>1. CASE \E f \in FileIds : CompleteReads(c, f)
      BY <3>1, <1>a, <2>1 DEF CallsTyped, CompleteReads
    <3>2. CASE CompleteHeads(c)
      BY <3>2, <1>a, <2>1 DEF CallsTyped, CompleteHeads
    <3>3. CASE CompleteConfirms(c) \/ CompleteDrops(c) \/ CompleteFails(c)
      BY <3>3, <1>a, <2>1 DEF CallsTyped, CompleteConfirms, CompleteDrops, CompleteFails
    <3>4. CASE CompleteRejects(c)
      BY <3>4, <1>a, <2>1 DEF CallsTyped, CompleteRejects
    <3> QED BY <1>2, <3>1, <3>2, <3>3, <3>4
  <2>4. d \in [file : FileIds \cup {Nothing},
               stage : {"idle", "head", "confirm", "reject", "drop"}]
    BY <2>3 DEF Resting
  <2>5. d.stage # "idle" => d.file \in FileIds
    BY <2>3 DEF Resting
  <2> QED BY <1>a, <2>2, <2>4, <2>5 DEF CallsTyped
<1>3. ASSUME NEW f \in FileIds, \/ Start(f) \/ ClientPuts(f) \/ Expire(f) \/ GraceEnds(f)
                                \/ \E dies \in BOOLEAN : Stall(f, dies)
      PROVE  CallsTyped'
  BY <1>1, <1>3 DEF Start, ClientPuts, Expire, GraceEnds, Stall
<1>4. ASSUME NEW o \in Owners, \/ ChangeCommits(o) \/ ChangeFails(o)
                               \/ \E to \in FileIds \cup {Nothing} : ChangeReads(o, to)
      PROVE  CallsTyped'
  BY <1>1, <1>4 DEF ChangeCommits, ChangeFails, ChangeReads
<1>5. ASSUME NEW w \in Workers,
             \/ \E f \in FileIds : Take(w, f)
             \/ WorkerStep(w) \/ RemoveUpload(w, TRUE) \/ ProcessFails(w) \/ RejectFails(w)
      PROVE  CallsTyped'
  BY <1>1, <1>5 DEF Take, WorkerStep, ReadUpload, PutObject, MarkReady, RemoveUpload, Retry, Reject,
     RejectDrops, ProcessFails, RejectFails
<1>6. ASSUME NEW p \in Purgers,
             \/ \E what \in {"unattached", "released"} : PurgeReads(p, what)
             \/ PurgeObjects(p) \/ PurgeRows(p) \/ PurgeFails(p)
      PROVE  CallsTyped'
  BY <1>1, <1>6 DEF PurgeReads, PurgeObjects, PurgeRows, PurgeFails
<1>7. CASE UNCHANGED filesVars
  BY <1>1, <1>7 DEF filesVars
<1> QED BY <1>2, <1>3, <1>4, <1>5, <1>6, <1>7 DEF FilesNext

-----------------------------------------------------------------------------
(* The jobs.                                                                *)

\* What is known of a job alone, and of a run alone.
JobAlone(j) ==
  /\ j.state = "active" <=> j.holder # Nothing
  /\ j.state \in {"waiting", "active"} => j.made < MaxAttempts
  /\ j.state = "none" => j.made = 0

Holds(w, f) ==
  /\ run[w].file = f /\ run[w].stage # "idle"
  /\ run[w].last = TRUE <=> job[f].made + 1 >= MaxAttempts

LEMMA JobsHold ==
  ASSUME job \in [FileIds -> JobRow]
  PROVE  \A f \in FileIds : JobHolds(f) <=>
           /\ JobAlone(job[f])
           /\ row[f].status \in {"NONE", "PENDING"} => job[f].state = "none"
           /\ job[f].holder # Nothing => Holds(job[f].holder, f)
BY DEF JobHolds, JobAlone, Holds, JobRow

\* A step of a run that goes on, and of nothing else.
LEMMA RunMoves ==
  ASSUME JobsInv, \A f \in FileIds : RowGoesOn(f),
         NEW w \in Workers, NEW r \in RunRow, run' = [run EXCEPT ![w] = r], job' = job,
         r.file = run[w].file, r.last = run[w].last, r.stage # "idle"
  PROVE  JobsInv'
<1>1. run' \in [Workers -> RunRow] /\ job' \in [FileIds -> JobRow]
  BY DEF JobsInv
<1>2. ASSUME NEW f \in FileIds PROVE JobHolds(f)'
  <2>1. JobHolds(f) /\ RowGoesOn(f)
    BY DEF JobsInv
  <2>2. job[f].holder \in Workers \cup {Nothing}
    BY DEF JobsInv, JobRow
  <2>3. \A v \in Workers : run'[v] = (IF v = w THEN r ELSE run[v])
    BY DEF JobsInv
  <2>4. job[f].holder # Nothing => /\ run'[job[f].holder].file = run[job[f].holder].file
                                   /\ run'[job[f].holder].last = run[job[f].holder].last
                                   /\ run'[job[f].holder].stage # "idle"
    BY <2>1, <2>2, <2>3 DEF JobHolds
  <2> QED BY <2>1, <2>4 DEF JobHolds, RowGoesOn
<1> QED BY <1>1, <1>2 DEF JobsInv

\* Jobs and runs stay.
LEMMA JobsStay ==
  ASSUME JobsInv, \A f \in FileIds : RowGoesOn(f), job' = job, run' = run
  PROVE  JobsInv'
<1>1. ASSUME NEW f \in FileIds PROVE JobHolds(f)'
  BY DEF JobsInv, JobHolds, RowGoesOn
<1> QED BY <1>1 DEF JobsInv

\* A job whose row is not new is handed on, or dropped, and its run is over.
LEMMA JobMoves ==
  ASSUME JobsInv, \A f \in FileIds : RowGoesOn(f),
         NEW f \in FileIds, NEW j \in JobRow, JobAlone(j), j.holder = Nothing,
         job' = [job EXCEPT ![f] = j], row'[f].status \notin {"NONE", "PENDING"},
         run' \in [Workers -> RunRow],
         \A e \in FileIds \ {f} : job[e].holder # Nothing =>
            run'[job[e].holder] = run[job[e].holder]
  PROVE  JobsInv'
<1>1. job' \in [FileIds -> JobRow]
  BY DEF JobsInv
<1>2. ASSUME NEW e \in FileIds PROVE JobHolds(e)'
  <2>1. JobHolds(e) /\ RowGoesOn(e)
    BY DEF JobsInv
  <2>2. CASE e = f
    <3>1. job'[e] = j
      BY <2>2 DEF JobsInv
    <3> QED BY <2>2, <3>1 DEF JobHolds, JobAlone
  <2>3. CASE e # f
    <3>1. job'[e] = job[e]
      BY <2>3 DEF JobsInv
    <3> QED BY <2>1, <2>3, <3>1 DEF JobHolds, RowGoesOn
  <2> QED BY <2>2, <2>3
<1> QED BY <1>1, <1>2 DEF JobsInv

\* A run ends by Leave: the job goes on if the lock is still the run's.
LEMMA LeaveKeepsJobs ==
  ASSUME FilesInv, \A f \in FileIds : RowGoesOn(f),
         NEW w \in Workers, run[w].stage # "idle",
         NEW state \in {"waiting", "finished"}, NEW more \in {0, 1}, Leave(w, state, more),
         state = "waiting" => run[w].last = FALSE /\ more = 1
  PROVE  JobsInv'
<1> JobsInv /\ RowsInv
  BY DEF FilesInv
<1>1. PICK f : f = run[w].file
  OBVIOUS
<1>2. /\ f \in FileIds /\ JobHolds(f) /\ RowGoesOn(f) /\ job[f] \in JobRow
      /\ run' = [run EXCEPT ![w] = NoRun] /\ run[w] \in RunRow
  BY <1>1 DEF FilesInv, ObjectsInv, RunHolds, JobsInv, Leave
<1>3. run' \in [Workers -> RunRow]
  BY <1>2 DEF JobsInv, NoRun, RunRow
<1>4. w # Nothing
  BY FilesAssumption DEF FilesAssumption
<1>5. \A e \in FileIds \ {f} : job[e].holder # w
  BY <1>1, <1>4 DEF JobsInv, JobHolds
<1>6. \A e \in FileIds : job[e].holder # w /\ job[e].holder # Nothing
        => run'[job[e].holder] = run[job[e].holder]
  BY <1>2 DEF JobsInv, JobRow
<1>7. CASE job[f].holder = w
  <2>1. PICK j : j = [job[f] EXCEPT !.state = state, !.holder = Nothing, !.made = @ + more]
    OBVIOUS
  <2>2. job' = [job EXCEPT ![f] = j]
    BY <1>1, <1>2, <1>7, <2>1 DEF Leave, JobsInv
  <2>3. /\ job[f].state = "active" /\ job[f].made \in Nat /\ job[f].made < MaxAttempts
        /\ run[w].last = TRUE <=> job[f].made + 1 >= MaxAttempts
    BY <1>2, <1>4, <1>7 DEF JobHolds, JobRow
  <2>4. /\ j.state = state /\ j.holder = Nothing /\ j.made = job[f].made + more
        /\ j.stalls = job[f].stalls
        /\ j = [state |-> j.state, holder |-> j.holder, made |-> j.made, stalls |-> j.stalls]
    BY <1>2, <2>1 DEF JobRow
  <2>5. j.made \in 0..MaxAttempts /\ (state = "waiting" => j.made < MaxAttempts)
    BY <2>3, <2>4, FilesAssumption DEF FilesAssumption
  <2>6. j \in JobRow /\ JobAlone(j)
    <3>1. job[f].stalls \in 0..MaxStalls
      BY <1>2 DEF JobRow
    <3> QED BY <2>4, <2>5, <3>1 DEF JobRow, JobAlone
  <2>7. row'[f].status \notin {"NONE", "PENDING"}
    BY <1>2, <2>3 DEF RowGoesOn, JobHolds
  <2> QED BY <1>2, <1>3, <1>5, <1>6, <2>2, <2>4, <2>6, <2>7, JobMoves
<1>8. CASE job[f].holder # w
  <2>1. job' = job
    BY <1>1, <1>8 DEF Leave
  <2>2. ASSUME NEW e \in FileIds PROVE JobHolds(e)'
    <3>1. JobHolds(e) /\ RowGoesOn(e)
      BY DEF JobsInv
    <3>2. job[e].holder # Nothing => run'[job[e].holder] = run[job[e].holder]
      BY <1>5, <1>6, <1>8
    <3> QED BY <2>1, <3>1, <3>2 DEF JobHolds, RowGoesOn
  <2> QED BY <1>3, <2>1, <2>2 DEF JobsInv
<1> QED BY <1>7, <1>8

LEMMA TakeKeepsJobs ==
  ASSUME FilesInv, \A f \in FileIds : RowGoesOn(f),
         NEW w \in Workers, NEW f \in FileIds, Take(w, f)
  PROVE  JobsInv'
<1> JobsInv
  BY DEF FilesInv
<1>1. JobHolds(f) /\ RowGoesOn(f) /\ job[f] \in JobRow /\ job[f].state = "waiting"
  BY DEF JobsInv, Take
<1>2. /\ job[f].holder = Nothing /\ job[f].made \in Nat /\ job[f].made < MaxAttempts
      /\ row'[f].status \notin {"NONE", "PENDING"}
  BY <1>1 DEF JobHolds, RowGoesOn, JobRow
<1>3. CASE Visible(f) /\ row[f].status = "UPLOADED"
  <2>1. PICK j, r : /\ j = [job[f] EXCEPT !.state = "active", !.holder = w]
                    /\ r = [file |-> f, stage |-> "read", left |-> {},
                            last |-> job[f].made + 1 >= MaxAttempts]
    OBVIOUS
  <2>2. /\ run' = [run EXCEPT ![w] = r] /\ job' = [job EXCEPT ![f] = j]
        /\ r \in RunRow /\ j \in JobRow
        /\ j.state = "active" /\ j.holder = w /\ j.made = job[f].made
    <3>1. run' = [run EXCEPT ![w] = r] /\ job' = [job EXCEPT ![f] = j]
      BY <1>3, <2>1 DEF Take, JobsInv
    <3>2. j \in JobRow /\ j.state = "active" /\ j.holder = w /\ j.made = job[f].made
      BY <1>1, <2>1 DEF JobRow
    <3>3. r \in RunRow
      BY <2>1 DEF RunRow
    <3> QED BY <3>1, <3>2, <3>3
  <2>3. w # Nothing /\ r.file = f /\ r.stage = "read" /\ (r.last = TRUE <=> j.made + 1 >= MaxAttempts)
    BY <2>1, <2>2, FilesAssumption DEF FilesAssumption
  <2>4. run' \in [Workers -> RunRow] /\ job' \in [FileIds -> JobRow]
    BY <2>2 DEF JobsInv
  <2>5. ASSUME NEW e \in FileIds PROVE JobHolds(e)'
    <3>1. JobHolds(e) /\ RowGoesOn(e)
      BY DEF JobsInv
    <3>2. CASE e = f
      <4>1. job'[f] = j /\ run'[w] = r
        BY <2>2 DEF JobsInv
      <4> QED BY <1>2, <2>2, <2>3, <3>2, <4>1 DEF JobHolds
    <3>3. CASE e # f
      <4>1. job'[e] = job[e] /\ job[e].holder # w
        <5>1. run[w].stage = "idle"
          BY DEF Take
        <5>2. job[e].holder # w
          BY <2>3, <3>1, <5>1 DEF JobHolds
        <5> QED BY <2>2, <3>3, <5>2
      <4>2. job[e].holder # Nothing => run'[job[e].holder] = run[job[e].holder]
        BY <2>2, <4>1 DEF JobsInv
      <4> QED BY <3>1, <4>1, <4>2 DEF JobHolds, RowGoesOn
    <3> QED BY <3>2, <3>3
  <2> QED BY <2>4, <2>5 DEF JobsInv
<1>4. CASE ~(Visible(f) /\ row[f].status = "UPLOADED")
  <2>1. PICK j : j = [job[f] EXCEPT !.state = "finished"]
    OBVIOUS
  <2>2. /\ run' = run /\ job' = [job EXCEPT ![f] = j] /\ j \in JobRow
        /\ j.state = "finished" /\ j.holder = Nothing
    BY <1>1, <1>2, <1>4, <2>1 DEF Take, JobsInv, JobRow
  <2>3. JobAlone(j) /\ run' \in [Workers -> RunRow]
    BY <2>2 DEF JobAlone, JobsInv
  <2> QED BY <1>2, <2>2, <2>3, JobMoves
<1> QED BY <1>3, <1>4

LEMMA StallKeepsJobs ==
  ASSUME FilesInv, \A f \in FileIds : RowGoesOn(f),
         NEW f \in FileIds, NEW dies \in BOOLEAN, Stall(f, dies)
  PROVE  JobsInv'
<1> JobsInv
  BY DEF FilesInv
<1>1. PICK w, spent : w = job[f].holder /\ spent = (job[f].stalls = MaxStalls)
  OBVIOUS
<1>2. /\ JobHolds(f) /\ RowGoesOn(f) /\ job[f] \in JobRow /\ job[f].state = "active"
  BY DEF JobsInv, Stall
<1>3. /\ job[f].made \in Nat /\ job[f].made < MaxAttempts /\ w \in Workers
      /\ row'[f].status \notin {"NONE", "PENDING"} /\ run[w].file = f
  BY <1>1, <1>2 DEF JobHolds, RowGoesOn, JobRow
<1>4. PICK j : j = [job[f] EXCEPT !.state = IF spent THEN "finished" ELSE "waiting",
                                  !.holder = Nothing,
                                  !.stalls = IF spent THEN @ ELSE @ + 1]
  OBVIOUS
<1>5. job' = [job EXCEPT ![f] = j]
  BY <1>1, <1>4 DEF Stall, JobsInv
<1>6. /\ j.state \in {"finished", "waiting"} /\ j.holder = Nothing /\ j.made = job[f].made
      /\ j.stalls = (IF spent THEN job[f].stalls ELSE job[f].stalls + 1)
      /\ j = [state |-> j.state, holder |-> j.holder, made |-> j.made, stalls |-> j.stalls]
  BY <1>2, <1>4 DEF JobRow
<1>7. j.stalls \in 0..MaxStalls
  <2>1. job[f].stalls \in 0..MaxStalls /\ MaxStalls \in Nat
    BY <1>2, FilesAssumption DEF JobRow, FilesAssumption
  <2>2. CASE spent = TRUE
    BY <1>6, <2>1, <2>2
  <2>3. CASE spent # TRUE
    <3>1. j.stalls = job[f].stalls + 1 /\ job[f].stalls # MaxStalls
      BY <1>1, <1>6, <2>3
    <3> QED BY <2>1, <3>1
  <2> QED BY <2>2, <2>3
<1>8. j \in JobRow /\ JobAlone(j)
  BY <1>2, <1>3, <1>6, <1>7 DEF JobRow, JobAlone
<1>9. /\ run' = run \/ run' = [run EXCEPT ![w] = NoRun]
      /\ run' \in [Workers -> RunRow]
  BY <1>1 DEF Stall, JobsInv, NoRun, RunRow
<1>10. \A e \in FileIds \ {f} : job[e].holder # Nothing =>
          run'[job[e].holder] = run[job[e].holder]
  <2> SUFFICES ASSUME NEW e \in FileIds \ {f}, job[e].holder # Nothing
               PROVE  run'[job[e].holder] = run[job[e].holder]
    OBVIOUS
  <2>1. job[e].holder \in Workers /\ run[job[e].holder].file = e
    BY DEF JobsInv, JobHolds, JobRow
  <2>2. job[e].holder # w
    BY <1>3, <2>1
  <2> QED BY <1>9, <2>1, <2>2 DEF JobsInv
<1> QED BY <1>3, <1>5, <1>6, <1>8, <1>9, <1>10, JobMoves

LEMMA ConfirmKeepsJobs ==
  ASSUME FilesInv, \A f \in FileIds : RowGoesOn(f),
         NEW c \in Completers, CompleteConfirms(c)
  PROVE  JobsInv'
<1> JobsInv
  BY DEF FilesInv
<1>1. PICK f : f = call[c].file
  OBVIOUS
<1>2. run' = run
  BY DEF CompleteConfirms
<1>3. CASE StillPending(f) /\ MarkUploaded(f) /\ job' = [job EXCEPT ![f].state = "waiting"]
  <2>1. PICK j : j = [job[f] EXCEPT !.state = "waiting"]
    OBVIOUS
  <2>2. f \in FileIds /\ row[f] \in Row /\ job[f] \in JobRow /\ JobHolds(f)
    BY <1>1 DEF FilesInv, RowsInv, CallsTyped, CompleteConfirms, JobsInv
  <2>3. job[f].state = "none" /\ job[f].made = 0 /\ job[f].holder = Nothing
    BY <1>3, <2>2 DEF StillPending, JobHolds
  <2>4. /\ job' = [job EXCEPT ![f] = j] /\ j \in JobRow
        /\ j.state = "waiting" /\ j.made = 0 /\ j.holder = Nothing
    BY <1>3, <2>1, <2>2, <2>3 DEF JobsInv, JobRow
  <2>5. JobAlone(j)
    BY <2>4, FilesAssumption DEF JobAlone, FilesAssumption
  <2>6. row'[f].status = "UPLOADED"
    BY <1>3, <2>2 DEF MarkUploaded, FilesInv, RowsInv, Row
  <2>7. run' \in [Workers -> RunRow]
    BY <1>2 DEF JobsInv
  <2>8. /\ row'[f].status \notin {"NONE", "PENDING"}
        /\ \A e \in FileIds \ {f} : job[e].holder # Nothing =>
             run'[job[e].holder] = run[job[e].holder]
    BY <1>2, <2>6
  <2> QED BY <2>2, <2>4, <2>5, <2>7, <2>8, JobMoves
<1>4. CASE job' = job
  BY <1>2, <1>4, JobsStay
<1> QED BY <1>1, <1>3, <1>4 DEF CompleteConfirms

\* Steps of a run that go on with it.
LEMMA RunGoesOn ==
  ASSUME FilesInv, \A f \in FileIds : RowGoesOn(f), NEW w \in Workers,
         NEW stage \in {"put", "mark", "clean", "threw", "refused", "drop"},
         NEW left \in SUBSET Stored, run[w].stage # "idle", job' = job,
         run' = [run EXCEPT ![w].stage = stage, ![w].left = left]
  PROVE  JobsInv'
<1> JobsInv
  BY DEF FilesInv
<1>1. PICK r : r = [run[w] EXCEPT !.stage = stage, !.left = left]
  OBVIOUS
<1>2. /\ run' = [run EXCEPT ![w] = r] /\ r \in RunRow
      /\ r.file = run[w].file /\ r.last = run[w].last /\ r.stage # "idle"
  BY <1>1 DEF JobsInv, RunRow
<1> QED BY <1>2, RunMoves

LEMMA GoKeepsJobs ==
  ASSUME FilesInv, \A f \in FileIds : RowGoesOn(f), NEW w \in Workers,
         NEW stage \in {"put", "mark", "clean", "threw", "refused", "drop"},
         run[w].stage # "idle", job' = job, Go(w, stage)
  PROVE  JobsInv'
<1> JobsInv
  BY DEF FilesInv
<1>1. PICK r : r = [run[w] EXCEPT !.stage = stage]
  OBVIOUS
<1>2. /\ run' = [run EXCEPT ![w] = r] /\ r \in RunRow
      /\ r.file = run[w].file /\ r.last = run[w].last /\ r.stage # "idle"
  BY <1>1 DEF JobsInv, RunRow, Go
<1> QED BY <1>2, RunMoves

LEMMA StepKeepsJobs == FilesInv /\ [FilesNext]_filesVars => JobsInv'
<1> SUFFICES ASSUME FilesInv, [FilesNext]_filesVars PROVE JobsInv'
  OBVIOUS
<1>a. \A f \in FileIds : RowGoesOn(f)
  BY RowsGoOn
<1> JobsInv
  BY DEF FilesInv
<1>1. ASSUME job' = job, run' = run PROVE JobsInv'
  BY <1>1, <1>a, JobsStay
<1>2. ASSUME NEW c \in Completers,
             \/ \E f \in FileIds : CompleteReads(c, f)
             \/ CompleteHeads(c)
             \/ CompleteRejects(c) \/ CompleteDrops(c) \/ CompleteFails(c)
      PROVE  JobsInv'
  BY <1>1, <1>2 DEF CompleteReads, CompleteHeads, CompleteRejects, CompleteDrops, CompleteFails, jobVars
<1>3. ASSUME NEW f \in FileIds, Start(f) \/ ClientPuts(f) \/ Expire(f) \/ GraceEnds(f)
      PROVE  JobsInv'
  BY <1>1, <1>3 DEF Start, ClientPuts, Expire, GraceEnds, jobVars
<1>4. ASSUME NEW o \in Owners, \/ ChangeCommits(o) \/ ChangeFails(o)
                               \/ \E to \in FileIds \cup {Nothing} : ChangeReads(o, to)
      PROVE  JobsInv'
  BY <1>1, <1>4 DEF ChangeCommits, ChangeFails, ChangeReads, jobVars
<1>5. ASSUME NEW p \in Purgers,
             \/ \E what \in {"unattached", "released"} : PurgeReads(p, what)
             \/ PurgeObjects(p) \/ PurgeRows(p) \/ PurgeFails(p)
      PROVE  JobsInv'
  BY <1>1, <1>5 DEF PurgeReads, PurgeObjects, PurgeRows, PurgeFails, jobVars
<1>6. CASE UNCHANGED filesVars
  BY <1>1, <1>6 DEF filesVars, jobVars
<1>7. ASSUME NEW w \in Workers, ReadUpload(w) PROVE JobsInv'
  <2>1. run[w].stage = "read" /\ job' = job
    BY <1>7 DEF ReadUpload
  <2>2. CASE run' = [run EXCEPT ![w].stage = "put", ![w].left = Stored]
    BY <1>a, <2>1, <2>2, RunGoesOn
  <2>3. CASE Go(w, "refused") \/ Go(w, "threw")
    BY <1>a, <2>1, <2>3, GoKeepsJobs
  <2> QED BY <1>7, <2>2, <2>3 DEF ReadUpload
<1>8. ASSUME NEW w \in Workers, NEW kind \in Stored, PutObject(w, kind) PROVE JobsInv'
  <2>1. PICK left, stage : /\ left = run[w].left \ {kind}
                           /\ stage = (IF run[w].left = {kind} THEN "mark" ELSE "put")
    OBVIOUS
  <2>2. /\ run[w].stage = "put" /\ job' = job /\ left \in SUBSET Stored
        /\ stage \in {"put", "mark"}
    BY <1>8, <2>1 DEF PutObject, JobsInv, RunRow
  <2>3. run' = [run EXCEPT ![w].stage = stage, ![w].left = left]
    BY <1>8, <2>1, <2>2 DEF PutObject, JobsInv, RunRow
  <2> QED BY <1>a, <2>2, <2>3, RunGoesOn
<1>9. ASSUME NEW w \in Workers, ProcessFails(w) PROVE JobsInv'
  <2>1. /\ run[w].stage # "idle" /\ job' = job /\ {} \in SUBSET Stored
        /\ run' = [run EXCEPT ![w].stage = "threw", ![w].left = {}]
    BY <1>9 DEF ProcessFails
  <2> QED BY <1>a, <2>1, RunGoesOn
<1>10. ASSUME NEW w \in Workers, MarkReady(w) PROVE JobsInv'
  <2>1. run[w].stage # "idle"
    BY <1>10 DEF MarkReady
  <2>2. CASE Leave(w, "finished", 0)
    BY <1>a, <2>1, <2>2, LeaveKeepsJobs
  <2>3. CASE job' = job /\ (Go(w, "threw") \/ Go(w, "clean"))
    BY <1>a, <2>1, <2>3, GoKeepsJobs
  <2> QED BY <1>10, <2>2, <2>3 DEF MarkReady
<1>11. ASSUME NEW w \in Workers, NEW fails \in BOOLEAN, RemoveUpload(w, fails) PROVE JobsInv'
  <2>1. run[w].stage # "idle" /\ Leave(w, "finished", 0)
    BY <1>11 DEF RemoveUpload
  <2> QED BY <1>a, <2>1, LeaveKeepsJobs
<1>12. ASSUME NEW w \in Workers, Retry(w) PROVE JobsInv'
  <2>1. run[w].stage # "idle" /\ Leave(w, "waiting", 1) /\ run[w].last = FALSE
    BY <1>12 DEF Retry, JobsInv, RunRow
  <2> QED BY <1>a, <2>1, LeaveKeepsJobs
<1>13. ASSUME NEW w \in Workers, Reject(w) PROVE JobsInv'
  <2>1. run[w].stage # "idle" /\ job' = job /\ Go(w, "drop")
    BY <1>13 DEF Reject
  <2> QED BY <1>a, <2>1, GoKeepsJobs
<1>14. ASSUME NEW w \in Workers, RejectDrops(w) PROVE JobsInv'
  <2>1. run[w].stage # "idle" /\ Leave(w, "finished", 0)
    BY <1>14 DEF RejectDrops
  <2> QED BY <1>a, <2>1, LeaveKeepsJobs
<1>15. ASSUME NEW w \in Workers, RejectFails(w) PROVE JobsInv'
  <2>1. run[w].stage # "idle" /\ run[w].last \in BOOLEAN
    BY <1>15 DEF RejectFails, JobsInv, RunRow
  <2>2. PICK state : state = (IF run[w].last THEN "finished" ELSE "waiting")
    OBVIOUS
  <2>3. /\ Leave(w, state, 1) /\ state \in {"waiting", "finished"}
        /\ (state = "waiting" => run[w].last = FALSE)
    BY <1>15, <2>1, <2>2 DEF RejectFails
  <2> QED BY <1>a, <2>1, <2>3, LeaveKeepsJobs
<1>16. ASSUME NEW w \in Workers, NEW f \in FileIds, Take(w, f) PROVE JobsInv'
  BY <1>a, <1>16, TakeKeepsJobs
<1>17. ASSUME NEW f \in FileIds, NEW dies \in BOOLEAN, Stall(f, dies) PROVE JobsInv'
  BY <1>a, <1>17, StallKeepsJobs
<1>18. ASSUME NEW c \in Completers, CompleteConfirms(c) PROVE JobsInv'
  BY <1>a, <1>18, ConfirmKeepsJobs
<1> QED BY <1>2, <1>3, <1>4, <1>5, <1>6, <1>7, <1>8, <1>9, <1>10, <1>11, <1>12, <1>13, <1>14,
           <1>15, <1>16, <1>17, <1>18
        DEF FilesNext, WorkerStep

-----------------------------------------------------------------------------
(* The objects.                                                             *)

StorageTyped ==
  /\ objects \subseteq FileIds \X Kinds
  /\ rightSize \subseteq FileIds
  /\ puts \in [FileIds -> 0..MaxPuts]
  /\ faults \in 0..MaxFaults

LEMMA StepKeepsStorage ==
  FilesInv /\ [FilesNext]_filesVars => StorageTyped'
<1> SUFFICES ASSUME FilesInv, [FilesNext]_filesVars PROVE StorageTyped'
  OBVIOUS
<1>a. StorageTyped /\ ObjectsInv /\ CallsTyped /\ JobsInv
  BY DEF FilesInv, ObjectsInv, StorageTyped
<1>b. Fault => faults' \in 0..MaxFaults
  BY <1>a, FilesAssumption DEF Fault, StorageTyped, FilesAssumption
<1>1. ASSUME UNCHANGED storageVars, faults' = faults \/ Fault PROVE StorageTyped'
  BY <1>a, <1>b, <1>1 DEF StorageTyped, storageVars
<1>2. ASSUME NEW f \in FileIds, Start(f) \/ Expire(f) \/ GraceEnds(f) PROVE StorageTyped'
  BY <1>1, <1>2 DEF Start, Expire, GraceEnds
<1>3. ASSUME NEW f \in FileIds, ClientPuts(f) PROVE StorageTyped'
  <2>1. puts' \in [FileIds -> 0..MaxPuts]
    <3>1. PICK n : n = puts[f] + 1
      OBVIOUS
    <3>2. puts' = [puts EXCEPT ![f] = n] /\ n \in 0..MaxPuts
      BY <1>a, <1>3, <3>1, FilesAssumption DEF ClientPuts, StorageTyped, FilesAssumption
    <3> QED BY <1>a, <3>2 DEF StorageTyped
  <2>2. objects' \subseteq FileIds \X Kinds /\ rightSize' \subseteq FileIds /\ faults' = faults
    BY <1>a, <1>3 DEF ClientPuts, StorageTyped, Kinds
  <2> QED BY <1>a, <2>1, <2>2 DEF StorageTyped
<1>4. ASSUME NEW f \in FileIds, NEW dies \in BOOLEAN, Stall(f, dies) PROVE StorageTyped'
  BY <1>1, <1>4 DEF Stall
<1>5. ASSUME NEW c \in Completers,
             \/ \E f \in FileIds : CompleteReads(c, f)
             \/ CompleteHeads(c) \/ CompleteConfirms(c) \/ CompleteRejects(c) \/ CompleteFails(c)
      PROVE  StorageTyped'
  BY <1>1, <1>5 DEF CompleteReads, CompleteHeads, CompleteConfirms, CompleteRejects, CompleteFails
<1>6. ASSUME NEW c \in Completers, CompleteDrops(c) PROVE StorageTyped'
  BY <1>a, <1>6 DEF CompleteDrops, StorageTyped
<1>7. ASSUME NEW o \in Owners, \/ ChangeCommits(o) \/ ChangeFails(o)
                               \/ \E to \in FileIds \cup {Nothing} : ChangeReads(o, to)
      PROVE  StorageTyped'
  BY <1>1, <1>7 DEF ChangeCommits, ChangeFails, ChangeReads
<1>8. ASSUME NEW w \in Workers,
             \/ \E f \in FileIds : Take(w, f)
             \/ ReadUpload(w) \/ MarkReady(w) \/ Retry(w) \/ Reject(w) \/ RejectFails(w)
      PROVE  StorageTyped'
  BY <1>1, <1>8 DEF Take, ReadUpload, MarkReady, Retry, Reject, RejectFails
<1>9. ASSUME NEW w \in Workers, NEW kind \in Stored, PutObject(w, kind) PROVE StorageTyped'
  <2>1. run[w].file \in FileIds
    BY <1>a, <1>9 DEF PutObject, ObjectsInv, RunHolds
  <2> QED BY <1>a, <1>9, <2>1 DEF PutObject, StorageTyped, Kinds
<1>10. ASSUME NEW w \in Workers, NEW fails \in BOOLEAN, RemoveUpload(w, fails) PROVE StorageTyped'
  BY <1>a, <1>b, <1>10 DEF RemoveUpload, StorageTyped
<1>11. ASSUME NEW w \in Workers, RejectDrops(w) PROVE StorageTyped'
  BY <1>a, <1>11 DEF RejectDrops, StorageTyped
<1>12. ASSUME NEW w \in Workers, ProcessFails(w) PROVE StorageTyped'
  <2>1. run[w].file \in FileIds /\ run[w].left \subseteq Kinds
    BY <1>a, <1>12 DEF ProcessFails, ObjectsInv, RunHolds, JobsInv, RunRow, Kinds
  <2>2. objects' \subseteq FileIds \X Kinds
    BY <1>a, <1>12, <2>1 DEF ProcessFails, StorageTyped
  <2> QED BY <1>a, <1>b, <1>12, <2>2 DEF ProcessFails, StorageTyped
<1>13. ASSUME NEW p \in Purgers,
             \/ \E what \in {"unattached", "released"} : PurgeReads(p, what)
             \/ PurgeRows(p) \/ PurgeFails(p)
      PROVE  StorageTyped'
  BY <1>1, <1>13 DEF PurgeReads, PurgeRows, PurgeFails
<1>14. ASSUME NEW p \in Purgers, PurgeObjects(p) PROVE StorageTyped'
  <2>1. objects' \subseteq objects /\ rightSize' \subseteq rightSize /\ puts' = puts /\ faults' = faults
    BY <1>14 DEF PurgeObjects
  <2> QED BY <1>a, <2>1 DEF StorageTyped
<1>15. CASE UNCHANGED filesVars
  BY <1>1, <1>15 DEF filesVars
<1> QED BY <1>2, <1>3, <1>4, <1>5, <1>6, <1>7, <1>8, <1>9, <1>10, <1>11, <1>12, <1>13, <1>14, <1>15
        DEF FilesNext, WorkerStep

\* A purge's files are doomed from the moment it reads them.
PurgesHold ==
  /\ picked \subseteq FileIds
  /\ purge \in [Purgers -> PurgeRow]
  /\ \A p \in Purgers, f \in FileIds : f \in purge[p].files => Doomed(f)
  /\ \A p \in Purgers : purge[p].variants \subseteq purge[p].files

LEMMA StepKeepsPurges == FilesInv /\ [FilesNext]_filesVars => PurgesHold'
<1> SUFFICES ASSUME FilesInv, [FilesNext]_filesVars PROVE PurgesHold'
  OBVIOUS
<1> USE DEF ghostVars
<1>a. PurgesHold /\ RowsInv
  BY DEF FilesInv, ObjectsInv, PurgesHold
<1>b. \A f \in FileIds : Doomed(f) => Doomed(f)'
  BY RowsGoOn DEF RowGoesOn
<1>1. ASSUME purge' = purge, picked' = picked PROVE PurgesHold'
  BY <1>a, <1>b, <1>1 DEF PurgesHold
<1>2. ASSUME NEW p \in Purgers, NEW d \in PurgeRow, purge' = [purge EXCEPT ![p] = d],
             \A f \in d.files : Doomed(f)', d.variants \subseteq d.files,
             picked' \subseteq FileIds
      PROVE  PurgesHold'
  <2>1. ASSUME NEW q \in Purgers, NEW f \in FileIds, f \in purge'[q].files PROVE Doomed(f)'
    <3>1. purge'[q] = (IF q = p THEN d ELSE purge[q])
      BY <1>a, <1>2 DEF PurgesHold
    <3> QED BY <1>a, <1>b, <1>2, <2>1, <3>1 DEF PurgesHold
  <2>2. purge' \in [Purgers -> PurgeRow]
    BY <1>a, <1>2 DEF PurgesHold
  <2>3. \A q \in Purgers : purge'[q].variants \subseteq purge'[q].files
    BY <1>a, <1>2 DEF PurgesHold
  <2> QED BY <1>2, <2>1, <2>2, <2>3 DEF PurgesHold
<1>3. NoPurge \in PurgeRow /\ NoPurge.files = {} /\ NoPurge.variants = {}
  BY DEF NoPurge, PurgeRow
<1>4. ASSUME NEW p \in Purgers, NEW what \in {"unattached", "released"}, PurgeReads(p, what)
      PROVE  PurgesHold'
  <2>1. PICK due : due = {f \in FileIds : IF what = "unattached"
                              THEN ExpiredUnattached(f) /\ Visible(f)
                              ELSE ReleasedLongAgo(f)}
    OBVIOUS
  <2>2. PICK bytes, variants :
          /\ bytes = [f \in FileIds |-> IF f \in due THEN CountedBytes(f) ELSE 0]
          /\ variants = {f \in due : row[f].variant}
    OBVIOUS
  <2>3. PICK d : d = [stage |-> "public", what |-> what, files |-> due, bytes |-> bytes,
                      variants |-> variants]
    OBVIOUS
  <2>4. \A f \in FileIds : CountedBytes(f) \in Nat
    BY CountedIsNat, FilesAssumption DEF CountedBytes, FilesAssumption
  <2>5. bytes \in [FileIds -> Nat] /\ due \in SUBSET FileIds /\ variants \in SUBSET FileIds
    BY <2>1, <2>2, <2>4
  <2>6. d \in PurgeRow /\ d.files = due /\ d.variants \subseteq d.files
    BY <2>2, <2>3, <2>5 DEF PurgeRow
  <2>7. picked' = (IF what = "unattached" THEN picked \cup due ELSE picked) /\ row' = row
    BY <1>4, <2>1 DEF PurgeReads
  <2>8. \A f \in due : Doomed(f)'
    BY <2>1, <2>7 DEF ReleasedLongAgo, Doomed
  <2>9. picked' \subseteq FileIds
    BY <1>a, <2>5, <2>7 DEF PurgesHold
  <2>10. purge' = [purge EXCEPT ![p] = d]
    BY <1>4, <2>1, <2>2, <2>3 DEF PurgeReads
  <2> QED BY <1>2, <2>6, <2>8, <2>9, <2>10
<1>5. ASSUME NEW p \in Purgers, PurgeObjects(p) PROVE PurgesHold'
  <2>1. PICK d : d = [purge[p] EXCEPT !.stage = IF @ = "public" THEN "private" ELSE "rows"]
    OBVIOUS
  <2>2. purge' = [purge EXCEPT ![p] = d] /\ d \in PurgeRow /\ d.files = purge[p].files
        /\ d.variants = purge[p].variants
    BY <1>a, <1>5, <2>1 DEF PurgeObjects, PurgesHold, PurgeRow
  <2>3. (\A f \in d.files : Doomed(f)') /\ d.variants \subseteq d.files
    BY <1>a, <1>b, <2>2 DEF PurgesHold, PurgeRow
  <2>4. picked' \subseteq FileIds
    BY <1>a, <1>5 DEF PurgeObjects, PurgesHold
  <2> QED BY <1>2, <2>2, <2>3, <2>4
<1>6. ASSUME NEW p \in Purgers, PurgeRows(p) \/ PurgeFails(p) PROVE PurgesHold'
  <2>1. purge' = [purge EXCEPT ![p] = NoPurge] /\ picked' \subseteq FileIds
    BY <1>a, <1>6 DEF PurgeRows, PurgeFails, PurgesHold
  <2> QED BY <1>2, <1>3, <2>1
<1>7. ASSUME NEW f \in FileIds, \/ Start(f) \/ ClientPuts(f) \/ Expire(f) \/ GraceEnds(f)
                                \/ \E dies \in BOOLEAN : Stall(f, dies)
      PROVE  PurgesHold'
  BY <1>1, <1>7 DEF Start, ClientPuts, Expire, GraceEnds, Stall
<1>8. ASSUME NEW c \in Completers,
             \/ \E f \in FileIds : CompleteReads(c, f)
             \/ CompleteHeads(c) \/ CompleteConfirms(c)
             \/ CompleteRejects(c) \/ CompleteDrops(c) \/ CompleteFails(c)
      PROVE  PurgesHold'
  BY <1>1, <1>8 DEF CompleteReads, CompleteHeads, CompleteConfirms, CompleteRejects, CompleteDrops,
     CompleteFails
<1>9. ASSUME NEW o \in Owners, \/ ChangeCommits(o) \/ ChangeFails(o)
                               \/ \E to \in FileIds \cup {Nothing} : ChangeReads(o, to)
      PROVE  PurgesHold'
  BY <1>1, <1>9 DEF ChangeCommits, ChangeFails, ChangeReads
<1>10. ASSUME NEW w \in Workers,
             \/ \E f \in FileIds : Take(w, f)
             \/ WorkerStep(w) \/ RemoveUpload(w, TRUE) \/ ProcessFails(w) \/ RejectFails(w)
      PROVE  PurgesHold'
  BY <1>1, <1>10 DEF Take, WorkerStep, ReadUpload, PutObject, MarkReady, RemoveUpload, Retry, Reject,
     RejectDrops, ProcessFails, RejectFails
<1>11. CASE UNCHANGED filesVars
  BY <1>1, <1>11 DEF filesVars
<1> QED BY <1>4, <1>5, <1>6, <1>7, <1>8, <1>9, <1>10, <1>11 DEF FilesNext

\* A stored object only goes from a file that is doomed.
Stays(f, kind) == <<f, kind>> \in objects => <<f, kind>> \in objects' \/ Doomed(f)

LEMMA StoredStay ==
  FilesInv /\ [FilesNext]_filesVars => \A f \in FileIds, kind \in Stored : Stays(f, kind)
<1> SUFFICES ASSUME FilesInv, [FilesNext]_filesVars
             PROVE  \A f \in FileIds, kind \in Stored : Stays(f, kind)
  OBVIOUS
<1> DEFINE Goal == \A f \in FileIds, kind \in Stored : Stays(f, kind)
<1>a. \A kind \in Stored : kind # "incoming"
  BY DEF Stored
<1>1. ASSUME objects \subseteq objects' PROVE Goal
  BY <1>1 DEF Stays
<1>2. ASSUME NEW f, objects' = objects \ {<<f, "incoming">>} PROVE Goal
  BY <1>a, <1>2 DEF Stays
<1>3. ASSUME NEW f \in FileIds, \/ Start(f) \/ ClientPuts(f) \/ Expire(f) \/ GraceEnds(f)
                                \/ \E dies \in BOOLEAN : Stall(f, dies)
      PROVE  Goal
  <2>1. objects \subseteq objects'
    BY <1>3 DEF Start, ClientPuts, Expire, GraceEnds, Stall, storageVars
  <2> QED BY <2>1, <1>1
<1>4. ASSUME NEW c \in Completers,
             \/ \E f \in FileIds : CompleteReads(c, f)
             \/ CompleteHeads(c) \/ CompleteConfirms(c) \/ CompleteRejects(c) \/ CompleteFails(c)
      PROVE  Goal
  <2>1. objects' = objects
    BY <1>4 DEF CompleteReads, CompleteHeads, CompleteConfirms, CompleteRejects, CompleteFails, storageVars
  <2> QED BY <2>1, <1>1
<1>5. ASSUME NEW c \in Completers, CompleteDrops(c) PROVE Goal
  BY <1>2, <1>5 DEF CompleteDrops
<1>6. ASSUME NEW o \in Owners, \/ ChangeCommits(o) \/ ChangeFails(o)
                               \/ \E to \in FileIds \cup {Nothing} : ChangeReads(o, to)
      PROVE  Goal
  <2>1. objects' = objects
    BY <1>6 DEF ChangeCommits, ChangeFails, ChangeReads, storageVars
  <2> QED BY <2>1, <1>1
<1>7. ASSUME NEW w \in Workers,
             \/ \E f \in FileIds : Take(w, f)
             \/ ReadUpload(w) \/ MarkReady(w) \/ Retry(w) \/ Reject(w) \/ RejectFails(w)
             \/ ProcessFails(w) \/ \E kind \in Stored : PutObject(w, kind)
      PROVE  Goal
  <2>1. objects \subseteq objects'
    BY <1>7 DEF Take, ReadUpload, MarkReady, Retry, Reject, RejectFails, ProcessFails, PutObject, storageVars
  <2> QED BY <2>1, <1>1
<1>8. ASSUME NEW w \in Workers, RejectDrops(w) \/ \E fails \in BOOLEAN : RemoveUpload(w, fails)
      PROVE  Goal
  <2>1. objects' = objects \/ objects' = objects \ {<<run[w].file, "incoming">>}
    BY <1>8 DEF RejectDrops, RemoveUpload
  <2> QED BY <2>1, <1>1, <1>2
<1>9. ASSUME NEW p \in Purgers,
             \/ \E what \in {"unattached", "released"} : PurgeReads(p, what)
             \/ PurgeRows(p) \/ PurgeFails(p)
      PROVE  Goal
  <2>1. objects' = objects
    BY <1>9 DEF PurgeReads, PurgeRows, PurgeFails, storageVars
  <2> QED BY <2>1, <1>1
<1>10. ASSUME NEW p \in Purgers, PurgeObjects(p) PROVE Goal
  <2>1. purge[p] \in PurgeRow /\ \A f \in FileIds : f \in purge[p].files => Doomed(f)
    BY DEF FilesInv, ObjectsInv
  <2> SUFFICES ASSUME NEW f \in FileIds, NEW kind \in Stored, <<f, kind>> \in objects,
                      <<f, kind>> \notin objects'
               PROVE  Doomed(f)
    BY DEF Stays
  <2>2. CASE purge[p].stage = "public"
    <3>1. /\ <<f, kind>> \in (purge[p].files \X {"image"}) \cup (purge[p].variants \X {"thumbnail"})
      BY <1>10, <2>2 DEF PurgeObjects
    <3>2. f \in purge[p].files \/ (f \in purge[p].variants /\ kind = "thumbnail")
      BY <3>1
    <3>3. purge[p].variants \subseteq purge[p].files
      BY DEF FilesInv, ObjectsInv
    <3> QED BY <2>1, <3>2, <3>3
  <2>3. CASE purge[p].stage # "public"
    BY <1>10, <1>a, <2>3 DEF PurgeObjects
  <2> QED BY <2>2, <2>3
<1>11. CASE UNCHANGED filesVars
  BY <1>1, <1>11 DEF filesVars, storageVars
<1> QED BY <1>3, <1>4, <1>5, <1>6, <1>7, <1>8, <1>9, <1>10, <1>11 DEF FilesNext, WorkerStep

\* What a run has put stays put, or its file is doomed.
LEMMA StepKeepsRuns == FilesInv /\ [FilesNext]_filesVars => \A v \in Workers : RunHolds(v)'
<1> SUFFICES ASSUME FilesInv, [FilesNext]_filesVars, NEW v \in Workers PROVE RunHolds(v)'
  OBVIOUS
<1>a. /\ \A f \in FileIds : Doomed(f) => Doomed(f)'
      /\ \A f \in FileIds, kind \in Stored :
           <<f, kind>> \in objects => <<f, kind>> \in objects' \/ Doomed(f)
  BY RowsGoOn, StoredStay DEF RowGoesOn, Stays
<1>b. RunHolds(v) /\ run[v] \in RunRow /\ run \in [Workers -> RunRow]
  BY DEF FilesInv, ObjectsInv, JobsInv
<1>1. CASE run'[v] = run[v]
  BY <1>a, <1>b, <1>1 DEF RunHolds
<1>2. CASE /\ run'[v].stage \notin {"put", "mark"}
           /\ run'[v].stage # "idle" => run'[v].file \in FileIds
  BY <1>2 DEF RunHolds
<1>3. ASSUME run' = run PROVE RunHolds(v)'
  BY <1>1, <1>3
<1>4. ASSUME NEW w \in Workers, NEW r, run' = [run EXCEPT ![w] = r],
             r.stage \notin {"put", "mark"}, r.stage # "idle" => r.file \in FileIds
      PROVE  RunHolds(v)'
  <2>1. CASE v = w
    BY <1>2, <1>4, <1>b, <2>1
  <2>2. CASE v # w
    BY <1>1, <1>4, <1>b, <2>2
  <2> QED BY <2>1, <2>2
<1>5. ASSUME NEW w \in Workers, NEW state, NEW more, Leave(w, state, more) PROVE RunHolds(v)'
  <2>1. run' = [run EXCEPT ![w] = NoRun] /\ NoRun.stage = "idle"
    BY <1>5 DEF Leave, NoRun
  <2> QED BY <1>4, <2>1
<1>6. ASSUME NEW w \in Workers, NEW stage \in {"clean", "threw", "refused", "drop"}, Go(w, stage),
             run[w].stage # "idle"
      PROVE  RunHolds(v)'
  <2>1. PICK r : r = [run[w] EXCEPT !.stage = stage]
    OBVIOUS
  <2>2. run[w] \in RunRow /\ run[w].file \in FileIds
    BY <1>6 DEF FilesInv, ObjectsInv, RunHolds, JobsInv
  <2>3. run' = [run EXCEPT ![w] = r] /\ r.stage = stage /\ r.file \in FileIds
    BY <1>6, <2>1, <2>2 DEF Go, RunRow
  <2> QED BY <1>4, <2>3
<1>7. ASSUME NEW w \in Workers, NEW f \in FileIds, Take(w, f) PROVE RunHolds(v)'
  <2>1. CASE run' = run
    BY <1>3, <2>1
  <2>2. PICK r : r = [file |-> f, stage |-> "read", left |-> {}, last |-> job[f].made + 1 >= MaxAttempts]
    OBVIOUS
  <2>3. CASE run' = [run EXCEPT ![w] = r]
    <3>1. r.stage = "read" /\ r.file \in FileIds
      BY <2>2
    <3> QED BY <1>4, <2>3, <3>1
  <2> QED BY <1>7, <2>1, <2>2, <2>3 DEF Take
<1>8. ASSUME NEW w \in Workers, ReadUpload(w) PROVE RunHolds(v)'
  <2>1. CASE run' = [run EXCEPT ![w].stage = "put", ![w].left = Stored]
    <3>1. PICK r : r = [run[w] EXCEPT !.stage = "put", !.left = Stored]
      OBVIOUS
    <3>2. run[w] \in RunRow /\ run[w].file \in FileIds
      BY <1>8 DEF ReadUpload, FilesInv, ObjectsInv, RunHolds, JobsInv
    <3>3. run' = [run EXCEPT ![w] = r] /\ r.stage = "put" /\ r.left = Stored /\ r.file \in FileIds
      BY <2>1, <3>1, <3>2 DEF RunRow
    <3>4. CASE v = w
      <4>1. run'[v] = r
        BY <1>b, <3>3, <3>4
      <4> QED BY <3>3, <4>1 DEF RunHolds
    <3>5. CASE v # w
      BY <1>1, <1>b, <3>3, <3>5
    <3> QED BY <3>4, <3>5
  <2>2. CASE Go(w, "refused") \/ Go(w, "threw")
    BY <1>6, <1>8, <2>2 DEF ReadUpload
  <2> QED BY <1>8, <2>1, <2>2 DEF ReadUpload
<1>9. ASSUME NEW w \in Workers, NEW kind \in Stored, PutObject(w, kind) PROVE RunHolds(v)'
  <2>1. PICK left, stage : /\ left = run[w].left \ {kind}
                           /\ stage = (IF run[w].left = {kind} THEN "mark" ELSE "put")
    OBVIOUS
  <2>2. PICK r : r = [run[w] EXCEPT !.stage = stage, !.left = left]
    OBVIOUS
  <2>3. /\ run[w] \in RunRow /\ run[w].file \in FileIds /\ run[w].stage = "put" /\ RunHolds(w)
        /\ objects' = objects \cup {<<run[w].file, kind>>}
    BY <1>9 DEF PutObject, FilesInv, ObjectsInv, RunHolds, JobsInv
  <2>4. run' = [run EXCEPT ![w] = r]
    BY <1>9, <1>b, <2>1, <2>2, <2>3 DEF PutObject, RunRow
  <2>5. r.stage = stage /\ r.left = left /\ r.file = run[w].file
    BY <2>2, <2>3 DEF RunRow
  <2>6. CASE v = w
    <3>1. run'[v] = r
      BY <1>b, <2>4, <2>6
    <3>2. \A k \in Stored \ left : <<r.file, k>> \in objects' \/ Doomed(r.file)'
      <4> SUFFICES ASSUME NEW k \in Stored \ left
                   PROVE  <<r.file, k>> \in objects' \/ Doomed(r.file)'
        OBVIOUS
      <4>1. k = kind \/ k \notin run[w].left
        BY <2>1
      <4>2. CASE k = kind
        BY <2>3, <2>5, <4>2
      <4>3. CASE k \notin run[w].left
        <5>1. <<r.file, k>> \in objects \/ Doomed(r.file)
          BY <2>3, <2>5, <4>3 DEF RunHolds
        <5> QED BY <1>a, <2>3, <2>5, <5>1
      <4> QED BY <4>1, <4>2, <4>3
    <3>3. r.stage = "mark" => r.left = {}
      BY <2>1, <2>5
    <3> QED BY <2>3, <2>5, <3>1, <3>2, <3>3 DEF RunHolds
  <2>7. CASE v # w
    BY <1>1, <1>b, <2>4, <2>7
  <2> QED BY <2>6, <2>7
<1>10. ASSUME NEW w \in Workers, ProcessFails(w) PROVE RunHolds(v)'
  <2>1. PICK r : r = [run[w] EXCEPT !.stage = "threw", !.left = {}]
    OBVIOUS
  <2>2. run[w] \in RunRow /\ run[w].file \in FileIds
    BY <1>10 DEF ProcessFails, FilesInv, ObjectsInv, RunHolds, JobsInv
  <2>3. run' = [run EXCEPT ![w] = r] /\ r.stage = "threw" /\ r.file \in FileIds
    BY <1>10, <2>1, <2>2 DEF ProcessFails, RunRow
  <2> QED BY <1>4, <2>3
<1>11. ASSUME NEW w \in Workers, MarkReady(w) PROVE RunHolds(v)'
  <2>1. run[w].stage # "idle" /\ (Leave(w, "finished", 0) \/ Go(w, "threw") \/ Go(w, "clean"))
    BY <1>11 DEF MarkReady
  <2> QED BY <1>5, <1>6, <2>1
<1>12. ASSUME NEW w \in Workers, \/ \E fails \in BOOLEAN : RemoveUpload(w, fails)
                                 \/ Retry(w) \/ RejectDrops(w) \/ RejectFails(w)
       PROVE  RunHolds(v)'
  <2>1. \E state, more : Leave(w, state, more)
    BY <1>12 DEF RemoveUpload, Retry, RejectDrops, RejectFails
  <2> QED BY <1>5, <2>1
<1>13. ASSUME NEW w \in Workers, Reject(w) PROVE RunHolds(v)'
  <2>1. run[w].stage # "idle" /\ Go(w, "drop")
    BY <1>13 DEF Reject
  <2> QED BY <1>6, <2>1
<1>14. ASSUME NEW f \in FileIds, NEW dies \in BOOLEAN, Stall(f, dies) PROVE RunHolds(v)'
  <2>1. PICK w : w = job[f].holder
    OBVIOUS
  <2>2. w \in Workers
    BY <1>14, <2>1 DEF Stall, FilesInv, JobsInv, JobHolds, JobRow
  <2>3. run' = run \/ run' = [run EXCEPT ![w] = NoRun]
    BY <1>14, <2>1 DEF Stall
  <2>4. NoRun.stage = "idle"
    BY DEF NoRun
  <2> QED BY <1>3, <1>4, <2>2, <2>3, <2>4
<1>15. ASSUME NEW f \in FileIds, Start(f) \/ ClientPuts(f) \/ Expire(f) \/ GraceEnds(f) PROVE RunHolds(v)'
  BY <1>3, <1>15 DEF Start, ClientPuts, Expire, GraceEnds, jobVars
<1>16. ASSUME NEW c \in Completers,
             \/ \E f \in FileIds : CompleteReads(c, f)
             \/ CompleteHeads(c) \/ CompleteConfirms(c)
             \/ CompleteRejects(c) \/ CompleteDrops(c) \/ CompleteFails(c)
      PROVE  RunHolds(v)'
  BY <1>3, <1>16 DEF CompleteReads, CompleteHeads, CompleteConfirms, CompleteRejects, CompleteDrops,
     CompleteFails, jobVars
<1>17. ASSUME NEW o \in Owners, \/ ChangeCommits(o) \/ ChangeFails(o)
                               \/ \E to \in FileIds \cup {Nothing} : ChangeReads(o, to)
      PROVE  RunHolds(v)'
  BY <1>3, <1>17 DEF ChangeCommits, ChangeFails, ChangeReads, jobVars
<1>18. ASSUME NEW p \in Purgers,
             \/ \E what \in {"unattached", "released"} : PurgeReads(p, what)
             \/ PurgeObjects(p) \/ PurgeRows(p) \/ PurgeFails(p)
      PROVE  RunHolds(v)'
  BY <1>3, <1>18 DEF PurgeReads, PurgeObjects, PurgeRows, PurgeFails, jobVars
<1>19. CASE UNCHANGED filesVars
  BY <1>3, <1>19 DEF filesVars, jobVars
<1> QED BY <1>7, <1>8, <1>9, <1>10, <1>11, <1>12, <1>13, <1>14, <1>15, <1>16, <1>17, <1>18, <1>19
        DEF FilesNext, WorkerStep

\* A row becomes READY only by a run that has put both objects.
LEMMA StepKeepsReady ==
  FilesInv /\ [FilesNext]_filesVars => \A f \in FileIds : ReadyHasItsObjects(f)'
<1> SUFFICES ASSUME FilesInv, [FilesNext]_filesVars, NEW f \in FileIds, row'[f].status = "READY"
             PROVE  Doomed(f)' \/ \A kind \in Stored : <<f, kind>> \in objects'
  BY DEF ReadyHasItsObjects
<1>1. /\ RowGoesOn(f) /\ \A kind \in Stored : Stays(f, kind)
  BY RowsGoOn, StoredStay
<1>2. Doomed(f) \/ \A kind \in Stored : <<f, kind>> \in objects
  <2>1. CASE row[f].status = "READY"
    BY <2>1 DEF FilesInv, ObjectsInv, ReadyHasItsObjects
  <2>2. ASSUME NEW w \in Workers, MarkReady(w), run[w].file = f
        PROVE  Doomed(f) \/ \A kind \in Stored : <<f, kind>> \in objects
    BY <2>2 DEF FilesInv, ObjectsInv, RunHolds, MarkReady
  <2> QED BY <1>1, <2>1, <2>2 DEF RowGoesOn, MakesReady
<1> QED BY <1>1, <1>2 DEF RowGoesOn, Stays

LEMMA FilesBegin == FilesInit => FilesInv
<1> SUFFICES ASSUME FilesInit PROVE FilesInv
  OBVIOUS
<1> USE FilesAssumption DEF FilesAssumption
<1>1. /\ \A f \in FileIds : row[f] = NewRow
      /\ \A w \in Workers : run[w] = NoRun
      /\ \A f \in FileIds : job[f] = [state |-> "none", holder |-> Nothing, made |-> 0, stalls |-> 0]
      /\ \A p \in Purgers : purge[p] = NoPurge
  BY DEF FilesInit
<1>2. RowsInv
  BY RowsBegin
<1>3. JobsInv
  <2>1. job \in [FileIds -> JobRow] /\ run \in [Workers -> RunRow]
    BY DEF FilesInit, JobRow, RunRow, NoRun
  <2>2. \A f \in FileIds : JobHolds(f)
    BY <1>1 DEF JobHolds
  <2> QED BY <2>1, <2>2 DEF JobsInv
<1>4. OwnerInv
  <2>1. ChangesTyped
    BY DEF FilesInit, ChangesTyped, NoChange
  <2>2. OwnerAndFileAgree
    BY <1>1 DEF FilesInit, OwnerAndFileAgree, NewRow
  <2> QED BY <2>1, <2>2 DEF OwnerInv, FilesInit
<1>5. ObjectsInv
  <2>1. /\ purge \in [Purgers -> PurgeRow]
        /\ \A p \in Purgers : purge[p].files = {} /\ purge[p].variants = {}
    BY <1>1 DEF FilesInit, PurgeRow, NoPurge
  <2>2. \A w \in Workers : RunHolds(w)
    BY <1>1 DEF RunHolds, NoRun
  <2>3. \A f \in FileIds : ReadyHasItsObjects(f)
    BY <1>1 DEF ReadyHasItsObjects, NewRow
  <2> QED BY <2>1, <2>2, <2>3 DEF ObjectsInv, FilesInit
<1>6. CallsTyped
  BY DEF FilesInit, CallsTyped, Resting
<1> QED BY <1>2, <1>3, <1>4, <1>5, <1>6 DEF FilesInv

\* The inductive invariant: usage is what the rows count, the lock of a job is
\* held by a run of it, the logo is the one file in use, and a stored object is
\* missing only from a file that is doomed.
THEOREM FilesHold == FilesSafeSpec => []FilesInv
<1>1. FilesInv /\ [FilesNext]_filesVars => FilesInv'
  BY StepKeepsRows, StepKeepsJobs, StepKeepsOwner, StepKeepsCalls, StepKeepsStorage, StepKeepsPurges,
     StepKeepsRuns, StepKeepsReady
  DEF FilesInv, ObjectsInv, StorageTyped, PurgesHold
<1> QED BY <1>1, FilesBegin, PTL DEF FilesSafeSpec

\* Rows, objects, calls, jobs, runs and purges keep their types.
THEOREM FilesTypes == FilesSafeSpec => []FilesTypeOK
<1>1. FilesInv => FilesTypeOK
  BY DEF FilesInv, RowsInv, JobsInv, OwnerInv, ObjectsInv, CallsTyped, ChangesTyped, JobRow, RunRow,
     PurgeRow, FilesTypeOK
<1> QED BY <1>1, FilesHold, PTL

\* used_bytes is what the rows say, until a purge deletes a row that changed
\* after it was read (addWithinQuota, adjust, subtract).
THEOREM UsageAddsUp == FilesSafeSpec => []UsageIsExcused
<1>1. FilesInv => UsageIsExcused
  BY DEF FilesInv, RowsInv
<1> QED BY <1>1, FilesHold, PTL

\* The quota holds, whatever completes at once, as long as processing does not
\* grow a file (addWithinQuota).
THEOREM QuotaIsKept == FilesSafeSpec => []QuotaHolds
<1>1. FilesInv => QuotaHolds
  BY DEF FilesInv, RowsInv
<1> QED BY <1>1, FilesHold, PTL

\* The workspace's logo is its one attached file that was not released
\* (replaceLogo, attach, release).
THEOREM OwnerHasItsFile == FilesSafeSpec => []OwnerAndFileAgree
<1>1. FilesInv => OwnerAndFileAgree
  BY DEF FilesInv, OwnerInv
<1> QED BY <1>1, FilesHold, PTL

\* A READY file has its image and its thumbnail until a purge picks it (ProcessFileJob,
\* FilePurgeService).
THEOREM ServedAreThere == FilesSafeSpec => []ServedFilesExist
<1>1. FilesInv => ServedFilesExist
  <2> SUFFICES ASSUME FilesInv, NEW f \in FileIds \ picked, row[f].status = "READY",
                      row[f].deleted # "old"
               PROVE  {f} \X Stored \subseteq objects
    BY DEF ServedFilesExist
  <2>1. ~Doomed(f)
    BY DEF Doomed
  <2>2. \A kind \in Stored : <<f, kind>> \in objects
    BY <2>1 DEF FilesInv, ObjectsInv, ReadyHasItsObjects
  <2> QED BY <2>2
<1> QED BY <1>1, FilesHold, PTL

\* READY and REJECTED are final, whichever call or run comes late
\* (markUploaded, markReady, markRejected).
THEOREM OutcomeStands == FilesSafeSpec => OutcomeIsFinal
<1>1. FilesInv /\ [FilesNext]_filesVars =>
        [\A f \in FileIds : row[f].status \in {"READY", "REJECTED"}
           => row'[f].status \in {row[f].status, "PURGED"}]_filesVars
  BY RowsGoOn DEF RowGoesOn
<1> QED BY <1>1, FilesHold, PTL DEF FilesSafeSpec, OutcomeIsFinal
=============================================================================
