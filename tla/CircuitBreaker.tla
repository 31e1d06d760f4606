-------------------------- MODULE CircuitBreaker --------------------------
(***************************************************************************)
(* The breaker a process keeps between CacheService and Redis.              *)
(*                                                                          *)
(* The class is synchronous, its callers are not: shouldAllow is asked      *)
(* before a Redis command and recordSuccess or recordFailure after it, so   *)
(* the reports of commands admitted long ago arrive in any state, and the   *)
(* report of a command that hangs never arrives.  The breaker cannot tell   *)
(* whose report it is given.                                                *)
(***************************************************************************)
EXTENDS Naturals, FiniteSets

CONSTANTS
  Calls,      \* cache commands, each of which may be issued again
  Threshold,  \* CACHE_CIRCUIT.FAILURE_THRESHOLD
  MaxHangs,   \* bound: commands that never come back
  MaxOutages, \* bound: how often Redis goes away
  MaxStreak   \* bound: where the ghost counter stops counting

ASSUME BreakerAssumption ==
  /\ Threshold \in Nat \ {0}
  /\ MaxHangs \in Nat
  /\ MaxOutages \in Nat
  /\ MaxStreak \in Nat
  /\ MaxStreak >= Threshold

VARIABLES
  current,              \* CLOSED, OPEN or HALF_OPEN
  consecutiveFailures,
  cooled,               \* now - openedAt >= openDurationMs
  overdue,              \* now - probeStartedAt >= probeTimeoutMs
  calls,                \* "idle", "good" (will succeed), "bad" or "hung"
  healthy,              \* Redis answers
  outages,
  streak                \* ghost: failures reported since the last success

breaker == <<current, consecutiveFailures, cooled, overdue>>
breakerVars == <<breaker, calls, healthy, outages, streak>>

States == {"CLOSED", "OPEN", "HALF_OPEN"}

BreakerTypeOK ==
  /\ current \in States
  /\ consecutiveFailures \in 0..Threshold - 1
  /\ cooled \in BOOLEAN
  /\ overdue \in BOOLEAN
  /\ calls \in [Calls -> {"idle", "good", "bad", "hung"}]
  /\ healthy \in BOOLEAN
  /\ outages \in 0..MaxOutages
  /\ streak \in 0..MaxStreak

BreakerInit ==
  /\ current = "CLOSED"
  /\ consecutiveFailures = 0
  /\ cooled = FALSE
  /\ overdue = FALSE
  /\ calls = [c \in Calls |-> "idle"]
  /\ healthy = TRUE
  /\ outages = 0
  /\ streak = 0

-----------------------------------------------------------------------------
(* shouldAllow.  An answer of false changes nothing.                        *)

\* The probe of a half-open breaker is given up after probeTimeoutMs.
ProbeAgain == current = "HALF_OPEN" /\ overdue

StartProbe ==
  /\ current' = "HALF_OPEN"
  /\ overdue' = FALSE
  /\ UNCHANGED <<consecutiveFailures, cooled>>

ShouldAllow ==
  \/ current = "CLOSED" /\ UNCHANGED breaker
  \/ current = "OPEN" /\ cooled /\ StartProbe
  \/ ProbeAgain /\ StartProbe

Admit(c) ==
  /\ calls[c] = "idle"
  /\ ShouldAllow
  /\ calls' = [calls EXCEPT ![c] = IF healthy THEN "good" ELSE "bad"]
  /\ UNCHANGED <<healthy, outages, streak>>

-----------------------------------------------------------------------------
(* recordSuccess and recordFailure, by any command that was admitted.       *)

Open ==
  /\ current' = "OPEN"
  /\ cooled' = FALSE
  /\ consecutiveFailures' = 0
  /\ UNCHANGED overdue

\* Mutant: failures are counted, but not consecutive ones.
RecordSuccessKeepingCount ==
  /\ current' = "CLOSED"
  /\ UNCHANGED <<consecutiveFailures, cooled, overdue>>

\* Mutant: a probe that succeeds does not close the breaker.
RecordSuccessWithoutClosing ==
  /\ consecutiveFailures' = 0
  /\ UNCHANGED <<current, cooled, overdue>>

RecordSuccess ==
  /\ current' = "CLOSED"
  /\ consecutiveFailures' = 0
  /\ UNCHANGED <<cooled, overdue>>

RecordFailure ==
  IF current = "HALF_OPEN" \/ consecutiveFailures + 1 >= Threshold
  THEN Open
  ELSE /\ consecutiveFailures' = consecutiveFailures + 1
       /\ UNCHANGED <<current, cooled, overdue>>

\* A bad command was sent while Redis was away; it may be answered after all.
Succeed(c) ==
  /\ calls[c] \in {"good", "bad"}
  /\ RecordSuccess
  /\ calls' = [calls EXCEPT ![c] = "idle"]
  /\ streak' = 0
  /\ UNCHANGED <<healthy, outages>>

FailCall(c) ==
  /\ calls[c] = "bad"
  /\ RecordFailure
  /\ calls' = [calls EXCEPT ![c] = "idle"]
  /\ streak' = IF streak < MaxStreak THEN streak + 1 ELSE streak
  /\ UNCHANGED <<healthy, outages>>

-----------------------------------------------------------------------------
(* Redis and the clock.                                                     *)

\* A command whose answer never comes reports nothing.
Hang(c) ==
  /\ calls[c] = "bad"
  /\ Cardinality({d \in Calls : calls[d] = "hung"}) < MaxHangs
  /\ calls' = [calls EXCEPT ![c] = "hung"]
  /\ UNCHANGED <<breaker, healthy, outages, streak>>

\* Redis goes away under the commands that are on their way.
GoAway ==
  /\ healthy
  /\ outages < MaxOutages
  /\ healthy' = FALSE
  /\ outages' = outages + 1
  /\ calls' = [c \in Calls |-> IF calls[c] = "good" THEN "bad" ELSE calls[c]]
  /\ UNCHANGED <<breaker, streak>>

ComeBack ==
  /\ ~healthy
  /\ healthy' = TRUE
  /\ UNCHANGED <<breaker, calls, outages, streak>>

CoolDown ==
  /\ current = "OPEN"
  /\ ~cooled
  /\ cooled' = TRUE
  /\ UNCHANGED <<current, consecutiveFailures, overdue, calls, healthy, outages, streak>>

ProbeTimesOut ==
  /\ current = "HALF_OPEN"
  /\ ~overdue
  /\ overdue' = TRUE
  /\ UNCHANGED <<current, consecutiveFailures, cooled, calls, healthy, outages, streak>>

-----------------------------------------------------------------------------
BreakerNext ==
  \/ \E c \in Calls : Admit(c) \/ Succeed(c) \/ FailCall(c) \/ Hang(c)
  \/ GoAway \/ ComeBack \/ CoolDown \/ ProbeTimesOut

BreakerSafeSpec == BreakerInit /\ [][BreakerNext]_breakerVars

\* Requests keep asking for the cache, a command that is not lost is answered
\* or fails, and time passes.
BreakerFairness ==
  /\ WF_breakerVars(\E c \in Calls : Admit(c))
  /\ \A c \in Calls : WF_breakerVars(Succeed(c) \/ FailCall(c))
  /\ WF_breakerVars(CoolDown)
  /\ WF_breakerVars(ProbeTimesOut)

BreakerSpec == BreakerSafeSpec /\ BreakerFairness

-----------------------------------------------------------------------------
(* Properties.                                                              *)

\* The cache is switched off only by an outage as long as the threshold says:
\* as long as the breaker is not closed, at least Threshold failures were
\* reported and not one success since, whatever was admitted in between.
OpenMeansOutage == current # "CLOSED" => streak >= Threshold

\* The count the breaker keeps never runs ahead of the failures there were.
CountIsEarned == consecutiveFailures <= streak

BreakerInv == BreakerTypeOK /\ OpenMeansOutage /\ CountIsEarned

\* Once Redis is back for good the cache is used again for good: no probe that
\* hangs and no late report keeps the breaker open.
Recovers == <>[]healthy => <>[](current = "CLOSED")
=============================================================================
