\* Two rows that may carry one job id, or one a job of an earlier build, with
\* one relay that takes one row at a time; or one row with two relays whose
\* leases run out under each other.  The fast path beside them, one fault.
SPECIFICATION MCSpec
CONSTANTS
  Rows = {r1, r2}
  Keys = {k0, k1}
  Legacy = {k0}
  NoKey = NoKey
  Relays = {p1, p2}
  OneRelay = p1
  OneRow = r1
  Dispatcher = fastPath
  BatchSize = 1
  MaxAttempts = 3
  MaxFaults = 1
INVARIANTS
  DispatchedWasLanded
  AbandonedAfterMaxAttempts
PROPERTIES
  FinishedIsFinal
  KeepsItsPromise
CHECK_DEADLOCK FALSE
