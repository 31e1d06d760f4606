\* Two processes, two writers, every load with or without the lock: what may be
\* stale, and that every staleness ends.
SPECIFICATION Spec
CONSTANTS
  Procs = {p1, p2}
  Writers = {w1, w2}
  None = None
  MaxWaits = 1
INVARIANTS
  StaleIsExcused
PROPERTIES
  StalenessEnds
