\* Three requests of every kind, on two devices.
SPECIFICATION Spec
CONSTANTS
  Requests = {r1, r2, r3}
  Devices = {d1, d2}
  Kinds = {"login", "refresh", "logout", "owned", "others", "change", "reset"}
  MaxSessions = 4
  MaxTokens = 4
  None = None
SYMMETRY Symmetry
CHECK_DEADLOCK FALSE
INVARIANTS
  ReuseEndsSession
  LateSessionsOnly
  DeadlockNeedsReuse
  OneLiveToken
  ConflictMeansThree
