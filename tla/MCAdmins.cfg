\* Two seeders; four requests, two at a time, on two devices; one fault.
SPECIFICATION Spec
CONSTANTS
  Seeders = {p1, p2}
  Calls = {c1, c2}
  Devices = {d1, d2}
  MaxCalls = 4
  MaxSessions = 3
  MaxTokens = 3
  MaxPasswords = 2
  MaxCodes = 1
  MaxFaults = 1
  None = None
SYMMETRY Symmetry
INVARIANTS
  OneFirstAdmin
  LatestPasswordStands
  SweptSessions
PROPERTIES
  RefreshOfEnded
CHECK_DEADLOCK FALSE
