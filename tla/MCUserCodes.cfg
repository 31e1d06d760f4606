\* Two requests at a time, two codes, two attempts, one request that dies.
SPECIFICATION SafeSpec
CONSTANTS
  Requests = {r1, r2}
  MaxCodes = 2
  MaxAttempts = 2
  MaxFaults = 1
  None = None
SYMMETRY Symmetry
CHECK_DEADLOCK FALSE
INVARIANTS
  OneLiveToken
  SingleUse
  LastCodeStands
  GuessesBounded
