\* A rehash of the old password that is written after a new one was set.
SPECIFICATION Spec
CONSTANTS
  Seeders = {p1, p2}
  Calls = {c1, c2}
  Devices = {d1, d2}
  MaxCalls = 4
  MaxSessions = 3
  MaxTokens = 3
  MaxPasswords = 2
  MaxCodes = 1
  MaxFaults = 1
  None = None
INVARIANTS
  PasswordIsTheLastSet
CHECK_DEADLOCK FALSE
