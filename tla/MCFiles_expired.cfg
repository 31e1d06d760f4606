\* A logo attached by a clock read before the file expired, beside the purge.
SPECIFICATION FilesSafeSpec
CONSTANTS
  FileIds = {f1}
  Completers = {c1}
  Owners = {o1}
  Workers = {w1}
  Purgers = {p1}
  Declared = 3
  ImageSize = 1
  ThumbSize = 1
  Quota = 5
  MaxAttempts = 2
  MaxStalls = 1
  MaxPuts = 1
  MaxFaults = 0
  Nothing = Nothing
SYMMETRY Symmetry
CHECK_DEADLOCK FALSE
INVARIANTS
  OwnerPointsAtSomething
