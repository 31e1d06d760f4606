\* Two files, two calls of complete, two changes of the logo, two purge runs; of
\* the calls and the purge runs two at a time.
SPECIFICATION MCSafeSpec
CONSTANTS
  FileIds = {f1, f2}
  Completers = {c1, c2}
  Owners = {o1, o2}
  Workers = {w1}
  Purgers = {p1, p2}
  Declared = 3
  ImageSize = 1
  ThumbSize = 1
  Quota = 5
  MaxAttempts = 2
  MaxStalls = 1
  MaxPuts = 1
  MaxFaults = 0
  Nothing = Nothing
SYMMETRY Symmetry
CHECK_DEADLOCK FALSE
INVARIANTS
  UsageIsExcused
  QuotaHolds
  OwnerAndFileAgree
  ServedFilesExist
