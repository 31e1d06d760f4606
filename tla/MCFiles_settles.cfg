\* One file, uploaded up to twice: two calls of complete, a change of the logo,
\* a purge, two worker slots, one fault.
SPECIFICATION FilesSpec
CONSTANTS
  FileIds = {f1}
  Completers = {c1, c2}
  Owners = {o1}
  Workers = {w1, w2}
  Purgers = {p1}
  Declared = 3
  ImageSize = 1
  ThumbSize = 1
  Quota = 5
  MaxAttempts = 2
  MaxStalls = 1
  MaxPuts = 2
  MaxFaults = 1
  Nothing = Nothing
CHECK_DEADLOCK FALSE
PROPERTIES
  FileSettles
