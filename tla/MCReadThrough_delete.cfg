\* A load that began before the commit stores its value after the delete.
SPECIFICATION SafeSpec
CONSTANTS
  Procs = {p1}
  Writers = {w1}
  None = None
  MaxWaits = 1
INVARIANTS
  DeleteIsEnough
