\* Three releases, one that does not start; four processes, two at a time; one fault.
SPECIFICATION Spec
CONSTANTS
  Processes = {p1, p2}
  Releases = {old, new, bad}
  Queues = {q1, q2}
  Jobs = {j1, j2}
  Declared <- MCDeclared
  WorkspaceKeys = {k1, k2}
  AdminKeys = {a1}
  Catalogue <- MCCatalogue
  RoleOrder <- MCRoleOrder
  RoleText <- MCRoleText
  Selections <- MCSelections
  MaxStarts = 4
  MaxFaults = 1
  None = None
  q1 = q1
  q2 = q2
  j1 = j1
  j2 = j2
  k1 = k1
  k2 = k2
  a1 = a1
  d1 = d1
  d2 = d2
  old = old
  new = new
  bad = bad
SYMMETRY Symmetry
INVARIANTS
  SyncSettles
  SeedSettles
CHECK_DEADLOCK FALSE
