\* The same requests: what a create is told of its slug.
SPECIFICATION Spec
CONSTANTS
  floor = floor  create = create  s1 = s1  s2 = s2
  Calls = {c1, c2}
  Budgets = {floor, create}
  Limit <- MCLimit
  FailsOpen = {floor, create}
  Checks <- MCChecks
  MaxWindows = 1
  MaxCalls = 3
  MaxFaults = 1
  Users = {u}
  Admins = {a}
  Slugs = {s1, s2}
  Routes <- MCRoutes
  MaxOwned = 1
  Attempts = 2
  Floor = floor
  CreateByIp = create
  Absent = Absent
  None = None
SYMMETRY Symmetry
PROPERTIES
  SlugTakenMeansInUse
CHECK_DEADLOCK FALSE
