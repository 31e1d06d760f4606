\* Three requests, two at a time, one user, one admin; a window of each budget
\* may end and one command of the store may fail.
SPECIFICATION Spec
CONSTANTS
  floor = floor  create = create  s1 = s1  s2 = s2
  Calls = {c1, c2}
  Budgets = {floor, create}
  Limit <- MCLimit
  FailsOpen = {floor, create}
  Checks <- MCChecks
  MaxWindows = 1
  MaxCalls = 3
  MaxFaults = 1
  Users = {u}
  Admins = {a}
  Slugs = {s1, s2}
  Routes <- MCRoutes
  MaxOwned = 1
  Attempts = 2
  Floor = floor
  CreateByIp = create
  Absent = Absent
  None = None
SYMMETRY Symmetry
INVARIANTS
  Accounted
  WithinLimit
  HandlerHasItsCaller
PROPERTIES
  OwnedCapIsExcused
  OneDecision
CHECK_DEADLOCK FALSE
