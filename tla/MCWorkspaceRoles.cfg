\* Three requests, two at a time: an owner and a member edit, remove and create
\* roles, the member through the grants the caches give.
SPECIFICATION Spec
CONSTANTS
  m = m  r1 = r1  r2 = r2  r3 = r3  r4 = r4 d = d
  manage = manage  invite = invite  view = view  archive = archive
  Requests = {q1, q2}
  Members = {m}
  Owner = o
  Custom = {r1, r2, r3, r4}
  Default = {d}
  Keys = {manage, invite, view, archive}
  Restricted = {archive}
  Manage = manage
  MaxCustomRoles = 2
  MaxRequests = 3
  Absent = Absent
  None = None
  DefaultsFor <- MCDefaultsFor
  InitialRoles <- MCInitialRoles
  InitialGrants <- MCInitialGrants
  Wanted <- MCWanted
SYMMETRY Symmetry
INVARIANTS
  CachedIsExcused
  DeadlockNeedsUnlocked
  CapIsExcused
PROPERTIES
  ReplacesTheSet
  ReadOnlyBeyondCaller
CHECK_DEADLOCK FALSE
