\* Four concurrent commands, a threshold of two, one hanging probe, two outages.
SPECIFICATION BreakerSpec
CONSTANTS
  Calls = {c1, c2, c3, c4}
  Threshold = 2
  MaxHangs = 1
  MaxOutages = 2
  MaxStreak = 4
INVARIANTS
  OpenMeansOutage
PROPERTIES
  Recovers
CHECK_DEADLOCK TRUE
