CONSTANTS
  Reapers = {r1, r2}
  MaxAttempts = 1
  MaxKills = 2
  DryRun = FALSE
  TornAppends = TRUE
  Absent = Absent
SPECIFICATION FairSpec
PROPERTIES OnlyRunningIsMarked
CHECK_DEADLOCK FALSE
