CONSTANTS
  Reapers = {r1, r2}
  MaxAttempts = 1
  MaxKills = 2
  DryRun = FALSE
  TornAppends = TRUE
  Absent = Absent
SPECIFICATION FairSpec
INVARIANTS ReplayAccepts ExitCloses
PROPERTIES OnlyTheGoneAreMarked GoneOwnerIsNoticed
CHECK_DEADLOCK FALSE
