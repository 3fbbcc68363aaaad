CONSTANTS
  Reapers = {r1, r2}
  MaxStages = 2
  Endings = {"completed", "timeout", "infra_error"}
  StageDeadline = 1
  LeaseTimeout = 1
  KillGrace = 0
  MaxMishaps = 3
SPECIFICATION FairSpec
INVARIANTS DeadlineHolds
PROPERTIES OneTerminalState EnforcedForCause RunIsRemoved RunIsRecorded
CHECK_DEADLOCK FALSE
