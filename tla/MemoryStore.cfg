CONSTANTS
  Retain = 2
  RetainPinned = 1
  MaxRecords = 6
  MaxCrashes = 2
  TornLog = TRUE
  TornAside = TRUE
SPECIFICATION Spec
INVARIANTS NewestSurvive RetentionBound PinnedSurvive
PROPERTIES CorruptIsQuarantined
CHECK_DEADLOCK FALSE
