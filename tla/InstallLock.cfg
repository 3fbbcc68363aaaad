CONSTANTS
  Proc = {p0, p1, p2}
  Earlier = {p0}
  NoFile = NoFile
  MaxCrashes = 0
SPECIFICATION Spec
INVARIANT OneRun
CHECK_DEADLOCK FALSE
