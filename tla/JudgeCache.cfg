CONSTANTS
  p0 = p0
  p1 = p1
  p2 = p2
  p3 = p3
  Proc = {p0, p1, p2, p3}
  Earlier = {p0}
  HostOf <- TwoHosts
  Votes = 3
  NoFile = NoFile
  MaxFaults = 2
SYMMETRY Symmetry
SPECIFICATION JudgeSpec
INVARIANTS OneDecision ClaimedBeforeSampling
CHECK_DEADLOCK FALSE
