CONSTANTS
  b = b
  j = j
  s = s
  k1 = k1
  k2 = k2
  t1 = t1
  t2 = t2
  Criteria = {b, j, s}
  Judged = {j}
  Preserves <- ThePreserved
  Check = {k1, k2}
  CriterionOf <- TheCheckOf
  Test = {t1, t2}
  FileOf <- TheFileOf
  Allowed = {"in", "odd", "hook", "lost"}
  Protected = {"guarded"}
  NotPlain = {"odd"}
  GitPaths = {"hook"}
  Unresolved = {"lost"}
  Changes <- TheChanges
  Contracts <- TheContracts
  HowOf <- TheHowOf
  Blurred = {t2}
  None = None
SPECIFICATION Spec
INVARIANTS PassIsBacked BlameIsBacked LossNeverHelps
CHECK_DEADLOCK FALSE
