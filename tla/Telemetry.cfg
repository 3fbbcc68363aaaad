CONSTANTS
  a = a
  b = b
  q1 = q1
  q2 = q2
  q3 = q3
  c1 = c1
  c2 = c2
  t1 = t1
  t2 = t2
  r1 = r1
  r2 = r2
  Requests = {q1, q2, q3}
  Addresses = {a, b}
  Registered = {a}
  Codes = {c1, c2}
  Tokens = {t1, t2}
  Runs = {r1, r2}
  MaxLinks = 1
  MaxMetrics = 1
  Nothing = Nothing
SYMMETRY Symmetry
SPECIFICATION Spec
INVARIANTS OneTokenPerLink DeletionIsFinal
CHECK_DEADLOCK FALSE
