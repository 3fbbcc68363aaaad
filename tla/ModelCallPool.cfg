CONSTANTS
  Calls = {c1, c2, c3, c4}
  Concurrency = 2
SPECIFICATION Spec
INVARIANTS SlotsAreConserved NoIdleSlot
PROPERTIES CallsEnd
CHECK_DEADLOCK FALSE
