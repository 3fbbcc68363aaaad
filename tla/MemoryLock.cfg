CONSTANTS
  p1 = p1
  p2 = p2
  p3 = p3
  h1 = h1
  Proc = {p1, p2, p3}
  Host = {h1}
  HostOf <- OneHost
  Token = {1, 2, 3, 4, 5, 6, 7, 8}
  NoClaim = NoClaim
  MaxCrashes = 2
ACTION_CONSTRAINT TokensInTurn
SPECIFICATION FairSpec
INVARIANT MutualExclusion
PROPERTIES TakeoverIsSafe ImplementsMutex DeadLockIsReclaimed WaiterReturns
