CONSTANTS
  Workers = {w1, w2}
  Jobs = {welcome}
  MaxAttempts = 3
  MaxTrouble = 3
SPECIFICATION FairSpec
INVARIANT NoJobIsLost
PROPERTIES OneSender NotQueuedAgain DeliveryEnds
CHECK_DEADLOCK FALSE
