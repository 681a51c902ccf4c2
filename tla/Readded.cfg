SPECIFICATION FairSpec
CONSTANTS
  Worker = {w1}
  Token = {1, 2, 3, 4, 5, 6}
  None = none
  MaxMsg = 4
  First = {1, 2, 3}
  Burst = 1
  PageSize = 1
  MaxPages = 2
  Lease = 2
  Interval = 1
  Retry = 1
  BackoffCap = 1
  LongWait = 2
  MaxFailures = 2
  MaxTroubles = 3
  Troubles = {"failure", "readd"}
PROPERTIES
  PendingIsPickedUp
