SPECIFICATION Spec
CONSTANTS
  Worker = {w1, w2}
  Token = {1, 2, 3, 4, 5, 6, 7}
  None = none
  MaxMsg = 5
  First = {1, 2, 3}
  Burst = 2
  PageSize = 2
  MaxPages = 2
  Lease = 2
  Interval = 1
  Retry = 1
  BackoffCap = 1
  LongWait = 2
  MaxFailures = 1
  MaxTroubles = 3
  Troubles = {"slow", "crash", "lost_claim", "unavailable", "blocked", "failure", "unreadable", "delete", "fallback", "recrawl", "recrawl_full", "paused", "blacklist", "readd", "approve"}
INVARIANTS
  TypeOK
  CursorsCover
  ActiveIsComplete
SYMMETRY Alike
