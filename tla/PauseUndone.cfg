SPECIFICATION Spec
CONSTANTS
  Tracks = {1, 2}
  Crossfade = FALSE
  Refusals = FALSE
  MaxRecoveries = 2
  MaxRetries = 1
  MaxLoads = 2
  MaxOps = 2
  MaxFaults = 0
INVARIANTS
  PauseStays
CHECK_DEADLOCK FALSE
