SPECIFICATION FairSpec
CONSTANTS
  Tracks = {1, 2}
  Crossfade = TRUE
  Refusals = TRUE
  MaxRecoveries = 1
  MaxRetries = 1
  MaxLoads = 2
  MaxOps = 2
  MaxFaults = 1
INVARIANTS
  TypeOK
  SoundIsCurrent
  StoreAgrees
  OneSounds
  NotLeftMute
PROPERTIES
  LoadingEnds
CHECK_DEADLOCK FALSE
