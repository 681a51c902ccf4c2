\* The same, with a queue followed while Smart Shuffle is on.
SPECIFICATION Spec
CONSTANTS
  Tracks = {1, 2, 3, 4}
  Playlists <- const_Playlists
  Stations <- const_Stations
  Suggested <- const_Suggested
  MaxQueue = 5
  MaxManual = 1
  MaxOps = 5
INVARIANTS
  ShuffleStaysOn
CHECK_DEADLOCK FALSE
