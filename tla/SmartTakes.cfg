\* Two sources, a station and suggestions that overlap with the second source.
SPECIFICATION Spec
CONSTANTS
  Tracks = {1, 2, 3, 4}
  Playlists <- const_Playlists
  Stations <- const_Stations
  Suggested <- const_Suggested
  MaxQueue = 5
  MaxManual = 1
  MaxOps = 5
PROPERTIES
  SmartTakesOnlyItsOwn
CHECK_DEADLOCK FALSE
