\* Two sources, a station and suggestions that overlap with the second source.
SPECIFICATION Spec
CONSTANTS
  Tracks = {1, 2, 3, 4}
  Playlists <- const_Playlists
  Stations <- const_Stations
  Suggested <- const_Suggested
  MaxQueue = 5
  MaxManual = 2
  MaxOps = 5
INVARIANTS
  TypeOK
  SourceInPlace
PROPERTIES
  SheetTellsNext
  ModesAgree
CHECK_DEADLOCK FALSE
