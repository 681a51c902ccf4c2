SPECIFICATION FairSpec
CONSTANTS
  h = h
  g = g
  Users = {h, g}
  Host = h
  Codes = {1, 2}
  First = 1
  Commands = {c1}
  Actions <- const_All
  MaxItems = 3
  MaxOps = 2
  MaxFaults = 1
INVARIANTS
  TypeOK
  AcceptedStays
  InOrderQueue
PROPERTIES
  EndIsNoticed
CHECK_DEADLOCK FALSE
