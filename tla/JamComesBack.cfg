SPECIFICATION Spec
CONSTANTS
  h = h
  g = g
  Users = {h, g}
  Host = h
  Codes = {1, 2}
  First = 1
  Commands = {"c1"}
  Actions = {"leave"}
  MaxItems = 3
  MaxOps = 1
  MaxFaults = 0
INVARIANTS
  ShowsChosenRoom
CHECK_DEADLOCK FALSE
