SPECIFICATION Spec
CONSTANTS
  h = h
  g = g
  Users = {h, g}
  Host = h
  Codes = {1, 2}
  First = 1
  Commands = {"c1", "c2"}
  Actions = {"leave", "start", "join", "reopen"}
  MaxItems = 3
  MaxOps = 3
  MaxFaults = 0
INVARIANTS
  KeysFollow
CHECK_DEADLOCK FALSE
