\* One page with two request slots; liveness, so no symmetry.
SPECIFICATION FairSpec
CONSTANTS
  Tabs = {p1}
  Slots = {c1, c2}
  Kinds <- const_Kinds
  MaxRequests = 3
  MaxTroubles = 2
  MaxFaults = 1
PROPERTIES
  EveryRequestEnds
CHECK_DEADLOCK FALSE
