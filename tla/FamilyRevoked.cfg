SPECIFICATION Spec
CONSTANTS
  Tabs = {p1, p2}
  Slots = {c1}
  Kinds <- const_Web
  MaxRequests = 2
  MaxTroubles = 2
  MaxFaults = 1
INVARIANTS
  FamilyDiesTogether
CHECK_DEADLOCK FALSE
