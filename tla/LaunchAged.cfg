\* Two pages of the mini app, one of them open for longer than auth_max_age_s.
SPECIFICATION Spec
CONSTANTS
  Tabs = {p1, p2}
  Slots = {c1}
  Kinds <- const_Mini
  MaxRequests = 4
  MaxTroubles = 2
  MaxFaults = 0
INVARIANTS
  InitDataAlwaysWorks
CHECK_DEADLOCK FALSE
