\* Two pages of the web app: the comment this contradicts is in the README.
SPECIFICATION Spec
CONSTANTS
  Tabs = {p1, p2}
  Slots = {c1}
  Kinds <- const_Web
  MaxRequests = 2
  MaxTroubles = 2
  MaxFaults = 0
INVARIANTS
  WebKeepsSession
CHECK_DEADLOCK FALSE
