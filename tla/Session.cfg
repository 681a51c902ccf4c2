\* Two pages of one browser, two request slots each, both clients.
SPECIFICATION Spec
CONSTANTS
  Tabs = {p1, p2}
  Slots = {c1, c2}
  Kinds <- const_Kinds
  MaxRequests = 2
  MaxTroubles = 2
  MaxFaults = 1
INVARIANTS
  TypeOK
  OneFreshPerFamily
  NoSelfReuse
  SessionKept
  TelegramAlwaysGetsIn
SYMMETRY Symmetric
CHECK_DEADLOCK FALSE
