CONSTANTS
  Zones = {z1, z2}
  Clients = {c1}
  Chars = {x1}
  NoZone = NoZone
  Nobody = Nobody
  Commands <- Everything
  MaxEvents = 1
CHECK_DEADLOCK FALSE
SPECIFICATION FairSpec
PROPERTIES
  PauseEnds
  SelectionFollows
INVARIANTS
  SessionAgrees
  ClientsAreTold
