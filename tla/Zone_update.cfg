CONSTANTS
  Zones = {z1, z2}
  AIs = {a1, a2}
  CharIds = {a1, a2}
  CharOf <- OwnId
  NoAI = NoAI
  NoZone = NoZone
  Destroyed = Destroyed
  Patient = TRUE
  MaxScheduled = 2
  MaxLate = 1
SPECIFICATION FairSpec
PROPERTIES
  ServiceSpec
  GetsThere
INVARIANTS
  TickedAtHome
  NoneForgotten
  NoGhosts
