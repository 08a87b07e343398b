CONSTANTS
  Zones = {z1, z2}
  AIs = {a1}
  CharIds = {a1}
  CharOf <- OwnId
  NoAI = NoAI
  NoZone = NoZone
  Destroyed = Destroyed
  Patient = FALSE
  MaxScheduled = 2
  MaxLate = 0
SPECIFICATION Spec
INVARIANT TickedHasZone
