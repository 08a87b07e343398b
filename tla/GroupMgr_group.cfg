CONSTANTS
  Threads = {t1, t2}
  Methods = {"add", "remove", "removeFromAllGroups", "update", "visit", "getLeader", "isGroupLeader", "getGroupSize", "getPosition", "isInGroup", "isInAnyGroup"}
  AIs = {a1, a2}
  GroupIds = {g1, g2}
  NoAI = NoAI
  NoCall = NoCall
  NoThread = NoThread
  NoGroup = NoGroup
  Origin = Origin
  Infinite = Infinite
SPECIFICATION Spec
SYMMETRY Symmetry
PROPERTY ServiceSpec
INVARIANTS
  Consistent
  LeavesAllGroups
