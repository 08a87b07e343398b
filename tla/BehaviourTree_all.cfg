CONSTANTS
  AIs = {a1}
  Nodes = {1, 2, 3, 4, 5, 6, 7, 8, 9, 10, 11, 12, 13, 14, 15, 16, 17, 18}
  Root = 1
  Type <- AllTypes
  Children <- AllChildren
  Amount <- Once
  Millis <- TwoTicks
  Deltas = {1, 2}
  NoNode = NoNode
  Owners = {o1, o2}
  Ids = {1, 2, 3, 4, 5, 6, 7, 8}
  Planted <- FiveNodes
  PlantedTasks = {3, 5}
  MaxEdits = 3
SPECIFICATION FairTreeSpec
INVARIANTS
  InOrder
  RunningIsSeen
  EditsAreExact
PROPERTIES
  Resumes
  IdleTakesItsTime
