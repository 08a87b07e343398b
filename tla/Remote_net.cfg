CONSTANTS
  Debuggers = {d1}
  MaxLinks = 2
  MaxOrders = 2
  Window = 2
  PingAfter = 1
  MaxOwed = 0
  Base = 16
CHECK_DEADLOCK FALSE
SPECIFICATION FairSpec
INVARIANTS
  
  MessagesSurvive
PROPERTIES
  QueuesSpec
  ClosesOnlyTheGone
  
