CONSTANTS
  Users = {u1, u2}
  Firsts = {0, 1}
  Periods = {0, 1, 2}
  MaxTimers = 3
  MaxLate = 1
  NoCall = NoCall
  Nothing = Nothing
CHECK_DEADLOCK FALSE
SPECIFICATION FairSpec
INVARIANTS
  Consistent
PROPERTIES
  TimersSpec
  DueRuns
  StopEnds
