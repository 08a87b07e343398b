CONSTANTS
  Workers = {w1, w2}
  Clients = {c1}
  Tasks = {j1}
  NoTask = NoTask
  NoThread = NoThread
CHECK_DEADLOCK FALSE
SPECIFICATION FairPoolSpec
PROPERTY DestructorReturns
