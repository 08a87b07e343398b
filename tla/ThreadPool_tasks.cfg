CONSTANTS
  Workers = {w1, w2, w3}
  Clients = {c1, c2}
  Tasks = {j1, j2, j3}
  NoTask = NoTask
  NoThread = NoThread
CHECK_DEADLOCK FALSE
SPECIFICATION FairPoolSpec
PROPERTY TaskPoolSpec
INVARIANTS
  Consistent
  DrainedWhenGone
