CONSTANTS
  AIs = {a1}
  Workers = {w1}
  Kinds <- Everything
  NoAI = NoAI
  NoJob = NoJob
CHECK_DEADLOCK FALSE
SPECIFICATION FairSpec
PROPERTY AllReturn
INVARIANTS
  PauseKept
  FreshState
