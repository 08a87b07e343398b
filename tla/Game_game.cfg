CONSTANTS Amount = 1 MaxEntities = 4 Trees = {t1,t2} Nobody = Nobody
SPECIFICATION Spec
CHECK_DEADLOCK FALSE
INVARIANTS Consistent AloneIsSafe
