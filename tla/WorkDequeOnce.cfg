SPECIFICATION Spec
CONSTANTS
    Thieves = {w1, w2}
    Jobs = {j1, j2, j3}
    NULL = NULL
    Capacity = 4
    MaxIndex = 5
INVARIANT TakenOnce
CHECK_DEADLOCK FALSE
