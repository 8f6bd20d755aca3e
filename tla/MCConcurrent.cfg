SPECIFICATION AllSpec
CONSTANTS
    Values = {v1, v2}
    Nothing = Nothing
    requested = 3
    MaxPushes = 9
    Threads = {t1, t2, t3}
    NULL = NULL
    Capacity = 2
    MaxMPMCPushes = 3
    Thieves = {t1, t2}
    Jobs = {j1, j2, j3}
    DequeCapacity = 4
    MaxIndex = 4
    Poppers = {t1}
    Nodes = {n1, n2, n3}
    Keys = {1, 2, 3}
    Fibers = {f1, f2, f3}
INVARIANTS
    StaleCopiesAreSafe ElementsKept ListsAndSizes FibersSound
PROPERTIES QueuesAreFifo RefusalsAreReal
CHECK_DEADLOCK FALSE
