SPECIFICATION Spec
CONSTANTS
    Workers = {w1, w2}
    Client = client
    NULL = NULL
    MaxJobs = 2
    MaxIndex = 3
    QUEUE_CAP = 2
    DEQUE_CAP = 4
    HANDLES = 2
    SPINS = 1
INVARIANT NothingPendingAfterShutdown
CHECK_DEADLOCK FALSE
