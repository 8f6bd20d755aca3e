SPECIFICATION FairSpec
CONSTANTS
    Workers = {w1, w2}
    Client = client
    NULL = NULL
    MaxJobs = 2
    MaxIndex = 2
    QUEUE_CAP = 2
    DEQUE_CAP = 4
    HANDLES = 2
    SPINS = 1
INVARIANTS JobInOnePlace 
PROPERTIES EveryJobRuns ShutdownReturns 
CHECK_DEADLOCK FALSE
