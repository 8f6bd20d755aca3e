\* One thread: a block freed to the pool comes back for a larger request.
SPECIFICATION Spec
CONSTANTS
    Threads = {t1}
    Allocators = {t1}
    Blocks = {1, 2, 3, 4}
    RequestSizes = {3072, 4096, 8193}
    HOT_PATH_CACHE_SIZE = 1
    Capacity = 1
    AnyThread = FALSE
INVARIANT HandedOutFits
CHECK_DEADLOCK FALSE
