\* A second thread frees the hot blocks of the first.
SPECIFICATION Spec
CONSTANTS
    Threads = {t1, t2}
    Allocators = {t1}
    Blocks = {1, 2, 3, 4}
    RequestSizes = {3072, 4096, 8193}
    HOT_PATH_CACHE_SIZE = 1
    Capacity = 1
    AnyThread = TRUE
INVARIANT BlockInOnePlace
CHECK_DEADLOCK FALSE
