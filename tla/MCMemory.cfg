SPECIFICATION MemorySpec
CONSTANTS
    MaxOrder = 2
    BUDDY_POOL_SIZE = 8
    LargeSizes = {1, 2, 3, 6, 9}
    Classes = {1}
    Capacity = 4
    Batch = 1
    AnalysisPeriod = 2
    MAX_ACTIVE_ALLOCATIONS = 5
    MAX_HEAP_SIZE = 8
    MaxSlabs = 2
    MaxAllocations = 5
    Garbage = Garbage
    Threads = {t1}
    Chunks = {0, 1, 2, 3, 4, 5}
    Sizes = {2, 3}
    ConfiguredSizes = {0, 1}
    NULL = NULL
    MaxFrame = 6
    MaxLevel = 3
    total_size = 16
    RequestSizes = {1, 5, 9}
    Alignments = {1, 2}
    InitialBlocks = 2
    MaxHandles = 3
    Memories = {m1, m2, m3}
    VK_NULL_HANDLE = VK_NULL_HANDLE
INVARIANTS
    BlocksTile SlabsSound FramesSound GpuSound
PROPERTIES PoolsAreAllocators
