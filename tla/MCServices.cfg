\* Two monitoring threads: one that is stopped while another is started.  Rings of
\* two or three slots, filled and wrapped.
\* One thread allocates from the manager, both free: a second allocating thread
\* meets the ABA problem of the lock-free pool.
SPECIFICATION ServicesSpec
CONSTANTS
    Monitors = {m1, m2}
    None = None
    TELEMETRY_RING_SIZE = 2
    MaxPolls = 2
    MaxRecorded = 4
    TELEMETRY_RING_BUFFER_SIZE = 3
    ConfigSizes = {3}
    MaxOffered = 5
    Threads = {t1, t2}
    Sizes = {1, 2}
    max_memory_bytes = 2
    max_file_handles = 2
    TRACE_RING_BUFFER_SIZE = 2
    MaxTraced = 5
    Peers = {p1, p2, p3}
    NoPeer = NoPeer
    max_connections = 2
    timeout_ms = 2
    Horizon = 5
    Bytes = {0, 3}
    MaxRun = 3
    MaxState = 4
    Radix = 3
    Numbers = {5, 16}
    Strings = {0, 2, 3}
    max_len = 3
    capacity = 6
    Allocators = {t1}
    Blocks = {1, 2, 3, 4}
    RequestSizes = {3072, 4096, 8193}
    HOT_PATH_CACHE_SIZE = 1
    Capacity = 1
    Guarded = {b1, b2, b3}
    LGX_DELAYED_FRAMES = 3
    LGX_MAX_DELAYED_ALLOCS = 2
    FrameModulus = 5
    Main = t1
    Pages = {0, 1, 2, 3}
    FRAME_ARENA_COUNT = 2
    MaxMade = 2
    Totals = {0, 100, 104, 110}
    WINDOW_SIZE = 3
    SUSTAINED_GROWTH_COUNT = 2
    MaxSamples = 5
    MaxPeriods = 2
INVARIANTS
    NoRemains MonitorTouchesLive ReportsTrue EventsAccounted 
    RoundTrips 
PROPERTIES ServicesReturn 
CHECK_DEADLOCK FALSE
