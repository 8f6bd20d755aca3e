SPECIFICATION DevicesSpec
CONSTANTS
  Threads = {t1, t2, t3}
  Callbacks = {c1, c2}
  None = None
  LGX_GFX_MAX_FRAMES_IN_FLIGHT = 2
  ImageCount = 2
  MaxHandles = 3
  MaxCmds = 1
  UINT32_MAX = UINT32_MAX
  Nodes = {n1, n2}
  MAX_DEVICES = 2
  LGX_IN_MAX_GAMEPADS = 2
  event_capacity = 2
  MaxPlugs = 3
  MaxUses = 2
  Sources = {s1, s2}
  Buffers = {b1}
  Lengths = {1, 3}
  Unit = 2
  MinPitch = 1
  MaxPitch = 8
  Pitches = {0, 9}
  buffer_frames = 2
  max_sources = 2
  MaxDistance = 3
  Direct = Direct
  SearchDirs = {d1}
  NoPlace = NoPlace
  max_assets = 1
  max_paths = 1
  MaxWrites = 3
  Radix = 3
  MaxSize = 9
  Levels = {0, 1}
  Subsystems = {"CORE"}
  LGX_LOG_MAX_ROTATIONS = 3
  LGX_LOG_RATE_LIMIT_DEFAULT = 2
  LGX_LOG_RATE_WINDOW_NS = 2
  LGX_LOG_MAX_SIZE = 1
  Rates = {0, 1}
  MaxSizes = {2}
  NoFile = NoFile
  MaxLines = 4
  MaxDropped = 1
  Horizon = 2
  max_zones = 3
  MaxDepth = 2
  max_frames = 2
  MaxOpen = 3
  Zones = {z1, z2, z3, z4}
  Times = {1, 2}
  max_records = 2
  Addresses = {p1, p2, p3}
  Sizes = {1, 2}
  MaxCalls = 6
INVARIANTS
  CallbackCurrent
  GfxOwned
  
  MixerSound
  AssetsIntact
  
  DiagnosticsTrue
CHECK_DEADLOCK FALSE
