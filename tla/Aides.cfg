SPECIFICATION AideSpec
CONSTANTS
  AUD_CHUNK_SIZE = 3
  AUD_CHUNK_MIN = 2
  MaxHeard = 5
  MaxSoundClips = 2
  AudioRaces = {}
  LOG_BUF_COUNT = 2
  WRITE_CACHE_CYCLE = 2
  RAM_LOG_LEN = 3
  MaxLines = 2
  LogEvents = {}
  Side = 2
  Scenes = {{}, {1}, {2, 3}}
  zoneMask = {0, 2}
  zoneCount = 1
  detectMotionFrames = 2
  detectNightFrames = 2
  FrameSizes = {"HD", "FHD"}
  PirUse = TRUE
  Counting = FALSE
  Driver <- MCDriver
  Rates = {2, 56}
  Long = {3000, 9999}
  MaxAsks = 2
  MaxLost = 1
INVARIANTS
    SoundWhole
    PoolWhole
    VtsCoversRows
    RouteBSlow
    KeepsUp
PROPERTIES
    SagLinesLand
    MotionEnds
CHECK_DEADLOCK FALSE
