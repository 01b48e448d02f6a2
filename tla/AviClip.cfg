SPECIFICATION MCSpec
CONSTANTS
    FrameLens <- MCFrameLens
    AudioLens <- MCAudioLens
    MaxFramesOptions = {1, 4}
    FRAME_CNT_MOD = 65536
    RECOVER_NAMES = 2
    ClockRepeats = FALSE
    IOErrors = FALSE
    MaxRecordings = 2
    MaxCrashes = 2
INVARIANTS
    ClosedClipsPlayable
    RecoveredClipsPlayable
PROPERTIES
    NothingOverwritten
    TempIsResolved
    ImplementsClipStore
CHECK_DEADLOCK FALSE
