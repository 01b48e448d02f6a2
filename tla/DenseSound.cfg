SPECIFICATION MCSpec
CONSTANTS
    FrameLens <- MCFrameLens
    AudioLens <- MCAudioLens
    MaxFramesOptions = {8}
    FRAME_CNT_MOD = 65536
    RECOVER_NAMES = 2
    ClockRepeats = FALSE
    IOErrors = FALSE
    MaxRecordings = 1
    MaxCrashes = 1
INVARIANTS
    RecoveredClipsPlayable
CHECK_DEADLOCK FALSE
