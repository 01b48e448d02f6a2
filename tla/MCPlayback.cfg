SPECIFICATION WeatherSpec
CONSTANTS
    Clusters = 3
    ClipFrames = 2
    FRAME_CNT_MOD = 4
    Requests = {}
    SlowBrowser = FALSE
    SendErrors = FALSE
    OpenFails = FALSE
    OpenRaces = FALSE
    SlowCard = FALSE
    LateReader = FALSE
    MaxRecordings = 3
    MaxPlays = 3
    MaxRequests = 0
INVARIANTS
    CalmUndisturbed
    CalmIndexBuffer
    CalmGivesBack
PROPERTIES
    RecordingStarts
CHECK_DEADLOCK FALSE
