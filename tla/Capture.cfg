SPECIFICATION Spec
CONSTANTS
    FrameLimit = 2
    Commands = {"record", "forceRecord", "dashCamOn", "enableMotion", "framesize"}
    Shutdowns = {"restart", "ota"}
    Sags = TRUE
    Brownout = TRUE
    NoCard = FALSE
    DashCam = {TRUE, FALSE}
    CardFills = TRUE
    Retimes = FALSE
    MaxCommands = 2
INVARIANTS
    CaptureOwnsFile
    OtaKeepsLanded
PROPERTIES
    SagLands
    QuietEnds
CHECK_DEADLOCK FALSE
