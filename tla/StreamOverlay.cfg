SPECIFICATION Spec
CONSTANTS
    Slots = 2
    Window = 5
    Downloads = TRUE
    ShowMotion = TRUE
    SendFails = TRUE
    CopyFails = FALSE
    EarlyStops = FALSE
    OfferRaces = FALSE
INVARIANTS
    OverlayHeld
PROPERTIES
    SentBufferStable
