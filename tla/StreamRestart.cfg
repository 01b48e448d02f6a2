SPECIFICATION Spec
CONSTANTS
    Slots = 2
    Window = 5
    Downloads = TRUE
    ShowMotion = FALSE
    SendFails = TRUE
    CopyFails = FALSE
    EarlyStops = FALSE
    OfferRaces = TRUE
INVARIANTS
    SkippedOnlyWhenBusy
