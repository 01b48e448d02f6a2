SPECIFICATION Spec
CONSTANTS
    WARN_LVL = 2
    DET_LVL = 3
    Causes = {"panic", "brownoutIsr", "brownoutHw", "sleep", "power"}
    MaxLives = 3
    Cards = {TRUE}
    sdLog = TRUE
    Races = {"bodLevel", "pollInStop"}
INVARIANTS
    CrashKept
    NeverCutInStop
PROPERTIES
    StageNamed
CHECK_DEADLOCK FALSE
