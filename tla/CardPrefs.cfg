SPECIFICATION CardSpec
CONSTANTS
    Days = 2
    MaxClips = 3
    MaxSize = 2
    Capacity = 3
    sdMinCardFreeSpace = 2
    Modes = {0, 1}
    DeleteAfter = {TRUE, FALSE}
    AutoUpload = {TRUE}
    FsUse = {TRUE, FALSE}
    Races = {}
    Tried = {"", "a b"}
    Squeezed <- MCSqueezed
    Builds <- MCBuilds
    MaxChanges = 3
    MaxBoots = 3
    CfgRaces = {}
PROPERTIES
    PrefsOverwrite
CHECK_DEADLOCK FALSE
