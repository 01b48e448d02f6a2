SPECIFICATION KeeperSpec
CONSTANTS
  Ceiling <- MCCeiling
  UserRates = {4, 6}
  IdleRate = 2
  RecFPS = 3
  NightSizes = {2}
  Commands = {"framesize", "fps", "idleFps", "night"}
  Races = {}
  MaxCommands = 3
  UserQs = {1, 3}
  QMax = 9
  NIGHT_DARK_Q = 5
  Details = {6, 24, 60}
  FrameWindow = 10
  Budget = 8
  fpsPriority = TRUE
  BoostCeiling = 2
  WinFrames = 2
  RelaxFrames = 2
  EaseFrames = 2
  RescueFrames = 2
  MaxEvents = 3
  GovRaces = {}
  Pings = {1, 2}
  DownRounds = 2
  usePing = TRUE
  APChoices = {TRUE, FALSE}
  SupRaces = {}
INVARIANTS
    ClipKeepsGeometry
    ChoiceKept
    QualityBounds
    UpdateNotBitten
PROPERTIES
    Settles
    FramesReturn
    Reconnects
CHECK_DEADLOCK FALSE
