SPECIFICATION Spec
CONSTANTS
  HalfLength = 128
  HalfWidth = 65
  Outline <- MCOutline
  SideMargin = 10
  WallMargin = 12
  ShiftMax = 60
  TurnNeed = 8
  BackoffNeed = 15
  FreeRunNeed = 50
  TurnMax = 60
  TurnMin = 8
  Scenes <- MCScenes
  Turns = {30, 90}
  FreeCells <- MCFreeCells
  Views <- MCViews
  Follows <- MCFollows
  Resolution = 10
  PointA = 225
  PointB = 1275
  ProbeY = 178
  HalfBody = 128
  PoseTries = 1
  EscapeTries = 2
  EscapeStall = 1
  CornerRounds = 2
  CornerForced = 1
  BackoffRounds = 1
  DriveSteps = 6
  StallSteps = 2
  QuietSteps = 1
  FunnelTries = 1
  JamGrace = 1
  PressGrace = 1
  FixSteps = 3
  FixBackoffs = 1
  AlignSteps = 4
  LowQuality = 1
  Stagnant = 1
  StillTurns = 1
  AlignEscapes = 2
  AlignNoGain = 2
  AlignStill = 2
  AlignFlips = 1
  RoomTries = 1
  TrimSteps = 3
  TrimStall = 2
  LateralTries = 1
  SlideSteps = 3
  SlideStall = 2
  ApproachSteps = 1
  ApproachStall = 1
  TurnSteps = 1
  TurnStall = 1
  Drives = {"hybrid", "stop", "cruise"}
  LostSteps = 1
  LostGap = 1
  StuckEscape = 1
  StuckSteps = 2
  StuckEscapes = 1
  BlindSteps = 2
  ClearEscapes = 1
  ClearCooldown = 1
PROPERTY KeepsContract
CHECK_DEADLOCK FALSE
