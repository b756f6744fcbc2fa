SPECIFICATION Spec
CONSTANTS
  TimerMax = 1
  Commands <- MCCommands
  MaxSpeed = 3
  Deadzone = 2
  PwmCap = 2
  DefaultPulse <- MCDefaultPulse
  DrivePulse <- MCDrivePulse
  LineCap = 6
  MaxLoss = 1
INVARIANTS
  NoTornCommand
  QuietAfterCleanStop
PROPERTIES
  StopsForGood
  NoStarvation
  DeadManSwitch
CHECK_DEADLOCK FALSE
