SPECIFICATION Spec
CONSTANTS
  IdMod = 1
  Slots <- MCSlots
  BadSlot = 0
  Points <- MCPoints
  MaxDispatches = 1
  MaxDamage = 0
  MaxResets = 0
  MaxDebug = 0
  Retries = 1
  MaxRestarts = 0
  NoCommand = NoCommand
  NoResult = NoResult
  NoJob = NoJob
INVARIANTS
  AckIsNoFailure
CHECK_DEADLOCK FALSE
