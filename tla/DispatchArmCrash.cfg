SPECIFICATION LiveSpec
CONSTANTS
  IdMod = 2
  Slots <- MCSlots
  BadSlot = 0
  Points <- MCPoints
  MaxDispatches = 2
  MaxDamage = 0
  MaxResets = 1
  MaxDebug = 0
  Retries = 1
  MaxRestarts = 1
  NoCommand = NoCommand
  NoResult = NoResult
  NoJob = NoJob
INVARIANTS
  DispatchInv
PROPERTIES
  NoStaleMotion
  DispatchSettles
  AcceptedIsRunToItsEnd
CHECK_DEADLOCK FALSE
