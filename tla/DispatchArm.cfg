SPECIFICATION Spec
CONSTANTS
  IdMod = 2
  Slots <- MCSlots
  BadSlot = 0
  Points <- MCPoints
  MaxDispatches = 2
  MaxDamage = 1
  MaxResets = 0
  MaxDebug = 2
  Retries = 1
  MaxRestarts = 0
  NoCommand = NoCommand
  NoResult = NoResult
  NoJob = NoJob
INVARIANTS
  TypeOK
  AtMostOnce
  ReportIsTrue
  FirstRefusalIsFinal
PROPERTIES
  ImplementsService
CHECK_DEADLOCK FALSE
