SPECIFICATION LiveSpec
CONSTANTS
  IdMod <- MCIdMod
  Slots <- MCSlots
  BadSlot <- MCBadSlot
  Points <- MCPoints
  MaxDispatches = 3
  MaxDamage = 1
  MaxInFlight = 2
  MaxResets = 1
  MaxDebug = 1
  NoCommand = NoCommand
  NoResult = NoResult
  NoJob = NoJob
INVARIANTS
  TypeOK
  CommandSlotInStep
  AcceptedCanRun
  JobAnswersItsCommand
  LastResultNotRepeated
  TerminalAnswerIsTrue
  FaultHoldsUntilOperator
PROPERTIES
  AcceptedCommandRuns
  LineIsRead
CHECK_DEADLOCK FALSE
