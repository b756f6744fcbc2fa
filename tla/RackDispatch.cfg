SPECIFICATION Spec
CONSTANTS
  Slots <- MCSlots
  Slack = 1
  NoView = NoView
  circle = circle
  square = square
  Shapes <- MCShapes
  NONE = NONE
  columnOf <- MCColumnOf
  MaxObjects = 2
  MaxJobs = 2
  required_count = 1
INVARIANTS
  TypeOK
  CollisionIsExplained
  EventPerObject
  OwnObject
CHECK_DEADLOCK FALSE
