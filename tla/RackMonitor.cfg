SPECIFICATION LiveSpec
CONSTANTS
  Slots <- MCSlots
  Window = 3
  Votes = 2
  Slack = 1
  NoView = NoView
INVARIANTS
  FreshWindowAfterFault
  
PROPERTIES
  ImplementsView
  DisplacedIsNoticed
