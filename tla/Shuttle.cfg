\* Two stops, two tries of parking, sensors of two lines that may read wrong
\* twice in a row.
SPECIFICATION Spec
CONSTANTS
  Plain = {"align", "lateral", "room", "good pose", "find pose", "escape", "drive in", "drive out", "confirm"}
  Sure = {"trim", "seat"}
  Unbounded = {"navigate"}
  Lines = 2
  Debounce = 2
  Glitches = 2
  MaxTries = 2
INVARIANTS
  InItsSlot
  DepartsOnRealSign
PROPERTY StopEnds
CHECK_DEADLOCK FALSE
