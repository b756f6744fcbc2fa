\* The nine slots of the shelf.
SPECIFICATION Spec
CONSTANT Calibrations <- MCCalibrations
INVARIANTS
  LevelAtTheShelf
  NothingIsClamped
PROPERTY LetGoInTheSlot
