SPECIFICATION FlowSpec
CONSTANTS
  SeqMod = 2
  Issues = 3
  Targets = 2
  Answers = 2
INVARIANTS
  TakenOnce
PROPERTIES
  FreshTargetComes
