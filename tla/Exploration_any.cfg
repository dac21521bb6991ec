CONSTANTS
  Vars = {x}
  Programs <- LoopPrograms
  Compiled = FALSE
SPECIFICATION Spec
CHECK_DEADLOCK FALSE
INVARIANTS
  TypeOK
  NStateCounts
  TmpMatches
PROPERTY Terminates
