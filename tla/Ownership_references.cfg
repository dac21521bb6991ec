CONSTANTS
  Ids = {x, y, z}
  Forms <- RefForms
  PropLists <- MutOnly
  MaxTime = 6
  MaxDepth = 0
SPECIFICATION Spec
CHECK_DEADLOCK FALSE
INVARIANTS
  TypeOK
  NoDataRace
  WritesExclusive
  OneClock
PROPERTY ReadEnds
