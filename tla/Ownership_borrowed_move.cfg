CONSTANTS
  Ids = {x, y, z}
  Forms <- MoveForms
  PropLists <- MutOnly
  MaxTime = 7
  MaxDepth = 0
SPECIFICATION Spec
CHECK_DEADLOCK FALSE
SYMMETRY Symmetry
PROPERTY NoMoveInUse
