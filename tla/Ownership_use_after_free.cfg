CONSTANTS
  Ids = {x, y}
  Forms <- FreeForms
  PropLists <- MutOnly
  MaxTime = 6
  MaxDepth = 0
SPECIFICATION Spec
CHECK_DEADLOCK FALSE
SYMMETRY Symmetry
PROPERTY NoRevival
