CONSTANTS
  Ids = {x, y, z}
  Forms <- BlockForms
  PropLists <- SomeProps
  MaxTime = 5
  MaxDepth = 2
SPECIFICATION Spec
CHECK_DEADLOCK FALSE
SYMMETRY Symmetry
INVARIANTS
  ScopesLive
  NoStrayCells
  UnsafeInside
  SameResource
PROPERTIES
 StaysDangling
 ResourcesImplemented
