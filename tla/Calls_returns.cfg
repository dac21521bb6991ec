CONSTANTS
  Ids = {x, y}
  Forms <- StatementForms
  PropLists <- MutOnly
  MaxTime = 4
  MaxDepth = 2
  CallForms <- InnerReturns
  MaxParams = 1
SPECIFICATION CallSpec
CHECK_DEADLOCK FALSE
SYMMETRY Symmetry
INVARIANTS
  CallTypeOK
  ScopesLive
  NoStrayCells
  ArgumentsMeant
  OneOwner
