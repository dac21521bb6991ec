CONSTANTS
  Names = {"s", "t", "x", "y"}
  Functions <- TheFunctions
  Intrinsics = {"write", "pow"}
  Exprs <- TheExprs
  Conds <- TheConds
  Variables <- TheVariables
  Headers <- TheHeaders
  Structs <- TheStructs
  Enums <- TheEnums
  Forms <- AllForms
  MaxNesting = 3
  MaxSize = 3
SPECIFICATION Spec
CHECK_DEADLOCK FALSE
INVARIANTS
  NamesFound
  ResolvesAsC
  NoPanic
  ErrorsReported
  PathsReal
  PathsKept
  ReadsKept
  NamesDeclared
  CallsBound
