CONSTANTS
  Names = {"s", "t", "x", "y"}
  Functions <- TheFunctions
  Intrinsics = {"write", "pow"}
  Exprs <- TheSizeExprs
  Conds <- TheConds
  Variables <- TheVariables
  Headers <- TheHeaders
  Structs <- TheStructs
  Enums <- TheEnums
  Forms <- ExpressionForms
  MaxNesting = 3
  MaxSize = 1
SPECIFICATION Spec
CHECK_DEADLOCK FALSE
INVARIANT RunsThrough
