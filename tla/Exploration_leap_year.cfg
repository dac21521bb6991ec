CONSTANTS
  Vars = {x}
  Programs <- LeapYear
  Compiled = TRUE
SPECIFICATION Spec
CHECK_DEADLOCK FALSE
INVARIANT Accepted
