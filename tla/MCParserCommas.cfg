CONSTANTS
  Inputs <- CommaPrograms
  Start = "parse"
SPECIFICATION Spec
INVARIANT TrailingCommasAreAllowed
CHECK_DEADLOCK FALSE
