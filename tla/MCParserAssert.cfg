CONSTANTS
  Inputs <- BrokenPrograms
  Start = "parse"
SPECIFICATION Spec
INVARIANT AssertHolds
CHECK_DEADLOCK FALSE
