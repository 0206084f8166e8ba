CONSTANTS
  Inputs <- CompareTexts
  Start = "Expr"
SPECIFICATION Spec
INVARIANT ComparisonsAreExpressions
CHECK_DEADLOCK FALSE
