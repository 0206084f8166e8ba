CONSTANTS
  Inputs <- Programs
  Start = "parse"
SPECIFICATION FairSpec
INVARIANTS TypeOK AcceptsGrammar TreeSpellsTokens ProductsBindTighter RightOperandOpensTighter
  TreesAsLaterPhasesAssume
PROPERTIES EmptyOrProgress ErrorsPointNoFurther Termination
CHECK_DEADLOCK FALSE
