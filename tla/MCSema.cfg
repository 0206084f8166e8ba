CONSTANTS
  Names <- MCNames
  Trees <- SmallTrees
  ParamValues = 65536
SPECIFICATION Spec
INVARIANTS TypeOK ResolvesStatically RefusesFirstWrong
PROPERTY LookupsStable
CHECK_DEADLOCK FALSE
