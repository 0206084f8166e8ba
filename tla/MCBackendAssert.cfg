CONSTANTS
  Names <- Programs
  Trees <- ModulePrograms
  ParamValues = 65536
  ValueBits = 2
SPECIFICATION BackendSpec
INVARIANT AssertHolds
CHECK_DEADLOCK FALSE
