CONSTANTS
  Names <- Programs
  Trees <- AllPrograms
  ParamValues = 65536
  ValueBits = 2
SPECIFICATION BackendSpec
INVARIANTS BackendTypeOK GraphIsTree MeansWhatItSays 
  FaultlessCompiles LoadsAreInitialised FailsForACause
CHECK_DEADLOCK FALSE
