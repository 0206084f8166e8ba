CONSTANTS
  InputExt = ""
  MaxVersion = 1
SPECIFICATION DriverSpec
INVARIANT SourceKept
