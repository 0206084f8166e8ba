CONSTANTS
  InputExt = "uz"
  MaxVersion = 3
SPECIFICATION DriverSpec
INVARIANTS DriverTypeOK ClangSeesThisModule PictureMatchesGraph
PROPERTY BuildsWhatWasRead
