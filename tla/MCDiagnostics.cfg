CONSTANTS
  Sources <- Texts
  SizeValues = 65536
SPECIFICATION DiagnosticsSpec
INVARIANTS TypeOK InProgressFits RejectsFirstUnknown EofClosesTokens TokensSpelledInOrder NothingLost
  MarkBelowToken PlacesShownAsParserSays
PROPERTIES AlwaysNearer CutsIntoLexemes
CHECK_DEADLOCK FALSE
