CONSTANT Sources <- CommentsAndNames
SPECIFICATION FairSpec
INVARIANT CharactersOfGrammarAreKnown
CHECK_DEADLOCK FALSE
