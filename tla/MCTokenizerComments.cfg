CONSTANT Sources <- ShortSources
SPECIFICATION FairSpec
PROPERTY CommentsOpenWithTwoSlashes
CHECK_DEADLOCK FALSE
