SPECIFICATION FairSpec
CONSTANTS
  Blocks = 3
  MaxPieces = 2
  Splits <- MCSplits
  Views <- MCViews
  Tokens <- MCTokens
  MaxBatch = 3
  Budget = 3
  MaxFocus = 2
PROPERTIES Promises  DocumentEnds
CHECK_DEADLOCK FALSE
