CONSTANTS
  Size = 3
  BlockSize = 2
  MaxDives = 2
  MaxValue = 1
  MaxParsers = 1
SPECIFICATION Spec
INVARIANT ParserKeepsDive ParserKnowsDevice DumpIsMemory LinkReleased
PROPERTY CancelEndsDump
CHECK_DEADLOCK FALSE
