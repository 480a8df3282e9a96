CONSTANTS
  Workers = {0, 1, 2}
  Symbols = 2
  MaxRuns = 3
  MaxFreq = 3
  MaxSyms = 5
  Limit = 2
  MaxNodes = 15
  MaxHeads = 8
SPECIFICATION FairSpec
CHECK_DEADLOCK FALSE
INVARIANTS EveryNodeInOnePlace ListsAreRuns
PROPERTY RunEnds
