CONSTANTS
  Cells <- ThreeCells
  MaxArea = 64
  Cutoff = 1
  XVArray = FALSE
  Null = Null
SPECIFICATION FairTaskSpec
CHECK_DEADLOCK FALSE
INVARIANTS BestIsConsistent FindsMinimum
PROPERTIES AreaOnlyFalls SearchEnds
