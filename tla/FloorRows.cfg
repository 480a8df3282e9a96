CONSTANTS
  Cells <- Standing
  MaxArea = 64
  Cutoff = 5
  XVArray = TRUE
  Null = Null
SPECIFICATION Spec
CHECK_DEADLOCK FALSE
INVARIANT FindsMinimum
