CONSTANTS
  Boards = {b0, b1, b2}
  Base = b0
  Nodes = {n1}
  Vals = {a, b}
  InitVal = a
  Null = Null
  LogSize = 2
  ChildrenFirst = {b0, b1, b2}
SPECIFICATION Spec
SYMMETRY Symmetry
CHECK_DEADLOCK FALSE
INVARIANT EveryPointerShowsSnapshot
