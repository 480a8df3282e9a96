CONSTANTS
  Leaves = {1, 2, 3, 4}
  Inner = {11, 12, 13}
  Ropes = {r1, r2}
  Vals = {a, b}
  Mark = b
  Grain = 2
  RPA_FIB_SIZE = 7
  Null = Null
  Gone = Gone
  Slices = {x1, x2}
  NoSlice = NoSlice
SPECIFICATION SliceSpec
SYMMETRY Symmetry
ACTION_CONSTRAINT Bound
VIEW View
INVARIANT SliceGetFindsElement
