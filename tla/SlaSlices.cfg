CONSTANTS
  Nodes = {n1, n2, n3}
  Slas = {s1, s2}
  Vals = {a, b}
  Mark = b
  MaxLevel = 2
  ChunkSize = 2
  NoNode = NoNode
  Gone = Gone
  MinFinalize = 1
  Slices = {x1, x2}
  NoSlice = NoSlice
SPECIFICATION SliceSpec
SYMMETRY Symmetry
ACTION_CONSTRAINT Bound
INVARIANTS SkipListsAreSound NodesOwnedOnce GetReadsElement SliceGetFindsElement NextChunkIsNextElements MovedPointerIsFreshPointer PortAgrees
PROPERTY ImplementsArrays
