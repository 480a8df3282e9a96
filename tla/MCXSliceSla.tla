---------------------------- MODULE MCXSliceSla ----------------------------
(* XSliceSla and the C++ port on a few nodes and slices. *)
EXTENDS SlrCpp

Symmetry == Permutations(Nodes) \union Permutations(Slas) \union Permutations(Slices)

(* Two values are enough to see where one element goes, the one that has   *)
(* value Mark.  Slices read no values, and other arrays are nothing to     *)
(* them: a sliced array is the only one and unmarked.                      *)
CONSTANT Mark
Marks == {<<n, i>> \in Nodes \X (1..ChunkSize) : i \in DOMAIN h.chunk[n] /\ h.chunk[n][i] = Mark}
Bound ==
  /\ Cardinality(Marks') <= 1
  /\ InUse' # {} => Cardinality(open) = 1 /\ prep = {} /\ Marks = {}
=============================================================================
