----------------------------- MODULE MCXVArray -----------------------------
(* XVArray on a few boards and nodes. *)
EXTENDS XVArray

Symmetry == Permutations(Nodes) \union Permutations(Boards \ {Base})
=============================================================================
