---------------------------- MODULE MCXSliceRpa ----------------------------
(* XSliceRpa on a few leaves and slices. *)
EXTENDS XSliceRpa

Symmetry == Permutations(Ropes) \union Permutations(Slices)

(* Two states that differ only in which leaves and nodes make up the same  *)
(* trees are one.  A rope is its tree with all that is stored in it, a     *)
(* header of a slice its place in the tree.                                *)
Shape(r) ==
  LET tree[x \in Hdrs] ==
        IF x \in Leaves THEN <<h.nelems[x], h.data[x]>>
        ELSE <<h.depth[x], h.nelems[x], tree[h.left[x]], tree[h.right[x]]>>
  IN  tree[h.root[r]]
Preorder(r) ==
  LET hdrs[x \in Hdrs] ==
        IF x \in Leaves THEN <<x>> ELSE <<x>> \o hdrs[h.left[x]] \o hdrs[h.right[x]]
  IN  hdrs[h.root[r]]
PlaceOf(r, x) == {k \in DOMAIN Preorder(r) : Preorder(r)[k] = x}
SliceView(x) ==
  IF sl[x] = NoSlice THEN <<>>
  ELSE <<[sl[x] EXCEPT !.hdr0 = Null, !.leaf0 = Null],
         PlaceOf(sl[x].rpa, sl[x].hdr0), PlaceOf(sl[x].rpa, sl[x].leaf0)>>

(* The links, the tails and the heap show through the invariants about     *)
(* them, so that no state that breaks one is taken for another that does   *)
(* not.                                                                    *)
View ==
  <<prep, TreesAreSound, HdrsOwnedOnce,
    [r \in Ropes |-> IF r \in open THEN Shape(r) ELSE <<>>],
    [x \in Slices |-> SliceView(x)]>>

(* Two values are enough to see where one element goes, the one that has   *)
(* value Mark.  Slices read no values, and other arrays are nothing to     *)
(* them: a sliced array is the only one and unmarked.                      *)
CONSTANT Mark
Marks == {<<l, i>> \in Leaves \X (1..Grain) : i \in DOMAIN h.data[l] /\ h.data[l][i] = Mark}
Bound ==
  /\ Cardinality(Marks') <= 1
  /\ InUse' # {} => Cardinality(open) = 1 /\ Marks = {}
=============================================================================
