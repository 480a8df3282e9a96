-------------------------------- MODULE Rope --------------------------------
(***************************************************************************)
(* The ropes of xarray/rope_array.c: a binary tree whose leaves hold the   *)
(* elements and whose inner nodes, concatenations, know how many elements  *)
(* and levels are below them.  A rope remembers its root and its tail, the *)
(* last leaf.                                                              *)
(*                                                                         *)
(* Like Sla, this module holds the data structure: a heap h, and one       *)
(* operator per function of rope_array.c.  Elements have size 1.           *)
(*                                                                         *)
(*   h.live                 the allocated leaves and nodes                 *)
(*   h.nelems, h.parent     struct rpa_hdr                                 *)
(*   h.left, h.right, h.depth   struct rpa_node                            *)
(*   h.data                 the elements in a leaf (what lies beyond       *)
(*                          nelems is dead and not kept)                   *)
(*   h.root, h.tail         struct rpa                                     *)
(***************************************************************************)
EXTENDS Integers, SequencesExt

CONSTANTS
  Leaves, Inner,   (* the leaves and inner nodes malloc may return, numbers: *)
                   (* it is taken to return the lowest that is free      *)
  Ropes,
  Vals,
  Grain,           (* rpa->alloc_grain, elements of a leaf               *)
  RPA_FIB_SIZE,    (* bound: how long the table of Fibonacci numbers is, *)
                   (* 46 in the code                                     *)
  Null             (* the null pointer                                   *)

ASSUME HdrsAssumption ==
  /\ Leaves \subseteq Nat /\ Inner \subseteq Nat /\ Leaves \intersect Inner = {}
  /\ IsFiniteSet(Leaves) /\ IsFiniteSet(Inner)
  /\ Null \notin Leaves \union Inner
(* There is a node for every concatenation of two trees of leaves.         *)
ASSUME InnerAssumption == Cardinality(Inner) >= Cardinality(Leaves) - 1
ASSUME GrainAssumption == Grain \in Nat \ {0}

Hdrs == Leaves \union Inner

InitHeap ==
  [live |-> {},
   nelems |-> [x \in Hdrs |-> 0], parent |-> [x \in Hdrs |-> Null],
   left |-> [n \in Inner |-> Null], right |-> [n \in Inner |-> Null],
   depth |-> [n \in Inner |-> 0],
   data |-> [l \in Leaves |-> <<>>],
   root |-> [r \in Ropes |-> Null], tail |-> [r \in Ropes |-> Null]]

(* rpa_depth: the depth a node has stored, 0 for a leaf *)
Depth(h, x) == IF x \in Leaves THEN 0 ELSE h.depth[x]
Size(h, r) == h.nelems[h.root[r]]

NewLeaf(h) == Min(Leaves \ h.live)
NewNode(h) == Min(Inner \ h.live)

(* rpa_leaf_alloc, which returns NewLeaf(h) *)
LeafAlloc(h) ==
  [h EXCEPT !.live = @ \union {NewLeaf(h)}, !.nelems[NewLeaf(h)] = 0, !.parent[NewLeaf(h)] = Null]

(* rpa_leaf_dealloc and rpa_node_dealloc; what they held is forgotten. *)
Dealloc(h, xs) ==
  [h EXCEPT !.live = @ \ xs,
     !.nelems = [x \in Hdrs |-> IF x \in xs THEN 0 ELSE @[x]],
     !.parent = [x \in Hdrs |-> IF x \in xs THEN Null ELSE @[x]],
     !.left = [n \in Inner |-> IF n \in xs THEN Null ELSE @[n]],
     !.right = [n \in Inner |-> IF n \in xs THEN Null ELSE @[n]],
     !.depth = [n \in Inner |-> IF n \in xs THEN 0 ELSE @[n]],
     !.data = [l \in Leaves |-> IF l \in xs THEN <<>> ELSE @[l]]]

(* rpa_concat, which returns NewNode(h) *)
RpaConcat(h, left, right) ==
  LET conc == NewNode(h)
  IN  [h EXCEPT !.live = @ \union {conc},
         !.nelems[conc] = h.nelems[left] + h.nelems[right],
         !.left[conc] = left, !.right[conc] = right,
         !.depth[conc] = 1 + Max({Depth(h, left), Depth(h, right)}),
         !.parent[conc] = Null, !.parent[left] = conc, !.parent[right] = conc]

-----------------------------------------------------------------------------
(* Growing and shrinking at the tail *)

(* rpa_update_tailpath: from the root to the right down to the tail, where *)
(* the right ends (TreesAreSound)                                          *)
UpdateTailpath(h, r, inc) ==
  LET from[x \in h.live] == IF x \in Leaves THEN {x} ELSE {x} \union from[h.right[x]]
      path == from[h.root[r]]
  IN  [h EXCEPT !.nelems = [x \in Hdrs |-> IF x \in path THEN @[x] + inc ELSE @[x]]]

(* rpa_get_rightmost *)
Rightmost(h, x) ==
  LET down[y \in h.live] == IF y \in Leaves THEN y ELSE down[h.right[y]]
  IN  down[x]

(* rpa_append_hdr *)
AppendHdr(h, r, x) ==
  LET h1 == RpaConcat(h, h.root[r], x)
  IN  [h1 EXCEPT !.root[r] = NewNode(h), !.tail[r] = Rightmost(h1, x)]

(* rpa_tail_full *)
TailFull(h, r) == h.nelems[h.tail[r]] = Grain

(* rpa_append_prepare *)
MakeRoom(h, r) == IF TailFull(h, r) THEN AppendHdr(LeafAlloc(h), r, NewLeaf(h)) ELSE h

(* The program fills the space, rpa_append_finalize. *)
Finalize(h, r, vs) ==
  [UpdateTailpath(h, r, Len(vs)) EXCEPT !.data[h.tail[r]] = @ \o vs]

(* rpa_depth_recalc: from node n up, until a depth need not change *)
DepthRecalc(h, n) ==
  LET up[m \in h.live \ Leaves] ==
        IF h.parent[m] = Null THEN <<m>> ELSE <<m>> \o up[h.parent[m]]
      step(st, m) ==
        LET depth == 1 + Max({Depth(st.h, h.left[m]), Depth(st.h, h.right[m])})
        IN  IF st.done \/ h.depth[m] = depth THEN [st EXCEPT !.done = TRUE]
            ELSE [st EXCEPT !.h.depth[m] = depth]
      after[k \in 0..Len(up[n])] ==
        IF k = 0 THEN [h |-> h, done |-> FALSE] ELSE step(after[k - 1], up[n][k])
  IN  after[Len(up[n])].h

(* The part of rpa_pop that takes the empty tail out of the tree: its      *)
(* parent goes too, and its sibling takes the place of the parent.         *)
DropTail_DepthsKept(h, r) ==
  LET tail == h.tail[r]
      p == h.parent[tail]
      pp == h.parent[p]
      sibling == h.left[p]
      h1 == IF pp = Null THEN [h EXCEPT !.root[r] = sibling, !.parent[sibling] = Null]
            ELSE [h EXCEPT !.right[pp] = sibling, !.parent[sibling] = pp]
  IN  Dealloc([h1 EXCEPT !.tail[r] = Rightmost(h1, sibling)], {p, tail})
DropTail(h, r) ==
  LET tail == h.tail[r]
      p == h.parent[tail]
      pp == h.parent[p]
      sibling == h.left[p]
      h1 == IF pp = Null THEN [h EXCEPT !.root[r] = sibling, !.parent[sibling] = Null]
            ELSE DepthRecalc([h EXCEPT !.right[pp] = sibling, !.parent[sibling] = pp], pp)
  IN  Dealloc([h1 EXCEPT !.tail[r] = Rightmost(h1, sibling)], {p, tail})

(* rpa_pop: pop at most `want' elements, all from the tail; returns the    *)
(* heap and the number popped.                                             *)
RpaPop(h, r, want) ==
  LET tail == h.tail[r]
      k == Min({want, h.nelems[tail]})
      h1 == [UpdateTailpath(h, r, - k) EXCEPT
               !.data[tail] = SubSeq(@, 1, Len(@) - k)]
  IN  [h |-> IF h1.nelems[tail] > 0 \/ h.parent[tail] = Null THEN h1 ELSE DropTail(h1, r),
       popped |-> k]

-----------------------------------------------------------------------------
(* Searching *)

(* rpa_gethdr_range: the lowest hdr from x down that holds the `len'       *)
(* elements from `start' of x, and where they start in it.                 *)
GetHdrRange_SameOffset(h, x, start, len) ==
  LET down[y \in h.live] ==
        IF y \in Leaves THEN y
        ELSE LET left == h.nelems[h.left[y]]
             IN  CASE start < left /\ start + len <= left -> down[h.left[y]]
                   [] start < left /\ start + len > left -> y
                   [] OTHER -> down[h.right[y]]
  IN  [hdr |-> down[x], off |-> start]
GetHdrRange(h, x, start, len) ==
  LET down[y \in h.live] == [off \in Nat |->
        IF y \in Leaves THEN [hdr |-> y, off |-> off]
        ELSE LET left == h.nelems[h.left[y]]
             IN  CASE off < left /\ off + len <= left -> down[h.left[y]][off]
                   [] off < left /\ off + len > left -> [hdr |-> y, off |-> off]
                   [] OTHER -> down[h.right[y]][off - left]]
  IN  down[x][start]

(* rpa_getleaf *)
GetLeaf(h, x, idx) == GetHdrRange(h, x, idx, 1)

-----------------------------------------------------------------------------
(* Joining and balancing *)

(* do_rpa_concatenate: r1 gets the elements of r2.  A rope of one leaf is  *)
(* copied if it fits in the tail of r1.                                    *)
CopyPath_IfTailsFit(h, r1, r2) == h.nelems[h.tail[r1]] + h.nelems[h.tail[r2]] <= Grain
CopyPath(h, r1, r2) ==
  /\ h.root[r2] \in Leaves
  /\ h.nelems[h.tail[r1]] + h.nelems[h.tail[r2]] <= Grain
Concatenate_KeepsLeaf(h, r1, r2) ==
  LET tail2 == h.tail[r2]
      h1 == IF CopyPath(h, r1, r2) THEN Finalize(h, r1, h.data[tail2])
            ELSE [RpaConcat(h, h.root[r1], h.root[r2]) EXCEPT
                    !.root[r1] = NewNode(h), !.tail[r1] = tail2]
  IN  [h1 EXCEPT !.root[r2] = Null, !.tail[r2] = Null]
Concatenate(h, r1, r2) ==
  LET tail2 == h.tail[r2]
      h1 == IF CopyPath(h, r1, r2)
            THEN Dealloc(Finalize(h, r1, h.data[tail2]), {tail2})
            ELSE [RpaConcat(h, h.root[r1], h.root[r2]) EXCEPT
                    !.root[r1] = NewNode(h), !.tail[r1] = tail2]
  IN  [h1 EXCEPT !.root[r2] = Null, !.tail[r2] = Null]

(* rpa_fib.  The last slot of a forest takes trees shorter than the last   *)
(* entry; were there more elements, the program would abort.               *)
rpa_fib[i \in 0..(RPA_FIB_SIZE - 1)] ==
  IF i < 2 THEN i + 1 ELSE rpa_fib[i - 1] + rpa_fib[i - 2]
ASSUME FibAssumption ==
  /\ RPA_FIB_SIZE \in Nat \ {0, 1}
  /\ Cardinality(Leaves) * Grain < rpa_fib[RPA_FIB_SIZE - 1]
Slots == 0..(RPA_FIB_SIZE - 2)

(* rpa_is_balanced *)
IsBalanced(h, x) == Depth(h, x) < RPA_FIB_SIZE /\ h.nelems[x] >= rpa_fib[Depth(h, x)]

(* The leaves under x from left to right, in which rpa_add_to_forest meets *)
(* them, and the inner nodes.                                              *)
LeavesUnder(h, x) ==
  LET under[y \in h.live] ==
        IF y \in Leaves THEN <<y>> ELSE under[h.left[y]] \o under[h.right[y]]
  IN  under[x]
InnerUnder(h, x) ==
  LET under[y \in h.live] ==
        IF y \in Leaves THEN {} ELSE {y} \union under[h.left[y]] \union under[h.right[y]]
  IN  under[x]

(* The tree st.top with tree x, if any, concatenated onto its left; and    *)
(* with the trees in slots from..to of a forest, one after the other.      *)
OntoLeft(st, x) ==
  CASE x = Null -> st
    [] x # Null /\ st.top = Null -> [st EXCEPT !.top = x]
    [] OTHER -> [st EXCEPT !.h = RpaConcat(st.h, x, st.top), !.top = NewNode(st.h)]
Gather(st, forest, from, to) ==
  LET after[i \in (from - 1)..to] ==
        IF i < from THEN st ELSE OntoLeft(after[i - 1], forest[i])
  IN  after[to]

(* rpa_add_to_forest for a leaf.  The trees up to the slot for the length  *)
(* of the leaf are made its prefix; going on from there, trees are put     *)
(* before it until the slot that is reached is one for its length.         *)
AddToForest_AtLeafSlot(f, leaf) ==
  LET first == Min({i \in Slots : f.h.nelems[leaf] < rpa_fib[i + 1]})
      prefix == Gather([h |-> f.h, top |-> Null], f.forest, 0, first)
      tree == OntoLeft([prefix EXCEPT !.top = leaf], prefix.top)
  IN  [h |-> tree.h,
       forest |-> [i \in Slots |-> CASE i = first -> tree.top
                                     [] i < first -> Null
                                     [] OTHER -> f.forest[i]]]
AddToForest(f, leaf) ==
  LET size(x) == IF x = Null THEN 0 ELSE f.h.nelems[x]
      upto[i \in Slots] ==
        size(f.forest[i]) + (IF i = 0 THEN size(leaf) ELSE upto[i - 1])
      first == Min({i \in Slots : size(leaf) < rpa_fib[i + 1]})
      slot == Min({i \in Slots : i >= first /\ upto[i] < rpa_fib[i + 1]})
      prefix == Gather([h |-> f.h, top |-> Null], f.forest, 0, first)
      tree == Gather(OntoLeft([prefix EXCEPT !.top = leaf], prefix.top), f.forest, first + 1, slot)
  IN  [h |-> tree.h,
       forest |-> [i \in Slots |-> CASE i = slot -> tree.top
                                     [] i < slot -> Null
                                     [] OTHER -> f.forest[i]]]

(* The forest after some leaves: balanced trees, or so it is meant, from   *)
(* the slot of the longest on in the order of the leaves.                  *)
Forest(h, leaves) ==
  LET after[k \in 0..Len(leaves)] ==
        IF k = 0 THEN [h |-> h, forest |-> [i \in Slots |-> Null]]
        ELSE AddToForest(after[k - 1], leaves[k])
  IN  after[Len(leaves)]

(* rpa_rebalance.  The inner nodes are freed at once here, not each before *)
(* its children are visited.                                               *)
Bare(h, r) == Dealloc(h, InnerUnder(h, h.root[r]))
Rebalance(h, r) ==
  LET f == Forest(Bare(h, r), LeavesUnder(h, h.root[r]))
      all == Gather([h |-> f.h, top |-> Null], f.forest, 0, Max(Slots))
  IN  IF IsBalanced(h, h.root[r]) THEN h ELSE [all.h EXCEPT !.root[r] = all.top]
=============================================================================
