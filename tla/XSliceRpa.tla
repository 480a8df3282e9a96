------------------------------ MODULE XSliceRpa ------------------------------
(***************************************************************************)
(* Slices of ropes (the end of xarray/rope_array.h, xarray/xarray_rpa.h).  *)
(* To avoid searches from the root a slice remembers hdr0, the smallest    *)
(* node with all its elements, and leaf0, the leaf of its first element.   *)
(*                                                                         *)
(* The fork-join programs split a slice, then may read single elements,    *)
(* then read chunks until it is empty; nothing writes to the array         *)
(* meanwhile.                                                              *)
(***************************************************************************)
EXTENDS XArrayRpa

CONSTANTS
  Slices,      (* the slice structures of the program *)
  NoSlice      (* a slice structure not in use        *)

(* The slices: rpa, start, len, hdr0 and off (hdr0_off), leaf0 and leafOff *)
(* (leaf0_off), and whether the program has begun to read chunks.          *)
VARIABLE sl

sliceVars == <<vars, sl>>

InUse == {x \in Slices : sl[x] # NoSlice}

-----------------------------------------------------------------------------
(* Moving inside a rope *)

(* Slice c over the elements from `off' of x, found from x down, with      *)
(* leaf0 to be found later. *)
Over(c, x, off) ==
  LET at == GetHdrRange(h, x, off, c.len)
  IN  [c EXCEPT !.hdr0 = at.hdr, !.off = at.off, !.leaf0 = Null, !.leafOff = 0]

(* rpa_slice_leaf0_init *)
FindLeaf0(c) ==
  LET at == GetLeaf(h, c.hdr0, c.off)
  IN  [c EXCEPT !.leaf0 = at.hdr, !.leafOff = at.off]
WithLeaf0(c) == IF c.leaf0 = Null THEN FindLeaf0(c) ELSE c

Leftmost(x) == Head(LeavesUnder(h, x))

(* What is under hdr0, without hdr0 itself.                                *)
Inside(c) == (InnerUnder(h, c.hdr0) \union ToSet(LeavesUnder(h, c.hdr0))) \ {c.hdr0}

(* The loop of rpa_slice_getnextchunk: up from leaf0 to hdr0, whose right  *)
(* child then is where the slice goes on; or only to a node reached from   *)
(* its left child, and down again to the next leaf.                        *)
NextLeaf_SameOffset(c) ==
  LET climb[x \in Inside(c)] ==
        LET p == h.parent[x]
        IN  CASE p = c.hdr0 -> FindLeaf0(Over(c, h.right[p], c.off))
              [] p # c.hdr0 /\ h.left[p] = x ->
                   [c EXCEPT !.leaf0 = Leftmost(h.right[p]), !.leafOff = 0]
              [] OTHER -> climb[p]
  IN  climb[c.leaf0]
NextLeaf(c) ==
  LET climb[x \in Inside(c)] ==
        LET p == h.parent[x]
        IN  CASE p = c.hdr0 -> FindLeaf0(Over(c, h.right[p], 0))
              [] p # c.hdr0 /\ h.left[p] = x ->
                   [c EXCEPT !.leaf0 = Leftmost(h.right[p]), !.leafOff = 0]
              [] OTHER -> climb[p]
  IN  climb[c.leaf0]

(* What xslice_getnextchunk returns of slice c, and the slice it leaves. *)
NextChunk(c) ==
  LET c1 == WithLeaf0(c)
  IN  [leaf |-> c1.leaf0, off |-> c1.leafOff,
       len |-> Min({c.len, h.nelems[c1.leaf0] - c1.leafOff})]
AfterChunk(c) ==
  LET got == NextChunk(c).len
      c2 == [WithLeaf0(c) EXCEPT !.start = @ + got, !.len = @ - got, !.reading = TRUE]
  IN  CASE c.len = 0 -> [c EXCEPT !.reading = TRUE]
        [] c.len > 0 /\ c2.len = 0 -> c2
        [] OTHER -> NextLeaf(c2)

(* rpa_slice_move_start by one element, leaf0 being known *)
MoveStart_LeafOnly(c) ==
  LET c1 == [c EXCEPT !.start = @ + 1, !.len = @ - 1]
      at == GetLeaf(h, c.hdr0, c.off + 1)
  IN  IF c1.len = 0 THEN c1 ELSE [c1 EXCEPT !.leaf0 = at.hdr, !.leafOff = at.off]
MoveStart(c) ==
  LET c1 == [c EXCEPT !.start = @ + 1, !.len = @ - 1]
  IN  IF c1.len = 0 THEN c1 ELSE FindLeaf0(Over(c1, c.hdr0, c.off + 1))

-----------------------------------------------------------------------------
(* Operations *)

(* xslice_init; a leaf that is empty fails the assertion of the readers    *)
(* (rope_array.h:329).                                                     *)
SliceInit(x, r, idx, len) ==
  /\ r \in open /\ NoEmptyLeaf(r)
  /\ idx < Size(h, r) /\ idx + len <= Size(h, r)
  /\ LET c == [rpa |-> r, start |-> idx, len |-> len, hdr0 |-> Null, off |-> 0,
               leaf0 |-> Null, leafOff |-> 0, reading |-> FALSE]
     IN  sl' = [sl EXCEPT ![x] = Over(c, h.root[r], idx)]
  /\ UNCHANGED vars

(* xslice_getnextchunk *)
SliceGetNextChunk(x) ==
  /\ x \in InUse
  /\ sl' = [sl EXCEPT ![x] = AfterChunk(@)]
  /\ UNCHANGED vars

(* xslice_getnext, on a slice that is not empty *)
SliceGetNext(x) ==
  /\ x \in InUse /\ ~ sl[x].reading /\ sl[x].len > 0
  /\ sl' = [sl EXCEPT ![x] = MoveStart(WithLeaf0(@))]
  /\ UNCHANGED vars

(* xslice_split: y gets the first half of slice x, z the second.  y is     *)
(* another structure than x, which is read again after y is filled.        *)
SliceSplit(x, y, z) ==
  /\ x \in InUse /\ ~ sl[x].reading /\ sl[x].len > 0 /\ y # z /\ y # x
  /\ LET c == sl[x]
         l1 == c.len \div 2
         first == [c EXCEPT !.len = l1]
         second == [c EXCEPT !.start = @ + l1, !.len = @ - l1]
     IN  sl' = [sl EXCEPT ![y] = Over(first, c.hdr0, c.off),
                          ![z] = Over(second, c.hdr0, c.off + l1)]
  /\ UNCHANGED vars

(* The slice structure goes out of scope. *)
SliceDrop(x) ==
  /\ x \in InUse
  /\ sl' = [sl EXCEPT ![x] = NoSlice]
  /\ UNCHANGED vars

SliceSetUp == Init /\ sl = [x \in Slices |-> NoSlice]

(* Slices change nothing they share, so one family at a time, the          *)
(* descendants of one xslice_init, shows all there is to see.              *)
SliceNext ==
  \/ InUse = {} /\ Next /\ UNCHANGED sl
  \/ \E x \in Slices :
       \/ /\ InUse = {}
          /\ \E r \in open : \E idx, len \in 0..Size(h, r) : SliceInit(x, r, idx, len)
       \/ SliceGetNextChunk(x)
       \/ SliceGetNext(x)
       \/ \E y, z \in Slices : SliceSplit(x, y, z)
       \/ SliceDrop(x)

SliceSpec == SliceSetUp /\ [][SliceNext]_sliceVars

-----------------------------------------------------------------------------
(* Properties *)

(* Where element `key' of r is, found by counting leaf by leaf. *)
Locate(r, key) ==
  LET leaves == LeavesUnder(h, h.root[r])
      upto[k \in 0..Len(leaves)] == IF k = 0 THEN 0 ELSE upto[k - 1] + h.nelems[leaves[k]]
      at == CHOOSE k \in DOMAIN leaves : upto[k - 1] <= key /\ key < upto[k]
  IN  [hdr |-> leaves[at], off |-> key - upto[at - 1]]

(* xslice_getnextchunk returns the elements that come next, however the    *)
(* slice came about by splitting, by reading single elements and chunks:   *)
(* the chunk starts at the first element of the slice, holds at least one  *)
(* and none beyond its leaf.                                               *)
NextChunkIsNextElements ==
  \A x \in InUse : sl[x].len > 0 =>
    LET c == NextChunk(sl[x])
    IN  /\ [hdr |-> c.leaf, off |-> c.off] = Locate(sl[x].rpa, sl[x].start)
        /\ c.len > 0 /\ c.off + c.len <= h.nelems[c.leaf]

(* rope_array.h:250-253, the fields of a slice: until the program reads    *)
(* chunks hdr0 is the smallest node with the whole slice and hdr0_off the  *)
(* place of the slice in it, as a search from the root would find them;    *)
(* leaf0, once it is known, is the leaf of the first element.              *)
HdrCoversSlice ==
  \A x \in InUse : sl[x].len > 0 =>
    /\ ~ sl[x].reading =>
         [hdr |-> sl[x].hdr0, off |-> sl[x].off]
           = GetHdrRange(h, h.root[sl[x].rpa], sl[x].start, sl[x].len)
    /\ sl[x].leaf0 # Null =>
         [hdr |-> sl[x].leaf0, off |-> sl[x].leafOff] = Locate(sl[x].rpa, sl[x].start)

(* rpa_slice_getchunk: what xslice_get finds for element idx of slice c *)
SliceGet(c, idx) == GetLeaf(h, c.hdr0, c.off)

(* rope_array.h:256: "->hdr0 is used for random access": xslice_get(i)     *)
(* returns element i of the slice.                                         *)
SliceGetFindsElement ==
  \A x \in InUse : ~ sl[x].reading =>
    \A idx \in 0..(sl[x].len - 1) :
      SliceGet(sl[x], idx) = Locate(sl[x].rpa, sl[x].start + idx)
=============================================================================
