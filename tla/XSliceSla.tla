----------------------------- MODULE XSliceSla -----------------------------
(***************************************************************************)
(* Slices of skip-list arrays (xarray/xarray_sla.h) on the pointers of     *)
(* sla-chunk.c: a slice remembers, for every level, a node and the number  *)
(* of elements before it, so that a search need not start at the head.     *)
(*                                                                         *)
(* The fork-join programs fill an array, take a slice of it, split the     *)
(* slice recursively and read the parts with xslice_getnextchunk; nothing  *)
(* writes to the array meanwhile.                                          *)
(***************************************************************************)
EXTENDS XArraySla

CONSTANTS
  Slices,      (* the slice structures of the program                      *)
  NoSlice      (* a slice structure not in use                             *)

VARIABLE sl    (* the slices: xarr, start, len, ptr *)

sliceVars == <<vars, sl>>

InUse == {x \in Slices : sl[x] # NoSlice}

-----------------------------------------------------------------------------
(* Pointers into a skip list *)

(* sla_setptr: at every level the first node that ends after `key', and    *)
(* the elements before it.  Levels above cur_level are left uninitialised. *)
SetPtr(s, key) ==
  LET update == Traverse(h, s, key)
  IN  [i \in Levels |->
         IF i \in LevelsOf(s)
         THEN [node |-> NextNode(h, update[i].node, i), cnt |-> update[i].cnt]
         ELSE Unset]

PtrEnd_NodeItems(ptr, i) == ptr[i].cnt + NItems(h, ptr[i].node)
PtrEnd(ptr, i) == ptr[i].cnt + Cnt(h, ptr[i].node, i)
PtrStart(ptr, i) == PtrEnd(ptr, i) - NItems(h, ptr[i].node)

(* sla_ptr_find: start at the highest level whose node is not beyond       *)
(* `key'.  A level that was never set finds nothing (NoNode).              *)
PtrFind(s, ptr, key) ==
  LET used == LevelsOf(s)
      at == Max({i \in used : key >= PtrStart(ptr, i)})
  IN  CASE \E i \in used : ptr[i] = Unset -> [node |-> NoNode, off |-> 0]
        [] OTHER ->
             IF key < PtrEnd(ptr, at)
             THEN [node |-> ptr[at].node, off |-> key - PtrStart(ptr, at)]
             ELSE DoFind(h, ptr[at].node, at, PtrEnd(ptr, at), key)

(* sla_ptr_nextchunk: step over the node the pointer is at, on all the     *)
(* levels from the lowest that point to it.                                *)
PtrNextchunk_LevelZero(s, ptr) ==
  LET n == ptr[0].node
  IN  IF n = h.sla[s].tail THEN ptr
      ELSE [ptr EXCEPT ![0] = [node |-> NextNode(h, n, 0), cnt |-> @.cnt + Cnt(h, n, 0)]]
PtrNextchunk(s, ptr) ==
  LET n == ptr[0].node
      over(i) == i \in LevelsOf(s) /\ \A j \in 0..i : ptr[j].node = n
  IN  IF n = h.sla[s].tail THEN ptr
      ELSE [i \in Levels |->
              IF over(i) THEN [node |-> NextNode(h, n, i), cnt |-> ptr[i].cnt + Cnt(h, n, i)]
              ELSE ptr[i]]

(* sla_ptr_setptr: move the pointer forward to `key', level by level. *)
PtrSetPtr(s, ptr, key) ==
  LET walk[n \in AllNodes, i \in Levels, idx \in Nat] ==
        IF n \in Nodes /\ key >= idx + Cnt(h, n, i)
        THEN walk[NextNode(h, n, i), i, idx + Cnt(h, n, i)]
        ELSE [node |-> n, cnt |-> idx]
  IN  [i \in Levels |->
         IF i \in LevelsOf(s) /\ ptr[i] # Unset THEN walk[ptr[i].node, i, ptr[i].cnt] ELSE Unset]

-----------------------------------------------------------------------------
(* Operations *)

(* xslice_init, on elements that exist: sla_setptr asserts idx < size. *)
SliceInit(x, s, idx, len) ==
  /\ s \in open /\ idx < nr[s] /\ idx + len <= nr[s]
  /\ sl' = [sl EXCEPT ![x] = [xarr |-> s, start |-> idx, len |-> len, ptr |-> SetPtr(s, idx)]]
  /\ UNCHANGED vars

(* What xslice_getnextchunk returns: the node, the offset in its chunk and *)
(* the number of elements.                                                 *)
NextChunk(c) ==
  LET off == c.start - c.ptr[0].cnt
  IN  [node |-> c.ptr[0].node, off |-> off, len |-> Min({c.len, ChunkSize - off})]

(* ... and the slice it leaves. *)
AfterChunk_SamePointer(c) ==
  LET got == IF c.len = 0 THEN 0 ELSE NextChunk(c).len
  IN  [c EXCEPT !.start = @ + got, !.len = @ - got]
AfterChunk(c) ==
  LET ptr == PtrNextchunk(c.xarr, c.ptr)
      got == IF c.len = 0 \/ c.ptr[0].node \in Tails THEN 0 ELSE NextChunk(c).len
  IN  [c EXCEPT !.ptr = ptr, !.start = @ + got, !.len = @ - got]

SliceGetNextChunk(x) ==
  /\ x \in InUse
  /\ sl' = [sl EXCEPT ![x] = AfterChunk(@)]
  /\ UNCHANGED vars

(* xslice_getnext, on a slice that is not empty *)
SliceGetNext(x) ==
  /\ x \in InUse /\ sl[x].len > 0
  /\ LET c == sl[x]
         lastOfChunk == ChunkSize - (c.start - c.ptr[0].cnt) = 1
     IN  sl' = [sl EXCEPT ![x] =
                  IF lastOfChunk THEN AfterChunk(c)
                  ELSE [c EXCEPT !.start = @ + 1, !.len = @ - 1]]
  /\ UNCHANGED vars

(* xslice_split: y gets the first half of slice x, z the second.           *)
(* An empty slice at the end of its array fails the assertion of           *)
(* sla_ptr_setptr; callers split slices longer than their recursion limit. *)
SliceSplit(x, y, z) ==
  /\ x \in InUse /\ y # z /\ sl[x].len > 0
  /\ LET c == sl[x]
         l1 == c.len \div 2
     IN  sl' = [sl EXCEPT
           ![y] = [c EXCEPT !.len = l1],
           ![z] = [c EXCEPT !.start = @ + l1, !.len = @ - l1,
                            !.ptr = PtrSetPtr(c.xarr, c.ptr, c.start + l1)]]
  /\ UNCHANGED vars

(* The slice structure goes out of scope. *)
SliceDrop(x) ==
  /\ x \in InUse
  /\ sl' = [sl EXCEPT ![x] = NoSlice]
  /\ UNCHANGED vars

(* The array operations that build what is sliced. *)
Build == InUse = {} /\ Next /\ UNCHANGED sl

(* Slices change nothing they share, so one family at a time, the *)
(* descendants of one xslice_init, shows all there is to see.             *)
SliceSetUp == Init /\ sl = [x \in Slices |-> NoSlice]

SliceNext ==
  \/ Build
  \/ \E x \in Slices :
       \/ /\ InUse = {}
          /\ \E s \in Slas : \E idx, len \in 0..nr[s] : SliceInit(x, s, idx, len)
       \/ SliceGetNextChunk(x)
       \/ SliceGetNext(x)
       \/ \E y, z \in Slices : SliceSplit(x, y, z)
       \/ SliceDrop(x)

SliceSpec == SliceSetUp /\ [][SliceNext]_sliceVars

-----------------------------------------------------------------------------
(* Properties *)

(* Where element `key' of s is, found by counting along level 0. *)
Locate(s, key) ==
  LET n == SelectSeq(Chain(s, 0), LAMBDA m : EndOf(s, m) > key)[1]
  IN  [node |-> n, off |-> key - (EndOf(s, n) - Len(h.chunk[n]))]

(* xslice_get: every element of every slice is found from its pointer,     *)
(* however the slice came about by splitting and by reading from it.       *)
SliceGetFindsElement ==
  \A x \in InUse : \A idx \in 0..(sl[x].len - 1) :
    PtrFind(sl[x].xarr, sl[x].ptr, sl[x].start + idx) = Locate(sl[x].xarr, sl[x].start + idx)

(* An array that only grew: every chunk but the last one is full.  After a *)
(* concatenation xslice_getnextchunk takes the capacity of a partly filled *)
(* chunk for its length, and the slice skips elements (xarray_sla.h:415).  *)
OnlyGrew(s) ==
  \A k \in DOMAIN Chain(s, 0) : k < Len(Chain(s, 0)) => NItems(h, Chain(s, 0)[k]) = ChunkSize

(* xslice_getnextchunk returns the elements that come next: the chunk      *)
(* starts at the first element of the slice, holds at least one, and all   *)
(* the elements it is said to hold are elements of its node.               *)
NextChunkIsNextElements ==
  \A x \in InUse : sl[x].len > 0 /\ OnlyGrew(sl[x].xarr) =>
    LET c == NextChunk(sl[x])
    IN  /\ [node |-> c.node, off |-> c.off] = Locate(sl[x].xarr, sl[x].start)
        /\ c.len > 0 /\ c.off + c.len <= NItems(h, c.node)

(* tests ptr.c and ptr-nextchunk.c: a pointer that was moved forward, by   *)
(* sla_ptr_setptr or sla_ptr_nextchunk, is the pointer sla_setptr would    *)
(* have made for the same element.                                         *)
MovedPointerIsFreshPointer ==
  \A x \in InUse : sl[x].len > 0 /\ OnlyGrew(sl[x].xarr) =>
    sl[x].ptr = SetPtr(sl[x].xarr, sl[x].start)
=============================================================================
