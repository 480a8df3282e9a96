------------------------------ MODULE DynArray ------------------------------
(***************************************************************************)
(* Arrays over one growing block of memory: dynarray.c and dynarray.h, and *)
(* the xarray interface over it (xarray_dynarray.c, xarray_dynarray.h).    *)
(*                                                                         *)
(* realloc may move the block.  The callers hold pointers into it, so an   *)
(* array counts its moves and a pointer remembers the count: what is       *)
(* written through a pointer from before a move does not reach the array.  *)
(***************************************************************************)
EXTENDS Integers, Sequences

Junk == <<>>   (* an element that nobody has written *)

(* struct dynarray: elems has elems_nr elements *)
Fresh(n) == [i \in 1..n |-> Junk]

RoundUp(x, y) == ((x + (y - 1)) \div y) * y

(* dynarray_init *)
DaInit(grain, nr) ==
  [elems |-> Fresh(IF nr = 0 THEN grain ELSE RoundUp(nr, grain)),
   next_idx |-> 0, alloc_grain |-> grain, moved |-> 0]

Contents(da) == SubSeq(da.elems, 1, da.next_idx)

(* k calls of dynarray_expand; moves says what realloc does. *)
DaExpand(da, k, moves) ==
  [da EXCEPT !.elems = @ \o Fresh(k * da.alloc_grain),
             !.moved = IF moves /\ k > 0 THEN @ + 1 ELSE @]

(* A pointer to an element, and a write through it. *)
PointerTo(da, idx) == [moved |-> da.moved, idx |-> idx]
Store(da, ptr, v) ==
  IF ptr.moved = da.moved THEN [da EXCEPT !.elems[ptr.idx + 1] = v] ELSE da

(* dynarray_get aborts outside the array. *)
InBounds(da, idx) == idx \in 0..(da.next_idx - 1)
DaGet(da, idx) == da.elems[idx + 1]

(* dynarray_alloc, which is xarray_append *)
DaAlloc(da, moves) ==
  [DaExpand(da, IF da.next_idx >= Len(da.elems) THEN 1 ELSE 0, moves) EXCEPT !.next_idx = @ + 1]

(* dynarray_alloc_nr: the loop stops with room for more than nr elements.  *)
DaAllocNr(da, nr, moves) ==
  LET end == da.next_idx + nr
      rounds == IF end < Len(da.elems) THEN 0 ELSE (end - Len(da.elems)) \div da.alloc_grain + 1
  IN  [DaExpand(da, rounds, moves) EXCEPT !.next_idx = end]

(* xarray_append_prepare: the array, the pointer that the caller gets, how *)
(* many elements fit, and how many the caller has put there.               *)
AppendPrepare_PointerBeforeExpand(da, moves) ==
  LET d == DaExpand(da, IF da.next_idx >= Len(da.elems) THEN 1 ELSE 0, moves)
  IN  [da |-> d, ptr |-> PointerTo(da, d.next_idx), cap |-> Len(d.elems) - d.next_idx, n |-> 0]

AppendPrepare(da, moves) ==
  LET d == DaExpand(da, IF da.next_idx >= Len(da.elems) THEN 1 ELSE 0, moves)
  IN  [da |-> d, ptr |-> PointerTo(d, d.next_idx), cap |-> Len(d.elems) - d.next_idx, n |-> 0]

(* xarray_append_finalize *)
AppendFinalize(da, nelems) == [da EXCEPT !.next_idx = @ + nelems]

(* xarray_pop, for arrays with as many elements *)
DaPop(da, elems) == [da EXCEPT !.next_idx = @ - elems]

(* memcpy of the elements vs to a pointer *)
Copy(da, ptr, vs) ==
  IF ptr.moved = da.moved
  THEN [da EXCEPT !.elems = [i \in DOMAIN da.elems |->
          IF i - ptr.idx \in DOMAIN vs THEN vs[i - ptr.idx] ELSE da.elems[i]]]
  ELSE da

(* xarray_concat: the elements of da2 are copied behind those of da1. *)
DaConcat_CopiesBeforeExpand(da1, da2, moves) ==
  IF da2.next_idx = 0 THEN da1
  ELSE Copy(DaAllocNr(da1, da2.next_idx, moves), PointerTo(da1, da1.next_idx), Contents(da2))

DaConcat(da1, da2, moves) ==
  LET d == DaAllocNr(da1, da2.next_idx, moves)
  IN  IF da2.next_idx = 0 THEN da1 ELSE Copy(d, PointerTo(d, da1.next_idx), Contents(da2))
=============================================================================
