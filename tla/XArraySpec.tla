----------------------------- MODULE XArraySpec -----------------------------
(***************************************************************************)
(* What the xarray interface (xarray/xarray.h) promises, whatever its      *)
(* implementation: an array is a sequence of elements that grows and       *)
(* shrinks at its end, can be concatenated with another one (which is then *)
(* gone) and can be cut in two.  The implementations refine this module.   *)
(*                                                                         *)
(* An operation is a relation between the contents of all arrays before    *)
(* (old) and after it (new).                                               *)
(***************************************************************************)
EXTENDS Naturals, SequencesExt

CONSTANTS
  Arrays,   (* the array handles a program holds     *)
  Vals,     (* the elements                          *)
  Grain,    (* the elements of one chunk             *)
  Gone      (* the value of a handle with no array   *)

VARIABLE arr    (* the contents of every array *)

Live(old, a) == old[a] # Gone
Same(old, new, changed) == \A a \in Arrays \ changed : new[a] = old[a]

Init == arr = [a \in Arrays |-> Gone]

(* xarray_create: an empty array. *)
Create(old, new, a) ==
  ~ Live(old, a) /\ new[a] = <<>> /\ Same(old, new, {a})

(* xarray_append, or xarray_append_prepare / _finalize: new elements go to *)
(* the end, in order, and nothing else moves.                              *)
Extend(old, new, a) ==
  /\ Live(old, a) /\ Live(new, a) /\ IsStrictPrefix(old[a], new[a])
  /\ Same(old, new, {a})

(* xarray_pop: some elements at the end are discarded. *)
Pop(old, new, a) ==
  /\ Live(old, a) /\ Live(new, a) /\ IsStrictPrefix(new[a], old[a])
  /\ Same(old, new, {a})

(* A write through the pointer that xarray_get returned changes the element *)
(* it was asked for.                                                        *)
Write(old, new, a) ==
  /\ Live(old, a) /\ Live(new, a)
  /\ \E i \in DOMAIN old[a], v \in Vals : new[a] = [old[a] EXCEPT ![i] = v]
  /\ Same(old, new, {a})

(* xarray_concat: a gets the elements of b after its own; b is invalid. *)
Concat(old, new, a, b) ==
  /\ a # b /\ Live(old, a) /\ Live(old, b)
  /\ new[a] = old[a] \o old[b] /\ ~ Live(new, b)
  /\ Same(old, new, {a, b})

(* sla_split_coarse: b gets the end of a.  The cut is at a requested offset *)
(* or before it by less than a chunk ("within a constant", xarray.h:125).   *)
Split(old, new, a, b) ==
  /\ Live(old, a) /\ ~ Live(old, b) /\ Live(new, a) /\ Live(new, b)
  /\ old[a] = new[a] \o new[b]
  /\ \E offset \in 1..(Len(old[a]) - 1) : offset - Len(new[a]) \in 0..(Grain - 1)
  /\ Same(old, new, {a, b})

(* Every operation changes some array. *)
Operation(old, new) ==
  /\ new # old
  /\ \E a \in Arrays :
       \/ Create(old, new, a) \/ Extend(old, new, a) \/ Pop(old, new, a)
       \/ \E b \in Arrays : Concat(old, new, a, b) \/ Split(old, new, a, b)

Next == Operation(arr, arr')

Spec == Init /\ [][Next]_arr

(* A program that uses arrays also writes to their elements.               *)
UseNext == Next \/ \E a \in Arrays : Write(arr, arr', a)

UseSpec == Init /\ [][UseNext]_arr
=============================================================================
