------------------------------ MODULE XArrayRpa ------------------------------
(***************************************************************************)
(* The array interface over ropes (xarray/xarray_rpa.h), the second        *)
(* implementation of XArraySpec.  An array is used by one task at a time;  *)
(* between xarray_append_prepare and _finalize other arrays may change.    *)
(* Splitting is not implemented for ropes (xarray_rpa.h:132).              *)
(***************************************************************************)
EXTENDS Rope

CONSTANT Gone    (* no array *)

(* Gone is no sequence of values: an array that is gone shows.             *)
ASSUME GoneAssumption == Gone \notin Seq(Vals)

VARIABLES
  h,       (* the heap                                             *)
  prep     (* arrays between append_prepare and append_finalize    *)

vars == <<h, prep>>

open == {r \in Ropes : h.root[r] # Null}
Idle(r) == r \in open \ prep

TypeOK ==
  /\ h.live \subseteq Hdrs
  /\ h.nelems \in [Hdrs -> Nat] /\ h.parent \in [Hdrs -> Inner \union {Null}]
  /\ h.left \in [Inner -> Hdrs \union {Null}] /\ h.right \in [Inner -> Hdrs \union {Null}]
  /\ h.depth \in [Inner -> Nat] /\ h.data \in [Leaves -> Seq(Vals)]
  /\ h.root \in [Ropes -> Hdrs \union {Null}] /\ h.tail \in [Ropes -> Leaves \union {Null}]
  /\ prep \subseteq open

Init == h = InitHeap /\ prep = {}

(* The bound on the leaves: an operation that may need one finds one. *)
LeafLeft == Leaves \ h.live # {}

(* xarray_create, rpa_init *)
Create(r) ==
  /\ r \notin open /\ LeafLeft
  /\ h' = [LeafAlloc(h) EXCEPT !.root[r] = NewLeaf(h), !.tail[r] = NewLeaf(h)]
  /\ UNCHANGED prep

(* xarray_append, rpa_append *)
Append1(r, v) ==
  /\ Idle(r) /\ (TailFull(h, r) => LeafLeft)
  /\ h' = Finalize(MakeRoom(h, r), r, <<v>>)
  /\ UNCHANGED prep

(* xarray_append_prepare *)
AppendPrepare(r) ==
  /\ Idle(r) /\ (TailFull(h, r) => LeafLeft)
  /\ h' = MakeRoom(h, r)
  /\ prep' = prep \union {r}

(* xarray_append_finalize, for what fits in the tail *)
AppendFinalize(r, vs) ==
  /\ r \in prep /\ h.nelems[h.tail[r]] + Len(vs) <= Grain
  /\ h' = Finalize(h, r, vs)
  /\ prep' = prep \ {r}

(* The loop of xarray_pop: rpa_pop until k elements are gone. *)
PopElems(r, k) ==
  LET rounds == k + Cardinality(Leaves)
      step(st) ==
        LET p == RpaPop(st.h, r, st.left)
        IN  IF st.left = 0 THEN st ELSE [h |-> p.h, left |-> st.left - p.popped]
      after[i \in 0..rounds] == IF i = 0 THEN [h |-> h, left |-> k] ELSE step(after[i - 1])
  IN  after[rounds].h

(* xarray_pop *)
Pop(r, k) ==
  /\ Idle(r) /\ k \in 1..Size(h, r)
  /\ h' = PopElems(r, k)
  /\ UNCHANGED prep

(* xarray_concat: r2 is destroyed. *)
Concat(r, r2) ==
  /\ r # r2 /\ Idle(r) /\ Idle(r2)
  /\ h' = Concatenate(h, r, r2)
  /\ UNCHANGED prep

(* xarray_rebalance *)
RebalanceArray(r) ==
  /\ Idle(r)
  /\ h' = Rebalance(h, r)
  /\ UNCHANGED prep

Buffers == UNION {[1..k -> Vals] : k \in 1..Grain}

Next ==
  \E r \in Ropes :
    \/ Create(r)
    \/ \E v \in Vals : Append1(r, v)
    \/ AppendPrepare(r)
    \/ \E vs \in Buffers : AppendFinalize(r, vs)
    \/ \E k \in 1..(Cardinality(Leaves) * Grain) : r \in open /\ Pop(r, k)
    \/ \E r2 \in Ropes : Concat(r, r2)
    \/ RebalanceArray(r)

Spec == Init /\ [][Next]_vars

-----------------------------------------------------------------------------
(* Properties *)

(* The elements under x, leaf by leaf. *)
Contents(r) ==
  LET leaves == LeavesUnder(h, h.root[r])
  IN  FlattenSeq([k \in DOMAIN leaves |-> h.data[leaves[k]]])
NoEmptyLeaf(r) == \A l \in ToSet(LeavesUnder(h, h.root[r])) : h.nelems[l] > 0

(* do_rpa_verify, for every node and not only the root: lengths are sums   *)
(* and stored depths are depths; and the links agree: children point to    *)
(* their parent, the root to none, the tail is the last leaf.              *)
TreesAreSound ==
  TypeOK /\ \A r \in open :
    /\ h.parent[h.root[r]] = Null /\ h.tail[r] = Last(LeavesUnder(h, h.root[r]))
    /\ \A l \in ToSet(LeavesUnder(h, h.root[r])) :
         h.nelems[l] = Len(h.data[l]) /\ h.nelems[l] <= Grain
    /\ \A n \in InnerUnder(h, h.root[r]) :
         /\ h.parent[h.left[n]] = n /\ h.parent[h.right[n]] = n
         /\ h.nelems[n] = h.nelems[h.left[n]] + h.nelems[h.right[n]]
         /\ h.depth[n] = 1 + Max({Depth(h, h.left[n]), Depth(h, h.right[n])})

(* Every allocated leaf and node is in one rope, once; none is in use      *)
(* after it was freed, though concatenating and balancing move them.       *)
Owned(r) == InnerUnder(h, h.root[r]) \union ToSet(LeavesUnder(h, h.root[r]))
HdrsOwnedOnce ==
  /\ h.live = UNION {Owned(r) : r \in open}
  /\ \A r, s \in open : r # s => Owned(r) \intersect Owned(s) = {}

(* xarray_get: the descent by lengths lands on the element the index       *)
(* stands for, whatever mix of operations built the tree.                  *)
GetReadsElement ==
  \A r \in open : \A idx \in 0..(Size(h, r) - 1) :
    LET f == GetLeaf(h, h.root[r], idx)
    IN  f.off < h.nelems[f.hdr] /\ h.data[f.hdr][f.off + 1] = Contents(r)[idx + 1]

(* rope_array.c:406-412, the forest that rebalancing builds: there is one  *)
(* rope for each length interval [F_n, F_n+1), and the ropes in order of   *)
(* decreasing length are the leaves traversed so far.  Empty leaves, which *)
(* concatenating empty ropes leaves behind, fit no interval.               *)
ForestIsOrdered ==
  \A r \in open : NoEmptyLeaf(r) =>
    LET leaves == LeavesUnder(h, h.root[r])
    IN  \A k \in DOMAIN leaves :
          LET f == Forest(Bare(h, r), SubSeq(leaves, 1, k))
              under(i) == IF f.forest[i] = Null THEN <<>> ELSE LeavesUnder(f.h, f.forest[i])
              last == Max(Slots)
          IN  /\ \A i \in Slots : f.forest[i] # Null =>
                   f.h.nelems[f.forest[i]] \in rpa_fib[i]..(rpa_fib[i + 1] - 1)
              /\ FlattenSeq([j \in 1..(last + 1) |-> under(last + 1 - j)]) = SubSeq(leaves, 1, k)

(* The arrays behave as sequences (XArraySpec); balancing does not show. *)
Abstract == INSTANCE XArraySpec WITH
  Arrays <- Ropes, arr <- [r \in Ropes |-> IF r \in open THEN Contents(r) ELSE Gone]
ImplementsArrays == Abstract!Spec
=============================================================================
