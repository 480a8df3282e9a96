------------------------------- MODULE SlrCpp -------------------------------
(***************************************************************************)
(* The C++ port of the skip list, xarray++/sl.hh: SLR, SLA, slr_split and  *)
(* sla_copyto_rand (the test sla-find.cc), on the heap of Sla.  Its loops  *)
(* go through the levels one by one where Sla writes down what they amount *)
(* to.                                                                     *)
(*                                                                         *)
(* The templates nobody can instantiate are left out: add_node_head,       *)
(* pop_head and sla_pop_tail call a node_cnt that does not exist, and      *)
(* slr_concat, sla_concat and sla_copyto name members an SLA does not have *)
(* or pass a pointer for a reference.  Chunks have room for ChunkSize      *)
(* elements; the test draws the size of every chunk.                       *)
(***************************************************************************)
EXTENDS XSliceSla

Put(g, m, i, node) == [g EXCEPT !.fwd[m][i].node = node]
Add(g, m, i, k) == [g EXCEPT !.fwd[m][i].cnt = @ + k]
Set(g, m, i, k) == [g EXCEPT !.fwd[m][i].cnt = k]

Upto(n) == [k \in 1..n |-> k - 1]
Downfrom(n) == [k \in 1..n |-> n - k]

(* SLR::reset, which the constructor calls *)
Reset(g, s) ==
  LET tail == g.sla[s].tail
  IN  Set(Put(Put([g EXCEPT !.sla[s].cur = 1, !.sla[s].total = 0], HeadOf(s), 0, tail),
              tail, 0, HeadOf(s)),
          tail, 0, 0)

(* SLR::verify: the counts of the nodes of a level, summed by the iterator *)
(* of that level, and of its tail.                                         *)
Verify(g, s) ==
  \A i \in 0..(g.sla[s].cur - 1) :
    LET sum[n \in AllNodes, fuel \in Nat] ==
          IF n = g.sla[s].tail THEN Cnt(g, n, i)
          ELSE IF fuel = 0 THEN g.sla[s].total + 1
          ELSE Cnt(g, n, i) + sum[NextNode(g, n, i), fuel - 1]
    IN  sum[HeadNode(g, s, i), Cardinality(Nodes)] = g.sla[s].total

-----------------------------------------------------------------------------
(* SLR::traverse: at every level as far right as the nodes end at or       *)
(* before `key'.                                                           *)
GoesOn(key, next_idx) == key >= next_idx
Update(g, s, key) ==
  LET right[i \in Levels, n \in AllNodes, idx \in Nat] ==
        LET next == NextNode(g, n, i)
            next_idx == idx + Cnt(g, next, i)
        IN  IF GoesOn(key, next_idx) THEN right[i, next, next_idx]
            ELSE [node |-> n, cnt |-> idx]
      step(st, i) ==
        LET at == right[i, st.node, st.cnt]
        IN  [node |-> at.node, cnt |-> at.cnt, update |-> (i :> at) @@ st.update]
  IN  FoldLeft(step, [node |-> HeadOf(s), cnt |-> 0, update |-> <<>>],
               Downfrom(g.sla[s].cur)).update

(* SLA::find and do_find, one level after the other: where the search is,  *)
(* and the offset of the element once its node is found.                   *)
FindCpp(g, s, key) ==
  LET walk[i \in Levels, n \in AllNodes, idx \in Nat] ==
        LET next == NextNode(g, n, i)
            next_e == idx + Cnt(g, next, i)
            next_s == next_e - NItems(g, next)
        IN  IF key < next_s \/ next \notin Nodes THEN [node |-> n, idx |-> idx, found |-> FALSE]
            ELSE IF key < next_e
            THEN [node |-> next, idx |-> idx, found |-> TRUE, off |-> key - next_s]
            ELSE walk[i, next, next_e]
      step(st, i) == IF st.found THEN st ELSE walk[i, st.node, st.idx]
  IN  FoldLeft(step, [node |-> HeadOf(s), idx |-> 0, found |-> FALSE], Downfrom(g.sla[s].cur))

-----------------------------------------------------------------------------
(* SLA::new_node, with a buffer and a level: no elements yet *)
NewNode(g, n) == [Alloc(g, n) EXCEPT !.fwd[n] = [i \in Levels |-> Unset]]

(* SLR::append_node: the levels above cur_level begin with the node, which *)
(* also sets up their tail; the levels it joins; and those it is not on.   *)
LinkLast(g, s, n, i, before, skipped) ==
  LET tail == g.sla[s].tail
  IN  Add(Put(Put(Put(g, before, i, n), n, i, tail), tail, i, n), n, i, skipped)
StartLevel_LeavesTailCnt(g, s, n, i) == LinkLast(g, s, n, i, HeadOf(s), g.sla[s].total)
StartLevel(g, s, n, i) ==
  Set(LinkLast(g, s, n, i, HeadOf(s), g.sla[s].total), g.sla[s].tail, i, 0)
JoinLevel(g, s, n, i) ==
  Set(LinkLast(g, s, n, i, TailNode(g, s, i), TailCnt(g, s, i)), g.sla[s].tail, i, 0)
AppendNodeCpp(g, s, n, lvl) ==
  LET cur == g.sla[s].cur
      level(f, i) ==
        CASE i < cur /\ i < lvl -> JoinLevel(f, s, n, i)
          [] i >= cur /\ i < lvl -> StartLevel(f, s, n, i)
          [] i < cur /\ i >= lvl -> Add(f, g.sla[s].tail, i, NItems(g, n))
          [] OTHER -> f
  IN  [FoldLeft(level, g, Upto(MaxLevel)) EXCEPT
         !.sla[s].cur = Max({@, lvl}), !.sla[s].total = @ + NItems(g, n)]

(* SLA::append_tailnode: the room in the tail node, and the copy *)
Room(g, s) ==
  LET n == TailNode(g, s, 0)
  IN  IF n = HeadOf(s) THEN 0 ELSE ChunkSizeOf(n) - NItems(g, n)
AppendTail(g, s, vs) ==
  LET n == TailNode(g, s, 0)
      clen == Min({Room(g, s), Len(vs)})
      level(f, i) == Add(f, IF TailNode(g, s, i) = n THEN n ELSE g.sla[s].tail, i, clen)
      g1 == [FoldLeft(level, g, Upto(g.sla[s].cur)) EXCEPT !.sla[s].total = @ + clen]
  IN  IF clen = 0 THEN g ELSE [g1 EXCEPT !.chunk[n] = @ \o SubSeq(vs, 1, clen)]

(* sla_copyto_rand, which gets the nodes ns with the levels lvls: elements *)
(* go to the tail node until it is full, and then to a new one.            *)
CopyTo(g, s, vs, ns, lvls) ==
  LET copy(f, left) ==
        LET f1 == AppendTail(f, s, left)
        IN  [g |-> f1, left |-> SubSeq(left, f1.sla[s].total - f.sla[s].total + 1, Len(left))]
      step(st, k) ==
        IF st.left = <<>> THEN st
        ELSE copy(AppendNodeCpp(NewNode(st.g, ns[k]), s, ns[k], lvls[k]), st.left)
  IN  FoldLeft(step, copy(g, vs), [k \in DOMAIN ns |-> k]).g

-----------------------------------------------------------------------------
(* slr_split with slr1 = NULL, from the top level down *)
SplitLevel(g, s, s2, update, i) ==
  LET tail == g.sla[s].tail
      tail2 == g.sla[s2].tail
      slr1_n == update[i].node
      slr2_n == NextNode(g, slr1_n, i)
      dcnt == update[0].cnt - update[i].cnt
      ti == TailNode(g, s, i)
      g1 == [Put(g, HeadOf(s2), i, slr2_n) EXCEPT !.fwd[slr2_n][i].cnt = @ - dcnt]
      g2 == Set(Put(Put(g1, ti, i, tail2), tail2, i, ti), tail2, i, TailCnt(g1, s, i))
      g3 == IF ti # slr1_n THEN [g2 EXCEPT !.sla[s2].cur = Max({@, i + 1})] ELSE g1
  IN  Set(Put(Put(g3, slr1_n, i, tail), tail, i, slr1_n), tail, i, dcnt)

SlrSplit(g, s, s2, offset) ==
  LET update == Update(g, s, offset)
      g1 == FoldLeft(LAMBDA f, i : SplitLevel(f, s, s2, update, i), Reset(g, s2),
                     Downfrom(g.sla[s].cur))
      used == {i \in 0..(g.sla[s].cur - 1) : HeadNode(g1, s, i) # g.sla[s].tail}
  IN  [g1 EXCEPT !.sla[s].cur = Max({1} \union {i + 1 : i \in used}),
                 !.sla[s].total = update[0].cnt,
                 !.sla[s2].total = g.sla[s].total - update[0].cnt]

-----------------------------------------------------------------------------
(* Properties *)

(* tests/sla-find.cc: when s, which holds the elements `before', is filled *)
(* by sla_copyto_rand with all free nodes, whatever their levels, verify   *)
(* passes and find reads every element back.                               *)
FillAndFind(g, s, before) ==
  LET free == SetToSeq(Nodes \ g.live)
      vs == [k \in 1..(Room(g, s) + Len(free) * ChunkSize) |-> k]
  IN  \A lvls \in [DOMAIN free -> RandLevels] :
        LET full == CopyTo(g, s, vs, free, lvls)
        IN  /\ Verify(full, s) /\ full.sla[s].total = Len(before \o vs)
            /\ \A key \in 0..(full.sla[s].total - 1) :
                 LET f == FindCpp(full, s, key)
                 IN  f.found /\ full.chunk[f.node][f.off + 1] = (before \o vs)[key + 1]

(* The port does what the C library does, on every list the operations of  *)
(* the library lead to: find and traverse end at the same places,          *)
(* append_node and slr_split leave the same lists behind, their counts add *)
(* up to total_cnt (the aborts of verify, sl.hh:244-259), and what split   *)
(* leaves in the dummy nodes above cur_level does no harm to the elements  *)
(* appended later, on levels set up lazily.  (Slices do not change lists.)  *)
PortAgrees ==
  prep = {} /\ InUse = {} =>
    \A s \in open :
      /\ Verify(h, s) /\ FillAndFind(h, s, Contents(s))
      /\ \A key \in 0..(h.sla[s].total - 1) :
           LET f == FindCpp(h, s, key)
           IN  /\ f.found /\ [node |-> f.node, off |-> f.off] = Find(h, s, key)
               /\ Update(h, s, key) = Traverse(h, s, key)
      /\ \A n \in Nodes \ h.live, lvl \in RandLevels :
           AppendNodeCpp(NewNode(h, n), s, n, lvl) = AppendNode(Alloc(h, n), s, n, lvl)
      /\ \A s2 \in Slas \ open : \A offset \in 1..(h.sla[s].total - 1) :
           LET g == SlrSplit(h, s, s2, offset)
           IN  /\ Scrub(Scrub(g, s), s2) = SplitCoarse(h, s, s2, offset)
               /\ Verify(g, s) /\ FillAndFind(g, s, SubSeq(Contents(s), 1, g.sla[s].total))
               /\ Verify(g, s2)
=============================================================================
