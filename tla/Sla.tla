-------------------------------- MODULE Sla --------------------------------
(***************************************************************************)
(* The skip-list array of xarray/sla-chunk.c: chunks of elements in a      *)
(* linked list, with a skip-list index on top in which every forward       *)
(* pointer carries the number of elements it jumps over.                   *)
(*                                                                         *)
(* This module holds the data structure: a heap h that the functions of    *)
(* sla-chunk.c read and transform, one operator per function.  XArraySla   *)
(* makes the actions of the xarray interface out of them.                  *)
(*                                                                         *)
(*   h.fwd[n][i]   forward pointer of node n at level i: node and cnt      *)
(*   h.chunk[n]    the elements in the buffer of n (what lies beyond       *)
(*                 SLA_NODE_NITEMS in a buffer is dead and not kept)       *)
(*   h.live        the allocated nodes                                     *)
(*   h.sla[s]      tail, cur_level and total_size of skip list s           *)
(*                                                                         *)
(* Elements have size 1 and counts are unbounded naturals.  Forward        *)
(* pointers a function leaves behind above the current level are cleared   *)
(* (Scrub), so a function that read one would not go unnoticed.            *)
(***************************************************************************)
EXTENDS Naturals, SequencesExt

CONSTANTS
  Nodes,       (* the nodes malloc may return              *)
  Slas,        (* skip lists                               *)
  Vals,        (* elements                                 *)
  MaxLevel,    (* sla->max_level                           *)
  ChunkSize,   (* elements of a chunk, sla->elems_chunk_size *)
  NoNode       (* a forward pointer not set                *)

ASSUME MaxLevelAssumption == MaxLevel \in Nat \ {0}
ASSUME ChunkSizeAssumption == ChunkSize \in Nat \ {0}
ASSUME NoNodeAssumption == NoNode \notin Nodes

Levels == 0..(MaxLevel - 1)

(* The two dummy nodes of a skip list.  sla_concat swaps tails, so the     *)
(* tail of s is h.sla[s].tail, one of these.                               *)
HeadOf(s) == <<"head", s>>
TailOf(s) == <<"tail", s>>
Heads == {HeadOf(s) : s \in Slas}
Tails == {TailOf(s) : s \in Slas}
AllNodes == Nodes \union Heads \union Tails

Unset == [node |-> NoNode, cnt |-> 0]

(* SLA_NODE_NEXT, SLA_NODE_CNT, SLA_NODE_NITEMS, SLA_HEAD_NODE, SLA_TAIL_NODE, SLA_TAIL_CNT *)
NextNode(h, n, i) == h.fwd[n][i].node
Cnt(h, n, i) == h.fwd[n][i].cnt
NItems(h, n) == Cnt(h, n, 0)
HeadNode(h, s, i) == NextNode(h, HeadOf(s), i)
TailNode(h, s, i) == NextNode(h, h.sla[s].tail, i)
TailCnt(h, s, i) == Cnt(h, h.sla[s].tail, i)

ChunkSizeOf(n) == IF n \in Nodes THEN ChunkSize ELSE 0
NodeFull(h, n) == NItems(h, n) = ChunkSizeOf(n)
TailnodeFull(h, s) == NodeFull(h, TailNode(h, s, 0))

(* h with the forward pointers F(n, i). *)
WithFwd(h, F(_, _)) ==
  [h EXCEPT !.fwd = [n \in AllNodes |-> [i \in Levels |-> F(n, i)]]]

(* Forget the dead pointers of the dummy nodes of s: those above cur_level. *)
Scrub(h, s) ==
  WithFwd(h, LAMBDA n, i :
    IF n \in {HeadOf(s), h.sla[s].tail} /\ i >= h.sla[s].cur THEN Unset ELSE h.fwd[n][i])

(* do_sla_init: an empty list on the dummy nodes s has. *)
DoInit(h, s) ==
  LET tail == h.sla[s].tail
      h1 == [h EXCEPT !.sla[s].cur = 1, !.sla[s].total = 0,
                      !.fwd[HeadOf(s)][0] = [node |-> tail, cnt |-> 0],
                      !.fwd[tail][0] = [node |-> HeadOf(s), cnt |-> 0]]
  IN  Scrub(h1, s)

(* sla_init for every list, on fresh dummy nodes. *)
InitHeap ==
  [fwd   |-> [n \in AllNodes |-> [i \in Levels |->
                IF i # 0 \/ n \in Nodes THEN Unset
                ELSE [node |-> IF n[1] = "head" THEN TailOf(n[2]) ELSE HeadOf(n[2]),
                      cnt  |-> 0]]],
   chunk |-> [n \in Nodes |-> <<>>],
   live  |-> {},
   sla   |-> [s \in Slas |-> [tail |-> TailOf(s), cur |-> 1, total |-> 0]]]

(* do_sla_node_alloc with the level drawn by sla_rand_level, sla_node_free. *)
Alloc(h, n) == [h EXCEPT !.live = @ \union {n}]
Free(h, n) ==
  [h EXCEPT !.live = @ \ {n}, !.chunk[n] = <<>>, !.fwd[n] = [i \in Levels |-> Unset]]

-----------------------------------------------------------------------------
(* Searching *)

(* Where the elements of node nx start when idx of them end before its     *)
(* pointer at level i: the pointer also counts the nodes it jumps over.    *)
StartOf_NothingSkipped(h, nx, i, idx) == idx
StartOf(h, nx, i, idx) == idx + Cnt(h, nx, i) - NItems(h, nx)

(* sla_do_find: walk right and down from node n, with idx elements up to   *)
(* and including n, to the node that holds `key'.                          *)
DoFind(h, n0, i0, idx0, key) ==
  LET walk[n \in AllNodes, i \in Levels, idx \in Nat] ==
        LET nx == NextNode(h, n, i)
            end == idx + Cnt(h, nx, i)
            start == StartOf(h, nx, i, idx)
        IN  CASE key < start /\ i > 0 -> walk[n, i - 1, idx]
              [] key < start /\ i = 0 -> [node |-> NoNode, off |-> 0]
              [] key >= start /\ nx \notin Nodes -> [node |-> NoNode, off |-> 0]
              [] key >= start /\ nx \in Nodes /\ key < end -> [node |-> nx, off |-> key - start]
              [] OTHER -> walk[nx, i, end]
  IN  walk[n0, i0, idx0]

(* sla_find *)
Find(h, s, key) == DoFind(h, HeadOf(s), h.sla[s].cur - 1, 0, key)

(* sla_traverse: for every level, the last node that ends at or before     *)
(* `key' and the number of elements up to there.                           *)
Traverse(h, s, key) ==
  LET top == h.sla[s].cur - 1
      walk[n \in AllNodes, i \in Levels, idx \in Nat] ==
        LET nx == NextNode(h, n, i)
        IN  IF key < idx + Cnt(h, nx, i) THEN [node |-> n, cnt |-> idx]
            ELSE walk[nx, i, idx + Cnt(h, nx, i)]
      update[i \in 0..top] ==
        IF i = top THEN walk[HeadOf(s), i, 0]
        ELSE walk[update[i + 1].node, i, update[i + 1].cnt]
  IN  update

-----------------------------------------------------------------------------
(* Growing and shrinking at the tail *)

(* The random level of a new node, sla_rand_level *)
RandLevels == 1..MaxLevel

(* The last node of s at level i and the elements after it; above cur_level *)
(* sla_append_node takes the head and the whole list for it.               *)
LastAt(h, s, i) == IF i < h.sla[s].cur THEN TailNode(h, s, i) ELSE HeadOf(s)
AfterLast(h, s, i) == IF i < h.sla[s].cur THEN TailCnt(h, s, i) ELSE h.sla[s].total

(* sla_append_node: link node n of level lvl at the end; the levels above  *)
(* the current one start with it.                                          *)
AppendNode(h, s, n, lvl) ==
  LET r == h.sla[s]
      cur == Max({r.cur, lvl})
      len == NItems(h, n)
      F(m, i) ==
        CASE i < lvl /\ m = n -> [node |-> r.tail, cnt |-> Cnt(h, n, i) + AfterLast(h, s, i)]
          [] i < lvl /\ m = LastAt(h, s, i) -> [h.fwd[m][i] EXCEPT !.node = n]
          [] i < lvl /\ m = r.tail -> [node |-> n, cnt |-> 0]
          [] i \in lvl..(cur - 1) /\ m = r.tail -> [h.fwd[m][i] EXCEPT !.cnt = @ + len]
          [] OTHER -> h.fwd[m][i]
  IN  [WithFwd(h, F) EXCEPT !.sla[s].cur = cur, !.sla[s].total = @ + len]

(* The loop of sla_append_tailnode__, xarray_append_finalize and (with -)  *)
(* sla_pop_tailnode over the levels: the tail node or what follows the     *)
(* last node of the level changes by the same amount.                      *)
Resize(h, s, Add(_)) ==
  LET tail == h.sla[s].tail
      n == TailNode(h, s, 0)
      F(m, i) ==
        IF i < h.sla[s].cur /\ m = (IF TailNode(h, s, i) = n THEN n ELSE tail)
        THEN [h.fwd[m][i] EXCEPT !.cnt = Add(@)]
        ELSE h.fwd[m][i]
  IN  [WithFwd(h, F) EXCEPT !.sla[s].total = Add(@)]

(* sla_append_tailnode__ followed by the copy of vs into the space. *)
AppendTailnode(h, s, vs) ==
  LET n == TailNode(h, s, 0)
  IN  [Resize(h, s, LAMBDA c : c + Len(vs)) EXCEPT !.chunk[n] = @ \o vs]

(* cur_level once the last node is gone from its levels, 0 to levels - 1:  *)
(* when it was on all levels those above are empty.                        *)
CurAfterPop_Kept(h, s, levels) == h.sla[s].cur
CurAfterPop(h, s, levels) ==
  LET cur == h.sla[s].cur
  IN  IF TailNode(h, s, cur - 1) = TailNode(h, s, 0) THEN levels ELSE cur

(* sla_pop_tail: unlink the last node n.  The node before n on each of its *)
(* levels is found by walking from the lowest tail node that is not n or,  *)
(* when n is on every level, from the highest head node that is not n.     *)
PopTail(h, s) ==
  LET r == h.sla[s]
      n == TailNode(h, s, 0)
      len == NItems(h, n)
      others == {i \in 1..(r.cur - 1) : TailNode(h, s, i) # n}
      firsts == {i \in 0..(r.cur - 1) : HeadNode(h, s, i) # n}
      levels == IF others # {} THEN Min(others) ELSE Max(firsts) + 1
      start == IF others # {} THEN TailNode(h, s, levels) ELSE HeadNode(h, s, levels - 1)
      cur == CurAfterPop(h, s, levels)
      walk[m \in AllNodes, i \in Levels] ==
        IF NextNode(h, m, i) \in Tails \union {n} THEN m ELSE walk[NextNode(h, m, i), i]
      pred[i \in 0..(levels - 1)] ==
        IF i = levels - 1 THEN walk[start, i] ELSE walk[pred[i + 1], i]
      F(m, i) ==
        CASE i < levels /\ m = pred[i] -> [h.fwd[m][i] EXCEPT !.node = r.tail]
          [] i < levels /\ m = r.tail -> [node |-> pred[i], cnt |-> Cnt(h, n, i) - len]
          [] i \in levels..(cur - 1) /\ m = r.tail -> [h.fwd[m][i] EXCEPT !.cnt = @ - len]
          [] OTHER -> h.fwd[m][i]
  IN  IF HeadNode(h, s, 0) = n THEN DoInit(h, s)
      ELSE Scrub([WithFwd(h, F) EXCEPT !.sla[s].cur = cur, !.sla[s].total = @ - len], s)

(* sla_pop_tailnode: pop at most `want' elements, all from the tail node;  *)
(* returns the heap and the number popped.                                 *)
PopsWholeNode(h, s, want) == NItems(h, TailNode(h, s, 0)) <= want
PopTailnode(h, s, want) ==
  LET n == TailNode(h, s, 0)
      len == NItems(h, n)
      h1 == Resize(h, s, LAMBDA c : c - want)
  IN  IF PopsWholeNode(h, s, want)
      THEN [h |-> Free(PopTail(h, s), n), popped |-> len]
      ELSE [h |-> [h1 EXCEPT !.chunk[n] = SubSeq(@, 1, len - want)], popped |-> want]

-----------------------------------------------------------------------------
(* Splitting and joining *)

(* sla_split_coarse with sla1 = NULL: the list keeps the nodes before the  *)
(* one that holds `offset', s2 (initialised here) gets the others.         *)
SplitCoarse(h, s, s2, offset) ==
  LET r == h.sla[s]
      tail2 == h.sla[s2].tail
      lvls == 0..(r.cur - 1)
      update == Traverse(h, s, offset)
      left(i) == update[i].node
      right(i) == NextNode(h, left(i), i)
      dcnt(i) == update[0].cnt - update[i].cnt
      has2(i) == TailNode(h, s, i) # left(i)
      cut(m, i) == IF m = right(i) THEN Cnt(h, m, i) - dcnt(i) ELSE Cnt(h, m, i)
      F(m, i) ==
        CASE i \notin lvls -> h.fwd[m][i]
          [] m = HeadOf(s2) -> [node |-> right(i), cnt |-> 0]
          [] m = tail2 -> IF has2(i) THEN h.fwd[r.tail][i] ELSE Unset
          [] m = left(i) -> [h.fwd[m][i] EXCEPT !.node = r.tail]
          [] m = r.tail -> [node |-> left(i), cnt |-> dcnt(i)]
          [] m = TailNode(h, s, i) /\ has2(i) -> [node |-> tail2, cnt |-> cut(m, i)]
          [] OTHER -> [node |-> NextNode(h, m, i), cnt |-> cut(m, i)]
      top(P(_)) == Max({1} \union {i + 1 : i \in {j \in lvls : P(j)}})
      cur1 == top(LAMBDA i : left(i) # HeadOf(s))
      cur2 == top(has2)
      h1 == [WithFwd(h, F) EXCEPT
               !.sla[s].cur = cur1, !.sla[s].total = update[0].cnt,
               !.sla[s2].cur = cur2, !.sla[s2].total = r.total - update[0].cnt]
  IN  Scrub(Scrub(h1, s), s2)

(* sla_pop_head.  At the levels the popped node is not on, the code takes  *)
(* SLA_NODE_CNT(ret, i) for its size: memory past the node, `junk'.        *)
PopHead(h, s, junk) ==
  LET r == h.sla[s]
      n == HeadNode(h, s, 0)
      on == {i \in 0..(r.cur - 1) : HeadNode(h, s, i) = n}
      empty == {i \in on : NextNode(h, n, i) = r.tail}
      cur == IF empty = {} THEN r.cur ELSE Min(empty)
      F(m, i) ==
        CASE i \in on /\ m = HeadOf(s) -> [h.fwd[m][i] EXCEPT !.node = NextNode(h, n, i)]
          [] i < cur /\ i \notin on /\ m = HeadNode(h, s, i) -> [h.fwd[m][i] EXCEPT !.cnt = @ - junk]
          [] OTHER -> h.fwd[m][i]
  IN  IF NextNode(h, n, 0) = r.tail THEN DoInit(h, s)
      ELSE Scrub([WithFwd(h, F) EXCEPT !.sla[s].cur = cur, !.sla[s].total = @ - NItems(h, n)], s)

(* sla_concat takes the copying path when s2 is its first node and that    *)
(* node fits in the tail chunk of s1.                                      *)
CopyPath_IfFirstFits(h, s1, s2) ==
  NItems(h, TailNode(h, s1, 0)) + NItems(h, HeadNode(h, s2, 0)) <= ChunkSizeOf(TailNode(h, s1, 0))
CopyPath(h, s1, s2) ==
  LET t == TailNode(h, s1, 0)
      d == HeadNode(h, s2, 0)
  IN  /\ h.sla[s2].total = NItems(h, d)
      /\ NItems(h, t) + NItems(h, d) <= ChunkSizeOf(t)

ConcatCopy_Leaks(h, s1, s2) ==
  AppendTailnode(PopHead(h, s2, 0), s1, h.chunk[HeadNode(h, s2, 0)])
ConcatCopy(h, s1, s2) ==
  LET d == HeadNode(h, s2, 0)
  IN  Free(AppendTailnode(PopHead(h, s2, 0), s1, h.chunk[d]), d)

ConcatLink(h, s1, s2) ==
  LET r1 == h.sla[s1]
      r2 == h.sla[s2]
      new == Max({r1.cur, r2.cur})
      last1(i) == TailNode(h, s1, i)
      first2(i) == HeadNode(h, s2, i)
      F(m, i) ==
        CASE i >= r1.cur /\ i < new /\ m = HeadOf(s1) -> [node |-> first2(i), cnt |-> 0]
          [] i >= r1.cur /\ i < new /\ m = first2(i) -> [h.fwd[m][i] EXCEPT !.cnt = @ + r1.total]
          [] i >= r2.cur /\ i < new /\ m = last1(i) -> [h.fwd[m][i] EXCEPT !.node = r2.tail]
          [] i >= r2.cur /\ i < new /\ m = r2.tail ->
               [node |-> last1(i), cnt |-> r2.total + TailCnt(h, s1, i)]
          [] i < r1.cur /\ i < r2.cur /\ m = last1(i) -> [h.fwd[m][i] EXCEPT !.node = first2(i)]
          [] i < r1.cur /\ i < r2.cur /\ m = first2(i) ->
               [h.fwd[m][i] EXCEPT !.cnt = @ + TailCnt(h, s1, i)]
          [] OTHER -> h.fwd[m][i]
      h1 == [WithFwd(h, F) EXCEPT
               !.sla[s1] = [tail |-> r2.tail, cur |-> new, total |-> r1.total + r2.total],
               !.sla[s2].tail = r1.tail]
  IN  DoInit(h1, s2)

(* sla_concat: s1 gets the elements of s2, s2 is left empty. *)
SlaConcat(h, s1, s2) ==
  IF CopyPath(h, s1, s2) THEN ConcatCopy(h, s1, s2) ELSE ConcatLink(h, s1, s2)
=============================================================================
