----------------------------- MODULE XArraySla -----------------------------
(***************************************************************************)
(* Arrays over skip lists: xarray/xarray_sla.h on top of Sla.  One action  *)
(* per function of the xarray interface; reading an element changes        *)
(* nothing and is a property (GetReadsElement).          *)
(***************************************************************************)
EXTENDS Sla

CONSTANTS
  MinFinalize,   (* fewest elements a caller passes to append_finalize  *)
  Gone           (* the contents of an array that does not exist        *)

ASSUME MinFinalizeAssumption == MinFinalize \in Nat

VARIABLES
  h,       (* the heap of Sla                                           *)
  nr,      (* xarr->elems_nr of every array                             *)
  open,    (* the arrays that exist: created, not concatenated away     *)
  prep     (* the arrays with a buffer handed out by append_prepare     *)

vars == <<h, nr, open, prep>>

Init ==
  /\ h = InitHeap
  /\ nr = [s \in Slas |-> 0]
  /\ open = {}
  /\ prep = {}

(* The heaps in which the tail node of s has room: a new node is appended  *)
(* when the tail node is full (an empty list has a full tail, its head).   *)
MakeRoom(s) ==
  IF TailnodeFull(h, s)
  THEN {AppendNode(Alloc(h, n), s, n, lvl) : n \in Nodes \ h.live, lvl \in RandLevels}
  ELSE {h}

Idle(s) == s \in open \ prep

(* xarray_create, xarray_init *)
Create(s) ==
  /\ s \notin open
  /\ open' = open \union {s}
  /\ nr' = [nr EXCEPT ![s] = 0]
  /\ UNCHANGED <<h, prep>>

(* xarray_append, and the caller's write to the element it returns *)
Append1(s, v) ==
  /\ Idle(s)
  /\ \E g \in MakeRoom(s) : h' = AppendTailnode(g, s, <<v>>)
  /\ nr' = [nr EXCEPT ![s] = @ + 1]
  /\ UNCHANGED <<open, prep>>

(* xarray_append_prepare *)
AppendPrepare(s) ==
  /\ Idle(s)
  /\ h' \in MakeRoom(s)
  /\ prep' = prep \union {s}
  /\ UNCHANGED <<nr, open>>

(* xarray_append_finalize: the caller has written vs to the buffer. *)
AppendFinalize(s, vs) ==
  /\ s \in prep
  /\ Len(vs) \in MinFinalize..(ChunkSize - NItems(h, TailNode(h, s, 0)))
  /\ h' = AppendTailnode(h, s, vs)
  /\ nr' = [nr EXCEPT ![s] = @ + Len(vs)]
  /\ prep' = prep \ {s}
  /\ UNCHANGED open

(* The loop of xarray_pop: sla_pop_tailnode until k elements are gone. *)
PopElems(s, k) ==
  LET step(st, round) ==
        LET r == PopTailnode(st.h, s, st.left)
        IN  IF st.left = 0 THEN st ELSE [h |-> r.h, left |-> st.left - r.popped]
      rounds == [i \in 1..(k + Cardinality(Nodes)) |-> i]
  IN  FoldLeft(step, [h |-> h, left |-> k], rounds).h

(* xarray_pop *)
Pop(s, k) ==
  /\ Idle(s) /\ k \in 1..nr[s]
  /\ h' = PopElems(s, k)
  /\ nr' = [nr EXCEPT ![s] = @ - k]
  /\ UNCHANGED <<open, prep>>

(* xarray_concat: s2 is destroyed.  An empty s2 takes the copying path,    *)
(* whose assertions (sla-chunk.c:485-486) ask for a node to copy.          *)
Concat(s1, s2) ==
  /\ s1 # s2 /\ Idle(s1) /\ Idle(s2) /\ nr[s2] > 0
  /\ h' = SlaConcat(h, s1, s2)
  /\ nr' = [nr EXCEPT ![s1] = @ + nr[s2], ![s2] = 0]
  /\ open' = open \ {s2}
  /\ UNCHANGED prep

(* sla_split_coarse with sla1 = NULL at an offset inside the list, under   *)
(* the assertions of its first line.                                       *)
Split(s, s2, offset) ==
  /\ Idle(s) /\ s2 \notin open /\ offset \in 1..(nr[s] - 1)
  /\ h' = SplitCoarse(h, s, s2, offset)
  /\ nr' = [t \in Slas |-> IF t \in {s, s2} THEN h'.sla[t].total ELSE nr[t]]
  /\ open' = open \union {s2}
  /\ UNCHANGED prep

Buffers == UNION {[1..k -> Vals] : k \in 0..ChunkSize}

Next ==
  \E s \in Slas :
    \/ Create(s)
    \/ \E v \in Vals : Append1(s, v)
    \/ AppendPrepare(s)
    \/ \E vs \in Buffers : AppendFinalize(s, vs)
    \/ \E k \in 1..nr[s] : Pop(s, k)
    \/ \E s2 \in Slas : Concat(s, s2)
    \/ \E s2 \in Slas, offset \in 1..nr[s] : Split(s, s2, offset)

Spec == Init /\ [][Next]_vars

-----------------------------------------------------------------------------
(* Reading the structure back *)

(* The nodes of s at level i, following the forward pointers from the head *)
(* for as many steps as there are nodes.                                   *)
Chain(s, i) ==
  LET from[n \in AllNodes \union {NoNode}, fuel \in Nat] ==
        IF fuel = 0 \/ n \notin Nodes THEN <<>>
        ELSE <<n>> \o from[NextNode(h, n, i), fuel - 1]
  IN  from[HeadNode(h, s, i), Cardinality(Nodes) + 1]

(* The elements of s in order. *)
Contents(s) ==
  LET nodes == Chain(s, 0)
  IN  FlattenSeq([k \in DOMAIN nodes |-> h.chunk[nodes[k]]])

LevelsOf(s) == 0..(h.sla[s].cur - 1)

(* Elements in the level 0 nodes of s from the first one through n. *)
EndOf(s, n) ==
  LET nodes == Chain(s, 0)
      upto == {k \in DOMAIN nodes : \E j \in k..Len(nodes) : nodes[j] = n}
  IN  FoldSet(LAMBDA k, sum : sum + Len(h.chunk[nodes[k]]), 0, upto)

-----------------------------------------------------------------------------
(* Properties *)

(* The heap and the arrays have their types. *)
TypeOK ==
  /\ DOMAIN h = {"fwd", "chunk", "live", "sla"}
  /\ h.fwd \in [AllNodes -> [Levels -> [node : AllNodes \union {NoNode}, cnt : Nat]]]
  /\ h.chunk \in [Nodes -> Seq(Vals)]
  /\ h.live \subseteq Nodes
  /\ h.sla \in [Slas -> [tail : Tails, cur : 1..MaxLevel, total : Nat]]
  /\ nr \in [Slas -> Nat]
  /\ open \subseteq Slas /\ prep \subseteq open

(* sla_verify as it was meant (its loop condition lets no level through,   *)
(* sla-chunk.c:124), and more.  Every level of s ends in the tail of the   *)
(* list and the tail points back to its last node; a level is a            *)
(* subsequence of the one below, and only level 0 may be empty, so         *)
(* cur_level is never stale.                                               *)
LevelsAreLists(s) ==
  LET level == [i \in LevelsOf(s) |-> Chain(s, i)]
  IN  \A i \in LevelsOf(s) :
        LET last == IF level[i] = <<>> THEN HeadOf(s) ELSE Last(level[i])
        IN  /\ NextNode(h, last, i) = h.sla[s].tail
            /\ TailNode(h, s, i) = last
            /\ i > 0 => /\ level[i] # <<>>
                        /\ level[i] = SelectSeq(level[i - 1], LAMBDA n : n \in ToSet(level[i]))

(* At every level a forward pointer counts the elements between the        *)
(* previous node of the level and the end of its own, and the tail those   *)
(* after the last one; the counts add up to total_size, which is what the  *)
(* array says it holds.                                                    *)
CountsMatchElements(s) ==
  LET end == [n \in ToSet(Chain(s, 0)) |-> EndOf(s, n)]
  IN  /\ h.sla[s].total = Len(Contents(s)) /\ (s \in open => nr[s] = h.sla[s].total)
      /\ \A i \in LevelsOf(s) :
           LET nodes == Chain(s, i)
               start(k) == IF k = 1 THEN 0 ELSE end[nodes[k - 1]]
           IN  /\ \A k \in DOMAIN nodes : Cnt(h, nodes[k], i) = end[nodes[k]] - start(k)
               /\ TailCnt(h, s, i) = h.sla[s].total - start(Len(nodes) + 1)

(* The index of every array is a skip list whose counts are distances,     *)
(* after every mix of operations.                                          *)
SkipListsAreSound == TypeOK /\ \A s \in Slas : LevelsAreLists(s) /\ CountsMatchElements(s)

(* Every allocated node is in exactly one list and no list holds a freed   *)
(* node: nodes move between arrays on concat and split, and are freed once.*)
NodesOwnedOnce ==
  LET nodes == [s \in Slas |-> ToSet(Chain(s, 0))]
  IN  /\ h.live = UNION {nodes[s] : s \in Slas}
      /\ \A s, t \in Slas : s # t =>
           /\ nodes[s] \intersect nodes[t] = {}
           /\ h.sla[s].tail # h.sla[t].tail

(* xarray_get and xarray_getlast: sla_find lands on the element the index  *)
(* stands for, for every index of every array, whatever mix of operations  *)
(* built the index; and the last item of the tail node is the last         *)
(* element, as long as no append is under way.                             *)
GetReadsElement ==
  \A s \in open :
    LET contents == Contents(s)
        last == TailNode(h, s, 0)
    IN  /\ \A key \in 0..(nr[s] - 1) :
             LET f == Find(h, s, key)
             IN  /\ f.node \in h.live /\ f.off < NItems(h, f.node)
                 /\ h.chunk[f.node][f.off + 1] = contents[key + 1]
        /\ s \notin prep /\ nr[s] > 0 =>
             NItems(h, last) > 0 /\ h.chunk[last][NItems(h, last)] = Last(contents)

(* The arrays behave as sequences (XArraySpec). *)
Abstract == INSTANCE XArraySpec WITH
  Arrays <- Slas, Grain <- ChunkSize,
  arr <- [s \in Slas |-> IF s \in open THEN Contents(s) ELSE Gone]
ImplementsArrays == Abstract!Spec
=============================================================================
