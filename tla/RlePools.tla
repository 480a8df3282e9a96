------------------------------ MODULE RlePools ------------------------------
(***************************************************************************)
(* Run-length encoding with pools of list nodes (rle/rle_rec_mpools.c).    *)
(*                                                                         *)
(* A list is a head, with its first and last node, and nodes linked by     *)
(* ->next.  Every Cilk worker has a pool of free nodes and one of free     *)
(* heads, used without locks: code fetches the pool of the worker it runs  *)
(* on, and may run on another one after every spawn and sync.  main        *)
(* builds a random list, decodes it, encodes the symbols, evens out the    *)
(* pools and encodes once more by a recursion whose halves run in parallel.*)
(*                                                                         *)
(* Where nothing runs beside main its calls are one step each.  A leaf of  *)
(* the recursion takes a step for every run of symbols it finds.           *)
(***************************************************************************)
EXTENDS Integers, SequencesExt

CONSTANTS
  Workers,     (* a set of numbers from 0: nrthreads__ of them             *)
  Symbols,     (* how many symbols there are: 26 in the code               *)
  MaxRuns,     (* bound: argv[1], the runs of the list to encode           *)
  MaxFreq,     (* bound: max_freq                                          *)
  MaxSyms,     (* bound: the symbols that such a list stands for           *)
  Limit,       (* rle_rec_limit                                            *)
  MaxNodes,    (* bound: nodes ever allocated, more than a run needs       *)
  MaxHeads     (* bound: the same for heads                                *)

ASSUME ConstantsAssumption ==
  /\ Workers = 0 .. Cardinality(Workers) - 1 /\ 0 \in Workers
  /\ {MaxRuns, MaxFreq, MaxSyms, Limit, MaxNodes, MaxHeads} \subseteq Nat \ {0}
  /\ Symbols \in Nat \ {0, 1}

Null == 0
Nodes == 1..MaxNodes
Heads == 1..MaxHeads
NrThreads == Cardinality(Workers)

VARIABLES
  m,       (* memory: node, head and pool; the counters of each pool;      *)
           (* nodes, heads: how many were allocated so far                 *)
  main,    (* what main does next                                          *)
  rle,     (* the head of the list that main made                          *)
  text,    (* the symbols that rle_decode wrote                            *)
  task,    (* the calls of rle_encode_rec, by their range of symbols       *)
  moves    (* the rounds of rle_pool_balance_nodes so far: cnt             *)

vars == <<m, main, rle, text, task, moves>>

-----------------------------------------------------------------------------
(* Pools *)

EmptyPool == [nodes |-> Null, nodes_nr |-> 0, heads |-> Null, heads_nr |-> 0]

(* rle_init_pools *)
InitPools ==
  [node |-> [n \in Nodes |-> [symbol |-> 0, freq |-> 0, next |-> Null]],
   head |-> [x \in Heads |-> [first |-> Null, last |-> Null]],
   pool |-> [w \in Workers |-> EmptyPool],
   nodes |-> 0, heads |-> 0]

(* rle_alloc, rle_head_alloc: from the pool of worker w, else from malloc, *)
(* which returns numbers never used before.                                *)
AllocatedNode(g, w) == IF g.pool[w].nodes # Null THEN g.pool[w].nodes ELSE g.nodes + 1
AfterAlloc(g, w) ==
  LET n == g.pool[w].nodes
  IN  IF n # Null THEN [g EXCEPT !.pool[w].nodes = g.node[n].next, !.pool[w].nodes_nr = @ - 1]
      ELSE [g EXCEPT !.nodes = @ + 1]

AllocatedHead(g, w) == IF g.pool[w].heads # Null THEN g.pool[w].heads ELSE g.heads + 1
AfterHeadAlloc(g, w) ==
  LET x == g.pool[w].heads
  IN  IF x # Null THEN [g EXCEPT !.pool[w].heads = g.head[x].first, !.pool[w].heads_nr = @ - 1]
      ELSE [g EXCEPT !.heads = @ + 1]

(* rle_node_dealloc *)
NodeDealloc(g, w, n) ==
  [g EXCEPT !.node[n].next = g.pool[w].nodes,
            !.pool[w].nodes = n, !.pool[w].nodes_nr = @ + 1]

(* rle_head_dealloc: the free heads are linked by ->first. *)
HeadDealloc(g, w, x) ==
  [g EXCEPT !.head[x].first = g.pool[w].heads,
            !.pool[w].heads = x, !.pool[w].heads_nr = @ + 1]

(* The nodes from n on, following ->next; as many as there are, if the     *)
(* links make a circle.                                                    *)
ListFrom(g, n) ==
  LET from[x \in Nodes \union {Null}, fuel \in Nat] ==
        IF x = Null \/ fuel = 0 THEN <<>> ELSE <<x>> \o from[g.node[x].next, fuel - 1]
  IN  from[n, MaxNodes + 1]
HeadsFrom(g, x) ==
  LET from[y \in Heads \union {Null}, fuel \in Nat] ==
        IF y = Null \/ fuel = 0 THEN <<>> ELSE <<y>> \o from[g.head[y].first, fuel - 1]
  IN  from[x, MaxHeads + 1]

(* rle_nodes_dealloc: a list is dealt out to the pools in turn. *)
NodesDealloc(g, first) ==
  LET deal(st, n) == [g |-> NodeDealloc(st.g, st.i % NrThreads, n), i |-> st.i + 1]
  IN  FoldLeft(deal, [g |-> g, i |-> 0], ListFrom(g, first)).g

(* do_rle_pool_prealloc_nodes *)
PreallocNodes(g, w, want) ==
  FoldLeft(LAMBDA st, i : NodeDealloc([st EXCEPT !.nodes = @ + 1], w, st.nodes + 1),
           g, [i \in 1..(want - g.pool[w].nodes_nr) |-> i])

(* rle_pool_min_nodes and rle_pool_max_nodes: the first of the pools with  *)
(* the fewest, or the most, nodes.                                         *)
MinNodesPool(g) ==
  Min({w \in Workers : \A v \in Workers : g.pool[w].nodes_nr <= g.pool[v].nodes_nr})
MaxNodesPool(g) ==
  Min({w \in Workers : \A v \in Workers : g.pool[w].nodes_nr >= g.pool[v].nodes_nr})

(* Moving a node from the front of one pool to that of another. *)
MoveNode(g, from, to) ==
  LET n == g.pool[from].nodes
      taken == [g EXCEPT !.pool[from].nodes = g.node[n].next, !.pool[from].nodes_nr = @ - 1]
  IN  NodeDealloc(taken, to, n)

(* The loop that moves k nodes. *)
MoveNodes(g, from, to, k) ==
  FoldLeft(LAMBDA st, i : MoveNode(st, from, to), g, [i \in 1..k |-> i])

-----------------------------------------------------------------------------
(* Lists *)

(* The runs of a sequence of symbols. *)
Runs(symbols) ==
  LET longer(rs, c) ==
        IF rs # <<>> /\ Last(rs).symbol = c THEN [rs EXCEPT ![Len(rs)].freq = @ + 1]
        ELSE Append(rs, [symbol |-> c, freq |-> 1])
  IN  FoldLeft(longer, <<>>, symbols)

(* The runs that the nodes in a sequence stand for. *)
RunsOf(g, nodes) ==
  [i \in DOMAIN nodes |-> [symbol |-> g.node[nodes[i]].symbol, freq |-> g.node[nodes[i]].freq]]
RunsFrom(g, n) == RunsOf(g, ListFrom(g, n))

(* rle_mkrand, and rle_encode on runs it has found: a list of new nodes,   *)
(* all from the pool of w, and a head for it.                              *)
BuildList(g, w, runs) ==
  LET add(st, run) ==
        LET n == AllocatedNode(st.g, w)
            g1 == [AfterAlloc(st.g, w) EXCEPT
                     !.node[n] = [symbol |-> run.symbol, freq |-> run.freq, next |-> Null]]
        IN  [g |-> IF st.last = Null THEN g1 ELSE [g1 EXCEPT !.node[st.last].next = n],
             first |-> IF st.last = Null THEN n ELSE st.first,
             last |-> n]
      built == FoldLeft(add, [g |-> g, first |-> Null, last |-> Null], runs)
      x == AllocatedHead(built.g, w)
  IN  [g |-> [AfterHeadAlloc(built.g, w) EXCEPT
                !.head[x] = [first |-> built.first, last |-> built.last]],
       head |-> x]

(* rle_decode *)
Decode(g, x) ==
  LET runs == RunsFrom(g, g.head[x].first)
  IN  FlattenSeq([i \in DOMAIN runs |-> [j \in 1..runs[i].freq |-> runs[i].symbol]])

(* rle_cmp: the nodes in front of the last ones are compared, the last     *)
(* ones are not.                                                           *)
InFront(g, x) ==
  LET nodes == ListFrom(g, g.head[x].first)
  IN  SubSeq(nodes, 1, SelectInSeq(nodes, LAMBDA n : n = g.head[x].last) - 1)
RleCmp(g, x, y) == RunsOf(g, InFront(g, x)) = RunsOf(g, InFront(g, y))

(* rle_merge up to the release of the head of y and, when two runs were    *)
(* joined, of its first node.                                              *)
Joins(g, x, y) == g.node[g.head[x].last].symbol = g.node[g.head[y].first].symbol

Merge_AlwaysLast(g, x, y) ==
  LET l == g.head[x].last
      f == g.head[y].first
  IN  IF Joins(g, x, y)
      THEN [g EXCEPT !.node[l].freq = @ + g.node[f].freq, !.node[l].next = g.node[f].next,
                     !.head[x].last = g.head[y].last]
      ELSE [g EXCEPT !.node[l].next = f, !.head[x].last = g.head[y].last]

Merge(g, x, y) ==
  LET l == g.head[x].last
      f == g.head[y].first
  IN  IF Joins(g, x, y)
      THEN [g EXCEPT !.node[l].freq = @ + g.node[f].freq, !.node[l].next = g.node[f].next,
                     !.head[x].last = IF g.head[y].last # f THEN g.head[y].last ELSE @]
      ELSE [g EXCEPT !.node[l].next = f, !.head[x].last = g.head[y].last]

-----------------------------------------------------------------------------
(* The calls of rle_encode_rec *)

Ranges == {<<lo, n>> \in (0..MaxSyms) \X (1..MaxSyms) : lo + n <= MaxSyms}
Root == <<0, Len(text)>>
Half1(r) == <<r[1], r[2] \div 2>>
Half2(r) == <<r[1] + r[2] \div 2, r[2] - r[2] \div 2>>

(* pc     none; ready: spawned; encode, alloc: in rle_encode; wait: at the *)
(*        sync; merge: in rle_merge; done: has returned head               *)
(* by     the worker whose pool the call has fetched                       *)
(* at     how many symbols are encoded; first, last: the list so far       *)
(* got    the node read from the pool, or on its way there                 *)
(* old    the head that rle_merge releases                                 *)
NoCall == [pc |-> "none", by |-> 0, at |-> 0, first |-> Null, last |-> Null,
           got |-> Null, head |-> Null, old |-> Null]
Spawned == [NoCall EXCEPT !.pc = "ready"]

(* A worker runs one call at a time.  Waiting at a sync it runs others.    *)
Busy(w) == \E r \in Ranges : task[r].pc \in {"encode", "alloc", "merge"} /\ task[r].by = w

(* A spawned call starts on a worker that has nothing to do.               *)
Start(r, w) ==
  /\ task[r].pc = "ready" /\ ~ Busy(w)
  /\ task' = IF r[2] <= Limit
             THEN [task EXCEPT ![r].pc = "encode", ![r].by = w]
             ELSE [task EXCEPT ![r].pc = "wait", ![r].by = w,
                               ![Half1(r)] = Spawned, ![Half2(r)] = Spawned]
  /\ UNCHANGED <<m, main, rle, text, moves>>

(* rle_alloc looks at the first node of the pool ...                       *)
Look(r) ==
  /\ task[r].pc = "encode" /\ task[r].at < r[2]
  /\ task' = [task EXCEPT ![r].pc = "alloc", ![r].got = m.pool[task[r].by].nodes]
  /\ UNCHANGED <<m, main, rle, text, moves>>

(* ... and takes it, or a new one, for the run that begins at symbol i.    *)
RunLength(i, end) == Max({k \in 1..(end - i + 1) : \A j \in 0..(k - 1) : text[i + j] = text[i]})

Take(r) ==
  /\ task[r].pc = "alloc"
  /\ LET t == task[r]
         begin == r[1] + t.at + 1
         k == RunLength(begin, r[1] + r[2])
         n == IF t.got # Null THEN t.got ELSE m.nodes + 1
         taken == IF t.got # Null
                  THEN [m EXCEPT !.pool[t.by].nodes = m.node[n].next, !.pool[t.by].nodes_nr = @ - 1]
                  ELSE [m EXCEPT !.nodes = n]
         filled == [taken EXCEPT !.node[n] = [symbol |-> text[begin], freq |-> k, next |-> Null]]
     IN  /\ m' = IF t.last = Null THEN filled ELSE [filled EXCEPT !.node[t.last].next = n]
         /\ task' = [task EXCEPT ![r].pc = "encode", ![r].at = @ + k, ![r].got = Null,
                                 ![r].first = IF t.first = Null THEN n ELSE @, ![r].last = n]
  /\ UNCHANGED <<main, rle, text, moves>>

EncodeReturn(r) ==
  /\ task[r].pc = "encode" /\ task[r].at = r[2]
  /\ LET t == task[r]
         x == AllocatedHead(m, t.by)
     IN  /\ m' = [AfterHeadAlloc(m, t.by) EXCEPT !.head[x] = [first |-> t.first, last |-> t.last]]
         /\ task' = [task EXCEPT ![r] = [NoCall EXCEPT !.pc = "done", !.head = x]]
  /\ UNCHANGED <<main, rle, text, moves>>

(* After the sync: rle_merge with the pool of the worker that goes on, as  *)
(* far as rle_node_dealloc linking the node it frees to those of the pool. *)
Synced(r) == task[r].pc = "wait" /\ task[Half1(r)].pc = "done" /\ task[Half2(r)].pc = "done"

MergeStart_PoolFetchedBefore(r, w) ==
  /\ Synced(r) /\ ~ Busy(w)
  /\ LET x == task[Half1(r)].head
         y == task[Half2(r)].head
         freed == IF Joins(m, x, y) THEN m.head[y].first ELSE Null
         merged == Merge(m, x, y)
     IN  /\ m' = IF freed = Null THEN merged
                 ELSE [merged EXCEPT !.node[freed].next = m.pool[task[r].by].nodes]
         /\ task' = [task EXCEPT ![r].pc = "merge", ![r].head = x,
                                 ![r].old = y, ![r].got = freed,
                                 ![Half1(r)] = NoCall, ![Half2(r)] = NoCall]
  /\ UNCHANGED <<main, rle, text, moves>>

MergeStart(r, w) ==
  /\ Synced(r) /\ ~ Busy(w)
  /\ LET x == task[Half1(r)].head
         y == task[Half2(r)].head
         freed == IF Joins(m, x, y) THEN m.head[y].first ELSE Null
         merged == Merge(m, x, y)
     IN  /\ m' = IF freed = Null THEN merged
                 ELSE [merged EXCEPT !.node[freed].next = m.pool[w].nodes]
         /\ task' = [task EXCEPT ![r].pc = "merge", ![r].by = w, ![r].head = x,
                                 ![r].old = y, ![r].got = freed,
                                 ![Half1(r)] = NoCall, ![Half2(r)] = NoCall]
  /\ UNCHANGED <<main, rle, text, moves>>

MergeReturn(r) ==
  /\ task[r].pc = "merge"
  /\ LET t == task[r]
         g == IF t.got = Null THEN m
              ELSE [m EXCEPT !.pool[t.by].nodes = t.got, !.pool[t.by].nodes_nr = @ + 1]
     IN  /\ m' = HeadDealloc(g, t.by, t.old)
         /\ task' = [task EXCEPT ![r] = [NoCall EXCEPT !.pc = "done", !.head = t.head]]
  /\ UNCHANGED <<main, rle, text, moves>>

-----------------------------------------------------------------------------
(* main *)

Init ==
  /\ m = InitPools
  /\ main = "mkrand"
  /\ rle = Null
  /\ text = <<>>
  /\ task = [r \in Ranges |-> NoCall]
  /\ moves = 0

Freqs == {f \in UNION {[1..k -> 1..MaxFreq] : k \in 1..MaxRuns} : SumFunction(f) <= MaxSyms}

(* rle_mkrand, spawned, on worker w; then rle_decode *)
MkRand(w, freqs) ==
  /\ main = "mkrand"
  /\ LET runs == [i \in DOMAIN freqs |-> [symbol |-> (i - 1) % Symbols, freq |-> freqs[i]]]
         built == BuildList(m, w, runs)
     IN  /\ m' = built.g
         /\ rle' = built.head
         /\ text' = Decode(built.g, built.head)
  /\ main' = "encode"
  /\ UNCHANGED <<task, moves>>

(* Preallocation, rle_encode with pool 0, the comparison, and the release  *)
(* of the list: its nodes to all pools, its head to pool 0.                *)
Encode ==
  /\ main = "encode"
  /\ LET built == BuildList(PreallocNodes(m, 0, Len(text)), 0, Runs(text))
         first == built.g.head[built.head].first
     IN  IF RleCmp(built.g, rle, built.head)
         THEN /\ m' = HeadDealloc(NodesDealloc(built.g, first), 0, built.head)
              /\ main' = "balance"
         ELSE /\ m' = built.g /\ main' = "abort"
  /\ UNCHANGED <<rle, text, task, moves>>

(* A round of rle_pool_balance_nodes, or the return from it and the first  *)
(* call of rle_encode_rec.                                                 *)
Average_RoundedUp == (SumFunction([w \in Workers |-> m.pool[w].nodes_nr]) + NrThreads - 1) \div NrThreads
Average == SumFunction([w \in Workers |-> m.pool[w].nodes_nr]) \div NrThreads

Balance ==
  /\ main = "balance"
  /\ LET most == MaxNodesPool(m)
         fewest == MinNodesPool(m)
         above == m.pool[most].nodes_nr - Average
         below == Average - m.pool[fewest].nodes_nr
     IN  CASE NrThreads = 1 \/ below = 0 ->
                /\ main' = "rec"
                /\ task' = [task EXCEPT ![Root] = Spawned]
                /\ UNCHANGED <<m, moves>>
           [] NrThreads # 1 /\ below > 0 /\ above > 0 ->
                /\ m' = MoveNodes(m, most, fewest, Min({below, above}))
                /\ moves' = moves + 1
                /\ main' = IF moves < NrThreads * NrThreads THEN "balance" ELSE "abort"
                /\ UNCHANGED task
           [] OTHER -> main' = "abort" /\ UNCHANGED <<m, task, moves>>
  /\ UNCHANGED <<rle, text>>

(* The result is compared, and both lists are released. *)
Compare ==
  /\ main = "rec" /\ task[Root].pc = "done"
  /\ LET rec == task[Root].head
         g1 == NodesDealloc(m, m.head[rec].first)
         g2 == NodesDealloc(g1, m.head[rle].first)
     IN  IF RleCmp(m, rle, rec)
         THEN /\ m' = HeadDealloc(HeadDealloc(g2, 0, rec), 0, rle)
              /\ rle' = Null /\ task' = [task EXCEPT ![Root] = NoCall]
              /\ main' = "free"
         ELSE main' = "abort" /\ UNCHANGED <<m, rle, task>>
  /\ UNCHANGED <<text, moves>>

(* rle_pools_free: the counters must be the lengths of the lists. *)
PoolsFree ==
  /\ main = "free"
  /\ IF \A w \in Workers :
          /\ Len(ListFrom(m, m.pool[w].nodes)) = m.pool[w].nodes_nr
          /\ Len(HeadsFrom(m, m.pool[w].heads)) = m.pool[w].heads_nr
     THEN m' = [m EXCEPT !.pool = [w \in Workers |-> EmptyPool]] /\ main' = "done"
     ELSE main' = "abort" /\ UNCHANGED m
  /\ UNCHANGED <<rle, text, task, moves>>

Next ==
  \/ \E w \in Workers, freqs \in Freqs : MkRand(w, freqs)
  \/ Encode \/ Balance \/ Compare \/ PoolsFree
  \/ \E r \in Ranges :
       \/ \E w \in Workers : Start(r, w) \/ MergeStart(r, w)
       \/ Look(r) \/ Take(r) \/ EncodeReturn(r) \/ MergeReturn(r)

Spec == Init /\ [][Next]_vars

(* Weak fairness of Next: the scheduler leaves no worker idle while there  *)
(* is work.  The guards stand for ENABLED Next, which takes TLC too long   *)
(* where main builds whole lists.                                          *)
CanStep ==
  \/ main \in {"mkrand", "encode", "balance", "free"}
  \/ main = "rec" /\ task[Root].pc = "done"
  \/ \E r \in Ranges :
       \/ task[r].pc \in {"encode", "alloc", "merge"}
       \/ task[r].pc = "ready" \/ Synced(r)
FairSpec == Spec /\ ([]<>(~ CanStep) \/ []<><<Next>>_vars)

-----------------------------------------------------------------------------
(* Properties *)

Calls(pcs) == {r \in Ranges : task[r].pc \in pcs}

(* The nodes a call of rle_encode_rec has: the list it makes or has made,  *)
(* and the node it is about to release.                                    *)
CallList(r) == ListFrom(m, IF task[r].head = Null THEN task[r].first ELSE m.head[task[r].head].first)
MainList == IF rle = Null THEN <<>> ELSE ListFrom(m, m.head[rle].first)
WithList == Calls({"encode", "alloc", "merge", "done"})
Freeing == {r \in Calls({"merge"}) : task[r].got # Null}

(* Every node ever allocated is in one place: a pool, a list or the hands  *)
(* of a call that releases it (as many as there are nodes, and all of      *)
(* them); so are the heads; and the counters of the pools, read by         *)
(* balancing and checked at the end, are the lengths of the lists.  Pools  *)
(* need no lock for it, as long as the pool that is used is that of the    *)
(* worker the code runs on by then.                                        *)
EveryNodeInOnePlace ==
  LET nodes == [w \in Workers |-> ListFrom(m, m.pool[w].nodes)]
      heads == [w \in Workers |-> HeadsFrom(m, m.pool[w].heads)]
      lists == [r \in WithList |-> CallList(r)]
      inUse == {task[r].head : r \in Calls({"done", "merge"})}
                 \union {task[r].old : r \in Calls({"merge"})} \union ({rle} \ {Null})
      totalLen(f, S) == MapThenSumSet(LAMBDA x : Len(f[x]), S)
  IN  main \notin {"done", "abort"} =>
        /\ m.nodes <= MaxNodes /\ m.heads <= MaxHeads
        /\ \A w \in Workers : m.pool[w].nodes_nr = Len(nodes[w]) /\ m.pool[w].heads_nr = Len(heads[w])
        /\ totalLen(nodes, Workers) + totalLen(lists, WithList) + Len(MainList) + Cardinality(Freeing)
             = m.nodes
        /\ UNION {ToSet(nodes[w]) : w \in Workers} \union UNION {ToSet(lists[r]) : r \in WithList}
             \union ToSet(MainList) \union {task[r].got : r \in Freeing} = 1..m.nodes
        /\ totalLen(heads, Workers) + Cardinality(inUse) = m.heads
        /\ UNION {ToSet(heads[w]) : w \in Workers} \union inUse = 1..m.heads

(* What a call returns is the list of the runs of its symbols, and ->last  *)
(* is the last node of it, however the symbols were split and whichever    *)
(* half finished first: a run that crosses the border is joined, and only  *)
(* there.  rle_cmp would not see a wrong last run (rle_rec_mpools.c:576).  *)
ListsAreRuns ==
  \A r \in WithList :
    LET nodes == CallList(r)
        upto == IF task[r].head = Null THEN task[r].at ELSE r[2]
        last == IF task[r].head = Null THEN task[r].last ELSE m.head[task[r].head].last
    IN  /\ RunsOf(m, nodes) = Runs(SubSeq(text, r[1] + 1, r[1] + upto))
        /\ nodes # <<>> => last = Last(nodes)

(* No assertion of the program fails (main would stop at "abort"), pools   *)
(* are balanced in the rounds that are counted, every call returns, and    *)
(* all memory is in the pools when they are freed.                         *)
RunEnds == <>(main = "done")
=============================================================================
