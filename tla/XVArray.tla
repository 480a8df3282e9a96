------------------------------- MODULE XVArray -------------------------------
(***************************************************************************)
(* Versioned arrays (xarray/xvarray_sla.h) over versioned pointers         *)
(* (verp/verp.h, verp.c, verp_htable.h).  Many boards, xvarray_t           *)
(* structures, share one array.  The chunk of a node is private to the     *)
(* base board until another board writes to it; the pointer to it is then  *)
(* replaced by a marked pointer to a map from versions to chunks, in which *)
(* a board finds the chunk of its nearest ancestor and to which it adds a  *)
(* copy before it writes.                                                  *)
(*                                                                         *)
(* A board stands for its version too: the version outlives xvarray_t      *)
(* while children or mappings refer to it.  Each board is used by one task *)
(* at a time, the tasks of different boards run concurrently; as in the    *)
(* programs (floorplan.c, branch.c) a board is not written once other      *)
(* boards branch from it.  Ver shows that counting and releasing is right  *)
(* when threads interleave, so a release is one step here.                 *)
(***************************************************************************)
EXTENDS Integers, SequencesExt

CONSTANTS
  Boards,
  Base,            (* the board xvarray_create made: glbl->v_base        *)
  Nodes,           (* the nodes of the array; a node is a chunk of rows  *)
  Vals, InitVal,   (* what is written to chunks, and what they hold at first *)
  Null,
  LogSize,         (* VERP_INLINE_LOG_SIZE                               *)
  ChildrenFirst    (* the boards that are only destroyed after those     *)
                   (* that branch from them (xvarray_sla.h:111-112)      *)

ASSUME ConstantsAssumption ==
  /\ IsFiniteSet(Boards) /\ IsFiniteSet(Nodes)
  /\ Base \in Boards
  /\ Null \notin Boards \union Vals \union {InitVal} /\ Null \notin Nodes \X Boards
  /\ LogSize \in Nat \ {0} /\ ChildrenFirst \subseteq Boards

(* The base is destroyed last if at all, as in branch.c and floorplan.c:   *)
(* every board writes to its log, and verp_log_gc would meet half of what  *)
(* verp_log_add does.                                                      *)
ASSUME BaseIsLast == Base \in ChildrenFirst

(* Each board converts a pointer at most once, so a verp_t is named by the *)
(* node and the board it was allocated for.                                *)
Verps == Nodes \X Boards

VARIABLES
  node,     (* node->chunk: the marked verp, or Null and the base chunk  *)
  map,      (* verp->vpmap: the chunk of every version that has one      *)
  nadds,    (* ver->v_log[0]: how many entries the log has               *)
  log,      (* ver->v_log[1] and on: the verps that map the version      *)
  parent,   (* ver->parent                                               *)
  rfcnt,    (* ver->rfcnt                                                *)
  open,     (* the boards in use                                         *)
  op,       (* the call each board is in                                 *)
  want      (* what each board should see: its own writes over a         *)
            (* snapshot of its parent (not in the code)                  *)

vars == <<node, map, nadds, log, parent, rfcnt, open, op, want>>

(* pc     idle; walk: verp_find_ptr is at version `at'; log, count, entry, *)
(*        ref, set: in verp_insert_ptr for the base; mark: the new verp is *)
(*        about to be node->chunk; have: the chunk to copy is that of      *)
(*        version `at'; got: the pointer is returned; collect, keep:       *)
(*        xvarray_do_destroy has looked for children                       *)
(* size   the number of entries as verp_log_add read it                    *)
NoOp == [pc |-> "idle", writes |-> FALSE, node |-> Null, verp |-> Null, at |-> Null,
         size |-> 0]

Inserting == {"log", "count", "entry", "ref", "set"}
Contents == Vals \union {InitVal}
TypeOK ==
  /\ node \in [Nodes -> [verp : Verps \union {Null}, val : Contents \union {Null}]]
  /\ map \in [Verps -> [Boards -> Contents \union {Null}]]
  /\ nadds \in [Boards -> 0..LogSize]
  /\ log \in [Boards -> [1..LogSize -> Verps \union {Null}]]
  /\ parent \in [Boards -> Boards \union {Null}]
  /\ rfcnt \in [Boards -> Nat]
  /\ open \subseteq Boards
  /\ op \in [Boards -> [pc : {"idle", "walk", "have", "mark", "got", "collect", "keep"} \union Inserting,
                        writes : BOOLEAN, node : Nodes \union {Null}, verp : Verps \union {Null},
                        at : Boards \union {Null}, size : 0..LogSize]]
  /\ want \in [Boards -> [Nodes -> Contents]]

EmptyLog == [i \in 1..LogSize |-> Null]
NoWants == [n \in Nodes |-> InitVal]

(* The maps (verp_htable.h).  A call holds the lock of the one bucket it   *)
(* uses from its search to its change, so each is a step on a map from     *)
(* versions to chunks.                                                     *)
EmptyMap == [b \in Boards |-> Null]
VerpmapGet(verp, ver) == map[verp][ver]
VerpmapSet(verp, ver, chunk) == [map EXCEPT ![verp][ver] = chunk]
(* ... one verpmap_remove after another, for the verps of a log *)
VerpmapRemove(verps, ver) ==
  [e \in Verps |-> IF e \in verps THEN [map[e] EXCEPT ![ver] = Null] ELSE map[e]]

(* xarray_create, xarray_append_set and xvarray_create *)
Init ==
  /\ node = [n \in Nodes |-> [verp |-> Null, val |-> InitVal]]
  /\ map = [e \in Verps |-> EmptyMap]
  /\ nadds = [b \in Boards |-> 0] /\ log = [b \in Boards |-> EmptyLog]
  /\ parent = [b \in Boards |-> Null]
  /\ rfcnt = [b \in Boards |-> IF b = Base THEN 1 ELSE 0]
  /\ open = {Base}
  /\ op = [b \in Boards |-> NoOp]
  /\ want = [b \in Boards |-> NoWants]

Ready(b) == b \in open /\ op[b].pc = "idle"
Children(b) == {c \in Boards : rfcnt[c] > 0 /\ parent[c] = b}

(* The contents of the chunk that call o has found: the base chunk of its  *)
(* node, wherever the pointer to it is now, or a chunk of a map.           *)
Chunk(o) ==
  CASE o.at = Null -> Null
    [] o.verp # Null -> VerpmapGet(o.verp, o.at)
    [] o.verp = Null /\ node[o.node].verp = Null -> node[o.node].val
    [] OTHER -> VerpmapGet(node[o.node].verp, Base)

-----------------------------------------------------------------------------
(* xvarray_branch *)
Branch(b, c) ==
  /\ Ready(b) /\ rfcnt[c] = 0
  /\ parent' = [parent EXCEPT ![c] = b]
  /\ rfcnt' = [rfcnt EXCEPT ![c] = 1, ![b] = @ + 1]
  /\ nadds' = [nadds EXCEPT ![c] = 0] /\ log' = [log EXCEPT ![c] = EmptyLog]
  /\ open' = open \union {c}
  /\ want' = [want EXCEPT ![c] = want[b]]
  /\ UNCHANGED <<node, map, op>>

(* xvchunk_getrd, vp_ptr: a pointer that is not marked is returned as it   *)
(* is; through a marked one the chunk is looked up.                        *)
GetRd(b, n) ==
  /\ Ready(b)
  /\ op' = [op EXCEPT ![b] =
       [NoOp EXCEPT !.node = n, !.verp = node[n].verp,
                    !.pc = IF node[n].verp = Null THEN "got" ELSE "walk",
                    !.at = IF node[n].verp = Null THEN Base ELSE b]]
  /\ UNCHANGED <<node, map, nadds, log, parent, rfcnt, open, want>>

(* xvchunk_getrdwr reads node->chunk.  A normal pointer is the base's own; *)
(* another board allocates a verp and inserts the pointer for the base.    *)
GetRdWr(b, n) ==
  /\ Ready(b) /\ Children(b) = {}
  /\ LET marked == node[n].verp # Null
         ours == ~ marked /\ b = Base
     IN  op' = [op EXCEPT ![b] =
           [NoOp EXCEPT !.node = n, !.writes = TRUE,
              !.pc = IF marked THEN "walk" ELSE IF ours THEN "got" ELSE "log",
              !.verp = IF marked \/ ours THEN node[n].verp ELSE <<n, b>>,
              !.at = IF marked THEN b ELSE Base]]
  /\ UNCHANGED <<node, map, nadds, log, parent, rfcnt, open, want>>

(* One round of verp_find_ptr: verpmap_get, under the lock of its bucket,  *)
(* else on to the parent.  With no parent left the search has failed.      *)
Walk(b) ==
  /\ op[b].pc = "walk"
  /\ LET v == op[b].at
         found == VerpmapGet(op[b].verp, v) # Null
     IN  op' = [op EXCEPT
           ![b].at = IF found THEN v ELSE parent[v],
           ![b].pc = IF ~ found /\ parent[v] # Null THEN "walk"
                     ELSE IF op[b].writes /\ v # b THEN "have" ELSE "got"]
  /\ UNCHANGED <<node, map, nadds, log, parent, rfcnt, open, want>>

(* A copy of the chunk that was found becomes the chunk of the board:      *)
(* memcpy and verp_insert_ptr.  One step: nobody else looks at the log and *)
(* the mappings of a version without children, or changes its count.       *)
Copy_NoRef(b) ==
  /\ op[b].pc = "have" /\ nadds[b] < LogSize
  /\ map' = VerpmapSet(op[b].verp, b, Chunk(op[b]))
  /\ nadds' = [nadds EXCEPT ![b] = @ + 1]
  /\ log' = [log EXCEPT ![b][nadds[b] + 1] = op[b].verp]
  /\ op' = [op EXCEPT ![b].pc = "got", ![b].at = b]
  /\ UNCHANGED <<node, rfcnt, parent, open, want>>

Copy(b) ==
  /\ op[b].pc = "have" /\ nadds[b] < LogSize
  /\ map' = VerpmapSet(op[b].verp, b, Chunk(op[b]))
  /\ nadds' = [nadds EXCEPT ![b] = @ + 1]
  /\ log' = [log EXCEPT ![b][nadds[b] + 1] = op[b].verp]
  /\ rfcnt' = [rfcnt EXCEPT ![b] = @ + 1]
  /\ op' = [op EXCEPT ![b].pc = "got", ![b].at = b]
  /\ UNCHANGED <<node, parent, open, want>>

(* A normal pointer is inserted in the new verp for the base, step by      *)
(* step: verp_log_add reads the number of entries in the log of the base,  *)
LogRead(b) ==
  /\ op[b].pc = "log"
  /\ op' = [op EXCEPT ![b].pc = "count", ![b].size = nadds[Base]]
  /\ UNCHANGED <<node, map, nadds, log, parent, rfcnt, open, want>>

(* stores one more (the compiler reads it once; all boards write to this   *)
(* log, without a lock); when the log is full the program aborts,          *)
LogCount(b) ==
  /\ op[b].pc = "count" /\ op[b].size < LogSize
  /\ nadds' = [nadds EXCEPT ![Base] = op[b].size + 1]
  /\ op' = [op EXCEPT ![b].pc = "entry"]
  /\ UNCHANGED <<node, map, log, rfcnt, parent, open, want>>

(* and stores the entry;                                                   *)
LogEntry_AtCount(b) ==
  /\ op[b].pc = "entry"
  /\ log' = [log EXCEPT ![Base][nadds[Base]] = op[b].verp]
  /\ op' = [op EXCEPT ![b].pc = "ref", ![b].size = 0]
  /\ UNCHANGED <<node, map, nadds, parent, rfcnt, open, want>>

LogEntry(b) ==
  /\ op[b].pc = "entry"
  /\ log' = [log EXCEPT ![Base][op[b].size + 1] = op[b].verp]
  /\ op' = [op EXCEPT ![b].pc = "ref", ![b].size = 0]
  /\ UNCHANGED <<node, map, nadds, parent, rfcnt, open, want>>

(* verpmap_set takes a reference to the base version                       *)
GetRef(b) ==
  /\ op[b].pc = "ref"
  /\ rfcnt' = [rfcnt EXCEPT ![Base] = @ + 1]
  /\ op' = [op EXCEPT ![b].pc = "set"]
  /\ UNCHANGED <<node, map, nadds, log, parent, open, want>>

(* and maps it to the chunk of the base, the pointer that was read;        *)
SetMap(b) ==
  /\ op[b].pc = "set"
  /\ map' = VerpmapSet(op[b].verp, Base, Chunk([op[b] EXCEPT !.verp = Null]))
  /\ op' = [op EXCEPT ![b].pc = "mark"]
  /\ UNCHANGED <<node, nadds, log, parent, rfcnt, open, want>>

(* then node->chunk = verp_mark_ptr(verp), whatever it is by now.          *)
Mark(b) ==
  /\ op[b].pc = "mark"
  /\ node' = [node EXCEPT ![op[b].node] = [verp |-> op[b].verp, val |-> Null]]
  /\ op' = [op EXCEPT ![b].pc = "have"]
  /\ UNCHANGED <<map, nadds, log, parent, rfcnt, open, want>>

(* The program writes through the pointer it got, or is done with it. *)
Write(b, val) ==
  /\ op[b].pc = "got" /\ op[b].writes
  /\ IF op[b].verp = Null
     THEN node' = [node EXCEPT ![op[b].node].val = val] /\ UNCHANGED map
     ELSE map' = [map EXCEPT ![op[b].verp][op[b].at] = val] /\ UNCHANGED node
  /\ want' = [want EXCEPT ![b][op[b].node] = val]
  /\ UNCHANGED <<nadds, log, parent, rfcnt, open, op>>

Return(b) ==
  /\ op[b].pc = "got"
  /\ op' = [op EXCEPT ![b] = NoOp]
  /\ UNCHANGED <<node, map, nadds, log, parent, rfcnt, open, want>>

-----------------------------------------------------------------------------
(* Destroying *)

(* xvarray_do_destroy looks for children: references to the version that   *)
(* are neither the board's nor a mapping's.                                *)
HasNoChildren_Always(b) == TRUE
HasNoChildren_ForgetsOwn(b) == nadds[b] = rfcnt[b]
HasNoChildren(b) == nadds[b] + 1 = rfcnt[b]

Destroy(b) ==
  /\ Ready(b) /\ (b \in ChildrenFirst => Children(b) = {})
  /\ op' = [op EXCEPT ![b].pc = IF HasNoChildren(b) THEN "collect" ELSE "keep"]
  /\ UNCHANGED <<node, map, nadds, log, parent, rfcnt, open, want>>

(* ver_putref, k times, on the version of b: when its count is down to     *)
(* zero it is released, and so are the ancestors that it was the last to   *)
(* refer to (Ver).                                                         *)
PutRefs(b, k) ==
  LET falls[v \in Boards] ==
        \/ v = b /\ rfcnt[v] = k
        \/ v # b /\ rfcnt[v] = 1 /\ \E c \in Children(v) : falls[c]
      released == {v \in Boards : falls[v]}
      loses(v) == IF v = b THEN k ELSE Cardinality(released \intersect Children(v))
  IN  /\ rfcnt' = [v \in Boards |-> rfcnt[v] - loses(v)]
      /\ parent' = [v \in Boards |-> IF v \in released THEN Null ELSE parent[v]]

(* The entries verp_log_gc goes through. *)
Logged(b) == {log[b][i] : i \in 1..nadds[b]}

(* verp_log_gc: the mappings the log names are removed and their chunks    *)
(* freed; then the board's own reference is put.                           *)
Collect_NotTheMaps(b) ==
  /\ op[b].pc = "collect"
  /\ PutRefs(b, nadds[b] + 1)
  /\ open' = open \ {b}
  /\ op' = [op EXCEPT ![b] = NoOp]
  /\ want' = [want EXCEPT ![b] = NoWants]
  /\ UNCHANGED <<node, map, nadds, log>>

Collect(b) ==
  /\ op[b].pc = "collect"
  /\ map' = VerpmapRemove(Logged(b), b)
  /\ PutRefs(b, nadds[b] + 1)
  /\ open' = open \ {b}
  /\ op' = [op EXCEPT ![b] = NoOp]
  /\ want' = [want EXCEPT ![b] = NoWants]
  /\ UNCHANGED <<node, nadds, log>>

(* The version is still needed: only the board's own reference is put. *)
Keep(b) ==
  /\ op[b].pc = "keep"
  /\ PutRefs(b, 1)
  /\ open' = open \ {b}
  /\ op' = [op EXCEPT ![b] = NoOp]
  /\ want' = [want EXCEPT ![b] = NoWants]
  /\ UNCHANGED <<node, map, nadds, log>>

Next ==
  \E b \in Boards :
    \/ \E c \in Boards : Branch(b, c)
    \/ \E n \in Nodes : GetRd(b, n) \/ GetRdWr(b, n)
    \/ Walk(b) \/ Copy(b)
    \/ LogRead(b) \/ LogCount(b) \/ LogEntry(b) \/ GetRef(b) \/ SetMap(b) \/ Mark(b)
    \/ Return(b)
    \/ \E val \in Vals : Write(b, val)
    \/ Destroy(b) \/ Collect(b) \/ Keep(b)

Spec == Init /\ [][Next]_vars

-----------------------------------------------------------------------------
(* Properties *)

(* The verps that map a version, and the boards that insert in a new verp. *)
MapsOf(b) == {e \in Verps : map[e][b] # Null}
Adding == {b \in Boards : op[b].pc \in Inserting}

(* Verp e was allocated for its node.  Two boards may have allocated one   *)
(* for the same node: nothing in xvchunk_getrdwr prevents it.              *)
Allocated(e) == map[e][Base] # Null \/ (e[2] \in Adding /\ op[e[2]].verp = e)
Contested(n) == \E b, c \in Boards : b # c /\ Allocated(<<n, b>>) /\ Allocated(<<n, c>>)

(* The pointer that xvarray_get_rd or xvarray_get_rdwr returns shows the   *)
(* board its own writes over what its parent held when it branched, and    *)
(* stays good while the program uses it: what other boards write, copy and *)
(* free does not show.                                                     *)
EveryPointerShowsSnapshot ==
  \A b \in Boards : op[b].pc = "got" => Chunk(op[b]) = want[b][op[b].node]

(* It does at every node that two boards have not converted at a time,     *)
(* whatever happens at others.                                             *)
PointerShowsSnapshot ==
  \A b \in Boards : op[b].pc = "got" /\ ~ Contested(op[b].node) =>
    Chunk(op[b]) = want[b][op[b].node]

(* "Is the log complete?" (verp.h:92): that of any version but the base    *)
(* names every verp that maps it, once.  That of the base may have lost    *)
(* entries to boards that added at a time, but when none is at it the      *)
(* number of entries tells.                                                *)
LogNamesMappings ==
  \A b \in Boards : rfcnt[b] > 0 /\ (b = Base => Adding = {}) =>
    LET maps == Cardinality(MapsOf(b))
    IN  IF nadds[b] = maps THEN Logged(b) = MapsOf(b) ELSE b = Base /\ nadds[b] < maps

(* What xvarray_do_destroy takes the count of a version for: one for the   *)
(* board, one for each mapping, or for the board about to set it, the rest *)
(* for children.                                                           *)
CountIsBoardMapsChildren ==
  TypeOK /\ \A b \in Boards :
    rfcnt[b] = (IF b \in open THEN 1 ELSE 0) + Cardinality(MapsOf(b))
                 + (IF b = Base THEN Cardinality({c \in Boards : op[c].pc = "set"}) ELSE 0)
                 + Cardinality(Children(b))

(* When the decision xvarray_do_destroy took is acted on, verp_log_gc      *)
(* finds a mapping for each entry (verp.h:213) and leaves one reference    *)
(* (xvarray_sla.h:93), and there is no child that needs the mappings.  A   *)
(* board that has outlived its children is taken for a dead end, but for a *)
(* base whose log has lost entries.                                        *)
BaseLogLost == nadds[Base] < Cardinality(MapsOf(Base))

DestroyDecidesRight ==
  \A b \in Boards :
    /\ op[b].pc = "collect" =>
         /\ Children(b) = {} /\ rfcnt[b] = nadds[b] + 1
         /\ Logged(b) = MapsOf(b) /\ Cardinality(MapsOf(b)) = nadds[b]
    /\ op[b].pc = "keep" /\ b \in ChildrenFirst => b = Base /\ BaseLogLost

(* A board that is destroyed after its children leaves nothing, no mapping *)
(* and no version; but a base whose log has lost entries leaves all.       *)
NothingLeaks ==
  \A b \in ChildrenFirst \ open :
    (rfcnt[b] = 0 /\ MapsOf(b) = {}) \/ (b = Base /\ BaseLogLost)
=============================================================================
