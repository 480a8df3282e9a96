# xarray in TLA+

`xarray` is a set of C arrays that grow and shrink at the end, are concatenated
and split, and are read in parallel through slices, with programs that use them
(run-length encoding, sum, floorplan) and a library of versions (`verp`) on
which one of them, the versioned array, is built.  The source has three
implementations of the array interface: skip lists of chunks (SLA), ropes (RPA)
and one contiguous buffer (dynarray).

This project models all three implementations and the C++ port of the first, the
slices, the version tree, the versioned arrays, and the run-length encoders, the
sum and the floorplan search in their parallel and sequential builds.  TLC checks
them on small instances; TLAPS proves the invariants of the version tree, of its
garbage collector and of the versioned arrays, that the search finds the minimum,
that the programs over dynarrays compute the runs and the sum of their input and
that their arrays are the sequences of the interface, and that ropes are sound
trees and sequences whose slices hand out the next elements.

Paths below are relative to `src/`.

## 1. The system

| Component | State it keeps | Operations | What is hard | What makes it correct |
|---|---|---|---|---|
| Skip lists `xarray/sla-chunk.{h,c}`, `sla-chunk-mm.h` | nodes with a chunk of elements and forward pointers with counts; head and tail dummies, `cur_level`, `total_size` | init, find, traverse, append/pop of nodes and tail elements, `split_coarse`, `concat` | every operation fixes counts on every level; levels are random; concat swaps tail dummies | counts are distances, levels are sublists, each node has one owner |
| Arrays over SLA `xarray/xarray_sla.h`, interface `xarray.h` | `elems_nr`, the skip list | create, get, append, prepare/finalize, pop, concat, split | sizes of chunks, copying or linking in concat, loops over partly filled chunks | they behave like sequences |
| Slices `xarray_sla.h`, pointers of `sla-chunk.c` | array, start, length, a node and a count per level | init, get, getnext, getnextchunk, split | the cached pointer must stay where a search would be | chunks are the next elements |
| Versions `verp/ver.{h,c}`, `include/refcnt-lock.h` | parent pointers, locked counts, a pool of free versions per thread | create, branch, getref, putref, pin, detach, `tree_gc`, `leq` | threads release, branch and walk at once; release cascades to parents; memory is recycled | counts are exact, nothing is used after it is released, nothing leaks, order is kept |
| Versioned pointers `verp/verp.{h,c}`, `verp_htable.h` | a map from versions to pointers per pointer, a log of the maps per version | find, insert, update, collect by the log | search through ancestors beside insertions and removals | a version sees its nearest ancestor's pointer |
| Versioned arrays `xarray/xvarray_sla.h` | one array shared by many boards, chunks copied on write | create, branch, getrd, getrdwr, destroy | conversion of a shared pointer; deciding from a count whether a version has children | each board sees its own writes over a snapshot of its parent |
| Floorplan `floorplan/floorplan.c`, `floorplan-bots.c`, `floorplan-serial.c` | best area, footprint and board; calls in progress | `add_cell`, parallel and sequential, `lay_down`, `try_update_min` | pruning by a bound read without lock; three results behind one lock; builds that stop making tasks at different places | the minimum is found, results belong together |
| Ropes `xarray/rope_array.{h,c}`, `xarray_rpa.h` | binary tree of leaves, depth and length per node, the last leaf; slices cache a node and a leaf | append, prepare/finalize, pop, concat, rebalance, slices | tail beside the tree; Fibonacci rebalancing; climbing from a cached leaf | sequences; the tree is well formed; chunks are the next elements |
| RLE over arrays `rle/rle_rec_xarray.c`, Sum `sum/sum_xarray.c` | arrays of runs and of symbols, a buffer per encoder, sums | fill, decode, encode or sum serially and by fork-join over slices, merge | the border between two halves; a buffer pointer into an array that may move | the answer of the sequential program, for every slice |
| RLE over lists `rle/rle_rec_mpools.c` | pools of free nodes and heads per worker, lists with a first and a last node | alloc and free in the pool of the worker, balance, encode, merge | pools without locks, code that resumes on another worker | a node is in one place, lists are the runs, the run ends |
| Dynamic arrays `xarray/dynarray.*`, `xarray_dynarray.*` | one buffer and its size | as the array interface | realloc moves the buffer | they behave like sequences |
| C++ port `xarray++/sl.hh` | as the skip lists | find, append, fill, split | levels set up one by one, when they are needed | it does what the C library does |
| Tree arrays `xarray/tree_array.c`; helpers, build, scripts | - | an experiment; timers, parsing, plots | - | - |

How they interact: a program calls the array interface (`xarray.h`), which is
compiled to one of the implementations; the SLA one calls `sla-chunk.c` on a
skip list it owns.  `xarray_concat` moves the nodes of one array to another.
A slice holds a pointer into the skip list of its array and calls nothing that
changes it; the fork-join programs (Cilk) split slices and read them in
parallel.  Floorplan creates one versioned array; each branch of the search
branches a board, i.e. a version.  A board writes through `node->chunk` of the
shared array, through a `verp` once a second version has written, and its
versions are counted by `ver.h`.

## 2. Modules

| Module | Models | How state corresponds to code |
|---|---|---|
| `XArraySpec` | the promise of `xarray.h`: arrays are sequences | `arr[a]`, or `Gone` before create and after a concatenation took it |
| `Sla` | `sla-chunk.c`, one operator per function on a heap record | `h.fwd[n][i]` = `struct sla_fwrd`; `h.chunk` the elements; `h.live` allocated nodes; `h.sla[s]` = `struct sla` |
| `XArraySla` (extends `Sla`) | `xarray_sla.h`, one action per interface function | `h`, `nr` = `elems_nr`, `open`, `prep` (between prepare and finalize) |
| `XSliceSla` (extends `XArraySla`) | slices and `struct sla_ptr` | `sl[x]` = `struct xslice` |
| `Rope` | `rope_array.c`, one operator per function on a heap record | `h.nelems`, `h.parent`, `h.left`, `h.right`, `h.depth`, `h.root`, `h.tail` as named; `h.data` the elements of a leaf; `h.live` allocated leaves and nodes |
| `XArrayRpa` (extends `Rope`) | `xarray_rpa.h`, one action per interface function | `h`, `prep` (between prepare and finalize) |
| `XSliceRpa` (extends `XArrayRpa`) | slices of ropes, end of `rope_array.h` | `sl[x]` = `struct rpa_slice`, and whether its program reads chunks already |
| `Ver` | `ver.h`, `ver.c`, `refcnt-lock.h` | `parent`, `rfcnt`, `pool` as named; `ref` are the program's references, `drop`, `stack` and `look` the calls in progress |
| `VerGC` (extends `Ver`) | `ver_tree_gc`, `ver_detach` | `gc`: the collector's place |
| `XVArray` | versioned arrays on versioned pointers | `node` = `node->chunk`, `map` = `verp->vpmap`, `nadds` = `v_log[0]`, `log` the entries after it, `op` the call each board is in |
| `Floorplan` | `floorplan.c` | `minArea`, `footprint`, `best`, `lock`; `calls` and `iters` are the frames of `add_cell` and of `try_update_min` |
| `FloorplanTasks` (extends `Floorplan`) | `floorplan-bots.c` with each of its cutoffs, `floorplan-serial.c` | `build` is the program that runs; the rest as above |
| `DynArray` | `dynarray.{c,h}`, `xarray_dynarray.{c,h}`, operators on a record | `elems`, `next_idx`, `alloc_grain` as named; `moved` counts the moves of the block, and a pointer remembers the count |
| `XArrayPrograms` (extends `DynArray`) | `rle_rec_xarray.c` and `sum_xarray.c`, from main to its comparisons | `arr` the arrays by the call that made them, `calls` the calls of the recursion by their slice, `main` what main does next |
| `RlePools` | `rle_rec_mpools.c` | `m` the memory (nodes, heads, pools), `task` the calls of the recursion by their range, `rle` and `text` what main made |
| `SlrCpp` (extends `XSliceSla`) | `xarray++/sl.hh`, as functions on the heap of `Sla` | as `Sla` |
| `VerProofs` | theorems about `Ver` | |
| `VerGCProofs` | theorems about `VerGC` | |
| `XVArrayProofs` | theorems about `XVArray` | |
| `FloorplanProofs` | theorems about `Floorplan` and `FloorplanTasks` | |
| `XArrayProgramsProofs` | theorems about `XArrayPrograms` | |
| `RopeTreeProofs` | lemmas about the trees of `Rope` | |
| `RopeProofs` | theorems about `XArrayRpa` | |
| `XSliceRpaProofs` | theorems about `XSliceRpa` | |
| `MC*` | symmetry and inputs for TLC | |

`XArraySla` implements `XArraySpec` under the mapping `Contents(s)`, the chunks
of level 0 one after the other, and `XArrayRpa` under its own `Contents(r)`, the
leaves from left to right (property `ImplementsArrays` of each).  The arrays of
`XArrayPrograms` implement it too, with the writes of a program through the
pointer that `xarray_get` returned (`UseSpec`).

An operation whose name ends in `_Something` is a deliberate alteration of the
definition that follows it; nothing uses these but the check that each property
can be broken by a plausible bug.

### Granularity

* `XArraySla`, `XArrayRpa` and their slices: an array is used by one task at a time, so one call
  of the interface is one step.  Prepare and finalize are two calls, other
  arrays change between them.
* `Ver`: `refcnt_dec` holds the lock of the count through the release; each
  count change is one step, and each level of the cascade of releases is
  another, with other threads in between.  `ver_leq` takes one step per
  pointer it follows.
* `VerGC`: every read of a count, every pointer cleared and every put is a step.
* `XVArray`: `xvchunk_getrdwr` is cut at each access to state that other boards
  use: the read of `node->chunk`; in `verp_insert_ptr` for the base the read of the
  number of log entries, the store of one more, the store of the entry, the
  reference taken and the insertion in the map; the store of the marked pointer;
  each lookup of the search.  The copy into the board's own version is one step,
  since nobody else uses the log, the count and the mappings of a version without
  children.  `xvarray_do_destroy` looks for children in one step and acts in the
  next; a release is one step, `Ver` shows what happens inside.
* `Floorplan`: laying a cell down and the unlocked comparison are one step (the
  board is private, the bound is read once); the lock, the second comparison and
  the stores are steps of their own, since the bound is read unlocked between them.
* `XArrayPrograms`: a call of the recursion takes a step per symbol, per chunk
  and per call of the array interface it makes in a merge; what main does while
  nothing runs beside it is one step for each array it changes.  A slice hands
  out chunks of any length.
* `RlePools`: a leaf takes a step for each run it finds, a merge is cut where the
  code may resume on another worker, and balancing takes a step per round.
* `SlrCpp` is functions only, compared with those of `Sla` on every list the
  other actions reach.

### Assumptions on the programs

* An append is finalized with at least one element (`MinFinalize = 1`), and an
  array that is concatenated is not empty; split is called with `sla1 = NULL`.
* Arrays with live slices are not changed.  `xslice_getnextchunk` and
  `xslice_getnext` are right for arrays that only grew (`OnlyGrew`); reading by
  index is shown for all.
* Slices of ropes are split first, then read by single elements, then by chunks,
  as the encoder does; sliced ropes have no empty leaf.  `xslice_split` is not
  given the slice itself as the first half, which `rpa_slice_split` fills before it
  has read all of the slice.
* The programs over arrays keep the first of these rules by themselves, which
  `SlaRulesAreKept` shows.
* References are put once and operations go through a reference (`Ver`).
* A board is not written after others branched from it, and the base is destroyed
  after the boards that branch from it (`BaseIsLast`), as in `branch.c` and
  `floorplan.c`.  Were it destroyed while another board adds to its log, it could
  be taken for a dead end between two accesses of `verp_log_add` and `verp_insert_ptr`
  (`xvarray_sla.h:89`), and `verp_log_gc` would abort (`verp.h:213`).  Nothing is
  assumed of how many boards convert pointers at a time.  A log that is full aborts
  the program (`verp.h:115`); such a board goes no further in the model.

## 3. Runs

| Run | Question | Bounds |
|---|---|---|
| `sla_slices` | is the index a skip list whose counts are distances, with one owner per node; are the arrays sequences, and do get and getlast read them; do slices hand out the next elements, however they were split; does the C++ port do the same? | 2 arrays, 3 nodes of 2 elements, 2 levels, 2 values, 2 slices |
| `ropes` | are ropes sound trees and sequences, does rebalancing keep order, do slices hand out the next elements? | 2 ropes, 4 leaves of 2, 3 inner nodes, 2 values, 2 slices |
| `rope_get` (violated) | does `xslice_get` of a rope slice find the element? | the same |
| `ver_refs` | are counts exact, is nothing leaked, are pools chains, does `ver_leq` answer right? | 2 threads of 2 handles, 4 versions |
| `ver_collect` | does collecting beside branch and release keep counts and order, and do collecting and releasing end? | 2 threads, 3 handles, 3 versions |
| `ver_compare` (violated) | may `ver_leq` run beside `ver_tree_gc`? | 2 threads of 2 handles, 3 versions |
| `xv_boards` | does each board see its snapshot at every node that is not contested, are logs and counts right, is destroy right? | 3 boards, 1 node, logs of 2, the base destroyed last |
| `xv_race` (violated) | does each board see its snapshot at every node (`EveryPointerShowsSnapshot`)? | 3 boards, 1 node, logs of 2 |
| `floor_search` | is the minimum found on every schedule of every build, and does the search end? | 3 cells, 2 of them in 2 orientations, cutoff 1, 6 builds |
| `floor_rows` (violated) | does the versioned `lay_down` accept what fits? | 3 cells of one shape |
| `programs` | has every call of the encoder and of the sum the answer for its slice, are dynamic arrays sequences, are the rules of skip lists kept? | 5 elements, 2 symbols, runs up to 3, integers 0 to 2, limit 2, blocks of 2 and 3 |
| `rle_pools` | is every node in one place, is every list the runs of its range, does the run end with its assertions satisfied? | 3 workers, 3 runs of up to 3, 5 symbols, limit 2 |

Why the bounds are enough.  In a skip list three nodes on two levels give nodes
on and off the upper level at both ends and in the middle, and two arrays give
every combination of heights for concat; at most one element has the second
value and a sliced array is the only one (`Bound`).  Four
leaves give paths of three nodes to either side, ropes too deep for their length
(four leaves of one element) that rebalancing changes, and leaves that a slice
reaches by climbing to `hdr0` and by stopping below it; the table of Fibonacci
numbers has 7 entries (46 in the code), enough for more elements than four leaves
hold.  In `ropes` two states
whose trees are equal but made of other leaves and nodes are taken for one
(`View`: links, tails and the heap enter it through the invariants about them),
at most one element has the second value, which is enough to see where any one
element goes, and a sliced rope is the only one.  Two elements per chunk distinguish empty, partly filled
and full.  Three cells and a cutoff of 1 give calls above, at and below the
cutoff of every build.  Five symbols give a recursion of two levels with leaves
of one and of two symbols, borders inside and between runs, and blocks that
grow once or twice.  Three workers let a pool be left on one worker and met on
another while a third goes on; `MaxNodes` and `MaxHeads` are more than a run needs.  Four versions make a chain with a branch, so that a release can
cascade and be stopped, and fewer versions than allocations force recycling.
Three boards make a chain and a fork, and two that convert at a time while the
base is read; board names are used again after release, so histories are not
bounded.  One node is enough for that: both boards add to the one log of the base,
whose increments and entries get lost, before either stores its pointer.  Two
nodes, where the race in the log is without one at a node, are left to the proofs
(the states of two are too many), and a log of 2 is as long as two boards make it.  Values are only compared, one initial and one
written value tell whose chunk is read.  The only caps are the sets in the cfg
files; counters have no bound of their own.

Deadlock is checked where something can always go on; `CHECK_DEADLOCK FALSE`
is set in `XVArray`, where all boards may be gone, and in the floorplan search
and `RlePools`, where the program ends.

Fairness.  `ver_collect` assumes weak fairness of the steps of a thread that is
inside a call (decrement, free, the steps of the collector): a running thread
goes on.  Nothing is assumed of calls being made.  `floor_search` and `rle_pools`
assume weak fairness of the program as a whole: some worker goes on while any
can; no fairness between tasks is needed.  In `RlePools` it is written out with
`CanStep` (something is left to do) for the enabling condition.

### Where code and documentation disagree

Runs show four:

* `ver_compare`: `ver_leq` follows `->parent` with neither reference nor lock,
  `ver_tree_gc` clears and releases the chain it walks; versions are recycled,
  and the walk may answer wrong.
* `xv_race`: two boards that write to a node for the first time at once build a
  map each; the second store to `node->chunk` drops the map with the first
  copy (`xvarray_sla.h:204-218`).  A node that two boards have allocated a map for
  is `Contested`; `PointerShowsSnapshot` speaks of the others.
* `rope_get`: `rpa_slice_getchunk` ignores the index it is given
  (`rope_array.h:352`), so `xslice_get(xsl, i)` of a rope slice is always its
  first element.
* `floor_rows`: the versioned `lay_down` reads one row below the cell
  (`i++ == nrows`, `floorplan.c:231`) and refuses cells that stand on others.

Others were met while reading, and are excluded by guards rather than run:

* `sla_pop_head` lowers counts of levels the popped node is not on by a word
  beyond the node (`sla-chunk.c:337`); harmless for the only caller, which
  empties the list.  `sla_add_node_head` (`:281`) links a node higher than the
  list to itself; nothing calls it.
* `sla_split_coarse` with `sla1 != NULL` initialises `sla1` after the split
  (`:453`), so `xarray_split` loses the first half.
* An append finalized with 0 elements leaves an empty tail node and the next pop
  fails `assert(nlen > 0)` (`:637`); so do `assert`s of `sla_concat` (`:485-486`)
  when the second array is empty.
* `sla_ptr_find` (`:823`) reads a level of a slice pointer that was never set
  when an append has raised `cur_level` since.
* `xarray_getchunk` (`xarray_sla.h:167`) and `xslice_getnextchunk` (`:415`) take
  the capacity of a chunk for its length; wrong for partly filled chunks inside a
  concatenated array.
* `xslice_getnext` validates the slice at its end (`:366`), which fails when the
  last element of the array was taken.
* `rpa_slice_getnextchunk` leaves `hdr0_off` at the old start when it stops
  climbing below `hdr0` (`rope_array.h:448`): `xslice_split`, `xslice_getnext` and
  `xslice_get` after it would look in the wrong place.
* Concatenating an empty rope leaves an empty leaf: `rpa_getlast` (`:231`) fails
  when pops make it the tail, `xslice_getnextchunk` (`:329`) when it comes to it.
* `rpa_rebalance` does not always give a rope that `rpa_is_balanced`, which
  `rpa_tests/inserts.c:40` asserts for its appended one: leaves of 1, 1, 1, 2, 1
  elements, each concatenated, end at depth 4 with 6 elements.
* The last slot of the forest reads `rpa_fib[46]` of 46 (`rope_array.c:477`).
* Boards that convert pointers at a time, of one node or of two, lose entries of
  the base's log (`verp.h:111-121`, `BaseLogLost`): the base then counts a child too
  many when it is destroyed, and it and its mappings are never freed.  The runs
  and proofs allow for it by name and show that nothing else goes wrong.
* The assertion at `xvarray_sla.h:95` reads the count a second time; another
  task can release the last child in between.
* `sla_verify` (`sla-chunk.c:124`) loops while `i > cur_level` from 0: never.
* `rle_cmp` of `rle_rec_mpools.c` leaves its loop before it compares the last
  nodes; `rle_cmp_fast`, which nothing calls, never ends when one list is a
  prefix of the other; `rle_mkrand_inc`, not called either, divides by zero
  below 98 runs; `rle_pool_free_nodes` does not lower `rle_nodes_al`.
* `verp_update_ptr` (`verp.c:106`) tests for `NULL`, `verpmap_update` returns
  `VERP_NOTFOUND`; only the test main of `verp.c` calls it.
* `floorplan-serial.c` never calls its `compute_floorplan`; the Makefile builds
  no `floorplan-bots`.
* In `sl.hh` `add_node_head`, `pop_head`, `sla_pop_tail`, `slr_concat`,
  `sla_concat` and `sla_copyto` do not compile when they are instantiated.

## 4. Proofs

TLAPS proves, for every value of the constants under the `ASSUME`s of the
modules (finite sets of versions, threads and handles, of boards and nodes;
`Null` outside them; cells in chain order that touch an earlier cell; `Gone`, the
value of an array that is not there, no sequence of elements; leaves and inner
nodes finitely many and apart, an inner node for each join of two leaves, and a
table of Fibonacci numbers whose last entry is above the number of elements,
beyond which `rpa_add_to_forest` aborts):

* `VerProofs`: `TypeCorrect`, `CountsAreExact` and `HeldVersionsAreLive`.  The
  inductive invariant is `TypeOK /\ ListsInv /\ RefcountsExact`.  Exact counts are
  not inductive alone: a thread that takes a version out of its pool, or
  resumes a release, must know that nobody refers to it and that it occurs in no
  other pool or release, which is `ListsInv`.  The lemmas `CountUpdate` and
  `CountExcept` say how the number of references changes when one of them does;
  every action then changes `rfcnt` by as much.
  `PoolsAreSound` (`PoolsAreChains`) is proved there too.  `PoolsInv` adds the
  links and that every free version is in some pool; that it is in one slot is
  `ListsInv`, and that the slot has a number up to that of the versions is the
  pigeonhole principle.
  `LeqIsRight` (`LeqAnswersRight`) and `NothingIsLeaked`
  (`NothingLeaks`) follow.  `OrderInv` is that invariant with `NoCycle` (ranks
  fall from each version to the one it refers to, a pending put included) and
  `WalksInv`: a thread in `ver_leq` holds both versions, and where it stands the
  answer is still that of where it started.  `Ancestors` is a recursive function;
  that it exists and that after as many rounds as there are versions it is the
  least set closed upwards is proved first (`AncIsAbove`), and the rest speaks of
  closed sets only.  Nothing leaks because a live version that no handle holds has
  a live child, and there is no cycle.
* `VerGCProofs`: `GCCountsAreExact` (`GCRefcountsExact`), `GCTypeCorrect` and
  `CollectorReleasesNothingHeld`, for either value of `Comparing`.  Exact counts do
  not survive the collector alone: were the version it cuts released meanwhile,
  or met again further up the chain, a reference would be counted twice.  `Chain`
  rules both out.  Ranks fall from every version to the one it refers to, so
  what is left to put never is the version that is cut; and the collector stands
  on a path of live versions whose lowest one its thread holds and each of whose
  others is held by one of the path, so that none of them is ever down to its
  last reference (`PathHasTwo`).  That the counts the walk read may be outdated
  when the chain is cut does not matter to the proof: `ver_putref` decides again
  under the lock.
  `CollectorLeaksNothing` (`GCNothingLeaks`) and `CollectorKeepsOrder`
  (`GCOrderIsKept`, an action property) follow.  `GCOrderInv` adds
  `PoolLinks` and `AloneInv`: each version that the walk has passed is live and
  has a single reference, that of the collector or that of a version passed
  before.  So what is cut off has no descendant outside it and no holder, and a
  pointer changes only in versions that are not live or into what is cut off:
  between held versions every path stays.
* `XVArrayProofs`: `SnapshotHolds` (`PointerShowsSnapshot`), `LogsAreComplete`
  (`LogNamesMappings`), `CountsAreRight` (`CountIsBoardMapsChildren`),
  `DestroyIsRight` (`DestroyDecidesRight`) and `BoardsLeaveNothing`
  (`NothingLeaks`), for any number of boards that convert pointers at any time, of
  one node or of several, with the steps of their conversions in any order; of the
  base they use that it is destroyed last.  `XVInv` says that the versions are a
  tree under the base (`TreeInv`), that counts and maps are what calls have made of
  them so far (`CountInv`, `MapInv`), and what a board in the middle of a call
  knows (`CallInv`).  The log of the base is the hard part: boards store over each
  other's numbers and entries.  `BaseLogInv` says that its number never exceeds the
  verps that boards have counted for it (`Counted`), and that as long as it is
  equal to them no store was lost, so each has a slot of its own (`SlotOf`), the
  one of a board about to store its entry included.  That is just enough for a
  base that is destroyed: with no board adding, either the log is complete or the
  base keeps its version.  What a board should see is known for versions without
  a board too, through a function `held` that the invariant says exists, at nodes
  that are not contested; a node stays contested once it is (`ContestedStays`) as
  long as the base has its mappings.  The cascade of releases (`PutRefs`) is a
  recursive function; that it exists, and which versions it releases, is proved
  first.
* `FloorplanProofs`: `BoundOnlyFalls` (`AreaOnlyFalls`) and
  `ResultsBelongTogether` (`BestIsConsistent`).  The invariant adds that a call or
  an iteration carries the footprint of its board (`CallsInv`, `ItersInv`) and
  that only the holder of the lock is past it, with an area below the bound
  (`LockInv`).  The same is proved of all builds (`TaskBoundOnlyFalls`,
  `TaskResultsBelongTogether`): `TryWithInv` is stated for any call that a build
  may make when a cell is laid down, and the sequential update is the lock, the
  comparison and the stores at once.
  `SearchFindsMinimum` and `EveryBuildFindsMinimum` (`FindsMinimum`) hold for the
  builds without versioned arrays: with them `lay_down` refuses cells that fit
  (`floor_rows`).  The invariant `MinInv` says that the boards of the calls are a
  tree, each waited for by the call it came from (`Tree`), that all are layouts (`LaidInv`), and that every complete layout that would better the
  bound has a first part that is a call, with its next position ahead of that call
  (`CoverInv`).  A step takes a position from what is ahead only when it passes it
  on or when its footprint is no better than the bound; footprints grow with each
  cell (`FootprintGrows`), so what is pruned holds nothing better.  The recursive
  `Layouts` are shown to be the complete laid-out boards (`LayoutsAre`).
* `XArrayProgramsProofs`: `AnswersAreRight` (`ResultsAreRight`) and `RulesAreKept`
  (`SlaRulesAreKept`), for inputs, buffers and limits of any size.  The inductive
  invariant `IInv` has four parts besides the types.  `CallsInv` says of each call
  where it is in its slice (`Going`), that what an encoder appended together with
  the run it is in are the runs of what it has read (`Reading`), and that what a
  merge still has to put together are the runs of its slice (`Merging`).  `NestInv`
  says that two calls are on slices apart or one waits for the other, and that an
  array belongs to the call it was made in: a step of one call leaves the arrays
  of the others alone.  `MainInv` says what main has made so far.  None is
  inductive without the others: a merge is right because the calls it waited for
  were, and these because nobody else appended to their arrays.  A merge loses or
  doubles no run because the runs of a concatenation are the two sequences of runs
  with a common symbol at the seam joined (`RunsConcat`).  That a pointer from
  `dynarray_alloc` is used before the next move of the block follows from `Das`
  and `Store`, which writes nothing through an old pointer.  `RunsOf`, `Total`,
  `SymbolsOf` and `FillWith` are recursive functions that are first shown to
  exist; inductions over lengths go through least elements of sets of numbers.
  `ArraysAreSequences` (`ImplementsArrays`) says that the programs
  over dynarrays implement `XArraySpec`.  `Shows` is the mapping, from the records of
  `dynarray.c` to their contents.  Each operation of `DynArray` is shown to be a step
  of `XArraySpec` or to leave the contents alone, then each step of the programs to
  be such operations on arrays that are there.  `IInv` does not suffice: a create
  must find no array (`FreshInv`: an array is not there before the call that makes
  it), and what is appended must be a value of an array, which for the runs that
  the encoder writes says that their symbols are those drawn and their lengths
  those of parts of the input (`SpellInv`).  That realloc may move the elements in
  a prepare or in a concatenation does not show in the contents.

* `RopeProofs`: `RopesStaySound` (`TreesAreSound`), `NodesHaveOneRope`
  (`HdrsOwnedOnce`), `SearchFindsElement` (`GetReadsElement`),
  `RebalancingKeepsOrder` (`ForestIsOrdered`) and `RopesAreSequences`
  (`ImplementsArrays`), for ropes of any number, shape and length.
  `RebalancingKeepsOrder` speaks of ropes without empty leaves, and of the lengths
  and the order of the forest, not of its depths or of balance.  The invariant
  `RopeInv` says that every live leaf and node is under exactly one root and every
  root belongs to one rope (`Trees`, `Tops`), that lengths and depths are right at
  every node (`Sizes`, `Depths`), that the tail is the last leaf, and that only
  ropes with a tail to fill are between prepare and finalize.  The last leaf is
  needed for appends, which go up from it; the single owner for every operation,
  which must leave the trees of the others alone.  Each operator of
  `rope_array.c` is shown to keep `Good` and to do to the elements of its rope what
  the interface says.  `rpa_rebalance` frees the nodes and builds a new tree in a
  loop: its proof follows a forest (`InOrder`) whose slots hold the leaves so far,
  from the last to the first, and shows that there always is a free node and a
  free slot.
  `LeavesUnder`, `InnerUnder`, `GetHdrRange` and the loops are recursive functions
  over sets of nodes; `RopeTreeProofs` shows that they exist (`Recursion`, on any
  well-founded rank) and does inductions over trees as inductions over sets of
  nodes (`TreeSets` from the leaves up, `TopSets` from the root down).
* `XSliceRpaProofs`: `ChunksFollowEachOther` (`NextChunkIsNextElements`) and
  `SlicesRememberTheirPlace` (`HdrCoversSlice`), for ropes without empty leaves and
  slices that are split first, then read by single elements, then by chunks; of
  `hdr0` and `hdr0_off` nothing is claimed once chunks are read, when the code lets
  the latter grow old (`rope_array.h:448`).  `SliceInv` adds to `RopeInv`
  that each slice in use is over a rope without empty leaves, that `hdr0` is over a
  part of the leaves that holds the slice at `hdr0_off`, and exactly where a
  search from the root would end until the program reads chunks (`Placed`), and
  that `leaf0` is the leaf of the first element.  That the climb of
  `rpa_slice_getnextchunk` ends in the next leaf (`NextLeafGood`) is an induction
  from the root down over the parts of the leaves that nodes are over: when the
  loop leaves a left child, all leaves passed are under it, and the leftmost
  leaf of its sibling is next.

Only model-checked: everything about skip lists, their slices and the C++ port,
and the run-length encoders over lists.  Nothing there is known to be false; a
proof would be of the size of that of ropes, since a skip list changes links and
counts on all its levels at once, and `RlePools` uses folds, which take an
operator as a parameter and which the provers cannot instantiate.  Out of reach
is liveness (`GCEnds`, `ReleaseEnds`, `SearchEnds`, `RunEnds`).

## 5. Not modelled

* `rle_rec.c`: the algorithm of `rle_rec_mpools.c` with malloc for the pools.
  `sum_openmp.c`: one loop with a reduction.
* `tree_array.c`, an experiment that nothing calls, and the parts of `sl.hh` that
  cannot be instantiated.
* `ver_ancestors*`, `vp_update` and `verp_update_ptr`, which no program calls; the
  buckets and locks inside a version map, whose operations are atomic.
* `dynarray_init_frombuff`, seek, align and dealloc_all, which the array layer does
  not use; `rpa_slice_shrink` and `xarray_split` of ropes, whose assertion fails.
* Free lists of SLA nodes by level; counts at machine width; sizes of elements.
* Input, output, parameters, timers and statistics, `nnc` of `floorplan.c` and its
  lock (`:554`) included; the fixed size of its board (`ROWS`, `COLS`), in which the
  layouts of the inputs fit; build and scripts.

## 6. What could follow

A proof of the invariants of `RlePools`, with recursive functions for its folds; one
of those of skip lists along the lines of `RopeProofs`; a third level in `sla_slices`.
