--------------------------- MODULE XArrayPrograms ---------------------------
(***************************************************************************)
(* The two programs written against the xarray interface: run-length       *)
(* encoding (rle/rle_rec_xarray.c) and summing (sum/sum_xarray.c).  Both   *)
(* fill an array, work through it serially and then by a recursion over    *)
(* slices whose halves run in parallel, and compare the answers.  A test   *)
(* sees one schedule of the recursion; here the calls run in any order.    *)
(*                                                                         *)
(* The arrays are those of DynArray.  Where the interface promises less    *)
(* than it keeps, the programs get what the interface promises: the chunks *)
(* of a slice have any length (those of XSliceSla and XSliceRpa end with   *)
(* the nodes).                                                             *)
(*                                                                         *)
(* What runs beside nothing else is one step for each array it changes.    *)
(***************************************************************************)
EXTENDS DynArray

CONSTANTS
  Grain,       (* xarr_rle_grain, xarr_grain                                *)
  SymsGrain,   (* xarr_syms_grain                                           *)
  Limit,       (* rle_rec_limit, sum_rec_limit                              *)
  Symbols,     (* how many symbols there are: 26 in the code                *)
  MaxFreq,     (* bound: max_freq, 100                                      *)
  Ints,        (* the integers to sum: 0..99                                *)
  MaxElems,    (* bound: the elements of the array that is worked through   *)
  Gone         (* the contents of an array that does not exist              *)

ASSUME ConstantsAssumption ==
  /\ {Grain, SymsGrain, Limit, MaxFreq, MaxElems} \subseteq Nat \ {0}
  /\ Symbols \in Nat \ {0, 1} /\ Ints \subseteq Nat

(* The value of an array that is not there is no sequence of elements.     *)
ASSUME GoneAssumption == Gone \notin Seq(Seq(Nat))

VARIABLES
  prog,    (* the program: rle or sum                                       *)
  main,    (* what main does next                                           *)
  arr,     (* the arrays, by the call that created them                     *)
  sum1,    (* the sum that was computed while filling the array             *)
  calls    (* the calls of rle_encode_rec and sum_rec, by their slice, and  *)
           (* the serial call                                               *)

vars == <<prog, main, arr, sum1, calls>>

(* A call is named by the first index and the length of its slice.         *)
Ranges == {r \in (0..MaxElems) \X (1..MaxElems) : r[1] + r[2] <= MaxElems}
Serial == <<0>>
Calls == Ranges \union {Serial}

(* The arrays that main creates: the one it fills, the first value of      *)
(* rle_rec, and the symbols.                                               *)
Given == <<1>>
Spare == <<2>>
Syms == <<3>>
Arrays == Calls \union {Given, Spare, Syms}
None == [elems |-> <<>>, next_idx |-> 0, alloc_grain |-> 0, moved |-> 0]

Worked == IF prog = "rle" THEN Syms ELSE Given
Element(i) == DaGet(arr[Worked], i)
Root == <<0, arr[Worked].next_idx>>
Half1(r) == <<r[1], r[2] \div 2>>
Half2(r) == <<r[1] + r[2] \div 2, r[2] - r[2] \div 2>>

(* Elements are <<symbol, freq>>, <<symbol>> or <<integer>>.               *)
Run(c, freq) == <<c, freq>>
Symbol(run) == run[1]
Freq(run) == run[2]
RunSet == {Run(c, f) : c \in 0..(Symbols - 1), f \in 1..MaxElems}

-----------------------------------------------------------------------------
(* Appending through a buffer: append_sym and append_rle.  b is what       *)
(* AppendPrepare returned.                                                 *)

Put_FinalizesFull(b, v, moves) ==
  LET c == [b EXCEPT !.da = Store(b.da, [b.ptr EXCEPT !.idx = @ + b.n], v), !.n = @ + 1]
  IN  IF c.n = c.cap THEN AppendPrepare(AppendFinalize(c.da, c.n), moves) ELSE c

Put(b, v, moves) ==
  LET c == IF b.n >= b.cap THEN AppendPrepare(AppendFinalize(b.da, b.n), moves) ELSE b
  IN  [c EXCEPT !.da = Store(c.da, [c.ptr EXCEPT !.idx = @ + c.n], v), !.n = @ + 1]

PutAll(b, vs, moves) ==
  LET put[k \in 0..Len(vs)] == IF k = 0 THEN b ELSE Put(put[k - 1], vs[k], moves)
  IN  put[Len(vs)]

(* The buffer of a call, whose array is arr[r]. *)
Buffer(r) == [da |-> arr[r], ptr |-> calls[r].ptr, cap |-> calls[r].cap, n |-> calls[r].n]

(* The loops of rle_mkrand and xarr_int_mkrand *)
AppendOne(da, v, moves) ==
  LET d == DaAlloc(da, moves) IN Store(d, PointerTo(d, d.next_idx - 1), v)
FillWith(da, vs, moves) ==
  LET filled[k \in 0..Len(vs)] == IF k = 0 THEN da ELSE AppendOne(filled[k - 1], vs[k], moves)
  IN  filled[Len(vs)]

(* The loop of rle_decode: the symbols that runs stand for.                *)
Repeat(c, freq) == [j \in 1..freq |-> <<c>>]
SymbolsOf(runs) ==
  LET syms[k \in 0..Len(runs)] ==
        IF k = 0 THEN <<>> ELSE syms[k - 1] \o Repeat(Symbol(runs[k]), Freq(runs[k]))
  IN  syms[Len(runs)]

(* The runs of some symbols. *)
Longer(runs, c) ==
  IF runs # <<>> /\ Symbol(runs[Len(runs)]) = c
  THEN [runs EXCEPT ![Len(runs)] = Run(c, Freq(@) + 1)]
  ELSE Append(runs, Run(c, 1))
RunsOf(syms) ==
  LET runs[k \in 0..Len(syms)] == IF k = 0 THEN <<>> ELSE Longer(runs[k - 1], syms[k][1])
  IN  runs[Len(syms)]

Total(ints) ==
  LET sum[k \in 0..Len(ints)] == IF k = 0 THEN 0 ELSE sum[k - 1] + ints[k][1]
  IN  sum[Len(ints)]

-----------------------------------------------------------------------------
(* A call.                                                                 *)
(* pc     none; ready: spawned; chunk: asks for the next chunk; eat: works *)
(*        on it; finish: rle_encode has appended its last run; wait: at    *)
(*        the sync; pop, concat: in rle_merge; done                        *)
(* idx, len      what is left of the slice                                 *)
(* at, left      what is left of the chunk                                 *)
(* prev, freq    of rle_encode                                             *)
(* ptr, cap, n   rles_ch, rles_ch_len, rles_ch_idx                         *)
(* ret, other    the array to return, the one to concatenate to it         *)
(* sum           the sum to return                                         *)
NoCall == [pc |-> "none", idx |-> 0, len |-> 0, at |-> 0, left |-> 0, prev |-> 0, freq |-> 0,
           ptr |-> [moved |-> 0, idx |-> 0], cap |-> 0, n |-> 0,
           ret |-> Spare, other |-> Spare, sum |-> 0]
Called(r) == [NoCall EXCEPT !.pc = "ready", !.idx = r[1], !.len = r[2]]

Leaf(r) == r = Serial \/ calls[r].len <= Limit

(* rle_encode up to its loop: the array, the first symbol, the buffer.     *)
EncodeStart(r) ==
  /\ calls[r].pc = "ready" /\ Leaf(r) /\ prog = "rle"
  /\ LET b == AppendPrepare(DaInit(Grain, Grain), FALSE)
     IN  /\ arr' = [arr EXCEPT ![r] = b.da]
         /\ calls' = [calls EXCEPT ![r].pc = "chunk",
                        ![r].prev = Element(calls[r].idx)[1], ![r].freq = 1,
                        ![r].idx = @ + 1, ![r].len = @ - 1,
                        ![r].ptr = b.ptr, ![r].cap = b.cap, ![r].n = b.n, ![r].ret = r]
  /\ UNCHANGED <<prog, main, sum1>>

SumStart(r) ==
  /\ calls[r].pc = "ready" /\ Leaf(r) /\ prog = "sum"
  /\ calls' = [calls EXCEPT ![r].pc = "chunk"]
  /\ UNCHANGED <<prog, main, arr, sum1>>

(* xslice_getnextchunk *)
NextChunk(r) ==
  /\ calls[r].pc = "chunk" /\ calls[r].len > 0
  /\ \E nelems \in 1..calls[r].len :
       calls' = [calls EXCEPT ![r].pc = "eat", ![r].at = calls[r].idx, ![r].left = nelems,
                              ![r].idx = @ + nelems, ![r].len = @ - nelems]
  /\ UNCHANGED <<prog, main, arr, sum1>>

(* The loop of rle_encode over a chunk. *)
EatSymbol(r) ==
  /\ calls[r].pc = "eat" /\ prog = "rle"
  /\ LET c == calls[r]
         curr == Element(c.at)[1]
         eaten == [c EXCEPT !.at = c.at + 1, !.left = c.left - 1,
                            !.pc = IF c.left = 1 THEN "chunk" ELSE "eat"]
     IN  \/ /\ curr = c.prev
            /\ calls' = [calls EXCEPT ![r] = [eaten EXCEPT !.freq = c.freq + 1]]
            /\ UNCHANGED arr
         \/ /\ curr # c.prev
            /\ \E moves \in BOOLEAN :
                 LET b == Put(Buffer(r), Run(c.prev, c.freq), moves)
                 IN  /\ arr' = [arr EXCEPT ![r] = b.da]
                     /\ calls' = [calls EXCEPT ![r] =
                          [eaten EXCEPT !.prev = curr, !.freq = 1,
                                        !.ptr = b.ptr, !.cap = b.cap, !.n = b.n]]
  /\ UNCHANGED <<prog, main, sum1>>

EatInts(r) ==
  /\ calls[r].pc = "eat" /\ prog = "sum"
  /\ LET c == calls[r]
     IN  calls' = [calls EXCEPT ![r].pc = "chunk", ![r].at = @ + c.left, ![r].left = 0,
                     ![r].sum = @ + Total([i \in 1..c.left |-> Element(c.at + i - 1)])]
  /\ UNCHANGED <<prog, main, arr, sum1>>

(* An empty chunk ends the loop. *)
EncodeLast(r) ==
  /\ calls[r].pc = "chunk" /\ calls[r].len = 0 /\ prog = "rle"
  /\ \E moves \in BOOLEAN :
       LET b == Put(Buffer(r), Run(calls[r].prev, calls[r].freq), moves)
       IN  /\ arr' = [arr EXCEPT ![r] = b.da]
           /\ calls' = [calls EXCEPT ![r].pc = "finish",
                                     ![r].ptr = b.ptr, ![r].cap = b.cap, ![r].n = b.n]
  /\ UNCHANGED <<prog, main, sum1>>

EncodeReturn(r) ==
  /\ calls[r].pc = "finish"
  /\ arr' = [arr EXCEPT ![r] = AppendFinalize(@, calls[r].n)]
  /\ calls' = [calls EXCEPT ![r] = [NoCall EXCEPT !.pc = "done", !.ret = r]]
  /\ UNCHANGED <<prog, main, sum1>>

SumReturn(r) ==
  /\ calls[r].pc = "chunk" /\ calls[r].len = 0 /\ prog = "sum"
  /\ calls' = [calls EXCEPT ![r] = [NoCall EXCEPT !.pc = "done", !.sum = calls[r].sum]]
  /\ UNCHANGED <<prog, main, arr, sum1>>

(* A slice above the limit: xslice_split and two spawns. *)
Fork(r) ==
  /\ calls[r].pc = "ready" /\ ~ Leaf(r)
  /\ calls' = [calls EXCEPT ![r].pc = "wait", ![Half1(r)] = Called(Half1(r)),
                            ![Half2(r)] = Called(Half2(r))]
  /\ UNCHANGED <<prog, main, arr, sum1>>

Synced(r) == calls[r].pc = "wait" /\ calls[Half1(r)].pc = "done" /\ calls[Half2(r)].pc = "done"

(* rle_merge: a run across the border is added to the first of the second  *)
(* array ...                                                               *)
MergeAdd(r) ==
  /\ Synced(r) /\ prog = "rle"
  /\ LET rle1 == calls[Half1(r)].ret
         rle2 == calls[Half2(r)].ret
         lst == DaGet(arr[rle1], arr[rle1].next_idx - 1)
         fst == DaGet(arr[rle2], 0)
         joined == [calls EXCEPT ![Half1(r)] = NoCall, ![Half2(r)] = NoCall,
                                 ![r].ret = rle1, ![r].other = rle2]
     IN  \/ /\ ~ (InBounds(arr[rle1], 0) /\ InBounds(arr[rle2], 0))
            /\ main' = "abort" /\ UNCHANGED <<arr, calls>>
         \/ /\ InBounds(arr[rle1], 0) /\ InBounds(arr[rle2], 0) /\ Symbol(lst) = Symbol(fst)
            /\ arr' = [arr EXCEPT ![rle2] =
                         Store(@, PointerTo(@, 0), Run(Symbol(fst), Freq(fst) + Freq(lst)))]
            /\ calls' = [joined EXCEPT ![r].pc = "pop"]
            /\ UNCHANGED main
         \/ /\ InBounds(arr[rle1], 0) /\ InBounds(arr[rle2], 0) /\ Symbol(lst) # Symbol(fst)
            /\ calls' = [joined EXCEPT ![r].pc = "concat"]
            /\ UNCHANGED <<main, arr>>
  /\ UNCHANGED <<prog, sum1>>

(* ... and taken from the first array, *)
MergePop(r) ==
  /\ calls[r].pc = "pop"
  /\ arr' = [arr EXCEPT ![calls[r].ret] = DaPop(@, 1)]
  /\ calls' = [calls EXCEPT ![r].pc = "concat"]
  /\ UNCHANGED <<prog, main, sum1>>

(* which gets the elements of the second. *)
MergeConcat(r) ==
  /\ calls[r].pc = "concat"
  /\ \E moves \in BOOLEAN :
       arr' = [arr EXCEPT ![calls[r].ret] = DaConcat(@, arr[calls[r].other], moves),
                          ![calls[r].other] = None]
  /\ calls' = [calls EXCEPT ![r] = [NoCall EXCEPT !.pc = "done", !.ret = calls[r].ret]]
  /\ UNCHANGED <<prog, main, sum1>>

SumJoin(r) ==
  /\ Synced(r) /\ prog = "sum"
  /\ calls' = [calls EXCEPT ![Half1(r)] = NoCall, ![Half2(r)] = NoCall,
                            ![r] = [NoCall EXCEPT !.pc = "done",
                                      !.sum = calls[Half1(r)].sum + calls[Half2(r)].sum]]
  /\ UNCHANGED <<prog, main, arr, sum1>>

-----------------------------------------------------------------------------
(* main *)

Init ==
  /\ prog \in {"rle", "sum"}
  /\ main = "create"
  /\ arr = [a \in Arrays |-> None]
  /\ sum1 = 0
  /\ calls = [r \in Calls |-> NoCall]

CreateArray(a, da, next) ==
  /\ arr' = [arr EXCEPT ![a] = da]
  /\ main' = next
  /\ UNCHANGED <<prog, sum1, calls>>

CreateGiven == main = "create" /\ CreateArray(Given, DaInit(Grain, Grain),
                                              IF prog = "rle" THEN "spare" ELSE "mkrand")
CreateSpare == main = "spare" /\ CreateArray(Spare, DaInit(Grain, Grain), "mkrand")

(* The arrays with which a program may start. *)
RandomRuns ==
  {runs \in {[i \in DOMAIN f |-> Run((i - 1) % Symbols, f[i])] :
               f \in UNION {[1..k -> 1..MaxFreq] : k \in 1..MaxElems}} :
     Len(SymbolsOf(runs)) <= MaxElems}
RandomInts == {[i \in DOMAIN f |-> <<f[i]>>] : f \in UNION {[1..k -> Ints] : k \in 1..MaxElems}}

MkRand(vs, moves) ==
  /\ main = "mkrand"
  /\ arr' = [arr EXCEPT ![Given] = FillWith(@, vs, moves)]
  /\ sum1' = IF prog = "sum" THEN Total(vs) ELSE 0
  /\ main' = IF prog = "rle" THEN "syms" ELSE "serial"
  /\ UNCHANGED <<prog, calls>>

(* rle_decode: its array has room for all symbols from the start.          *)
SymsNr == Len(SymbolsOf(Contents(arr[Given])))
CreateSyms == main = "syms" /\ CreateArray(Syms, DaInit(SymsGrain, SymsNr), "decode")

Decode(moves) ==
  /\ main = "decode"
  /\ LET b == PutAll(AppendPrepare(arr[Syms], moves), SymbolsOf(Contents(arr[Given])), moves)
         syms == AppendFinalize(b.da, b.n)
     IN  /\ arr' = [arr EXCEPT ![Syms] = syms]
         /\ main' = IF syms.next_idx = SymsNr THEN "serial" ELSE "abort"
  /\ UNCHANGED <<prog, sum1, calls>>

SerialCall ==
  /\ main = "serial"
  /\ calls' = [calls EXCEPT ![Serial] = Called(Root)]
  /\ main' = "compare"
  /\ UNCHANGED <<prog, arr, sum1>>

(* rle_cmp *)
RleCmp(a) == Contents(arr[a]) = Contents(arr[Given])

RecCall ==
  /\ main = "compare" /\ calls[Serial].pc = "done"
  /\ IF prog = "sum" \/ RleCmp(calls[Serial].ret)
     THEN calls' = [calls EXCEPT ![Root] = Called(Root)] /\ main' = "sync"
     ELSE main' = "abort" /\ UNCHANGED calls
  /\ UNCHANGED <<prog, arr, sum1>>

Answers ==
  IF prog = "rle" THEN RleCmp(calls[Root].ret)
  ELSE sum1 = calls[Root].sum /\ sum1 = calls[Serial].sum

RecReturn ==
  /\ main = "sync" /\ calls[Root].pc = "done"
  /\ main' = IF Answers THEN "done" ELSE "abort"
  /\ UNCHANGED <<prog, arr, sum1, calls>>

Exited == main \in {"done", "abort"} /\ UNCHANGED vars

Next ==
  \/ CreateGiven \/ CreateSpare \/ CreateSyms
  \/ \E vs \in IF prog = "rle" THEN RandomRuns ELSE RandomInts, moves \in BOOLEAN : MkRand(vs, moves)
  \/ \E moves \in BOOLEAN : Decode(moves)
  \/ SerialCall \/ RecCall \/ RecReturn
  \/ \E r \in Calls :
       \/ EncodeStart(r) \/ SumStart(r) \/ NextChunk(r) \/ EatSymbol(r) \/ EatInts(r)
       \/ EncodeLast(r) \/ EncodeReturn(r) \/ SumReturn(r) \/ Fork(r)
       \/ MergeAdd(r) \/ MergePop(r) \/ MergeConcat(r) \/ SumJoin(r)
  \/ Exited

Spec == Init /\ [][Next]_vars

-----------------------------------------------------------------------------
(* Properties *)

(* A call that has returned has the answer for its slice, whatever order   *)
(* the calls ran in and wherever the slices were cut: the array of the     *)
(* runs of its symbols (rle_rec_xarray.c:309) or the sum of its integers   *)
(* (sum_xarray.c:160).  No assertion and no comparison of main fails.      *)
Slice(r) == LET s == IF r = Serial THEN Root ELSE r
            IN  SubSeq(Contents(arr[Worked]), s[1] + 1, s[1] + s[2])
ResultsAreRight ==
  /\ main # "abort"
  /\ \A r \in Calls : calls[r].pc = "done" =>
       IF prog = "rle" THEN Contents(arr[calls[r].ret]) = RunsOf(Slice(r))
       ELSE calls[r].sum = Total(Slice(r))

(* What skip-list arrays ask of their callers and the interface does not   *)
(* say (XArraySla: MinFinalize = 1, and the guard of Concat): a finalized  *)
(* buffer has at least one element (sla-chunk.c:637) and fits, and an      *)
(* array that is appended to another is not empty (sla-chunk.c:485).  Nor  *)
(* is a slice empty whose first element is asked for.                      *)
SlaRulesAreKept ==
  \A r \in Calls :
    /\ calls[r].pc = "ready" => calls[r].len > 0
    /\ calls[r].pc = "finish" => calls[r].n \in 1..calls[r].cap
    /\ calls[r].pc \in {"chunk", "eat"} /\ prog = "rle" =>
         calls[r].cap > 0 /\ calls[r].n <= calls[r].cap
    /\ calls[r].pc = "concat" => arr[calls[r].other].next_idx > 0

(* The arrays of dynarray.c behave as sequences although realloc moves     *)
(* them, and their users write only to elements that are there             *)
(* (dynarray.h:79, XArraySpec).                                            *)
Abstract == INSTANCE XArraySpec WITH
  Vals <- RunSet,
  arr <- [a \in Arrays |-> IF arr[a] = None THEN Gone ELSE Contents(arr[a])]
ImplementsArrays == Abstract!UseSpec
=============================================================================
