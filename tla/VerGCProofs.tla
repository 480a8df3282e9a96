---------------------------- MODULE VerGCProofs ----------------------------
(***************************************************************************)
(* Proofs about VerGC: the counts stay exact while ver_tree_gc and         *)
(* ver_detach take versions off the tree beside threads that branch, refer *)
(* and release, for any number of versions, threads and handles; whatever  *)
(* ver_tree_gc cuts off, the versions that are held stay ancestors of one  *)
(* another as they were, and no live version is left over.                 *)
(***************************************************************************)
EXTENDS VerGC, VerProofs

-----------------------------------------------------------------------------
(* The inductive invariant *)

(* The tree has no cycle: ranks fall from each version to the version it   *)
(* holds a reference to.                                                   *)
Rising(rank) == \A v \in Versions : GCClaim[v] # Null => rank[GCClaim[v]] < rank[v]

(* The collector stands on a path of versions that nobody can release: the *)
(* lowest is held by its thread, and each other one by one of the path.    *)
(* What it has left to put is above the version it cuts the chain off.     *)
Chain(rank, path) ==
  /\ Rising(rank)
  /\ \A v \in path :
       /\ status[v] = "live"
       /\ gc.phase # "walk" => rank[gc.ver] <= rank[v]
       /\ \/ \E h \in Handles : Owner[h] = gc.by /\ ref[h] = v
          \/ \E c \in path : GCClaim[c] = v
  /\ gc.phase = "none" => gc = NoGC /\ path = {}
  /\ gc.phase # "none" => gc.by \in Threads /\ gc.ver \in path
  /\ gc.phase = "walk" => gc.at \in path \union {Null}
  /\ gc.phase = "cut" /\ gc.at # Null => rank[gc.at] < rank[gc.ver]
  /\ gc.phase = "detach" => gc.at = Null

ChainInv == \E rank \in [Versions -> Nat], path \in SUBSET Versions : Chain(rank, path)

GCInv == GCTypeOK /\ ListsInv /\ GCRefcountsExact /\ ChainInv

-----------------------------------------------------------------------------
(* Counting *)

(* The reference that the collector holds to the version it puts next.     *)
Taken(v) == IF gc.phase = "cut" /\ gc.at = v THEN 1 ELSE 0

LEMMA GCPointerTypes ==
  ASSUME GCTypeOK
  PROVE  /\ TypeOK /\ DOMAIN GCClaim = Versions
         /\ \A v \in Versions : GCClaim[v] \in Versions \union {Null}
         /\ \A v \in Versions : GCRefs(v) = Count(ref, v) + Count(GCClaim, v) + Count(drop, v) + Taken(v)
BY DEF GCTypeOK, TypeOK, GCClaim, GCRefs, Taken

LEMMA GCClaimUpdate ==
  ASSUME TypeOK, NEW c \in Versions, NEW v \in Versions, OnlyAt(GCClaim, GCClaim', c)
  PROVE  Count(GCClaim, v)'
           = Count(GCClaim, v) - (IF GCClaim[c] = v THEN 1 ELSE 0) + (IF GCClaim'[c] = v THEN 1 ELSE 0)
<1> DEFINE f == GCClaim
           g == GCClaim'
<1>1. DOMAIN f = Versions /\ IsFiniteSet(Versions) BY PointerTypes DEF GCClaim
<1>2. OnlyAt(f, g, c) OBVIOUS
<1>3. Count(GCClaim, v)' = Count(g, v) BY DEF Count
<1> HIDE DEF f, g
<1>4. Count(g, v) = Count(f, v) - (IF f[c] = v THEN 1 ELSE 0) + (IF g[c] = v THEN 1 ELSE 0)
  BY <1>1, <1>2, CountUpdate DEF OnlyAt
<1> QED BY <1>3, <1>4 DEF f, g

(* The counts of the pointers to a version are naturals, positive if there *)
(* is such a pointer.                                                      *)
LEMMA PointersCount ==
  ASSUME GCTypeOK, NEW v \in Versions
  PROVE  /\ Count(ref, v) \in Nat /\ Count(GCClaim, v) \in Nat /\ Count(drop, v) \in Nat
         /\ \A h \in Handles : ref[h] = v => Count(ref, v) > 0
         /\ \A t \in Threads : drop[t] = v => Count(drop, v) > 0
         /\ \A c \in Versions : GCClaim[c] = v => Count(GCClaim, v) > 0
<1> USE PointerTypes, GCPointerTypes
<1>1. Count(ref, v) \in Nat /\ \A h \in Handles : ref[h] = v => Count(ref, v) > 0
  BY CountPositive
<1>2. Count(drop, v) \in Nat /\ \A t \in Threads : drop[t] = v => Count(drop, v) > 0
  BY CountPositive
<1>3. Count(GCClaim, v) \in Nat /\ \A c \in Versions : GCClaim[c] = v => Count(GCClaim, v) > 0
  BY CountPositive
<1> QED BY <1>1, <1>2, <1>3

(* A version something points to is alive. *)
LEMMA GCPointedToIsLive ==
  ASSUME GCTypeOK, GCRefcountsExact, NEW v \in Versions
  PROVE  /\ \A h \in Handles : ref[h] = v => status[v] = "live"
         /\ \A t \in Threads : drop[t] = v => status[v] = "live"
         /\ \A c \in Versions : GCClaim[c] = v => status[v] = "live"
         /\ Taken(v) = 1 => status[v] = "live"
<1>1. status[v] # "live" => GCRefs(v) = 0 BY DEF GCRefcountsExact
<1>2. Taken(v) \in {0, 1} BY DEF Taken
<1>3. GCRefs(v) = Count(ref, v) + Count(GCClaim, v) + Count(drop, v) + Taken(v) BY GCPointerTypes
<1>4. /\ Count(ref, v) > 0 => status[v] = "live"
      /\ Count(drop, v) > 0 => status[v] = "live"
      /\ Count(GCClaim, v) > 0 => status[v] = "live"
      /\ Taken(v) = 1 => status[v] = "live"
  BY <1>1, <1>2, <1>3, PointersCount
<1> QED BY <1>4, PointersCount

(* Nobody releases a version the collector stands on: it has a reference   *)
(* beside the one that is being put.                                       *)
LEMMA PathHasTwo ==
  ASSUME GCTypeOK, GCRefcountsExact, NEW rank \in [Versions -> Nat], NEW path \in SUBSET Versions,
         Chain(rank, path), NEW t \in Threads, drop[t] \in path
  PROVE  rfcnt[drop[t]] # 1
<1> DEFINE v == drop[t]
<1>1. v \in Versions /\ status[v] = "live" BY DEF Chain
<1>2. Count(ref, v) > 0 \/ Count(GCClaim, v) > 0 BY <1>1, PointersCount DEF Chain
<1>3. rfcnt[v] = GCRefs(v) BY <1>1 DEF GCRefcountsExact
<1> QED BY <1>1, <1>2, <1>3, PointersCount, GCPointerTypes DEF Taken

-----------------------------------------------------------------------------
(* The steps of the other threads *)

(* A step that leaves the collector, the path and its handles alone keeps  *)
(* the chain, with ranks that may be new elsewhere.                        *)
LEMMA ChainKept ==
  ASSUME NEW rank \in [Versions -> Nat], NEW path \in SUBSET Versions, Chain(rank, path), gc' = gc,
         NEW rank2 \in [Versions -> Nat], Rising(rank2)',
         \A v \in path : status'[v] = "live" /\ GCClaim'[v] = GCClaim[v] /\ rank2[v] = rank[v],
         \A h \in Handles : Owner[h] = gc.by => ref'[h] = ref[h],
         gc.phase = "cut" /\ gc.at # Null => rank2[gc.at] = rank[gc.at]
  PROVE  ChainInv'
<1>1. ASSUME NEW v \in path
      PROVE  /\ status'[v] = "live"
             /\ gc.phase # "walk" => rank2[gc.ver] <= rank2[v]
             /\ \/ \E h \in Handles : Owner[h] = gc'.by /\ ref'[h] = v
                \/ \E c \in path : GCClaim'[c] = v
  BY DEF Chain
<1>2. Chain(rank2, path)' BY <1>1 DEF Chain
<1> QED BY <1>2 DEF ChainInv

(* When the claims stay, and nothing of the path dies.                     *)
LEMMA ChainSame ==
  ASSUME GCTypeOK, ChainInv, gc' = gc, GCClaim' = GCClaim,
         \A v \in Versions : status[v] = "live" => status'[v] = "live",
         \A h \in Handles : Owner[h] = gc.by => ref'[h] = ref[h]
  PROVE  ChainInv'
<1>1. PICK rank \in [Versions -> Nat], path \in SUBSET Versions : Chain(rank, path) BY DEF ChainInv
<1>2. Rising(rank)' BY <1>1 DEF Chain, Rising
<1>3. \A v \in path : status'[v] = "live" BY <1>1 DEF Chain
<1> QED BY <1>1, <1>2, <1>3, ChainKept

(* ver_create *)
LEMMA GCCreateInv ==
  ASSUME GCInv, NEW t \in Threads, NEW h \in Handles, NEW v \in Versions,
         Create(t, h, v), gc' = gc, gc.by # t
  PROVE  GCInv'
<1>1. GCTypeOK /\ TypeOK /\ ListsInv /\ GCRefcountsExact /\ ChainInv BY DEF GCInv, GCTypeOK
<1> USE DEF Create
<1>2. /\ status[v] \in {"raw", "free"} /\ ListsInv'
      /\ status' \in [Versions -> {"raw", "live", "dead", "free"}] /\ pool' \in [Threads -> Seq(Versions)]
  BY <1>1, AllocLists
<1>3. GCTypeOK' BY <1>1, <1>2 DEF TypeOK, GCTypeOK
<1>4. ref[h] = Null /\ OnlyAt(ref, ref', h) /\ ref'[h] = v /\ drop' = drop
  BY <1>1 DEF Unused, OnlyAt, TypeOK
<1>5. GCClaim' = GCClaim BY <1>1, <1>2 DEF GCClaim, TypeOK, AllocInit
<1>6. ASSUME NEW u \in Versions
      PROVE  GCRefs(u)' = GCRefs(u) + (IF u = v THEN 1 ELSE 0) /\ GCRefs(u) \in Nat
  <2> HIDE DEF Create
  <2>1. Count(ref, u)' = Count(ref, u) + (IF u = v THEN 1 ELSE 0)
    BY <1>1, <1>4, RefUpdate, PointersCount, VersionsAssumption
  <2>2. Taken(u)' = Taken(u) /\ Taken(u) \in Nat BY DEF Taken
  <2> QED BY <2>1, <2>2, <1>1, <1>4, <1>5, PointersCount DEF GCRefs, Taken
<1>7. GCRefcountsExact' BY <1>1, <1>2, <1>6 DEF GCRefcountsExact, TypeOK, AllocInit
<1>8. ChainInv'
  <2>1. \A u \in Versions : status[u] = "live" => status'[u] = "live"
    BY <1>1 DEF AllocInit, TypeOK
  <2>2. \A x \in Handles : Owner[x] = gc.by => ref'[x] = ref[x]
    BY <1>4 DEF Unused, OnlyAt
  <2> QED BY <2>1, <2>2, <1>1, <1>5, ChainSame
<1> QED BY <1>2, <1>3, <1>7, <1>8 DEF GCInv

(* ver_branch: the new version gets a rank above that of its parent; the   *)
(* path and the collector stand on versions that were alive before.        *)
LEMMA GCBranchInv ==
  ASSUME GCInv, NEW t \in Threads, NEW h \in Handles, NEW h2 \in Handles, NEW v \in Versions,
         Branch(t, h, h2, v), gc' = gc, gc.by # t
  PROVE  GCInv'
<1> DEFINE p == ref[h]
<1>1. GCTypeOK /\ TypeOK /\ ListsInv /\ GCRefcountsExact /\ ChainInv BY DEF GCInv, GCTypeOK
<1> USE DEF Branch
<1>2. /\ status[v] \in {"raw", "free"} /\ ListsInv'
      /\ status' \in [Versions -> {"raw", "live", "dead", "free"}] /\ pool' \in [Threads -> Seq(Versions)]
  BY <1>1, AllocLists
<1>3. p \in Versions /\ status[p] = "live" /\ p # v
  BY <1>1, <1>2, GCPointedToIsLive DEF TypeOK, Holds
<1>4. GCTypeOK'
  <2>1. rfcnt[p] + 1 \in Nat BY <1>1, <1>3 DEF TypeOK
  <2>2. rfcnt' \in [Versions -> Nat] BY <1>1, <1>3, <2>1 DEF TypeOK
  <2> QED BY <1>1, <1>2, <1>3, <2>2 DEF GCTypeOK, TypeOK
<1>5. ref[h2] = Null /\ OnlyAt(ref, ref', h2) /\ ref'[h2] = v /\ drop' = drop
  BY <1>1 DEF Unused, OnlyAt, TypeOK
<1>6. gc.phase # "none" => gc.ver # v
  BY <1>1, <1>2 DEF ChainInv, Chain
<1>7. GCClaim[v] = Null /\ OnlyAt(GCClaim, GCClaim', v) /\ GCClaim'[v] = p
  BY <1>1, <1>2, <1>3, <1>6 DEF GCClaim, TypeOK, AllocInit, OnlyAt
<1>8. ASSUME NEW u \in Versions
      PROVE  /\ GCRefs(u)' = GCRefs(u) + (IF u = v THEN 1 ELSE 0) + (IF u = p THEN 1 ELSE 0)
             /\ GCRefs(u) \in Nat
  <2> HIDE DEF Branch
  <2>1. Count(ref, u)' = Count(ref, u) + (IF u = v THEN 1 ELSE 0)
    BY <1>1, <1>5, RefUpdate, PointersCount, VersionsAssumption
  <2>2. Count(GCClaim, u)' = Count(GCClaim, u) + (IF u = p THEN 1 ELSE 0)
    BY <1>1, <1>7, GCClaimUpdate, PointersCount, VersionsAssumption
  <2> QED BY <2>1, <2>2, <1>1, <1>5, PointersCount DEF GCRefs
<1>9. GCRefcountsExact'
  <2>1. /\ rfcnt' = [rfcnt EXCEPT ![v] = 1, ![p] = @ + 1] /\ status' = [status EXCEPT ![v] = "live"]
        /\ rfcnt \in [Versions -> Nat] /\ status \in [Versions -> {"raw", "live", "dead", "free"}]
    BY <1>1 DEF TypeOK, AllocInit
  <2> SUFFICES ASSUME NEW u \in Versions
               PROVE  IF status'[u] = "live" THEN rfcnt'[u] = GCRefs(u)' /\ rfcnt'[u] > 0 ELSE GCRefs(u)' = 0
    BY DEF GCRefcountsExact
  <2>2. IF status[u] = "live" THEN rfcnt[u] = GCRefs(u) /\ rfcnt[u] > 0 ELSE GCRefs(u) = 0
    BY <1>1 DEF GCRefcountsExact
  <2> HIDE DEF Branch, p
  <2> QED BY <2>1, <2>2, <1>2, <1>3, <1>8
<1>10. ChainInv'
  <2>1. PICK rank \in [Versions -> Nat], path \in SUBSET Versions : Chain(rank, path)
    BY <1>1 DEF ChainInv
  <2>2. PICK rank2 \in [Versions -> Nat] :
          rank2[v] = rank[p] + 1 /\ \A u \in Versions : u # v => rank2[u] = rank[u]
    <3>1. rank[p] + 1 \in Nat BY <1>3
    <3>2. [rank EXCEPT ![v] = rank[p] + 1] \in [Versions -> Nat] BY <3>1
    <3> QED BY <3>2
  <2>3. rank[p] \in Nat BY <1>3
  <2>4. Rising(rank2)'
    <3> SUFFICES ASSUME NEW u \in Versions, GCClaim'[u] # Null PROVE rank2[GCClaim'[u]] < rank2[u]
      BY DEF Rising
    <3>1. CASE u = v BY <3>1, <2>2, <2>3, <1>3, <1>7
    <3>2. CASE u # v
      <4>1. GCClaim'[u] = GCClaim[u] /\ GCClaim[u] \in Versions
        BY <3>2, <1>1, <1>7, GCPointerTypes DEF OnlyAt
      <4>2. GCClaim[u] # v BY <4>1, <1>1, <1>2, GCPointedToIsLive
      <4>3. rank[GCClaim[u]] < rank[u] BY <4>1, <2>1, VersionsAssumption DEF Chain, Rising
      <4> QED BY <4>1, <4>2, <4>3, <3>2, <2>2
    <3> QED BY <3>1, <3>2
  <2>5. ASSUME NEW u \in path
        PROVE  status'[u] = "live" /\ GCClaim'[u] = GCClaim[u] /\ rank2[u] = rank[u]
    <3>1. u \in Versions /\ status[u] = "live" /\ u # v BY <2>1, <1>2 DEF Chain
    <3> QED BY <3>1, <2>2, <1>1, <1>7, GCPointerTypes DEF AllocInit, TypeOK, OnlyAt
  <2>6. \A x \in Handles : Owner[x] = gc.by => ref'[x] = ref[x]
    BY <1>1, <1>5 DEF Unused, OnlyAt, TypeOK
  <2>7. gc.phase = "cut" /\ gc.at # Null => rank2[gc.at] = rank[gc.at]
    <3> SUFFICES ASSUME gc.phase = "cut", gc.at # Null PROVE gc.at \in Versions /\ gc.at # v
      BY <2>2
    <3>1. gc.at \in Versions /\ Taken(gc.at) = 1 BY <1>1 DEF GCTypeOK, Taken
    <3> QED BY <3>1, <1>1, <1>2, GCPointedToIsLive
  <2> HIDE DEF Branch
  <2> QED BY <2>1, <2>2, <2>4, <2>5, <2>6, <2>7, ChainKept
<1> QED BY <1>2, <1>4, <1>9, <1>10 DEF GCInv

(* ver_getref *)
LEMMA GCGetRefInv ==
  ASSUME GCInv, NEW t \in Threads, NEW h \in Handles, NEW h2 \in Handles,
         GetRef(t, h, h2), gc' = gc, gc.by # t
  PROVE  GCInv'
<1> USE DEF GetRef
<1> DEFINE p == ref[h]
<1>1. GCTypeOK /\ TypeOK /\ ListsInv /\ GCRefcountsExact /\ ChainInv BY DEF GCInv, GCTypeOK
<1>2. p \in Versions /\ status[p] = "live" /\ rfcnt[p] + 1 \in Nat
  BY <1>1, GCPointedToIsLive DEF TypeOK
<1>3. GCTypeOK' /\ ListsInv' BY <1>1, <1>2 DEF GCTypeOK, TypeOK, ListsInv
<1>4. ref[h2] = Null /\ OnlyAt(ref, ref', h2) /\ ref'[h2] = p /\ drop' = drop
  BY <1>1 DEF Unused, OnlyAt, TypeOK
<1>5. GCClaim' = GCClaim BY DEF GCClaim
<1>6. ASSUME NEW u \in Versions
      PROVE  GCRefs(u)' = GCRefs(u) + (IF u = p THEN 1 ELSE 0) /\ GCRefs(u) \in Nat
  <2> HIDE DEF GetRef
  <2>1. Count(ref, u)' = Count(ref, u) + (IF u = p THEN 1 ELSE 0)
    BY <1>1, <1>4, RefUpdate, PointersCount, VersionsAssumption
  <2> QED BY <2>1, <1>1, <1>4, <1>5, PointersCount DEF GCRefs
<1>7. GCRefcountsExact' BY <1>1, <1>2, <1>6 DEF GCRefcountsExact, TypeOK
<1>8. ChainInv'
  <2>1. \A x \in Handles : Owner[x] = gc.by => ref'[x] = ref[x]
    BY <1>1, <1>4 DEF Unused, OnlyAt, TypeOK
  <2> QED BY <2>1, <1>1, <1>5, ChainSame
<1> QED BY <1>3, <1>7, <1>8 DEF GCInv

(* ver_putref *)
LEMMA GCPutRefInv ==
  ASSUME GCInv, NEW t \in Threads, NEW h \in Handles, PutRef(t, h), gc' = gc, gc.by # t
  PROVE  GCInv'
<1> USE DEF PutRef
<1> DEFINE p == ref[h]
<1>1. GCTypeOK /\ TypeOK /\ ListsInv /\ GCRefcountsExact /\ ChainInv BY DEF GCInv, GCTypeOK
<1>2. p \in Versions BY <1>1 DEF TypeOK, Holds
<1>3. GCTypeOK' /\ ListsInv' BY <1>1, <1>2 DEF GCTypeOK, TypeOK, ListsInv
<1>4. /\ drop[t] = Null /\ OnlyAt(drop, drop', t) /\ drop'[t] = p
      /\ OnlyAt(ref, ref', h) /\ ref'[h] = Null
  BY <1>1 DEF Idle, OnlyAt, TypeOK
<1>5. GCClaim' = GCClaim BY DEF GCClaim
<1>6. ASSUME NEW u \in Versions
      PROVE  GCRefs(u)' = GCRefs(u)
  <2> HIDE DEF PutRef
  <2>1. Count(ref, u)' = Count(ref, u) - (IF u = p THEN 1 ELSE 0)
    BY <1>1, <1>2, <1>4, RefUpdate, PointersCount, VersionsAssumption
  <2>2. Count(drop, u)' = Count(drop, u) + (IF u = p THEN 1 ELSE 0)
    BY <1>1, <1>2, <1>4, DropUpdate, PointersCount, VersionsAssumption
  <2> QED BY <2>1, <2>2, <1>1, <1>5, PointersCount DEF GCRefs
<1>7. GCRefcountsExact' BY <1>1, <1>6 DEF GCRefcountsExact
<1>8. ChainInv'
  <2>1. \A x \in Handles : Owner[x] = gc.by => ref'[x] = ref[x]
    BY <1>1, <1>4 DEF Holds, OnlyAt, TypeOK
  <2> QED BY <2>1, <1>1, <1>5, ChainSame
<1> QED BY <1>3, <1>7, <1>8 DEF GCInv

(* ver_pin *)
LEMMA GCPinInv ==
  ASSUME GCInv, NEW t \in Threads, NEW h \in Handles, NEW h2 \in Handles,
         Pin(t, h, h2), gc' = gc, gc.by # t
  PROVE  GCInv'
<1> USE DEF Pin
<1> DEFINE p == ref[h]
           q == ref[h2]
<1>1. GCTypeOK /\ TypeOK /\ ListsInv /\ GCRefcountsExact /\ ChainInv BY DEF GCInv, GCTypeOK
<1>2. p \in Versions /\ q \in Versions /\ status[p] = "live" /\ rfcnt[p] + 1 \in Nat
  BY <1>1, GCPointedToIsLive DEF TypeOK, Holds
<1>3. GCTypeOK' /\ ListsInv' BY <1>1, <1>2 DEF GCTypeOK, TypeOK, ListsInv
<1>4. /\ drop[t] = Null /\ OnlyAt(drop, drop', t) /\ drop'[t] = q
      /\ OnlyAt(ref, ref', h2) /\ ref'[h2] = p
  BY <1>1 DEF Idle, OnlyAt, TypeOK
<1>5. GCClaim' = GCClaim BY DEF GCClaim
<1>6. ASSUME NEW u \in Versions
      PROVE  GCRefs(u)' = GCRefs(u) + (IF u = p THEN 1 ELSE 0) /\ GCRefs(u) \in Nat
  <2> HIDE DEF Pin
  <2>1. Count(ref, u)' = Count(ref, u) - (IF u = q THEN 1 ELSE 0) + (IF u = p THEN 1 ELSE 0)
    BY <1>1, <1>2, <1>4, RefUpdate, PointersCount, VersionsAssumption
  <2>2. Count(drop, u)' = Count(drop, u) + (IF u = q THEN 1 ELSE 0)
    BY <1>1, <1>2, <1>4, DropUpdate, PointersCount, VersionsAssumption
  <2> QED BY <2>1, <2>2, <1>1, <1>5, PointersCount DEF GCRefs
<1>7. GCRefcountsExact' BY <1>1, <1>2, <1>6 DEF GCRefcountsExact, TypeOK
<1>8. ChainInv'
  <2>1. \A x \in Handles : Owner[x] = gc.by => ref'[x] = ref[x]
    BY <1>1, <1>4 DEF Holds, OnlyAt, TypeOK
  <2> QED BY <2>1, <1>1, <1>5, ChainSame
<1> QED BY <1>3, <1>7, <1>8 DEF GCInv

(* refcnt_dec: a version that dies is not on the path of the collector, so *)
(* its pointer to its parent is a reference.                               *)
LEMMA GCDecrementInv ==
  ASSUME GCInv, NEW t \in Threads, Decrement(t), gc' = gc
  PROVE  GCInv'
<1> DEFINE v == drop[t]
           p == parent[v]
<1> USE DEF Decrement
<1>1. GCTypeOK /\ TypeOK /\ ListsInv /\ GCRefcountsExact /\ ChainInv BY DEF GCInv, GCTypeOK
<1>2. v \in Versions /\ status[v] = "live" /\ rfcnt[v] = GCRefs(v) /\ rfcnt[v] \in Nat \ {0}
  <2>1. v \in Versions BY <1>1 DEF TypeOK
  <2> QED BY <2>1, <1>1, GCPointedToIsLive DEF TypeOK, GCRefcountsExact
<1>3. GCTypeOK' /\ ListsInv' BY <1>1, <1>2, DecrementLists DEF GCTypeOK
<1>4. ref' = ref /\ parent' = parent OBVIOUS
<1>5. CASE rfcnt[v] # 1
  <2>1. OnlyAt(drop, drop', t) /\ drop'[t] = Null BY <1>1, <1>5 DEF OnlyAt, TypeOK
  <2>2. GCClaim' = GCClaim /\ status' = status BY <1>5 DEF GCClaim
  <2>3. ASSUME NEW u \in Versions
        PROVE  GCRefs(u)' = GCRefs(u) - (IF u = v THEN 1 ELSE 0) /\ GCRefs(u) \in Nat
    <3> HIDE DEF Decrement
    <3>1. Count(drop, u)' = Count(drop, u) - (IF u = v THEN 1 ELSE 0)
      BY <1>1, <2>1, DropUpdate, PointersCount, VersionsAssumption
    <3> QED BY <3>1, <1>1, <1>4, <2>2, PointersCount DEF GCRefs
  <2>4. GCRefcountsExact' BY <1>1, <1>2, <1>5, <2>3 DEF GCRefcountsExact, TypeOK
  <2>5. ChainInv' BY <1>1, <1>4, <2>2, ChainSame
  <2> QED BY <1>3, <2>4, <2>5 DEF GCInv
<1>6. CASE rfcnt[v] = 1
  <2>1. /\ status' = [status EXCEPT ![v] = "dead"] /\ rfcnt' = [rfcnt EXCEPT ![v] = 0]
        /\ drop' = [drop EXCEPT ![t] = p]
    BY <1>1, <1>2, <1>6 DEF TypeOK
  <2>2. PICK rank \in [Versions -> Nat], path \in SUBSET Versions : Chain(rank, path)
    BY <1>1 DEF ChainInv
  <2>3. v \notin path BY <1>1, <1>6, <2>2, PathHasTwo
  <2>4. OnlyAt(drop, drop', t) /\ drop'[t] = p BY <1>1, <2>1 DEF OnlyAt, TypeOK
  <2>5. OnlyAt(GCClaim, GCClaim', v) /\ GCClaim[v] = p /\ GCClaim'[v] = Null
    <3>1. gc.phase # "none" => gc.ver # v BY <2>2, <2>3 DEF Chain
    <3> QED BY <3>1, <1>1, <1>2, <1>4, <2>1 DEF OnlyAt, TypeOK, GCClaim
  <2>6. ASSUME NEW u \in Versions
        PROVE  GCRefs(u)' = GCRefs(u) - (IF u = v THEN 1 ELSE 0) /\ GCRefs(u) \in Nat
    <3> HIDE DEF Decrement
    <3>1. Count(drop, u)' = Count(drop, u) - (IF u = v THEN 1 ELSE 0) + (IF u = p THEN 1 ELSE 0)
      BY <1>1, <2>4, DropUpdate, PointersCount
    <3>2. Count(GCClaim, u)' = Count(GCClaim, u) - (IF u = p THEN 1 ELSE 0)
      BY <1>1, <1>2, <2>5, GCClaimUpdate, PointersCount, VersionsAssumption
    <3> QED BY <3>1, <3>2, <1>1, <1>4, PointersCount DEF GCRefs
  <2>7. GCRefcountsExact' BY <1>1, <1>2, <1>6, <2>1, <2>6 DEF GCRefcountsExact, TypeOK
  <2>8. Rising(rank)'
    BY <2>2, <2>5, <1>1, GCPointerTypes DEF Chain, Rising, OnlyAt
  <2>9. \A u \in path : status'[u] = "live" /\ GCClaim'[u] = GCClaim[u] /\ rank[u] = rank[u]
    <3> SUFFICES ASSUME NEW u \in path PROVE status'[u] = "live" /\ GCClaim'[u] = GCClaim[u]
      OBVIOUS
    <3>1. u \in Versions /\ status[u] = "live" /\ u # v BY <2>2, <2>3 DEF Chain
    <3> QED BY <3>1, <2>1, <2>5, <1>1, GCPointerTypes DEF OnlyAt, TypeOK
  <2>10. ChainInv' BY <2>2, <2>8, <2>9, <1>4, ChainKept
  <2> QED BY <1>3, <2>7, <2>10 DEF GCInv
<1> QED BY <1>5, <1>6

(* ver_mm_free *)
LEMMA GCFreeInv ==
  ASSUME GCInv, NEW t \in Threads, Free(t), gc' = gc
  PROVE  GCInv'
<1>1. GCTypeOK /\ TypeOK /\ ListsInv /\ GCRefcountsExact /\ ChainInv BY DEF GCInv, GCTypeOK
<1>2. TypeOK' /\ ListsInv' /\ UNCHANGED <<rfcnt, ref, drop, look>> BY <1>1, FreeLists
<1>3. PICK v \in Versions : /\ status[v] = "dead" /\ status' = [status EXCEPT ![v] = "free"]
                            /\ \A u \in Versions \ {v} : parent'[u] = parent[u]
  BY <1>1, FreeLists
<1>4. GCClaim' = GCClaim BY <1>1, <1>2, <1>3 DEF GCClaim, TypeOK
<1>5. \A u \in Versions : GCRefs(u)' = GCRefs(u)
  BY <1>2, <1>4 DEF GCRefs, Count
<1>6. GCRefcountsExact' BY <1>1, <1>2, <1>3, <1>5 DEF GCRefcountsExact, TypeOK
<1>7. ChainInv'
  <2>1. \A u \in Versions : status[u] = "live" => status'[u] = "live" BY <1>1, <1>3 DEF TypeOK
  <2> QED BY <2>1, <1>1, <1>2, <1>4, ChainSame
<1> QED BY <1>1, <1>2, <1>6, <1>7 DEF GCInv, GCTypeOK

(* The steps of ver_leq *)
LEMMA GCLookInv ==
  ASSUME GCInv, gc' = gc, NEW t \in Threads,
         \/ \E h, h2 \in Handles : LeqStart(t, h, h2)
         \/ LeqStep(t) \/ LeqReturn(t)
  PROVE  GCInv'
<1>1. GCTypeOK /\ TypeOK /\ ListsInv /\ GCRefcountsExact /\ ChainInv BY DEF GCInv, GCTypeOK
<1>2. TypeOK' /\ ListsInv' /\ UNCHANGED <<parent, rfcnt, status, ref, drop, stack, pool>>
  BY <1>1, LookLists
<1>3. GCClaim' = GCClaim BY <1>2 DEF GCClaim
<1>4. \A u \in Versions : GCRefs(u)' = GCRefs(u) BY <1>2, <1>3 DEF GCRefs, Count
<1>5. GCRefcountsExact' BY <1>1, <1>2, <1>4 DEF GCRefcountsExact
<1>6. ChainInv' BY <1>1, <1>2, <1>3, ChainSame
<1> QED BY <1>1, <1>2, <1>5, <1>6 DEF GCInv, GCTypeOK

-----------------------------------------------------------------------------
(* The steps of the collector *)

(* A step that leaves the versions alone and moves nobody's reference      *)
(* keeps what does not speak of the chain.                                 *)
LEMMA OnlyGCMoves ==
  ASSUME GCInv, UNCHANGED vars, gc'.phase # "cut", gc.phase # "cut", GCClaim' = GCClaim,
         gc' \in [phase : {"none", "walk", "cut", "detach"}, by : Threads \union {Null},
                  ver : Versions \union {Null}, at : Versions \union {Null}]
  PROVE  GCTypeOK' /\ ListsInv' /\ GCRefcountsExact'
<1>1. GCTypeOK /\ TypeOK /\ ListsInv /\ GCRefcountsExact BY DEF GCInv, GCTypeOK
<1>2. TypeOK' /\ ListsInv' BY <1>1 DEF vars, TypeOK, ListsInv
<1>3. \A u \in Versions : GCRefs(u)' = GCRefs(u) BY DEF vars, GCRefs, Count
<1>4. GCRefcountsExact' BY <1>1, <1>3 DEF vars, GCRefcountsExact
<1> QED BY <1>2, <1>4 DEF GCTypeOK

(* The parent of a live version that is not being cut off is alive.        *)
LEMMA ParentIsLive ==
  ASSUME GCInv, NEW v \in Versions, status[v] = "live", gc.phase \notin {"cut", "detach"}
  PROVE  /\ GCClaim[v] = parent[v] /\ parent[v] \in Versions \union {Null}
         /\ parent[v] # Null => status[parent[v]] = "live"
<1>1. GCTypeOK /\ TypeOK /\ GCRefcountsExact BY DEF GCInv, GCTypeOK
<1>2. GCClaim[v] = parent[v] /\ parent[v] \in Versions \union {Null} BY <1>1 DEF GCClaim, TypeOK
<1> QED BY <1>1, <1>2, GCPointedToIsLive

(* ver_tree_gc starts on a version its thread holds.                       *)
LEMMA GCStartInv ==
  ASSUME GCInv, NEW t \in Threads, NEW h \in Handles, GCStart(t, h)
  PROVE  GCInv'
<1> DEFINE v == ref[h]
           p == parent[v]
<1>1. GCTypeOK /\ TypeOK /\ ListsInv /\ GCRefcountsExact /\ ChainInv BY DEF GCInv, GCTypeOK
<1>2. /\ gc = NoGC /\ UNCHANGED vars /\ Owner[h] = t /\ v # Null
      /\ gc' = [phase |-> "walk", by |-> t, ver |-> v, at |-> p]
  BY DEF GCStart, Holds
<1>3. v \in Versions /\ status[v] = "live" BY <1>1, <1>2, GCPointedToIsLive DEF TypeOK
<1>4. GCClaim[v] = p /\ p \in Versions \union {Null} /\ (p # Null => status[p] = "live")
  BY <1>2, <1>3, ParentIsLive DEF NoGC
<1>5. GCClaim' = GCClaim BY <1>2 DEF GCClaim, vars, NoGC
<1>6. GCTypeOK' /\ ListsInv' /\ GCRefcountsExact'
  BY <1>1, <1>2, <1>3, <1>4, <1>5, OnlyGCMoves DEF NoGC
<1>7. ChainInv'
  <2>1. PICK rank \in [Versions -> Nat] : Rising(rank) BY <1>1 DEF ChainInv, Chain
  <2>2. PICK path \in SUBSET Versions : path = {v, p} \ {Null} BY <1>3, <1>4
  <2>3. \A u \in path : /\ status[u] = "live"
                        /\ \/ \E x \in Handles : Owner[x] = t /\ ref[x] = u
                           \/ \E c \in path : GCClaim[c] = u
    BY <1>2, <1>3, <1>4, <2>2
  <2>4. Rising(rank)' BY <2>1, <1>5 DEF Rising
  <2>5. Chain(rank, path)'
    BY <2>2, <2>3, <2>4, <1>2, <1>5 DEF Chain, vars
  <2> QED BY <2>5 DEF ChainInv
<1> QED BY <1>6, <1>7 DEF GCInv

(* The walk: the parent of a version on the path joins it.                 *)
LEMMA GCWalkInv ==
  ASSUME GCInv, NEW t \in Threads, GCWalk(t)
  PROVE  GCInv'
<1> DEFINE v == gc.at
           p == parent[v]
<1>1. GCTypeOK /\ TypeOK /\ ListsInv /\ GCRefcountsExact /\ ChainInv BY DEF GCInv, GCTypeOK
<1>2. /\ gc.phase = "walk" /\ v # Null /\ UNCHANGED vars
      /\ gc'.phase = "walk" /\ gc'.by = gc.by /\ gc'.ver \in {v, gc.ver} /\ gc'.at = p
      /\ gc' = [gc EXCEPT !.ver = gc'.ver, !.at = p]
  BY <1>1 DEF GCWalk, GCTypeOK
<1>3. PICK rank \in [Versions -> Nat], path \in SUBSET Versions : Chain(rank, path)
  BY <1>1 DEF ChainInv
<1>4. v \in path /\ gc.ver \in path /\ gc.by \in Threads /\ status[v] = "live"
  BY <1>2, <1>3 DEF Chain
<1>5. GCClaim[v] = p /\ p \in Versions \union {Null} /\ (p # Null => status[p] = "live")
  BY <1>2, <1>4, ParentIsLive
<1>6. GCClaim' = GCClaim BY <1>2 DEF GCClaim, vars
<1>7. gc' \in [phase : {"none", "walk", "cut", "detach"}, by : Threads \union {Null},
               ver : Versions \union {Null}, at : Versions \union {Null}]
  BY <1>1, <1>2, <1>4, <1>5 DEF GCTypeOK
<1>8. GCTypeOK' /\ ListsInv' /\ GCRefcountsExact' BY <1>2, <1>6, <1>7, OnlyGCMoves
<1>9. ChainInv'
  <2>1. PICK path2 \in SUBSET Versions : path2 = path \union ({p} \ {Null}) BY <1>5
  <2>2. \A u \in path2 : /\ status[u] = "live"
                         /\ \/ \E x \in Handles : Owner[x] = gc.by /\ ref[x] = u
                            \/ \E c \in path2 : GCClaim[c] = u
    BY <2>1, <1>3, <1>4, <1>5 DEF Chain
  <2>3. Rising(rank)' BY <1>3, <1>6 DEF Chain, Rising
  <2>4. Chain(rank, path2)' BY <2>1, <2>2, <2>3, <1>2, <1>4, <1>6 DEF Chain, vars
  <2> QED BY <2>4 DEF ChainInv
<1> QED BY <1>8, <1>9 DEF GCInv

(* The pointer of the version that is cut off becomes the reference of the *)
(* collector; the path ends there.                                         *)
LEMMA GCCutInv ==
  ASSUME GCInv, NEW t \in Threads, GCCut(t)
  PROVE  GCInv'
<1> DEFINE v == gc.ver
           p == parent[v]
<1>1. GCTypeOK /\ TypeOK /\ ListsInv /\ GCRefcountsExact /\ ChainInv BY DEF GCInv, GCTypeOK
<1>2. /\ gc.phase = "walk" /\ UNCHANGED vars
      /\ gc'.phase = "cut" /\ gc'.by = gc.by /\ gc'.ver = v /\ gc'.at = p
      /\ gc' = [gc EXCEPT !.phase = "cut", !.at = p]
  BY <1>1 DEF GCCut, GCTypeOK
<1>3. PICK rank \in [Versions -> Nat], path \in SUBSET Versions : Chain(rank, path)
  BY <1>1 DEF ChainInv
<1>4. v \in path /\ gc.by \in Threads /\ status[v] = "live" BY <1>2, <1>3 DEF Chain
<1>5. GCClaim[v] = p /\ p \in Versions \union {Null} BY <1>2, <1>4, ParentIsLive
<1>6. GCTypeOK' /\ ListsInv'
  <2>1. TypeOK' /\ ListsInv' BY <1>1, <1>2 DEF TypeOK, ListsInv, vars
  <2>2. gc' \in [phase : {"none", "walk", "cut", "detach"}, by : Threads \union {Null},
                 ver : Versions \union {Null}, at : Versions \union {Null}]
    BY <1>1, <1>2, <1>5 DEF GCTypeOK
  <2> QED BY <2>1, <2>2 DEF GCTypeOK
<1>7. OnlyAt(GCClaim, GCClaim', v) /\ GCClaim'[v] = Null
  BY <1>2, <1>4 DEF OnlyAt, GCClaim, vars
<1>8. ASSUME NEW u \in Versions PROVE GCRefs(u)' = GCRefs(u)
  <2>1. Count(GCClaim, u)' = Count(GCClaim, u) - (IF u = p THEN 1 ELSE 0)
    BY <1>1, <1>4, <1>5, <1>7, GCClaimUpdate, PointersCount, VersionsAssumption
  <2>2. Count(ref, u)' = Count(ref, u) /\ Count(drop, u)' = Count(drop, u) BY <1>2 DEF vars, Count
  <2>3. GCRefs(u) = Count(ref, u) + Count(GCClaim, u) + Count(drop, u) BY <1>1, <1>2, PointersCount DEF GCRefs
  <2>4. GCRefs(u)' = Count(ref, u)' + Count(GCClaim, u)' + Count(drop, u)' + (IF u = p THEN 1 ELSE 0)
    BY <1>2 DEF GCRefs
  <2> QED BY <2>1, <2>2, <2>3, <2>4, <1>1, PointersCount
<1>9. GCRefcountsExact' BY <1>1, <1>2, <1>8 DEF GCRefcountsExact, vars
<1>10. ChainInv'
  <2>1. PICK path2 \in SUBSET Versions : path2 = {u \in path : rank[v] <= rank[u]} OBVIOUS
  <2>2. ASSUME NEW u \in path2
        PROVE  /\ status[u] = "live"
               /\ \/ \E x \in Handles : Owner[x] = gc.by /\ ref[x] = u
                  \/ \E c \in path2 : GCClaim'[c] = u
    <3>1. CASE \E x \in Handles : Owner[x] = gc.by /\ ref[x] = u BY <3>1, <2>1, <1>3 DEF Chain
    <3>2. CASE \E c \in path : GCClaim[c] = u
      <4>1. PICK c \in path : GCClaim[c] = u BY <3>2
      <4>2. rank[u] < rank[c] BY <4>1, <1>3, VersionsAssumption DEF Chain, Rising
      <4>types. rank[c] \in Nat /\ rank[u] \in Nat /\ rank[v] \in Nat /\ rank[v] <= rank[u]
        BY <2>1, <1>4
      <4>3. c \in path2 /\ c # v BY <4>2, <4>types, <2>1
      <4>4. GCClaim'[c] = u BY <4>1, <4>3, <1>1, <1>7, GCPointerTypes DEF OnlyAt
      <4> QED BY <4>3, <4>4, <2>1, <1>3 DEF Chain
    <3> QED BY <3>1, <3>2, <2>1, <1>3 DEF Chain
  <2>3. Rising(rank)'
    BY <1>3, <1>7, <1>1, GCPointerTypes DEF Chain, Rising, OnlyAt
  <2>4. p # Null => rank[p] < rank[v] BY <1>3, <1>4, <1>5 DEF Chain, Rising
  <2>5. v \in path2 BY <2>1, <1>4
  <2>6. Chain(rank, path2)' BY <2>1, <2>2, <2>3, <2>4, <2>5, <1>2, <1>4 DEF Chain, vars
  <2> QED BY <2>6 DEF ChainInv
<1> QED BY <1>6, <1>9, <1>10 DEF GCInv

(* The next version of the chain loses its pointer, which the collector    *)
(* takes over, and the collector puts its reference to it.                 *)
LEMMA GCPutInv ==
  ASSUME GCInv, NEW t \in Threads, GCPut(t)
  PROVE  GCInv'
<1> DEFINE v == gc.at
           p == parent[v]
<1>1. GCTypeOK /\ TypeOK /\ ListsInv /\ GCRefcountsExact /\ ChainInv BY DEF GCInv, GCTypeOK
<1>2. /\ gc.phase = "cut" /\ gc.by = t /\ v # Null /\ drop[t] = Null
      /\ parent' = [parent EXCEPT ![v] = Null] /\ drop' = [drop EXCEPT ![t] = v]
      /\ gc'.phase = "cut" /\ gc'.by = gc.by /\ gc'.ver = gc.ver /\ gc'.at = p
      /\ gc' = [gc EXCEPT !.at = p]
      /\ UNCHANGED <<rfcnt, status, ref, stack, pool, look>>
  BY <1>1 DEF GCPut, GCTypeOK, Idle
<1>3. PICK rank \in [Versions -> Nat], path \in SUBSET Versions : Chain(rank, path)
  BY <1>1 DEF ChainInv
<1>4. v \in Versions /\ status[v] = "live"
  <2>1. v \in Versions /\ Taken(v) = 1 BY <1>1, <1>2 DEF GCTypeOK, Taken
  <2> QED BY <2>1, <1>1, GCPointedToIsLive
<1>5. gc.ver \in path /\ gc.ver \in Versions /\ rank[v] < rank[gc.ver] BY <1>2, <1>3 DEF Chain
<1>6. v # gc.ver BY <1>4, <1>5
<1>7. GCClaim[v] = p /\ p \in Versions \union {Null} BY <1>1, <1>4, <1>6 DEF GCClaim, TypeOK
<1>8. GCTypeOK' /\ ListsInv'
  <2>1. TypeOK' /\ ListsInv' BY <1>1, <1>2, <1>4 DEF TypeOK, ListsInv
  <2>2. gc' \in [phase : {"none", "walk", "cut", "detach"}, by : Threads \union {Null},
                 ver : Versions \union {Null}, at : Versions \union {Null}]
    BY <1>1, <1>2, <1>7 DEF GCTypeOK
  <2> QED BY <2>1, <2>2 DEF GCTypeOK
<1>9. OnlyAt(GCClaim, GCClaim', v) /\ GCClaim'[v] = Null
  BY <1>1, <1>2, <1>4, <1>6 DEF OnlyAt, GCClaim, TypeOK
<1>10. OnlyAt(drop, drop', t) /\ drop'[t] = v BY <1>1, <1>2 DEF OnlyAt, TypeOK
<1>11. ASSUME NEW u \in Versions PROVE GCRefs(u)' = GCRefs(u)
  <2>1. Count(GCClaim, u)' = Count(GCClaim, u) - (IF u = p THEN 1 ELSE 0)
    BY <1>1, <1>4, <1>7, <1>9, GCClaimUpdate, PointersCount, VersionsAssumption
  <2>2. Count(drop, u)' = Count(drop, u) + (IF u = v THEN 1 ELSE 0)
    <3>1. drop[t] = Null /\ u # Null BY <1>2, VersionsAssumption
    <3>2. Count(drop, u)'
            = Count(drop, u) - (IF drop[t] = u THEN 1 ELSE 0) + (IF drop'[t] = u THEN 1 ELSE 0)
      BY <1>1, <1>10, DropUpdate
    <3> HIDE DEF v, p
    <3> QED BY <3>1, <3>2, <1>1, <1>10, PointersCount
  <2>3. Count(ref, u)' = Count(ref, u) BY <1>2 DEF Count
  <2>4. GCRefs(u) = Count(ref, u) + Count(GCClaim, u) + Count(drop, u) + (IF u = v THEN 1 ELSE 0)
    BY <1>2 DEF GCRefs
  <2>5. GCRefs(u)' = Count(ref, u)' + Count(GCClaim, u)' + Count(drop, u)' + (IF u = p THEN 1 ELSE 0)
    BY <1>2 DEF GCRefs
  <2> HIDE DEF v, p
  <2> QED BY <2>1, <2>2, <2>3, <2>4, <2>5, <1>1, PointersCount
<1>12. GCRefcountsExact' BY <1>1, <1>2, <1>11 DEF GCRefcountsExact
<1>13. ChainInv'
  <2>1. \A u \in path : rank[gc.ver] <= rank[u] BY <1>2, <1>3 DEF Chain
  <2>2. v \notin path
    <3>1. \A u \in path : rank[u] \in Nat /\ rank[v] \in Nat /\ rank[gc.ver] \in Nat BY <1>4, <1>5
    <3> QED BY <3>1, <2>1, <1>5
  <2>3. \A u \in path : GCClaim'[u] = GCClaim[u]
    BY <2>2, <1>9, <1>1, GCPointerTypes DEF OnlyAt
  <2>4. Rising(rank)' BY <1>3, <1>9, <1>1, GCPointerTypes DEF Chain, Rising, OnlyAt
  <2>5. p # Null => rank[p] < rank[gc.ver]
    <3> SUFFICES ASSUME p # Null PROVE rank[p] < rank[gc.ver] OBVIOUS
    <3>1. rank[p] < rank[v] BY <1>3, <1>4, <1>7 DEF Chain, Rising
    <3>2. rank[p] \in Nat /\ rank[v] \in Nat /\ rank[gc.ver] \in Nat BY <1>4, <1>5, <1>7
    <3> QED BY <3>1, <3>2, <1>5
  <2>6. \A u \in path :
          /\ status'[u] = "live"
          /\ \/ \E x \in Handles : Owner[x] = gc.by /\ ref'[x] = u
             \/ \E c \in path : GCClaim'[c] = u
    BY <2>3, <1>2, <1>3 DEF Chain
  <2>7. Chain(rank, path)' BY <2>1, <2>4, <2>5, <2>6, <1>2, <1>3 DEF Chain
  <2> QED BY <2>7 DEF ChainInv
<1> QED BY <1>8, <1>12, <1>13 DEF GCInv

(* The end of ver_tree_gc and of ver_detach: the pointer that is cleared   *)
(* no longer stood for a reference.                                        *)
LEMMA GCEndInv ==
  ASSUME GCInv, NEW t \in Threads, GCEnd(t)
  PROVE  GCInv'
<1>1. GCTypeOK /\ TypeOK /\ ListsInv /\ GCRefcountsExact /\ ChainInv BY DEF GCInv, GCTypeOK
<1>2. /\ gc.phase \in {"cut", "detach"} /\ gc.at = Null /\ gc' = NoGC
      /\ parent' = [parent EXCEPT ![gc.ver] = Null]
      /\ UNCHANGED <<rfcnt, status, ref, drop, stack, pool, look>>
  BY DEF GCEnd
<1>3. PICK rank \in [Versions -> Nat], path \in SUBSET Versions : Chain(rank, path)
  BY <1>1 DEF ChainInv
<1>4. gc.ver \in Versions BY <1>2, <1>3 DEF Chain
<1>5. GCTypeOK' /\ ListsInv'
  <2>1. TypeOK' /\ ListsInv' BY <1>1, <1>2, <1>4 DEF TypeOK, ListsInv
  <2> QED BY <2>1, <1>2 DEF GCTypeOK, NoGC
<1>6. GCClaim' = GCClaim BY <1>1, <1>2, <1>4 DEF GCClaim, TypeOK, NoGC
<1>7. ASSUME NEW u \in Versions PROVE GCRefs(u)' = GCRefs(u)
  <2>1. gc.at # u /\ gc'.phase # "cut" BY <1>2, VersionsAssumption DEF NoGC
  <2> QED BY <2>1, <1>2, <1>6 DEF GCRefs, Count
<1>8. GCRefcountsExact' BY <1>1, <1>2, <1>7 DEF GCRefcountsExact
<1>9. ChainInv'
  <2>1. Rising(rank)' BY <1>3, <1>6 DEF Chain, Rising
  <2>2. Chain(rank, {})' BY <2>1, <1>2 DEF Chain, NoGC
  <2> QED BY <2>2 DEF ChainInv
<1> QED BY <1>5, <1>8, <1>9 DEF GCInv

(* ver_detach: the reference to the parent is about to be put.             *)
LEMMA DetachInv ==
  ASSUME GCInv, NEW t \in Threads, NEW h \in Handles, Detach(t, h)
  PROVE  GCInv'
<1> DEFINE v == ref[h]
           p == parent[v]
<1>1. GCTypeOK /\ TypeOK /\ ListsInv /\ GCRefcountsExact /\ ChainInv BY DEF GCInv, GCTypeOK
<1>2. /\ gc = NoGC /\ Owner[h] = t /\ v # Null /\ drop[t] = Null
      /\ gc' = [phase |-> "detach", by |-> t, ver |-> v, at |-> Null]
      /\ drop' = [drop EXCEPT ![t] = p]
      /\ UNCHANGED <<parent, rfcnt, status, ref, stack, pool, look>>
  BY DEF Detach, Holds, Idle
<1>3. v \in Versions /\ status[v] = "live" BY <1>1, <1>2, GCPointedToIsLive DEF TypeOK
<1>4. GCClaim[v] = p /\ p \in Versions \union {Null} BY <1>2, <1>3, ParentIsLive DEF NoGC
<1>5. GCTypeOK' /\ ListsInv'
  <2>1. TypeOK' /\ ListsInv' BY <1>1, <1>2, <1>4 DEF TypeOK, ListsInv
  <2> QED BY <2>1, <1>2, <1>3 DEF GCTypeOK
<1>6. OnlyAt(GCClaim, GCClaim', v) /\ GCClaim'[v] = Null
  BY <1>2, <1>3 DEF OnlyAt, GCClaim, NoGC
<1>7. OnlyAt(drop, drop', t) /\ drop'[t] = p BY <1>1, <1>2 DEF OnlyAt, TypeOK
<1>8. ASSUME NEW u \in Versions PROVE GCRefs(u)' = GCRefs(u)
  <2>1. Count(GCClaim, u)' = Count(GCClaim, u) - (IF u = p THEN 1 ELSE 0)
    BY <1>1, <1>3, <1>4, <1>6, GCClaimUpdate, PointersCount, VersionsAssumption
  <2>2. Count(drop, u)' = Count(drop, u) + (IF u = p THEN 1 ELSE 0)
    <3>1. drop[t] = Null /\ u # Null BY <1>2, VersionsAssumption
    <3>2. Count(drop, u)'
            = Count(drop, u) - (IF drop[t] = u THEN 1 ELSE 0) + (IF drop'[t] = u THEN 1 ELSE 0)
      BY <1>1, <1>7, DropUpdate
    <3> HIDE DEF v, p
    <3> QED BY <3>1, <3>2, <1>1, <1>7, PointersCount
  <2>3. Count(ref, u)' = Count(ref, u) BY <1>2 DEF Count
  <2>4. gc.phase # "cut" /\ gc'.phase # "cut" BY <1>2 DEF NoGC
  <2>5. GCRefs(u) = Count(ref, u) + Count(GCClaim, u) + Count(drop, u)
    BY <2>4, <1>1, PointersCount DEF GCRefs
  <2>6. GCRefs(u)' = Count(ref, u)' + Count(GCClaim, u)' + Count(drop, u)' + 0
    BY <2>4 DEF GCRefs
  <2> QED BY <2>1, <2>2, <2>3, <2>5, <2>6, <1>1, PointersCount
<1>9. GCRefcountsExact' BY <1>1, <1>2, <1>8 DEF GCRefcountsExact
<1>10. ChainInv'
  <2>1. PICK rank \in [Versions -> Nat] : Rising(rank) BY <1>1 DEF ChainInv, Chain
  <2>2. Rising(rank)' BY <2>1, <1>6, <1>1, GCPointerTypes DEF Rising, OnlyAt
  <2>3. PICK path \in SUBSET Versions : path = {v} BY <1>3
  <2>4. Chain(rank, path)' BY <2>2, <2>3, <1>2, <1>3 DEF Chain
  <2> QED BY <2>4 DEF ChainInv
<1> QED BY <1>5, <1>9, <1>10 DEF GCInv

-----------------------------------------------------------------------------
(* All steps together *)

LEMMA GCInitInv == GCInit => GCInv
<1> SUFFICES ASSUME GCInit PROVE GCInv OBVIOUS
<1>1. IInv /\ gc = NoGC BY InitInv DEF GCInit
<1>2. GCTypeOK /\ ListsInv BY <1>1 DEF IInv, GCTypeOK, NoGC
<1>3. GCClaim = Claim BY <1>1 DEF GCClaim, Claim, NoGC
<1>4. \A u \in Versions : GCRefs(u) = Refs(u)
  BY <1>1, <1>3, PointedToIsLive DEF GCRefs, Refs, NoGC
<1>5. GCRefcountsExact BY <1>1, <1>4 DEF IInv, RefcountsExact, GCRefcountsExact
<1>6. ChainInv
  <2>1. PICK rank \in [Versions -> Nat] : \A v \in Versions : rank[v] = 0
    <3>1. [v \in Versions |-> 0] \in [Versions -> Nat] OBVIOUS
    <3> QED BY <3>1
  <2>2. Rising(rank) BY <1>3 DEF Rising, Claim, GCInit, Init
  <2>3. Chain(rank, {}) BY <2>2, <1>1 DEF Chain, NoGC
  <2> QED BY <2>3 DEF ChainInv
<1> QED BY <1>2, <1>5, <1>6 DEF GCInv

LEMMA GCNextInv == GCInv /\ [GCNext]_gcVars => GCInv'
<1> SUFFICES ASSUME GCInv, [GCNext]_gcVars PROVE GCInv' OBVIOUS
<1>1. CASE UNCHANGED gcVars
  <2>1. GCTypeOK /\ TypeOK /\ ListsInv /\ GCRefcountsExact /\ ChainInv BY DEF GCInv, GCTypeOK
  <2>2. GCTypeOK' /\ ListsInv' BY <2>1, <1>1 DEF gcVars, vars, GCTypeOK, TypeOK, ListsInv
  <2>3. GCClaim' = GCClaim BY <1>1 DEF gcVars, vars, GCClaim
  <2>4. \A u \in Versions : GCRefs(u)' = GCRefs(u) BY <1>1 DEF gcVars, vars, GCRefs, GCClaim, Count
  <2>5. GCRefcountsExact' BY <2>1, <1>1, <2>4 DEF gcVars, vars, GCRefcountsExact
  <2>6. ChainInv' BY <2>1, <2>3, <1>1, ChainSame DEF gcVars, vars
  <2> QED BY <2>2, <2>5, <2>6 DEF GCInv
<1>2. CASE Other /\ gc' = gc
  <2>1. PICK t \in Threads :
          \/ Decrement(t) \/ Free(t) \/ LeqStep(t) \/ LeqReturn(t)
          \/ /\ gc.by # t
             /\ \/ \E h \in Handles, v \in Versions : Create(t, h, v)
                \/ \E h, h2 \in Handles, v \in Versions : Branch(t, h, h2, v)
                \/ \E h, h2 \in Handles : GetRef(t, h, h2) \/ Pin(t, h, h2)
                \/ \E h, h2 \in Handles : LeqStart(t, h, h2)
                \/ \E h \in Handles : PutRef(t, h)
    BY <1>2 DEF Other
  <2> QED
    BY <2>1, <1>2, GCCreateInv, GCBranchInv, GCGetRefInv, GCPinInv, GCPutRefInv,
       GCDecrementInv, GCFreeInv, GCLookInv
<1>3. CASE \E t \in Threads :
             \/ \E h \in Handles : GCStart(t, h) \/ Detach(t, h)
             \/ GCWalk(t) \/ GCCut(t) \/ GCPut(t) \/ GCEnd(t)
  BY <1>3, GCStartInv, DetachInv, GCWalkInv, GCCutInv, GCPutInv, GCEndInv
<1> QED BY <1>1, <1>2, <1>3 DEF GCNext

-----------------------------------------------------------------------------
(* Theorems *)

THEOREM GCInvariance == GCSpec => []GCInv
BY GCInitInv, GCNextInv, PTL DEF GCSpec

(* The variables keep their types.                                         *)
THEOREM GCTypeCorrect == GCSpec => []GCTypeOK
<1>1. GCInv => GCTypeOK BY DEF GCInv
<1> QED BY <1>1, GCInvariance, PTL

(* ver_tree_gc reads the counts of the chain without their locks, while    *)
(* other threads branch from the chain, refer to it and release it; still  *)
(* every count is the number of references, and what the collector takes   *)
(* off the tree is released only when nobody refers to it.                 *)
THEOREM GCCountsAreExact == GCSpec => []GCRefcountsExact
<1>1. GCInv => GCRefcountsExact BY DEF GCInv
<1> QED BY <1>1, GCInvariance, PTL

(* A version that a thread holds, or is about to put, is not released by   *)
(* the collector, nor is the one the collector will cut.                   *)
HeldSurvives ==
  /\ \A h \in Handles : ref[h] # Null => status[ref[h]] = "live"
  /\ \A t \in Threads : drop[t] # Null => status[drop[t]] = "live"
  /\ gc # NoGC => status[gc.ver] = "live"

THEOREM CollectorReleasesNothingHeld == GCSpec => []HeldSurvives
<1>1. GCInv => HeldSurvives
  <2> SUFFICES ASSUME GCInv PROVE HeldSurvives OBVIOUS
  <2>1. GCTypeOK /\ TypeOK /\ GCRefcountsExact /\ ChainInv BY DEF GCInv, GCTypeOK
  <2>2. ASSUME NEW h \in Handles, ref[h] # Null PROVE status[ref[h]] = "live"
    <3>1. ref[h] \in Versions BY <2>1, <2>2 DEF TypeOK
    <3> QED BY <3>1, <2>1, GCPointedToIsLive
  <2>3. ASSUME NEW t \in Threads, drop[t] # Null PROVE status[drop[t]] = "live"
    <3>1. drop[t] \in Versions BY <2>1, <2>3 DEF TypeOK
    <3> QED BY <3>1, <2>1, GCPointedToIsLive
  <2>4. gc # NoGC => status[gc.ver] = "live" BY <2>1 DEF ChainInv, Chain
  <2> QED BY <2>2, <2>3, <2>4 DEF HeldSurvives
<1> QED BY <1>1, GCInvariance, PTL

-----------------------------------------------------------------------------
(* Nothing leaks *)

(* Between collections the counts are those of Ver and there is no cycle.  *)
THEOREM CollectorLeaksNothing == GCSpec => []GCNothingLeaks
<1>1. GCInv => GCNothingLeaks
  <2> SUFFICES ASSUME GCInv, gc = NoGC PROVE NothingLeaks BY DEF GCNothingLeaks
  <2>1. GCTypeOK /\ TypeOK /\ ListsInv /\ GCRefcountsExact /\ ChainInv BY DEF GCInv, GCTypeOK
  <2>2. GCClaim = Claim BY DEF GCClaim, Claim, NoGC
  <2>3. ASSUME NEW v \in Versions PROVE GCRefs(v) = Refs(v)
    <3>1. GCRefs(v) = Count(ref, v) + Count(Claim, v) + Count(drop, v) + 0
      BY <2>2 DEF GCRefs, NoGC
    <3>2. Count(ref, v) \in Nat /\ Count(Claim, v) \in Nat /\ Count(drop, v) \in Nat
      BY <2>1, <2>2, PointersCount
    <3> QED BY <3>1, <3>2 DEF Refs
  <2>4. IInv BY <2>1, <2>3 DEF IInv, RefcountsExact, GCRefcountsExact
  <2>5. NoCycle BY <2>1, <2>2 DEF ChainInv, Chain, Rising, NoCycle, Falling
  <2> QED BY <2>4, <2>5, LiveIsHeld
<1> QED BY <1>1, GCInvariance, PTL

-----------------------------------------------------------------------------
(* The inductive invariant for the order *)

InPool(t) == {pool[t][i] : i \in DOMAIN pool[t]}
OnStack(t) == {stack[t][i] : i \in DOMAIN stack[t]}

(* A free version points to one further down its pool, or to nothing.      *)
PoolLinks ==
  \A t \in Threads : \A i \in DOMAIN pool[t] :
    parent[pool[t][i]] # Null =>
      \E j \in DOMAIN pool[t] : j > i /\ parent[pool[t][i]] = pool[t][j]

(* What each version of D has is one reference: that of the collector, or  *)
(* that of one child, which is in D or is the version that will be cut.    *)
Alone(D) ==
  \A v \in D : /\ status[v] = "live" /\ rfcnt[v] = 1
               /\ Taken(v) = 1 \/ \E c \in D \union {gc.ver} : GCClaim[c] = v

(* The walk has passed D since the last version with a count above one.    *)
Walked(D) ==
  /\ Alone(D)
  /\ drop[gc.by] = Null /\ stack[gc.by] = <<>>
  /\ \A v \in D \union {gc.ver} : parent[v] \in D \union {gc.at}
  /\ gc.at # Null => \E c \in D \union {gc.ver} : GCClaim[c] = gc.at

(* D is left to put; the version that is cut still points to the first of  *)
(* the chain, which by now may be in the pool of the collecting thread.    *)
Gone(D) == D \union ({drop[gc.by]} \ {Null}) \union OnStack(gc.by) \union InPool(gc.by)
CutOff(D) ==
  /\ Alone(D)
  /\ gc.at \in D \union {Null}
  /\ parent[gc.ver] \in Gone(D) \union {Null}
  /\ \A v \in D : parent[v] \in D \union {Null}
  /\ drop[gc.by] # Null => parent[drop[gc.by]] = Null /\ rfcnt[drop[gc.by]] = 1
  /\ \A v \in OnStack(gc.by) : parent[v] = Null

AloneInv ==
  /\ gc.phase = "walk" => \E D \in SUBSET Versions : Walked(D)
  /\ gc.phase = "cut" => \E D \in SUBSET Versions : CutOff(D)

GCOrderInv == GCInv /\ PoolLinks /\ AloneInv

-----------------------------------------------------------------------------
(* What the collector may rely on *)

LEMMA GCInvParts ==
  ASSUME GCInv
  PROVE  /\ GCTypeOK /\ TypeOK /\ ListsInv /\ GCRefcountsExact /\ ChainInv
         /\ parent \in [Versions -> Versions \union {Null}] /\ Null \notin Versions
BY VersionsAssumption DEF GCInv, GCTypeOK, TypeOK

(* The version that will be cut is alive, and does not die now.            *)
LEMMA VerFacts ==
  ASSUME GCInv, gc.phase # "none"
  PROVE  /\ gc.by \in Threads /\ gc.ver \in Versions /\ status[gc.ver] = "live"
         /\ \A t \in Threads : drop[t] = gc.ver => rfcnt[gc.ver] # 1
<1>1. GCTypeOK /\ GCRefcountsExact BY GCInvParts
<1>2. PICK rank \in [Versions -> Nat], path \in SUBSET Versions : Chain(rank, path)
  BY GCInvParts DEF ChainInv
<1>3. gc.by \in Threads /\ gc.ver \in path /\ status[gc.ver] = "live" BY <1>2 DEF Chain
<1> QED BY <1>1, <1>2, <1>3, PathHasTwo

(* Nobody holds a version of D or is about to put it, and the collector's  *)
(* reference is the only one if it has one.                                *)
LEMMA AloneFacts ==
  ASSUME GCInv, gc.phase # "none", NEW D \in SUBSET Versions, Alone(D), NEW v \in D
  PROVE  /\ \A h \in Handles : ref[h] # v
         /\ \A t \in Threads : drop[t] # v
         /\ Taken(v) = 1 => \A c \in Versions : GCClaim[c] # v
<1>1. v \in Versions /\ GCTypeOK /\ ListsInv /\ GCRefcountsExact BY GCInvParts
<1>2. rfcnt[v] = 1 /\ rfcnt[v] = GCRefs(v) BY <1>1 DEF Alone, GCRefcountsExact
<1>3. GCRefs(v) = Count(ref, v) + Count(GCClaim, v) + Count(drop, v) + Taken(v) BY <1>1, GCPointerTypes
<1>4. Taken(v) \in {0, 1} BY DEF Taken
<1>5. Taken(v) = 1 \/ Count(GCClaim, v) > 0
  <2>1. gc.ver \in Versions BY VerFacts
  <2> QED BY <2>1, <1>1, PointersCount DEF Alone
<1>6. Count(ref, v) \in Nat /\ Count(GCClaim, v) \in Nat /\ Count(drop, v) \in Nat BY <1>1, PointersCount
<1>7. Count(ref, v) = 0 /\ Count(drop, v) = 0 /\ (Taken(v) = 1 => Count(GCClaim, v) = 0)
  BY <1>2, <1>3, <1>4, <1>5, <1>6
<1> QED BY <1>1, <1>7, PointersCount

(* Two threads about to put a version make two references.                 *)
LEMMA OneDrop ==
  ASSUME GCInv, NEW t \in Threads, NEW v \in Versions, drop[t] = v, rfcnt[v] = 1
  PROVE  /\ status[v] = "live"
         /\ \A u \in Threads : drop[u] = v => u = t
         /\ \A h \in Handles : ref[h] # v
<1>1. GCTypeOK /\ TypeOK /\ GCRefcountsExact BY GCInvParts
<1>2. status[v] = "live" BY <1>1, GCPointedToIsLive
<1>3. rfcnt[v] = GCRefs(v) BY <1>1, <1>2 DEF GCRefcountsExact
<1>4. GCRefs(v) = Count(ref, v) + Count(GCClaim, v) + Count(drop, v) + Taken(v) /\ Taken(v) \in {0, 1}
  BY <1>1, GCPointerTypes DEF Taken
<1>5. /\ Count(ref, v) \in Nat /\ Count(GCClaim, v) \in Nat /\ Count(drop, v) \in Nat
      /\ Count(drop, v) > 0
  BY <1>1, PointersCount
<1>6. Count(ref, v) = 0 /\ Count(drop, v) = 1 BY <1>3, <1>4, <1>5
<1>7. ASSUME NEW u \in Threads, drop[u] = v, u # t PROVE FALSE
  <2> DEFINE f == drop
             g == [drop EXCEPT ![t] = Null]
  <2>1. DOMAIN f = Threads /\ IsFiniteSet(Threads) /\ DOMAIN g = Threads BY <1>1, PointerTypes
  <2>2. /\ f[t] = v /\ g[t] = Null /\ g[u] = v /\ v # Null
        /\ \A x \in Threads : x # t => g[x] = f[x]
    BY <1>7, <2>1, VersionsAssumption
  <2> HIDE DEF f, g
  <2>3. Count(f, v) \in Nat /\ Count(g, v) = Count(f, v) - 1
    <3>1. /\ Count(f, v) \in Nat
          /\ Count(g, v) = Count(f, v) - (IF f[t] = v THEN 1 ELSE 0) + (IF g[t] = v THEN 1 ELSE 0)
      BY <2>1, <2>2, CountUpdate
    <3> QED BY <3>1, <2>2
  <2>4. Count(g, v) > 0 BY <2>1, <2>2, CountUpdate
  <2>5. Count(f, v) = 1 BY <1>6 DEF f
  <2> QED BY <2>3, <2>4, <2>5
<1> QED BY <1>1, <1>2, <1>6, <1>7, PointersCount

-----------------------------------------------------------------------------
(* The pools *)

(* A version on a stack or in a pool is on one only, and is not live.      *)
LEMMA PlacesFacts ==
  ASSUME TypeOK, ListsInv, NEW t \in Threads
  PROVE  /\ InPool(t) \subseteq Versions /\ OnStack(t) \subseteq Versions
         /\ \A v \in InPool(t) : status[v] = "free"
         /\ \A v \in OnStack(t) : status[v] = "dead"
         /\ \A u \in Threads \ {t} : InPool(u) \intersect InPool(t) = {}
         /\ \A u \in Threads \ {t} : OnStack(u) \intersect OnStack(t) = {}
<1>1. pool[t] \in Seq(Versions) /\ stack[t] \in Seq(Versions) BY DEF TypeOK
<1>2. InPool(t) \subseteq Versions /\ OnStack(t) \subseteq Versions BY <1>1 DEF InPool, OnStack
<1>3. /\ \A v \in InPool(t) : status[v] = "free"
      /\ \A v \in OnStack(t) : status[v] = "dead"
  BY DEF InPool, OnStack, ListsInv
<1>4. \A u \in Threads \ {t} : InPool(u) \intersect InPool(t) = {}
  BY DEF InPool, ListsInv
<1>5. \A u \in Threads \ {t} : OnStack(u) \intersect OnStack(t) = {}
  BY DEF OnStack, ListsInv
<1> QED BY <1>2, <1>3, <1>4, <1>5

(* Links do not change as long as those of the free versions do not.       *)
LEMMA LinksSame ==
  ASSUME TypeOK, ListsInv, PoolLinks, pool' = pool,
         \A v \in Versions : status[v] = "free" => parent'[v] = parent[v]
  PROVE  PoolLinks'
<1>1. ASSUME NEW t \in Threads, NEW i \in DOMAIN pool[t]
      PROVE  parent'[pool[t][i]] = parent[pool[t][i]]
  <2>1. pool[t][i] \in Versions /\ status[pool[t][i]] = "free" BY DEF TypeOK, ListsInv
  <2> QED BY <2>1
<1> QED BY <1>1 DEF PoolLinks

(* ver_mm_alloc: no version points to the one that goes, for it is the     *)
(* head; the pools of others and all stacks are left alone.                *)
LEMMA AllocLinks ==
  ASSUME TypeOK, ListsInv, PoolLinks, NEW t \in Threads, NEW v \in Versions, AllocInit(t, v),
         stack' = stack, \A u \in Versions : u # v => parent'[u] = parent[u]
  PROVE  /\ PoolLinks'
         /\ status[v] # "live" /\ status' = [status EXCEPT ![v] = "live"]
         /\ \A x \in Threads : x # t => pool'[x] = pool[x] /\ v \notin InPool(x)
         /\ \A x \in Threads : v \notin OnStack(x)
<1>1. status[v] \in {"raw", "free"} /\ status' = [status EXCEPT ![v] = "live"]
  BY AllocLists DEF AllocInit
<1>2. \A x \in Threads : v \notin OnStack(x) BY <1>1, PlacesFacts
<1>3. CASE pool[t] = <<>>
  <2>1. pool' = pool /\ status[v] = "raw" BY <1>3 DEF AllocInit, CanAlloc, TypeOK
  <2>2. \A x \in Threads : v \notin InPool(x) BY <2>1, PlacesFacts
  <2>3. \A u \in Versions : status[u] = "free" => parent'[u] = parent[u] BY <2>1
  <2>4. PoolLinks' BY <2>1, <2>3, LinksSame
  <2> QED BY <1>1, <1>2, <2>1, <2>2, <2>4
<1>4. CASE pool[t] # <<>>
  <2>1. /\ pool[t] \in Seq(Versions) /\ v = pool[t][1] /\ 1 \in DOMAIN pool[t]
        /\ pool' = [pool EXCEPT ![t] = Tail(pool[t])]
    BY <1>4 DEF AllocInit, CanAlloc, TypeOK
  <2>2. /\ pool'[t] = Tail(pool[t])
        /\ \A k \in DOMAIN Tail(pool[t]) : /\ k + 1 \in DOMAIN pool[t] /\ k \in Nat \ {0}
                                           /\ Tail(pool[t])[k] = pool[t][k + 1]
        /\ \A n \in DOMAIN pool[t] : n > 1 => /\ n - 1 \in DOMAIN Tail(pool[t])
                                              /\ Tail(pool[t])[n - 1] = pool[t][n]
    BY <2>1, <1>4 DEF TypeOK
  <2>3. \A x \in Threads : x # t => pool'[x] = pool[x] BY <2>1 DEF TypeOK
  <2>4. v \in InPool(t) BY <2>1 DEF InPool
  <2>5. \A x \in Threads : x # t => v \notin InPool(x) BY <2>4, PlacesFacts
  <2>6. ASSUME NEW x \in Threads, NEW n \in DOMAIN pool[x], x = t => n > 1
        PROVE  parent'[pool[x][n]] = parent[pool[x][n]]
    <3>1. pool[x][n] \in Versions BY DEF TypeOK
    <3>2. pool[x][n] # v
      <4>1. x = t \/ pool[x][n] \in InPool(x) BY DEF InPool
      <4>2. x = t => n # 1
        <5>1. x = t => n \in Nat BY DEF TypeOK
        <5> QED BY <5>1, <2>6
      <4> QED BY <4>1, <4>2, <2>1, <2>5 DEF ListsInv
    <3> QED BY <3>1, <3>2
  <2>7. ASSUME NEW x \in Threads, NEW i \in DOMAIN pool'[x], parent'[pool'[x][i]] # Null
        PROVE  \E j \in DOMAIN pool'[x] : j > i /\ parent'[pool'[x][i]] = pool'[x][j]
    <3>1. CASE x # t
      <4>1. pool'[x] = pool[x] BY <3>1, <2>3
      <4> QED BY <4>1, <3>1, <2>6, <2>7 DEF PoolLinks
    <3>2. CASE x = t
      <4>1. i + 1 \in DOMAIN pool[t] /\ i \in Nat \ {0} /\ pool'[x][i] = pool[t][i + 1]
        BY <3>2, <2>2
      <4>2. parent'[pool[t][i + 1]] = parent[pool[t][i + 1]] BY <4>1, <2>6
      <4>3. PICK n \in DOMAIN pool[t] : n > i + 1 /\ parent[pool[t][i + 1]] = pool[t][n]
        BY <4>1, <4>2, <2>7 DEF PoolLinks
      <4>4. n > 1 /\ n \in Nat /\ n - 1 > i BY <4>1, <4>3, <2>1
      <4>5. n - 1 \in DOMAIN pool'[x] /\ pool'[x][n - 1] = pool[t][n] BY <4>4, <3>2, <2>2
      <4> QED BY <4>1, <4>2, <4>3, <4>4, <4>5
    <3> QED BY <3>1, <3>2
  <2>8. PoolLinks' BY <2>7 DEF PoolLinks
  <2> QED BY <1>1, <1>2, <2>3, <2>5, <2>8
<1> QED BY <1>3, <1>4

(* ver_mm_free: the version goes from the stack to the head of the pool.   *)
LEMMA FreeLinks ==
  ASSUME TypeOK, ListsInv, PoolLinks, NEW t \in Threads, Free(t)
  PROVE  /\ PoolLinks'
         /\ \E v \in OnStack(t) : /\ parent'[v] \in InPool(t) \union {Null}
                                  /\ \A u \in Versions \ {v} : parent'[u] = parent[u]
                                  /\ status' = [status EXCEPT ![v] = "free"]
                                  /\ InPool(t)' = InPool(t) \union {v}
                                  /\ OnStack(t)' \union {v} = OnStack(t)
         /\ OnStack(t)' \subseteq OnStack(t)
         /\ \A x \in Threads : x # t => pool'[x] = pool[x] /\ stack'[x] = stack[x]
<1> DEFINE v == Head(stack[t])
<1>1. /\ stack[t] \in Seq(Versions) /\ stack[t] # <<>> /\ pool[t] \in Seq(Versions)
      /\ status' = [status EXCEPT ![v] = "free"]
      /\ pool' = [pool EXCEPT ![t] = <<v>> \o pool[t]]
      /\ stack' = [stack EXCEPT ![t] = Tail(stack[t])]
      /\ parent' = [parent EXCEPT ![v] = IF pool[t] = <<>> THEN Null ELSE Head(pool[t])]
  BY DEF Free, TypeOK
<1>2. v = stack[t][1] /\ 1 \in DOMAIN stack[t] BY <1>1
<1>3. v \in OnStack(t) /\ v \in Versions /\ status[v] = "dead" BY <1>2, PlacesFacts DEF OnStack
<1>4. \A x \in Threads : x # t => pool'[x] = pool[x] /\ stack'[x] = stack[x] BY <1>1 DEF TypeOK
<1>5. /\ pool'[t] = <<v>> \o pool[t] /\ stack'[t] = Tail(stack[t])
      /\ \A u \in Versions \ {v} : parent'[u] = parent[u]
      /\ parent'[v] = IF pool[t] = <<>> THEN Null ELSE Head(pool[t])
  BY <1>1, <1>3 DEF TypeOK
<1>6. parent'[v] \in InPool(t) \union {Null}
  <2>1. pool[t] # <<>> => Head(pool[t]) = pool[t][1] /\ 1 \in DOMAIN pool[t] BY <1>1
  <2> QED BY <2>1, <1>5 DEF InPool
<1>7. /\ 1 \in DOMAIN pool'[t] /\ pool'[t][1] = v
      /\ \A i \in DOMAIN pool[t] : /\ i + 1 \in DOMAIN pool'[t] /\ i \in Nat \ {0}
                                   /\ pool'[t][i + 1] = pool[t][i]
      /\ \A k \in DOMAIN pool'[t] : /\ k \in Nat \ {0}
                                    /\ k # 1 => k - 1 \in DOMAIN pool[t] /\ pool'[t][k] = pool[t][k - 1]
  <2> DEFINE p == pool[t]
             q == <<v>> \o p
  <2>1. p \in Seq(Versions) /\ v \in Versions /\ pool'[t] = q BY <1>1, <1>3, <1>5
  <2> HIDE DEF p, v
  <2>2. /\ Len(q) = Len(p) + 1 /\ Len(p) \in Nat /\ q[1] = v
        /\ DOMAIN p = 1..Len(p) /\ DOMAIN q = 1..Len(q)
        /\ \A k \in 2..Len(q) : q[k] = p[k - 1]
    BY <2>1
  <2> HIDE DEF q
  <2>3. \A i \in 1..Len(p) : i + 1 \in 2..Len(q) /\ (i + 1) - 1 = i /\ q[i + 1] = p[i] BY <2>2
  <2>4. \A k \in 1..Len(q) : k # 1 => k \in 2..Len(q) /\ k - 1 \in 1..Len(p) BY <2>2
  <2>5. 1 \in 1..Len(q) BY <2>2
  <2> QED BY <2>1, <2>2, <2>3, <2>4, <2>5 DEF p
<1>8. InPool(t)' = InPool(t) \union {v}
  <2>1. InPool(t)' = {pool'[t][i] : i \in DOMAIN pool'[t]} BY DEF InPool
  <2> HIDE DEF v
  <2>2. ASSUME NEW k \in DOMAIN pool'[t] PROVE pool'[t][k] \in InPool(t) \union {v}
    BY <1>7 DEF InPool
  <2>3. ASSUME NEW i \in DOMAIN pool[t] PROVE \E k \in DOMAIN pool'[t] : pool'[t][k] = pool[t][i]
    BY <1>7
  <2>4. \E k \in DOMAIN pool'[t] : pool'[t][k] = v BY <1>7
  <2> QED BY <2>1, <2>2, <2>3, <2>4 DEF InPool
<1>9. OnStack(t)' \union {v} = OnStack(t) /\ OnStack(t)' \subseteq OnStack(t)
  <2>1. OnStack(t)' = {stack'[t][i] : i \in DOMAIN stack'[t]} BY DEF OnStack
  <2>2. /\ stack'[t] = Tail(stack[t])
        /\ \A k \in DOMAIN Tail(stack[t]) : /\ k + 1 \in DOMAIN stack[t]
                                            /\ Tail(stack[t])[k] = stack[t][k + 1]
        /\ \A n \in DOMAIN stack[t] : n > 1 => /\ n - 1 \in DOMAIN Tail(stack[t])
                                               /\ Tail(stack[t])[n - 1] = stack[t][n]
    <3> HIDE DEF v
    <3> QED BY <1>1, <1>5
  <2>n. \A n \in DOMAIN stack[t] : n # 1 => n > 1 BY <1>1
  <2> HIDE DEF v
  <2>3. ASSUME NEW k \in DOMAIN stack'[t] PROVE stack'[t][k] \in OnStack(t) BY <2>2 DEF OnStack
  <2>4. ASSUME NEW i \in DOMAIN stack[t], stack[t][i] # v
        PROVE  \E k \in DOMAIN stack'[t] : stack'[t][k] = stack[t][i]
    BY <2>2, <2>4, <2>n, <1>2
  <2> QED BY <2>1, <2>3, <2>4, <1>3 DEF OnStack
<1>10. PoolLinks'
  <2> HIDE DEF v
  <2>1. ASSUME NEW x \in Threads, NEW n \in DOMAIN pool[x]
        PROVE  parent'[pool[x][n]] = parent[pool[x][n]]
    <3>1. pool[x][n] \in Versions /\ status[pool[x][n]] = "free" BY DEF TypeOK, ListsInv
    <3> QED BY <3>1, <1>3, <1>5
  <2>2. ASSUME NEW x \in Threads, NEW i \in DOMAIN pool'[x], parent'[pool'[x][i]] # Null
        PROVE  \E j \in DOMAIN pool'[x] : j > i /\ parent'[pool'[x][i]] = pool'[x][j]
    <3>1. CASE x # t BY <3>1, <1>4, <2>1, <2>2 DEF PoolLinks
    <3>2. CASE x = t /\ i = 1
      <4>1. pool[t] # <<>> /\ parent'[v] = Head(pool[t]) BY <3>2, <2>2, <1>5, <1>7
      <4>2. 1 \in DOMAIN pool[t] /\ parent'[v] = pool[t][1] BY <4>1, <1>1
      <4>3. 1 + 1 \in DOMAIN pool'[t] /\ pool'[t][1 + 1] = pool[t][1] BY <4>2, <1>7
      <4> QED BY <3>2, <4>2, <4>3, <1>7
    <3>3. CASE x = t /\ i # 1
      <4>1. i - 1 \in DOMAIN pool[t] /\ pool'[x][i] = pool[t][i - 1] /\ i \in Nat
        BY <3>3, <1>7
      <4>2. PICK j \in DOMAIN pool[t] : j > i - 1 /\ parent[pool[t][i - 1]] = pool[t][j]
        BY <4>1, <2>1, <2>2 DEF PoolLinks
      <4>3. j + 1 \in DOMAIN pool'[t] /\ pool'[t][j + 1] = pool[t][j] /\ j \in Nat BY <1>7
      <4>4. j + 1 > i BY <4>1, <4>2, <4>3
      <4> QED BY <3>3, <4>1, <4>2, <4>3, <4>4, <2>1
    <3> QED BY <3>1, <3>2, <3>3
  <2> QED BY <2>2 DEF PoolLinks
<1> HIDE DEF v
<1> QED BY <1>1, <1>3, <1>4, <1>5, <1>6, <1>8, <1>9, <1>10

-----------------------------------------------------------------------------
(* The steps of the other threads *)

(* What a step of t that is not one of the collector does to the rest: the *)
(* places of other threads stay, only a version that is not live changes   *)
(* its parent, and counts change where t has a reference or gets one.      *)
Apart(t) ==
  /\ \A x \in Threads : x # t => drop'[x] = drop[x] /\ stack'[x] = stack[x] /\ pool'[x] = pool[x]
  /\ \A v \in Versions :
       /\ \/ parent'[v] = parent[v]
          \/ status[v] # "live" /\ \A x \in Threads : x # t => v \notin OnStack(x) \union InPool(x)
       /\ status'[v] = status[v] \/ status[v] # "live" \/ (drop[t] = v /\ rfcnt[v] = 1)
       /\ \/ rfcnt'[v] = rfcnt[v] \/ status[v] # "live" \/ drop[t] = v
          \/ \E h \in Handles : ref[h] = v

LEMMA OtherApart ==
  ASSUME TypeOK, ListsInv, PoolLinks, NEW t \in Threads,
         \/ Decrement(t) \/ Free(t)
         \/ \E h \in Handles, v \in Versions : Create(t, h, v)
         \/ \E h, h2 \in Handles, v \in Versions : Branch(t, h, h2, v)
         \/ \E h, h2 \in Handles : GetRef(t, h, h2) \/ Pin(t, h, h2) \/ LeqStart(t, h, h2)
         \/ \E h \in Handles : PutRef(t, h)
         \/ LeqStep(t) \/ LeqReturn(t)
  PROVE  PoolLinks' /\ Apart(t)
<1>1. CASE Decrement(t)
  <2>1. parent' = parent /\ pool' = pool BY <1>1 DEF Decrement
  <2>2. PoolLinks' BY <2>1, LinksSame
  <2>3. \A x \in Threads : x # t => drop'[x] = drop[x] /\ stack'[x] = stack[x]
    BY <1>1 DEF Decrement, TypeOK
  <2>4. \A v \in Versions : /\ v # drop[t] => rfcnt'[v] = rfcnt[v]
                            /\ v # drop[t] \/ rfcnt[v] # 1 => status'[v] = status[v]
    BY <1>1 DEF Decrement, TypeOK
  <2> QED BY <2>1, <2>2, <2>3, <2>4 DEF Apart
<1>2. CASE Free(t)
  <2>1. PICK v \in OnStack(t) : /\ \A u \in Versions \ {v} : parent'[u] = parent[u]
                                /\ status' = [status EXCEPT ![v] = "free"]
    BY <1>2, FreeLinks
  <2>2. PoolLinks' /\ \A x \in Threads : x # t => pool'[x] = pool[x] /\ stack'[x] = stack[x]
    BY <1>2, FreeLinks
  <2>3. rfcnt' = rfcnt /\ drop' = drop BY <1>2 DEF Free
  <2>4. status[v] = "dead" /\ v \in Versions BY <2>1, PlacesFacts
  <2>5. \A x \in Threads : x # t => v \notin OnStack(x) \union InPool(x)
    BY <2>1, <2>4, PlacesFacts
  <2>6. \A u \in Versions : u # v => status'[u] = status[u] BY <2>1 DEF TypeOK
  <2>7. \A u \in Versions : u # v => parent'[u] = parent[u] BY <2>1
  <2> QED BY <2>2, <2>3, <2>4, <2>5, <2>6, <2>7 DEF Apart
<1>3. ASSUME NEW h \in Handles, NEW h2 \in Handles, NEW v \in Versions,
             Create(t, h, v) \/ Branch(t, h, h2, v)
      PROVE  PoolLinks' /\ Apart(t)
  <2>1. AllocInit(t, v) /\ drop' = drop /\ stack' = stack BY <1>3 DEF Create, Branch
  <2>2. \A u \in Versions : u # v => parent'[u] = parent[u]
    BY <1>3 DEF Create, Branch, TypeOK
  <2>3. \A u \in Versions : u # v => rfcnt'[u] = rfcnt[u] \/ \E g \in Handles : ref[g] = u
    BY <1>3 DEF Create, Branch, TypeOK
  <2>4. /\ PoolLinks' /\ status[v] # "live" /\ status' = [status EXCEPT ![v] = "live"]
        /\ \A x \in Threads : x # t => pool'[x] = pool[x] /\ v \notin InPool(x)
        /\ \A x \in Threads : v \notin OnStack(x)
    BY <2>1, <2>2, AllocLinks
  <2>5. \A u \in Versions : u # v => status'[u] = status[u] BY <2>4 DEF TypeOK
  <2> QED BY <2>1, <2>2, <2>3, <2>4, <2>5 DEF Apart
<1>4. CASE \/ \E h, h2 \in Handles : GetRef(t, h, h2) \/ Pin(t, h, h2) \/ LeqStart(t, h, h2)
           \/ \E h \in Handles : PutRef(t, h)
           \/ LeqStep(t) \/ LeqReturn(t)
  <2>1. parent' = parent /\ pool' = pool /\ status' = status /\ stack' = stack
    BY <1>4 DEF GetRef, Pin, LeqStart, PutRef, LeqStep, LeqReturn
  <2>2. PoolLinks' BY <2>1, LinksSame
  <2>3. \A x \in Threads : x # t => drop'[x] = drop[x]
    BY <1>4 DEF GetRef, Pin, LeqStart, PutRef, LeqStep, LeqReturn, TypeOK
  <2>4. \A u \in Versions : rfcnt'[u] = rfcnt[u] \/ \E g \in Handles : ref[g] = u
    BY <1>4 DEF GetRef, Pin, LeqStart, PutRef, LeqStep, LeqReturn, TypeOK
  <2> QED BY <2>1, <2>2, <2>3, <2>4 DEF Apart
<1> QED BY <1>1, <1>2, <1>3, <1>4

(* What is apart from the collector leaves alone what it has walked past,  *)
(* or has cut off.                                                         *)
LEMMA ApartKeeps ==
  ASSUME GCInv, AloneInv, gc' = gc, NEW t \in Threads, Apart(t), gc.phase # "none" => t # gc.by
  PROVE  AloneInv'
<1>1. gc.phase = "none" => AloneInv' BY DEF AloneInv
<1> SUFFICES ASSUME gc.phase # "none" PROVE AloneInv' BY <1>1
<1>2. gc.by \in Threads /\ gc.by # t /\ gc.ver \in Versions /\ status[gc.ver] = "live"
      /\ (drop[t] = gc.ver => rfcnt[gc.ver] # 1)
  BY VerFacts
<1>3. GCTypeOK /\ TypeOK /\ ListsInv /\ Null \notin Versions BY GCInvParts
<1>4. /\ drop'[gc.by] = drop[gc.by] /\ stack'[gc.by] = stack[gc.by] /\ pool'[gc.by] = pool[gc.by]
      /\ OnStack(gc.by)' = OnStack(gc.by) /\ InPool(gc.by)' = InPool(gc.by)
      /\ gc'.by = gc.by /\ gc'.ver = gc.ver
  BY <1>2 DEF Apart, OnStack, InPool
<1>5. ASSUME NEW D \in SUBSET Versions, Alone(D)
      PROVE  /\ Alone(D)'
             /\ \A v \in D \union {gc.ver} : parent'[v] = parent[v] /\ GCClaim'[v] = GCClaim[v]
  <2>1. ASSUME NEW v \in D \union {gc.ver}
        PROVE  status[v] = "live" /\ v \in Versions /\ ~ (drop[t] = v /\ rfcnt[v] = 1)
    <3>1. CASE v \in D BY <3>1, <1>5, AloneFacts DEF Alone
    <3>2. CASE v = gc.ver BY <3>2, <1>2
    <3> QED BY <3>1, <3>2
  <2>2. \A v \in D \union {gc.ver} : status'[v] = "live" /\ parent'[v] = parent[v]
    BY <2>1 DEF Apart
  <2>3. \A v \in D \union {gc.ver} : GCClaim'[v] = GCClaim[v] BY <2>1, <2>2 DEF GCClaim
  <2>4. \A v \in D : rfcnt'[v] = rfcnt[v] BY <1>5, <2>1, AloneFacts DEF Apart
  <2>5. \A v \in D : Taken(v)' = Taken(v) BY DEF Taken
  <2> QED BY <1>4, <1>5, <2>2, <2>3, <2>4, <2>5 DEF Alone
<1>6. ASSUME NEW D \in SUBSET Versions, Walked(D) PROVE Walked(D)'
  <2>1. Alone(D) BY <1>6 DEF Walked
  <2> QED BY <2>1, <1>4, <1>5, <1>6 DEF Walked
<1>7. ASSUME NEW D \in SUBSET Versions, CutOff(D) PROVE CutOff(D)'
  <2>1. Alone(D) BY <1>7 DEF CutOff
  <2>2. Gone(D)' = Gone(D) BY <1>4 DEF Gone
  <2>3. ASSUME drop[gc.by] # Null
        PROVE  parent'[drop[gc.by]] = parent[drop[gc.by]] /\ rfcnt'[drop[gc.by]] = rfcnt[drop[gc.by]]
    <3>1. drop[gc.by] \in Versions /\ rfcnt[drop[gc.by]] = 1 BY <2>3, <1>2, <1>3, <1>7 DEF TypeOK, CutOff
    <3>2. /\ status[drop[gc.by]] = "live" /\ drop[t] # drop[gc.by]
          /\ \A h \in Handles : ref[h] # drop[gc.by]
      BY <3>1, <1>2, OneDrop
    <3> QED BY <3>1, <3>2 DEF Apart
  <2>4. \A v \in OnStack(gc.by) : parent'[v] = parent[v]
    BY <1>2, <1>3, PlacesFacts DEF Apart
  <2> QED BY <2>1, <2>2, <2>3, <2>4, <1>4, <1>5, <1>7 DEF CutOff
<1> QED BY <1>6, <1>7 DEF AloneInv

-----------------------------------------------------------------------------
(* The steps of the collecting thread *)

(* The version that is cut is below all of D, as what keeps the highest of *)
(* D is not in D.                                                          *)
LEMMA VerIsBelow ==
  ASSUME GCInv, gc.phase # "none", NEW D \in SUBSET Versions, Alone(D)
  PROVE  gc.ver \notin D
<1> SUFFICES ASSUME gc.ver \in D PROVE FALSE OBVIOUS
<1>1. PICK rank \in [Versions -> Nat], path \in SUBSET Versions : Chain(rank, path)
  BY GCInvParts DEF ChainInv
<1>2. PICK u \in D : \A x \in D : ~ (rank[u] < rank[x]) BY Highest
<1>3. Taken(u) # 1 BY <1>1, <1>2, VersionsAssumption DEF Chain, Taken
<1>4. PICK c \in D : GCClaim[c] = u BY <1>3 DEF Alone
<1>5. rank[u] < rank[c] BY <1>1, <1>4, VersionsAssumption DEF Chain, Rising
<1> QED BY <1>2, <1>5

(* ver_leq *)
LEMMA LookKeeps ==
  ASSUME PoolLinks, AloneInv, UNCHANGED <<parent, rfcnt, status, ref, drop, stack, pool, gc>>
  PROVE  PoolLinks' /\ AloneInv'
<1>1. \A D \in SUBSET Versions : (Walked(D)' <=> Walked(D)) /\ (CutOff(D)' <=> CutOff(D))
  BY DEF Walked, CutOff, Alone, Gone, Taken, GCClaim, OnStack, InPool
<1> QED BY <1>1 DEF PoolLinks, AloneInv

(* refcnt_dec of the version that was cut off: it is the last reference,   *)
(* and the version has lost its parent, so the release ends there.         *)
LEMMA DecrementKeeps ==
  ASSUME GCInv, AloneInv, gc' = gc, gc.phase # "none", Decrement(gc.by)
  PROVE  AloneInv'
<1> DEFINE t == gc.by
           d == drop[t]
<1>1. /\ t \in Threads /\ gc.ver \in Versions /\ status[gc.ver] = "live"
      /\ d = gc.ver => rfcnt[gc.ver] # 1
  BY VerFacts
<1>2. GCTypeOK /\ TypeOK /\ Null \notin Versions BY GCInvParts
<1>3. d # Null /\ d \in Versions BY <1>1, <1>2 DEF Decrement, TypeOK
<1>4. gc.phase # "walk" BY <1>3 DEF AloneInv, Walked
<1>5. ASSUME NEW D \in SUBSET Versions, CutOff(D) PROVE CutOff(D)'
  <2>1. Alone(D) /\ parent[d] = Null /\ rfcnt[d] = 1 BY <1>3, <1>5 DEF CutOff
  <2>2. /\ status' = [status EXCEPT ![d] = "dead"] /\ rfcnt' = [rfcnt EXCEPT ![d] = 0]
        /\ stack' = [stack EXCEPT ![t] = <<d>> \o stack[t]] /\ drop' = [drop EXCEPT ![t] = Null]
        /\ UNCHANGED <<parent, ref, pool, look>>
    BY <1>2, <1>3, <2>1 DEF Decrement, TypeOK
  <2>3. d \notin D /\ d # gc.ver BY <1>1, <2>1, AloneFacts
  <2>4. /\ drop'[t] = Null /\ InPool(t)' = InPool(t) /\ gc'.by = t
        /\ stack'[t] = <<d>> \o stack[t] /\ stack[t] \in Seq(Versions)
    BY <1>1, <1>2, <2>2 DEF TypeOK, InPool
  <2>5. OnStack(t)' = OnStack(t) \union {d}
    <3>1. /\ 1 \in DOMAIN stack'[t] /\ stack'[t][1] = d
          /\ \A i \in DOMAIN stack[t] : i + 1 \in DOMAIN stack'[t] /\ stack'[t][i + 1] = stack[t][i]
          /\ \A k \in DOMAIN stack'[t] : k # 1 => k - 1 \in DOMAIN stack[t] /\ stack'[t][k] = stack[t][k - 1]
      <4> HIDE DEF t, d
      <4> QED BY <2>4, <1>3
    <3>2. OnStack(t)' = {stack'[t][i] : i \in DOMAIN stack'[t]} BY DEF OnStack
    <3>3. OnStack(t) = {stack[t][i] : i \in DOMAIN stack[t]} BY DEF OnStack
    <3> HIDE DEF t, d
    <3>4. ASSUME NEW k \in DOMAIN stack'[t] PROVE stack'[t][k] \in OnStack(t) \union {d}
      BY <3>1, <3>3
    <3>5. ASSUME NEW i \in DOMAIN stack[t] PROVE \E k \in DOMAIN stack'[t] : stack'[t][k] = stack[t][i]
      BY <3>1
    <3>6. \E k \in DOMAIN stack'[t] : stack'[t][k] = d BY <3>1
    <3> QED BY <3>2, <3>3, <3>4, <3>5, <3>6
  <2>6. Gone(D)' = Gone(D) BY <2>4, <2>5, <1>3 DEF Gone
  <2>7. \A v \in D \union {gc.ver} : GCClaim'[v] = GCClaim[v]
    BY <1>1, <1>2, <2>2, <2>3 DEF GCClaim, TypeOK
  <2>8. \A v \in D : status'[v] = "live" /\ rfcnt'[v] = 1 BY <1>2, <2>1, <2>2, <2>3 DEF Alone, TypeOK
  <2>9. Alone(D)' BY <2>1, <2>7, <2>8 DEF Alone, Taken
  <2>10. \A v \in OnStack(t)' : parent'[v] = Null BY <1>5, <2>1, <2>2, <2>5 DEF CutOff
  <2> QED BY <1>5, <2>2, <2>4, <2>6, <2>9, <2>10 DEF CutOff
<1> QED BY <1>4, <1>5 DEF AloneInv

(* ver_mm_free of a version that was cut off *)
LEMMA FreeKeeps ==
  ASSUME GCInv, GCInv', PoolLinks, AloneInv, gc' = gc, gc.phase # "none", Free(gc.by)
  PROVE  AloneInv'
<1> DEFINE t == gc.by
<1>1. t \in Threads /\ gc.ver \in Versions /\ status[gc.ver] = "live" BY VerFacts
<1>2. GCTypeOK /\ TypeOK /\ ListsInv /\ Null \notin Versions BY GCInvParts
<1>3. gc.phase # "walk" BY DEF AloneInv, Walked, Free
<1>4. PICK v \in OnStack(t) : /\ parent'[v] \in InPool(t) \union {Null}
                              /\ \A u \in Versions \ {v} : parent'[u] = parent[u]
                              /\ status' = [status EXCEPT ![v] = "free"]
                              /\ InPool(t)' = InPool(t) \union {v}
                              /\ OnStack(t)' \union {v} = OnStack(t)
  BY <1>1, <1>2, FreeLinks
<1>5. v \in Versions /\ status[v] = "dead" BY <1>1, <1>2, <1>4, PlacesFacts
<1>6. v \notin OnStack(t)'
  <2>1. ListsInv' BY DEF GCInv
  <2>2. \A i \in DOMAIN stack'[t] : status'[stack'[t][i]] = "dead" BY <1>1, <2>1 DEF ListsInv
  <2>3. status'[v] = "free" BY <1>2, <1>4, <1>5 DEF TypeOK
  <2>4. OnStack(t)' = {stack'[t][i] : i \in DOMAIN stack'[t]} BY DEF OnStack
  <2> QED BY <2>2, <2>3, <2>4
<1>7. rfcnt' = rfcnt /\ drop' = drop /\ ref' = ref /\ drop[t] = Null BY DEF Free
<1>8. ASSUME NEW D \in SUBSET Versions, CutOff(D) PROVE CutOff(D)'
  <2>1. Alone(D) BY <1>8 DEF CutOff
  <2>2. \A u \in D \union {gc.ver} : u # v /\ u \in Versions BY <2>1, <1>1, <1>5 DEF Alone
  <2>3. \A u \in D \union {gc.ver} : parent'[u] = parent[u] /\ status'[u] = status[u]
    BY <2>2, <1>2, <1>4 DEF TypeOK
  <2>4. \A u \in D \union {gc.ver} : GCClaim'[u] = GCClaim[u] BY <2>2, <2>3 DEF GCClaim
  <2>5. Alone(D)' BY <2>1, <2>3, <2>4, <1>7 DEF Alone, Taken
  <2>6. Gone(D)' = Gone(D) BY <1>4, <1>6, <1>7 DEF Gone
  <2>7. \A u \in OnStack(t)' : parent'[u] = Null
    <3>1. \A u \in OnStack(t)' : u \in OnStack(t) /\ u # v /\ u \in Versions
      BY <1>1, <1>2, <1>4, <1>6, PlacesFacts
    <3> QED BY <3>1, <1>4, <1>8 DEF CutOff
  <2> QED BY <2>3, <2>5, <2>6, <2>7, <1>7, <1>8 DEF CutOff
<1> QED BY <1>3, <1>8 DEF AloneInv

(* ver_tree_gc: the walk starts with nothing behind it, goes on, and turns *)
(* to the chain it has found.                                              *)
LEMMA StartKeeps ==
  ASSUME GCInv, NEW t \in Threads, NEW h \in Handles, GCStart(t, h)
  PROVE  AloneInv'
<1> DEFINE v == ref[h]
           p == parent[v]
<1>1. GCTypeOK /\ TypeOK /\ GCRefcountsExact /\ Null \notin Versions BY GCInvParts
<1>2. /\ gc = NoGC /\ UNCHANGED vars /\ v # Null /\ drop[t] = Null /\ stack[t] = <<>>
      /\ gc' = [phase |-> "walk", by |-> t, ver |-> v, at |-> p]
  BY DEF GCStart, Holds, Idle
<1>3. v \in Versions /\ status[v] = "live" BY <1>1, <1>2, GCPointedToIsLive DEF TypeOK
<1>4. GCClaim'[v] = p BY <1>2, <1>3 DEF GCClaim, vars
<1>5. Walked({})' BY <1>2, <1>4 DEF Walked, Alone, vars
<1> QED BY <1>2, <1>5 DEF AloneInv

LEMMA WalkKeeps ==
  ASSUME GCInv, AloneInv, NEW t \in Threads, GCWalk(t)
  PROVE  AloneInv'
<1> DEFINE v == gc.at
           p == parent[v]
<1>1. GCTypeOK /\ TypeOK /\ GCRefcountsExact /\ Null \notin Versions BY GCInvParts
<1>2. /\ gc.phase = "walk" /\ v # Null /\ UNCHANGED vars
      /\ gc' = [gc EXCEPT !.ver = IF rfcnt[v] > 1 THEN v ELSE gc.ver, !.at = p]
      /\ gc'.phase = "walk" /\ gc'.by = gc.by /\ gc'.at = p
      /\ gc'.ver = IF rfcnt[v] > 1 THEN v ELSE gc.ver
  BY <1>1 DEF GCWalk, GCTypeOK
<1>3. v \in Versions /\ status[v] = "live"
  <2>1. PICK rank \in [Versions -> Nat], path \in SUBSET Versions : Chain(rank, path)
    BY GCInvParts DEF ChainInv
  <2> QED BY <2>1, <1>2 DEF Chain
<1>4. rfcnt[v] \in Nat /\ rfcnt[v] > 0 BY <1>1, <1>3 DEF TypeOK, GCRefcountsExact
<1>5. GCClaim' = GCClaim BY <1>2 DEF GCClaim, vars
<1>6. GCClaim[v] = p BY <1>2, <1>3, ParentIsLive
<1>7. PICK D \in SUBSET Versions : Walked(D) BY <1>2 DEF AloneInv
<1>8. CASE rfcnt[v] > 1
  <2>1. gc'.ver = v BY <1>2, <1>8
  <2>2. Walked({})' BY <2>1, <1>2, <1>5, <1>6, <1>7 DEF Walked, Alone, vars
  <2> QED BY <2>2, <1>2 DEF AloneInv
<1>9. CASE rfcnt[v] = 1
  <2>1. gc'.ver = gc.ver BY <1>2, <1>9
  <2>2. PICK E \in SUBSET Versions : E = D \union {v} BY <1>3
  <2>3. \E c \in E \union {gc.ver} : GCClaim[c] = v BY <2>2, <1>2, <1>7 DEF Walked
  <2>4. Alone(E)'
    <3>1. \A u \in D : status[u] = "live" /\ rfcnt[u] = 1 /\ \E c \in D \union {gc.ver} : GCClaim[c] = u
      BY <1>2, <1>7 DEF Walked, Alone, Taken
    <3>2. \A u \in E : /\ status'[u] = "live" /\ rfcnt'[u] = 1
                       /\ \E c \in E \union {gc'.ver} : GCClaim'[c] = u
      BY <3>1, <2>1, <2>2, <2>3, <1>2, <1>3, <1>5, <1>9 DEF vars
    <3> QED BY <3>2 DEF Alone
  <2>5. \A u \in E \union {gc.ver} : parent[u] \in E \union {p} BY <2>2, <1>7 DEF Walked
  <2>6. Walked(E)' BY <2>1, <2>2, <2>4, <2>5, <1>2, <1>5, <1>6, <1>7 DEF Walked, vars
  <2> QED BY <2>6, <1>2 DEF AloneInv
<1> QED BY <1>4, <1>8, <1>9

LEMMA CutKeeps ==
  ASSUME GCInv, AloneInv, NEW t \in Threads, GCCut(t)
  PROVE  AloneInv'
<1> DEFINE v == gc.ver
           p == parent[v]
<1>1. GCTypeOK /\ TypeOK /\ Null \notin Versions BY GCInvParts
<1>2. /\ gc.phase = "walk" /\ gc.at = Null /\ UNCHANGED vars
      /\ gc' = [gc EXCEPT !.phase = "cut", !.at = p]
      /\ gc'.phase = "cut" /\ gc'.by = gc.by /\ gc'.ver = v /\ gc'.at = p
  BY <1>1 DEF GCCut, GCTypeOK
<1>3. v \in Versions /\ status[v] = "live" BY <1>2, VerFacts
<1>4. GCClaim[v] = p BY <1>2, <1>3, ParentIsLive
<1>5. \A c \in Versions : c # v => GCClaim'[c] = GCClaim[c] BY <1>2 DEF GCClaim, vars
<1>6. PICK D \in SUBSET Versions : Walked(D) BY <1>2 DEF AloneInv
<1>7. \A u \in D \union {v} : parent[u] \in D \union {Null} BY <1>2, <1>6 DEF Walked
<1>8. Alone(D)'
  <2> SUFFICES ASSUME NEW u \in D
               PROVE  /\ status'[u] = "live" /\ rfcnt'[u] = 1
                      /\ Taken(u)' = 1 \/ \E c \in D \union {gc'.ver} : GCClaim'[c] = u
    BY DEF Alone
  <2>1. status[u] = "live" /\ rfcnt[u] = 1 /\ \E c \in D \union {v} : GCClaim[c] = u
    BY <1>2, <1>6 DEF Walked, Alone, Taken
  <2>2. PICK c \in D \union {v} : GCClaim[c] = u BY <2>1
  <2>3. CASE c = v BY <2>1, <2>2, <2>3, <1>2, <1>4 DEF Taken, vars
  <2>4. CASE c # v BY <2>1, <2>2, <2>4, <1>2, <1>5 DEF vars
  <2> QED BY <2>3, <2>4
<1>9. CutOff(D)'
  <2>1. drop'[gc.by] = Null /\ stack'[gc.by] = <<>> BY <1>2, <1>6 DEF Walked, vars
  <2>2. OnStack(gc.by)' = {} BY <2>1, <1>2 DEF OnStack
  <2>3. D \subseteq Gone(D)' BY DEF Gone
  <2> QED BY <2>1, <2>2, <2>3, <1>2, <1>7, <1>8 DEF CutOff, vars
<1> QED BY <1>2, <1>9 DEF AloneInv

(* v->parent = NULL; ver_putref(v): the rest of the chain is left to put.  *)
LEMMA PutKeeps ==
  ASSUME GCInv, AloneInv, NEW t \in Threads, GCPut(t)
  PROVE  AloneInv'
<1> DEFINE v == gc.at
           p == parent[v]
<1>1. GCTypeOK /\ TypeOK /\ Null \notin Versions BY GCInvParts
<1>2. /\ gc.phase = "cut" /\ gc.by = t /\ v # Null /\ drop[t] = Null /\ stack[t] = <<>>
      /\ parent' = [parent EXCEPT ![v] = Null] /\ drop' = [drop EXCEPT ![t] = v]
      /\ gc' = [gc EXCEPT !.at = p]
      /\ gc'.phase = "cut" /\ gc'.by = t /\ gc'.ver = gc.ver /\ gc'.at = p
      /\ UNCHANGED <<rfcnt, status, ref, stack, pool, look>>
  BY <1>1 DEF GCPut, GCTypeOK, Idle
<1>3. PICK D \in SUBSET Versions : CutOff(D) BY <1>2 DEF AloneInv
<1>4. Alone(D) /\ v \in D /\ rfcnt[v] = 1 /\ status[v] = "live" /\ Taken(v) = 1
  BY <1>2, <1>3 DEF CutOff, Alone, Taken
<1>5. gc.ver \in Versions /\ gc.ver \notin D BY <1>2, <1>4, VerFacts, VerIsBelow
<1>6. \A c \in D : GCClaim[c] = parent[c] /\ parent[c] # v
  <2>1. \A c \in D : GCClaim[c] = parent[c] BY <1>4, <1>5 DEF Alone, GCClaim
  <2> QED BY <2>1, <1>2, <1>4, AloneFacts
<1>7. PICK E \in SUBSET Versions : E = D \ {v} OBVIOUS
<1>8. \A u \in Versions : u # v => parent'[u] = parent[u] /\ GCClaim'[u] = GCClaim[u]
  BY <1>1, <1>2 DEF GCClaim, TypeOK
<1>9. \A u \in D : parent[u] \in E \union {Null} BY <1>3, <1>6, <1>7 DEF CutOff
<1>10. Alone(E)'
  <2> SUFFICES ASSUME NEW u \in E
               PROVE  /\ status'[u] = "live" /\ rfcnt'[u] = 1
                      /\ Taken(u)' = 1 \/ \E c \in E \union {gc'.ver} : GCClaim'[c] = u
    BY DEF Alone
  <2>1. status[u] = "live" /\ rfcnt[u] = 1 /\ u \in D /\ u # v BY <1>4, <1>7 DEF Alone
  <2>2. PICK c \in D \union {gc.ver} : GCClaim[c] = u BY <2>1, <1>2, <1>4 DEF Alone, Taken
  <2>3. CASE c = v
    <3>1. u = p BY <2>2, <2>3, <1>4, <1>6
    <3>2. Taken(u)' = 1 BY <3>1, <1>2 DEF Taken
    <3> QED BY <3>2, <2>1, <1>2
  <2>4. CASE c # v
    <3>1. c \in E \union {gc'.ver} /\ c \in Versions BY <2>2, <2>4, <1>2, <1>5, <1>7
    <3>2. GCClaim'[c] = u BY <3>1, <2>2, <2>4, <1>8
    <3> QED BY <3>1, <3>2, <2>1, <1>2
  <2> QED BY <2>3, <2>4
<1>11. OnStack(t)' = OnStack(t) /\ OnStack(t) = {} /\ InPool(t)' = InPool(t)
  BY <1>2 DEF OnStack, InPool
<1>12. drop'[t] = v /\ parent'[v] = Null BY <1>1, <1>2, <1>4 DEF TypeOK
<1>13. Gone(E)' = Gone(D) BY <1>2, <1>4, <1>7, <1>11, <1>12 DEF Gone
<1>14. CutOff(E)'
  <2>1. gc'.at \in E \union {Null} BY <1>2, <1>4, <1>9
  <2>2. parent'[gc.ver] \in Gone(D) \union {Null} BY <1>3, <1>4, <1>5, <1>8 DEF CutOff
  <2>3. \A u \in E : parent'[u] \in E \union {Null} BY <1>7, <1>8, <1>9
  <2>4. rfcnt'[v] = 1 BY <1>2, <1>4
  <2>5. \A u \in OnStack(t)' : parent'[u] = Null BY <1>11
  <2> HIDE DEF v, p
  <2> QED BY <2>1, <2>2, <2>3, <2>4, <2>5, <1>2, <1>10, <1>12, <1>13 DEF CutOff
<1> QED BY <1>2, <1>14 DEF AloneInv

(* The steps that begin or end without a chain.                            *)
LEMMA EndKeeps ==
  ASSUME NEW t \in Threads, GCEnd(t) \/ \E h \in Handles : Detach(t, h)
  PROVE  AloneInv'
<1>1. gc'.phase \in {"none", "detach"} BY DEF GCEnd, Detach, NoGC
<1> QED BY <1>1 DEF AloneInv

LEMMA GCOrderNext == GCOrderInv /\ [GCNext]_gcVars => GCOrderInv'
<1> SUFFICES ASSUME GCOrderInv, [GCNext]_gcVars PROVE GCOrderInv' OBVIOUS
<1>1. GCInv /\ PoolLinks /\ AloneInv BY DEF GCOrderInv
<1>2. GCInv' BY <1>1, GCNextInv
<1>3. GCTypeOK /\ TypeOK /\ ListsInv /\ Null \notin Versions BY <1>1, GCInvParts
<1> SUFFICES PoolLinks' /\ AloneInv' BY <1>2 DEF GCOrderInv
<1>4. CASE UNCHANGED gcVars BY <1>1, <1>4, LookKeeps DEF gcVars, vars
<1>5. CASE Other /\ gc' = gc
  <2>1. PICK t \in Threads :
          \/ Decrement(t) \/ Free(t) \/ LeqStep(t) \/ LeqReturn(t)
          \/ /\ gc.by # t
             /\ \/ \E h \in Handles, v \in Versions : Create(t, h, v)
                \/ \E h, h2 \in Handles, v \in Versions : Branch(t, h, h2, v)
                \/ \E h, h2 \in Handles : GetRef(t, h, h2) \/ Pin(t, h, h2)
                \/ \E h, h2 \in Handles : LeqStart(t, h, h2)
                \/ \E h \in Handles : PutRef(t, h)
    BY <1>5 DEF Other
  <2>2. PoolLinks' /\ Apart(t) BY <2>1, <1>1, <1>3, OtherApart
  <2>3. CASE gc.phase = "none" \/ gc.by # t BY <2>2, <2>3, <1>1, <1>5, ApartKeeps
  <2>4. CASE gc.phase # "none" /\ gc.by = t
    <3>1. CASE Decrement(t) BY <3>1, <2>2, <2>4, <1>1, <1>5, DecrementKeeps
    <3>2. CASE Free(t) BY <3>2, <2>2, <2>4, <1>1, <1>2, <1>5, FreeKeeps
    <3>3. CASE LeqStep(t) \/ LeqReturn(t)
      BY <3>3, <1>1, <1>5, LookKeeps DEF LeqStep, LeqReturn
    <3> QED BY <3>1, <3>2, <3>3, <2>1, <2>4
  <2> QED BY <2>3, <2>4
<1>6. ASSUME NEW t \in Threads,
             \/ \E h \in Handles : GCStart(t, h) \/ Detach(t, h)
             \/ GCWalk(t) \/ GCCut(t) \/ GCPut(t) \/ GCEnd(t)
      PROVE  PoolLinks' /\ AloneInv'
  <2>1. pool' = pool BY <1>6 DEF GCStart, Detach, GCWalk, GCCut, GCPut, GCEnd, vars
  <2>2. \A v \in Versions : status[v] = "free" => parent'[v] = parent[v]
    <3>1. CASE GCPut(t)
      <4>1. gc.at \in Versions /\ Taken(gc.at) = 1 BY <3>1, <1>3 DEF GCPut, GCTypeOK, Taken
      <4>2. status[gc.at] = "live" BY <4>1, <1>1, GCInvParts, GCPointedToIsLive
      <4> QED BY <3>1, <4>2, <1>3 DEF GCPut, TypeOK
    <3>2. CASE GCEnd(t)
      <4>1. status[gc.ver] = "live" BY <3>2, <1>1, VerFacts DEF GCEnd
      <4> QED BY <3>2, <4>1, <1>3 DEF GCEnd, TypeOK
    <3> QED BY <3>1, <3>2, <1>6 DEF GCStart, Detach, GCWalk, GCCut, vars
  <2>3. PoolLinks' BY <2>1, <2>2, <1>1, <1>3, LinksSame
  <2> QED BY <2>3, <1>1, <1>6, StartKeeps, WalkKeeps, CutKeeps, PutKeeps, EndKeeps
<1> QED BY <1>4, <1>5, <1>6 DEF GCNext

THEOREM GCOrderInvariance == GCSpec => []GCOrderInv
<1>1. GCInit => GCOrderInv
  <2> SUFFICES ASSUME GCInit PROVE PoolLinks /\ AloneInv BY GCInitInv DEF GCOrderInv
  <2> QED BY DEF GCInit, Init, PoolLinks, AloneInv, NoGC
<1> QED BY <1>1, GCOrderNext, PTL DEF GCSpec

-----------------------------------------------------------------------------
(* The order of the versions that are held *)

(* Pointers that differ only in what leads into G, which goes up, give the *)
(* same ancestors outside G.                                               *)
LEMMA SameOutside ==
  ASSUME NEW p \in [Versions -> Versions \union {Null}], NEW q \in [Versions -> Versions \union {Null}],
         NEW T \in SUBSET Versions, NEW G \in SUBSET T, UpClosed(p, T), UpClosed(p, G),
         \A u \in T : \/ q[u] = p[u]
                      \/ q[u] \in G \union {Null} /\ p[u] \in G \union {Null},
         NEW y \in T, NEW x, x \notin G
  PROVE  x \in AncOf(q, y) <=> x \in AncOf(p, y)
<1> DEFINE A == AncOf(p, y)
           B == AncOf(q, y)
<1>1. IsAbove(p, y, A) /\ IsAbove(q, y, B) BY AncIsAbove
<1> HIDE DEF A, B
<1>2. UpClosed(q, T) /\ UpClosed(q, G) BY DEF UpClosed
<1>3. A \subseteq T /\ B \subseteq T BY <1>1, <1>2 DEF IsAbove
<1>4. UpClosed(q, A \union G) BY <1>1, <1>2, <1>3 DEF IsAbove, UpClosed
<1>5. UpClosed(p, B \union G) BY <1>1, <1>2, <1>3 DEF IsAbove, UpClosed
<1>6. B \subseteq A \union G BY <1>1, <1>3, <1>4 DEF IsAbove
<1>7. A \subseteq B \union G BY <1>1, <1>3, <1>5 DEF IsAbove
<1> QED BY <1>6, <1>7 DEF A, B

Live == {v \in Versions : status[v] = "live"}

(* What is cut off goes up, and so does it together with what is alive;    *)
(* no handle refers to it.                                                 *)
LEMMA GoneFacts ==
  ASSUME GCOrderInv, gc.phase = "cut", NEW D \in SUBSET Versions, CutOff(D)
  PROVE  /\ Gone(D) \subseteq Versions
         /\ UpClosed(parent, Gone(D)) /\ UpClosed(parent, Live \union Gone(D))
         /\ \A h \in Handles : ref[h] # Null => ref[h] \notin Gone(D)
<1>1. GCInv /\ PoolLinks /\ GCTypeOK /\ TypeOK /\ ListsInv /\ GCRefcountsExact /\ Null \notin Versions
  BY GCInvParts DEF GCOrderInv
<1>2. gc.by \in Threads /\ gc.ver \in Versions BY <1>1, VerFacts
<1> DEFINE t == gc.by
           d == drop[t]
<1>3. Alone(D) BY DEF CutOff
<1>4. d \in Versions \union {Null} BY <1>1, <1>2 DEF TypeOK
<1>5. /\ InPool(t) \subseteq Versions /\ OnStack(t) \subseteq Versions
      /\ \A v \in InPool(t) \union OnStack(t) : status[v] # "live"
  BY <1>1, <1>2, PlacesFacts
<1>6. Gone(D) \subseteq Versions BY <1>4, <1>5 DEF Gone
<1>7. ASSUME NEW u \in Gone(D), parent[u] # Null PROVE parent[u] \in Gone(D)
  <2>1. CASE u \in D BY <2>1, <1>7 DEF CutOff, Gone
  <2>2. CASE u = d /\ d # Null BY <2>2, <1>7 DEF CutOff
  <2>3. CASE u \in OnStack(t) BY <2>3, <1>7 DEF CutOff
  <2>4. CASE u \in InPool(t)
    <3>1. PICK i \in DOMAIN pool[t] : u = pool[t][i] BY <2>4 DEF InPool
    <3>2. PICK j \in DOMAIN pool[t] : parent[u] = pool[t][j] BY <3>1, <1>1, <1>2, <1>7 DEF PoolLinks
    <3> QED BY <3>2 DEF InPool, Gone
  <2> QED BY <2>1, <2>2, <2>3, <2>4 DEF Gone
<1>8. ASSUME NEW u \in Live, parent[u] # Null PROVE parent[u] \in Live \union Gone(D)
  <2>1. CASE u = gc.ver BY <2>1, <1>8 DEF CutOff
  <2>2. CASE u # gc.ver
    <3>1. GCClaim[u] = parent[u] BY <2>2 DEF GCClaim, Live
    <3>2. parent[u] \in Versions BY <1>1, <1>8 DEF TypeOK, Live
    <3> QED BY <3>1, <3>2, <1>1, GCPointedToIsLive DEF Live
  <2> QED BY <2>1, <2>2
<1>9. ASSUME NEW h \in Handles, ref[h] # Null PROVE ref[h] \notin Gone(D)
  <2>1. ref[h] \in Versions /\ status[ref[h]] = "live" BY <1>1, <1>9, GCPointedToIsLive DEF TypeOK
  <2>2. ref[h] \notin D BY <1>1, <1>3, AloneFacts
  <2>3. ref[h] = d => FALSE
    <3>1. d # Null => rfcnt[d] = 1 BY DEF CutOff
    <3> QED BY <3>1, <2>1, <1>1, <1>2, OneDrop
  <2> QED BY <2>1, <2>2, <2>3, <1>5 DEF Gone
<1> QED BY <1>6, <1>7, <1>8, <1>9 DEF UpClosed

(* What a step does to the pointers of versions that are alive or cut off. *)
LEMMA PointersMove ==
  ASSUME GCOrderInv, [GCNext]_gcVars, gc.phase # "detach", gc'.phase # "detach",
         NEW G \in SUBSET Versions,
         IF gc.phase = "cut" THEN \E D \in SUBSET Versions : CutOff(D) /\ G = Gone(D) ELSE G = {}
  PROVE  \A u \in Live \union G : \/ parent'[u] = parent[u]
                                  \/ parent'[u] \in G \union {Null} /\ parent[u] \in G \union {Null}
<1>1. GCInv /\ PoolLinks /\ AloneInv /\ GCTypeOK /\ TypeOK /\ ListsInv /\ Null \notin Versions
  BY GCInvParts DEF GCOrderInv
<1>2. gc.phase # "none" => gc.by \in Threads /\ gc.ver \in Versions BY <1>1, VerFacts
<1> SUFFICES ASSUME parent' # parent
             PROVE  \A u \in Live \union G :
                      \/ parent'[u] = parent[u]
                      \/ parent'[u] \in G \union {Null} /\ parent[u] \in G \union {Null}
  OBVIOUS
<1>3. ASSUME NEW t \in Threads, Apart(t), gc.phase = "none" \/ gc.by # t,
             NEW u \in Live \union G
      PROVE  parent'[u] = parent[u]
  <2>1. CASE status[u] = "live" /\ u \in Versions BY <2>1, <1>3 DEF Apart
  <2>2. CASE u \in G /\ status[u] # "live"
    <3>1. gc.phase = "cut" /\ gc.by # t /\ gc.by \in Threads BY <2>2, <1>2, <1>3
    <3>2. PICK D \in SUBSET Versions : CutOff(D) /\ G = Gone(D) BY <3>1
    <3>3. u \notin D BY <2>2, <3>2 DEF CutOff, Alone
    <3>4. u # drop[gc.by] BY <2>2, <3>1, <1>1, GCInvParts, GCPointedToIsLive
    <3>5. u \in OnStack(gc.by) \union InPool(gc.by) BY <2>2, <3>2, <3>3, <3>4 DEF Gone
    <3> QED BY <2>2, <3>1, <3>5, <1>3 DEF Apart
  <2> QED BY <2>1, <2>2 DEF Live
<1>4. CASE Other /\ gc' = gc
  <2>1. PICK t \in Threads :
          \/ Decrement(t) \/ Free(t) \/ LeqStep(t) \/ LeqReturn(t)
          \/ /\ gc.by # t
             /\ \/ \E h \in Handles, v \in Versions : Create(t, h, v)
                \/ \E h, h2 \in Handles, v \in Versions : Branch(t, h, h2, v)
                \/ \E h, h2 \in Handles : GetRef(t, h, h2) \/ Pin(t, h, h2)
                \/ \E h, h2 \in Handles : LeqStart(t, h, h2)
                \/ \E h \in Handles : PutRef(t, h)
    BY <1>4 DEF Other
  <2>2. PoolLinks' /\ Apart(t) BY <2>1, <1>1, OtherApart
  <2>3. CASE gc.phase = "none" \/ gc.by # t BY <2>2, <2>3, <1>3
  <2>4. CASE gc.phase # "none" /\ gc.by = t
    <3>1. Free(t) BY <2>1, <2>4 DEF Decrement, LeqStep, LeqReturn
    <3>2. gc.phase = "cut" BY <3>1, <2>4, <1>1 DEF AloneInv, Walked, Free, GCTypeOK
    <3>3. PICK D \in SUBSET Versions : CutOff(D) /\ G = Gone(D) BY <3>2
    <3>4. PICK v \in OnStack(t) : /\ parent'[v] \in InPool(t) \union {Null}
                                  /\ \A u \in Versions \ {v} : parent'[u] = parent[u]
      BY <3>1, <1>1, FreeLinks
    <3>5. parent[v] = Null /\ parent'[v] \in G \union {Null} BY <2>4, <3>3, <3>4 DEF CutOff, Gone
    <3> QED BY <3>4, <3>5 DEF Live
  <2> QED BY <2>3, <2>4
<1>5. ASSUME NEW t \in Threads, GCPut(t)
      PROVE  \A u \in Live \union G : \/ parent'[u] = parent[u]
                                      \/ parent'[u] \in G \union {Null} /\ parent[u] \in G \union {Null}
  <2>1. gc.phase = "cut" /\ gc.at # Null /\ parent' = [parent EXCEPT ![gc.at] = Null]
    BY <1>5 DEF GCPut
  <2>2. PICK D \in SUBSET Versions : CutOff(D) /\ G = Gone(D) BY <2>1
  <2>3. parent[gc.at] \in G \union {Null} BY <2>1, <2>2 DEF CutOff, Gone
  <2> QED BY <2>1, <2>3, <1>1 DEF Live, TypeOK
<1>6. ASSUME NEW t \in Threads, GCEnd(t)
      PROVE  \A u \in Live \union G : \/ parent'[u] = parent[u]
                                      \/ parent'[u] \in G \union {Null} /\ parent[u] \in G \union {Null}
  <2>1. gc.phase = "cut" /\ parent' = [parent EXCEPT ![gc.ver] = Null] BY <1>6 DEF GCEnd
  <2>2. PICK D \in SUBSET Versions : CutOff(D) /\ G = Gone(D) BY <2>1
  <2>3. parent[gc.ver] \in G \union {Null} BY <2>2 DEF CutOff
  <2> QED BY <2>1, <2>3, <1>1 DEF Live, TypeOK
<1>7. \A t \in Threads : /\ GCWalk(t) \/ GCCut(t) => parent' = parent
                         /\ \A h \in Handles : GCStart(t, h) \/ Detach(t, h) => parent' = parent
  BY DEF GCWalk, GCCut, GCStart, Detach, vars
<1>8. UNCHANGED gcVars => parent' = parent BY DEF gcVars, vars
<1> QED BY <1>4, <1>5, <1>6, <1>7, <1>8 DEF GCNext

(* Collecting, and all that other threads do meanwhile, changes nothing    *)
(* about which held version is an ancestor of which: the walk cuts above   *)
(* every version that is held or has a branch, though it reads the counts  *)
(* without their locks and other threads go on to branch and release.      *)
THEOREM CollectorKeepsOrder == GCSpec => GCOrderIsKept
<1>1. ASSUME GCOrderInv, [GCNext]_gcVars, NEW h \in Handles, NEW h2 \in Handles,
             gc.phase # "detach", gc'.phase # "detach", ref[h] # Null, ref[h2] # Null,
             ref'[h] = ref[h], ref'[h2] = ref[h2]
      PROVE  Leq(ref[h], ref[h2])' <=> Leq(ref[h], ref[h2])
  <2>1. GCInv /\ GCTypeOK /\ TypeOK /\ GCRefcountsExact /\ AloneInv /\ Null \notin Versions
    BY <1>1, GCInvParts DEF GCOrderInv
  <2>2. TypeOK' BY <1>1, GCOrderNext DEF GCOrderInv, GCInv, GCTypeOK
  <2>3. PICK x \in Versions, y \in Versions : x = ref[h] /\ y = ref[h2] BY <1>1, <2>1 DEF TypeOK
  <2>4. y \in Live BY <2>1, <2>3, GCPointedToIsLive DEF Live
  <2>5. PICK G \in SUBSET Versions :
          /\ IF gc.phase = "cut" THEN \E D \in SUBSET Versions : CutOff(D) /\ G = Gone(D) ELSE G = {}
          /\ UpClosed(parent, G) /\ UpClosed(parent, Live \union G)
          /\ x \notin G
    <3>1. CASE gc.phase = "cut"
      <4>1. PICK D \in SUBSET Versions : CutOff(D) BY <3>1, <2>1 DEF AloneInv
      <4>2. /\ Gone(D) \subseteq Versions
            /\ UpClosed(parent, Gone(D)) /\ UpClosed(parent, Live \union Gone(D))
            /\ ref[h] \notin Gone(D)
        BY <3>1, <4>1, <1>1, GoneFacts
      <4> QED BY <3>1, <4>1, <4>2, <2>3
    <3>2. CASE gc.phase # "cut"
      <4>1. \A u \in Live : parent[u] # Null => parent[u] \in Live
        <5>1. gc.phase \notin {"cut", "detach"} BY <3>2, <1>1
        <5> QED BY <5>1, <2>1, ParentIsLive DEF Live
      <4>2. UpClosed(parent, {}) /\ UpClosed(parent, Live \union {}) BY <4>1 DEF UpClosed
      <4> QED BY <3>2, <4>2
    <3> QED BY <3>1, <3>2
  <2>6. \A u \in Live \union G : \/ parent'[u] = parent[u]
                                 \/ parent'[u] \in G \union {Null} /\ parent[u] \in G \union {Null}
    BY <2>5, <1>1, PointersMove
  <2> DEFINE p == parent
             q == parent'
             T == Live \union G
  <2>7. /\ p \in [Versions -> Versions \union {Null}] /\ q \in [Versions -> Versions \union {Null}]
        /\ T \in SUBSET Versions /\ G \in SUBSET T /\ UpClosed(p, T) /\ UpClosed(p, G)
        /\ \A u \in T : q[u] = p[u] \/ (q[u] \in G \union {Null} /\ p[u] \in G \union {Null})
        /\ y \in T
    BY <2>1, <2>2, <2>4, <2>5, <2>6 DEF TypeOK, Live
  <2>8. Leq(x, y) <=> x \in AncOf(p, y)
    BY AncestorsOf DEF Leq
  <2>9. Leq(x, y)' <=> x \in AncOf(q, y)
    BY AncestorsOf DEF Leq
  <2> HIDE DEF p, q, T
  <2>10. x \in AncOf(q, y) <=> x \in AncOf(p, y) BY <2>5, <2>7, SameOutside
  <2>11. Leq(x, y)' <=> Leq(x, y) BY <2>8, <2>9, <2>10
  <2>12. Leq(ref[h], ref[h2])' <=> Leq(x, y)' BY <2>3, <1>1 DEF Leq, Ancestors
  <2> QED BY <2>3, <2>11, <2>12
<1>2. GCOrderInv /\ [GCNext]_gcVars =>
        [\A h, h2 \in Handles :
           (gc.phase # "detach" /\ gc'.phase # "detach" /\ ref[h] # Null /\ ref[h2] # Null /\
            ref'[h] = ref[h] /\ ref'[h2] = ref[h2]) =>
              (Leq(ref[h], ref[h2])' <=> Leq(ref[h], ref[h2]))]_gcVars
  BY <1>1
<1> QED BY <1>2, GCOrderInvariance, PTL DEF GCSpec, GCOrderIsKept
=============================================================================
