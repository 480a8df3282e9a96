----------------------------- MODULE VerProofs -----------------------------
(***************************************************************************)
(* Proofs about Ver, for any number of versions, threads and handles: the  *)
(* types, that reference counts are exact, that each pool is a chain of    *)
(* versions that were freed, with each such version in one pool, once;     *)
(* then the order: ver_leq answers right beside threads that branch and    *)
(* release, and no live version is left over.                              *)
(***************************************************************************)
EXTENDS Ver, FiniteSetTheorems, WellFoundedInduction, TLAPS

-----------------------------------------------------------------------------
(* Counting *)

(* Moving one pointer from f[s] to w changes the number of pointers to any *)
(* version by what these two contribute; a version that something points   *)
(* to has a positive count, one with count zero has no pointer.            *)
LEMMA CountUpdate ==
  ASSUME NEW S, IsFiniteSet(S), NEW f, DOMAIN f = S, NEW g, DOMAIN g = S,
         NEW s \in S, \A x \in S : x # s => g[x] = f[x], NEW v
  PROVE  /\ Count(f, v) \in Nat
         /\ Count(g, v) = Count(f, v) - (IF f[s] = v THEN 1 ELSE 0) + (IF g[s] = v THEN 1 ELSE 0)
         /\ f[s] = v => Count(f, v) > 0
<1> DEFINE A == {x \in S : f[x] = v}
           B == {x \in S : g[x] = v}
<1>1. IsFiniteSet(A) /\ IsFiniteSet(B)
  BY FS_Subset
<1>2. Cardinality(A) \in Nat /\ Cardinality(B) \in Nat
  BY <1>1, FS_CardinalityType
<1>3. Count(f, v) = Cardinality(A) /\ Count(g, v) = Cardinality(B)
  BY DEF Count
<1>4. f[s] = v => Cardinality(A) > 0
  <2>1. SUFFICES ASSUME f[s] = v PROVE A # {}
    BY <1>1, <1>2, FS_EmptySet
  <2> QED BY <2>1
<1>5. CASE f[s] = v /\ g[s] = v
  <2>1. A = B BY <1>5
  <2>2. Cardinality(B) = Cardinality(A) BY <2>1
  <2> HIDE DEF A, B
  <2> QED BY <2>2, <1>2, <1>3, <1>4, <1>5
<1>6. CASE f[s] # v /\ g[s] # v
  <2>1. A = B BY <1>6
  <2>2. Cardinality(B) = Cardinality(A) BY <2>1
  <2> HIDE DEF A, B
  <2> QED BY <2>2, <1>2, <1>3, <1>4, <1>6
<1>7. CASE f[s] = v /\ g[s] # v
  <2>1. B = A \ {s} /\ s \in A BY <1>7
  <2>2. Cardinality(B) = Cardinality(A) - 1 BY <2>1, <1>1, FS_RemoveElement
  <2> QED BY <2>2, <1>2, <1>3, <1>4, <1>7
<1>8. CASE f[s] # v /\ g[s] = v
  <2>1. B = A \union {s} /\ s \notin A BY <1>8
  <2>2. Cardinality(B) = Cardinality(A) + 1 BY <2>1, <1>1, FS_AddElement
  <2> QED BY <2>2, <1>2, <1>3, <1>4, <1>8
<1> QED BY <1>5, <1>6, <1>7, <1>8

(* The same, for the pointers a step of Ver moves with EXCEPT.             *)
LEMMA CountExcept ==
  ASSUME NEW S, IsFiniteSet(S), NEW f, DOMAIN f = S, NEW s \in S, NEW w, NEW v
  PROVE  /\ Count(f, v) \in Nat
         /\ Count([f EXCEPT ![s] = w], v)
              = Count(f, v) - (IF f[s] = v THEN 1 ELSE 0) + (IF w = v THEN 1 ELSE 0)
         /\ f[s] = v => Count(f, v) > 0
<1> DEFINE g == [f EXCEPT ![s] = w]
<1>1. DOMAIN g = S /\ g[s] = w /\ \A x \in S : x # s => g[x] = f[x]
  OBVIOUS
<1> HIDE DEF g
<1>2. /\ Count(f, v) \in Nat
      /\ Count(g, v) = Count(f, v) - (IF f[s] = v THEN 1 ELSE 0) + (IF g[s] = v THEN 1 ELSE 0)
      /\ f[s] = v => Count(f, v) > 0
  BY <1>1, CountUpdate
<1> QED BY <1>1, <1>2 DEF g

(* A count is a natural number, and positive when there is a pointer.      *)
LEMMA CountPositive ==
  ASSUME NEW S, IsFiniteSet(S), NEW f, DOMAIN f = S, NEW v
  PROVE  Count(f, v) \in Nat /\ \A s \in S : f[s] = v => Count(f, v) > 0
<1> DEFINE A == {x \in S : f[x] = v}
<1>1. IsFiniteSet(A) BY FS_Subset
<1>2. Count(f, v) = Cardinality(A) BY DEF Count
<1>3. ASSUME NEW s \in S, f[s] = v PROVE A # {} BY <1>3
<1> HIDE DEF A
<1>4. Cardinality(A) \in Nat BY <1>1, FS_CardinalityType
<1>5. Cardinality(A) = 0 => A = {} BY <1>1, FS_EmptySet
<1> QED BY <1>2, <1>3, <1>4, <1>5

-----------------------------------------------------------------------------
(* The inductive invariant *)

(* What a thread has on its stack is dead and what is in its pool is free, *)
(* and a version is at one place only.                                     *)
ListsInv ==
  /\ \A t \in Threads : \A i \in DOMAIN pool[t] : status[pool[t][i]] = "free"
  /\ \A t \in Threads : \A i \in DOMAIN stack[t] : status[stack[t][i]] = "dead"
  /\ \A t, u \in Threads : \A i \in DOMAIN pool[t], j \in DOMAIN pool[u] :
       pool[t][i] = pool[u][j] => t = u /\ i = j
  /\ \A t, u \in Threads : \A i \in DOMAIN stack[t], j \in DOMAIN stack[u] :
       stack[t][i] = stack[u][j] => t = u /\ i = j

IInv == TypeOK /\ ListsInv /\ RefcountsExact

(* Three functions point to versions, and each has finitely many pointers. *)
LEMMA PointerTypes ==
  ASSUME TypeOK
  PROVE  /\ IsFiniteSet(Handles) /\ IsFiniteSet(Versions) /\ IsFiniteSet(Threads)
         /\ DOMAIN ref = Handles /\ DOMAIN drop = Threads /\ DOMAIN Claim = Versions
         /\ \A v \in Versions : Claim[v] = IF status[v] = "live" THEN parent[v] ELSE Null
BY VersionsAssumption, ThreadsAssumption, HandlesAssumption DEF TypeOK, Claim

(* Counts are naturals, and a version something points to is alive.        *)
LEMMA PointedToIsLive ==
  ASSUME IInv, NEW v \in Versions
  PROVE  /\ Count(ref, v) \in Nat /\ Count(Claim, v) \in Nat /\ Count(drop, v) \in Nat
         /\ \A h \in Handles : ref[h] = v => status[v] = "live"
         /\ \A t \in Threads : drop[t] = v => status[v] = "live"
         /\ \A c \in Versions : Claim[c] = v => status[v] = "live"
<1>1. TypeOK /\ RefcountsExact BY DEF IInv
<1> USE <1>1, PointerTypes
<1>2. Count(ref, v) \in Nat /\ \A h \in Handles : ref[h] = v => Count(ref, v) > 0
  BY CountPositive
<1>3. Count(drop, v) \in Nat /\ \A t \in Threads : drop[t] = v => Count(drop, v) > 0
  BY CountPositive
<1>4. Count(Claim, v) \in Nat /\ \A c \in Versions : Claim[c] = v => Count(Claim, v) > 0
  BY CountPositive
<1>5. status[v] # "live" => Refs(v) = 0
  BY DEF RefcountsExact
<1> QED BY <1>2, <1>3, <1>4, <1>5 DEF Refs

(* What moving one of the pointers of Ver does to the counts.              *)
OnlyAt(f, g, s) == DOMAIN g = DOMAIN f /\ \A x \in DOMAIN f : x # s => g[x] = f[x]

LEMMA RefUpdate ==
  ASSUME TypeOK, NEW h \in Handles, NEW v \in Versions, OnlyAt(ref, ref', h)
  PROVE  Count(ref, v)'
           = Count(ref, v) - (IF ref[h] = v THEN 1 ELSE 0) + (IF ref'[h] = v THEN 1 ELSE 0)
<1> DEFINE f == ref
           g == ref'
<1>1. DOMAIN f = Handles /\ IsFiniteSet(Handles) BY PointerTypes
<1>2. OnlyAt(f, g, h) OBVIOUS
<1>3. Count(ref, v)' = Count(g, v) BY DEF Count
<1> HIDE DEF f, g
<1>4. Count(g, v) = Count(f, v) - (IF f[h] = v THEN 1 ELSE 0) + (IF g[h] = v THEN 1 ELSE 0)
  BY <1>1, <1>2, CountUpdate DEF OnlyAt
<1> QED BY <1>3, <1>4 DEF f, g

LEMMA DropUpdate ==
  ASSUME TypeOK, NEW t \in Threads, NEW v \in Versions, OnlyAt(drop, drop', t)
  PROVE  Count(drop, v)'
           = Count(drop, v) - (IF drop[t] = v THEN 1 ELSE 0) + (IF drop'[t] = v THEN 1 ELSE 0)
<1> DEFINE f == drop
           g == drop'
<1>1. DOMAIN f = Threads /\ IsFiniteSet(Threads) BY PointerTypes
<1>2. OnlyAt(f, g, t) OBVIOUS
<1>3. Count(drop, v)' = Count(g, v) BY DEF Count
<1> HIDE DEF f, g
<1>4. Count(g, v) = Count(f, v) - (IF f[t] = v THEN 1 ELSE 0) + (IF g[t] = v THEN 1 ELSE 0)
  BY <1>1, <1>2, CountUpdate DEF OnlyAt
<1> QED BY <1>3, <1>4 DEF f, g

LEMMA ClaimUpdate ==
  ASSUME IInv, NEW c \in Versions, NEW v \in Versions, OnlyAt(Claim, Claim', c)
  PROVE  Count(Claim, v)'
           = Count(Claim, v) - (IF Claim[c] = v THEN 1 ELSE 0) + (IF Claim'[c] = v THEN 1 ELSE 0)
<1> DEFINE f == Claim
           g == Claim'
<1>1. DOMAIN f = Versions /\ IsFiniteSet(Versions) BY PointerTypes DEF IInv
<1>2. OnlyAt(f, g, c) OBVIOUS
<1>3. Count(Claim, v)' = Count(g, v) BY DEF Count
<1> HIDE DEF f, g
<1>4. Count(g, v) = Count(f, v) - (IF f[c] = v THEN 1 ELSE 0) + (IF g[c] = v THEN 1 ELSE 0)
  BY <1>1, <1>2, CountUpdate DEF OnlyAt
<1> QED BY <1>3, <1>4 DEF f, g

(* Initially nothing points to a version.                                  *)
LEMMA InitInv == Init => IInv
<1> SUFFICES ASSUME Init PROVE IInv OBVIOUS
<1>1. TypeOK BY DEF Init, TypeOK, NoLook
<1>2. ListsInv BY DEF Init, ListsInv
<1>3. ASSUME NEW v \in Versions PROVE Refs(v) = 0
  <2>1. /\ {h \in DOMAIN ref : ref[h] = v} = {}
        /\ {t \in DOMAIN drop : drop[t] = v} = {}
        /\ {c \in DOMAIN Claim : Claim[c] = v} = {}
    BY VersionsAssumption DEF Init, Claim
  <2> QED BY <2>1, FS_EmptySet DEF Refs, Count
<1>4. RefcountsExact BY <1>3 DEF RefcountsExact, Init
<1> QED BY <1>1, <1>2, <1>4 DEF IInv

-----------------------------------------------------------------------------
(* Every step preserves it *)

(* Allocation takes a version that is not in use from the pool, or a fresh *)
(* one, and leaves the lists in order.                                     *)
LEMMA AllocLists ==
  ASSUME TypeOK, ListsInv, NEW t \in Threads, NEW v \in Versions, AllocInit(t, v), stack' = stack
  PROVE  /\ status[v] \in {"raw", "free"}
         /\ ListsInv'
         /\ status' \in [Versions -> {"raw", "live", "dead", "free"}]
         /\ pool' \in [Threads -> Seq(Versions)]
<1>1. TypeOK /\ ListsInv OBVIOUS
<1>2. CASE pool[t] = <<>>
  <2>1. status[v] = "raw" /\ pool' = pool /\ status' = [status EXCEPT ![v] = "live"]
    BY <1>1, <1>2 DEF AllocInit, CanAlloc, TypeOK
  <2>2. \A u \in Threads : /\ \A i \in DOMAIN pool[u] : pool[u][i] \in Versions \ {v}
                           /\ \A i \in DOMAIN stack[u] : stack[u][i] \in Versions \ {v}
    BY <1>1, <2>1 DEF TypeOK, ListsInv
  <2>3. ListsInv' BY <1>1, <2>1, <2>2 DEF ListsInv, TypeOK
  <2> QED BY <1>1, <2>1, <2>3 DEF TypeOK
<1>3. CASE pool[t] # <<>>
  <2>1. /\ v = pool[t][1] /\ 1 \in DOMAIN pool[t]
        /\ pool' = [pool EXCEPT ![t] = Tail(pool[t])] /\ status' = [status EXCEPT ![v] = "live"]
    BY <1>1, <1>3 DEF AllocInit, CanAlloc, TypeOK
  <2>2. status[v] = "free" BY <1>1, <2>1 DEF ListsInv
  <2>3. \A i \in DOMAIN Tail(pool[t]) : i + 1 \in DOMAIN pool[t] /\ Tail(pool[t])[i] = pool[t][i + 1]
    BY <1>1, <1>3 DEF TypeOK
  <2>4. \A i \in DOMAIN Tail(pool[t]) : i \in Nat /\ i + 1 # 1
    BY <1>1, <1>3 DEF TypeOK
  <2>5. \A u \in Threads : \A i \in DOMAIN pool'[u] : pool'[u][i] \in Versions \ {v} /\ status[pool'[u][i]] = "free"
    <3> SUFFICES ASSUME NEW u \in Threads, NEW i \in DOMAIN pool'[u]
                 PROVE  pool'[u][i] \in Versions \ {v} /\ status[pool'[u][i]] = "free"
      OBVIOUS
    <3>1. CASE u = t
      <4>1. pool'[u] = Tail(pool[t]) BY <3>1, <2>1, <1>1 DEF TypeOK
      <4>2. i + 1 \in DOMAIN pool[t] /\ i + 1 # 1 /\ pool'[u][i] = pool[t][i + 1]
        BY <4>1, <2>3, <2>4
      <4>3. pool[t][i + 1] # v /\ status[pool[t][i + 1]] = "free"
        BY <4>2, <2>1, <1>1 DEF ListsInv
      <4>4. pool[t][i + 1] \in Versions BY <4>2, <1>1 DEF TypeOK
      <4> QED BY <4>2, <4>3, <4>4
    <3>2. CASE u # t
      <4>1. pool'[u] = pool[u] BY <3>2, <2>1, <1>1 DEF TypeOK
      <4>2. pool[u][i] # v /\ status[pool[u][i]] = "free"
        BY <4>1, <3>2, <2>1, <1>1 DEF ListsInv
      <4>3. pool[u][i] \in Versions BY <4>1, <1>1 DEF TypeOK
      <4> QED BY <4>1, <4>2, <4>3
    <3> QED BY <3>1, <3>2
  <2>6. ASSUME NEW u \in Threads, NEW w \in Threads, NEW i \in DOMAIN pool'[u], NEW j \in DOMAIN pool'[w],
               pool'[u][i] = pool'[w][j]
        PROVE  u = w /\ i = j
    <3>1. ASSUME NEW x \in Threads, NEW k \in DOMAIN pool'[x]
          PROVE  LET n == IF x = t THEN k + 1 ELSE k
                 IN  n \in DOMAIN pool[x] /\ pool'[x][k] = pool[x][n] /\ k \in Nat
      <4>1. CASE x = t
        <5>1. pool'[x] = Tail(pool[t]) BY <4>1, <2>1, <1>1 DEF TypeOK
        <5> QED BY <5>1, <4>1, <2>3, <2>4
      <4>2. CASE x # t
        <5>1. pool'[x] = pool[x] BY <4>2, <2>1, <1>1 DEF TypeOK
        <5>2. \A n \in DOMAIN pool[x] : n \in Nat BY <1>1 DEF TypeOK
        <5> QED BY <5>1, <5>2, <4>2
      <4> QED BY <4>1, <4>2
    <3>2. u = w /\ (IF u = t THEN i + 1 ELSE i) = (IF w = t THEN j + 1 ELSE j)
      BY <3>1, <1>1, <2>6 DEF ListsInv
    <3> QED BY <3>1, <3>2
  <2>7. \A u \in Threads : \A i \in DOMAIN stack[u] : stack[u][i] \in Versions \ {v}
    BY <1>1, <2>2 DEF TypeOK, ListsInv
  <2>8. ListsInv'
    <3>1. \A u \in Threads : \A i \in DOMAIN pool'[u] : status'[pool'[u][i]] = "free"
      BY <1>1, <2>1, <2>5 DEF TypeOK
    <3>2. \A u \in Threads : \A i \in DOMAIN stack'[u] : status'[stack'[u][i]] = "dead"
      BY <1>1, <2>1, <2>7 DEF ListsInv, TypeOK
    <3>3. \A u, w \in Threads : \A i \in DOMAIN stack'[u], j \in DOMAIN stack'[w] :
            stack'[u][i] = stack'[w][j] => u = w /\ i = j
      BY <1>1 DEF ListsInv
    <3> QED BY <2>6, <3>1, <3>2, <3>3 DEF ListsInv
  <2>9. Tail(pool[t]) \in Seq(Versions) BY <1>1, <1>3 DEF TypeOK
  <2> QED BY <1>1, <2>1, <2>2, <2>8, <2>9 DEF TypeOK
<1> QED BY <1>2, <1>3

(* ver_create: a version nothing pointed to gets one handle.               *)
LEMMA CreateInv ==
  ASSUME IInv, NEW t \in Threads, NEW h \in Handles, NEW v \in Versions, Create(t, h, v)
  PROVE  IInv'
<1> USE DEF Create
<1>1. TypeOK /\ ListsInv /\ RefcountsExact BY DEF IInv
<1>2. /\ status[v] \in {"raw", "free"} /\ ListsInv'
      /\ status' \in [Versions -> {"raw", "live", "dead", "free"}] /\ pool' \in [Threads -> Seq(Versions)]
  BY <1>1, AllocLists
<1>3. TypeOK' BY <1>1, <1>2 DEF TypeOK
<1>4. ref[h] = Null /\ OnlyAt(ref, ref', h) /\ ref'[h] = v /\ drop' = drop
  BY <1>1 DEF Unused, OnlyAt, TypeOK
<1>5. Claim' = Claim
  BY <1>1, <1>2 DEF Claim, TypeOK, AllocInit
<1>6. ASSUME NEW u \in Versions
      PROVE  Refs(u)' = Refs(u) + (IF u = v THEN 1 ELSE 0) /\ Refs(u) \in Nat
  <2> HIDE DEF Create
  <2>1. Count(ref, u)' = Count(ref, u) + (IF u = v THEN 1 ELSE 0)
    BY <1>1, <1>4, RefUpdate, PointedToIsLive, VersionsAssumption
  <2> QED BY <2>1, <1>1, <1>4, <1>5, PointedToIsLive DEF Refs
<1>7. RefcountsExact'
  BY <1>1, <1>2, <1>6 DEF RefcountsExact, TypeOK, AllocInit
<1> QED BY <1>2, <1>3, <1>7 DEF IInv

(* ver_branch: the handle points to the new version, which points to its   *)
(* parent, whose count is raised.                                          *)
LEMMA BranchInv ==
  ASSUME IInv, NEW t \in Threads, NEW h \in Handles, NEW h2 \in Handles, NEW v \in Versions,
         Branch(t, h, h2, v)
  PROVE  IInv'
<1> USE DEF Branch
<1> DEFINE p == ref[h]
<1>1. TypeOK /\ ListsInv /\ RefcountsExact BY DEF IInv
<1>2. /\ status[v] \in {"raw", "free"} /\ ListsInv'
      /\ status' \in [Versions -> {"raw", "live", "dead", "free"}] /\ pool' \in [Threads -> Seq(Versions)]
  BY <1>1, AllocLists
<1>3. p \in Versions /\ status[p] = "live" /\ p # v
  BY <1>1, <1>2, PointedToIsLive DEF TypeOK, Holds
<1>4. TypeOK'
  <2>1. rfcnt[p] + 1 \in Nat BY <1>1, <1>3 DEF TypeOK
  <2>2. rfcnt' \in [Versions -> Nat] BY <1>1, <1>3, <2>1 DEF TypeOK
  <2> QED BY <1>1, <1>2, <1>3, <2>2 DEF TypeOK
<1>5. ref[h2] = Null /\ OnlyAt(ref, ref', h2) /\ ref'[h2] = v /\ drop' = drop
  BY <1>1 DEF Unused, OnlyAt, TypeOK
<1>6. Claim[v] = Null /\ OnlyAt(Claim, Claim', v) /\ Claim'[v] = p
  BY <1>1, <1>2, <1>3 DEF Claim, TypeOK, AllocInit, OnlyAt
<1>7. ASSUME NEW u \in Versions
      PROVE  /\ Refs(u)' = Refs(u) + (IF u = v THEN 1 ELSE 0) + (IF u = p THEN 1 ELSE 0)
             /\ Refs(u) \in Nat
  <2> HIDE DEF Branch
  <2>1. Count(ref, u)' = Count(ref, u) + (IF u = v THEN 1 ELSE 0)
    BY <1>1, <1>5, RefUpdate, PointedToIsLive, VersionsAssumption
  <2>2. Count(Claim, u)' = Count(Claim, u) + (IF u = p THEN 1 ELSE 0)
    BY <1>1, <1>6, ClaimUpdate, PointedToIsLive, VersionsAssumption
  <2> QED BY <2>1, <2>2, <1>1, <1>5, PointedToIsLive DEF Refs
<1>8. RefcountsExact'
  BY <1>1, <1>2, <1>3, <1>7 DEF RefcountsExact, TypeOK, AllocInit
<1> QED BY <1>2, <1>4, <1>8 DEF IInv

(* ver_getref: one more handle, one more in the count.                     *)
LEMMA GetRefInv ==
  ASSUME IInv, NEW t \in Threads, NEW h \in Handles, NEW h2 \in Handles, GetRef(t, h, h2)
  PROVE  IInv'
<1> USE DEF GetRef
<1> DEFINE p == ref[h]
<1>1. TypeOK /\ ListsInv /\ RefcountsExact BY DEF IInv
<1>2. p \in Versions /\ status[p] = "live"
  BY <1>1, PointedToIsLive DEF TypeOK
<1>3. TypeOK' /\ ListsInv' BY <1>1, <1>2 DEF TypeOK, ListsInv
<1>4. ref[h2] = Null /\ OnlyAt(ref, ref', h2) /\ ref'[h2] = p /\ drop' = drop
  BY <1>1 DEF Unused, OnlyAt, TypeOK
<1>5. Claim' = Claim BY DEF Claim
<1>6. ASSUME NEW u \in Versions
      PROVE  Refs(u)' = Refs(u) + (IF u = p THEN 1 ELSE 0) /\ Refs(u) \in Nat
  <2> HIDE DEF GetRef
  <2>1. Count(ref, u)' = Count(ref, u) + (IF u = p THEN 1 ELSE 0)
    BY <1>1, <1>2, <1>4, RefUpdate, PointedToIsLive, VersionsAssumption
  <2> QED BY <2>1, <1>1, <1>4, <1>5, PointedToIsLive DEF Refs
<1>7. RefcountsExact' BY <1>1, <1>2, <1>6 DEF RefcountsExact, TypeOK
<1> QED BY <1>3, <1>7 DEF IInv

(* ver_putref: the reference passes from the handle to the thread.         *)
LEMMA PutRefInv ==
  ASSUME IInv, NEW t \in Threads, NEW h \in Handles, PutRef(t, h)
  PROVE  IInv'
<1> USE DEF PutRef
<1> DEFINE p == ref[h]
<1>1. TypeOK /\ ListsInv /\ RefcountsExact BY DEF IInv
<1>2. p \in Versions BY <1>1 DEF TypeOK, Holds
<1>3. TypeOK' /\ ListsInv' BY <1>1, <1>2 DEF TypeOK, ListsInv
<1>4. /\ drop[t] = Null /\ OnlyAt(drop, drop', t) /\ drop'[t] = p
      /\ OnlyAt(ref, ref', h) /\ ref'[h] = Null
  BY <1>1 DEF Idle, OnlyAt, TypeOK
<1>5. Claim' = Claim BY DEF Claim
<1>6. ASSUME NEW u \in Versions PROVE Refs(u)' = Refs(u)
  <2> HIDE DEF PutRef
  <2>1. Count(ref, u)' = Count(ref, u) - (IF u = p THEN 1 ELSE 0)
    BY <1>1, <1>2, <1>4, RefUpdate, PointedToIsLive, VersionsAssumption
  <2>2. Count(drop, u)' = Count(drop, u) + (IF u = p THEN 1 ELSE 0)
    BY <1>1, <1>2, <1>4, DropUpdate, PointedToIsLive, VersionsAssumption
  <2> QED BY <2>1, <2>2, <1>1, <1>5, PointedToIsLive DEF Refs
<1>7. RefcountsExact' BY <1>1, <1>6 DEF RefcountsExact
<1> QED BY <1>3, <1>7 DEF IInv

(* ver_pin: the pin moves to another version, and the reference to the old *)
(* one passes to the thread.                                               *)
LEMMA PinInv ==
  ASSUME IInv, NEW t \in Threads, NEW h \in Handles, NEW h2 \in Handles, Pin(t, h, h2)
  PROVE  IInv'
<1> USE DEF Pin
<1> DEFINE p == ref[h]
           q == ref[h2]
<1>1. TypeOK /\ ListsInv /\ RefcountsExact BY DEF IInv
<1>2. p \in Versions /\ q \in Versions /\ status[p] = "live"
  BY <1>1, PointedToIsLive DEF TypeOK, Holds
<1>3. TypeOK' /\ ListsInv' BY <1>1, <1>2 DEF TypeOK, ListsInv
<1>4. /\ drop[t] = Null /\ OnlyAt(drop, drop', t) /\ drop'[t] = q
      /\ OnlyAt(ref, ref', h2) /\ ref'[h2] = p
  BY <1>1 DEF Idle, OnlyAt, TypeOK
<1>5. Claim' = Claim BY DEF Claim
<1>6. ASSUME NEW u \in Versions
      PROVE  Refs(u)' = Refs(u) + (IF u = p THEN 1 ELSE 0) /\ Refs(u) \in Nat
  <2> HIDE DEF Pin
  <2>1. Count(ref, u)' = Count(ref, u) - (IF u = q THEN 1 ELSE 0) + (IF u = p THEN 1 ELSE 0)
    BY <1>1, <1>2, <1>4, RefUpdate, PointedToIsLive, VersionsAssumption
  <2>2. Count(drop, u)' = Count(drop, u) + (IF u = q THEN 1 ELSE 0)
    BY <1>1, <1>2, <1>4, DropUpdate, PointedToIsLive, VersionsAssumption
  <2> QED BY <2>1, <2>2, <1>1, <1>5, PointedToIsLive DEF Refs
<1>7. RefcountsExact' BY <1>1, <1>2, <1>6 DEF RefcountsExact, TypeOK
<1> QED BY <1>3, <1>7 DEF IInv

(* A version that dies goes on top of the stack of its thread.             *)
LEMMA DecrementLists ==
  ASSUME TypeOK, ListsInv, NEW t \in Threads, Decrement(t),
         status[drop[t]] = "live", rfcnt[drop[t]] # 0
  PROVE  TypeOK' /\ ListsInv'
<1> DEFINE v == drop[t]
           p == parent[v]
<1> USE DEF Decrement
<1>1. TypeOK /\ ListsInv OBVIOUS
<1>2. v \in Versions /\ status[v] = "live" /\ rfcnt[v] \in Nat \ {0}
  <2>1. v \in Versions BY <1>1 DEF TypeOK
  <2> QED BY <2>1, <1>1 DEF TypeOK
<1>3. CASE rfcnt[v] # 1
  <2>1. rfcnt[v] - 1 \in Nat BY <1>2
  <2> QED BY <1>1, <1>2, <1>3, <2>1 DEF TypeOK, ListsInv
<1>4. CASE rfcnt[v] = 1
  <2>1. /\ status' = [status EXCEPT ![v] = "dead"] /\ rfcnt' = [rfcnt EXCEPT ![v] = 0]
        /\ stack' = [stack EXCEPT ![t] = <<v>> \o stack[t]] /\ drop' = [drop EXCEPT ![t] = p]
        /\ UNCHANGED <<parent, ref, pool, look>>
    BY <1>1, <1>2, <1>4 DEF TypeOK
  <2>2. TypeOK'
    <3>1. <<v>> \o stack[t] \in Seq(Versions) BY <1>1, <1>2 DEF TypeOK
    <3> QED BY <1>1, <1>2, <2>1, <3>1 DEF TypeOK
  <2>3. ListsInv'
    <3>1. ASSUME NEW x \in Threads, NEW k \in DOMAIN stack'[x]
          PROVE  \/ x = t /\ k = 1 /\ stack'[x][k] = v
                 \/ LET n == IF x = t THEN k - 1 ELSE k
                    IN  n \in DOMAIN stack[x] /\ stack'[x][k] = stack[x][n] /\ k \in Nat
      <4>1. CASE x = t
        <5>1. stack'[x] = <<v>> \o stack[t] BY <4>1, <2>1, <1>1 DEF TypeOK
        <5>2. stack[t] \in Seq(Versions) BY <1>1 DEF TypeOK
        <5> QED BY <5>1, <5>2, <4>1, <1>2
      <4>2. CASE x # t
        <5>1. stack'[x] = stack[x] /\ stack[x] \in Seq(Versions)
          BY <4>2, <2>1, <1>1 DEF TypeOK
        <5> QED BY <5>1, <4>2
      <4> QED BY <4>1, <4>2
    <3>2. \A x \in Threads : \A n \in DOMAIN stack[x] :
            stack[x][n] \in Versions /\ stack[x][n] # v /\ status[stack[x][n]] = "dead"
      BY <1>1, <1>2 DEF ListsInv, TypeOK
    <3>3. \A x \in Threads : \A k \in DOMAIN stack'[x] : status'[stack'[x][k]] = "dead"
      BY <3>1, <3>2, <2>1, <1>1, <1>2 DEF TypeOK
    <3>unique. \A a, b \in Threads : \A i \in DOMAIN stack[a], l \in DOMAIN stack[b] :
            stack[a][i] = stack[b][l] => a = b /\ i = l
      BY <1>1 DEF ListsInv
    <3>4. ASSUME NEW x \in Threads, NEW y \in Threads,
                 NEW k \in DOMAIN stack'[x], NEW j \in DOMAIN stack'[y], stack'[x][k] = stack'[y][j]
          PROVE  x = y /\ k = j
      <4> DEFINE n == IF x = t THEN k - 1 ELSE k
                 m == IF y = t THEN j - 1 ELSE j
      <4> HIDE DEF Decrement
      <4>1. CASE x = t /\ k = 1 /\ stack'[x][k] = v
        <5>1. ~ (m \in DOMAIN stack[y] /\ stack'[y][j] = stack[y][m])
          BY <4>1, <3>2, <3>4
        <5>2. y = t /\ j = 1 BY <5>1, <3>1
        <5> QED BY <4>1, <5>2
      <4>2. CASE y = t /\ j = 1 /\ stack'[y][j] = v
        <5>1. ~ (n \in DOMAIN stack[x] /\ stack'[x][k] = stack[x][n])
          BY <4>2, <3>2, <3>4
        <5>2. x = t /\ k = 1 BY <5>1, <3>1
        <5> QED BY <4>2, <5>2
      <4>3. CASE /\ n \in DOMAIN stack[x] /\ stack'[x][k] = stack[x][n] /\ k \in Nat
                 /\ m \in DOMAIN stack[y] /\ stack'[y][j] = stack[y][m] /\ j \in Nat
        <5>1. stack[x][n] = stack[y][m] BY <4>3, <3>4
        <5>2. x = y /\ n = m
          <6> HIDE DEF n, m, v, p
          <6> QED BY <4>3, <5>1, <3>unique
        <5> QED BY <5>2, <4>3
      <4> QED BY <4>1, <4>2, <4>3, <3>1
    <3>5. \A x \in Threads : \A i \in DOMAIN pool[x] : pool[x][i] # v /\ status'[pool[x][i]] = "free"
      BY <1>1, <1>2, <2>1 DEF ListsInv, TypeOK
    <3> QED BY <3>3, <3>4, <3>5, <2>1, <1>1 DEF ListsInv
  <2> QED BY <2>2, <2>3
<1> QED BY <1>3, <1>4

(* refcnt_dec: either the thread's reference goes, or it was the last one, *)
(* the version dies and the thread takes over its reference to its parent. *)
LEMMA DecrementInv ==
  ASSUME IInv, NEW t \in Threads, Decrement(t)
  PROVE  IInv'
<1> DEFINE v == drop[t]
           p == parent[v]
<1> USE DEF Decrement
<1>1. TypeOK /\ ListsInv /\ RefcountsExact BY DEF IInv
<1>2. v \in Versions /\ status[v] = "live" /\ rfcnt[v] = Refs(v) /\ rfcnt[v] \in Nat \ {0}
  <2>1. v \in Versions BY <1>1 DEF TypeOK
  <2> QED BY <2>1, <1>1, PointedToIsLive DEF TypeOK, RefcountsExact
<1>3. CASE rfcnt[v] # 1
  <2>1. TypeOK' /\ ListsInv' BY <1>1, <1>2, DecrementLists
  <2>2. OnlyAt(drop, drop', t) /\ drop'[t] = Null /\ ref' = ref
    BY <1>1, <1>3 DEF OnlyAt, TypeOK
  <2>3. Claim' = Claim BY <1>3 DEF Claim
  <2>4. ASSUME NEW u \in Versions
        PROVE  Refs(u)' = Refs(u) - (IF u = v THEN 1 ELSE 0) /\ Refs(u) \in Nat
    <3> HIDE DEF Decrement
    <3>1. Count(drop, u)' = Count(drop, u) - (IF u = v THEN 1 ELSE 0)
      BY <1>1, <2>2, DropUpdate, PointedToIsLive, VersionsAssumption
    <3> QED BY <3>1, <1>1, <2>2, <2>3, PointedToIsLive DEF Refs
  <2>5. RefcountsExact' BY <1>1, <1>2, <1>3, <2>4 DEF RefcountsExact, TypeOK
  <2> QED BY <2>1, <2>5 DEF IInv
<1>4. CASE rfcnt[v] = 1
  <2>1. /\ status' = [status EXCEPT ![v] = "dead"] /\ rfcnt' = [rfcnt EXCEPT ![v] = 0]
        /\ stack' = [stack EXCEPT ![t] = <<v>> \o stack[t]] /\ drop' = [drop EXCEPT ![t] = p]
        /\ UNCHANGED <<parent, ref, pool, look>>
    BY <1>1, <1>2, <1>4 DEF TypeOK
  <2>2. TypeOK' /\ ListsInv' BY <1>1, <1>2, DecrementLists
  <2>4. OnlyAt(drop, drop', t) /\ drop'[t] = p /\ ref' = ref
    BY <1>1, <2>1 DEF OnlyAt, TypeOK
  <2>5. OnlyAt(Claim, Claim', v) /\ Claim[v] = p /\ Claim'[v] = Null
    BY <1>1, <1>2, <2>1 DEF OnlyAt, TypeOK, Claim
  <2>6. ASSUME NEW u \in Versions
        PROVE  Refs(u)' = Refs(u) - (IF u = v THEN 1 ELSE 0) /\ Refs(u) \in Nat
    <3> HIDE DEF Decrement
    <3>1. Count(drop, u)' = Count(drop, u) - (IF u = v THEN 1 ELSE 0) + (IF u = p THEN 1 ELSE 0)
      BY <1>1, <2>4, DropUpdate, PointedToIsLive
    <3>2. Count(Claim, u)' = Count(Claim, u) - (IF u = p THEN 1 ELSE 0)
      BY <1>2, <2>5, ClaimUpdate, PointedToIsLive, VersionsAssumption
    <3> QED BY <3>1, <3>2, <2>4, PointedToIsLive DEF Refs
  <2>7. RefcountsExact'
    BY <1>1, <1>2, <1>4, <2>1, <2>6 DEF RefcountsExact, TypeOK
  <2> QED BY <2>2, <2>7 DEF IInv
<1> QED BY <1>3, <1>4

(* A version that is freed moves from the stack of its thread to the pool. *)
LEMMA FreeLists ==
  ASSUME TypeOK, ListsInv, NEW t \in Threads, Free(t)
  PROVE  /\ TypeOK' /\ ListsInv'
         /\ \E v \in Versions : /\ status[v] = "dead" /\ status' = [status EXCEPT ![v] = "free"]
                                /\ \A u \in Versions \ {v} : parent'[u] = parent[u]
         /\ UNCHANGED <<rfcnt, ref, drop, look>>
<1> DEFINE v == Head(stack[t])
<1>1. TypeOK /\ ListsInv OBVIOUS
<1>2. /\ stack[t] \in Seq(Versions) /\ stack[t] # <<>> /\ pool[t] \in Seq(Versions)
      /\ status' = [status EXCEPT ![v] = "free"]
      /\ pool' = [pool EXCEPT ![t] = <<v>> \o pool[t]]
      /\ stack' = [stack EXCEPT ![t] = Tail(stack[t])]
      /\ parent' = [parent EXCEPT ![v] = IF pool[t] = <<>> THEN Null ELSE Head(pool[t])]
      /\ UNCHANGED <<rfcnt, ref, drop, look>>
  BY <1>1 DEF Free, TypeOK
<1>3. v \in Versions /\ status[v] = "dead" /\ v = stack[t][1] /\ 1 \in DOMAIN stack[t]
  BY <1>1, <1>2 DEF ListsInv
<1>4. /\ <<v>> \o pool[t] \in Seq(Versions) /\ Tail(stack[t]) \in Seq(Versions)
      /\ (IF pool[t] = <<>> THEN Null ELSE Head(pool[t])) \in Versions \union {Null}
  BY <1>2, <1>3
<1>5. TypeOK' BY <1>1, <1>2, <1>3, <1>4 DEF TypeOK
<1>6. ASSUME NEW x \in Threads, NEW k \in DOMAIN stack'[x]
      PROVE  LET n == IF x = t THEN k + 1 ELSE k
             IN  n \in DOMAIN stack[x] /\ stack'[x][k] = stack[x][n] /\ k \in Nat \ {0}
  <2>1. CASE x = t
    <3>1. stack'[x] = Tail(stack[t]) BY <2>1, <1>1, <1>2 DEF TypeOK
    <3> QED BY <3>1, <2>1, <1>2
  <2>2. CASE x # t
    <3>1. stack'[x] = stack[x] /\ stack[x] \in Seq(Versions) BY <2>2, <1>1, <1>2 DEF TypeOK
    <3> QED BY <3>1, <2>2
  <2> QED BY <2>1, <2>2
<1>7. ASSUME NEW x \in Threads, NEW k \in DOMAIN pool'[x]
      PROVE  \/ x = t /\ k = 1 /\ pool'[x][k] = v
             \/ LET n == IF x = t THEN k - 1 ELSE k
                IN  n \in DOMAIN pool[x] /\ pool'[x][k] = pool[x][n] /\ k \in Nat
  <2>1. CASE x = t
    <3>1. pool'[x] = <<v>> \o pool[t] BY <2>1, <1>1, <1>2 DEF TypeOK
    <3> QED BY <3>1, <2>1, <1>2, <1>3
  <2>2. CASE x # t
    <3>1. pool'[x] = pool[x] /\ pool[x] \in Seq(Versions) BY <2>2, <1>1, <1>2 DEF TypeOK
    <3> QED BY <3>1, <2>2
  <2> QED BY <2>1, <2>2
<1>8. \A x \in Threads : \A n \in DOMAIN pool[x] :
        pool[x][n] \in Versions /\ pool[x][n] # v /\ status[pool[x][n]] = "free"
  BY <1>1, <1>3 DEF ListsInv, TypeOK
<1>9. \A x \in Threads : \A k \in DOMAIN pool'[x] : status'[pool'[x][k]] = "free"
  <2> SUFFICES ASSUME NEW x \in Threads, NEW k \in DOMAIN pool'[x]
               PROVE  status'[pool'[x][k]] = "free"
    OBVIOUS
  <2>1. \/ pool'[x][k] = v
        \/ pool'[x][k] \in Versions /\ pool'[x][k] # v /\ status[pool'[x][k]] = "free"
    BY <1>7, <1>8
  <2>2. status \in [Versions -> {"raw", "live", "dead", "free"}] BY <1>1 DEF TypeOK
  <2> HIDE DEF v
  <2> QED BY <1>2, <1>3, <2>1, <2>2
<1>unique. /\ \A a, b \in Threads : \A i \in DOMAIN pool[a], l \in DOMAIN pool[b] :
            pool[a][i] = pool[b][l] => a = b /\ i = l
       /\ \A a, b \in Threads : \A i \in DOMAIN stack[a], l \in DOMAIN stack[b] :
            stack[a][i] = stack[b][l] => a = b /\ i = l
  BY <1>1 DEF ListsInv
<1>10. ASSUME NEW x \in Threads, NEW y \in Threads,
              NEW k \in DOMAIN pool'[x], NEW j \in DOMAIN pool'[y], pool'[x][k] = pool'[y][j]
       PROVE  x = y /\ k = j
  <2> DEFINE n == IF x = t THEN k - 1 ELSE k
             m == IF y = t THEN j - 1 ELSE j
  <2>1. CASE x = t /\ k = 1 /\ pool'[x][k] = v
    <3>1. ~ (m \in DOMAIN pool[y] /\ pool'[y][j] = pool[y][m]) BY <2>1, <1>8, <1>10
    <3>2. y = t /\ j = 1 BY <3>1, <1>7
    <3> QED BY <2>1, <3>2
  <2>2. CASE y = t /\ j = 1 /\ pool'[y][j] = v
    <3>1. ~ (n \in DOMAIN pool[x] /\ pool'[x][k] = pool[x][n]) BY <2>2, <1>8, <1>10
    <3>2. x = t /\ k = 1 BY <3>1, <1>7
    <3> QED BY <2>2, <3>2
  <2>3. CASE /\ n \in DOMAIN pool[x] /\ pool'[x][k] = pool[x][n] /\ k \in Nat
             /\ m \in DOMAIN pool[y] /\ pool'[y][j] = pool[y][m] /\ j \in Nat
    <3>1. pool[x][n] = pool[y][m] BY <2>3, <1>10
    <3>2. x = y /\ n = m
      <4> HIDE DEF n, m, v
      <4> QED BY <2>3, <3>1, <1>unique
    <3> QED BY <3>2, <2>3
  <2> QED BY <2>1, <2>2, <2>3, <1>7
<1>11. ASSUME NEW x \in Threads, NEW k \in DOMAIN stack'[x]
       PROVE  status'[stack'[x][k]] = "dead"
  <2> DEFINE n == IF x = t THEN k + 1 ELSE k
  <2>1. n \in DOMAIN stack[x] /\ stack'[x][k] = stack[x][n] /\ ~ (x = t /\ n = 1)
    BY <1>6
  <2>2. stack[x][n] # v /\ status[stack[x][n]] = "dead" /\ stack[x][n] \in Versions
    <3> HIDE DEF n
    <3> QED BY <2>1, <1>1, <1>3 DEF ListsInv, TypeOK
  <2> QED BY <2>1, <2>2, <1>1, <1>2 DEF TypeOK
<1>12. ASSUME NEW x \in Threads, NEW y \in Threads,
              NEW k \in DOMAIN stack'[x], NEW j \in DOMAIN stack'[y], stack'[x][k] = stack'[y][j]
       PROVE  x = y /\ k = j
  <2> DEFINE n == IF x = t THEN k + 1 ELSE k
             m == IF y = t THEN j + 1 ELSE j
  <2>1. /\ n \in DOMAIN stack[x] /\ stack'[x][k] = stack[x][n] /\ k \in Nat
        /\ m \in DOMAIN stack[y] /\ stack'[y][j] = stack[y][m] /\ j \in Nat
    BY <1>6
  <2>2. stack[x][n] = stack[y][m] BY <2>1, <1>12
  <2>3. x = y /\ n = m
    <3> HIDE DEF n, m, v
    <3> QED BY <2>1, <2>2, <1>unique
  <2> QED BY <2>1, <2>3
<1>13. ListsInv' BY <1>9, <1>10, <1>11, <1>12 DEF ListsInv
<1>14. \A u \in Versions \ {v} : parent'[u] = parent[u] BY <1>1, <1>2, <1>3 DEF TypeOK
<1> QED BY <1>2, <1>3, <1>5, <1>13, <1>14

(* ver_mm_free: the innermost dead version goes to the pool of the thread. *)
LEMMA FreeInv ==
  ASSUME IInv, NEW t \in Threads, Free(t)
  PROVE  IInv'
<1>1. TypeOK /\ ListsInv /\ RefcountsExact BY DEF IInv
<1>2. TypeOK' /\ ListsInv' /\ UNCHANGED <<rfcnt, ref, drop, look>> BY <1>1, FreeLists
<1>3. PICK v \in Versions : /\ status[v] = "dead" /\ status' = [status EXCEPT ![v] = "free"]
                            /\ \A u \in Versions \ {v} : parent'[u] = parent[u]
  BY <1>1, FreeLists
<1>4. Claim' = Claim BY <1>1, <1>2, <1>3 DEF Claim, TypeOK
<1>5. \A u \in Versions : Refs(u)' = Refs(u)
  BY <1>2, <1>4 DEF Refs, Count
<1>6. RefcountsExact' BY <1>1, <1>2, <1>3, <1>5 DEF RefcountsExact, TypeOK
<1> QED BY <1>2, <1>6 DEF IInv

(* The steps of ver_leq change nothing but the walk.                       *)
LEMMA LookLists ==
  ASSUME TypeOK, ListsInv, NEW t \in Threads,
         \/ \E h, h2 \in Handles : LeqStart(t, h, h2)
         \/ LeqStep(t) \/ LeqReturn(t)
  PROVE  /\ TypeOK' /\ ListsInv'
         /\ UNCHANGED <<parent, rfcnt, status, ref, drop, stack, pool>>
<1>1. TypeOK /\ ListsInv OBVIOUS
<1>2. UNCHANGED <<parent, rfcnt, status, ref, drop, stack, pool>>
  BY DEF LeqStart, LeqStep, LeqReturn
<1>3. look' \in [Threads -> [on : BOOLEAN, key : Versions \union {Null},
                             from : Versions \union {Null}, at : Versions \union {Null}]]
  <2>1. CASE \E h, h2 \in Handles : LeqStart(t, h, h2)
    BY <2>1, <1>1 DEF LeqStart, TypeOK
  <2>2. CASE LeqStep(t)
    <3>1. look[t].at \in Versions BY <2>2, <1>1 DEF LeqStep, TypeOK
    <3>2. parent[look[t].at] \in Versions \union {Null} BY <3>1, <1>1 DEF TypeOK
    <3> DEFINE p == parent[look[t].at]
               l == look[t]
               d == [l EXCEPT !.at = p]
    <3>3. look' = [look EXCEPT ![t].at = p] BY <2>2 DEF LeqStep
    <3> HIDE DEF p
    <3>4. look' = [look EXCEPT ![t] = d] BY <3>3
    <3>5. l \in [on : BOOLEAN, key : Versions \union {Null},
                 from : Versions \union {Null}, at : Versions \union {Null}]
      BY <1>1 DEF TypeOK
    <3>6. p \in Versions \union {Null} BY <3>2 DEF p
    <3> HIDE DEF l
    <3>7. d \in [on : BOOLEAN, key : Versions \union {Null},
                 from : Versions \union {Null}, at : Versions \union {Null}]
      BY <3>5, <3>6
    <3> HIDE DEF d
    <3> QED BY <3>4, <3>7, <1>1 DEF TypeOK
  <2>3. CASE LeqReturn(t)
    <3>1. look' = [look EXCEPT ![t] = NoLook] BY <2>3 DEF LeqReturn
    <3>2. NoLook \in [on : BOOLEAN, key : Versions \union {Null},
                      from : Versions \union {Null}, at : Versions \union {Null}]
      BY DEF NoLook
    <3> QED BY <3>1, <3>2, <1>1 DEF TypeOK
  <2> QED BY <2>1, <2>2, <2>3
<1>4. TypeOK' /\ ListsInv' BY <1>1, <1>2, <1>3 DEF TypeOK, ListsInv
<1> QED BY <1>2, <1>4

LEMMA LookInv ==
  ASSUME IInv, NEW t \in Threads,
         \/ \E h, h2 \in Handles : LeqStart(t, h, h2)
         \/ LeqStep(t) \/ LeqReturn(t)
  PROVE  IInv'
<1>1. TypeOK /\ ListsInv /\ RefcountsExact BY DEF IInv
<1>2. TypeOK' /\ ListsInv' /\ UNCHANGED <<parent, rfcnt, status, ref, drop, stack, pool>>
  BY <1>1, LookLists
<1>3. Claim' = Claim BY <1>2 DEF Claim
<1>4. \A u \in Versions : Refs(u)' = Refs(u) BY <1>2, <1>3 DEF Refs, Count
<1>5. RefcountsExact' BY <1>1, <1>2, <1>4 DEF RefcountsExact
<1> QED BY <1>2, <1>5 DEF IInv

LEMMA NextInv == IInv /\ [Next]_vars => IInv'
<1> SUFFICES ASSUME IInv, [Next]_vars PROVE IInv' OBVIOUS
<1>1. CASE UNCHANGED vars
  <2>1. TypeOK /\ ListsInv /\ RefcountsExact BY DEF IInv
  <2>2. TypeOK' /\ ListsInv' BY <2>1, <1>1 DEF vars, TypeOK, ListsInv
  <2>3. Claim' = Claim BY <1>1 DEF vars, Claim
  <2>4. \A u \in Versions : Refs(u)' = Refs(u) BY <1>1, <2>3 DEF vars, Refs, Count
  <2>5. RefcountsExact' BY <2>1, <1>1, <2>4 DEF vars, RefcountsExact
  <2> QED BY <2>2, <2>5 DEF IInv
<1>2. CASE Next
  <2> SUFFICES ASSUME NEW t \in Threads,
                      \/ \E h \in Handles, v \in Versions : Create(t, h, v)
                      \/ \E h, h2 \in Handles, v \in Versions : Branch(t, h, h2, v)
                      \/ \E h, h2 \in Handles : GetRef(t, h, h2) \/ Pin(t, h, h2) \/ LeqStart(t, h, h2)
                      \/ \E h \in Handles : PutRef(t, h)
                      \/ Decrement(t) \/ Free(t) \/ LeqStep(t) \/ LeqReturn(t)
               PROVE  IInv'
    BY <1>2 DEF Next
  <2> QED
    BY CreateInv, BranchInv, GetRefInv, PutRefInv, PinInv, DecrementInv, FreeInv, LookInv
<1> QED BY <1>1, <1>2

-----------------------------------------------------------------------------
(* Theorems *)

THEOREM Invariance == Spec => []IInv
BY InitInv, NextInv, PTL DEF Spec

(* The variables keep their types.                                         *)
THEOREM TypeCorrect == Spec => []TypeOK
<1>1. IInv => TypeOK BY DEF IInv
<1> QED BY <1>1, Invariance, PTL

(* In every behaviour, with any number of threads raising and lowering     *)
(* counts, the count of a version is the number of its references, and it  *)
(* is released when the last one goes and not before.                      *)
THEOREM CountsAreExact == Spec => []RefcountsExact
<1>1. IInv => RefcountsExact BY DEF IInv
<1> QED BY <1>1, Invariance, PTL

(* No thread holds a version that was released, and the parent of a live   *)
(* version is alive: walking up the tree from a version that is held never *)
(* leaves allocated memory.                                                *)
THEOREM HeldVersionsAreLive == Spec => []HeldIsLive
<1>1. IInv => HeldIsLive
  <2> SUFFICES ASSUME IInv PROVE HeldIsLive OBVIOUS
  <2>1. TypeOK BY DEF IInv
  <2>2. ASSUME NEW h \in Handles, ref[h] # Null PROVE status[ref[h]] = "live"
    <3>1. ref[h] \in Versions BY <2>1, <2>2 DEF TypeOK
    <3> QED BY <3>1, PointedToIsLive
  <2>3. ASSUME NEW v \in Versions, status[v] = "live", parent[v] # Null
        PROVE  status[parent[v]] = "live"
    <3>1. parent[v] \in Versions /\ Claim[v] = parent[v]
      BY <2>1, <2>3 DEF TypeOK, Claim
    <3> QED BY <3>1, PointedToIsLive
  <2> QED BY <2>2, <2>3 DEF HeldIsLive
<1> QED BY <1>1, Invariance, PTL

-----------------------------------------------------------------------------
(* The pools *)

(* What IInv does not say of the pools: they are linked through ->parent,  *)
(* and no free version is lost.                                            *)
PoolsInv ==
  /\ \A t \in Threads : \A i \in DOMAIN pool[t] :
       i + 1 \in DOMAIN pool[t] => parent[pool[t][i]] = pool[t][i + 1]
  /\ \A v \in Versions : status[v] = "free" =>
       \E t \in Threads : \E i \in DOMAIN pool[t] : pool[t][i] = v

PInv == IInv /\ PoolsInv

(* A step that leaves the pools, their links and the free versions alone.  *)
LEMMA PoolsSame ==
  ASSUME IInv, PoolsInv, pool' = pool,
         \A v \in Versions : status[v] = "free" => parent'[v] = parent[v],
         \A v \in Versions : status'[v] = "free" => status[v] = "free"
  PROVE  PoolsInv'
<1>1. TypeOK /\ ListsInv BY DEF IInv
<1>2. ASSUME NEW t \in Threads, NEW i \in DOMAIN pool[t]
      PROVE  parent'[pool[t][i]] = parent[pool[t][i]]
  <2>1. pool[t][i] \in Versions /\ status[pool[t][i]] = "free" BY <1>1 DEF TypeOK, ListsInv
  <2> QED BY <2>1
<1> QED BY <1>2 DEF PoolsInv

(* ver_mm_alloc takes the head, and with it the first link.                *)
LEMMA AllocPools ==
  ASSUME IInv, PoolsInv, NEW t \in Threads, NEW v \in Versions, AllocInit(t, v),
         \A u \in Versions : u # v => parent'[u] = parent[u]
  PROVE  PoolsInv'
<1>1. TypeOK /\ ListsInv BY DEF IInv
<1>2. status' = [status EXCEPT ![v] = "live"] BY DEF AllocInit
<1>3. CASE pool[t] = <<>>
  <2>1. pool' = pool /\ status[v] = "raw" BY <1>1, <1>3 DEF AllocInit, CanAlloc, TypeOK
  <2>2. \A u \in Versions : status[u] = "free" => parent'[u] = parent[u] BY <2>1
  <2>3. \A u \in Versions : status'[u] = "free" => status[u] = "free" BY <1>1, <1>2 DEF TypeOK
  <2> QED BY <2>1, <2>2, <2>3, PoolsSame
<1>4. CASE pool[t] # <<>>
  <2>1. /\ pool[t] \in Seq(Versions) /\ v = pool[t][1] /\ 1 \in DOMAIN pool[t]
        /\ pool' = [pool EXCEPT ![t] = Tail(pool[t])]
    BY <1>1, <1>4 DEF AllocInit, CanAlloc, TypeOK
  (* A slot of a pool after the step, and the one it was before.           *)
  <2>2. ASSUME NEW x \in Threads, NEW k \in DOMAIN pool'[x]
        PROVE  LET n == IF x = t THEN k + 1 ELSE k
               IN  n \in DOMAIN pool[x] /\ pool'[x][k] = pool[x][n] /\ k \in Nat \ {0}
    <3>1. CASE x = t
      <4>1. pool'[x] = Tail(pool[t]) BY <3>1, <2>1, <1>1 DEF TypeOK
      <4> QED BY <4>1, <3>1, <2>1, <1>4
    <3>2. CASE x # t
      <4>1. pool'[x] = pool[x] /\ pool[x] \in Seq(Versions) BY <3>2, <2>1, <1>1 DEF TypeOK
      <4> QED BY <4>1, <3>2
    <3> QED BY <3>1, <3>2
  <2>3. ASSUME NEW x \in Threads, NEW n \in DOMAIN pool[x], pool[x][n] # v
        PROVE  LET k == IF x = t THEN n - 1 ELSE n
               IN  k \in DOMAIN pool'[x] /\ pool'[x][k] = pool[x][n]
    <3>1. CASE x = t
      <4>1. pool'[x] = Tail(pool[t]) /\ n # 1 BY <3>1, <2>1, <2>3, <1>1 DEF TypeOK
      <4> QED BY <4>1, <3>1, <2>1, <1>4
    <3>2. CASE x # t
      <4>1. pool'[x] = pool[x] BY <3>2, <2>1, <1>1 DEF TypeOK
      <4> QED BY <4>1, <3>2
    <3> QED BY <3>1, <3>2
  <2>4. ASSUME NEW x \in Threads, NEW k \in DOMAIN pool'[x], k + 1 \in DOMAIN pool'[x]
        PROVE  parent'[pool'[x][k]] = pool'[x][k + 1]
    <3> DEFINE n == IF x = t THEN k + 1 ELSE k
    <3>1. n \in DOMAIN pool[x] /\ pool'[x][k] = pool[x][n] /\ k \in Nat \ {0} BY <2>2
    <3>2. n + 1 \in DOMAIN pool[x] /\ pool'[x][k + 1] = pool[x][n + 1]
      <4>1. LET m == IF x = t THEN (k + 1) + 1 ELSE k + 1
            IN  m \in DOMAIN pool[x] /\ pool'[x][k + 1] = pool[x][m]
        BY <2>2, <2>4
      <4> QED BY <4>1
    <3>3. ~ (x = t /\ n = 1) BY <3>1
    <3> HIDE DEF n
    <3>4. parent[pool[x][n]] = pool[x][n + 1] BY <3>1, <3>2 DEF PoolsInv
    <3>5. pool[x][n] \in Versions /\ pool[x][n] # v
      BY <3>1, <3>3, <2>1, <1>1 DEF ListsInv, TypeOK
    <3> QED BY <3>1, <3>2, <3>4, <3>5
  <2>5. ASSUME NEW u \in Versions, status'[u] = "free"
        PROVE  \E x \in Threads : \E k \in DOMAIN pool'[x] : pool'[x][k] = u
    <3>1. status[u] = "free" /\ u # v BY <2>5, <1>1, <1>2 DEF TypeOK
    <3>2. PICK x \in Threads : \E n \in DOMAIN pool[x] : pool[x][n] = u BY <3>1 DEF PoolsInv
    <3> QED BY <3>1, <3>2, <2>3
  <2> QED BY <2>4, <2>5 DEF PoolsInv
<1> QED BY <1>3, <1>4

(* ver_mm_free puts the version at the head and links it to the old one.   *)
LEMMA FreePools ==
  ASSUME IInv, PoolsInv, NEW t \in Threads, Free(t)
  PROVE  PoolsInv'
<1> DEFINE v == Head(stack[t])
<1>1. TypeOK /\ ListsInv BY DEF IInv
<1>2. /\ stack[t] \in Seq(Versions) /\ stack[t] # <<>> /\ pool[t] \in Seq(Versions)
      /\ status' = [status EXCEPT ![v] = "free"]
      /\ pool' = [pool EXCEPT ![t] = <<v>> \o pool[t]]
      /\ parent' = [parent EXCEPT ![v] = IF pool[t] = <<>> THEN Null ELSE Head(pool[t])]
  BY <1>1 DEF Free, TypeOK
<1>3. v \in Versions /\ status[v] = "dead"
  <2>1. v = stack[t][1] /\ 1 \in DOMAIN stack[t] BY <1>2
  <2> QED BY <2>1, <1>1 DEF ListsInv, TypeOK
<1>4. pool'[t] = <<v>> \o pool[t] /\ \A x \in Threads : x # t => pool'[x] = pool[x]
  BY <1>1, <1>2 DEF TypeOK
<1>5. \A x \in Threads : \A n \in DOMAIN pool[x] : pool[x][n] \in Versions /\ pool[x][n] # v
  BY <1>1, <1>3 DEF ListsInv, TypeOK
<1>6. ASSUME NEW x \in Threads, NEW k \in DOMAIN pool'[x], k + 1 \in DOMAIN pool'[x]
      PROVE  parent'[pool'[x][k]] = pool'[x][k + 1]
  <2> HIDE DEF v
  <2>1. CASE x # t
    <3>1. pool'[x] = pool[x] BY <2>1, <1>4
    <3>2. parent[pool[x][k]] = pool[x][k + 1] BY <3>1, <1>6 DEF PoolsInv
    <3> QED BY <3>1, <3>2, <1>1, <1>2, <1>5 DEF TypeOK
  <2>2. CASE x = t /\ k = 1
    <3>1. pool'[x] = <<v>> \o pool[t] BY <2>2, <1>4
    <3>2. pool'[x][k] = v /\ pool[t] # <<>> /\ pool'[x][k + 1] = pool[t][1]
      BY <3>1, <2>2, <1>2, <1>3, <1>6
    <3>3. parent'[v] = Head(pool[t]) BY <3>2, <1>1, <1>2, <1>3 DEF TypeOK
    <3>4. Head(pool[t]) = pool[t][1] BY <3>2, <1>2
    <3> QED BY <3>2, <3>3, <3>4
  <2>3. CASE x = t /\ k # 1
    <3>1. pool'[x] = <<v>> \o pool[t] BY <2>3, <1>4
    <3>2. /\ k - 1 \in DOMAIN pool[t] /\ k \in DOMAIN pool[t]
          /\ pool'[x][k] = pool[t][k - 1] /\ pool'[x][k + 1] = pool[t][k]
      BY <3>1, <2>3, <1>2, <1>3, <1>6
    <3>3. (k - 1) + 1 = k BY <3>1, <2>3, <1>2, <1>3, <1>6
    <3>4. parent[pool[t][k - 1]] = pool[t][k] BY <3>2, <3>3 DEF PoolsInv
    <3>5. pool[t][k - 1] \in Versions /\ pool[t][k - 1] # v BY <3>2, <1>5
    <3> QED BY <3>2, <3>4, <3>5, <1>1, <1>2 DEF TypeOK
  <2> QED BY <2>1, <2>2, <2>3
<1>7. ASSUME NEW u \in Versions, status'[u] = "free"
      PROVE  \E x \in Threads : \E k \in DOMAIN pool'[x] : pool'[x][k] = u
  <2> HIDE DEF v
  <2>1. CASE u = v
    <3>1. 1 \in DOMAIN pool'[t] /\ pool'[t][1] = v BY <1>2, <1>3, <1>4
    <3> QED BY <2>1, <3>1
  <2>2. CASE u # v
    <3>1. status[u] = "free" BY <2>2, <1>7, <1>1, <1>2 DEF TypeOK
    <3>2. PICK x \in Threads : \E n \in DOMAIN pool[x] : pool[x][n] = u BY <3>1 DEF PoolsInv
    <3>pick. PICK n \in DOMAIN pool[x] : pool[x][n] = u BY <3>2
    <3>3. CASE x = t
      <4>1. n + 1 \in DOMAIN pool'[t] /\ pool'[t][n + 1] = u BY <3>pick, <3>3, <1>2, <1>3, <1>4
      <4> QED BY <4>1
    <3>4. CASE x # t BY <3>pick, <3>4, <1>4
    <3> QED BY <3>3, <3>4
  <2> QED BY <2>1, <2>2
<1> QED BY <1>6, <1>7 DEF PoolsInv

LEMMA PNextInv == PInv /\ [Next]_vars => PInv'
<1> SUFFICES ASSUME PInv, [Next]_vars PROVE PInv' OBVIOUS
<1>1. IInv /\ PoolsInv /\ TypeOK /\ ListsInv /\ IInv' BY NextInv DEF PInv, IInv
<1>2. CASE UNCHANGED vars
  BY <1>1, <1>2, PoolsSame DEF vars, PInv
<1>3. CASE Next
  <2> SUFFICES ASSUME NEW t \in Threads,
                      \/ \E h \in Handles, v \in Versions : Create(t, h, v)
                      \/ \E h, h2 \in Handles, v \in Versions : Branch(t, h, h2, v)
                      \/ \E h, h2 \in Handles : GetRef(t, h, h2) \/ Pin(t, h, h2) \/ LeqStart(t, h, h2)
                      \/ \E h \in Handles : PutRef(t, h)
                      \/ Decrement(t) \/ Free(t) \/ LeqStep(t) \/ LeqReturn(t)
               PROVE  PoolsInv'
    BY <1>1, <1>3 DEF Next, PInv
  <2>1. CASE \E h \in Handles, v \in Versions : Create(t, h, v)
    <3>1. PICK h \in Handles, v \in Versions : Create(t, h, v) BY <2>1
    <3>2. \A u \in Versions : u # v => parent'[u] = parent[u] BY <3>1, <1>1 DEF Create, TypeOK
    <3> QED BY <3>1, <3>2, <1>1, AllocPools DEF Create
  <2>2. CASE \E h, h2 \in Handles, v \in Versions : Branch(t, h, h2, v)
    <3>1. PICK h \in Handles, h2 \in Handles, v \in Versions : Branch(t, h, h2, v) BY <2>2
    <3>2. \A u \in Versions : u # v => parent'[u] = parent[u] BY <3>1, <1>1 DEF Branch, TypeOK
    <3> QED BY <3>1, <3>2, <1>1, AllocPools DEF Branch
  <2>3. CASE Free(t) BY <2>3, <1>1, FreePools
  <2>4. CASE Decrement(t)
    <3>1. pool' = pool /\ parent' = parent BY <2>4 DEF Decrement
    <3>2. \A u \in Versions : status'[u] = "free" => status[u] = "free"
      BY <2>4, <1>1 DEF Decrement, TypeOK
    <3> QED BY <3>1, <3>2, <1>1, PoolsSame
  <2>5. CASE \/ \E h, h2 \in Handles : GetRef(t, h, h2) \/ Pin(t, h, h2) \/ LeqStart(t, h, h2)
             \/ \E h \in Handles : PutRef(t, h)
             \/ LeqStep(t) \/ LeqReturn(t)
    <3>1. pool' = pool /\ parent' = parent /\ status' = status
      BY <2>5 DEF GetRef, Pin, LeqStart, PutRef, LeqStep, LeqReturn
    <3> QED BY <3>1, <1>1, PoolsSame
  <2> QED BY <2>1, <2>2, <2>3, <2>4, <2>5
<1> QED BY <1>2, <1>3

(* A pool has no more slots than there are versions.                       *)
LEMMA PoolLength ==
  ASSUME IInv, NEW t \in Threads, NEW i \in DOMAIN pool[t]
  PROVE  i \in 1..Cardinality(Versions)
<1>1. TypeOK /\ ListsInv BY DEF IInv
<1>2. pool[t] \in Seq(Versions) /\ i \in Nat \ {0} /\ 1..i \subseteq DOMAIN pool[t] BY <1>1 DEF TypeOK
<1>3. IsFiniteSet(Versions) /\ Cardinality(Versions) \in Nat
  BY VersionsAssumption, FS_CardinalityType
<1>4. IsFiniteSet(1..i) /\ Cardinality(1..i) = i BY <1>2, FS_Interval
<1> DEFINE f == [k \in 1..i |-> pool[t][k]]
<1>5. f \in [1..i -> Versions] BY <1>2
<1>6. \A k, l \in 1..i : f[k] = f[l] => k = l BY <1>1, <1>2 DEF ListsInv
<1> HIDE DEF f
<1>7. ~ (Cardinality(Versions) < i)
  <2> SUFFICES ASSUME Cardinality(Versions) < i PROVE FALSE OBVIOUS
  <2> DEFINE S == 1..i
  <2>1. IsFiniteSet(S) /\ Cardinality(Versions) < Cardinality(S) /\ f \in [S -> Versions]
    BY <1>4, <1>5
  <2>2. \A k, l \in S : f[k] = f[l] => k = l BY <1>6
  <2> HIDE DEF S
  <2>3. \E k, l \in S : k # l /\ f[k] = f[l] BY <2>1, <1>3, FS_PigeonHole
  <2> QED BY <2>2, <2>3
<1> QED BY <1>2, <1>3, <1>7

THEOREM PoolsInvariance == Spec => []PInv
<1>1. Init => PInv
  <2>1. Init => PoolsInv BY DEF Init, PoolsInv
  <2> QED BY <2>1, InitInv DEF PInv
<1> QED BY <1>1, PNextInv, PTL DEF Spec

(* ver_mm_alloc can take the head of a pool for a version that nobody else *)
(* has, and ->parent of it for the rest of the pool, and no version that   *)
(* was freed is lost.                                                      *)
THEOREM PoolsAreSound == Spec => []PoolsAreChains
<1>1. PInv => PoolsAreChains
  <2> SUFFICES ASSUME PInv PROVE PoolsAreChains OBVIOUS
  <2>1. IInv /\ PoolsInv /\ TypeOK /\ ListsInv BY DEF PInv, IInv
  <2>2. ASSUME NEW t \in Threads, NEW i \in DOMAIN pool[t]
        PROVE  /\ status[pool[t][i]] = "free"
               /\ i < Len(pool[t]) => parent[pool[t][i]] = pool[t][i + 1]
    <3>1. pool[t] \in Seq(Versions) BY <2>1 DEF TypeOK
    <3>2. i < Len(pool[t]) => i + 1 \in DOMAIN pool[t] BY <3>1
    <3> QED BY <3>2, <2>1 DEF PoolsInv, ListsInv
  <2>3. ASSUME NEW v \in Versions, status[v] = "free"
        PROVE  Cardinality({slot \in Threads \X (1..Cardinality(Versions)) :
                              /\ slot[2] \in DOMAIN pool[slot[1]]
                              /\ pool[slot[1]][slot[2]] = v}) = 1
    <3>1. PICK t \in Threads : \E j \in DOMAIN pool[t] : pool[t][j] = v BY <2>1, <2>3 DEF PoolsInv
    <3>pick. PICK i \in DOMAIN pool[t] : pool[t][i] = v BY <3>1
    <3>2. i \in 1..Cardinality(Versions) BY <2>1, PoolLength
    <3>3. \A u \in Threads : \A j \in DOMAIN pool[u] : pool[u][j] = v => u = t /\ j = i
      BY <3>pick, <2>1 DEF ListsInv
    <3>4. {slot \in Threads \X (1..Cardinality(Versions)) :
             /\ slot[2] \in DOMAIN pool[slot[1]]
             /\ pool[slot[1]][slot[2]] = v} = {<<t, i>>}
      BY <3>pick, <3>2, <3>3
    <3> QED BY <3>4, FS_Singleton
  <2> QED BY <2>2, <2>3 DEF PoolsAreChains
<1> QED BY <1>1, PoolsInvariance, PTL

-----------------------------------------------------------------------------
(* Ancestors *)

(* Induction, for sets of naturals.                                        *)
LEMMA NatSets ==
  ASSUME NEW T, 0 \in T, \A k \in Nat : k \in T => k + 1 \in T
  PROVE  Nat \subseteq T
<1> DEFINE R == OpToRel(<, Nat)
           N == Nat \ T
<1> SUFFICES ASSUME N # {} PROVE FALSE OBVIOUS
<1>1. IsWellFoundedOn(R, Nat) BY NatLessThanWellFounded
<1>2. N \subseteq Nat OBVIOUS
<1> HIDE DEF R, N
<1>3. PICK m \in N : \A k \in N : ~ (<<k, m>> \in R) BY <1>1, <1>2, WFMin
<1> USE DEF N
<1>4. m \in Nat /\ m # 0 OBVIOUS
<1>5. m - 1 \in Nat /\ m - 1 < m BY <1>4
<1>6. <<m - 1, m>> \in R BY <1>4, <1>5 DEF R, OpToRel
<1>7. m - 1 \in T BY <1>3, <1>5, <1>6
<1>8. (m - 1) + 1 \in T BY <1>5, <1>7
<1> QED BY <1>4, <1>8

(* A is what v reaches through p: v, with the parents of its members, and  *)
(* nothing more.                                                           *)
UpClosed(p, T) == \A u \in T : p[u] # Null => p[u] \in T
IsAbove(p, v, A) ==
  /\ A \subseteq Versions /\ v \in A /\ UpClosed(p, A)
  /\ \A T \in SUBSET Versions : v \in T /\ UpClosed(p, T) => A \subseteq T

(* The function up of Ancestors. *)
IsUp(p, v, f) ==
  f = [k \in Nat |-> IF k = 0 THEN {v} ELSE f[k - 1] \union ({p[u] : u \in f[k - 1]} \ {Null})]

(* There is one: what the paths of up to k steps reach.                    *)
LEMMA UpExists ==
  ASSUME NEW p \in [Versions -> Versions \union {Null}], NEW v \in Versions
  PROVE  \E f : IsUp(p, v, f)
<1> DEFINE Path(q, j) == q[0] = v /\ \A i \in 1..j : q[i] = p[q[i - 1]]
           Reach(j) == {a \in Versions : \E q \in [0..j -> Versions] : Path(q, j) /\ q[j] = a}
           f == [k \in Nat |-> {a \in Versions : \E j \in 0..k : a \in Reach(j)}]
           Up(S) == {p[u] : u \in S} \ {Null}
<1>1. Reach(0) = {v}
  <2>1. v \in Reach(0)
    <3> DEFINE q == [i \in 0..0 |-> v]
    <3>1. q \in [0..0 -> Versions] /\ q[0] = v /\ \A i \in 1..0 : q[i] = p[q[i - 1]] OBVIOUS
    <3> QED BY <3>1
  <2> QED BY <2>1
<1>2. ASSUME NEW j \in Nat PROVE Reach(j + 1) = Up(Reach(j))
  <2>1. ASSUME NEW a \in Reach(j + 1) PROVE a \in Up(Reach(j))
    <3>1. PICK q \in [0..(j + 1) -> Versions] : Path(q, j + 1) /\ q[j + 1] = a OBVIOUS
    <3> DEFINE r == [i \in 0..j |-> q[i]]
    <3>2. r \in [0..j -> Versions] /\ r[j] = q[j] OBVIOUS
    <3>3. Path(r, j)
      <4>1. \A i \in 1..j : i \in 1..(j + 1) /\ i \in 0..j /\ i - 1 \in 0..j OBVIOUS
      <4>2. r[0] = v /\ \A i \in 0..j : r[i] = q[i] BY <3>1
      <4> HIDE DEF r
      <4> QED BY <3>1, <4>1, <4>2
    <3>4. q[j] \in Reach(j)
      <4>1. j + 0 \in 0..(j + 1) OBVIOUS
      <4>2. q[j] \in Versions BY <3>1, <4>1
      <4> HIDE DEF r, Path
      <4>3. \E s \in [0..j -> Versions] : Path(s, j) /\ s[j] = q[j] BY <3>2, <3>3
      <4> QED BY <4>2, <4>3
    <3>5. a = p[q[j]] /\ a # Null
      <4>1. j + 1 \in 1..(j + 1) /\ (j + 1) - 1 = j OBVIOUS
      <4> QED BY <3>1, <4>1, VersionsAssumption
    <3> HIDE DEF Reach
    <3> QED BY <3>4, <3>5
  <2>2. ASSUME NEW u \in Reach(j), p[u] # Null PROVE p[u] \in Reach(j + 1)
    <3>1. PICK q \in [0..j -> Versions] : Path(q, j) /\ q[j] = u OBVIOUS
    <3> DEFINE r == [i \in 0..(j + 1) |-> IF i = j + 1 THEN p[u] ELSE q[i]]
    <3>2. p[u] \in Versions BY <2>2
    <3>3. r \in [0..(j + 1) -> Versions] /\ r[j + 1] = p[u] /\ \A i \in 0..j : r[i] = q[i]
      BY <3>2
    <3> HIDE DEF r
    <3>4. Path(r, j + 1)
      <4>1. r[0] = v BY <3>1, <3>3
      <4>2. ASSUME NEW i \in 1..(j + 1) PROVE r[i] = p[r[i - 1]]
        <5>1. CASE i = j + 1
          <6>1. r[j] = u /\ i - 1 = j BY <5>1, <3>1, <3>3
          <6> QED BY <5>1, <6>1, <3>3
        <5>2. CASE i # j + 1
          <6>1. i \in 1..j /\ i \in 0..j /\ i - 1 \in 0..j BY <5>2
          <6> QED BY <6>1, <3>1, <3>3
        <5> QED BY <5>1, <5>2
      <4> QED BY <4>1, <4>2
    <3> HIDE DEF Path
    <3> QED BY <3>2, <3>3, <3>4
  <2> HIDE DEF Reach
  <2> QED BY <2>1, <2>2
<1> HIDE DEF Reach
<1>3. f[0] = {v}
  <2>1. f[0] = {a \in Versions : \E j \in 0..0 : a \in Reach(j)} OBVIOUS
  <2> QED BY <2>1, <1>1
<1>4. ASSUME NEW k \in Nat PROVE f[k + 1] = f[k] \union Up(f[k])
  <2>1. \A a : a \in f[k + 1] <=> a \in Versions /\ \E j \in 0..(k + 1) : a \in Reach(j) OBVIOUS
  <2>2. \A a : a \in f[k] <=> a \in Versions /\ \E j \in 0..k : a \in Reach(j) OBVIOUS
  <2> HIDE DEF f
  <2>3. f[k] \subseteq f[k + 1]
    <3>1. \A j \in 0..k : j \in 0..(k + 1) OBVIOUS
    <3> QED BY <2>1, <2>2, <3>1
  <2>4. ASSUME NEW u \in f[k], p[u] # Null PROVE p[u] \in f[k + 1]
    <3>1. u \in Versions /\ p[u] \in Versions BY <2>2, <2>4
    <3>2. PICK j \in 0..k : u \in Reach(j) BY <2>2
    <3>3. p[u] \in Reach(j + 1) BY <3>2, <2>4, <1>2
    <3>4. j + 1 \in 0..(k + 1) OBVIOUS
    <3> QED BY <3>1, <3>3, <3>4, <2>1
  <2>5. ASSUME NEW a \in f[k + 1], a \notin f[k] PROVE a \in Up(f[k])
    <3>1. PICK j \in 0..(k + 1) : a \in Reach(j) BY <2>1
    <3>2. j \notin 0..k BY <2>1, <2>2, <2>5, <3>1
    <3>3. j = k + 1 BY <3>2
    <3>4. a \in Up(Reach(k)) BY <3>1, <3>3, <1>2
    <3>5. \A u \in Reach(k) : u \in Versions BY DEF Reach
    <3>6. k \in 0..k OBVIOUS
    <3>7. Reach(k) \subseteq f[k] BY <3>5, <3>6, <2>2
    <3> QED BY <3>4, <3>7
  <2> QED BY <2>3, <2>4, <2>5
<1>5. IsUp(p, v, f)
  <2> DEFINE g == [k \in Nat |-> IF k = 0 THEN {v} ELSE f[k - 1] \union Up(f[k - 1])]
  <2>1. ASSUME NEW k \in Nat PROVE f[k] = g[k]
    <3>1. CASE k = 0 BY <3>1, <1>3
    <3>2. CASE k # 0
      <4>1. k - 1 \in Nat /\ (k - 1) + 1 = k BY <3>2
      <4>2. f[k] = f[k - 1] \union Up(f[k - 1]) BY <4>1, <1>4
      <4> QED BY <3>2, <4>2
    <3> QED BY <3>1, <3>2
  <2>2. DOMAIN f = Nat /\ f = [k \in Nat |-> f[k]] OBVIOUS
  <2> HIDE DEF f
  <2>3. f = g BY <2>1, <2>2
  <2> QED BY <2>3 DEF IsUp
<1> QED BY <1>5

(* After as many steps as there are versions, up has all ancestors.        *)
LEMMA UpIsAbove ==
  ASSUME NEW p \in [Versions -> Versions \union {Null}], NEW v \in Versions, NEW f, IsUp(p, v, f)
  PROVE  IsAbove(p, v, f[Cardinality(Versions)])
<1> DEFINE N == Cardinality(Versions)
<1>1. f[0] = {v} /\ \A k \in Nat : f[k + 1] = f[k] \union ({p[u] : u \in f[k]} \ {Null})
  BY DEF IsUp
<1>2. N \in Nat /\ IsFiniteSet(Versions) BY VersionsAssumption, FS_CardinalityType
<1>3. ASSUME NEW T \in SUBSET Versions, v \in T, UpClosed(p, T) PROVE \A k \in Nat : v \in f[k] /\ f[k] \subseteq T
  <2> DEFINE K == {k \in Nat : v \in f[k] /\ f[k] \subseteq T}
  <2>1. 0 \in K BY <1>1, <1>3
  <2>2. \A k \in Nat : k \in K => k + 1 \in K BY <1>1, <1>3 DEF UpClosed
  <2> HIDE DEF K
  <2>3. Nat \subseteq K BY <2>1, <2>2, NatSets
  <2> QED BY <2>3 DEF K
<1>4. \A k \in Nat : v \in f[k] /\ f[k] \subseteq Versions
  <2>1. UpClosed(p, Versions) BY DEF UpClosed
  <2> QED BY <2>1, <1>3
<1>5. \A k \in Nat : UpClosed(p, f[k]) \/ Cardinality(f[k]) > k
  <2> DEFINE K == {k \in Nat : UpClosed(p, f[k]) \/ Cardinality(f[k]) > k}
  <2>1. 0 \in K
    <3>1. Cardinality({v}) = 1 BY FS_Singleton
    <3>2. Cardinality(f[0]) > 0 BY <3>1, <1>1
    <3> QED BY <3>2
  <2>2. ASSUME NEW k \in Nat, k \in K PROVE k + 1 \in K
    <3>1. CASE UpClosed(p, f[k])
      <4>1. f[k + 1] = f[k] \union ({p[u] : u \in f[k]} \ {Null}) BY <1>1
      <4>2. ({p[u] : u \in f[k]} \ {Null}) \subseteq f[k] BY <3>1 DEF UpClosed
      <4>3. f[k + 1] = f[k] BY <4>1, <4>2
      <4>4. UpClosed(p, f[k + 1]) BY <3>1, <4>3
      <4> QED BY <4>4
    <3>2. CASE ~ UpClosed(p, f[k])
      <4>1. Cardinality(f[k]) > k BY <2>2, <3>2
      <4>2. f[k] \subseteq f[k + 1] /\ f[k] # f[k + 1] BY <3>2, <1>1 DEF UpClosed
      <4>3. IsFiniteSet(f[k + 1]) /\ IsFiniteSet(f[k]) BY <1>2, <1>4, FS_Subset
      <4>5. Cardinality(f[k]) \in Nat /\ Cardinality(f[k + 1]) \in Nat BY <4>3, FS_CardinalityType
      <4>6. /\ Cardinality(f[k]) <= Cardinality(f[k + 1])
            /\ Cardinality(f[k]) # Cardinality(f[k + 1])
        BY <4>2, <4>3, FS_Subset
      <4>4. Cardinality(f[k]) < Cardinality(f[k + 1]) BY <4>5, <4>6
      <4> QED BY <4>1, <4>4, <4>5
    <3> QED BY <3>1, <3>2
  <2> HIDE DEF K
  <2>3. Nat \subseteq K BY <2>1, <2>2, NatSets
  <2> QED BY <2>3 DEF K
<1>6. UpClosed(p, f[N])
  <2>1. Cardinality(f[N]) <= N BY <1>2, <1>4, FS_Subset
  <2>2. IsFiniteSet(f[N]) BY <1>2, <1>4, FS_Subset
  <2>3. Cardinality(f[N]) \in Nat BY <2>2, FS_CardinalityType
  <2>4. ~ (Cardinality(f[N]) > N) BY <1>2, <2>1, <2>3
  <2> QED BY <1>2, <1>5, <2>4
<1> HIDE DEF N
<1>7. v \in f[N] /\ f[N] \subseteq Versions BY <1>2, <1>4
<1>8. \A T \in SUBSET Versions : v \in T /\ UpClosed(p, T) => f[N] \subseteq T BY <1>2, <1>3
<1> QED BY <1>6, <1>7, <1>8 DEF IsAbove, N

(* Ancestors, with the pointers that it follows as a parameter. *)
AncOf(p, v) ==
  LET up[k \in Nat] == IF k = 0 THEN {v} ELSE up[k - 1] \union ({p[u] : u \in up[k - 1]} \ {Null})
  IN  up[Cardinality(Versions)]

LEMMA AncIsAbove ==
  ASSUME NEW p \in [Versions -> Versions \union {Null}], NEW v \in Versions
  PROVE  IsAbove(p, v, AncOf(p, v))
<1> DEFINE up == CHOOSE f : IsUp(p, v, f)
<1>1. IsUp(p, v, up) BY UpExists
<1>2. AncOf(p, v) = up[Cardinality(Versions)] BY DEF AncOf, IsUp
<1> HIDE DEF up
<1> QED BY <1>1, <1>2, UpIsAbove

(* The ancestors of a version are itself and those of its parent.          *)
LEMMA AncUnfold ==
  ASSUME NEW p \in [Versions -> Versions \union {Null}], NEW v \in Versions, NEW w \in Versions
  PROVE  w \in AncOf(p, v) <=> w = v \/ (p[v] # Null /\ w \in AncOf(p, p[v]))
<1> DEFINE A == AncOf(p, v)
           B == AncOf(p, p[v])
<1>1. IsAbove(p, v, A) BY AncIsAbove
<1>2. p[v] # Null => p[v] \in Versions /\ IsAbove(p, p[v], B) BY AncIsAbove
<1>3. CASE p[v] = Null
  <2>1. UpClosed(p, {v}) BY <1>3 DEF UpClosed
  <2>2. A = {v} BY <1>1, <2>1 DEF IsAbove
  <2> QED BY <1>3, <2>2
<1>4. CASE p[v] # Null
  <2> HIDE DEF A, B
  <2>1. UpClosed(p, {v} \union B) BY <1>2, <1>4 DEF IsAbove, UpClosed
  <2>2. A \subseteq {v} \union B BY <1>1, <1>2, <1>4, <2>1 DEF IsAbove
  <2>3. p[v] \in A BY <1>1, <1>4 DEF IsAbove, UpClosed
  <2>4. B \subseteq A BY <1>1, <1>2, <1>4, <2>3 DEF IsAbove
  <2>5. v \in A BY <1>1 DEF IsAbove
  <2> QED BY <2>2, <2>4, <2>5, <1>4 DEF A, B
<1> QED BY <1>3, <1>4

(* Pointers that agree within a set that goes up give the same ancestors.  *)
LEMMA AncSame ==
  ASSUME NEW p \in [Versions -> Versions \union {Null}], NEW q \in [Versions -> Versions \union {Null}],
         NEW T \in SUBSET Versions, UpClosed(p, T), \A u \in T : q[u] = p[u], NEW v \in T
  PROVE  AncOf(q, v) = AncOf(p, v) /\ AncOf(p, v) \subseteq T
<1> DEFINE A == AncOf(p, v)
           B == AncOf(q, v)
<1>1. IsAbove(p, v, A) /\ IsAbove(q, v, B) BY AncIsAbove
<1> HIDE DEF A, B
<1>2. UpClosed(q, T) BY DEF UpClosed
<1>3. A \subseteq T /\ B \subseteq T BY <1>1, <1>2 DEF IsAbove
<1>4. UpClosed(q, A) /\ UpClosed(p, B) BY <1>1, <1>3 DEF IsAbove, UpClosed
<1>5. A \subseteq B /\ B \subseteq A BY <1>1, <1>4 DEF IsAbove
<1> QED BY <1>3, <1>5 DEF A, B

-----------------------------------------------------------------------------
(* The inductive invariant *)

(* The tree has no cycle: ranks fall from each version to the version it   *)
(* holds a reference to.                                                   *)
Falling(rank) == \A v \in Versions : Claim[v] # Null => rank[Claim[v]] < rank[v]

NoCycle == \E rank \in [Versions -> Nat] : Falling(rank)

(* A thread in ver_leq holds both versions, is at an ancestor of the one   *)
(* it comes from, and has not passed the one it looks for.                 *)
Looking(t) ==
  /\ \E h \in Handles : Owner[h] = t /\ ref[h] = look[t].key
  /\ \E h \in Handles : Owner[h] = t /\ ref[h] = look[t].from
  /\ look[t].key # Null /\ look[t].from # Null
  /\ look[t].at # Null => look[t].at \in Ancestors(look[t].from)
  /\ Leq(look[t].key, look[t].from) <=> (look[t].at # Null /\ Leq(look[t].key, look[t].at))

WalksInv == \A t \in Threads : look[t].on => Looking(t)

OrderInv == IInv /\ NoCycle /\ WalksInv

LEMMA AncestorsOf ==
  /\ \A v \in Versions : Ancestors(v) = AncOf(parent, v)
  /\ (\A v \in Versions : Ancestors(v) = AncOf(parent, v))'
BY DEF Ancestors, AncOf

(* The live versions go up, so pointers of versions that are not live do   *)
(* not count.                                                              *)
LEMMA LiveAncestors ==
  ASSUME IInv, TypeOK', \A u \in Versions : status[u] = "live" => parent'[u] = parent[u],
         NEW v \in Versions, status[v] = "live"
  PROVE  /\ Ancestors(v)' = Ancestors(v)
         /\ \A u \in Ancestors(v) : u \in Versions /\ status[u] = "live"
<1> DEFINE T == {u \in Versions : status[u] = "live"}
           p == parent
           q == parent'
<1>1. TypeOK /\ p \in [Versions -> Versions \union {Null}] BY DEF IInv, TypeOK
<1>2. q \in [Versions -> Versions \union {Null}] BY DEF TypeOK
<1>3. ASSUME NEW u \in T, p[u] # Null PROVE p[u] \in T
  <2>1. p[u] \in Versions /\ Claim[u] = p[u] BY <1>1, <1>3 DEF Claim
  <2> QED BY <2>1, PointedToIsLive
<1>4. UpClosed(p, T) BY <1>3 DEF UpClosed
<1>5. \A u \in T : q[u] = p[u] OBVIOUS
<1>6. v \in T /\ T \in SUBSET Versions OBVIOUS
<1> HIDE DEF p, q, T
<1>7. AncOf(q, v) = AncOf(p, v) /\ AncOf(p, v) \subseteq T BY <1>1, <1>2, <1>4, <1>5, <1>6, AncSame
<1>8. Ancestors(v) = AncOf(p, v) /\ Ancestors(v)' = AncOf(q, v) BY AncestorsOf DEF p, q
<1> QED BY <1>7, <1>8 DEF T

(* A walk is not disturbed by what others do to handles of theirs and to   *)
(* versions that are not live.                                             *)
LEMMA WalksKept ==
  ASSUME IInv, WalksInv, TypeOK', \A u \in Versions : status[u] = "live" => parent'[u] = parent[u],
         NEW t \in Threads, look'[t].on => look[t].on,
         look[t].on => look'[t] = look[t] /\ \A h \in Handles : Owner[h] = t => ref'[h] = ref[h]
  PROVE  look'[t].on => Looking(t)'
<1> SUFFICES ASSUME look'[t].on PROVE Looking(t)' OBVIOUS
<1>1. /\ Looking(t) /\ look'[t] = look[t] /\ TypeOK
      /\ \A h \in Handles : Owner[h] = t => ref'[h] = ref[h]
  BY DEF WalksInv, IInv
<1>2. look[t].key \in Versions /\ look[t].from \in Versions /\ look[t].at \in Versions \union {Null}
  BY <1>1 DEF TypeOK, Looking
<1>3. status[look[t].key] = "live" /\ status[look[t].from] = "live"
  BY <1>1, <1>2, PointedToIsLive DEF Looking
<1>4. Ancestors(look[t].from)' = Ancestors(look[t].from)
  <2>1. \A v \in Versions : status[v] = "live" => Ancestors(v)' = Ancestors(v) BY LiveAncestors
  <2> QED BY <2>1, <1>1, <1>2, <1>3
<1>5. look[t].at # Null => Ancestors(look[t].at)' = Ancestors(look[t].at)
  <2>1. \A v \in Versions : status[v] = "live" =>
          Ancestors(v)' = Ancestors(v) /\ \A u \in Ancestors(v) : status[u] = "live"
    BY LiveAncestors
  <2> QED BY <2>1, <1>1, <1>2, <1>3 DEF Looking
<1> QED BY <1>1, <1>2, <1>4, <1>5 DEF Looking, Leq

(* Putting references leaves no cycle, nor does a new version that nothing *)
(* points to.                                                              *)
LEMMA NoCycleKept ==
  ASSUME TypeOK, NoCycle,
         \/ \A u \in Versions : Claim'[u] \in {Claim[u], Null}
         \/ \E v, w \in Versions : /\ v # w /\ Claim'[v] = w
                                   /\ \A u \in Versions : Claim[u] # v
                                   /\ \A u \in Versions \ {v} : Claim'[u] = Claim[u]
  PROVE  NoCycle'
<1>1. PICK rank \in [Versions -> Nat] : Falling(rank) BY DEF NoCycle
<1>2. \A u \in Versions : Claim[u] \in Versions \union {Null} BY DEF TypeOK, Claim
<1>3. CASE \A u \in Versions : Claim'[u] \in {Claim[u], Null}
  <2>1. Falling(rank)' BY <1>1, <1>3 DEF Falling
  <2> QED BY <2>1 DEF NoCycle
<1>4. ASSUME NEW v \in Versions, NEW w \in Versions, v # w, Claim'[v] = w,
             \A u \in Versions : Claim[u] # v, \A u \in Versions \ {v} : Claim'[u] = Claim[u]
      PROVE  NoCycle'
  <2> DEFINE r == [rank EXCEPT ![v] = rank[w] + 1]
  <2>1. r \in [Versions -> Nat] /\ r[v] = rank[w] + 1 /\ \A u \in Versions \ {v} : r[u] = rank[u]
    BY <1>1
  <2> HIDE DEF r
  <2>2. ASSUME NEW u \in Versions, Claim'[u] # Null PROVE r[Claim'[u]] < r[u]
    <3>1. CASE u = v
      <4>1. r[w] = rank[w] /\ rank[w] \in Nat BY <1>1, <1>4, <2>1
      <4> QED BY <3>1, <4>1, <2>1, <1>4
    <3>2. CASE u # v
      <4>1. Claim'[u] = Claim[u] /\ Claim[u] \in Versions \ {v} BY <3>2, <1>2, <1>4, <2>2
      <4> QED BY <4>1, <3>2, <2>1, <1>1, <2>2 DEF Falling
    <3> QED BY <3>1, <3>2
  <2>3. Falling(r)' BY <2>2 DEF Falling
  <2> QED BY <2>1, <2>3 DEF NoCycle
<1> QED BY <1>3, <1>4

-----------------------------------------------------------------------------
(* Every step preserves it *)

(* A step that leaves alone the handles of threads in ver_leq, what live   *)
(* versions point to, and the walks.                                       *)
LEMMA OrderKept ==
  ASSUME OrderInv, IInv', look' = look,
         \A u \in Versions : status[u] = "live" => parent'[u] = parent[u],
         \A h \in Handles : look[Owner[h]].on => ref'[h] = ref[h],
         \/ \A u \in Versions : Claim'[u] \in {Claim[u], Null}
         \/ \E v, w \in Versions : /\ v # w /\ Claim'[v] = w
                                   /\ \A u \in Versions : Claim[u] # v
                                   /\ \A u \in Versions \ {v} : Claim'[u] = Claim[u]
  PROVE  OrderInv'
<1>1. IInv /\ TypeOK /\ NoCycle /\ WalksInv /\ TypeOK' BY DEF OrderInv, IInv
<1>2. NoCycle' BY <1>1, NoCycleKept
<1>3. ASSUME NEW t \in Threads PROVE look'[t].on => Looking(t)'
  BY <1>1, WalksKept
<1>4. WalksInv' BY <1>3 DEF WalksInv
<1> QED BY <1>2, <1>4 DEF OrderInv

(* Nothing points to a version that is not live.                           *)
LEMMA AllocOrder ==
  ASSUME IInv, NEW t \in Threads, NEW v \in Versions, AllocInit(t, v), stack' = stack
  PROVE  status[v] # "live" /\ \A u \in Versions : Claim[u] # v
<1>1. TypeOK /\ ListsInv BY DEF IInv
<1>2. status[v] \in {"raw", "free"} BY <1>1, AllocLists
<1> QED BY <1>2, PointedToIsLive

(* ver_create: the new version has no parent. *)
LEMMA CreateOrder ==
  ASSUME OrderInv, NEW t \in Threads, NEW h \in Handles, NEW v \in Versions, Create(t, h, v)
  PROVE  OrderInv'
<1>1. IInv /\ TypeOK BY DEF OrderInv, IInv
<1>2. IInv' BY <1>1, CreateInv
<1>3. /\ parent' = [parent EXCEPT ![v] = Null] /\ ref' = [ref EXCEPT ![h] = v] /\ look' = look
      /\ status' = [status EXCEPT ![v] = "live"] /\ Owner[h] = t /\ ~ look[t].on
  BY DEF Create, AllocInit, Idle, Unused
<1>4. status[v] # "live" BY <1>1, AllocOrder DEF Create
<1>5. \A u \in Versions : status[u] = "live" => parent'[u] = parent[u]
  BY <1>1, <1>3, <1>4 DEF TypeOK
<1>6. \A g \in Handles : look[Owner[g]].on => ref'[g] = ref[g] BY <1>1, <1>3 DEF TypeOK
<1>7. \A u \in Versions : Claim'[u] \in {Claim[u], Null}
  BY <1>1, <1>3, <1>4 DEF TypeOK, Claim
<1> QED BY <1>2, <1>3, <1>5, <1>6, <1>7, OrderKept

(* ver_branch: the new version points to a live one. *)
LEMMA BranchOrder ==
  ASSUME OrderInv, NEW t \in Threads, NEW h \in Handles, NEW h2 \in Handles, NEW v \in Versions,
         Branch(t, h, h2, v)
  PROVE  OrderInv'
<1> DEFINE w == ref[h]
<1>1. IInv /\ TypeOK BY DEF OrderInv, IInv
<1>2. IInv' BY <1>1, BranchInv
<1>3. /\ parent' = [parent EXCEPT ![v] = w] /\ ref' = [ref EXCEPT ![h2] = v] /\ look' = look
      /\ status' = [status EXCEPT ![v] = "live"] /\ Owner[h2] = t /\ ~ look[t].on /\ w # Null
  BY DEF Branch, AllocInit, Idle, Unused, Holds
<1>4. status[v] # "live" /\ \A u \in Versions : Claim[u] # v BY <1>1, AllocOrder DEF Branch
<1>5. w \in Versions BY <1>1, <1>3 DEF TypeOK
<1>6. w # v BY <1>1, <1>4, <1>5, PointedToIsLive
<1>7. \A u \in Versions : status[u] = "live" => parent'[u] = parent[u]
  BY <1>1, <1>3, <1>4 DEF TypeOK
<1>8. \A g \in Handles : look[Owner[g]].on => ref'[g] = ref[g] BY <1>1, <1>3 DEF TypeOK
<1>9. Claim'[v] = w /\ \A u \in Versions \ {v} : Claim'[u] = Claim[u]
  BY <1>1, <1>3, <1>5 DEF TypeOK, Claim
<1> HIDE DEF w
<1> QED BY <1>2, <1>3, <1>4, <1>5, <1>6, <1>7, <1>8, <1>9, OrderKept

(* The operations on handles *)
LEMMA HandlesOrder ==
  ASSUME OrderInv, NEW t \in Threads,
         \/ \E h, h2 \in Handles : GetRef(t, h, h2) \/ Pin(t, h, h2)
         \/ \E h \in Handles : PutRef(t, h)
  PROVE  OrderInv'
<1>1. IInv /\ TypeOK BY DEF OrderInv, IInv
<1>2. IInv' BY <1>1, GetRefInv, PinInv, PutRefInv
<1>3. parent' = parent /\ status' = status /\ look' = look /\ ~ look[t].on
  BY DEF GetRef, Pin, PutRef, Idle
<1>4. \A g \in Handles : Owner[g] # t => ref'[g] = ref[g]
  BY <1>1 DEF GetRef, Pin, PutRef, Holds, Unused, TypeOK
<1>5. \A u \in Versions : Claim'[u] = Claim[u] BY <1>3 DEF Claim
<1> QED BY <1>2, <1>3, <1>4, <1>5, OrderKept

(* refcnt_dec and ver_mm_free: a reference to a parent goes, and what a    *)
(* free version points to is not one.                                      *)
LEMMA ReleaseOrder ==
  ASSUME OrderInv, NEW t \in Threads, Decrement(t) \/ Free(t)
  PROVE  OrderInv'
<1>1. IInv /\ TypeOK /\ ListsInv BY DEF OrderInv, IInv
<1>2. IInv' BY <1>1, DecrementInv, FreeInv
<1>3. CASE Decrement(t)
  <2>1. parent' = parent /\ ref' = ref /\ look' = look BY <1>3 DEF Decrement
  <2>2. status' = status \/ status' = [status EXCEPT ![drop[t]] = "dead"]
    BY <1>3 DEF Decrement
  <2>3. \A u \in Versions : Claim'[u] \in {Claim[u], Null} BY <1>1, <2>1, <2>2 DEF Claim, TypeOK
  <2> QED BY <1>2, <2>1, <2>3, OrderKept
<1>4. CASE Free(t)
  <2>1. ref' = ref /\ look' = look BY <1>4 DEF Free
  <2>2. PICK v \in Versions : /\ status[v] = "dead" /\ status' = [status EXCEPT ![v] = "free"]
                              /\ \A u \in Versions \ {v} : parent'[u] = parent[u]
    BY <1>1, <1>4, FreeLists
  <2>3. \A u \in Versions : status[u] = "live" => parent'[u] = parent[u] BY <2>2
  <2>4. \A u \in Versions : Claim'[u] \in {Claim[u], Null} BY <1>1, <2>2 DEF Claim, TypeOK
  <2> QED BY <1>2, <2>1, <2>3, <2>4, OrderKept
<1> QED BY <1>3, <1>4

(* ver_leq: at each version, what is sought is that version, an ancestor   *)
(* of its parent, or not there.                                            *)
LEMMA LeqOrder ==
  ASSUME OrderInv, NEW t \in Threads,
         \/ \E h, h2 \in Handles : LeqStart(t, h, h2)
         \/ LeqStep(t) \/ LeqReturn(t)
  PROVE  OrderInv'
<1>1. IInv /\ TypeOK /\ ListsInv /\ NoCycle /\ WalksInv BY DEF OrderInv, IInv
<1>2. IInv' /\ TypeOK' BY <1>1, LookInv DEF IInv
<1>3. UNCHANGED <<parent, rfcnt, status, ref, drop, stack, pool>> BY <1>1, LookLists
<1>4. NoCycle'
  <2>1. \A u \in Versions : Claim'[u] = Claim[u] BY <1>3 DEF Claim
  <2> QED BY <2>1, <1>1, NoCycleKept
<1>5. parent \in [Versions -> Versions \union {Null}] BY <1>1 DEF TypeOK
<1>6. \A v \in Versions : IsAbove(parent, v, Ancestors(v)) BY <1>5, AncIsAbove, AncestorsOf
<1>7. \A v \in Versions : Ancestors(v)' = Ancestors(v)
  BY <1>3 DEF Ancestors
<1>8. ASSUME NEW x \in Threads, look'[x].on PROVE Looking(x)'
  <2>1. CASE look'[x] = look[x]
    <3>1. \A u \in Versions : status[u] = "live" => parent'[u] = parent[u] BY <1>3
    <3> QED BY <2>1, <1>1, <1>2, <1>3, <1>8, <3>1, WalksKept
  <2>2. ASSUME NEW h \in Handles, NEW h2 \in Handles, LeqStart(t, h, h2), x = t
        PROVE  Looking(x)'
    <3>1. look'[x] = [on |-> TRUE, key |-> ref[h], from |-> ref[h2], at |-> ref[h2]]
      BY <2>2, <1>1 DEF LeqStart, TypeOK
    <3>2. Owner[h] = x /\ Owner[h2] = x /\ ref[h] # Null /\ ref[h2] # Null
      BY <2>2 DEF LeqStart, Holds
    <3>3. ref[h2] \in Versions BY <3>2, <1>1 DEF TypeOK
    <3>4. ref[h2] \in Ancestors(ref[h2]) BY <3>3, <1>6 DEF IsAbove
    <3> QED BY <3>1, <3>2, <3>3, <3>4, <1>3, <1>7 DEF Looking, Leq
  <2>3. CASE LeqStep(t) /\ x = t
    <3> DEFINE L == look[x]
               p == parent[L.at]
    <3>1. L.on /\ L.at # L.key /\ L.at # Null BY <2>3 DEF LeqStep
    <3>2. look'[x] = [L EXCEPT !.at = p] BY <2>3, <1>1 DEF LeqStep, TypeOK
    <3>3. Looking(x) BY <3>1, <1>1 DEF WalksInv
    <3>4. L \in [on : BOOLEAN, key : Versions \union {Null}, from : Versions \union {Null},
                 at : Versions \union {Null}]
      BY <1>1 DEF TypeOK
    <3>5. L.at \in Versions /\ L.key \in Versions /\ L.from \in Versions
      BY <3>1, <3>3, <3>4 DEF Looking
    <3>6. p # Null => p \in Versions /\ p \in Ancestors(L.from)
      <4>1. p # Null => p \in Versions BY <3>5, <1>5
      <4>2. L.at \in Ancestors(L.from) BY <3>1, <3>3 DEF Looking
      <4> QED BY <4>1, <4>2, <3>5, <1>6 DEF IsAbove, UpClosed
    <3>7. L.key \in Ancestors(L.at) <=> L.key = L.at \/ (p # Null /\ L.key \in Ancestors(p))
      <4>1. L.key \in AncOf(parent, L.at) <=> L.key = L.at \/ (p # Null /\ L.key \in AncOf(parent, p))
        BY <3>5, <1>5, AncUnfold
      <4> QED BY <4>1, <3>5, <3>6, AncestorsOf
    <3>8. look'[x].key = L.key /\ look'[x].from = L.from /\ look'[x].at = p
      BY <3>2, <3>4
    <3>9. Leq(L.key, L.from) <=> (p # Null /\ Leq(L.key, p))
      BY <3>1, <3>3, <3>7 DEF Looking, Leq
    <3>10. \A k, v \in Versions : Leq(k, v)' <=> Leq(k, v) BY <1>7 DEF Leq
    <3>11. PICK k \in Versions, from \in Versions : k = L.key /\ from = L.from BY <3>5
    <3>12. PICK a \in Versions \union {Null} : a = p BY <3>6
    <3>13. look'[x].key = k /\ look'[x].from = from /\ look'[x].at = a BY <3>8, <3>11, <3>12
    <3>14. Leq(k, from)' <=> (a # Null /\ Leq(k, a)')
      BY <3>9, <3>10, <3>11, <3>12
    <3>15. a # Null => a \in Ancestors(from)' BY <3>6, <3>11, <3>12, <1>7
    <3>16. /\ \E h \in Handles : Owner[h] = x /\ ref'[h] = k
           /\ \E h \in Handles : Owner[h] = x /\ ref'[h] = from
           /\ k # Null /\ from # Null
      BY <3>3, <3>11, <1>3 DEF Looking
    <3> HIDE DEF p, L
    <3> QED BY <3>13, <3>14, <3>15, <3>16 DEF Looking
  <2>4. CASE LeqReturn(t) /\ x = t
    <3>1. ~ look'[x].on BY <2>4, <1>1 DEF LeqReturn, NoLook, TypeOK
    <3> QED BY <3>1, <1>8
  <2>5. x # t => look'[x] = look[x]
    BY <1>1 DEF LeqStart, LeqStep, LeqReturn, TypeOK
  <2> QED BY <2>1, <2>2, <2>3, <2>4, <2>5
<1>9. WalksInv' BY <1>8 DEF WalksInv
<1> QED BY <1>2, <1>4, <1>9 DEF OrderInv

LEMMA OrderInit == Init => OrderInv
<1> SUFFICES ASSUME Init PROVE OrderInv OBVIOUS
<1>1. IInv BY InitInv
<1>2. \A v \in Versions : Claim[v] = Null BY DEF Init, Claim
<1>3. NoCycle
  <2> DEFINE rank == [v \in Versions |-> 0]
  <2>1. rank \in [Versions -> Nat] OBVIOUS
  <2>2. Falling(rank) BY <1>2 DEF Falling
  <2> QED BY <2>1, <2>2 DEF NoCycle
<1>4. WalksInv BY DEF Init, WalksInv, NoLook
<1> QED BY <1>1, <1>3, <1>4 DEF OrderInv

LEMMA OrderNext == OrderInv /\ [Next]_vars => OrderInv'
<1> SUFFICES ASSUME OrderInv, [Next]_vars PROVE OrderInv' OBVIOUS
<1>1. CASE UNCHANGED vars
  <2>1. IInv' BY <1>1, NextInv DEF OrderInv
  <2>2. \A u \in Versions : Claim'[u] = Claim[u] BY <1>1 DEF vars, Claim
  <2>3. look' = look /\ parent' = parent /\ ref' = ref BY <1>1 DEF vars
  <2> QED BY <2>1, <2>2, <2>3, OrderKept
<1>2. CASE Next
  <2> SUFFICES ASSUME NEW t \in Threads,
                      \/ \E h \in Handles, v \in Versions : Create(t, h, v)
                      \/ \E h, h2 \in Handles, v \in Versions : Branch(t, h, h2, v)
                      \/ \E h, h2 \in Handles : GetRef(t, h, h2) \/ Pin(t, h, h2) \/ LeqStart(t, h, h2)
                      \/ \E h \in Handles : PutRef(t, h)
                      \/ Decrement(t) \/ Free(t) \/ LeqStep(t) \/ LeqReturn(t)
               PROVE  OrderInv'
    BY <1>2 DEF Next
  <2> QED BY CreateOrder, BranchOrder, HandlesOrder, ReleaseOrder, LeqOrder
<1> QED BY <1>1, <1>2

-----------------------------------------------------------------------------
(* Nothing leaks *)

(* Among versions with ranks some has the highest.                         *)
LEMMA Highest ==
  ASSUME NEW T \in SUBSET Versions, T # {}, NEW rank \in [Versions -> Nat]
  PROVE  \E u \in T : \A x \in T : ~ (rank[u] < rank[x])
<1> DEFINE Above(u) == {x \in T : rank[u] < rank[x]}
<1>1. ASSUME NEW u \in T PROVE IsFiniteSet(Above(u)) /\ Cardinality(Above(u)) \in Nat
  BY VersionsAssumption, FS_Subset, FS_CardinalityType
<1>2. ASSUME NEW u \in T, NEW x \in Above(u) PROVE Cardinality(Above(x)) < Cardinality(Above(u))
  <2>1. x \in T /\ rank[u] < rank[x] /\ rank[u] \in Nat /\ rank[x] \in Nat OBVIOUS
  <2>2. x \notin Above(x) BY <2>1
  <2>3. ASSUME NEW y \in Above(x) PROVE y \in Above(u)
    <3>1. y \in T /\ rank[x] < rank[y] /\ rank[y] \in Nat OBVIOUS
    <3> QED BY <2>1, <3>1
  <2>4. Above(x) \subseteq Above(u) /\ Above(x) # Above(u) BY <2>2, <2>3
  <2>5. /\ IsFiniteSet(Above(x)) /\ Cardinality(Above(x)) \in Nat
        /\ IsFiniteSet(Above(u)) /\ Cardinality(Above(u)) \in Nat
    BY <1>1, <2>1
  <2> HIDE DEF Above
  <2>6. /\ Cardinality(Above(x)) <= Cardinality(Above(u))
        /\ Cardinality(Above(x)) # Cardinality(Above(u))
    BY <2>4, <2>5, FS_Subset
  <2> QED BY <2>5, <2>6
<1> SUFFICES ASSUME \A u \in T : \E x \in T : x \in Above(u) PROVE FALSE OBVIOUS
<1>3. \A u \in T : \E x \in T : Cardinality(Above(x)) < Cardinality(Above(u)) BY <1>2
<1> HIDE DEF Above
(* No k, nor any number below it, is a count of versions above one of T.   *)
<1> DEFINE M == {k \in Nat : \A u \in T : ~ (Cardinality(Above(u)) <= k)}
<1>4. 0 \in M
  <2> SUFFICES ASSUME NEW u \in T, Cardinality(Above(u)) <= 0 PROVE FALSE OBVIOUS
  <2>1. PICK x \in T : Cardinality(Above(x)) < Cardinality(Above(u)) BY <1>3
  <2>2. Cardinality(Above(x)) \in Nat /\ Cardinality(Above(u)) \in Nat BY <1>1
  <2> QED BY <2>1, <2>2
<1>5. ASSUME NEW k \in Nat, k \in M PROVE k + 1 \in M
  <2> SUFFICES ASSUME NEW u \in T, Cardinality(Above(u)) <= k + 1 PROVE FALSE OBVIOUS
  <2>1. PICK x \in T : Cardinality(Above(x)) < Cardinality(Above(u)) BY <1>3
  <2>2. Cardinality(Above(x)) \in Nat /\ Cardinality(Above(u)) \in Nat BY <1>1
  <2>3. Cardinality(Above(x)) <= k BY <2>1, <2>2
  <2> QED BY <2>3, <1>5
<1> HIDE DEF M
<1>6. Nat \subseteq M BY <1>4, <1>5, NatSets
<1>7. PICK u \in T : TRUE OBVIOUS
<1>8. Cardinality(Above(u)) \in M BY <1>1, <1>6
<1> QED BY <1>1, <1>8 DEF M

(* When the counts are exact and no release is in progress, of a version   *)
(* that is alive the descendant of the highest rank has no child, so what  *)
(* keeps it is a handle.                                                   *)
LEMMA LiveIsHeld ==
  ASSUME IInv, NoCycle
  PROVE  NothingLeaks
<1> SUFFICES ASSUME \A t \in Threads : drop[t] = Null /\ stack[t] = <<>>,
                    NEW v \in Versions, status[v] = "live"
             PROVE  \E h \in Handles : ref[h] # Null /\ Leq(v, ref[h])
  BY DEF NothingLeaks
<1>1. TypeOK /\ RefcountsExact /\ parent \in [Versions -> Versions \union {Null}] BY DEF IInv, TypeOK
<1>2. PICK rank \in [Versions -> Nat] : Falling(rank) BY DEF NoCycle
<1> DEFINE T == {u \in Versions : status[u] = "live" /\ v \in AncOf(parent, u)}
<1>3. v \in T BY <1>1, AncIsAbove DEF IsAbove
<1>4. PICK u \in T : \A x \in T : ~ (rank[u] < rank[x]) BY <1>2, <1>3, Highest
<1>5. \A c \in Versions : Claim[c] # u
  <2> SUFFICES ASSUME NEW c \in Versions, Claim[c] = u PROVE FALSE OBVIOUS
  <2>1. status[c] = "live" /\ parent[c] = u /\ u \in Versions /\ u # Null
    BY VersionsAssumption DEF Claim
  <2>2. v \in AncOf(parent, c) BY <2>1, <1>1, AncUnfold
  <2>3. c \in T BY <2>1, <2>2
  <2>4. rank[u] < rank[c] BY <2>1, <1>2 DEF Falling
  <2> QED BY <2>3, <2>4, <1>4
<1>6. Count(Claim, u) = 0
  <2>1. {c \in DOMAIN Claim : Claim[c] = u} = {} BY <1>5 DEF Claim
  <2> QED BY <2>1, FS_EmptySet DEF Count
<1>7. Count(drop, u) = 0
  <2>1. {t \in DOMAIN drop : drop[t] = u} = {} BY <1>1, VersionsAssumption DEF TypeOK
  <2> QED BY <2>1, FS_EmptySet DEF Count
<1>8. Count(ref, u) > 0
  <2>1. rfcnt[u] = Refs(u) /\ rfcnt[u] > 0 BY <1>1 DEF RefcountsExact
  <2>2. Count(ref, u) \in Nat BY PointedToIsLive
  <2> QED BY <2>1, <2>2, <1>6, <1>7 DEF Refs
<1>9. PICK h \in Handles : ref[h] = u
  <2> DEFINE H == {h \in DOMAIN ref : ref[h] = u}
  <2>2. Cardinality(H) > 0 BY <1>8 DEF Count
  <2>3. H = {} => Cardinality(H) = 0 BY FS_EmptySet
  <2> HIDE DEF H
  <2>4. H # {} BY <2>2, <2>3
  <2> USE DEF H
  <2>1. \E h \in DOMAIN ref : ref[h] = u BY <2>4
  <2> QED BY <2>1, <1>1 DEF TypeOK
<1>10. ref[h] # Null /\ Leq(v, ref[h])
  BY <1>9, AncestorsOf, VersionsAssumption DEF Leq
<1> QED BY <1>10

-----------------------------------------------------------------------------
(* Theorems *)

THEOREM OrderInvariance == Spec => []OrderInv
BY OrderInit, OrderNext, PTL DEF Spec

(* ver_leq says of two versions whether one is an ancestor of the other,   *)
(* though it follows ->parent without a lock while any number of threads   *)
(* branch, release and reuse versions.                                     *)
THEOREM LeqIsRight == Spec => []LeqAnswersRight
<1>1. OrderInv => LeqAnswersRight
  <2> SUFFICES ASSUME OrderInv, NEW t \in Threads, look[t].on, look[t].at \in {look[t].key, Null}
               PROVE  look[t].at = look[t].key <=> Leq(look[t].key, look[t].from)
    BY DEF LeqAnswersRight
  <2>1. TypeOK /\ Looking(t) BY DEF OrderInv, IInv, WalksInv
  <2>2. look[t].key \in Versions /\ look[t].key # Null BY <2>1 DEF TypeOK, Looking
  <2>3. Leq(look[t].key, look[t].key)
    <3>1. parent \in [Versions -> Versions \union {Null}] BY <2>1 DEF TypeOK
    <3> QED BY <3>1, <2>2, AncIsAbove, AncestorsOf DEF IsAbove, Leq
  <2> QED BY <2>1, <2>2, <2>3 DEF Looking
<1> QED BY <1>1, OrderInvariance, PTL

(* Whenever no release is in progress, each version that is alive is an    *)
(* ancestor of one that the program holds: no chain is forgotten, and the  *)
(* parent pointers of live versions form no cycle that keeps itself alive. *)
THEOREM NothingIsLeaked == Spec => []NothingLeaks
<1>1. OrderInv => NothingLeaks BY LiveIsHeld DEF OrderInv
<1> QED BY <1>1, OrderInvariance, PTL
=============================================================================
