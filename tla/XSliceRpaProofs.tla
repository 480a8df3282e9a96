--------------------------- MODULE XSliceRpaProofs ---------------------------
(***************************************************************************)
(* Proofs about XSliceRpa, for ropes of any size and slices of any length: *)
(* the node a slice remembers is the one a search from the root finds, and *)
(* the chunks it gives are the elements that come next.                    *)
(***************************************************************************)
EXTENDS XSliceRpa, RopeProofs
-----------------------------------------------------------------------------
(* Where the trees of a rope are                                           *)

(* A rope of g: its root x, its leaves s, and how many elements are in the *)
(* first ones.                                                             *)
Rooted(g, S, x, s, w) == Sound(g, S) /\ x \in S /\ s = LeavesUnder(g, x) /\ w = Weight(g, s)

LEMMA RootedFacts ==
  ASSUME NEW g, NEW S, NEW x, NEW s, NEW w, Rooted(g, S, x, s, w)
  PROVE  /\ g \in Heaps /\ Trees(g, S) /\ Sizes(g) /\ x \in g.live /\ x \in S
         /\ s = LeavesUnder(g, x) /\ s \in Seq(Leaves) /\ Len(s) \in Nat \ {0} /\ Distinct(s)
         /\ w = Weight(g, s) /\ w[0] = 0 /\ \A j \in 0..Len(s) : w[j] \in Nat
         /\ \A a, e \in 0..Len(s) : a <= e => w[a] <= w[e]
         /\ \A a, e \in 0..Len(s) : a <= e => Len(Data(g, Part(s, a, e))) = w[e] - w[a]
         /\ \A j \in 1..Len(s) : s[j] \in LiveLeaves(g) /\ g.nelems[s[j]] = w[j] - w[j - 1]
         /\ g.nelems[x] = w[Len(s)]
<1>1. g \in Heaps /\ Trees(g, S) /\ Sizes(g) /\ x \in g.live BY DEF Rooted, Sound, Trees
<1>2. s = LeavesUnder(g, x) /\ w = Weight(g, s) /\ x \in S BY DEF Rooted
<1>3. s \in Seq(LiveLeaves(g)) /\ s \in Seq(Leaves) /\ Len(s) \in Nat \ {0} /\ Distinct(s)
  BY <1>1, <1>2, LeavesRules, LeafSeqs, LeavesDistinct
<1>4. /\ w[0] = 0 /\ \A j \in 0..Len(s) : w[j] \in Nat
      /\ \A a, e \in 0..Len(s) : a <= e => w[a] <= w[e]
      /\ \A a, e \in 0..Len(s) : a <= e => Len(Data(g, Part(s, a, e))) = w[e] - w[a]
  <2>1. g \in Heaps /\ s \in Seq(Leaves) /\ w = Weight(g, s) BY <1>1, <1>2, <1>3
  <2>2. Weighed(g, s, w) BY <2>1, WeightFacts
  <2> QED BY <2>2 DEF Weighed
<1>5. ASSUME NEW j \in 1..Len(s)
      PROVE  s[j] \in LiveLeaves(g) /\ g.nelems[s[j]] = w[j] - w[j - 1]
  <2>1. s[j] \in LiveLeaves(g) /\ s[j] \in Leaves BY <1>3
  <2>2. Part(s, j - 1, j) = <<s[j]>> BY <1>3, OnePart
  <2>3. Data(g, <<s[j]>>) = g.data[s[j]] BY <1>1, <2>1, DataRules
  <2>4. j - 1 \in 0..Len(s) /\ j \in 0..Len(s) /\ j - 1 <= j BY <1>3
  <2>5. Len(Data(g, Part(s, j - 1, j))) = w[j] - w[j - 1] BY <1>4, <2>4
  <2>6. g.nelems[s[j]] = Len(g.data[s[j]]) BY <1>1, <2>1 DEF Sizes
  <2> QED BY <2>1, <2>2, <2>3, <2>5, <2>6
<1>6. g.nelems[x] = w[Len(s)]
  <2>1. g.nelems[x] = Len(Elems(g, x)) BY <1>1, SizeIs
  <2>2. Elems(g, x) = Data(g, s) BY <1>2 DEF Elems
  <2>3. Part(s, 0, Len(s)) = s BY <1>3, WholePart
  <2>4. 0 \in 0..Len(s) /\ Len(s) \in 0..Len(s) /\ 0 <= Len(s) BY <1>3
  <2>5. Len(Data(g, Part(s, 0, Len(s)))) = w[Len(s)] - w[0] /\ w[Len(s)] \in Nat BY <1>4, <2>4
  <2> QED BY <1>4, <2>1, <2>2, <2>3, <2>5
<1> QED BY <1>1, <1>2, <1>3, <1>4, <1>5, <1>6

(* Node y of the rope is over the leaves a + 1 to e.                       *)
Spot(g, x, s, y, a, e) ==
  /\ Bounds(s, a, e) /\ a < e
  /\ y \in All(g, x) /\ y \in g.live /\ LeavesUnder(g, y) = Part(s, a, e)

LEMMA SpotFacts ==
  ASSUME NEW g, NEW S, NEW x, NEW s, NEW w, Rooted(g, S, x, s, w),
         NEW y, NEW a, NEW e, Spot(g, x, s, y, a, e)
  PROVE  /\ a \in Nat /\ e \in Nat /\ a < e /\ e <= Len(s) /\ a \in 0..Len(s) /\ e \in 0..Len(s)
         /\ w[a] \in Nat /\ w[e] \in Nat /\ w[a] <= w[e] /\ g.nelems[y] = w[e] - w[a]
         /\ y \in g.live /\ y \in All(g, x)
<1>1. g \in Heaps /\ Trees(g, S) /\ Sizes(g) /\ Len(s) \in Nat BY RootedFacts
<1>2. a \in Nat /\ e \in Nat /\ a < e /\ e <= Len(s) /\ y \in g.live /\ y \in All(g, x)
  BY DEF Spot, Bounds
<1>3. a \in 0..Len(s) /\ e \in 0..Len(s) /\ a <= e BY <1>1, <1>2
<1>4. w[a] \in Nat /\ w[e] \in Nat /\ w[a] <= w[e] BY <1>3, RootedFacts
<1>5. Len(Data(g, Part(s, a, e))) = w[e] - w[a] BY <1>3, RootedFacts
<1>6. g.nelems[y] = Len(Elems(g, y)) BY <1>1, <1>2, SizeIs
<1>7. Elems(g, y) = Data(g, Part(s, a, e)) BY DEF Spot, Elems
<1> QED BY <1>2, <1>3, <1>4, <1>5, <1>6, <1>7

LEMMA SpotRoot ==
  ASSUME NEW g, NEW S, NEW x, NEW s, NEW w, Rooted(g, S, x, s, w)
  PROVE  Spot(g, x, s, x, 0, Len(s))
<1>1. /\ g \in Heaps /\ Trees(g, S) /\ x \in g.live /\ s = LeavesUnder(g, x)
      /\ s \in Seq(Leaves) /\ Len(s) \in Nat \ {0}
  BY RootedFacts
<1>2. Part(s, 0, Len(s)) = s BY <1>1, WholePart
<1>3. x \in All(g, x) BY <1>1, AllRules
<1>4. Bounds(s, 0, Len(s)) /\ 0 < Len(s) BY <1>1 DEF Bounds
<1> QED BY <1>1, <1>2, <1>3, <1>4 DEF Spot

(* A node is over one part only.                                           *)
LEMMA SpotUnique ==
  ASSUME NEW g, NEW S, NEW x, NEW s, NEW w, Rooted(g, S, x, s, w),
         NEW y, NEW a, NEW e, Spot(g, x, s, y, a, e), NEW u, NEW v, Spot(g, x, s, y, u, v)
  PROVE  a = u /\ e = v
<1>1. s \in Seq(Leaves) /\ Len(s) \in Nat /\ Distinct(s) BY RootedFacts
<1>2. /\ Bounds(s, a, e) /\ a < e /\ Bounds(s, u, v) /\ u < v
      /\ Part(s, a, e) = Part(s, u, v)
  BY DEF Spot
<1>3. /\ Len(Part(s, a, e)) = e - a /\ a + 1 \in 1..Len(s) /\ Part(s, a, e)[1] = s[a + 1]
      /\ Len(Part(s, u, v)) = v - u /\ u + 1 \in 1..Len(s) /\ Part(s, u, v)[1] = s[u + 1]
  BY <1>1, <1>2, PartOf DEF Between
<1>4. a + 1 = u + 1 BY <1>1, <1>2, <1>3 DEF Distinct
<1>5. e - a = v - u BY <1>2, <1>3
<1>6. a \in Nat /\ e \in Nat /\ u \in Nat /\ v \in Nat BY <1>2 DEF Bounds
<1> QED BY <1>4, <1>5, <1>6

(* The children of a node have its part between them.                      *)
SpotKids(g, x, s, n, a, mid, e) ==
  /\ mid \in Nat /\ a < mid /\ mid < e
  /\ Spot(g, x, s, g.left[n], a, mid) /\ Spot(g, x, s, g.right[n], mid, e)

LEMMA KidsHave ==
  ASSUME NEW g, NEW S, NEW x, NEW s, NEW w, Rooted(g, S, x, s, w),
         NEW n \in Nodes(g), NEW a, NEW e, Spot(g, x, s, n, a, e)
  PROVE  \E mid : SpotKids(g, x, s, n, a, mid, e)
<1> DEFINE lc == g.left[n]
           rc == g.right[n]
           u == LeavesUnder(g, lc)
           v == LeavesUnder(g, rc)
           mid == a + Len(u)
           p == Part(s, a, e)
<1>1. /\ g \in Heaps /\ Trees(g, S) /\ x \in g.live /\ s \in Seq(Leaves) /\ Len(s) \in Nat
  BY RootedFacts
<1>2. Bounds(s, a, e) /\ a < e /\ n \in All(g, x) /\ LeavesUnder(g, n) = p BY DEF Spot
<1>3. lc \in g.live /\ rc \in g.live BY <1>1, NodeFacts
<1>4. lc \in All(g, x) /\ rc \in All(g, x) BY <1>1, <1>2, Descend
<1>5. p = u \o v BY <1>1, <1>2, LeavesRules
<1>6. u \in Seq(Leaves) /\ v \in Seq(Leaves) /\ Len(u) \in Nat \ {0} /\ Len(v) \in Nat \ {0}
  BY <1>1, <1>3, LeafSeqs
<1> HIDE DEF lc, rc, u, v, p
<1>7. /\ Len(p) = Len(u) + Len(v)
      /\ \A i \in 1..Len(u) : p[i] = u[i]
      /\ \A i \in 1..Len(v) : p[Len(u) + i] = v[i]
  BY <1>5, <1>6, ConcatFacts
<1>8. a \in Nat /\ e \in Nat /\ e <= Len(s) BY <1>2 DEF Bounds
<1>9. Len(p) = e - a /\ \A i \in 1..(e - a) : p[i] = s[a + i]
  BY <1>1, <1>2, PartOf DEF Between, p
<1>10. e = mid + Len(v) /\ mid \in Nat /\ a < mid /\ mid < e /\ mid - a = Len(u) /\ e - mid = Len(v)
       /\ mid <= Len(s)
  <2> DEFINE i == Len(u)
             j == Len(v)
  <2>1. i \in Nat \ {0} /\ j \in Nat \ {0} /\ e - a = i + j BY <1>6, <1>7, <1>9
  <2> HIDE DEF i, j
  <2>2. /\ e = (a + i) + j /\ a + i \in Nat /\ a < a + i /\ a + i < e /\ (a + i) - a = i
        /\ e - (a + i) = j /\ a + i <= Len(s)
    BY <1>1, <1>8, <2>1
  <2> QED BY <2>2 DEF i, j
<1>11. Bounds(s, a, mid) /\ Bounds(s, mid, e) BY <1>1, <1>8, <1>10 DEF Bounds
<1>12. u = Part(s, a, mid)
  <2> DEFINE q == Part(s, a, mid)
  <2>1. q \in Seq(Leaves) /\ Len(q) = mid - a /\ \A i \in 1..(mid - a) : q[i] = s[a + i]
    BY <1>1, <1>11, PartOf DEF Between
  <2> HIDE DEF q, mid
  <2>2. ASSUME NEW i \in 1..Len(u) PROVE u[i] = q[i]
    <3>1. i \in 1..(e - a) /\ i \in 1..(mid - a) BY <1>6, <1>8, <1>10, <2>2
    <3> QED BY <1>7, <1>9, <2>1, <2>2, <3>1
  <2>3. Len(u) = Len(q) BY <1>10, <2>1
  <2>4. u = q BY <1>6, <2>1, <2>2, <2>3, SeqEqual
  <2> QED BY <2>4 DEF q
<1>13. v = Part(s, mid, e)
  <2> DEFINE q == Part(s, mid, e)
  <2>1. q \in Seq(Leaves) /\ Len(q) = e - mid /\ \A i \in 1..(e - mid) : q[i] = s[mid + i]
    BY <1>1, <1>11, PartOf DEF Between
  <2> HIDE DEF q
  <2>2. ASSUME NEW i \in 1..Len(v) PROVE v[i] = q[i]
    <3> DEFINE j == Len(u)
    <3>1. j \in Nat /\ mid = a + j /\ i \in Nat /\ i <= Len(v) /\ Len(v) \in Nat BY <1>6, <2>2
    <3> HIDE DEF j, mid
    <3>2. j + i \in 1..(e - a) /\ i \in 1..(e - mid) /\ a + (j + i) = mid + i
      BY <1>6, <1>8, <1>10, <2>2, <3>1
    <3>3. p[j + i] = v[i] BY <1>7 DEF j
    <3>4. p[j + i] = s[a + (j + i)] BY <1>9, <3>2
    <3>5. q[i] = s[mid + i] BY <2>1, <3>2
    <3> QED BY <3>2, <3>3, <3>4, <3>5
  <2>3. Len(v) = Len(q) BY <1>10, <2>1
  <2>4. v = q BY <1>6, <2>1, <2>2, <2>3, SeqEqual
  <2> QED BY <2>4 DEF q
<1> HIDE DEF mid
<1>14. Spot(g, x, s, lc, a, mid) /\ Spot(g, x, s, rc, mid, e)
  BY <1>3, <1>4, <1>10, <1>11, <1>12, <1>13 DEF Spot, u, v
<1> QED BY <1>10, <1>14 DEF SpotKids, lc, rc

LEMMA SpotExists ==
  ASSUME NEW g, NEW S, NEW x, NEW s, NEW w, Rooted(g, S, x, s, w), NEW y \in All(g, x)
  PROVE  \E a, e : Spot(g, x, s, y, a, e)
<1> DEFINE T == {z \in g.live : z \in All(g, x) => \E a, e : Spot(g, x, s, z, a, e)}
<1>1. g \in Heaps /\ Trees(g, S) /\ x \in g.live /\ x \in S BY RootedFacts
<1>2. S \subseteq g.live BY <1>1 DEF Trees
<1>3. ASSUME NEW z \in S PROVE z \in T
  <2>1. z \in g.live BY <1>2
  <2> SUFFICES ASSUME z \in All(g, x) PROVE \E a, e : Spot(g, x, s, z, a, e) BY <2>1
  <2>2. z \in All(g, z) BY <1>1, <2>1, AllRules
  <2>3. z = x BY <1>1, <2>2, Apart
  <2> QED BY <2>3, SpotRoot
<1>4. ASSUME NEW n \in Nodes(g), n \in T PROVE g.left[n] \in T /\ g.right[n] \in T
  <2>1. /\ g.left[n] \in g.live /\ g.right[n] \in g.live /\ n \in g.live
        /\ g.left[n] # x /\ g.right[n] # x
        /\ g.parent[g.left[n]] = n /\ g.parent[g.right[n]] = n
    BY <1>1, NodeFacts
  <2>2. ASSUME NEW z \in {g.left[n], g.right[n]}, z \in All(g, x)
        PROVE  \E a, e : Spot(g, x, s, z, a, e)
    <3>1. n \in All(g, x)
      <4>1. z # x /\ g.parent[z] = n BY <2>1
      <4> QED BY <1>1, <2>2, <4>1, Climb
    <3>2. PICK a, e : Spot(g, x, s, n, a, e) BY <1>4, <3>1
    <3>3. PICK mid : SpotKids(g, x, s, n, a, mid, e) BY <3>2, KidsHave
    <3> QED BY <3>3 DEF SpotKids
  <2> QED BY <2>1, <2>2
<1> HIDE DEF T
<1>5. g.live \subseteq T BY <1>1, <1>3, <1>4, TopSets
<1>6. y \in g.live BY <1>1, AllRules
<1> QED BY <1>5, <1>6 DEF T

(* A node that is not the root is the left or the right child of its       *)
(* parent, p.                                                              *)
SpotUp(g, x, s, y, p, a, e) ==
  /\ p \in Nodes(g) /\ p \in All(g, x)
  /\ \/ y = g.left[p] /\ \E f : SpotKids(g, x, s, p, a, e, f)
     \/ y = g.right[p] /\ \E f : SpotKids(g, x, s, p, f, a, e)

LEMMA UpHas ==
  ASSUME NEW g, NEW S, NEW x, NEW s, NEW w, Rooted(g, S, x, s, w),
         NEW y, NEW a, NEW e, Spot(g, x, s, y, a, e), y # x, NEW p, p = g.parent[y]
  PROVE  SpotUp(g, x, s, y, p, a, e)
<1>1. g \in Heaps /\ Trees(g, S) /\ x \in g.live /\ y \in g.live /\ y \in All(g, x)
  BY RootedFacts DEF Spot
<1>2. y \notin S /\ p \in All(g, x) /\ p \in Nodes(g) BY <1>1, Climb
<1>3. y = g.left[p] \/ y = g.right[p] BY <1>1, <1>2 DEF Trees, Child
<1>4. PICK u, v : Spot(g, x, s, p, u, v) BY <1>2, SpotExists
<1>5. PICK mid : SpotKids(g, x, s, p, u, mid, v) BY <1>2, <1>4, KidsHave
<1>6. CASE y = g.left[p]
  <2>1. Spot(g, x, s, y, u, mid) BY <1>5, <1>6 DEF SpotKids
  <2>2. u = a /\ mid = e BY <2>1, SpotUnique
  <2> QED BY <1>2, <1>5, <1>6, <2>2 DEF SpotUp
<1>7. CASE y = g.right[p]
  <2>1. Spot(g, x, s, y, mid, v) BY <1>5, <1>7 DEF SpotKids
  <2>2. mid = a /\ v = e BY <2>1, SpotUnique
  <2> QED BY <1>2, <1>5, <1>7, <2>2 DEF SpotUp
<1> QED BY <1>3, <1>6, <1>7

-----------------------------------------------------------------------------
(* Searches in a rope                                                      *)

(* The leaves a + 1 to e have the elements from st, len many.              *)
Holds(w, a, e, st, len) == w[a] <= st /\ st + len <= w[e]

(* From whatever node holds the elements, a search ends as it does from    *)
(* the root.                                                               *)
LEMMA SearchFrom ==
  ASSUME NEW g, NEW S, NEW x, NEW s, NEW w, Rooted(g, S, x, s, w),
         NEW st \in Nat, NEW len \in Nat \ {0},
         NEW y, NEW a, NEW e, Spot(g, x, s, y, a, e), Holds(w, a, e, st, len)
  PROVE  GetHdrRange(g, y, st - w[a], len) = GetHdrRange(g, x, st, len)
<1> DEFINE R(z, d) == GetHdrRange(g, z, d, len)
           T == {z \in g.live : \A u, v : Spot(g, x, s, z, u, v) /\ Holds(w, u, v, st, len)
                                            => R(z, st - w[u]) = R(x, st)}
<1>1. g \in Heaps /\ Trees(g, S) /\ x \in g.live /\ x \in S /\ w[0] = 0 BY RootedFacts
<1>2. S \subseteq g.live BY <1>1 DEF Trees
<1>3. \A n \in Nodes(g), d \in Nat :
        R(n, d) = IF d < g.nelems[g.left[n]]
                  THEN IF d + len <= g.nelems[g.left[n]] THEN R(g.left[n], d)
                       ELSE [hdr |-> n, off |-> d]
                  ELSE R(g.right[n], d - g.nelems[g.left[n]])
  BY <1>1, RangeRules
<1> HIDE DEF R
<1>4. ASSUME NEW z \in S PROVE z \in T
  <2> SUFFICES ASSUME NEW u, NEW v, Spot(g, x, s, z, u, v), Holds(w, u, v, st, len)
               PROVE  R(z, st - w[u]) = R(x, st)
    BY <1>2
  <2>1. z \in g.live /\ z \in All(g, x) BY DEF Spot
  <2>2. z \in All(g, z) BY <1>1, <2>1, AllRules
  <2>3. z = x BY <1>1, <2>1, <2>2, Apart
  <2>4. u = 0 BY <2>3, SpotRoot, SpotUnique
  <2>5. st - w[u] = st BY <1>1, <2>4
  <2> QED BY <2>3, <2>5
<1>5. ASSUME NEW n \in Nodes(g), n \in T PROVE g.left[n] \in T /\ g.right[n] \in T
  <2>1. /\ g.left[n] \in g.live /\ g.right[n] \in g.live
        /\ g.left[n] # x /\ g.right[n] # x /\ g.left[n] # g.right[n]
        /\ g.parent[g.left[n]] = n /\ g.parent[g.right[n]] = n
    BY <1>1, NodeFacts
  <2>2. ASSUME NEW z \in {g.left[n], g.right[n]}, NEW u, NEW v,
               Spot(g, x, s, z, u, v), Holds(w, u, v, st, len)
        PROVE  R(z, st - w[u]) = R(x, st)
    <3>1. SpotUp(g, x, s, z, n, u, v) BY <2>1, <2>2, UpHas
    <3>2. CASE z = g.left[n]
      <4>1. PICK f : SpotKids(g, x, s, n, u, v, f) BY <2>1, <3>1, <3>2 DEF SpotUp
      <4>2. Spot(g, x, s, n, u, f)
        <5>1. PICK u1, v1 : Spot(g, x, s, n, u1, v1) BY <3>1, SpotExists DEF SpotUp
        <5>2. PICK mid : SpotKids(g, x, s, n, u1, mid, v1) BY <5>1, KidsHave
        <5>3. u1 = u BY <4>1, <5>2, SpotUnique DEF SpotKids
        <5>4. v1 = f BY <4>1, <5>2, SpotUnique DEF SpotKids
        <5> QED BY <5>1, <5>3, <5>4
      <4>3. Spot(g, x, s, z, u, v) /\ Spot(g, x, s, g.right[n], v, f) BY <3>2, <4>1 DEF SpotKids
      <4>4. /\ w[u] \in Nat /\ w[v] \in Nat /\ w[f] \in Nat /\ w[v] <= w[f]
            /\ g.nelems[z] = w[v] - w[u]
        BY <4>3, SpotFacts
      <4>5. w[u] <= st /\ st + len <= w[v] BY <2>2 DEF Holds
      <4> DEFINE wu == w[u]
                 wv == w[v]
                 wf == w[f]
                 d == st - wu
                 left == g.nelems[z]
      <4>6. /\ wu \in Nat /\ wv \in Nat /\ wf \in Nat /\ wv <= wf /\ left = wv - wu
            /\ wu <= st /\ st + len <= wv
        BY <4>4, <4>5
      <4> HIDE DEF wu, wv, wf, left
      <4>7. d \in Nat /\ d < left /\ d + len <= left /\ st + len <= wf BY <4>6
      <4>8. R(n, d) = R(z, d) BY <1>3, <3>2, <4>7 DEF left
      <4>9. R(n, d) = R(x, st)
        <5>1. Holds(w, u, f, st, len) BY <4>6, <4>7 DEF Holds, wu, wf
        <5> QED BY <1>5, <4>2, <5>1 DEF wu
      <4> QED BY <4>8, <4>9 DEF wu
    <3>3. CASE z = g.right[n]
      <4>1. PICK f : SpotKids(g, x, s, n, f, u, v) BY <2>1, <3>1, <3>3 DEF SpotUp
      <4>2. Spot(g, x, s, n, f, v)
        <5>1. PICK u1, v1 : Spot(g, x, s, n, u1, v1) BY <3>1, SpotExists DEF SpotUp
        <5>2. PICK mid : SpotKids(g, x, s, n, u1, mid, v1) BY <5>1, KidsHave
        <5>3. u1 = f BY <4>1, <5>2, SpotUnique DEF SpotKids
        <5>4. v1 = v BY <4>1, <5>2, SpotUnique DEF SpotKids
        <5> QED BY <5>1, <5>3, <5>4
      <4>3. Spot(g, x, s, g.left[n], f, u) BY <4>1 DEF SpotKids
      <4>4. /\ w[u] \in Nat /\ w[f] \in Nat /\ w[f] <= w[u]
            /\ g.nelems[g.left[n]] = w[u] - w[f]
        BY <4>3, SpotFacts
      <4>5. w[u] <= st /\ st + len <= w[v] BY <2>2 DEF Holds
      <4> DEFINE wu == w[u]
                 wf == w[f]
                 d == st - wf
                 left == g.nelems[g.left[n]]
      <4>6. wu \in Nat /\ wf \in Nat /\ wf <= wu /\ left = wu - wf /\ wu <= st
        BY <4>4, <4>5
      <4> HIDE DEF wu, wf, left
      <4>7. d \in Nat /\ ~ (d < left) /\ d - left = st - wu /\ wf <= st BY <4>6
      <4> HIDE DEF d
      <4>8. R(n, d) = R(z, d - left) BY <1>3, <3>3, <4>7 DEF left
      <4>9. R(n, d) = R(x, st)
        <5>1. Holds(w, f, v, st, len) BY <4>5, <4>7 DEF Holds, wf
        <5> QED BY <1>5, <4>2, <5>1 DEF wf, d
      <4> QED BY <4>7, <4>8, <4>9 DEF wu
    <3> QED BY <3>2, <3>3
  <2> QED BY <2>1, <2>2
<1> HIDE DEF T
<1>6. g.live \subseteq T BY <1>1, <1>4, <1>5, TopSets
<1>7. y \in T BY <1>6 DEF Spot
<1> QED BY <1>7 DEF T, R

(* A search ends at a node that holds the elements, and with one element   *)
(* at its leaf.                                                            *)
Ends(g, x, s, w, st, len, at) ==
  /\ at \in [hdr : g.live, off : Nat]
  /\ len = 1 => at.hdr \in LiveLeaves(g)
  /\ \E a, e : /\ Spot(g, x, s, at.hdr, a, e) /\ Holds(w, a, e, st, len)
               /\ at.off = st - w[a]

LEMMA SearchEnds ==
  ASSUME NEW g, NEW S, NEW x, NEW s, NEW w, Rooted(g, S, x, s, w),
         NEW st \in Nat, NEW len \in Nat \ {0},
         NEW y, NEW a, NEW e, Spot(g, x, s, y, a, e), Holds(w, a, e, st, len)
  PROVE  Ends(g, x, s, w, st, len, GetHdrRange(g, y, st - w[a], len))
<1> DEFINE R(z, d) == GetHdrRange(g, z, d, len)
           Good1(at) == Ends(g, x, s, w, st, len, at)
           T == {z \in g.live : \A u, v : Spot(g, x, s, z, u, v) /\ Holds(w, u, v, st, len)
                                            => Good1(R(z, st - w[u]))}
<1>1. g \in Heaps /\ Trees(g, S) BY RootedFacts
<1>2. /\ \A l \in LiveLeaves(g), d \in Nat : R(l, d) = [hdr |-> l, off |-> d]
      /\ \A n \in Nodes(g), d \in Nat :
           R(n, d) = IF d < g.nelems[g.left[n]]
                     THEN IF d + len <= g.nelems[g.left[n]] THEN R(g.left[n], d)
                          ELSE [hdr |-> n, off |-> d]
                     ELSE R(g.right[n], d - g.nelems[g.left[n]])
  BY <1>1, RangeRules
<1> HIDE DEF R
<1>3. ASSUME NEW z \in g.live, NEW u, NEW v, Spot(g, x, s, z, u, v), Holds(w, u, v, st, len),
             len # 1 \/ z \in LiveLeaves(g)
      PROVE  st - w[u] \in Nat /\ Good1([hdr |-> z, off |-> st - w[u]])
  <2>1. w[u] \in Nat /\ w[u] <= st BY <1>3, SpotFacts DEF Holds
  <2>2. st - w[u] \in Nat BY <2>1
  <2> DEFINE o == st - w[u]
             at == [hdr |-> z, off |-> o]
  <2>3. at \in [hdr : g.live, off : Nat] /\ at.hdr = z /\ at.off = o BY <2>2
  <2> HIDE DEF at
  <2>4. Good1(at) BY <1>3, <2>3 DEF Ends
  <2> QED BY <2>2, <2>4 DEF at
<1>4. ASSUME NEW l \in LiveLeaves(g) PROVE l \in T
  <2>1. l \in g.live BY DEF LiveLeaves
  <2> SUFFICES ASSUME NEW u, NEW v, Spot(g, x, s, l, u, v), Holds(w, u, v, st, len)
               PROVE  Good1(R(l, st - w[u]))
    BY <2>1
  <2> HIDE DEF Good1
  <2>2. st - w[u] \in Nat /\ Good1([hdr |-> l, off |-> st - w[u]]) BY <1>3, <2>1
  <2> QED BY <1>2, <2>2
<1>5. ASSUME NEW n \in Nodes(g), g.left[n] \in T, g.right[n] \in T PROVE n \in T
  <2>1. n \in g.live BY <1>1, NodeFacts
  <2> SUFFICES ASSUME NEW u, NEW v, Spot(g, x, s, n, u, v), Holds(w, u, v, st, len)
               PROVE  Good1(R(n, st - w[u]))
    BY <2>1
  <2>2. PICK mid : SpotKids(g, x, s, n, u, mid, v) BY KidsHave
  <2>3. Spot(g, x, s, g.left[n], u, mid) /\ Spot(g, x, s, g.right[n], mid, v) BY <2>2 DEF SpotKids
  <2> DEFINE wu == w[u]
             wm == w[mid]
             wv == w[v]
             d == st - wu
             left == g.nelems[g.left[n]]
  <2>4. wu \in Nat /\ wm \in Nat /\ wv \in Nat /\ wu <= wm /\ wm <= wv /\ left = wm - wu
    BY <2>3, SpotFacts
  <2>5. wu <= st /\ st + len <= wv BY DEF Holds
  <2> HIDE DEF wu, wm, wv, left, Good1
  <2>6. /\ d \in Nat
        /\ d < left /\ d + len <= left => st + len <= wm
        /\ d < left /\ ~ (d + len <= left) => len # 1
        /\ ~ (d < left) => d - left = st - wm /\ wm <= st
    BY <2>4, <2>5
  <2>7. CASE d < left /\ d + len <= left
    <3>1. R(n, d) = R(g.left[n], d) BY <1>2, <2>6, <2>7 DEF left
    <3>2. Holds(w, u, mid, st, len) BY <2>5, <2>6, <2>7 DEF Holds, wu, wm
    <3>3. Good1(R(g.left[n], st - w[u])) BY <1>5, <2>3, <3>2
    <3> QED BY <3>1, <3>3 DEF wu
  <2>8. CASE d < left /\ ~ (d + len <= left)
    <3>1. R(n, d) = [hdr |-> n, off |-> d] BY <1>2, <2>6, <2>8 DEF left
    <3>2. len # 1 BY <2>6, <2>8
    <3>3. Good1([hdr |-> n, off |-> st - w[u]]) BY <1>3, <2>1, <3>2
    <3> QED BY <3>1, <3>3 DEF wu
  <2>9. CASE ~ (d < left)
    <3>1. R(n, d) = R(g.right[n], d - left) BY <1>2, <2>6, <2>9 DEF left
    <3>2. Holds(w, mid, v, st, len) BY <2>5, <2>6, <2>9 DEF Holds, wm, wv
    <3>3. Good1(R(g.right[n], st - w[mid])) BY <1>5, <2>3, <3>2
    <3>4. d - left = st - wm BY <2>6, <2>9
    <3> HIDE DEF d
    <3>5. R(n, d) = R(g.right[n], st - wm) BY <3>1, <3>4
    <3> QED BY <3>3, <3>5 DEF wu, wm, d
  <2> QED BY <2>7, <2>8, <2>9
<1> HIDE DEF T
<1>6. g.live \subseteq T BY <1>1, <1>4, <1>5, TreeSets
<1>7. y \in T BY <1>6 DEF Spot
<1> QED BY <1>7 DEF T, R

(* Element key of the rope is in leaf l at o.                              *)
AtLeaf(s, w, key, l, o) ==
  \E k \in 1..Len(s) : l = s[k] /\ w[k - 1] <= key /\ key < w[k] /\ o = key - w[k - 1]

LEMMA EndsAtLeaf ==
  ASSUME NEW g, NEW S, NEW x, NEW s, NEW w, Rooted(g, S, x, s, w),
         NEW st \in Nat, NEW at, Ends(g, x, s, w, st, 1, at)
  PROVE  AtLeaf(s, w, st, at.hdr, at.off)
<1>1. g \in Heaps /\ Trees(g, S) /\ s \in Seq(Leaves) /\ Len(s) \in Nat BY RootedFacts
<1> DEFINE l == at.hdr
<1>2. l \in LiveLeaves(g) BY DEF Ends
<1>3. PICK a, e : Spot(g, x, s, l, a, e) /\ Holds(w, a, e, st, 1) /\ at.off = st - w[a] BY DEF Ends
<1> HIDE DEF l
<1>4. LeavesUnder(g, l) = <<l>> /\ l \in Leaves BY <1>1, <1>2, LeavesRules DEF LiveLeaves
<1>5. Bounds(s, a, e) /\ a < e /\ Part(s, a, e) = <<l>> BY <1>3, <1>4 DEF Spot
<1>6. /\ Len(Part(s, a, e)) = e - a /\ a + 1 \in 1..Len(s) /\ Part(s, a, e)[1] = s[a + 1]
      /\ a \in Nat /\ e \in Nat
  BY <1>1, <1>5, PartOf DEF Between, Bounds
<1>7. Len(<<l>>) = 1 /\ <<l>>[1] = l BY <1>4, OneSeq
<1>8. e = a + 1 /\ l = s[a + 1] /\ (a + 1) - 1 = a BY <1>5, <1>6, <1>7
<1>9. w[a] <= st /\ st + 1 <= w[a + 1] BY <1>3, <1>8 DEF Holds
<1>10. w[a + 1] \in Nat BY <1>3, <1>8, SpotFacts
<1>11. st < w[a + 1] BY <1>9, <1>10
<1>12. l = s[a + 1] /\ w[(a + 1) - 1] <= st /\ st < w[a + 1] /\ at.off = st - w[(a + 1) - 1]
  BY <1>3, <1>8, <1>9, <1>11
<1> QED BY <1>6, <1>12 DEF AtLeaf, l

(* Counting leaf by leaf finds the same.                                   *)
IsAt(at, l, o) == at = [hdr |-> l, off |-> o]

LEMMA LocateIs ==
  ASSUME NEW S, NEW s, NEW w, NEW r, Rooted(h, S, h.root[r], s, w),
         NEW key \in Nat, NEW l, NEW o, AtLeaf(s, w, key, l, o)
  PROVE  IsAt(Locate(r, key), l, o)
<1> DEFINE n == Len(s)
           Is(f) == f = [k \in 0..n |-> IF k = 0 THEN 0 ELSE f[k - 1] + h.nelems[s[k]]]
           upto == CHOOSE f : Is(f)
           Fits(f, k) == f[k - 1] <= key /\ key < f[k]
           at(f) == CHOOSE k \in DOMAIN s : Fits(f, k)
<1>1. /\ s = LeavesUnder(h, h.root[r]) /\ s \in Seq(Leaves) /\ n \in Nat
      /\ w = Weight(h, s) /\ w[0] = 0 /\ \A j \in 0..n : w[j] \in Nat
      /\ \A a, e \in 0..n : a <= e => w[a] <= w[e]
      /\ \A j \in 1..n : h.nelems[s[j]] = w[j] - w[j - 1]
  BY RootedFacts
<1>2. Locate(r, key) = [hdr |-> s[at(upto)], off |-> key - upto[at(upto) - 1]]
  BY <1>1 DEF Locate
<1>3. DOMAIN s = 1..n BY <1>1
<1> HIDE DEF upto, n
<1>4. Is(w)
  <2>1. w = [k \in 0..n |-> w[k]] BY <1>1 DEF Weight, n
  <2>2. ASSUME NEW k \in 0..n PROVE w[k] = IF k = 0 THEN 0 ELSE w[k - 1] + h.nelems[s[k]]
    <3>1. CASE k = 0 BY <1>1, <3>1
    <3>2. CASE k # 0
      <4>1. k \in 1..n /\ k - 1 \in 0..n BY <1>1, <3>2
      <4>2. w[k] \in Nat /\ w[k - 1] \in Nat /\ h.nelems[s[k]] = w[k] - w[k - 1] BY <1>1, <4>1
      <4> QED BY <3>2, <4>2
    <3> QED BY <3>1, <3>2
  <2> QED BY <2>1, <2>2
<1>5. Is(upto) BY <1>4 DEF upto
<1>6. \A i \in 0..n : upto[i] = w[i]
  <2> DEFINE P == [i \in 0..n |-> {w[i]}]
  <2>1. 0 \in 0..n /\ upto[0] = 0 BY <1>1, <1>5
  <2>2. upto[0] \in P[0] BY <1>1, <2>1
  <2>3. ASSUME NEW i \in 0..n, i # 0, upto[i - 1] \in P[i - 1] PROVE upto[i] \in P[i]
    <3>1. i - 1 \in 0..n BY <1>1, <2>3
    <3>2. upto[i - 1] = w[i - 1] BY <2>3, <3>1
    <3>3. upto[i] = upto[i - 1] + h.nelems[s[i]] BY <1>5, <2>3
    <3>4. w[i] = w[i - 1] + h.nelems[s[i]] BY <1>4, <2>3
    <3> QED BY <3>2, <3>3, <3>4
  <2> HIDE DEF P, Is
  <2>4. 0 \in Int /\ n \in Int BY <1>1
  <2>5. \A i \in 0..n : upto[i] \in P[i] BY <2>2, <2>3, <2>4, LoopKeeps
  <2> QED BY <2>5 DEF P
<1>7. PICK k \in 1..n : l = s[k] /\ Fits(w, k) /\ o = key - w[k - 1] BY DEF AtLeaf, n
<1>8. ASSUME NEW j \in 1..n, Fits(w, j) PROVE j = k
  <2>1. j - 1 \in 0..n /\ k - 1 \in 0..n /\ j \in 0..n /\ k \in 0..n BY <1>1
  <2>2. w[j] \in Nat /\ w[k] \in Nat /\ w[j - 1] \in Nat /\ w[k - 1] \in Nat BY <1>1, <2>1
  <2>3. CASE j < k
    <3>1. j <= k - 1 BY <1>1, <2>3
    <3>2. w[j] <= w[k - 1] BY <1>1, <2>1, <3>1
    <3> QED BY <1>7, <1>8, <2>2, <3>2
  <2>4. CASE k < j
    <3>1. k <= j - 1 BY <1>1, <2>4
    <3>2. w[k] <= w[j - 1] BY <1>1, <2>1, <3>1
    <3> QED BY <1>7, <1>8, <2>2, <3>2
  <2> QED BY <1>1, <2>3, <2>4
<1>9. \A j \in 1..n : Fits(upto, j) <=> Fits(w, j)
  <2> TAKE j \in 1..n
  <2>1. j \in 0..n /\ j - 1 \in 0..n BY <1>1
  <2> QED BY <1>6, <2>1
<1> HIDE DEF Fits
<1>10. at(upto) = k BY <1>3, <1>7, <1>8, <1>9
<1>11. upto[k - 1] = w[k - 1]
  <2>1. k - 1 \in 0..n BY <1>1
  <2> QED BY <1>6, <2>1
<1> QED BY <1>2, <1>7, <1>10, <1>11 DEF IsAt
-----------------------------------------------------------------------------
(* Slices                                                                  *)

SliceRecs ==
  [rpa : Ropes, start : Nat, len : Nat, hdr0 : h.live \union {Null}, off : Nat,
   leaf0 : h.live \union {Null}, leafOff : Nat, reading : BOOLEAN]

(* hdr0 holds the slice; it is the smallest node that does.                *)
HdrHolds(x, s, w, c) == \E a, e : Spot(h, x, s, c.hdr0, a, e) /\ Holds(w, a, e, c.start, c.len)
HdrExact(x, s, w, c) ==
  /\ \E a, e : /\ Spot(h, x, s, c.hdr0, a, e) /\ Holds(w, a, e, c.start, c.len)
               /\ c.off = c.start - w[a]
  /\ [hdr |-> c.hdr0, off |-> c.off] = GetHdrRange(h, x, c.start, c.len)

(* What a slice knows about its elements.                                  *)
Placed(x, s, w, c) ==
  /\ HdrHolds(x, s, w, c) /\ (~ c.reading => HdrExact(x, s, w, c))
  /\ IF c.leaf0 = Null THEN ~ c.reading ELSE AtLeaf(s, w, c.start, c.leaf0, c.leafOff)

(* The slice k has the elements of c.                                      *)
SameSlice(c, k) ==
  k.rpa = c.rpa /\ k.start = c.start /\ k.len = c.len /\ k.reading = c.reading

LEMMA OverFacts ==
  ASSUME NEW S, NEW x, NEW s, NEW w, Rooted(h, S, x, s, w),
         NEW c \in SliceRecs, NEW y \in h.live, NEW d \in Nat, NEW k, k = Over(c, y, d)
  PROVE  /\ k \in SliceRecs /\ SameSlice(c, k) /\ k.leaf0 = Null
         /\ \A a, e : /\ c.len > 0 /\ Spot(h, x, s, y, a, e)
                      /\ Holds(w, a, e, c.start, c.len) /\ d = c.start - w[a]
                      => HdrExact(x, s, w, k) /\ HdrHolds(x, s, w, k)
<1> DEFINE at == GetHdrRange(h, y, d, c.len)
<1>1. c.len \in Nat /\ c.start \in Nat BY DEF SliceRecs
<1>2. h \in Heaps /\ Trees(h, S) BY RootedFacts
<1>3. at \in [hdr : h.live, off : Nat] BY <1>1, <1>2, RangeRules
<1>4. k = [c EXCEPT !.hdr0 = at.hdr, !.off = at.off, !.leaf0 = Null, !.leafOff = 0] BY DEF Over
<1> HIDE DEF at
<1>5. k \in SliceRecs
  <2>1. at.hdr \in h.live /\ at.off \in Nat /\ Null \in h.live \union {Null} BY <1>3
  <2> DEFINE hd == at.hdr
             of == at.off
             all == h.live \union {Null}
  <2>2. /\ hd \in all /\ of \in Nat /\ Null \in all
        /\ c \in [rpa : Ropes, start : Nat, len : Nat, hdr0 : all, off : Nat,
                  leaf0 : all, leafOff : Nat, reading : BOOLEAN]
        /\ k = [c EXCEPT !.hdr0 = hd, !.off = of, !.leaf0 = Null, !.leafOff = 0]
    BY <1>4, <2>1 DEF SliceRecs
  <2> HIDE DEF hd, of, all
  <2>3. k \in [rpa : Ropes, start : Nat, len : Nat, hdr0 : all, off : Nat,
               leaf0 : all, leafOff : Nat, reading : BOOLEAN]
    <3>1. /\ c.rpa \in Ropes /\ c.start \in Nat /\ c.len \in Nat /\ c.reading \in BOOLEAN
          /\ k = [rpa |-> c.rpa, start |-> c.start, len |-> c.len, hdr0 |-> hd, off |-> of,
                  leaf0 |-> Null, leafOff |-> 0, reading |-> c.reading]
      BY <2>2
    <3> QED BY <2>2, <3>1
  <2> QED BY <2>3 DEF SliceRecs, all
<1>6. SameSlice(c, k) /\ k.leaf0 = Null /\ k.hdr0 = at.hdr /\ k.off = at.off
  BY <1>4 DEF SliceRecs, SameSlice
<1>7. ASSUME NEW a, NEW e, c.len > 0, Spot(h, x, s, y, a, e),
             Holds(w, a, e, c.start, c.len), d = c.start - w[a]
      PROVE  HdrExact(x, s, w, k) /\ HdrHolds(x, s, w, k)
  <2> DEFINE st == c.start
             len == c.len
  <2>1. st \in Nat /\ len \in Nat \ {0} BY <1>1, <1>7
  <2>2. k.start = st /\ k.len = len BY <1>6 DEF SameSlice
  <2>3. at = GetHdrRange(h, y, st - w[a], len) BY <1>7 DEF at
  <2>4. Spot(h, x, s, y, a, e) /\ Holds(w, a, e, st, len) BY <1>7
  <2> HIDE DEF st, len
  <2>5. at = GetHdrRange(h, x, st, len) BY <2>1, <2>3, <2>4, SearchFrom
  <2>6. Ends(h, x, s, w, st, len, at) BY <2>1, <2>3, <2>4, SearchEnds
  <2>7. \E u, v : Spot(h, x, s, at.hdr, u, v) /\ Holds(w, u, v, st, len) /\ at.off = st - w[u]
    BY <2>6 DEF Ends
  <2>8. at = [hdr |-> at.hdr, off |-> at.off] BY <1>3
  <2> QED BY <1>6, <2>2, <2>5, <2>7, <2>8 DEF HdrExact, HdrHolds
<1> QED BY <1>5, <1>6, <1>7

LEMMA FindLeafFacts ==
  ASSUME NEW S, NEW x, NEW s, NEW w, Rooted(h, S, x, s, w),
         NEW c \in SliceRecs, c.len > 0, HdrExact(x, s, w, c), NEW k, k = FindLeaf0(c)
  PROVE  /\ k \in SliceRecs /\ SameSlice(c, k) /\ k.hdr0 = c.hdr0 /\ k.off = c.off
         /\ k.leaf0 # Null /\ AtLeaf(s, w, k.start, k.leaf0, k.leafOff)
         /\ HdrExact(x, s, w, k) /\ HdrHolds(x, s, w, k)
<1> DEFINE at == GetHdrRange(h, c.hdr0, c.off, 1)
           st == c.start
           len == c.len
<1>1. st \in Nat /\ len \in Nat /\ len > 0 BY DEF SliceRecs
<1>2. h \in Heaps /\ Trees(h, S) BY RootedFacts
<1>3. PICK a, e : /\ Spot(h, x, s, c.hdr0, a, e) /\ Holds(w, a, e, st, len)
                  /\ c.off = st - w[a]
  BY DEF HdrExact
<1>4. Holds(w, a, e, st, 1)
  <2>1. w[a] <= st /\ st + len <= w[e] BY <1>3 DEF Holds
  <2>2. w[e] \in Nat BY <1>3, SpotFacts
  <2> HIDE DEF st, len
  <2>3. st + 1 <= w[e] BY <1>1, <2>1, <2>2
  <2> QED BY <2>1, <2>3 DEF Holds
<1>5. Ends(h, x, s, w, st, 1, at)
  <2>1. 1 \in Nat \ {0} OBVIOUS
  <2>2. at = GetHdrRange(h, c.hdr0, st - w[a], 1) BY <1>3
  <2> HIDE DEF st, at
  <2> QED BY <1>1, <1>3, <1>4, <2>1, <2>2, SearchEnds
<1>6. k = [c EXCEPT !.leaf0 = at.hdr, !.leafOff = at.off] BY DEF FindLeaf0, GetLeaf
<1> HIDE DEF at
<1>7. at.hdr \in LiveLeaves(h) /\ at.hdr \in h.live /\ at.off \in Nat /\ at.hdr # Null
  <2>1. at.hdr \in LiveLeaves(h) /\ at \in [hdr : h.live, off : Nat] BY <1>5 DEF Ends
  <2> QED BY <1>2, <2>1, HeapFacts
<1>8. AtLeaf(s, w, st, at.hdr, at.off)
  <2> HIDE DEF st
  <2> QED BY <1>1, <1>5, EndsAtLeaf
<1>9. k \in SliceRecs BY <1>6, <1>7 DEF SliceRecs
<1>10. /\ SameSlice(c, k) /\ k.hdr0 = c.hdr0 /\ k.off = c.off
       /\ k.leaf0 = at.hdr /\ k.leafOff = at.off
  BY <1>6 DEF SliceRecs, SameSlice
<1>11. HdrExact(x, s, w, k) BY <1>10 DEF HdrExact, SameSlice
<1>12. HdrHolds(x, s, w, k) BY <1>11 DEF HdrExact, HdrHolds
<1> QED BY <1>7, <1>8, <1>9, <1>10, <1>11, <1>12 DEF SameSlice

-----------------------------------------------------------------------------
(* The way up to the next leaf                                             *)

(* One step of the loop of rpa_slice_getnextchunk at node z, with what it  *)
(* does further up.                                                        *)
OnRight(c) == FindLeaf0(Over(c, h.right[c.hdr0], 0))
OnLeaf(c, p) == [c EXCEPT !.leaf0 = Leftmost(h.right[p]), !.leafOff = 0]
UpFrom(c, z, f) ==
  CASE h.parent[z] = c.hdr0 -> OnRight(c)
    [] h.parent[z] # c.hdr0 /\ h.left[h.parent[z]] = z -> OnLeaf(c, h.parent[z])
    [] OTHER -> f[h.parent[z]]
Climbs(c, f) == NextLeaf(c) = f[c.leaf0] /\ \A z \in Inside(c) : f[z] = UpFrom(c, z, f)

LEMMA InsideIs ==
  ASSUME NEW S, h \in Heaps, Trees(h, S), NEW c, c.hdr0 \in h.live
  PROVE  /\ \A z : z \in Inside(c) <=> z \in All(h, c.hdr0) /\ z # c.hdr0
         /\ \A z \in Inside(c) :
              /\ z \in h.live /\ z \notin S /\ h.parent[z] \in All(h, c.hdr0)
              /\ h.parent[z] \in Nodes(h)
              /\ Depth(h, z) < Depth(h, h.parent[z])
<1>1. \A z : z \in Inside(c) <=> z \in All(h, c.hdr0) /\ z # c.hdr0 BY DEF Inside, All
<1>2. ASSUME NEW z \in Inside(c)
      PROVE  /\ z \in h.live /\ z \notin S /\ h.parent[z] \in All(h, c.hdr0)
             /\ h.parent[z] \in Nodes(h) /\ Depth(h, z) < Depth(h, h.parent[z])
  <2> DEFINE p == h.parent[z]
  <2>1. z \in All(h, c.hdr0) /\ z # c.hdr0 BY <1>1
  <2>2. z \notin S /\ p \in All(h, c.hdr0) /\ p \in Nodes(h) BY <2>1, Climb
  <2>3. z \in h.live BY <2>1, AllRules
  <2>4. z = h.left[p] \/ z = h.right[p] BY <2>2, <2>3 DEF Trees, Child
  <2>5. Depth(h, z) < Depth(h, p) BY <2>2, <2>4, NodeFacts
  <2> QED BY <2>2, <2>3, <2>5
<1> QED BY <1>1, <1>2

LEMMA ClimbExists ==
  ASSUME NEW S, h \in Heaps, Trees(h, S), NEW c, c.hdr0 \in h.live
  PROVE  \E f : Climbs(c, f)
<1> DEFINE X == Inside(c)
           W == {OnRight(c)} \union {OnLeaf(c, p) : p \in All(h, c.hdr0)}
           Turn(x, f) ==
             LET p == h.parent[x]
             IN  CASE p = c.hdr0 -> FindLeaf0(Over(c, h.right[p], 0))
                   [] p # c.hdr0 /\ h.left[p] = x ->
                        [c EXCEPT !.leaf0 = Leftmost(h.right[p]), !.leafOff = 0]
                   [] OTHER -> f[p]
           Is(f) == f = [x \in Inside(c) |-> Turn(x, f)]
           depth == [z \in h.live |-> Depth(h, z)]
<1>1. /\ \A z : z \in X <=> z \in All(h, c.hdr0) /\ z # c.hdr0
      /\ \A z \in X : /\ z \in h.live /\ h.parent[z] \in All(h, c.hdr0)
                      /\ h.parent[z] \in h.live /\ Depth(h, z) < Depth(h, h.parent[z])
  <2>1. \A n \in Nodes(h) : n \in h.live BY NodeFacts
  <2> QED BY <2>1, InsideIs
<1>2. PICK top \in Nat : \A z \in h.live : depth[z] < top
  <2>1. IsFiniteSet(h.live) /\ \A z \in h.live : depth[z] \in Nat BY HeapFacts
  <2> HIDE DEF depth
  <2> QED BY <2>1, FiniteBound
<1>3. \A z \in h.live : Depth(h, z) \in Nat /\ Depth(h, z) < top
  <2>1. \A z \in h.live : depth[z] = Depth(h, z) OBVIOUS
  <2>2. \A z \in h.live : Depth(h, z) \in Nat BY HeapFacts
  <2> HIDE DEF depth
  <2> QED BY <1>2, <2>1, <2>2
<1> DEFINE level == [z \in X |-> top - Depth(h, z)]
           H == [p \in UNION {{z} \X [Below(X, level, z) -> W] : z \in X} |-> UpFrom(c, p[1], p[2])]
<1> HIDE DEF X
<1>4. \A z \in X : level[z] \in Nat /\ level[z] < top + 1
  <2> SUFFICES ASSUME NEW z \in X PROVE top - Depth(h, z) \in Nat /\ top - Depth(h, z) < top + 1
    OBVIOUS
  <2>1. Depth(h, z) \in Nat /\ Depth(h, z) < top BY <1>1, <1>3
  <2> QED BY <1>2, <2>1
<1>5. ASSUME NEW z \in X, NEW f \in [Below(X, level, z) -> W]
      PROVE  H[<<z, f>>] = UpFrom(c, z, f)
  <2> DEFINE here == {z} \X [Below(X, level, z) -> W]
  <2>2. <<z, f>> \in here OBVIOUS
  <2>3. here \in {{y} \X [Below(X, level, y) -> W] : y \in X} OBVIOUS
  <2> HIDE DEF here, level, X, W
  <2>1. <<z, f>> \in UNION {{y} \X [Below(X, level, y) -> W] : y \in X} BY <2>2, <2>3
  <2> QED BY <2>1
<1> HIDE DEF H
<1>6. \A z \in X : h.parent[z] # c.hdr0 => h.parent[z] \in Below(X, level, z)
  <2> SUFFICES ASSUME NEW z \in X, h.parent[z] # c.hdr0 PROVE h.parent[z] \in Below(X, level, z)
    OBVIOUS
  <2> DEFINE p == h.parent[z]
  <2>1. p \in X /\ p \in h.live /\ z \in h.live /\ Depth(h, z) < Depth(h, p) BY <1>1
  <2>2. Depth(h, z) \in Nat /\ Depth(h, p) \in Nat /\ top \in Nat BY <1>2, <1>3, <2>1
  <2>3. level[p] = top - Depth(h, p) /\ level[z] = top - Depth(h, z) BY <2>1
  <2> HIDE DEF level, p
  <2>4. level[p] < level[z] BY <2>1, <2>2, <2>3
  <2> QED BY <2>1, <2>4 DEF Below, p
<1>7. \A z \in X : \A f \in [Below(X, level, z) -> W] : H[<<z, f>>] \in W
  <2> SUFFICES ASSUME NEW z \in X, NEW f \in [Below(X, level, z) -> W] PROVE UpFrom(c, z, f) \in W
    BY <1>5
  <2>1. CASE h.parent[z] = c.hdr0 BY <2>1 DEF UpFrom
  <2>2. CASE h.parent[z] # c.hdr0 /\ h.left[h.parent[z]] = z
    <3>1. UpFrom(c, z, f) = OnLeaf(c, h.parent[z]) BY <2>2 DEF UpFrom
    <3>2. h.parent[z] \in All(h, c.hdr0) BY <1>1
    <3> QED BY <3>1, <3>2
  <2>3. CASE h.parent[z] # c.hdr0 /\ h.left[h.parent[z]] # z
    <3>1. UpFrom(c, z, f) = f[h.parent[z]] BY <2>3 DEF UpFrom
    <3>2. f[h.parent[z]] \in W
      <4> HIDE DEF W, level
      <4> QED BY <1>6, <2>3
    <3> QED BY <3>1, <3>2
  <2> QED BY <2>1, <2>2, <2>3
<1> HIDE DEF level
<1>8. PICK f : f \in [X -> W] /\ \A z \in X : f[z] = H[<<z, Under(X, level, z, f)>>]
  <2> HIDE DEF W
  <2>1. Ranked(X, level, top + 1) BY <1>2, <1>4 DEF Ranked
  <2>2. Typed(X, level, W, H) BY <1>7 DEF Typed
  <2>3. \E f : Solves(X, level, W, H, f) BY <2>1, <2>2, Recursion
  <2> QED BY <2>3 DEF Solves
<1>9. \A z \in X : f[z] = UpFrom(c, z, f)
  <2> SUFFICES ASSUME NEW z \in X PROVE f[z] = UpFrom(c, z, f) OBVIOUS
  <2> DEFINE u == Under(X, level, z, f)
  <2> HIDE DEF W
  <2>1. u \in [Below(X, level, z) -> W] /\ \A y \in Below(X, level, z) : u[y] = f[y]
    BY <1>8 DEF Under, Below
  <2> HIDE DEF u
  <2>2. f[z] = UpFrom(c, z, u) BY <1>5, <1>8, <2>1 DEF u
  <2>3. h.parent[z] # c.hdr0 => u[h.parent[z]] = f[h.parent[z]] BY <1>6, <2>1
  <2> QED BY <2>2, <2>3 DEF UpFrom
<1>10. \A g, z : UpFrom(c, z, g) = Turn(z, g) BY DEF UpFrom, OnRight, OnLeaf
<1> DEFINE u == CHOOSE g : Is(g)
<1>11. NextLeaf(c) = u[c.leaf0] BY DEF NextLeaf
<1> HIDE DEF Turn
<1>12. Is(f)
  <2>1. f = [z \in X |-> f[z]] BY <1>8
  <2>2. f = [z \in X |-> UpFrom(c, z, f)] BY <1>9, <2>1
  <2> QED BY <1>10, <2>2 DEF X
<1>13. Is(u) BY <1>12
<1> HIDE DEF u
<1>14. \A z \in Inside(c) : u[z] = UpFrom(c, z, u)
  <2> TAKE z \in Inside(c)
  <2>1. u[z] = Turn(z, u) BY <1>13
  <2> QED BY <1>10, <2>1
<1> QED BY <1>11, <1>14 DEF Climbs

LEMMA KidsUp ==
  ASSUME NEW g, NEW S, NEW x, NEW s, NEW w, Rooted(g, S, x, s, w),
         NEW n \in Nodes(g), n \in All(g, x), NEW a, NEW mid, NEW e, SpotKids(g, x, s, n, a, mid, e)
  PROVE  Spot(g, x, s, n, a, e)
<1>1. PICK u, v : Spot(g, x, s, n, u, v) BY SpotExists
<1>2. PICK m : SpotKids(g, x, s, n, u, m, v) BY <1>1, KidsHave
<1>3. u = a BY <1>2, SpotUnique DEF SpotKids
<1>4. v = e BY <1>2, SpotUnique DEF SpotKids
<1> QED BY <1>1, <1>3, <1>4

LEMMA LeafSpot ==
  ASSUME NEW g, NEW S, NEW x, NEW s, NEW w, Rooted(g, S, x, s, w), NEW k \in 1..Len(s)
  PROVE  Spot(g, x, s, s[k], k - 1, k)
<1>1. /\ g \in Heaps /\ Trees(g, S) /\ x \in g.live /\ s = LeavesUnder(g, x)
      /\ s \in Seq(Leaves) /\ Len(s) \in Nat /\ s[k] \in LiveLeaves(g)
  BY RootedFacts
<1>2. Part(s, k - 1, k) = <<s[k]>> BY <1>1, OnePart
<1>3. LeavesUnder(g, s[k]) = <<s[k]>> BY <1>1, LeavesRules
<1>4. Bounds(s, k - 1, k) /\ k - 1 < k BY <1>1 DEF Bounds
<1>5. s[k] \in All(g, x)
  <2>1. s[k] \in ToSet(s) BY <1>1, ToSetFacts
  <2> QED BY <1>1, <2>1 DEF All
<1>6. s[k] \in g.live BY <1>1 DEF LiveLeaves
<1> QED BY <1>2, <1>3, <1>4, <1>5, <1>6 DEF Spot

(* Leaf k is under the node over the leaves a + 1 to e.                    *)
LEMMA LeafInSpot ==
  ASSUME NEW g, NEW S, NEW x, NEW s, NEW w, Rooted(g, S, x, s, w),
         NEW y, NEW a, NEW e, Spot(g, x, s, y, a, e), NEW k \in Nat, a < k, k <= e
  PROVE  k \in 1..Len(s) /\ s[k] \in All(g, y) /\ (k < e => s[k] # y)
<1>1. s \in Seq(Leaves) /\ Len(s) \in Nat BY RootedFacts
<1>2. /\ Bounds(s, a, e) /\ a < e /\ LeavesUnder(g, y) = Part(s, a, e)
      /\ a \in Nat /\ e \in Nat /\ e <= Len(s)
  BY DEF Spot, Bounds
<1>3. k \in 1..Len(s) BY <1>1, <1>2
<1> DEFINE q == Part(s, a, e)
<1>4. q \in Seq(Leaves) /\ Len(q) = e - a /\ \A i \in 1..(e - a) : q[i] = s[a + i]
  <2>1. Between(Leaves, s, a, e, q) BY <1>1, <1>2, PartOf
  <2> QED BY <2>1 DEF Between
<1> HIDE DEF q
<1>5. k - a \in 1..(e - a) /\ a + (k - a) = k BY <1>2
<1>6. q[k - a] = s[k] BY <1>4, <1>5
<1>7. k - a \in 1..Len(q) BY <1>4, <1>5
<1>8. s[k] \in ToSet(q) BY <1>4, <1>6, <1>7, ToSetFacts
<1>9. s[k] \in All(g, y) BY <1>2, <1>8 DEF All, q
<1>10. ASSUME k < e PROVE s[k] # y
  <2>1. Spot(g, x, s, s[k], k - 1, k) BY <1>3, LeafSpot
  <2>2. s[k] = y => k = e BY <2>1, SpotUnique
  <2> QED BY <1>10, <2>2
<1> QED BY <1>3, <1>9, <1>10

(* No leaf of the rope is empty.                                           *)
NoneEmpty(s, w) == \A j \in 1..Len(s) : w[j - 1] < w[j]

(* The slice v has what is left of c when it goes on at the next leaf.     *)
GoesOn(x, s, w, c, v) == v \in SliceRecs /\ SameSlice(c, v) /\ Placed(x, s, w, v)

LEMMA NextLeafGood ==
  ASSUME NEW S, NEW x, NEW s, NEW w, Rooted(h, S, x, s, w), NoneEmpty(s, w),
         NEW c \in SliceRecs, c.len > 0, c.reading = TRUE,
         NEW k \in 1..Len(s), c.leaf0 = s[k], c.start = w[k],
         NEW a, NEW e, Spot(h, x, s, c.hdr0, a, e), a < k, c.start + c.len <= w[e]
  PROVE  GoesOn(x, s, w, c, NextLeaf(c))
<1> DEFINE len == c.len
           st == c.start
<1>1. /\ h \in Heaps /\ Trees(h, S) /\ x \in h.live /\ x \in S
      /\ s \in Seq(Leaves) /\ Len(s) \in Nat
      /\ \A u, v \in 0..Len(s) : u <= v => w[u] <= w[v]
      /\ \A u \in 0..Len(s) : w[u] \in Nat
  BY RootedFacts
<1>2. st \in Nat /\ len \in Nat /\ len > 0 /\ c.hdr0 \in h.live BY DEF SliceRecs, Spot
<1>3. a \in Nat /\ e \in Nat /\ a < e /\ e <= Len(s) /\ e \in 0..Len(s) /\ w[e] \in Nat BY SpotFacts
<1>4. k < e
  <2> SUFFICES ASSUME e <= k PROVE FALSE BY <1>1, <1>3
  <2>1. k \in 0..Len(s) BY <1>1
  <2>2. w[e] <= w[k] BY <1>1, <1>3, <2>1
  <2>3. st = w[k] /\ st + len <= w[e] OBVIOUS
  <2> HIDE DEF st, len
  <2> QED BY <1>2, <1>3, <2>2, <2>3
<1>5. c.leaf0 \in Inside(c)
  <2>0. k \in Nat /\ k <= e BY <1>1, <1>3, <1>4
  <2>1. s[k] \in All(h, c.hdr0) /\ s[k] # c.hdr0 BY <1>4, <2>0, LeafInSpot
  <2> QED BY <1>1, <1>2, <2>1, InsideIs
<1>6. PICK f : Climbs(c, f) BY <1>1, <1>2, ClimbExists
<1> DEFINE Done(v) == GoesOn(x, s, w, c, v)
           T == {z \in h.live : \A u : z \in Inside(c) /\ Spot(h, x, s, z, u, k) => Done(f[z])}
<1>7. \A z \in Inside(c) : z \in h.live /\ z \notin S /\ h.parent[z] \in All(h, c.hdr0)
  BY <1>1, <1>2, InsideIs
<1> HIDE DEF Done
<1>8. ASSUME NEW z \in S PROVE z \in T
  <2>1. z \in h.live /\ z \notin Inside(c) BY <1>1, <1>7 DEF Trees
  <2> QED BY <2>1
<1>9. ASSUME NEW n \in Nodes(h), n \in T, NEW z \in Inside(c), z = h.left[n] \/ z = h.right[n],
             NEW u, Spot(h, x, s, z, u, k)
      PROVE  Done(f[z])
  <2>1. h.parent[z] = n /\ z # x /\ n \in h.live /\ h.left[n] # h.right[n]
        /\ h.right[n] \in h.live
    BY <1>1, <1>9, NodeFacts
  <2>2. SpotUp(h, x, s, z, n, u, k) BY <1>9, <2>1, UpHas
  <2>3. n \in All(h, x) /\ (n = c.hdr0 \/ n \in Inside(c))
    <3>1. n \in All(h, c.hdr0) BY <1>7, <2>1
    <3>2. n = c.hdr0 \/ n \in Inside(c) BY <1>1, <1>2, <3>1, InsideIs
    <3> QED BY <2>2, <3>2 DEF SpotUp
  <2>4. f[z] = UpFrom(c, z, f) BY <1>6 DEF Climbs
  <2>5. CASE z = h.left[n] /\ n = c.hdr0
    <3>1. PICK v : SpotKids(h, x, s, n, u, k, v) BY <2>1, <2>2, <2>5 DEF SpotUp
    <3>2. Spot(h, x, s, n, u, v) BY <2>3, <3>1, KidsUp
    <3>3. v = e BY <2>5, <3>2, SpotUnique
    <3>4. Spot(h, x, s, h.right[n], k, e) BY <3>1, <3>3 DEF SpotKids
    <3>5. Holds(w, k, e, st, len) /\ 0 = st - w[k]
      <4>1. k \in 0..Len(s) BY <1>1
      <4>2. w[k] \in Nat BY <1>1, <4>1
      <4> QED BY <1>2, <4>2 DEF Holds
    <3> DEFINE r1 == Over(c, h.right[n], 0)
    <3>6. r1 \in SliceRecs /\ SameSlice(c, r1) /\ HdrExact(x, s, w, r1)
      <4>1. 0 \in Nat /\ r1 = Over(c, h.right[n], 0) OBVIOUS
      <4> HIDE DEF r1
      <4>2. /\ r1 \in SliceRecs /\ SameSlice(c, r1)
            /\ \A u1, v1 : /\ c.len > 0 /\ Spot(h, x, s, h.right[n], u1, v1)
                           /\ Holds(w, u1, v1, c.start, c.len) /\ 0 = c.start - w[u1]
                           => HdrExact(x, s, w, r1) /\ HdrHolds(x, s, w, r1)
        BY <2>1, <4>1, OverFacts
      <4> QED BY <1>2, <3>4, <3>5, <4>2
    <3>7. f[z] = FindLeaf0(r1) BY <2>1, <2>4, <2>5 DEF UpFrom, OnRight
    <3> HIDE DEF r1
    <3>8. r1.len > 0 BY <3>6 DEF SameSlice
    <3> DEFINE v1 == FindLeaf0(r1)
    <3>9. /\ v1 \in SliceRecs /\ SameSlice(r1, v1) /\ v1.leaf0 # Null
          /\ AtLeaf(s, w, v1.start, v1.leaf0, v1.leafOff)
          /\ HdrExact(x, s, w, v1) /\ HdrHolds(x, s, w, v1)
      BY <3>6, <3>8, FindLeafFacts
    <3> HIDE DEF v1
    <3>10. SameSlice(c, v1) BY <3>6, <3>9 DEF SameSlice
    <3>11. Placed(x, s, w, v1) BY <3>9 DEF Placed
    <3> QED BY <3>7, <3>9, <3>10, <3>11 DEF Done, GoesOn, v1
  <2>6. CASE z = h.left[n] /\ n # c.hdr0
    <3>1. PICK v : SpotKids(h, x, s, n, u, k, v) BY <2>1, <2>2, <2>6 DEF SpotUp
    <3>2. Spot(h, x, s, h.right[n], k, v) BY <3>1 DEF SpotKids
    <3>3. Bounds(s, k, v) /\ k < v /\ LeavesUnder(h, h.right[n]) = Part(s, k, v) BY <3>2 DEF Spot
    <3>4. k + 1 \in 1..Len(s) /\ Part(s, k, v)[1] = s[k + 1] BY <1>1, <3>3, PartOf
    <3>5. Leftmost(h.right[n]) = s[k + 1] BY <3>3, <3>4 DEF Leftmost
    <3>6. f[z] = [c EXCEPT !.leaf0 = s[k + 1], !.leafOff = 0]
      BY <2>1, <2>4, <2>6, <3>5 DEF UpFrom, OnLeaf
    <3> DEFINE l == s[k + 1]
               v1 == f[z]
    <3>7. l \in h.live /\ l # Null
      <4>1. l \in LiveLeaves(h) BY <3>4, RootedFacts
      <4>2. l \in h.live BY <4>1 DEF LiveLeaves
      <4> QED BY <1>1, <4>2, HeapFacts
    <3>8. AtLeaf(s, w, st, l, 0)
      <4>1. k + 1 \in 1..Len(s) /\ (k + 1) - 1 = k /\ k \in 0..Len(s) BY <1>1, <3>4
      <4>2. w[k] < w[k + 1] BY <4>1 DEF NoneEmpty
      <4>3. w[k] \in Nat /\ st = w[k] /\ 0 = st - w[k] /\ w[k] <= st BY <1>1, <4>1
      <4> QED BY <4>1, <4>2, <4>3 DEF AtLeaf
    <3> HIDE DEF l, v1
    <3>9. v1 = [c EXCEPT !.leaf0 = l, !.leafOff = 0] BY <3>6 DEF l, v1
    <3>10. v1 \in SliceRecs BY <3>7, <3>9 DEF SliceRecs
    <3>11. /\ SameSlice(c, v1) /\ v1.leaf0 = l /\ v1.leafOff = 0 /\ v1.hdr0 = c.hdr0
           /\ v1.start = c.start /\ v1.len = c.len /\ v1.reading = c.reading
      BY <3>9 DEF SliceRecs, SameSlice
    <3>12. Holds(w, a, e, st, len)
      <4>1. a \in 0..Len(s) /\ k \in 0..Len(s) /\ a <= k BY <1>1, <1>3
      <4>2. w[a] <= w[k] BY <1>1, <4>1
      <4> QED BY <4>2 DEF Holds
    <3>13. HdrHolds(x, s, w, v1) BY <3>11, <3>12 DEF HdrHolds
    <3>14. Placed(x, s, w, v1) BY <3>7, <3>8, <3>11, <3>13 DEF Placed
    <3> QED BY <3>10, <3>11, <3>14 DEF Done, GoesOn, v1
  <2>7. CASE z = h.right[n] /\ z # h.left[n]
    <3>1. PICK f0 : SpotKids(h, x, s, n, f0, u, k) BY <2>1, <2>2, <2>7 DEF SpotUp
    <3>2. Spot(h, x, s, n, f0, k) BY <2>3, <3>1, KidsUp
    <3>3. n # c.hdr0
      <4>1. n = c.hdr0 => k = e BY <3>2, SpotUnique
      <4> QED BY <1>3, <1>4, <4>1
    <3>4. f[z] = f[n] BY <2>1, <2>4, <2>7, <3>3 DEF UpFrom
    <3> QED BY <1>9, <2>3, <3>2, <3>3, <3>4
  <2> QED BY <1>9, <2>1, <2>5, <2>6, <2>7
<1>10. ASSUME NEW n \in Nodes(h), n \in T PROVE h.left[n] \in T /\ h.right[n] \in T
  <2>1. h.left[n] \in h.live /\ h.right[n] \in h.live BY <1>1, NodeFacts
  <2> QED BY <1>9, <1>10, <2>1
<1> HIDE DEF T
<1>11. h.live \subseteq T BY <1>1, <1>8, <1>10, TopSets
<1>12. Spot(h, x, s, s[k], k - 1, k) BY LeafSpot
<1>13. Done(f[c.leaf0]) BY <1>5, <1>7, <1>11, <1>12 DEF T
<1>14. NextLeaf(c) = f[c.leaf0] BY <1>6 DEF Climbs
<1> QED BY <1>13, <1>14 DEF Done

-----------------------------------------------------------------------------
(* What the operations make of a slice                                     *)

LEMMA LeafKnown ==
  ASSUME NEW S, NEW x, NEW s, NEW w, Rooted(h, S, x, s, w),
         NEW c \in SliceRecs, c.len > 0, Placed(x, s, w, c), NEW k, k = WithLeaf0(c)
  PROVE  /\ k \in SliceRecs /\ SameSlice(c, k) /\ Placed(x, s, w, k) /\ k.leaf0 # Null
         /\ AtLeaf(s, w, c.start, k.leaf0, k.leafOff)
<1>1. CASE c.leaf0 # Null
  <2>1. k = c BY <1>1 DEF WithLeaf0
  <2> QED BY <1>1, <2>1 DEF Placed, SameSlice
<1>2. CASE c.leaf0 = Null
  <2>1. k = FindLeaf0(c) BY <1>2 DEF WithLeaf0
  <2>2. HdrExact(x, s, w, c) BY <1>2 DEF Placed
  <2>3. /\ k \in SliceRecs /\ SameSlice(c, k) /\ k.leaf0 # Null
        /\ AtLeaf(s, w, k.start, k.leaf0, k.leafOff)
        /\ HdrExact(x, s, w, k) /\ HdrHolds(x, s, w, k)
    BY <2>1, <2>2, FindLeafFacts
  <2>4. Placed(x, s, w, k) BY <2>3 DEF Placed
  <2> QED BY <2>3, <2>4 DEF SameSlice
<1> QED BY <1>1, <1>2

(* The chunk of slice c, and how much is left after it.                    *)
Chunk(s, w, c, k, n) ==
  /\ k \in SliceRecs /\ SameSlice(c, k) /\ AtLeaf(s, w, c.start, k.leaf0, k.leafOff)
  /\ NextChunk(c) = [leaf |-> k.leaf0, off |-> k.leafOff, len |-> n]
  /\ n \in Nat /\ n > 0 /\ n <= c.len /\ k.leafOff + n <= h.nelems[k.leaf0]
  /\ n = c.len \/ \E j \in 1..Len(s) : k.leaf0 = s[j] /\ c.start < w[j] /\ c.start + n = w[j]

LEMMA ChunkFacts ==
  ASSUME NEW S, NEW x, NEW s, NEW w, Rooted(h, S, x, s, w),
         NEW c \in SliceRecs, c.len > 0, Placed(x, s, w, c), NEW k, k = WithLeaf0(c)
  PROVE  Chunk(s, w, c, k, NextChunk(c).len)
<1>1. /\ k \in SliceRecs /\ SameSlice(c, k)
      /\ AtLeaf(s, w, c.start, k.leaf0, k.leafOff)
  BY LeafKnown
<1>2. PICK j \in 1..Len(s) : /\ k.leaf0 = s[j] /\ w[j - 1] <= c.start /\ c.start < w[j]
                             /\ k.leafOff = c.start - w[j - 1]
  BY <1>1 DEF AtLeaf
<1> DEFINE st == c.start
           len == c.len
           room == h.nelems[k.leaf0] - k.leafOff
           got == Min({len, room})
           q == NextChunk(c)
<1>3. st \in Nat /\ len \in Nat /\ len > 0 BY DEF SliceRecs
<1>4. Len(s) \in Nat /\ h.nelems[k.leaf0] = w[j] - w[j - 1] BY <1>2, RootedFacts
<1>5. j \in 0..Len(s) /\ j - 1 \in 0..Len(s) BY <1>4
<1>6. w[j] \in Nat /\ w[j - 1] \in Nat BY <1>5, RootedFacts
<1>7. q = [leaf |-> k.leaf0, off |-> k.leafOff, len |-> got] BY DEF NextChunk
<1>8. room = w[j] - st /\ room \in Nat /\ room > 0 /\ k.leafOff + room = h.nelems[k.leaf0]
      /\ k.leafOff \in Nat
  <2> DEFINE wj == w[j]
             wi == w[j - 1]
             of == k.leafOff
             ne == h.nelems[k.leaf0]
  <2>1. wj \in Nat /\ wi \in Nat /\ wi <= st /\ st < wj /\ of = st - wi /\ ne = wj - wi
    BY <1>2, <1>4, <1>6
  <2> HIDE DEF wj, wi, of, ne, st
  <2>2. ne - of = wj - st /\ ne - of \in Nat /\ ne - of > 0 /\ of + (ne - of) = ne /\ of \in Nat
    BY <1>3, <2>1
  <2> QED BY <2>2 DEF wj, of, ne, st
<1> HIDE DEF room, st, len, q
<1>9. got \in {len, room} /\ \A i \in {len, room} : got <= i
  <2>1. {len, room} \subseteq Nat /\ {len, room} # {} BY <1>3, <1>8
  <2> QED BY <2>1, MinIs
<1>10. q.len = got BY <1>7
<1> HIDE DEF got
<1>11. got \in Nat /\ got > 0 /\ got <= len /\ got <= room BY <1>3, <1>8, <1>9
<1>12. k.leafOff + got <= h.nelems[k.leaf0]
  <2> DEFINE of == k.leafOff
             ne == h.nelems[k.leaf0]
  <2>1. of \in Nat /\ of + room = ne BY <1>8
  <2> HIDE DEF of, ne
  <2>2. of + got <= ne BY <1>8, <1>11, <2>1
  <2> QED BY <2>2 DEF of, ne
<1>13. got = len \/ st + got = w[j]
  <2>1. CASE got = len BY <2>1
  <2>2. CASE got = room
    <3>1. st + room = w[j] BY <1>3, <1>6, <1>8
    <3> QED BY <2>2, <3>1
  <2> QED BY <1>9, <2>1, <2>2
<1>14. got = len \/ \E i \in 1..Len(s) : k.leaf0 = s[i] /\ st < w[i] /\ st + got = w[i]
  BY <1>2, <1>13 DEF st
<1> QED BY <1>1, <1>7, <1>10, <1>11, <1>12, <1>14 DEF Chunk, st, len, q

(* The slice v goes on with slice c's elements from some later one on.     *)
Follows(x, s, w, c, v) ==
  /\ v \in SliceRecs /\ v.rpa = c.rpa
  /\ v.len > 0 => Placed(x, s, w, v)

LEMMA AfterChunkGood ==
  ASSUME NEW S, NEW x, NEW s, NEW w, Rooted(h, S, x, s, w), NoneEmpty(s, w),
         NEW c \in SliceRecs, c.len > 0 => Placed(x, s, w, c)
  PROVE  Follows(x, s, w, c, AfterChunk(c))
<1> DEFINE k == WithLeaf0(c)
           got == NextChunk(c).len
           c2 == [k EXCEPT !.start = @ + got, !.len = @ - got, !.reading = TRUE]
           r == AfterChunk(c)
<1>1. c.len \in Nat /\ c.start \in Nat BY DEF SliceRecs
<1>2. CASE c.len = 0
  <2>1. r = [c EXCEPT !.reading = TRUE] BY <1>2 DEF AfterChunk
  <2> HIDE DEF r
  <2>2. r \in SliceRecs /\ r.rpa = c.rpa /\ r.len = c.len BY <2>1 DEF SliceRecs
  <2>3. ~ (r.len > 0) BY <1>2, <2>2
  <2> QED BY <2>2, <2>3 DEF Follows, r
<1>3. CASE c.len > 0
  <2>1. Placed(x, s, w, c) BY <1>3
  <2> HIDE DEF k
  <2>2. Chunk(s, w, c, k, got) BY <1>3, <2>1, ChunkFacts DEF k
  <2>3. /\ k \in SliceRecs /\ SameSlice(c, k) /\ Placed(x, s, w, k) /\ k.leaf0 # Null
        /\ AtLeaf(s, w, c.start, k.leaf0, k.leafOff)
    BY <1>3, <2>1, LeafKnown DEF k
  <2>4. r = IF c2.len = 0 THEN c2 ELSE NextLeaf(c2)
    <3>1. c.len # 0 BY <1>1, <1>3
    <3> QED BY <1>3, <3>1 DEF AfterChunk, k
  <2> HIDE DEF got, r
  <2>5. got \in Nat /\ got > 0 /\ got <= c.len BY <2>2 DEF Chunk
  <2> DEFINE st == c.start + got
             len == c.len - got
  <2>6. st \in Nat /\ len \in Nat BY <1>1, <2>5
  <2>7. /\ c2.rpa = c.rpa /\ c2.start = st /\ c2.len = len /\ c2.reading = TRUE
        /\ c2.hdr0 = k.hdr0 /\ c2.leaf0 = k.leaf0
    BY <2>3 DEF SliceRecs, SameSlice
  <2>8. c2 \in SliceRecs
    <3>1. k.start = c.start /\ k.len = c.len BY <2>3 DEF SameSlice
    <3>2. c2 = [k EXCEPT !.start = st, !.len = len, !.reading = TRUE] BY <2>3, <3>1 DEF SliceRecs
    <3> HIDE DEF st, len, c2
    <3> QED BY <2>3, <2>6, <3>2 DEF SliceRecs
  <2> HIDE DEF c2
  <2>9. CASE len = 0
    <3>1. r = c2 /\ ~ (r.len > 0) BY <2>4, <2>7, <2>9
    <3> QED BY <2>7, <2>8, <3>1 DEF Follows, r
  <2>10. CASE len # 0
    <3>1. r = NextLeaf(c2) /\ c2.len > 0 BY <2>4, <2>6, <2>7, <2>10
    <3>2. PICK j \in 1..Len(s) : k.leaf0 = s[j] /\ c.start < w[j] /\ c.start + got = w[j]
      <4>1. got # c.len BY <1>1, <2>10
      <4> QED BY <2>2, <4>1 DEF Chunk
    <3>3. PICK a, e : Spot(h, x, s, k.hdr0, a, e) /\ Holds(w, a, e, k.start, k.len)
      BY <2>3 DEF Placed, HdrHolds
    <3>4. w[a] <= c.start /\ c.start + c.len <= w[e] BY <2>3, <3>3 DEF Holds, SameSlice
    <3>5. a \in 0..Len(s) /\ e \in 0..Len(s) /\ w[a] \in Nat /\ w[e] \in Nat /\ Len(s) \in Nat
      BY <3>3, SpotFacts, RootedFacts
    <3>6. a < j
      <4> SUFFICES ASSUME j <= a PROVE FALSE BY <3>5
      <4>1. j \in 0..Len(s) BY <3>5
      <4>2. w[j] <= w[a] /\ w[j] \in Nat BY <3>5, <4>1, RootedFacts
      <4> QED BY <1>1, <3>2, <3>4, <3>5, <4>2
    <3>7. c2.start + c2.len <= w[e]
      <4>1. (c.start + got) + (c.len - got) = c.start + c.len BY <1>1, <2>5
      <4> QED BY <2>7, <3>4, <4>1
    <3>8. c2.leaf0 = s[j] /\ c2.start = w[j] /\ Spot(h, x, s, c2.hdr0, a, e) BY <2>7, <3>2, <3>3
    <3>9. GoesOn(x, s, w, c2, NextLeaf(c2))
      BY <2>7, <2>8, <3>1, <3>6, <3>7, <3>8, NextLeafGood
    <3> QED BY <2>7, <3>1, <3>9 DEF Follows, GoesOn, SameSlice, r
  <2> QED BY <2>9, <2>10
<1> QED BY <1>1, <1>2, <1>3

LEMMA MoveStartGood ==
  ASSUME NEW S, NEW x, NEW s, NEW w, Rooted(h, S, x, s, w),
         NEW c \in SliceRecs, c.len > 0, c.reading = FALSE, Placed(x, s, w, c)
  PROVE  Follows(x, s, w, c, MoveStart(WithLeaf0(c)))
<1> DEFINE k == WithLeaf0(c)
           c1 == [k EXCEPT !.start = @ + 1, !.len = @ - 1]
           st == c.start + 1
           len == c.len - 1
           r == MoveStart(k)
<1>1. /\ k \in SliceRecs /\ SameSlice(c, k) /\ Placed(x, s, w, k)
  BY LeafKnown
<1> HIDE DEF k
<1>2. r = IF c1.len = 0 THEN c1 ELSE FindLeaf0(Over(c1, k.hdr0, k.off + 1)) BY DEF MoveStart
<1> HIDE DEF r
<1>3. c.len \in Nat /\ c.start \in Nat /\ st \in Nat /\ len \in Nat BY DEF SliceRecs
<1>4. /\ c1.rpa = c.rpa /\ c1.start = st /\ c1.len = len /\ c1.reading = FALSE /\ c1 \in SliceRecs
  <2>1. k.start = c.start /\ k.len = c.len /\ k.rpa = c.rpa /\ k.reading = FALSE
    BY <1>1 DEF SameSlice
  <2>2. c1 = [k EXCEPT !.start = st, !.len = len] BY <1>1, <2>1 DEF SliceRecs
  <2> HIDE DEF st, len, c1
  <2> QED BY <1>1, <1>3, <2>1, <2>2 DEF SliceRecs
<1> HIDE DEF c1
<1>5. CASE len = 0
  <2>1. r = c1 /\ ~ (r.len > 0) BY <1>2, <1>4, <1>5
  <2> QED BY <1>4, <2>1 DEF Follows, r, k
<1>6. CASE len # 0
  <2>1. HdrExact(x, s, w, k) BY <1>1 DEF Placed, SameSlice
  <2>2. PICK a, e : /\ Spot(h, x, s, k.hdr0, a, e) /\ Holds(w, a, e, k.start, k.len)
                    /\ k.off = k.start - w[a]
    BY <2>1 DEF HdrExact
  <2>3. k.start = c.start /\ k.len = c.len BY <1>1 DEF SameSlice
  <2>4. w[a] \in Nat /\ w[e] \in Nat /\ w[a] <= c.start /\ c.start + c.len <= w[e]
    BY <2>2, <2>3, SpotFacts DEF Holds
  <2>5. Holds(w, a, e, st, len) /\ k.off + 1 = st - w[a] /\ k.off + 1 \in Nat /\ len > 0
    <3> DEFINE wa == w[a]
               we == w[e]
               u == c.start
               n == c.len
               of == k.off
    <3>1. wa \in Nat /\ we \in Nat /\ u \in Nat /\ n \in Nat /\ wa <= u /\ u + n <= we /\ of = u - wa
      BY <1>3, <2>2, <2>3, <2>4
    <3>2. n - 1 # 0 /\ n > 0 BY <1>6
    <3> HIDE DEF wa, we, u, n, of
    <3>3. /\ wa <= u + 1 /\ (u + 1) + (n - 1) <= we /\ of + 1 = (u + 1) - wa /\ of + 1 \in Nat
          /\ n - 1 > 0
      BY <3>1, <3>2
    <3> QED BY <3>3 DEF wa, we, u, n, of, Holds
  <2> DEFINE d == k.off + 1
             v == Over(c1, k.hdr0, d)
             z == FindLeaf0(v)
  <2>6. c1.len > 0 /\ Holds(w, a, e, c1.start, c1.len) /\ d = c1.start - w[a] /\ d \in Nat
        /\ k.hdr0 \in h.live
    BY <1>1, <1>4, <2>2, <2>5 DEF SliceRecs, Spot
  <2>7. r = z
    <3>1. c1.len # 0 BY <1>4, <1>6
    <3> QED BY <1>2, <3>1
  <2> HIDE DEF d, len, st
  <2>8. v = Over(c1, k.hdr0, d) OBVIOUS
  <2> HIDE DEF v
  <2>9. v \in SliceRecs /\ SameSlice(c1, v)
        /\ \A a1, e1 : /\ c1.len > 0 /\ Spot(h, x, s, k.hdr0, a1, e1)
                       /\ Holds(w, a1, e1, c1.start, c1.len) /\ d = c1.start - w[a1]
                       => HdrExact(x, s, w, v) /\ HdrHolds(x, s, w, v)
    BY <1>4, <2>6, <2>8, OverFacts
  <2>10. HdrExact(x, s, w, v) BY <2>2, <2>6, <2>9
  <2>11. v.len > 0 BY <2>6, <2>9 DEF SameSlice
  <2> HIDE DEF z
  <2>12. z = FindLeaf0(v) BY DEF z
  <2>13. /\ z \in SliceRecs /\ SameSlice(v, z) /\ z.leaf0 # Null
         /\ AtLeaf(s, w, z.start, z.leaf0, z.leafOff)
         /\ HdrExact(x, s, w, z) /\ HdrHolds(x, s, w, z)
    BY <2>9, <2>10, <2>11, <2>12, FindLeafFacts
  <2>14. Placed(x, s, w, z) BY <2>13 DEF Placed
  <2>15. z.rpa = c.rpa BY <1>4, <2>9, <2>13 DEF SameSlice
  <2> QED BY <2>7, <2>13, <2>14, <2>15 DEF Follows, r, k
<1> QED BY <1>3, <1>5, <1>6

(* A slice made by a search for its elements below a node that holds them. *)
LEMMA OverGood ==
  ASSUME NEW S, NEW x, NEW s, NEW w, Rooted(h, S, x, s, w),
         NEW c \in SliceRecs, c.reading = FALSE, NEW y \in h.live, NEW d \in Nat,
         c.len > 0 => \E a, e : /\ Spot(h, x, s, y, a, e) /\ Holds(w, a, e, c.start, c.len)
                                /\ d = c.start - w[a]
  PROVE  Follows(x, s, w, c, Over(c, y, d))
<1> DEFINE v == Over(c, y, d)
<1>1. v = Over(c, y, d) OBVIOUS
<1> HIDE DEF v
<1>2. v \in SliceRecs /\ SameSlice(c, v) /\ v.leaf0 = Null
      /\ \A a1, e1 : /\ c.len > 0 /\ Spot(h, x, s, y, a1, e1)
                     /\ Holds(w, a1, e1, c.start, c.len) /\ d = c.start - w[a1]
                     => HdrExact(x, s, w, v) /\ HdrHolds(x, s, w, v)
  BY <1>1, OverFacts
<1>3. v.rpa = c.rpa /\ v.len = c.len /\ v.reading = FALSE BY <1>2 DEF SameSlice
<1>4. ASSUME v.len > 0 PROVE Placed(x, s, w, v)
  <2>1. HdrExact(x, s, w, v) /\ HdrHolds(x, s, w, v) BY <1>2, <1>3, <1>4
  <2> QED BY <1>2, <1>3, <2>1 DEF Placed
<1> QED BY <1>2, <1>3, <1>4 DEF Follows, v

LEMMA SplitGood ==
  ASSUME NEW S, NEW x, NEW s, NEW w, Rooted(h, S, x, s, w),
         NEW c \in SliceRecs, c.len > 0, c.reading = FALSE, Placed(x, s, w, c),
         NEW l1, l1 = c.len \div 2
  PROVE  /\ Follows(x, s, w, c, Over([c EXCEPT !.len = l1], c.hdr0, c.off))
         /\ Follows(x, s, w, c,
                  Over([c EXCEPT !.start = @ + l1, !.len = @ - l1], c.hdr0, c.off + l1))
<1> DEFINE first == [c EXCEPT !.len = l1]
           second == [c EXCEPT !.start = @ + l1, !.len = @ - l1]
           st == c.start
           len == c.len
           of == c.off
<1>1. st \in Nat /\ len \in Nat /\ len > 0 /\ of \in Nat BY DEF SliceRecs
<1>2. l1 \in Nat /\ l1 <= len /\ len - l1 \in Nat /\ st + l1 \in Nat /\ of + l1 \in Nat
  <2>1. l1 = len \div 2 OBVIOUS
  <2> HIDE DEF len, st, of
  <2> QED BY <1>1, <2>1
<1>3. first \in SliceRecs /\ first.rpa = c.rpa /\ first.start = st /\ first.len = l1
      /\ first.reading = FALSE
  BY <1>2 DEF SliceRecs
<1>4. second \in SliceRecs /\ second.rpa = c.rpa /\ second.start = st + l1 /\ second.len = len - l1
      /\ second.reading = FALSE
  BY <1>2 DEF SliceRecs
<1>5. PICK a, e : Spot(h, x, s, c.hdr0, a, e) /\ Holds(w, a, e, st, len) /\ of = st - w[a]
  BY DEF Placed, HdrExact
<1>6. w[a] \in Nat /\ w[e] \in Nat /\ w[a] <= st /\ st + len <= w[e] BY <1>5, SpotFacts DEF Holds
<1> HIDE DEF first, second, st, len, of
<1>7. Holds(w, a, e, st, l1) /\ Holds(w, a, e, st + l1, len - l1) /\ of + l1 = (st + l1) - w[a]
  <2> DEFINE wa == w[a]
             we == w[e]
  <2>1. wa \in Nat /\ we \in Nat /\ wa <= st /\ st + len <= we /\ of = st - wa BY <1>5, <1>6
  <2> HIDE DEF wa, we
  <2>2. wa <= st /\ st + l1 <= we /\ wa <= st + l1 /\ (st + l1) + (len - l1) <= we
        /\ of + l1 = (st + l1) - wa
    BY <1>1, <1>2, <2>1
  <2> QED BY <2>2 DEF wa, we, Holds
<1>8. Follows(x, s, w, first, Over(first, c.hdr0, of)) BY <1>1, <1>3, <1>5, <1>7, OverGood DEF Spot
<1>9. Follows(x, s, w, second, Over(second, c.hdr0, of + l1))
  BY <1>1, <1>2, <1>4, <1>5, <1>7, OverGood DEF Spot
<1>10. Follows(x, s, w, c, Over(first, c.hdr0, of)) /\ Follows(x, s, w, c, Over(second, c.hdr0, of + l1))
  BY <1>3, <1>4, <1>8, <1>9 DEF Follows
<1> QED BY <1>10 DEF first, second, of
-----------------------------------------------------------------------------
(* The invariant                                                           *)

LeavesOf(r) == LeavesUnder(h, h.root[r])

(* The elements of a slice are in a rope without empty leaves; while it    *)
(* has any, what it remembers is about them.                               *)
SliceGood(c) ==
  /\ c \in SliceRecs /\ c.rpa \in Open(h) /\ NoEmptyLeaf(c.rpa)
  /\ c.len > 0 => Placed(h.root[c.rpa], LeavesOf(c.rpa), Weight(h, LeavesOf(c.rpa)), c)
SliceInv ==
  /\ RopeInv
  /\ DOMAIN sl = Slices /\ \A x \in InUse : SliceGood(sl[x])

LEMMA NoneIsEmpty ==
  ASSUME NEW g, NEW S, NEW x, NEW s, NEW w, Rooted(g, S, x, s, w),
         \A l \in ToSet(s) : g.nelems[l] > 0
  PROVE  NoneEmpty(s, w)
<1>1. s \in Seq(Leaves) /\ Len(s) \in Nat BY RootedFacts
<1>2. \A j \in 0..Len(s) : w[j] \in Nat BY RootedFacts
<1>3. \A j \in 1..Len(s) : g.nelems[s[j]] = w[j] - w[j - 1] BY RootedFacts
<1>4. ASSUME NEW j \in 1..Len(s) PROVE w[j - 1] < w[j]
  <2>1. g.nelems[s[j]] > 0 BY <1>1, ToSetFacts
  <2>2. j \in 0..Len(s) /\ j - 1 \in 0..Len(s) BY <1>1
  <2>3. w[j] \in Nat /\ w[j - 1] \in Nat BY <1>2, <2>2
  <2> QED BY <1>3, <2>1, <2>3
<1> QED BY <1>4 DEF NoneEmpty

LEMMA RopeOfSlice ==
  ASSUME Good(h), NEW r \in Open(h), NoEmptyLeaf(r),
         NEW s, s = LeavesOf(r), NEW w, w = Weight(h, s)
  PROVE  Rooted(h, Roots(h), h.root[r], s, w) /\ NoneEmpty(s, w)
<1>1. Sound(h, Roots(h)) /\ h.root[r] \in Roots(h) BY GoodFacts DEF Good
<1>2. Rooted(h, Roots(h), h.root[r], s, w) BY <1>1 DEF Rooted, LeavesOf
<1>3. \A l \in ToSet(s) : h.nelems[l] > 0 BY DEF NoEmptyLeaf, LeavesOf
<1> QED BY <1>2, <1>3, NoneIsEmpty

(* What the operations make of a good slice is good.                       *)
LEMMA FollowsGood ==
  ASSUME NEW c, c \in SliceRecs, c.rpa \in Open(h), NoEmptyLeaf(c.rpa),
         NEW v, Follows(h.root[c.rpa], LeavesOf(c.rpa), Weight(h, LeavesOf(c.rpa)), c, v)
  PROVE  SliceGood(v)
BY DEF Follows, SliceGood

LEMMA InitStep ==
  ASSUME SliceInv, NEW r \in open, NoEmptyLeaf(r), NEW idx \in Nat, NEW len \in Nat,
         idx + len <= Size(h, r),
         NEW c, c = [rpa |-> r, start |-> idx, len |-> len, hdr0 |-> Null, off |-> 0,
                     leaf0 |-> Null, leafOff |-> 0, reading |-> FALSE]
  PROVE  SliceGood(Over(c, h.root[r], idx))
<1> DEFINE x == h.root[r]
           s == LeavesOf(r)
           w == Weight(h, s)
<1>1. Good(h) /\ r \in Open(h) /\ r \in Ropes BY DEF SliceInv, RopeInv, open, Open
<1>2. x \in h.live BY <1>1, GoodFacts
<1>3. Rooted(h, Roots(h), x, s, w) BY <1>1, RopeOfSlice
<1>4. c \in SliceRecs /\ c.rpa = r /\ c.start = idx /\ c.len = len /\ c.reading = FALSE
  BY <1>1 DEF SliceRecs
<1>5. Size(h, r) = h.nelems[x] BY DEF Size
<1> HIDE DEF x, s, w
<1>6. Spot(h, x, s, x, 0, Len(s)) /\ Holds(w, 0, Len(s), idx, len) /\ idx = idx - w[0]
  <2>1. h.nelems[x] = w[Len(s)] /\ w[0] = 0 BY <1>3, RootedFacts
  <2>2. Spot(h, x, s, x, 0, Len(s)) BY <1>3, SpotRoot
  <2>3. w[0] <= idx /\ idx + len <= w[Len(s)] /\ idx = idx - w[0] BY <1>5, <2>1
  <2> QED BY <2>2, <2>3 DEF Holds
<1>7. Follows(x, s, w, c, Over(c, x, idx))
  <2>1. \E a, e : /\ Spot(h, x, s, x, a, e) /\ Holds(w, a, e, c.start, c.len)
                  /\ idx = c.start - w[a]
    BY <1>4, <1>6
  <2> QED BY <1>2, <1>3, <1>4, <2>1, OverGood
<1> QED BY <1>1, <1>4, <1>7, FollowsGood DEF x, s, w

(* A slice in use, with its rope.                                          *)
LEMMA UsedFacts ==
  ASSUME SliceInv, NEW x \in InUse, NEW c, c = sl[x],
         NEW s, s = LeavesOf(c.rpa), NEW w, w = Weight(h, s)
  PROVE  /\ c \in SliceRecs /\ c.rpa \in Open(h) /\ NoEmptyLeaf(c.rpa)
         /\ Rooted(h, Roots(h), h.root[c.rpa], s, w) /\ NoneEmpty(s, w)
         /\ c.len > 0 => Placed(h.root[c.rpa], s, w, c)
<1>1. Good(h) /\ SliceGood(c) BY DEF SliceInv, RopeInv
<1>2. c \in SliceRecs /\ c.rpa \in Open(h) /\ NoEmptyLeaf(c.rpa) BY <1>1 DEF SliceGood
<1>3. Rooted(h, Roots(h), h.root[c.rpa], s, w) /\ NoneEmpty(s, w) BY <1>1, <1>2, RopeOfSlice
<1> QED BY <1>1, <1>2, <1>3 DEF SliceGood

LEMMA SliceSteps ==
  ASSUME SliceInv, NEW x \in InUse, NEW c, c = sl[x]
  PROVE  /\ SliceGood(AfterChunk(c))
         /\ c.reading = FALSE /\ c.len > 0 =>
              /\ SliceGood(MoveStart(WithLeaf0(c)))
              /\ \A l1 : l1 = c.len \div 2 =>
                   /\ SliceGood(Over([c EXCEPT !.len = l1], c.hdr0, c.off))
                   /\ SliceGood(Over([c EXCEPT !.start = @ + l1, !.len = @ - l1], c.hdr0, c.off + l1))
<1> DEFINE s == LeavesOf(c.rpa)
           w == Weight(h, s)
           y == h.root[c.rpa]
<1>1. /\ c \in SliceRecs /\ c.rpa \in Open(h) /\ NoEmptyLeaf(c.rpa)
      /\ Rooted(h, Roots(h), y, s, w) /\ NoneEmpty(s, w)
      /\ c.len > 0 => Placed(y, s, w, c)
  BY UsedFacts
<1>2. \A v : Follows(y, s, w, c, v) => SliceGood(v) BY <1>1, FollowsGood
<1> HIDE DEF s, w, y
<1>3. Follows(y, s, w, c, AfterChunk(c)) BY <1>1, AfterChunkGood
<1>4. ASSUME c.reading = FALSE, c.len > 0, NEW l1, l1 = c.len \div 2
      PROVE  /\ Follows(y, s, w, c, MoveStart(WithLeaf0(c)))
             /\ Follows(y, s, w, c, Over([c EXCEPT !.len = l1], c.hdr0, c.off))
             /\ Follows(y, s, w, c,
                      Over([c EXCEPT !.start = @ + l1, !.len = @ - l1], c.hdr0, c.off + l1))
  <2>1. Placed(y, s, w, c) BY <1>1, <1>4
  <2>2. Follows(y, s, w, c, MoveStart(WithLeaf0(c))) BY <1>1, <1>4, <2>1, MoveStartGood
  <2>3. /\ Follows(y, s, w, c, Over([c EXCEPT !.len = l1], c.hdr0, c.off))
        /\ Follows(y, s, w, c,
                 Over([c EXCEPT !.start = @ + l1, !.len = @ - l1], c.hdr0, c.off + l1))
    BY <1>1, <1>4, <2>1, SplitGood
  <2> QED BY <2>2, <2>3
<1> QED BY <1>2, <1>3, <1>4

LEMMA SliceNextStep == SliceInv /\ [SliceNext]_sliceVars => SliceInv'
<1> SUFFICES ASSUME SliceInv, [SliceNext]_sliceVars PROVE SliceInv' OBVIOUS
<1>1. RopeInv /\ DOMAIN sl = Slices BY DEF SliceInv
(* Slices that are as they were, or new ones that are good, of ropes that  *)
(* nobody touched.                                                         *)
<1>2. ASSUME UNCHANGED vars, DOMAIN sl' = Slices,
             \A x \in Slices : sl'[x] = sl[x] \/ sl'[x] = NoSlice \/ SliceGood(sl'[x])
      PROVE  SliceInv'
  <2>1. h' = h /\ prep' = prep BY <1>2 DEF vars
  <2>2. RopeInv' BY <1>1, <2>1 DEF RopeInv
  <2>3. \A c : SliceGood(c) => SliceGood(c)'
    BY <2>1 DEF SliceGood, SliceRecs, LeavesOf, NoEmptyLeaf, Placed, HdrHolds, HdrExact
  <2>4. ASSUME NEW x \in InUse' PROVE SliceGood(sl[x])'
    <3>1. x \in Slices /\ sl'[x] # NoSlice BY <2>4 DEF InUse
    <3>2. SliceGood(sl'[x])
      <4>1. CASE sl'[x] = sl[x]
        <5>1. x \in InUse BY <3>1, <4>1 DEF InUse
        <5> QED BY <4>1, <5>1 DEF SliceInv
      <4> QED BY <1>2, <3>1, <4>1
    <3> QED BY <2>3, <3>2
  <2> QED BY <1>2, <2>2, <2>4 DEF SliceInv
<1>3. CASE UNCHANGED sliceVars
  <2>1. UNCHANGED vars /\ sl' = sl BY <1>3 DEF sliceVars
  <2> QED BY <1>1, <1>2, <2>1
<1>4. CASE InUse = {} /\ Next /\ UNCHANGED sl
  <2>1. RopeInv' BY <1>1, <1>4, NextStep DEF RopeInv, Step
  <2>2. InUse' = {} /\ DOMAIN sl' = Slices BY <1>1, <1>4 DEF InUse
  <2> QED BY <2>1, <2>2 DEF SliceInv
<1>5. ASSUME NEW x \in Slices, NEW r \in open, NEW idx \in 0..Size(h, r), NEW len \in 0..Size(h, r),
             SliceInit(x, r, idx, len)
      PROVE  SliceInv'
  <2> DEFINE c == [rpa |-> r, start |-> idx, len |-> len, hdr0 |-> Null, off |-> 0,
                   leaf0 |-> Null, leafOff |-> 0, reading |-> FALSE]
  <2>1. /\ NoEmptyLeaf(r) /\ idx + len <= Size(h, r) /\ UNCHANGED vars
        /\ sl' = [sl EXCEPT ![x] = Over(c, h.root[r], idx)]
    BY <1>5 DEF SliceInit
  <2>2. idx \in Nat /\ len \in Nat OBVIOUS
  <2>3. SliceGood(Over(c, h.root[r], idx)) BY <2>1, <2>2, InitStep
  <2> HIDE DEF c
  <2> QED BY <1>1, <1>2, <2>1, <2>3
<1>6. ASSUME NEW x \in Slices, SliceGetNextChunk(x) PROVE SliceInv'
  <2>1. x \in InUse /\ UNCHANGED vars /\ sl' = [sl EXCEPT ![x] = AfterChunk(sl[x])]
    BY <1>6 DEF SliceGetNextChunk
  <2>2. SliceGood(AfterChunk(sl[x])) BY <2>1, SliceSteps
  <2> QED BY <1>1, <1>2, <2>1, <2>2
<1>7. ASSUME NEW x \in Slices, SliceGetNext(x) PROVE SliceInv'
  <2>1. /\ x \in InUse /\ ~ sl[x].reading /\ sl[x].len > 0 /\ UNCHANGED vars
        /\ sl' = [sl EXCEPT ![x] = MoveStart(WithLeaf0(sl[x]))]
    BY <1>7 DEF SliceGetNext
  <2>2. sl[x].reading = FALSE BY <2>1, UsedFacts DEF SliceRecs
  <2>3. SliceGood(MoveStart(WithLeaf0(sl[x]))) BY <2>1, <2>2, SliceSteps
  <2> QED BY <1>1, <1>2, <2>1, <2>3
<1>8. ASSUME NEW x \in Slices, NEW y \in Slices, NEW z \in Slices, SliceSplit(x, y, z)
      PROVE  SliceInv'
  <2> DEFINE c == sl[x]
             l1 == c.len \div 2
             u == Over([c EXCEPT !.len = l1], c.hdr0, c.off)
             v == Over([c EXCEPT !.start = @ + l1, !.len = @ - l1], c.hdr0, c.off + l1)
  <2>1. /\ x \in InUse /\ ~ c.reading /\ c.len > 0 /\ y # z /\ UNCHANGED vars
        /\ sl' = [sl EXCEPT ![y] = u, ![z] = v]
    BY <1>8 DEF SliceSplit
  <2>2. c.reading = FALSE BY <2>1, UsedFacts DEF SliceRecs
  <2>3. SliceGood(u) /\ SliceGood(v) BY <2>1, <2>2, SliceSteps
  <2> HIDE DEF u, v
  <2> QED BY <1>1, <1>2, <2>1, <2>3
<1>9. ASSUME NEW x \in Slices, SliceDrop(x) PROVE SliceInv'
  <2>1. UNCHANGED vars /\ sl' = [sl EXCEPT ![x] = NoSlice] BY <1>9 DEF SliceDrop
  <2> QED BY <1>1, <1>2, <2>1
<1> QED BY <1>3, <1>4, <1>5, <1>6, <1>7, <1>8, <1>9 DEF SliceNext

LEMMA SliceInvHolds == SliceSpec => []SliceInv
<1>1. SliceSetUp => SliceInv
  <2> SUFFICES ASSUME SliceSetUp PROVE SliceInv OBVIOUS
  <2>1. RopeInv BY InitGood DEF SliceSetUp, Init, RopeInv
  <2>2. InUse = {} /\ DOMAIN sl = Slices BY DEF SliceSetUp, InUse
  <2> QED BY <2>1, <2>2 DEF SliceInv
<1>2. SliceInv /\ [SliceNext]_sliceVars => SliceInv' BY SliceNextStep
<1> QED BY <1>1, <1>2, PTL DEF SliceSpec
-----------------------------------------------------------------------------
(* The theorems                                                            *)

LEMMA ChunksRight ==
  ASSUME SliceInv
  PROVE  NextChunkIsNextElements
<1>1. ASSUME NEW x \in InUse, sl[x].len > 0
      PROVE  LET c == NextChunk(sl[x])
             IN  /\ [hdr |-> c.leaf, off |-> c.off] = Locate(sl[x].rpa, sl[x].start)
                 /\ c.len > 0 /\ c.off + c.len <= h.nelems[c.leaf]
  <2> DEFINE c == sl[x]
             r == c.rpa
             s == LeavesOf(r)
             w == Weight(h, s)
             k == WithLeaf0(c)
             q == NextChunk(c)
             n == q.len
  <2>1. c \in SliceRecs /\ Rooted(h, Roots(h), h.root[r], s, w) /\ Placed(h.root[r], s, w, c)
    BY <1>1, UsedFacts
  <2>2. Chunk(s, w, c, k, n) BY <1>1, <2>1, ChunkFacts
  <2> HIDE DEF s, w, k, q
  <2>3. /\ AtLeaf(s, w, c.start, k.leaf0, k.leafOff)
        /\ q = [leaf |-> k.leaf0, off |-> k.leafOff, len |-> n]
        /\ n > 0 /\ k.leafOff + n <= h.nelems[k.leaf0]
    BY <2>2 DEF Chunk, q
  <2>4. c.start \in Nat BY <2>1 DEF SliceRecs
  <2>5. Locate(r, c.start) = [hdr |-> k.leaf0, off |-> k.leafOff]
    <3> HIDE DEF c, r
    <3>1. IsAt(Locate(r, c.start), k.leaf0, k.leafOff) BY <2>1, <2>3, <2>4, LocateIs
    <3> QED BY <3>1 DEF IsAt
  <2>6. q.leaf = k.leaf0 /\ q.off = k.leafOff BY <2>3
  <2> QED BY <2>3, <2>5, <2>6 DEF q
<1> QED BY <1>1 DEF NextChunkIsNextElements

(* xslice_getnextchunk returns the elements that come next, in ropes of    *)
(* any shape without empty leaves, for slices used as the programs do:     *)
(* split (rpa_slice_split, which searches on from hdr0), then read by      *)
(* single elements (rpa_slice_move_start), then by chunks, after which     *)
(* they are not split again, since hdr0_off is old then (rope_array.h:448).*)
(* The climb of rpa_slice_getnextchunk always goes on at the next leaf.    *)
THEOREM ChunksFollowEachOther == SliceSpec => []NextChunkIsNextElements
<1>1. SliceInv => NextChunkIsNextElements BY ChunksRight
<1> QED BY <1>1, SliceInvHolds, PTL

LEMMA HdrsRight ==
  ASSUME SliceInv
  PROVE  HdrCoversSlice
<1>1. ASSUME NEW x \in InUse, sl[x].len > 0
      PROVE  /\ ~ sl[x].reading =>
                  [hdr |-> sl[x].hdr0, off |-> sl[x].off]
                    = GetHdrRange(h, h.root[sl[x].rpa], sl[x].start, sl[x].len)
             /\ sl[x].leaf0 # Null =>
                  [hdr |-> sl[x].leaf0, off |-> sl[x].leafOff] = Locate(sl[x].rpa, sl[x].start)
  <2> DEFINE c == sl[x]
             r == c.rpa
             s == LeavesOf(r)
             w == Weight(h, s)
  <2>1. c \in SliceRecs /\ Rooted(h, Roots(h), h.root[r], s, w) /\ Placed(h.root[r], s, w, c)
    BY <1>1, UsedFacts
  <2> HIDE DEF s, w
  <2>2. ~ c.reading => [hdr |-> c.hdr0, off |-> c.off] = GetHdrRange(h, h.root[r], c.start, c.len)
    BY <2>1 DEF Placed, HdrExact
  <2>3. ASSUME c.leaf0 # Null PROVE [hdr |-> c.leaf0, off |-> c.leafOff] = Locate(r, c.start)
    <3>1. AtLeaf(s, w, c.start, c.leaf0, c.leafOff) BY <2>1, <2>3 DEF Placed
    <3>2. c.start \in Nat BY <2>1 DEF SliceRecs
    <3> HIDE DEF c, r
    <3>3. IsAt(Locate(r, c.start), c.leaf0, c.leafOff) BY <2>1, <3>1, <3>2, LocateIs
    <3> QED BY <3>3 DEF IsAt
  <2> QED BY <2>2, <2>3
<1> QED BY <1>1 DEF HdrCoversSlice

(* The fields of a slice are what their comments say (rope_array.h:250).   *)
(* Until the program reads chunks, hdr0 is the smallest node with the      *)
(* whole slice and hdr0_off the place in it, where a search from the root  *)
(* would end; nothing is said of the two after that, when hdr0_off may be  *)
(* old (rope_array.h:448).  leaf0 is always the leaf of the first element, *)
(* without which the next chunk would be another one.                      *)
THEOREM SlicesRememberTheirPlace == SliceSpec => []HdrCoversSlice
<1>1. SliceInv => HdrCoversSlice BY HdrsRight
<1> QED BY <1>1, SliceInvHolds, PTL
=============================================================================
