----------------------------- MODULE RopeProofs -----------------------------
(***************************************************************************)
(* Proofs about XArrayRpa: for any number of ropes, leaves and elements,   *)
(* after any mix of operations the trees of the ropes are sound and own    *)
(* their nodes, a search finds the element it is asked for, rebalancing    *)
(* keeps its forest in order, and the arrays are sequences (XArraySpec).   *)
(***************************************************************************)
EXTENDS RopeTreeProofs

-----------------------------------------------------------------------------
(* The heap of the ropes                                                   *)

Open(g) == {r \in Ropes : g.root[r] # Null}
Roots(g) == {g.root[r] : r \in Open(g)}

(* The elements of a rope.                                                 *)
Text(g, r) == Elems(g, g.root[r])

(* The trees are sound, each has one rope, which knows its last leaf.      *)
Good(g) ==
  /\ Sound(g, Roots(g)) /\ Tops(g, Roots(g))
  /\ \A r, s \in Open(g) : g.root[r] = g.root[s] => r = s
  /\ \A r \in Open(g) : g.tail[r] = Last(LeavesUnder(g, g.root[r]))

LEMMA GoodFacts ==
  ASSUME NEW g, Good(g)
  PROVE  /\ g \in Heaps /\ Trees(g, Roots(g)) /\ Sizes(g) /\ Depths(g)
         /\ \A r \in Open(g) :
              /\ r \in Ropes /\ g.root[r] \in Roots(g) /\ g.root[r] \in g.live /\ g.root[r] \in Hdrs
              /\ g.root[r] # Null /\ g.parent[g.root[r]] = Null
              /\ g.tail[r] = Last(LeavesUnder(g, g.root[r])) /\ g.tail[r] \in LiveLeaves(g)
              /\ g.tail[r] \in Leaves
              /\ Text(g, r) \in Seq(Vals) /\ Size(g, r) = Len(Text(g, r))
<1>1. g \in Heaps /\ Trees(g, Roots(g)) /\ Sizes(g) /\ Depths(g) /\ Tops(g, Roots(g))
  BY DEF Good, Sound
<1> SUFFICES ASSUME NEW r \in Open(g)
             PROVE  /\ r \in Ropes /\ g.root[r] \in Roots(g) /\ g.root[r] \in g.live /\ g.root[r] \in Hdrs
                    /\ g.root[r] # Null /\ g.parent[g.root[r]] = Null
                    /\ g.tail[r] = Last(LeavesUnder(g, g.root[r])) /\ g.tail[r] \in LiveLeaves(g)
                    /\ g.tail[r] \in Leaves
                    /\ Text(g, r) \in Seq(Vals) /\ Size(g, r) = Len(Text(g, r))
  BY <1>1
<1>2. r \in Ropes /\ g.root[r] \in Roots(g) /\ g.root[r] # Null BY DEF Open, Roots
<1>3. g.root[r] \in g.live /\ g.parent[g.root[r]] = Null BY <1>1, <1>2 DEF Trees, Tops
<1>4. g.root[r] \in Hdrs BY <1>1, <1>3, HeapFacts
<1>5. g.tail[r] = Last(LeavesUnder(g, g.root[r])) BY DEF Good
<1>6. g.tail[r] \in LiveLeaves(g) /\ g.tail[r] \in Leaves BY <1>1, <1>3, <1>5, LastApart
<1>7. Text(g, r) \in Seq(Vals) /\ Size(g, r) = Len(Text(g, r))
  BY <1>1, <1>3, SizeIs DEF Text, Size
<1> QED BY <1>2, <1>3, <1>4, <1>5, <1>6, <1>7

(* The roots but that of r.                                                *)
OtherRoots(g, r, S) == S = Roots(g) \ {g.root[r]}

(* A rope gets another root, the others stay.                              *)
Rerooted(g, k, r, y, S) ==
  /\ Good(k) /\ Open(k) = Open(g) \union {r} /\ k.root[r] = y
  /\ \A s \in Open(g) \ {r} : k.root[s] = g.root[s] /\ g.root[s] \in S

LEMMA Reroot ==
  ASSUME NEW g, Good(g), NEW r \in Ropes, NEW y \in Hdrs,
         NEW S, OtherRoots(g, r, S), y \notin S,
         NEW k, Sound(k, S \union {y}), Tops(k, S \union {y}),
         Moved(g, k, r, y, Last(LeavesUnder(k, y))),
         \A z \in S : LeavesUnder(k, z) = LeavesUnder(g, z)
  PROVE  Rerooted(g, k, r, y, S)
<1>0. S = Roots(g) \ {g.root[r]} BY DEF OtherRoots
<1>1. /\ g.root \in [Ropes -> Hdrs \union {Null}] /\ g.tail \in [Ropes -> Leaves \union {Null}]
  BY HeapFacts, GoodFacts
<1>2. y # Null BY HdrFacts
<1>3. /\ k.root[r] = y /\ \A s \in Ropes \ {r} : k.root[s] = g.root[s]
      /\ k.tail[r] = Last(LeavesUnder(k, y)) /\ \A s \in Ropes \ {r} : k.tail[s] = g.tail[s]
  BY <1>1 DEF Moved
<1>4. Open(k) = Open(g) \union {r} BY <1>2, <1>3 DEF Open
<1>5. \A s \in Open(g) \ {r} : k.root[s] = g.root[s] /\ g.root[s] \in S
  <2> SUFFICES ASSUME NEW s \in Open(g) \ {r} PROVE k.root[s] = g.root[s] /\ g.root[s] \in S
    OBVIOUS
  <2>1. s \in Ropes /\ g.root[s] # Null /\ g.root[s] \in Roots(g) BY DEF Open, Roots
  <2>2. g.root[s] # g.root[r]
    <3> SUFFICES ASSUME g.root[s] = g.root[r] PROVE FALSE OBVIOUS
    <3>1. r \in Open(g) BY <2>1 DEF Open
    <3> QED BY <3>1 DEF Good
  <2> QED BY <1>0, <1>3, <2>1, <2>2
<1>6. Roots(k) = S \union {y}
  <2>1. ASSUME NEW z \in Roots(k) PROVE z \in S \union {y}
    <3>1. PICK s \in Open(k) : z = k.root[s] BY DEF Roots
    <3> QED BY <1>3, <1>4, <1>5, <3>1
  <2>2. y \in Roots(k) BY <1>3, <1>4 DEF Roots
  <2>3. ASSUME NEW z \in S PROVE z \in Roots(k)
    <3>1. PICK s \in Open(g) : z = g.root[s] BY <1>0 DEF Roots
    <3>2. s \in Open(g) \ {r} BY <1>0, <3>1
    <3>3. z = k.root[s] /\ s \in Open(k) BY <1>4, <1>5, <3>1, <3>2
    <3> QED BY <3>3 DEF Roots
  <2> QED BY <2>1, <2>2, <2>3
<1>7. ASSUME NEW s \in Open(k), NEW u \in Open(k), k.root[s] = k.root[u] PROVE s = u
  <2>1. CASE s \in Open(g) \ {r} /\ u \in Open(g) \ {r} BY <1>5, <1>7, <2>1 DEF Good
  <2>2. CASE s = r \/ u = r BY <1>3, <1>4, <1>5, <1>7, <2>2
  <2> QED BY <1>4, <2>1, <2>2
<1>8. ASSUME NEW s \in Open(k) PROVE k.tail[s] = Last(LeavesUnder(k, k.root[s]))
  <2>1. CASE s = r BY <1>3, <2>1
  <2>2. CASE s \in Open(g) \ {r}
    <3>1. k.root[s] = g.root[s] /\ g.root[s] \in S /\ s \in Ropes BY <1>5, <2>2 DEF Open
    <3>2. LeavesUnder(k, k.root[s]) = LeavesUnder(g, g.root[s]) BY <3>1
    <3>3. g.tail[s] = Last(LeavesUnder(g, g.root[s])) BY <2>2 DEF Good
    <3> QED BY <1>3, <2>2, <3>1, <3>2, <3>3
  <2> QED BY <1>4, <2>1, <2>2
<1>9. Good(k) BY <1>6, <1>7, <1>8 DEF Good
<1> QED BY <1>3, <1>4, <1>5, <1>9 DEF Rerooted

(* New lengths on the way to the tail, and what the tail holds.            *)
Tailed(g, r, inc, t, d) == [UpdateTailpath(g, r, inc) EXCEPT !.data[t] = d]

LEMMA RetailIs ==
  ASSUME NEW g \in Heaps, NEW r, NEW inc, NEW d
  PROVE  /\ UpdateTailpath(g, r, inc).data = g.data
         /\ Tailed(g, r, inc, Last(LeavesUnder(g, g.root[r])), d) = Retail(g, g.root[r], inc, d)
<1> DEFINE x == g.root[r]
           t == Last(LeavesUnder(g, x))
           ne == [y \in Hdrs |-> IF y \in Tailpath(g, x) THEN g.nelems[y] + inc ELSE g.nelems[y]]
           u == UpdateTailpath(g, r, inc)
<1>1. u = [g EXCEPT !.nelems = ne] BY DEF UpdateTailpath, Tailpath
<1>2. Retail(g, x, inc, d) = [g EXCEPT !.nelems = ne, !.data[t] = d] BY DEF Retail
<1>3. Tailed(g, r, inc, t, d) = [u EXCEPT !.data[t] = d] BY DEF Tailed
<1> HIDE DEF x, t, ne, u
<1>4. u.data = g.data BY <1>1 DEF Heaps
<1>5. [u EXCEPT !.data[t] = d] = [g EXCEPT !.nelems = ne, !.data[t] = d] BY <1>1 DEF Heaps
<1> QED BY <1>2, <1>3, <1>4, <1>5 DEF t, x, u

(* The elements of the other ropes stay.                                   *)
Others(g, k, r) == \A s \in Open(g) \ {r} : Text(k, s) = Text(g, s)

(* A rope with other elements, d, in its tail t, inc more than before.     *)
Retailed(g, k, r, t, inc, d) ==
  /\ Good(k) /\ Open(k) = Open(g) /\ Roots(k) = Roots(g) /\ SameShape(g, k) /\ Others(g, k, r)
  /\ k.nelems[t] = Len(d) /\ k.data[t] = d
  /\ \A y \in g.live : LeavesUnder(k, y) = LeavesUnder(g, y)
  /\ \A l \in Leaves \ {t} : k.data[l] = g.data[l]
  /\ \A vs \in Seq(Vals) :
       /\ Joined(d, g.data[t], vs) => Joined(Text(k, r), Text(g, r), vs)
       /\ Joined(g.data[t], d, vs) => Joined(Text(g, r), Text(k, r), vs)

LEMMA RetailGood ==
  ASSUME NEW g, Good(g), NEW r \in Open(g), NEW t, t = g.tail[r],
         NEW inc \in Int, NEW d \in Seq(Vals),
         Len(d) = Len(g.data[t]) + inc, Len(d) <= Grain,
         NEW k, k = Tailed(g, r, inc, t, d)
  PROVE  Retailed(g, k, r, t, inc, d)
<1> DEFINE x == g.root[r]
           S == Roots(g)
<1>1. Sound(g, S) /\ x \in S /\ t = Last(LeavesUnder(g, x)) /\ g \in Heaps /\ S \subseteq g.live
  BY GoodFacts DEF Good, Sound, Trees
<1>2. k = Retail(g, x, inc, d)
  <2>1. Tailed(g, r, inc, Last(LeavesUnder(g, g.root[r])), d) = Retail(g, g.root[r], inc, d)
    BY <1>1, RetailIs
  <2>2. t = Last(LeavesUnder(g, g.root[r])) BY <1>1
  <2> QED BY <2>1, <2>2
<1> HIDE DEF x, S
<1>a. RetailDone(g, S, x, inc, d, t, k) BY <1>1, <1>2, RetailFacts
<1>11. /\ Sound(k, S) /\ SameShape(g, k) /\ k.data[t] = d
       /\ \A l \in Leaves \ {t} : k.data[l] = g.data[l]
  BY <1>a DEF RetailDone
<1>15. k.nelems[t] = Len(d) BY <1>a DEF RetailDone
<1>12. \A y \in S \ {x} : Elems(k, y) = Elems(g, y) BY <1>a DEF RetailDone
<1>13. \A y \in g.live : LeavesUnder(k, y) = LeavesUnder(g, y) BY <1>a DEF RetailDone
<1>14. \A vs \in Seq(Vals) :
         /\ Joined(d, g.data[t], vs) => Joined(Elems(k, x), Elems(g, x), vs)
         /\ Joined(g.data[t], d, vs) => Joined(Elems(g, x), Elems(k, x), vs)
  BY <1>a DEF RetailDone
<1>4. k.root = g.root /\ k.tail = g.tail /\ k.parent = g.parent BY <1>11 DEF SameShape
<1>5. Open(k) = Open(g) /\ Roots(k) = S BY <1>4 DEF Open, Roots, S
<1>6. \A s \in Open(g) : g.root[s] \in S /\ g.root[s] \in g.live BY <1>1 DEF Roots, S
<1>7. \A s \in Open(g) : k.tail[s] = Last(LeavesUnder(k, k.root[s]))
  <2> SUFFICES ASSUME NEW s \in Open(g) PROVE k.tail[s] = Last(LeavesUnder(k, k.root[s])) OBVIOUS
  <2>1. g.tail[s] = Last(LeavesUnder(g, g.root[s])) BY DEF Good
  <2>2. LeavesUnder(k, g.root[s]) = LeavesUnder(g, g.root[s]) BY <1>6, <1>13
  <2> QED BY <1>4, <2>1, <2>2
<1>8. Good(k)
  <2>1. Tops(k, S) BY <1>4 DEF Good, Tops, S
  <2> QED BY <1>11, <1>4, <1>5, <1>7, <2>1 DEF Good
<1>9. Others(g, k, r)
  <2> SUFFICES ASSUME NEW s \in Open(g) \ {r} PROVE Text(k, s) = Text(g, s) BY DEF Others
  <2>1. g.root[s] \in S \ {x} BY <1>6 DEF Good, x
  <2> QED BY <1>4, <1>12, <2>1 DEF Text
<1>10. \A vs \in Seq(Vals) :
         /\ Joined(d, g.data[t], vs) => Joined(Text(k, r), Text(g, r), vs)
         /\ Joined(g.data[t], d, vs) => Joined(Text(g, r), Text(k, r), vs)
  BY <1>4, <1>14 DEF Text, x
<1> QED BY <1>5, <1>8, <1>9, <1>10, <1>11, <1>13, <1>15 DEF S, Retailed

-----------------------------------------------------------------------------
(* Popping                                                                 *)

LeafCount(g, r) == Len(LeavesUnder(g, g.root[r]))

(* A sequence, and its last j elements, v.                                 *)
CutAt(s, u, v, j) ==
  u \in Seq(Vals) /\ Len(u) = Len(s) - j /\ Len(v) = j /\ Joined(s, u, v)

LEMMA CutSeq ==
  ASSUME NEW s \in Seq(Vals), NEW j \in Nat, j <= Len(s)
  PROVE  \E v \in Seq(Vals) : CutAt(s, SubSeq(s, 1, Len(s) - j), v, j)
<1> DEFINE n == Len(s) - j
           u == SubSeq(s, 1, n)
           v == SubSeq(s, n + 1, Len(s))
<1>1. Len(s) \in Nat /\ n \in Nat /\ n <= Len(s) BY LenProperties
<1>2. u \in Seq(Vals) /\ Len(u) = n /\ \A i \in 1..n : u[i] = s[i]
  BY <1>1, SubSeqProperties
<1>3. v \in Seq(Vals) /\ Len(v) = j /\ \A i \in 1..j : v[i] = s[n + i]
  BY <1>1, SubSeqProperties
<1>7. Len(s) = n + j BY <1>1
<1> HIDE DEF u, v, n
<1>4. /\ u \o v \in Seq(Vals) /\ Len(u \o v) = Len(s)
      /\ \A i \in 1..n : (u \o v)[i] = u[i]
      /\ \A i \in 1..j : (u \o v)[n + i] = v[i]
  <2>0. u \in Seq(Vals) /\ v \in Seq(Vals) BY <1>2, <1>3
  <2>1. u \o v \in Seq(Vals) /\ Len(u \o v) = Len(u) + Len(v) BY <2>0, ConcatFacts
  <2>2. \A i \in 1..Len(u) : (u \o v)[i] = u[i] BY <2>0, ConcatFacts
  <2>3. \A i \in 1..Len(v) : (u \o v)[Len(u) + i] = v[i] BY <2>0, ConcatFacts
  <2> QED BY <1>1, <1>2, <1>3, <1>7, <2>1, <2>2, <2>3
<1>5. \A i \in 1..Len(s) : (u \o v)[i] = s[i]
  <2> SUFFICES ASSUME NEW i \in 1..Len(s) PROVE (u \o v)[i] = s[i] OBVIOUS
  <2>1. CASE i \in 1..n BY <1>2, <1>4, <2>1
  <2>2. CASE i \notin 1..n
    <3>1. i - n \in 1..j /\ n + (i - n) = i BY <1>1, <1>7, <2>2
    <3> DEFINE m == i - n
    <3>2. m \in 1..j /\ n + m = i BY <3>1
    <3> HIDE DEF m
    <3>3. (u \o v)[n + m] = v[m] /\ v[m] = s[n + m] BY <1>3, <1>4, <3>2
    <3> QED BY <3>2, <3>3
  <2> QED BY <2>1, <2>2
<1>6. s = u \o v BY <1>4, <1>5, SeqEqual
<1>8. u = SubSeq(s, 1, Len(s) - j) /\ Len(u) = Len(s) - j BY <1>2 DEF u, n
<1> QED BY <1>2, <1>3, <1>6, <1>8 DEF Joined, CutAt

(* Without the tail, which is empty, the rope is the same.                 *)
LEMMA DropTailGood ==
  ASSUME NEW g, Good(g), NEW r \in Open(g), g.tail[r] # g.root[r], g.nelems[g.tail[r]] = 0,
         NEW k, k = DropTail(g, r)
  PROVE  /\ Good(k) /\ Open(k) = Open(g) /\ Others(g, k, r) /\ Text(k, r) = Text(g, r)
         /\ LeafCount(g, r) = LeafCount(k, r) + 1 /\ LeafCount(k, r) \in Nat
<1> DEFINE t == g.tail[r]
           x == g.root[r]
           up == g.parent[t]
           sib == g.left[up]
           top == g.parent[up]
           y == IF top = Null THEN sib ELSE x
           S == Roots(g)
           O == S \ {x}
           R == O \union {y}
<1>1. r \in Ropes /\ Sound(g, S) /\ Tops(g, S) /\ x \in S /\ t = Last(LeavesUnder(g, x)) /\ t # x
  BY GoodFacts DEF Good
<1>2. g.nelems[t] = 0 OBVIOUS
<1>3. x = g.root[r] /\ t = g.tail[r] OBVIOUS
<1>4. up = g.parent[t] /\ sib = g.left[up] /\ top = g.parent[up] OBVIOUS
<1>5. y = IF top = Null THEN sib ELSE x OBVIOUS
<1>6. O = S \ {x} /\ R = (S \ {x}) \union {y} OBVIOUS
<1>7. S = Roots(g) OBVIOUS
<1> HIDE DEF S, R, O, y, top, sib, up, t, x
<1>8. Cut(g, k, t) /\ Moved(g, k, r, y, Last(LeavesUnder(g, sib)))
  BY <1>1, <1>2, <1>3, <1>4, <1>5, DropTailIs
<1>9. NewTop(g, x, t, y) BY <1>4, <1>5 DEF NewTop
<1>10. /\ Sound(k, R) /\ Tops(k, R) /\ y \in All(g, x)
       /\ \A z \in S \ {x} : LeavesUnder(k, z) = LeavesUnder(g, z)
       /\ LeavesUnder(g, x) = LeavesUnder(k, y) \o <<t>>
       /\ Last(LeavesUnder(k, y)) = Last(LeavesUnder(g, g.left[g.parent[t]]))
       /\ Elems(k, y) = Elems(g, x)
  <2>0. R = (S \ {x}) \union {y} /\ Cut(g, k, t) BY <1>6, <1>8
  <2>1. Sound(k, R) /\ Tops(k, R) BY <1>1, <1>2, <1>9, <2>0, CutFacts
  <2>2. y \in All(g, x) /\ CutFrom(g, S, x, t, k, y) BY <1>1, <1>2, <1>9, <2>0, CutFacts
  <2> QED BY <2>1, <2>2 DEF CutFrom
<1>11. y \in Hdrs /\ y \in k.live /\ y \notin O
  <2>1. y \in R BY <1>6
  <2>2. y \in k.live /\ k \in Heaps BY <1>10, <2>1 DEF Sound, Trees
  <2>3. y \in Hdrs BY <2>2, HeapFacts
  <2>4. ASSUME y \in S, y # x PROVE FALSE
    <3>1. Trees(g, S) /\ g \in Heaps /\ S \subseteq g.live BY <1>1 DEF Sound, Trees
    <3>2. y \in All(g, y) BY <2>4, <3>1, AllRules
    <3> QED BY <1>1, <1>10, <2>4, <3>1, <3>2, Apart
  <2> QED BY <1>6, <2>2, <2>3, <2>4
<1>12. Moved(g, k, r, y, Last(LeavesUnder(k, y))) BY <1>4, <1>8, <1>10
<1>13. /\ O = Roots(g) \ {g.root[r]} /\ Sound(k, O \union {y}) /\ Tops(k, O \union {y})
       /\ \A z \in O : LeavesUnder(k, z) = LeavesUnder(g, z)
  BY <1>3, <1>6, <1>7, <1>10
<1>14. /\ Good(k) /\ Open(k) = Open(g) \union {r} /\ k.root[r] = y
       /\ \A s \in Open(g) \ {r} : k.root[s] = g.root[s] /\ g.root[s] \in O
  <2>0. OtherRoots(g, r, O) BY <1>13 DEF OtherRoots
  <2>1. r \in Ropes /\ y \in Hdrs /\ y \notin O BY <1>1, <1>11
  <2>2. Rerooted(g, k, r, y, O) BY <1>12, <1>13, <2>0, <2>1, Reroot
  <2> QED BY <2>2 DEF Rerooted
<1>15. k.data = g.data BY <1>8 DEF Cut
<1>16. Others(g, k, r)
  <2> SUFFICES ASSUME NEW s \in Open(g) \ {r} PROVE Text(k, s) = Text(g, s) BY DEF Others
  <2>1. k.root[s] = g.root[s] /\ g.root[s] \in O BY <1>14
  <2>2. LeavesUnder(k, g.root[s]) = LeavesUnder(g, g.root[s]) BY <1>13, <2>1
  <2>3. Elems(k, g.root[s]) = Elems(g, g.root[s]) BY <1>15, <2>2 DEF Elems, Data
  <2> QED BY <2>1, <2>3 DEF Text
<1>17. Text(k, r) = Text(g, r) BY <1>3, <1>10, <1>14 DEF Text
<1>18. LeafCount(g, r) = LeafCount(k, r) + 1 /\ LeafCount(k, r) \in Nat
  <2> DEFINE s == LeavesUnder(k, y)
             one == <<t>>
  <2>1. s \in Seq(Leaves) BY <1>10, <1>11, LeafSeqs DEF Sound
  <2>2. LeavesUnder(g, x) = s \o one BY <1>10
  <2>3. t \in Leaves BY <1>3, GoodFacts
  <2>4. one \in Seq(Leaves) /\ Len(one) = 1 BY <2>3
  <2> HIDE DEF s, one
  <2>5. Len(s \o one) = Len(s) + Len(one) /\ Len(s) \in Nat BY <2>1, <2>4, ConcatFacts
  <2>6. LeafCount(g, r) = Len(s) + 1 BY <1>3, <2>2, <2>4, <2>5 DEF LeafCount
  <2>7. LeafCount(k, r) = Len(s) BY <1>14 DEF LeafCount, s
  <2> QED BY <2>5, <2>6, <2>7
<1> QED BY <1>14, <1>16, <1>17, <1>18

(* Sequence a is d and n more elements.                                    *)
LongerBy(a, d, n) == \E vs \in Seq(Vals) : Joined(a, d, vs) /\ Len(vs) = n

(* rpa_pop.  It pops something or drops a leaf, unless the rope is empty.  *)
Popped(g, r, want, p) ==
  /\ Good(p.h) /\ Open(p.h) = Open(g) /\ Others(g, p.h, r)
  /\ p.popped \in 0..want
  /\ LongerBy(Text(g, r), Text(p.h, r), p.popped)
  /\ LeafCount(p.h, r) <= LeafCount(g, r)
  /\ p.popped = 0 /\ LeafCount(p.h, r) = LeafCount(g, r) => Text(g, r) = <<>>

LEMMA RpaPopFacts ==
  ASSUME NEW g, Good(g), NEW r \in Open(g), NEW want \in Nat \ {0},
         NEW p, p = RpaPop(g, r, want)
  PROVE  Popped(g, r, want, p)
<1> DEFINE t == g.tail[r]
           x == g.root[r]
           j == Min({want, g.nelems[t]})
           u == UpdateTailpath(g, r, - j)
           h1 == [u EXCEPT !.data[t] = SubSeq(@, 1, Len(@) - j)]
           d == SubSeq(g.data[t], 1, Len(g.data[t]) - j)
           k == IF h1.nelems[t] > 0 \/ g.parent[t] = Null THEN h1 ELSE DropTail(h1, r)
<1>1. p = [h |-> k, popped |-> j] BY DEF RpaPop
<1>2. /\ g \in Heaps /\ Trees(g, Roots(g)) /\ Sizes(g) /\ r \in Ropes /\ x \in g.live /\ x \in Roots(g)
      /\ t = Last(LeavesUnder(g, x)) /\ t \in LiveLeaves(g) /\ t \in Leaves
      /\ g.parent[x] = Null
  BY GoodFacts
<1>3. /\ g.data[t] \in Seq(Vals) /\ g.nelems[t] = Len(g.data[t]) /\ g.nelems[t] <= Grain
      /\ g.nelems[t] \in Nat
  <2>1. g.data[t] \in Seq(Vals) BY <1>2, HeapFacts
  <2>2. g.nelems[t] = Len(g.data[t]) /\ g.nelems[t] <= Grain BY <1>2 DEF Sizes
  <2> QED BY <2>1, <2>2, LenProperties
<1> HIDE DEF t, x
<1>4. j \in Nat /\ j <= want /\ j <= g.nelems[t] /\ (j = want \/ j = g.nelems[t])
  <2>1. {want, g.nelems[t]} \subseteq Nat /\ {want, g.nelems[t]} # {} BY <1>3
  <2>2. j \in {want, g.nelems[t]} /\ \A i \in {want, g.nelems[t]} : j <= i BY <2>1, MinIs
  <2> HIDE DEF j
  <2> QED BY <1>3, <2>2
<1> HIDE DEF j
<1>5. PICK vs \in Seq(Vals) : CutAt(g.data[t], d, vs, j)
  <2> DEFINE s == g.data[t]
  <2>1. s \in Seq(Vals) /\ j \in Nat /\ j <= Len(s) BY <1>3, <1>4
  <2>2. d = SubSeq(s, 1, Len(s) - j) OBVIOUS
  <2> HIDE DEF s, d
  <2>3. \E v \in Seq(Vals) : CutAt(s, SubSeq(s, 1, Len(s) - j), v, j) BY <2>1, CutSeq
  <2> QED BY <2>2, <2>3 DEF s
<1>6. h1 = Tailed(g, r, - j, t, d)
  <2>1. u.data = g.data BY <1>2, RetailIs
  <2> HIDE DEF u
  <2>2. h1 = [u EXCEPT !.data[t] = SubSeq(u.data[t], 1, Len(u.data[t]) - j)] OBVIOUS
  <2>3. SubSeq(u.data[t], 1, Len(u.data[t]) - j) = d BY <2>1
  <2> HIDE DEF d
  <2>4. h1 = [u EXCEPT !.data[t] = d] BY <2>3
  <2> QED BY <2>4 DEF Tailed, u
<1>7. d \in Seq(Vals) /\ Len(d) = Len(g.data[t]) - j /\ Len(vs) = j /\ Joined(g.data[t], d, vs)
  BY <1>5 DEF CutAt
<1>8. k = IF h1.nelems[t] > 0 \/ g.parent[t] = Null THEN h1 ELSE DropTail(h1, r) OBVIOUS
<1> HIDE DEF h1, d, k
<1>9. /\ Good(h1) /\ Open(h1) = Open(g) /\ Roots(h1) = Roots(g) /\ SameShape(g, h1) /\ Others(g, h1, r)
      /\ h1.data[t] = d /\ \A y \in g.live : LeavesUnder(h1, y) = LeavesUnder(g, y)
      /\ Joined(Text(g, r), Text(h1, r), vs)
  <2> DEFINE inc == - j
  <2>1. inc \in Int /\ Len(d) = Len(g.data[t]) + inc /\ Len(d) <= Grain
    <3> DEFINE q == Len(g.data[t])
    <3>1. q \in Nat /\ q <= Grain BY <1>3
    <3>2. j \in Nat /\ Len(d) = q - j BY <1>4, <1>7
    <3>3. Grain \in Nat BY GrainAssumption
    <3> HIDE DEF q
    <3>4. inc \in Int /\ q - j = q + inc /\ q - j <= Grain BY <3>1, <3>2, <3>3
    <3> QED BY <3>2, <3>4 DEF q
  <2>2. t = g.tail[r] BY DEF t
  <2>3. h1 = Tailed(g, r, inc, t, d) BY <1>6
  <2> HIDE DEF inc
  <2>4. Retailed(g, h1, r, t, inc, d) BY <1>7, <2>1, <2>2, <2>3, RetailGood
  <2> QED BY <1>7, <2>4 DEF Retailed
<1>10. /\ h1.live = g.live /\ h1.parent = g.parent /\ h1.left = g.left /\ h1.root = g.root /\ h1.tail = g.tail
  BY <1>9 DEF SameShape
<1>11. LeafCount(h1, r) = LeafCount(g, r) BY <1>2, <1>9, <1>10 DEF LeafCount, x
<1>12. h1.nelems[t] = Len(d)
  <2>1. t \in LiveLeaves(h1) BY <1>2, <1>10 DEF LiveLeaves
  <2>2. Sizes(h1) BY <1>9, GoodFacts
  <2> QED BY <1>9, <2>1, <2>2 DEF Sizes
<1>13. CASE h1.nelems[t] > 0 \/ g.parent[t] = Null
  <2>1. p.h = h1 /\ p.popped = j BY <1>1, <1>8, <1>13
  <2>2. ASSUME j = 0 PROVE Text(g, r) = <<>>
    <3>1. g.nelems[t] = 0 BY <1>3, <1>4, <2>2
    <3>2. h1.nelems[t] = 0 BY <1>3, <1>7, <1>12, <2>2, <3>1
    <3>3. t \in Roots(g)
      <4> SUFFICES ASSUME t \notin Roots(g) PROVE FALSE OBVIOUS
      <4>1. g.parent[t] \in Nodes(g) BY <1>2 DEF Trees, Child, LiveLeaves
      <4>2. Null \notin Nodes(g) BY HdrsAssumption DEF Nodes
      <4> QED BY <1>13, <3>2, <4>1, <4>2
    <3>4. t = x
      <4>1. t \in All(g, x) BY <1>2, LastApart
      <4>2. t \in g.live BY <1>2 DEF LiveLeaves
      <4>3. t \in All(g, t) BY <1>2, <4>2, AllRules
      <4> QED BY <1>2, <3>3, <4>1, <4>3, Apart
    <3>5. Len(Text(g, r)) = 0 /\ Text(g, r) \in Seq(Vals)
      <4>1. Size(g, r) = Len(Text(g, r)) /\ Text(g, r) \in Seq(Vals) BY GoodFacts
      <4>2. Size(g, r) = g.nelems[t] BY <3>4 DEF Size, x
      <4> QED BY <3>1, <4>1, <4>2
    <3> QED BY <3>5, EmptySeq
  <2>3. LeafCount(g, r) \in Nat BY <1>2, LeafSeqs DEF LeafCount, x
  <2> QED BY <1>4, <1>7, <1>9, <1>11, <2>1, <2>2, <2>3 DEF Popped, LongerBy
<1>14. CASE ~ (h1.nelems[t] > 0 \/ g.parent[t] = Null)
  <2>1. p.h = k /\ p.popped = j /\ k = DropTail(h1, r) BY <1>1, <1>8, <1>14
  <2>2. h1.nelems[h1.tail[r]] = 0
    <3>1. Len(d) \in Nat BY <1>7, LenProperties
    <3> QED BY <1>10, <1>12, <1>14, <3>1 DEF t
  <2>3. h1.tail[r] # h1.root[r] BY <1>2, <1>10, <1>14 DEF t, x
  <2>4. /\ Good(k) /\ Open(k) = Open(h1) /\ Others(h1, k, r) /\ Text(k, r) = Text(h1, r)
        /\ LeafCount(h1, r) = LeafCount(k, r) + 1 /\ LeafCount(k, r) \in Nat
    BY <1>9, <2>1, <2>2, <2>3, DropTailGood
  <2>5. Others(g, k, r) BY <1>9, <2>4 DEF Others
  <2> QED BY <1>4, <1>7, <1>9, <1>11, <2>1, <2>4, <2>5 DEF Popped, LongerBy
<1> QED BY <1>13, <1>14

-----------------------------------------------------------------------------
(* Growing                                                                 *)

(* The operations on one rope leave the others.                            *)
OnlyRope(g, k, r) == Good(k) /\ Open(k) = Open(g) /\ Others(g, k, r)

LEMMA FinalizeGood ==
  ASSUME NEW g, Good(g), NEW r \in Open(g), NEW vs \in Seq(Vals),
         g.nelems[g.tail[r]] + Len(vs) <= Grain,
         NEW k, k = Finalize(g, r, vs)
  PROVE  /\ OnlyRope(g, k, r) /\ Roots(k) = Roots(g) /\ SameShape(g, k)
         /\ Joined(Text(k, r), Text(g, r), vs)
         /\ \A y \in g.live : LeavesUnder(k, y) = LeavesUnder(g, y)
         /\ \A l \in Leaves \ {g.tail[r]} : k.data[l] = g.data[l]
<1> DEFINE t == g.tail[r]
           inc == Len(vs)
           d == g.data[t] \o vs
           u == UpdateTailpath(g, r, inc)
<1>1. g \in Heaps /\ t \in LiveLeaves(g) /\ t \in Leaves /\ Sizes(g) BY GoodFacts
<1>2. g.data[t] \in Seq(Vals) /\ g.nelems[t] = Len(g.data[t]) BY <1>1, HeapFacts DEF Sizes
<1>3. inc \in Nat BY LenProperties
<1>4. d \in Seq(Vals) /\ Len(d) = Len(g.data[t]) + inc
  <2> DEFINE s == g.data[t]
  <2>1. s \in Seq(Vals) BY <1>2
  <2> HIDE DEF s
  <2>2. s \o vs \in Seq(Vals) /\ Len(s \o vs) = Len(s) + Len(vs) BY <2>1, ConcatFacts
  <2> QED BY <2>2 DEF s
<1>5. Len(d) <= Grain BY <1>2, <1>4
<1>6. k = Tailed(g, r, inc, t, d)
  <2>1. u.data = g.data BY <1>1, RetailIs
  <2>2. k = [u EXCEPT !.data[t] = @ \o vs] BY DEF Finalize
  <2> HIDE DEF u
  <2>3. k = [u EXCEPT !.data[t] = u.data[t] \o vs] BY <2>2
  <2>4. u.data[t] \o vs = d BY <2>1
  <2> HIDE DEF d
  <2>5. k = [u EXCEPT !.data[t] = d] BY <2>3, <2>4
  <2> QED BY <2>5 DEF Tailed, u
<1>7. Joined(d, g.data[t], vs) BY DEF Joined
<1>8. t = g.tail[r] OBVIOUS
<1> HIDE DEF t, inc, d, u
<1>9. inc \in Int BY <1>3
<1>10. Retailed(g, k, r, t, inc, d) BY <1>4, <1>5, <1>6, <1>8, <1>9, RetailGood
<1> QED BY <1>7, <1>8, <1>10 DEF OnlyRope, Retailed

(* Roots and tails do not matter for the trees.                            *)
WithRoots(g, a, b) == [g EXCEPT !.root = a, !.tail = b]
SameTrees(g, k) ==
  /\ k.live = g.live /\ k.parent = g.parent /\ k.nelems = g.nelems /\ k.data = g.data
  /\ \A x \in g.live :
       /\ LeavesUnder(k, x) = LeavesUnder(g, x) /\ InnerUnder(k, x) = InnerUnder(g, x)
       /\ Elems(k, x) = Elems(g, x)

LEMMA WithRootsFacts ==
  ASSUME NEW g, NEW S, Sound(g, S),
         NEW a \in [Ropes -> Hdrs \union {Null}], NEW e \in [Ropes -> Leaves \union {Null}],
         NEW k, k = WithRoots(g, a, e)
  PROVE  Sound(k, S) /\ k.root = a /\ k.tail = e /\ SameTrees(g, k)
<1>1. /\ k.live = g.live /\ k.nelems = g.nelems /\ k.parent = g.parent /\ k.left = g.left
      /\ k.right = g.right /\ k.depth = g.depth /\ k.data = g.data /\ k.root = a /\ k.tail = e
  BY DEF WithRoots, Sound, Heaps
<1>2. k \in Heaps BY DEF WithRoots, Sound, Heaps
<1>3. \A x : Depth(k, x) = Depth(g, x) BY <1>1 DEF Depth
<1>4. Trees(k, S) BY <1>1, <1>3 DEF Sound, Trees, Node, Child, Nodes
<1>5. Sizes(k) BY <1>1 DEF Sound, Sizes, Nodes, LiveLeaves
<1>6. Depths(k) BY <1>1, <1>3 DEF Sound, Depths, DepthIs, Nodes
<1>7. ASSUME NEW x \in g.live
      PROVE  LeavesUnder(k, x) = LeavesUnder(g, x) /\ InnerUnder(k, x) = InnerUnder(g, x)
  <2>1. All(g, x) \subseteq k.live BY <1>1, AllRules DEF Sound
  <2> QED BY <1>1, <1>2, <1>4, <2>1, SameUnder DEF Sound
<1>8. \A x \in g.live : Elems(k, x) = Elems(g, x) BY <1>1, <1>7 DEF Elems, Data
<1> QED BY <1>1, <1>2, <1>4, <1>5, <1>6, <1>7, <1>8 DEF Sound, SameTrees

(* Ropes Q get other roots, those with trees R, and tails.                 *)
Settled(k, R, s) ==
  /\ k.root[s] \in R /\ k.tail[s] = Last(LeavesUnder(k, k.root[s]))
  /\ \A s2 \in Ropes \ {s} : k.root[s2] # k.root[s]
Regrouped(g, k, Q, R) ==
  /\ \A s \in Ropes \ Q : k.root[s] = g.root[s] /\ k.tail[s] = g.tail[s]
  /\ \A s \in Open(g) \ Q : LeavesUnder(k, g.root[s]) = LeavesUnder(g, g.root[s]) /\ g.root[s] \in R
  /\ \A s \in Q : k.root[s] = Null \/ Settled(k, R, s)
  /\ \A x \in R : \E s \in Ropes : k.root[s] = x

LEMMA Regroup ==
  ASSUME NEW g, Good(g), NEW k, NEW R, Sound(k, R), Tops(k, R),
         NEW Q, Q \subseteq Ropes, Regrouped(g, k, Q, R)
  PROVE  /\ Good(k) /\ Open(k) = (Open(g) \ Q) \union {s \in Q : k.root[s] # Null}
<1>1. \A x \in R : x # Null BY HeapFacts DEF Sound, Trees
<1>2. Open(k) = (Open(g) \ Q) \union {s \in Q : k.root[s] # Null} BY DEF Open, Regrouped
<1>3. Roots(k) = R
  <2>1. ASSUME NEW s \in Open(k) PROVE k.root[s] \in R
    BY <1>2 DEF Open, Regrouped, Settled
  <2>2. ASSUME NEW x \in R PROVE \E s \in Open(k) : x = k.root[s]
    BY <1>1 DEF Regrouped, Open
  <2> QED BY <2>1, <2>2 DEF Roots
<1>4. ASSUME NEW s \in Open(k), NEW s2 \in Open(k), k.root[s] = k.root[s2] PROVE s = s2
  <2>1. s \in Ropes /\ s2 \in Ropes /\ k.root[s] # Null BY DEF Open
  <2>2. CASE s \in Q \/ s2 \in Q BY <1>4, <2>1, <2>2 DEF Regrouped, Settled
  <2>3. CASE s \notin Q /\ s2 \notin Q
    <3>1. k.root[s] = g.root[s] /\ k.root[s2] = g.root[s2] BY <2>1, <2>3 DEF Regrouped
    <3> QED BY <1>2, <1>4, <2>3, <3>1 DEF Good
  <2> QED BY <2>2, <2>3
<1>5. ASSUME NEW s \in Open(k) PROVE k.tail[s] = Last(LeavesUnder(k, k.root[s]))
  <2>1. s \in Ropes /\ k.root[s] # Null BY DEF Open
  <2>2. CASE s \in Q BY <2>1, <2>2 DEF Regrouped, Settled
  <2>3. CASE s \notin Q
    <3>1. s \in Open(g) \ Q BY <1>2, <2>3
    <3>2. k.root[s] = g.root[s] /\ k.tail[s] = g.tail[s] BY <2>1, <2>3 DEF Regrouped
    <3>3. LeavesUnder(k, g.root[s]) = LeavesUnder(g, g.root[s]) BY <3>1 DEF Regrouped
    <3>4. g.tail[s] = Last(LeavesUnder(g, g.root[s])) BY <3>1 DEF Good
    <3> QED BY <3>2, <3>3, <3>4
  <2> QED BY <2>2, <2>3
<1> QED BY <1>2, <1>3, <1>4, <1>5 DEF Good

(* Two trees concatenated, under other roots and tails.                    *)
Linked(g, k, a, c, d, R) ==
  /\ Sound(k, R) /\ Tops(k, R) /\ c \in Inner /\ c \in R
  /\ LeavesUnder(k, c) = LeavesUnder(g, a) \o LeavesUnder(g, d)
  /\ Last(LeavesUnder(k, c)) = Last(LeavesUnder(g, d))
  /\ Joined(Elems(k, c), Elems(g, a), Elems(g, d))
  /\ k.nelems[c] = g.nelems[a] + g.nelems[d] /\ k.data = g.data
  /\ \A x \in g.live :
       /\ k.nelems[x] = g.nelems[x] /\ x # c
       /\ LeavesUnder(k, x) = LeavesUnder(g, x) /\ Elems(k, x) = Elems(g, x)

LEMMA LinkFacts ==
  ASSUME NEW g, NEW S, Sound(g, S), Tops(g, S), NEW a \in S, NEW d \in S, a # d,
         NEW c, c = NewNode(g), NEW R, R = (S \ {a, d}) \union {c},
         NEW k, k = RpaConcat(g, a, d)
  PROVE  Linked(g, k, a, c, d, R) /\ k.root = g.root /\ k.tail = g.tail
<1>0. Concatenated(g, S, a, d, c, k) BY ConcatNodeFacts
<1>1. /\ c \in Inner \ g.live /\ Sound(k, (S \ {a, d}) \union {c}) /\ Keeps(g, k)
      /\ k.live = g.live \union {c} /\ k.nelems[c] = g.nelems[a] + g.nelems[d]
  BY <1>0 DEF Concatenated
<1>2. LeavesUnder(k, c) = LeavesUnder(g, a) \o LeavesUnder(g, d) BY <1>0 DEF Concatenated
<1>3. k.parent[c] = Null /\ \A x \in Hdrs \ {a, d, c} : k.parent[x] = g.parent[x]
  BY <1>0 DEF Concatenated
<1>4. a \in g.live /\ d \in g.live /\ g \in Heaps /\ Trees(g, S) /\ S \subseteq Hdrs
  BY HeapFacts DEF Sound, Trees
<1>5. Tops(k, R) BY <1>1, <1>3, <1>4 DEF Tops
<1>6. \A x \in g.live : Elems(k, x) = Elems(g, x) BY <1>1, KeepsFacts
<1>7. \A x \in g.live : k.nelems[x] = g.nelems[x] /\ x # c /\ LeavesUnder(k, x) = LeavesUnder(g, x)
  BY <1>1 DEF Keeps
<1>8. k.data = g.data /\ k.root = g.root /\ k.tail = g.tail BY <1>1 DEF Keeps
<1> DEFINE s == LeavesUnder(g, a)
           t == LeavesUnder(g, d)
<1>9. s \in Seq(Leaves) /\ t \in Seq(Leaves) /\ t # <<>> BY <1>4, LeafSeqs, LeavesRules
<1>10. LeavesUnder(k, c) = s \o t /\ Elems(g, a) = Data(g, s) /\ Elems(g, d) = Data(g, t)
  BY <1>2 DEF Elems
<1>11. Elems(k, c) = Data(g, s \o t) BY <1>8, <1>10 DEF Elems, Data
<1> HIDE DEF s, t
<1>12. Data(g, s \o t) = Data(g, s) \o Data(g, t) BY <1>4, <1>9, DataRules
<1>13. Last(s \o t) = Last(t) BY <1>9, LastConcat
<1>14. Joined(Elems(k, c), Elems(g, a), Elems(g, d)) BY <1>10, <1>11, <1>12 DEF Joined
<1>15. Last(LeavesUnder(k, c)) = Last(LeavesUnder(g, d)) BY <1>10, <1>13 DEF t
<1>16. Sound(k, R) /\ c \in R /\ c \in Inner BY <1>1
<1>17. Linked(g, k, a, c, d, R)
  BY <1>1, <1>2, <1>5, <1>6, <1>7, <1>8, <1>14, <1>15, <1>16 DEF Linked
<1> QED BY <1>8, <1>17

(* rpa_append_prepare: the tail has room.                                  *)
Roomy(g, k, r) ==
  OnlyRope(g, k, r) /\ Text(k, r) = Text(g, r) /\ k.nelems[k.tail[r]] < Grain

LEMMA MakeRoomGood ==
  ASSUME NEW g, Good(g), NEW r \in Open(g), TailFull(g, r) => Leaves \ g.live # {},
         NEW k, k = MakeRoom(g, r)
  PROVE  Roomy(g, k, r)
<1>1. /\ g \in Heaps /\ Sound(g, Roots(g)) /\ Tops(g, Roots(g)) /\ r \in Ropes
      /\ g.root[r] \in Roots(g) /\ g.tail[r] \in LiveLeaves(g)
      /\ Roots(g) \subseteq g.live /\ g.live \subseteq Hdrs
  BY GoodFacts, HeapFacts DEF Good, Trees
<1>2. CASE ~ TailFull(g, r)
  <2>1. k = g BY <1>2 DEF MakeRoom
  <2>2. g.nelems[g.tail[r]] <= Grain /\ g.nelems[g.tail[r]] # Grain /\ g.nelems[g.tail[r]] \in Nat
    <3>1. g.nelems[g.tail[r]] <= Grain BY <1>1 DEF Sound, Sizes
    <3>2. g.tail[r] \in Hdrs BY <1>1, HdrFacts DEF LiveLeaves
    <3> QED BY <1>1, <1>2, <3>1, <3>2, HeapFacts DEF TailFull
  <2> QED BY <2>1, <2>2, GrainAssumption DEF Roomy, OnlyRope, Others
<1>3. CASE TailFull(g, r)
  <2> DEFINE S == Roots(g)
             l == NewLeaf(g)
             f == LeafAlloc(g)
             x == g.root[r]
             c == NewNode(f)
             m == RpaConcat(f, x, l)
             R == ((S \union {l}) \ {x, l}) \union {c}
             ra == [g.root EXCEPT ![r] = c]
             ta == [g.tail EXCEPT ![r] = l]
  <2>1. k = [RpaConcat(f, f.root[r], l) EXCEPT !.root[r] = NewNode(f),
                                              !.tail[r] = Rightmost(RpaConcat(f, f.root[r], l), l)]
    BY <1>3 DEF MakeRoom, AppendHdr
  <2>2. Sound(g, S) /\ Tops(g, S) /\ x \in S /\ S \subseteq g.live BY <1>1
  <2>3. l = NewLeaf(g) /\ f = LeafAlloc(g) /\ x = g.root[r] /\ c = NewNode(f) /\ m = RpaConcat(f, x, l)
        /\ ra = [g.root EXCEPT ![r] = c] /\ ta = [g.tail EXCEPT ![r] = l] /\ S = Roots(g)
    OBVIOUS
  <2>4. R = ((S \union {l}) \ {x, l}) \union {c} OBVIOUS
  <2> HIDE DEF R, m, c, f, l, x, S, ra, ta
  <2>36. Allocated(g, S, l, f) BY <1>3, <2>2, <2>3, LeafAllocFacts
  <2>5. /\ l \in Leaves \ g.live /\ Sound(f, S \union {l}) /\ Keeps(g, f)
        /\ f.nelems[l] = 0 /\ f.data[l] = <<>>
    BY <2>36 DEF Allocated
  <2>6. LeavesUnder(f, l) = <<l>> BY <2>36 DEF Allocated
  <2>7. f.parent[l] = Null /\ \A y \in Hdrs \ {l} : f.parent[y] = g.parent[y]
    BY <2>36 DEF Allocated
  <2>8. f.root = g.root /\ f.tail = g.tail BY <2>5 DEF Keeps
  <2>9. Tops(f, S \union {l}) BY <1>1, <2>2, <2>7 DEF Tops
  <2>10. x # l /\ x \in S \union {l} /\ l \in S \union {l} BY <2>2, <2>5
  <2>11. Linked(f, m, x, c, l, R) /\ m.root = f.root /\ m.tail = f.tail
    BY <2>3, <2>4, <2>5, <2>9, <2>10, LinkFacts, SMTT(30)
  <2>37. Concatenated(f, S \union {l}, x, l, c, m) BY <2>3, <2>5, <2>10, ConcatNodeFacts
  <2>12. l \in f.live /\ l \in m.live /\ m \in Heaps /\ Trees(m, R) /\ LeavesUnder(m, l) = <<l>>
    <3>1. l \in f.live BY <2>5 DEF Sound, Trees
    <3>2. LeavesUnder(m, l) = <<l>> BY <2>6, <2>11, <3>1 DEF Linked
    <3>3. Keeps(f, m) BY <2>37 DEF Concatenated
    <3> QED BY <2>11, <3>1, <3>2, <3>3 DEF Linked, Sound, Keeps
  <2>13. Rightmost(m, l) = l
    <3>1. Rightmost(m, l) = Last(LeavesUnder(m, l)) BY <2>12, RightmostRules
    <3> QED BY <2>12, <3>1 DEF Last
  <2>14. k = WithRoots(m, ra, ta)
    <3>1. k = [m EXCEPT !.root[r] = c, !.tail[r] = l] BY <2>1, <2>3, <2>8, <2>13
    <3>2. k = [m EXCEPT !.root = [m.root EXCEPT ![r] = c], !.tail = [m.tail EXCEPT ![r] = l]]
      BY <3>1
    <3> QED BY <2>3, <2>8, <2>11, <3>2 DEF WithRoots
  <2>15. /\ g.root \in [Ropes -> Hdrs \union {Null}] /\ g.tail \in [Ropes -> Leaves \union {Null}]
    BY <1>1, HeapFacts
  <2>16. c \in Hdrs /\ l \in Leaves /\ c \in R BY <2>5, <2>11, HdrFacts DEF Linked
  <2>17. ra \in [Ropes -> Hdrs \union {Null}] /\ ta \in [Ropes -> Leaves \union {Null}]
    BY <2>3, <2>15, <2>16, ExceptType
  <2>18. /\ ra[r] = c /\ ta[r] = l
         /\ \A s \in Ropes \ {r} : ra[s] = g.root[s] /\ ta[s] = g.tail[s]
    BY <1>1, <2>3, <2>15
  <2>19. Sound(m, R) /\ Tops(m, R) BY <2>11 DEF Linked
  <2>20. Sound(k, R) /\ k.root = ra /\ k.tail = ta /\ SameTrees(m, k)
    BY <2>14, <2>17, <2>19, WithRootsFacts
  <2>21. Tops(k, R) BY <2>19, <2>20 DEF Tops, SameTrees
  <2>22. \A y \in g.live : /\ y \in m.live /\ y # c
                           /\ LeavesUnder(k, y) = LeavesUnder(g, y) /\ Elems(k, y) = Elems(g, y)
    <3> SUFFICES ASSUME NEW y \in g.live
                 PROVE  /\ y \in m.live /\ y # c
                        /\ LeavesUnder(k, y) = LeavesUnder(g, y) /\ Elems(k, y) = Elems(g, y)
      OBVIOUS
    <3>1. y \in f.live /\ LeavesUnder(f, y) = LeavesUnder(g, y) /\ Elems(f, y) = Elems(g, y)
      BY <2>5, KeepsFacts DEF Keeps
    <3>2. Keeps(f, m) BY <2>37 DEF Concatenated
    <3>3. y # c /\ LeavesUnder(m, y) = LeavesUnder(f, y) /\ Elems(m, y) = Elems(f, y)
      BY <2>11, <3>1 DEF Linked
    <3>4. y \in m.live BY <3>1, <3>2 DEF Keeps
    <3> QED BY <2>20, <3>1, <3>3, <3>4 DEF SameTrees
  <2>23. c \in m.live /\ c # Null BY <2>12, <2>16, HdrFacts DEF Trees
  <2>24. LeavesUnder(k, c) = LeavesUnder(m, c) /\ Elems(k, c) = Elems(m, c)
    BY <2>20, <2>23 DEF SameTrees
  <2>25. Last(LeavesUnder(k, c)) = l
    <3>1. Last(LeavesUnder(m, c)) = Last(LeavesUnder(f, l)) BY <2>11 DEF Linked
    <3>2. Last(<<l>>) = l BY DEF Last
    <3> QED BY <2>6, <2>24, <3>1, <3>2
  <2>26. Elems(k, c) = Elems(g, x)
    <3>1. Elems(m, c) = Elems(f, x) \o Elems(f, l) BY <2>11 DEF Linked, Joined
    <3>2. x \in g.live BY <2>2
    <3>3. Elems(f, x) = Elems(g, x) BY <2>5, <3>2, KeepsFacts
    <3>4. Elems(f, l) = <<>>
      <4>1. Elems(f, l) = Data(f, <<l>>) BY <2>6 DEF Elems
      <4>2. Data(f, <<l>>) = f.data[l] BY <2>5, DataRules DEF Sound
      <4> QED BY <2>5, <4>1, <4>2
    <3>5. Elems(g, x) \in Seq(Vals) BY <2>2, <3>2, SizeIs DEF Sound
    <3>6. Elems(g, x) \o <<>> = Elems(g, x) BY <3>5, ConcatEmptySeq
    <3> QED BY <2>24, <3>1, <3>3, <3>4, <3>6
  <2>27. \A s \in Open(g) \ {r} : /\ s \in Ropes /\ g.root[s] \in g.live /\ g.root[s] \in R
                                  /\ g.root[s] # Null
    <3> SUFFICES ASSUME NEW s \in Open(g) \ {r}
                 PROVE  s \in Ropes /\ g.root[s] \in g.live /\ g.root[s] \in R /\ g.root[s] # Null
      OBVIOUS
    <3>1. s \in Ropes /\ g.root[s] \in S /\ g.root[s] # Null BY <2>3, GoodFacts
    <3>2. g.root[s] # x BY <2>3 DEF Good
    <3>3. g.root[s] # l BY <2>2, <2>5, <3>1
    <3> QED BY <2>2, <2>4, <3>1, <3>2, <3>3
  <2>28. Regrouped(g, k, {r}, R)
    <3>1. \A s \in Ropes \ {r} : k.root[s] = g.root[s] /\ k.tail[s] = g.tail[s] BY <2>18, <2>20
    <3>2. \A s \in Open(g) \ {r} : LeavesUnder(k, g.root[s]) = LeavesUnder(g, g.root[s]) /\ g.root[s] \in R
      BY <2>22, <2>27
    <3>3. Settled(k, R, r)
      <4>1. \A s \in Ropes \ {r} : k.root[s] # c
        <5> SUFFICES ASSUME NEW s \in Ropes \ {r} PROVE k.root[s] # c OBVIOUS
        <5>1. k.root[s] = g.root[s] BY <3>1
        <5>2. CASE g.root[s] = Null BY <2>23, <5>1, <5>2
        <5>3. CASE g.root[s] # Null
          <6>1. s \in Open(g) \ {r} BY <5>3 DEF Open
          <6> QED BY <2>22, <2>27, <5>1, <6>1
        <5> QED BY <5>2, <5>3
      <4>2. k.root[r] = c /\ k.tail[r] = l BY <2>18, <2>20
      <4> QED BY <2>16, <2>25, <4>1, <4>2 DEF Settled
    <3>4. \A y \in R : \E s \in Ropes : k.root[s] = y
      <4> SUFFICES ASSUME NEW y \in R, y # c PROVE \E s \in Ropes : k.root[s] = y
        BY <1>1, <2>18, <2>20
      <4>1. y \in S /\ y # x BY <2>4
      <4>2. PICK s \in Open(g) : y = g.root[s] BY <2>3, <4>1 DEF Roots
      <4>3. s \in Ropes \ {r} BY <2>3, <4>1, <4>2 DEF Open
      <4> QED BY <3>1, <4>2, <4>3
    <3> QED BY <3>1, <3>2, <3>3, <3>4 DEF Regrouped
  <2>29. {r} \subseteq Ropes BY <1>1
  <2>30. Good(k) /\ Open(k) = (Open(g) \ {r}) \union {s \in {r} : k.root[s] # Null}
    BY <2>20, <2>21, <2>28, <2>29, Regroup
  <2>31. k.root[r] = c /\ k.tail[r] = l BY <2>18, <2>20
  <2>32. Open(k) = Open(g) BY <2>23, <2>30, <2>31
  <2>33. Others(g, k, r)
    <3> SUFFICES ASSUME NEW s \in Open(g) \ {r} PROVE Text(k, s) = Text(g, s) BY DEF Others
    <3>1. k.root[s] = g.root[s] BY <2>18, <2>20, <2>27
    <3>2. Elems(k, g.root[s]) = Elems(g, g.root[s]) BY <2>22, <2>27
    <3> QED BY <3>1, <3>2 DEF Text
  <2>34. Text(k, r) = Text(g, r) BY <2>3, <2>26, <2>31 DEF Text
  <2>35. k.nelems[k.tail[r]] < Grain
    <3>1. l \in f.live BY <2>12
    <3>2. m.nelems[l] = 0 BY <2>5, <2>11, <3>1 DEF Linked
    <3>3. k.nelems[l] = 0 BY <2>20, <3>2 DEF SameTrees
    <3> QED BY <2>31, <3>3, GrainAssumption
  <2> QED BY <2>30, <2>32, <2>33, <2>34, <2>35 DEF Roomy, OnlyRope
<1> QED BY <1>2, <1>3

-----------------------------------------------------------------------------
(* The loop of xarray_pop                                                  *)

LEMMA LongerChain ==
  ASSUME NEW a, NEW d, NEW e \in Seq(Vals), NEW u, NEW v, LongerBy(a, d, u), LongerBy(d, e, v)
  PROVE  LongerBy(a, e, u + v)
<1>1. PICK us \in Seq(Vals) : Joined(a, d, us) /\ Len(us) = u BY DEF LongerBy
<1>2. PICK vs \in Seq(Vals) : Joined(d, e, vs) /\ Len(vs) = v BY DEF LongerBy
<1> DEFINE w == vs \o us
<1>3. w \in Seq(Vals) /\ Len(w) = Len(vs) + Len(us) /\ Len(us) \in Nat /\ Len(vs) \in Nat
  BY ConcatFacts
<1>4. (e \o vs) \o us = e \o w BY ValsAssociative
<1>5. a = e \o w BY <1>1, <1>2, <1>4 DEF Joined
<1> HIDE DEF w
<1>6. Len(w) = u + v BY <1>1, <1>2, <1>3
<1>7. Joined(a, e, w) BY <1>5 DEF Joined
<1> QED BY <1>3, <1>6, <1>7 DEF LongerBy

LEMMA LeafCountIs ==
  ASSUME NEW g, Good(g), NEW r \in Open(g)
  PROVE  LeafCount(g, r) \in 1..Cardinality(Leaves) /\ Cardinality(Leaves) \in Nat
<1> DEFINE s == LeavesUnder(g, g.root[r])
<1>1. g \in Heaps /\ Trees(g, Roots(g)) /\ g.root[r] \in g.live BY GoodFacts
<1>2. s \in Seq(Leaves) /\ Len(s) \in Nat \ {0} /\ Distinct(s) BY <1>1, LeafSeqs, LeavesDistinct
<1>3. IsFiniteSet(Leaves) BY HdrsAssumption
<1>4. Cardinality(Leaves) \in Nat BY <1>3, FS_CardinalityType
<1> HIDE DEF s
<1>5. Len(s) <= Cardinality(Leaves) BY <1>2, <1>3, DistinctLen
<1> QED BY <1>2, <1>4, <1>5 DEF s, LeafCount

(* What is left to pop after round i of at most n, of j elements.          *)
Popping(g, r, j, n, i, st) ==
  /\ st = [h |-> st.h, left |-> st.left] /\ st.h \in Heaps /\ st.left \in 0..j
  /\ OnlyRope(g, st.h, r)
  /\ LongerBy(Text(g, r), Text(st.h, r), j - st.left)
  /\ st.left = 0 \/ st.left + LeafCount(st.h, r) <= n - i
PopStep(r, st) ==
  LET p == RpaPop(st.h, r, st.left)
  IN  IF st.left = 0 THEN st ELSE [h |-> p.h, left |-> st.left - p.popped]

LEMMA PoppingStep ==
  ASSUME NEW g, Good(g), NEW r \in Open(g), NEW j \in Nat, j <= Size(g, r),
         NEW n \in Nat, NEW i \in 1..n, NEW st, Popping(g, r, j, n, i - 1, st)
  PROVE  Popping(g, r, j, n, i, PopStep(r, st))
<1>1. st.left \in 0..j /\ OnlyRope(g, st.h, r) /\ st.h \in Heaps BY DEF Popping
<1>2. CASE st.left = 0
  <2>1. PopStep(r, st) = st BY <1>2 DEF PopStep
  <2> QED BY <1>2, <2>1 DEF Popping
<1>3. CASE st.left # 0
  <2> DEFINE p == RpaPop(st.h, r, st.left)
             f == st.h
             want == st.left
  <2>1. PopStep(r, st) = [h |-> p.h, left |-> st.left - p.popped] BY <1>3 DEF PopStep
  <2>2. Good(f) /\ r \in Open(f) /\ Open(f) = Open(g) /\ Others(g, f, r)
    BY <1>1 DEF OnlyRope
  <2>3. want \in Nat \ {0} BY <1>1, <1>3
  <2>4. p = RpaPop(f, r, want) OBVIOUS
  <2>5. LongerBy(Text(g, r), Text(f, r), j - want) BY DEF Popping
  <2>6. want + LeafCount(f, r) <= n - (i - 1) BY <1>3 DEF Popping
  <2>15. want = st.left OBVIOUS
  <2> HIDE DEF p, f, want
  <2>7. Popped(f, r, want, p) BY <2>2, <2>3, <2>4, RpaPopFacts
  <2>8. /\ Good(p.h) /\ Open(p.h) = Open(f) /\ Others(f, p.h, r)
        /\ p.popped \in 0..want
        /\ LeafCount(p.h, r) <= LeafCount(f, r)
        /\ p.popped = 0 /\ LeafCount(p.h, r) = LeafCount(f, r) => Text(f, r) = <<>>
    BY <2>7 DEF Popped
  <2>9. LongerBy(Text(f, r), Text(p.h, r), p.popped) BY <2>7 DEF Popped
  <2>10. OnlyRope(g, p.h, r) /\ p.h \in Heaps
    <3>1. Others(g, p.h, r) BY <2>2, <2>8 DEF Others
    <3> QED BY <2>2, <2>8, <3>1, GoodFacts DEF OnlyRope
  <2>11. /\ Text(g, r) \in Seq(Vals) /\ Text(f, r) \in Seq(Vals) /\ Text(p.h, r) \in Seq(Vals)
         /\ Size(g, r) = Len(Text(g, r))
    BY <2>2, <2>8, GoodFacts
  <2>12. LongerBy(Text(g, r), Text(p.h, r), (j - want) + p.popped) BY <2>5, <2>9, <2>11, LongerChain
  <2>13. Text(f, r) # <<>>
    <3> SUFFICES ASSUME Text(f, r) = <<>> PROVE FALSE OBVIOUS
    <3>1. PICK vs \in Seq(Vals) : Joined(Text(g, r), Text(f, r), vs) /\ Len(vs) = j - want
      BY <2>5 DEF LongerBy
    <3>2. <<>> \o vs = vs BY ConcatEmptySeq
    <3>3. Len(Text(g, r)) = j - want BY <3>1, <3>2 DEF Joined
    <3> QED BY <2>3, <2>11, <3>3
  <2>14. LeafCount(p.h, r) \in Nat /\ LeafCount(f, r) \in Nat BY <2>2, <2>8, LeafCountIs
  <2> DEFINE e == want - p.popped
             q == [h |-> p.h, left |-> e]
  <2>16. e \in 0..j /\ (j - want) + p.popped = j - e BY <1>1, <2>3, <2>8, <2>15
  <2>17. e + LeafCount(p.h, r) <= n - i
    <3> DEFINE a == p.popped
               b == LeafCount(p.h, r)
               c == LeafCount(f, r)
    <3>1. a \in 0..want /\ b \in Nat /\ c \in Nat /\ b <= c /\ want + c <= n - (i - 1)
      BY <2>6, <2>8, <2>14
    <3>2. ~ (a = 0 /\ b = c) BY <2>8, <2>13
    <3> HIDE DEF a, b, c
    <3>3. (want - a) + b <= n - i BY <2>3, <3>1, <3>2
    <3> QED BY <3>3 DEF a, b
  <2>18. q.h = p.h /\ q.left = e /\ q = [h |-> q.h, left |-> q.left] OBVIOUS
  <2>19. PopStep(r, st) = q BY <2>1, <2>15
  <2>21. LongerBy(Text(g, r), Text(p.h, r), j - e) BY <2>12, <2>16
  <2> HIDE DEF e, q
  <2>20. Popping(g, r, j, n, i, q) BY <2>10, <2>16, <2>17, <2>18, <2>21 DEF Popping
  <2> QED BY <2>19, <2>20
<1> QED BY <1>2, <1>3

LEMMA PopGood ==
  ASSUME Good(h), NEW r \in Open(h), NEW j \in Nat, j <= Size(h, r),
         NEW k, k = PopElems(r, j)
  PROVE  OnlyRope(h, k, r) /\ LongerBy(Text(h, r), Text(k, r), j)
<1> DEFINE n == j + Cardinality(Leaves)
           States == [h : Heaps, left : Nat]
           St0 == [h |-> h, left |-> j]
           P == [i \in 0..n |-> {st \in States : Popping(h, r, j, n, i, st)}]
           F == [p \in (0..n) \X States |-> PopStep(r, p[2])]
           Is(f) == f = [i \in 0..n |-> IF i = 0 THEN St0 ELSE PopStep(r, f[i - 1])]
           after == CHOOSE f : Is(f)
<1>1. k = after[n].h BY DEF PopElems, PopStep
<1> HIDE DEF after
<1>2. n \in Nat BY LeafCountIs
<1>3. \A i \in 0..n : \A st : Popping(h, r, j, n, i, st) => st \in States
  <2> SUFFICES ASSUME NEW i \in 0..n, NEW st, Popping(h, r, j, n, i, st) PROVE st \in States
    OBVIOUS
  <2>1. st = [h |-> st.h, left |-> st.left] /\ st.h \in Heaps /\ st.left \in Nat BY DEF Popping
  <2> QED BY <2>1
<1>4. St0 \in P[0]
  <2>1. St0.h = h /\ St0.left = j /\ St0 = [h |-> St0.h, left |-> St0.left] OBVIOUS
  <2> HIDE DEF St0
  <2>2. OnlyRope(h, h, r) /\ h \in Heaps BY GoodFacts DEF OnlyRope, Others
  <2>3. Joined(Text(h, r), Text(h, r), <<>>) /\ <<>> \in Seq(Vals) /\ Len(<<>>) = j - j
    <3>1. Text(h, r) \in Seq(Vals) BY GoodFacts
    <3>2. Text(h, r) \o <<>> = Text(h, r) BY <3>1, ConcatEmptySeq
    <3> QED BY <3>2 DEF Joined
  <2>4. j + LeafCount(h, r) <= n - 0 BY LeafCountIs
  <2> HIDE DEF n
  <2>5. LongerBy(Text(h, r), Text(h, r), j - j) BY <2>3 DEF LongerBy
  <2>6. Popping(h, r, j, n, 0, St0) BY <2>1, <2>2, <2>4, <2>5 DEF Popping
  <2> QED BY <1>2, <1>3, <2>6
<1>5. ASSUME NEW i \in 0..n, i # 0, NEW st \in P[i - 1] PROVE PopStep(r, st) \in P[i]
  <2>1. i \in 1..n /\ Popping(h, r, j, n, i - 1, st) BY <1>2, <1>5
  <2>2. Popping(h, r, j, n, i, PopStep(r, st)) BY <1>2, <2>1, PoppingStep
  <2> QED BY <1>3, <2>2
<1>6. \A i \in 0..n : i # 0 => \A st \in P[i - 1] : F[<<i, st>>] = PopStep(r, st)
  <2> SUFFICES ASSUME NEW i \in 0..n, i # 0, NEW st \in P[i - 1]
               PROVE  F[<<i, st>>] = PopStep(r, st)
    OBVIOUS
  <2>1. i - 1 \in 0..n BY <1>2
  <2>2. st \in States BY <2>1
  <2> HIDE DEF States, P, n
  <2> QED BY <2>2
<1> HIDE DEF P, F, St0, States, n
<1>7. PICK e : Loops(0, n, St0, F, e) /\ \A i \in 0..n : e[i] \in P[i]
  <2>1. \A i \in 0..n : i # 0 => \A st \in P[i - 1] : F[<<i, st>>] \in P[i] BY <1>5, <1>6
  <2>2. 0 \in Int /\ n \in Int BY <1>2
  <2> QED BY <1>4, <2>1, <2>2, Loop
<1>8. Is(e)
  <2>1. \A i \in 0..n : i # 0 => F[<<i, e[i - 1]>>] = PopStep(r, e[i - 1])
    <3> SUFFICES ASSUME NEW i \in 0..n, i # 0 PROVE F[<<i, e[i - 1]>>] = PopStep(r, e[i - 1])
      OBVIOUS
    <3>1. i - 1 \in 0..n BY <1>2
    <3> QED BY <1>6, <1>7, <3>1
  <2> QED BY <1>7, <2>1 DEF Loops
<1>9. Is(after) BY <1>8 DEF after
<1>10. \A i \in 0..n : after[i] \in P[i]
  <2>1. after[0] \in P[0] BY <1>2, <1>4, <1>9
  <2>2. \A i \in 0..n : i # 0 /\ after[i - 1] \in P[i - 1] => after[i] \in P[i]
    BY <1>5, <1>9
  <2>3. 0 \in Int /\ n \in Int BY <1>2
  <2> HIDE DEF Is
  <2> QED BY <2>1, <2>2, <2>3, LoopKeeps
<1>11. Popping(h, r, j, n, n, after[n]) BY <1>2, <1>10 DEF P
<1>12. OnlyRope(h, k, r) BY <1>1, <1>11 DEF Popping
<1>13. after[n].left = 0
  <2>1. k = after[n].h /\ LeafCount(k, r) \in Nat \ {0}
    BY <1>1, <1>12, LeafCountIs DEF OnlyRope
  <2> DEFINE le == after[n].left
             lc == LeafCount(k, r)
  <2>2. le \in Nat /\ (le = 0 \/ le + lc <= n - n) BY <1>1, <1>11 DEF Popping
  <2> HIDE DEF le, lc
  <2>3. lc \in Nat \ {0} BY <2>1 DEF lc
  <2>4. le = 0 BY <1>2, <2>2, <2>3
  <2> QED BY <2>4 DEF le
<1>14. LongerBy(Text(h, r), Text(k, r), j)
  <2>1. LongerBy(Text(h, r), Text(k, r), j - after[n].left) BY <1>1, <1>11 DEF Popping
  <2> QED BY <1>13, <2>1
<1> QED BY <1>12, <1>14

-----------------------------------------------------------------------------
(* Creating and concatenating                                              *)

(* Rope r gets a root and a tail.                                          *)
Sets(g, r, y, t, a, e) ==
  /\ a \in [Ropes -> Hdrs \union {Null}] /\ e \in [Ropes -> Leaves \union {Null}]
  /\ a[r] = y /\ e[r] = t /\ \A s \in Ropes \ {r} : a[s] = g.root[s] /\ e[s] = g.tail[s]

LEMMA NewRoots ==
  ASSUME NEW g \in Heaps, NEW r \in Ropes, NEW y \in Hdrs \union {Null}, NEW t \in Leaves \union {Null},
         NEW a, a = [g.root EXCEPT ![r] = y], NEW e, e = [g.tail EXCEPT ![r] = t]
  PROVE  Sets(g, r, y, t, a, e)
<1>1. g.root \in [Ropes -> Hdrs \union {Null}] /\ g.tail \in [Ropes -> Leaves \union {Null}]
  BY HeapFacts
<1> QED BY <1>1, ExceptType DEF Sets

(* xarray_create                                                           *)
WithLeaf(g, r) == [LeafAlloc(g) EXCEPT !.root[r] = NewLeaf(g), !.tail[r] = NewLeaf(g)]
Created(g, k, r) ==
  Good(k) /\ Open(k) = Open(g) \union {r} /\ Others(g, k, r) /\ Text(k, r) = <<>>

LEMMA CreateGood ==
  ASSUME NEW g, Good(g), NEW r \in Ropes \ Open(g), Leaves \ g.live # {},
         NEW k, k = WithLeaf(g, r)
  PROVE  Created(g, k, r)
<1> DEFINE S == Roots(g)
           l == NewLeaf(g)
           f == LeafAlloc(g)
           R == S \union {l}
           ra == [g.root EXCEPT ![r] = l]
           ta == [g.tail EXCEPT ![r] = l]
<1>1. /\ g \in Heaps /\ Sound(g, S) /\ Tops(g, S) /\ r \in Ropes /\ S \subseteq g.live
      /\ g.live \subseteq Hdrs
  BY GoodFacts, HeapFacts DEF Good, Trees
<1>2. /\ l = NewLeaf(g) /\ f = LeafAlloc(g) /\ S = Roots(g) /\ R = S \union {l}
      /\ ra = [g.root EXCEPT ![r] = l] /\ ta = [g.tail EXCEPT ![r] = l]
      /\ k = [f EXCEPT !.root[r] = l, !.tail[r] = l]
  BY DEF WithLeaf
<1> HIDE DEF S, l, f, R, ra, ta
<1>3. Allocated(g, S, l, f) BY <1>1, <1>2, LeafAllocFacts
<1>4. /\ l \in Leaves \ g.live /\ Sound(f, R) /\ Keeps(g, f)
      /\ f.nelems[l] = 0 /\ f.data[l] = <<>>
      /\ f.parent[l] = Null /\ \A y \in Hdrs \ {l} : f.parent[y] = g.parent[y]
  BY <1>2, <1>3 DEF Allocated
<1>5. LeavesUnder(f, l) = <<l>> BY <1>3 DEF Allocated
<1>6. f.root = g.root /\ f.tail = g.tail /\ g.live \subseteq f.live BY <1>4 DEF Keeps
<1>7. Tops(f, R) BY <1>1, <1>2, <1>4 DEF Tops
<1>8. k = WithRoots(f, ra, ta)
  <2>1. k = [f EXCEPT !.root = [f.root EXCEPT ![r] = l], !.tail = [f.tail EXCEPT ![r] = l]]
    BY <1>2
  <2> QED BY <1>2, <1>6, <2>1 DEF WithRoots
<1>9. l \in Hdrs /\ l # Null BY <1>4, HdrFacts
<1>10. /\ ra \in [Ropes -> Hdrs \union {Null}] /\ ta \in [Ropes -> Leaves \union {Null}]
       /\ ra[r] = l /\ ta[r] = l /\ \A s \in Ropes \ {r} : ra[s] = g.root[s] /\ ta[s] = g.tail[s]
  <2>1. l \in Hdrs \union {Null} /\ l \in Leaves \union {Null} BY <1>4, <1>9
  <2>2. Sets(g, r, l, l, ra, ta) BY <1>1, <1>2, <2>1, NewRoots
  <2> QED BY <2>2 DEF Sets
<1>11. Sound(k, R) /\ k.root = ra /\ k.tail = ta /\ SameTrees(f, k)
  BY <1>4, <1>8, <1>10, WithRootsFacts
<1>12. Tops(k, R) BY <1>7, <1>11 DEF Tops, SameTrees
<1>13. l \in f.live BY <1>3 DEF Allocated
<1>14. LeavesUnder(k, l) = <<l>> /\ Elems(k, l) = Elems(f, l) BY <1>5, <1>11, <1>13 DEF SameTrees
<1>15. \A y \in g.live : LeavesUnder(k, y) = LeavesUnder(g, y) /\ Elems(k, y) = Elems(g, y)
  <2> SUFFICES ASSUME NEW y \in g.live
               PROVE  LeavesUnder(k, y) = LeavesUnder(g, y) /\ Elems(k, y) = Elems(g, y)
    OBVIOUS
  <2>1. LeavesUnder(f, y) = LeavesUnder(g, y) /\ Elems(f, y) = Elems(g, y)
    BY <1>4, KeepsFacts DEF Keeps
  <2> QED BY <1>6, <1>11, <2>1 DEF SameTrees
<1>16. \A s \in Open(g) : s \in Ropes /\ s # r /\ g.root[s] \in S /\ g.root[s] \in g.live
  BY <1>1, <1>2, GoodFacts
<1>17. Regrouped(g, k, {r}, R)
  <2>1. \A s \in Ropes \ {r} : k.root[s] = g.root[s] /\ k.tail[s] = g.tail[s] BY <1>10, <1>11
  <2>2. \A s \in Open(g) \ {r} : LeavesUnder(k, g.root[s]) = LeavesUnder(g, g.root[s]) /\ g.root[s] \in R
    BY <1>2, <1>15, <1>16
  <2>3. Settled(k, R, r)
    <3>1. k.root[r] = l /\ k.tail[r] = l BY <1>10, <1>11
    <3>2. Last(<<l>>) = l BY DEF Last
    <3>3. \A s \in Ropes \ {r} : k.root[s] # l
      <4> SUFFICES ASSUME NEW s \in Ropes \ {r}, g.root[s] = l PROVE FALSE BY <2>1
      <4>1. s \in Open(g) BY <1>9 DEF Open
      <4> QED BY <1>4, <1>16, <4>1
    <3> QED BY <1>2, <1>14, <3>1, <3>2, <3>3 DEF Settled
  <2>4. \A y \in R : \E s \in Ropes : k.root[s] = y
    <3> SUFFICES ASSUME NEW y \in R, y # l PROVE \E s \in Ropes : k.root[s] = y
      BY <1>1, <1>10, <1>11
    <3>1. PICK s \in Open(g) : y = g.root[s] BY <1>2 DEF Roots
    <3> QED BY <1>16, <2>1, <3>1
  <2> QED BY <2>1, <2>2, <2>3, <2>4 DEF Regrouped
<1>18. {r} \subseteq Ropes BY <1>1
<1>19. Good(k) /\ Open(k) = (Open(g) \ {r}) \union {s \in {r} : k.root[s] # Null}
  BY <1>11, <1>12, <1>17, <1>18, Regroup
<1>20. Open(k) = Open(g) \union {r} BY <1>9, <1>10, <1>11, <1>19
<1>21. Others(g, k, r)
  <2> SUFFICES ASSUME NEW s \in Open(g) \ {r} PROVE Text(k, s) = Text(g, s) BY DEF Others
  <2>1. k.root[s] = g.root[s] BY <1>10, <1>11, <1>16
  <2> QED BY <1>15, <1>16, <2>1 DEF Text
<1>22. Text(k, r) = <<>>
  <2>1. Elems(f, l) = Data(f, <<l>>) BY <1>5 DEF Elems
  <2>2. Data(f, <<l>>) = f.data[l] BY <1>4, DataRules DEF Sound
  <2>3. Text(k, r) = Elems(k, l) BY <1>10, <1>11 DEF Text
  <2> QED BY <1>4, <1>14, <2>1, <2>2, <2>3
<1> QED BY <1>19, <1>20, <1>21, <1>22 DEF Created

(* Nodes at the top of trees are freed: their children become roots.       *)
Freed(g, k, xs, R) ==
  /\ Sound(k, R) /\ k.live = g.live \ xs /\ k.root = g.root /\ k.tail = g.tail
  /\ \A z \in g.live \ xs :
       /\ k.nelems[z] = g.nelems[z] /\ k.parent[z] = g.parent[z]
       /\ LeavesUnder(k, z) = LeavesUnder(g, z) /\ InnerUnder(k, z) = InnerUnder(g, z)
       /\ Elems(k, z) = Elems(g, z) /\ All(g, z) \subseteq g.live \ xs

LEMMA FreeTops ==
  ASSUME NEW g, NEW S, Sound(g, S), NEW xs, xs \subseteq g.live,
         \A z \in xs : z \in S \/ g.parent[z] \in xs,
         NEW R, R = (S \ xs) \union {z \in g.live \ (xs \union S) : g.parent[z] \in xs},
         NEW k, k = Dealloc(g, xs)
  PROVE  Freed(g, k, xs, R)
<1>1. /\ g \in Heaps /\ Trees(g, S) /\ Sizes(g) /\ Depths(g) /\ S \subseteq g.live
      /\ g.live \subseteq Hdrs
  BY HeapFacts DEF Sound, Trees
<1>2. /\ k \in Heaps /\ k.live = g.live \ xs /\ k.root = g.root /\ k.tail = g.tail
      /\ \A z \in Hdrs : z \notin xs => k.nelems[z] = g.nelems[z] /\ k.parent[z] = g.parent[z]
      /\ \A n \in Inner : n \notin xs =>
           k.left[n] = g.left[n] /\ k.right[n] = g.right[n] /\ k.depth[n] = g.depth[n]
      /\ \A l \in Leaves : k.data[l] = IF l \in xs THEN <<>> ELSE g.data[l]
  BY <1>1, DeallocIs
<1>3. Nodes(k) = Nodes(g) \ xs /\ LiveLeaves(k) = LiveLeaves(g) \ xs
  BY <1>2 DEF Nodes, LiveLeaves
<1>4. ASSUME NEW n \in Nodes(g) \ xs
      PROVE  /\ n \in Inner /\ n \in g.live /\ n \in Hdrs /\ n \notin Leaves
             /\ g.left[n] \in g.live \ xs /\ g.right[n] \in g.live \ xs
             /\ g.left[n] \notin R /\ g.right[n] \notin R
             /\ g.left[n] # g.right[n] /\ g.parent[g.left[n]] = n /\ g.parent[g.right[n]] = n
             /\ Depth(g, g.left[n]) < g.depth[n] /\ Depth(g, g.right[n]) < g.depth[n]
             /\ k.left[n] = g.left[n] /\ k.right[n] = g.right[n] /\ k.depth[n] = g.depth[n]
  <2>1. /\ n \in Inner /\ n \in g.live /\ n \in Hdrs /\ n \notin Leaves
        /\ g.left[n] \in g.live \ S /\ g.right[n] \in g.live \ S
        /\ g.left[n] # g.right[n] /\ g.parent[g.left[n]] = n /\ g.parent[g.right[n]] = n
    BY <1>1, NodeFacts
  <2>2. Depth(g, g.left[n]) < g.depth[n] /\ Depth(g, g.right[n]) < g.depth[n] BY <1>1, Links
  <2> QED BY <1>2, <2>1, <2>2
<1>5. \A z \in g.live \ xs : Depth(k, z) = Depth(g, z)
  BY <1>1, <1>2, HdrFacts DEF Depth, Hdrs
<1>6. Trees(k, R)
  <2>1. R \subseteq k.live BY <1>1, <1>2
  <2>2. ASSUME NEW n \in Nodes(k) PROVE Node(k, R, n)
    <3>1. n \in Nodes(g) \ xs BY <1>3
    <3> QED BY <1>1, <1>2, <1>4, <1>5, <3>1 DEF Node
  <2>3. ASSUME NEW z \in k.live \ R PROVE Child(k, z)
    <3>1. z \in g.live /\ z \notin xs /\ z \notin S /\ g.parent[z] \notin xs BY <1>2
    <3>2. g.parent[z] \in Nodes(g) \ xs /\ (z = g.left[g.parent[z]] \/ z = g.right[g.parent[z]])
      BY <1>1, <3>1 DEF Trees, Child
    <3> QED BY <1>1, <1>2, <1>3, <1>4, <3>1, <3>2 DEF Child
  <2> QED BY <2>1, <2>2, <2>3 DEF Trees
<1>7. Sizes(k)
  <2>1. ASSUME NEW n \in Nodes(k) PROVE k.nelems[n] = k.nelems[k.left[n]] + k.nelems[k.right[n]]
    <3>1. n \in Nodes(g) \ xs /\ g.nelems[n] = g.nelems[g.left[n]] + g.nelems[g.right[n]]
      BY <1>1, <1>3 DEF Sizes
    <3> QED BY <1>1, <1>2, <1>4, <3>1
  <2>2. \A l \in LiveLeaves(k) : k.nelems[l] = Len(k.data[l]) /\ k.nelems[l] <= Grain
    BY <1>1, <1>2, <1>3 DEF Sizes, LiveLeaves
  <2>3. \A l \in Leaves \ k.live : k.data[l] = <<>> BY <1>1, <1>2 DEF Sizes
  <2> QED BY <2>1, <2>2, <2>3 DEF Sizes
<1>8. Depths(k)
  <2> SUFFICES ASSUME NEW n \in Nodes(k) PROVE DepthIs(k, n) BY DEF Depths
  <2>1. n \in Nodes(g) \ xs /\ DepthIs(g, n) BY <1>1, <1>3 DEF Depths
  <2>2. /\ k.left[n] = g.left[n] /\ k.right[n] = g.right[n] /\ k.depth[n] = g.depth[n]
        /\ Depth(k, g.left[n]) = Depth(g, g.left[n]) /\ Depth(k, g.right[n]) = Depth(g, g.right[n])
    BY <1>4, <1>5, <2>1
  <2>3. g.depth[n] = 1 + Max({Depth(g, g.left[n]), Depth(g, g.right[n])}) BY <2>1 DEF DepthIs
  <2>4. k.depth[n] = 1 + Max({Depth(k, k.left[n]), Depth(k, k.right[n])}) BY <2>2, <2>3
  <2> QED BY <2>4 DEF DepthIs
<1> DEFINE T == {z \in g.live : z \notin xs => All(g, z) \subseteq g.live \ xs}
<1>9. g.live \subseteq T
  <2>1. \A l \in LiveLeaves(g) : l \in T BY <1>1, AllRules DEF LiveLeaves
  <2>2. ASSUME NEW n \in Nodes(g), g.left[n] \in T, g.right[n] \in T PROVE n \in T
    <3>1. n \in g.live BY DEF Nodes
    <3>2. ASSUME n \notin xs PROVE All(g, n) \subseteq g.live \ xs
      <4>1. All(g, n) = {n} \union All(g, g.left[n]) \union All(g, g.right[n]) BY <1>1, AllRules
      <4> QED BY <1>4, <2>2, <3>1, <3>2, <4>1
    <3> QED BY <3>1, <3>2
  <2> HIDE DEF T
  <2> QED BY <1>1, <2>1, <2>2, TreeSets
<1>10. ASSUME NEW z \in g.live \ xs
       PROVE  /\ LeavesUnder(k, z) = LeavesUnder(g, z) /\ InnerUnder(k, z) = InnerUnder(g, z)
              /\ Elems(k, z) = Elems(g, z) /\ All(g, z) \subseteq g.live \ xs
  <2>1. All(g, z) \subseteq g.live \ xs BY <1>9
  <2>2. \A n \in InnerUnder(g, z) : k.left[n] = g.left[n] /\ k.right[n] = g.right[n]
    <3>1. InnerUnder(g, z) = All(g, z) \intersect Nodes(g) BY <1>1, AllRules
    <3> QED BY <1>4, <2>1, <3>1
  <2>3. All(g, z) \subseteq k.live BY <1>2, <2>1
  <2>4. LeavesUnder(k, z) = LeavesUnder(g, z) /\ InnerUnder(k, z) = InnerUnder(g, z)
    BY <1>1, <1>2, <1>6, <2>2, <2>3, SameUnder
  <2> DEFINE s == LeavesUnder(g, z)
  <2>5. s \in Seq(Leaves) BY <1>1, LeafSeqs
  <2>6. \A l \in ToSet(s) : k.data[l] = g.data[l]
    <3>1. ToSet(s) = All(g, z) \intersect LiveLeaves(g) BY <1>1, AllRules
    <3> QED BY <1>2, <2>1, <3>1 DEF LiveLeaves
  <2> HIDE DEF s
  <2>7. Data(k, s) = Data(g, s) BY <2>5, <2>6, DataSame
  <2> QED BY <2>1, <2>4, <2>7 DEF Elems, s
<1>11. Sound(k, R) BY <1>2, <1>6, <1>7, <1>8 DEF Sound
<1> QED BY <1>1, <1>2, <1>10, <1>11 DEF Freed

(* xarray_concat: rope r2 is gone, its elements follow those of r1.        *)
Merged(g, k, r1, r2) ==
  /\ Good(k) /\ Open(k) = Open(g) \ {r2}
  /\ \A s \in Open(g) \ {r1, r2} : Text(k, s) = Text(g, s)
  /\ Joined(Text(k, r1), Text(g, r1), Text(g, r2))

(* The copied leaf of r2 is freed, r2 gets no root.                        *)
Emptied(f, r2, t) == [Dealloc(f, {t}) EXCEPT !.root[r2] = Null, !.tail[r2] = Null]

LEMMA EmptiedFacts ==
  ASSUME NEW g, Good(g), NEW r \in Open(g), NEW t, t = g.root[r], t \in Leaves,
         NEW k, k = Emptied(g, r, t)
  PROVE  /\ Good(k) /\ Open(k) = Open(g) \ {r}
         /\ \A s \in Open(g) \ {r} : Text(k, s) = Text(g, s)
<1> DEFINE S == Roots(g)
           xs == {t}
           R == (S \ xs) \union {z \in g.live \ (xs \union S) : g.parent[z] \in xs}
           m == Dealloc(g, xs)
           ra == [g.root EXCEPT ![r] = Null]
           ta == [g.tail EXCEPT ![r] = Null]
<1>1. /\ g \in Heaps /\ Sound(g, S) /\ Tops(g, S) /\ r \in Ropes /\ S \subseteq g.live
      /\ g.live \subseteq Hdrs /\ t \in S /\ Trees(g, S)
  BY GoodFacts, HeapFacts DEF Good, Trees
<1>2. R = S \ {t}
  <2>1. \A z \in g.live \ S : g.parent[z] \in Inner BY <1>1 DEF Trees, Child, Nodes
  <2>2. t \notin Inner BY HdrFacts, <1>1
  <2> QED BY <2>1, <2>2
<1>3. /\ m = Dealloc(g, xs) /\ ra = [g.root EXCEPT ![r] = Null] /\ ta = [g.tail EXCEPT ![r] = Null]
      /\ R = (S \ xs) \union {z \in g.live \ (xs \union S) : g.parent[z] \in xs}
      /\ S = Roots(g) /\ xs = {t} /\ xs \subseteq g.live /\ xs \subseteq S
  BY <1>1
<1> HIDE DEF S, xs, R, m, ra, ta
<1>4. \A z \in xs : z \in S \/ g.parent[z] \in xs BY <1>3
<1>5. Freed(g, m, xs, R) BY <1>1, <1>3, <1>4, FreeTops
<1>6. Sound(m, R) /\ m.live = g.live \ {t} /\ m.root = g.root /\ m.tail = g.tail
  BY <1>3, <1>5 DEF Freed
<1>7. \A z \in g.live \ {t} : /\ m.parent[z] = g.parent[z] /\ LeavesUnder(m, z) = LeavesUnder(g, z)
                              /\ Elems(m, z) = Elems(g, z)
  BY <1>3, <1>5 DEF Freed
<1>8. k = WithRoots(m, ra, ta)
  <2>1. k = [m EXCEPT !.root[r] = Null, !.tail[r] = Null] BY <1>3 DEF Emptied
  <2>2. k = [m EXCEPT !.root = [m.root EXCEPT ![r] = Null], !.tail = [m.tail EXCEPT ![r] = Null]]
    BY <2>1
  <2> QED BY <1>3, <1>6, <2>2 DEF WithRoots
<1>9. Sets(g, r, Null, Null, ra, ta)
  <2>1. Null \in Hdrs \union {Null} /\ Null \in Leaves \union {Null} OBVIOUS
  <2> QED BY <1>1, <1>3, <2>1, NewRoots
<1>10. /\ ra \in [Ropes -> Hdrs \union {Null}] /\ ta \in [Ropes -> Leaves \union {Null}]
       /\ ra[r] = Null /\ \A s \in Ropes \ {r} : ra[s] = g.root[s] /\ ta[s] = g.tail[s]
  BY <1>9 DEF Sets
<1>11. Sound(k, R) /\ k.root = ra /\ k.tail = ta /\ SameTrees(m, k)
  BY <1>6, <1>8, <1>10, WithRootsFacts
<1>12. Tops(k, R)
  <2> SUFFICES ASSUME NEW x \in R PROVE k.parent[x] = Null BY DEF Tops
  <2>1. x \in S /\ x \in g.live \ {t} BY <1>1, <1>2
  <2> QED BY <1>1, <1>7, <1>11, <2>1 DEF Tops, SameTrees
<1>13. \A s \in Open(g) \ {r} : s \in Ropes /\ g.root[s] \in R /\ g.root[s] \in g.live \ {t}
  <2> SUFFICES ASSUME NEW s \in Open(g) \ {r}
               PROVE  s \in Ropes /\ g.root[s] \in R /\ g.root[s] \in g.live \ {t}
    OBVIOUS
  <2>1. s \in Ropes /\ g.root[s] \in S /\ g.root[s] \in g.live BY <1>3, GoodFacts
  <2>2. g.root[s] # t BY DEF Good
  <2> QED BY <1>2, <2>1, <2>2
<1>14. Regrouped(g, k, {r}, R)
  <2>1. \A s \in Ropes \ {r} : k.root[s] = g.root[s] /\ k.tail[s] = g.tail[s] BY <1>10, <1>11
  <2>2. \A s \in Open(g) \ {r} : LeavesUnder(k, g.root[s]) = LeavesUnder(g, g.root[s]) /\ g.root[s] \in R
    BY <1>6, <1>7, <1>11, <1>13 DEF SameTrees
  <2>3. k.root[r] = Null BY <1>10, <1>11
  <2>4. \A y \in R : \E s \in Ropes : k.root[s] = y
    <3> SUFFICES ASSUME NEW y \in R PROVE \E s \in Ropes : k.root[s] = y OBVIOUS
    <3>1. y \in S /\ y # t BY <1>2
    <3>2. PICK s \in Open(g) : y = g.root[s] BY <1>3, <3>1 DEF Roots
    <3>3. s \in Ropes \ {r} BY <3>1, <3>2 DEF Open
    <3> QED BY <2>1, <3>2, <3>3
  <2> QED BY <2>1, <2>2, <2>3, <2>4 DEF Regrouped
<1>15. {r} \subseteq Ropes BY <1>1
<1>16. Good(k) /\ Open(k) = (Open(g) \ {r}) \union {s \in {r} : k.root[s] # Null}
  BY <1>11, <1>12, <1>14, <1>15, Regroup
<1>17. Open(k) = Open(g) \ {r} BY <1>10, <1>11, <1>16
<1>18. \A s \in Open(g) \ {r} : Text(k, s) = Text(g, s)
  BY <1>6, <1>7, <1>10, <1>11, <1>13 DEF Text, SameTrees
<1> QED BY <1>16, <1>17, <1>18

LEMMA ConcatenateGood ==
  ASSUME NEW g, Good(g), NEW r1 \in Open(g), NEW r2 \in Open(g), r1 # r2,
         NEW k, k = Concatenate(g, r1, r2)
  PROVE  Merged(g, k, r1, r2)
<1> DEFINE S == Roots(g)
           x == g.root[r1]
           y == g.root[r2]
           t == g.tail[r2]
<1>1. /\ g \in Heaps /\ Sound(g, S) /\ Tops(g, S) /\ r1 \in Ropes /\ r2 \in Ropes /\ S \subseteq g.live
      /\ g.live \subseteq Hdrs /\ x \in S /\ y \in S /\ x # y /\ t = Last(LeavesUnder(g, y))
      /\ t \in Leaves /\ t \in LiveLeaves(g) /\ g.tail[r1] \in Leaves /\ g.tail[r1] = Last(LeavesUnder(g, x))
  BY GoodFacts, HeapFacts DEF Good, Trees
<1>2. CASE CopyPath(g, r1, r2)
  <2> DEFINE vs == g.data[t]
             f == Finalize(g, r1, vs)
  <2>1. y \in Leaves /\ g.nelems[g.tail[r1]] + g.nelems[t] <= Grain BY <1>2 DEF CopyPath
  <2>2. LeavesUnder(g, y) = <<y>> BY <1>1, <2>1, LeavesRules DEF LiveLeaves, Sound
  <2>3. t = y
    <3>1. Last(<<y>>) = y BY DEF Last
    <3> QED BY <1>1, <2>2, <3>1
  <2>4. vs \in Seq(Vals) /\ g.nelems[t] = Len(vs) BY <1>1, HeapFacts DEF Sound, Sizes
  <2>5. k = Emptied(f, r2, t) BY <1>2 DEF Concatenate, Emptied
  <2>6. f = Finalize(g, r1, vs) /\ vs = g.data[t] OBVIOUS
  <2> HIDE DEF S, x, y, t, vs, f
  <2>7. g.nelems[g.tail[r1]] + Len(vs) <= Grain BY <2>1, <2>4
  <2>8. OnlyRope(g, f, r1) /\ SameShape(g, f) BY <2>4, <2>6, <2>7, FinalizeGood
  <2>9. Joined(Text(f, r1), Text(g, r1), vs) BY <2>4, <2>6, <2>7, FinalizeGood
  <2>10. Good(f) /\ Open(f) = Open(g) /\ Others(g, f, r1) /\ f.root = g.root
    BY <2>8 DEF OnlyRope, SameShape
  <2>11. t = f.root[r2] BY <2>3, <2>10 DEF y
  <2>12. /\ Good(k) /\ Open(k) = Open(f) \ {r2}
         /\ \A s \in Open(f) \ {r2} : Text(k, s) = Text(f, s)
    BY <1>1, <2>5, <2>10, <2>11, EmptiedFacts
  <2>13. Text(g, r2) = vs
    <3>1. Text(g, r2) = Data(g, <<y>>) BY <2>2 DEF Text, Elems, y
    <3>2. Data(g, <<y>>) = g.data[y] BY <1>1, <2>1, DataRules
    <3> QED BY <2>3, <2>6, <3>1, <3>2
  <2>14. \A s \in Open(g) \ {r1, r2} : Text(k, s) = Text(g, s) BY <2>10, <2>12 DEF Others
  <2>15. Text(k, r1) = Text(f, r1) BY <2>10, <2>12
  <2>16. Joined(Text(k, r1), Text(g, r1), Text(g, r2)) BY <2>9, <2>13, <2>15
  <2> QED BY <2>10, <2>12, <2>14, <2>16 DEF Merged
<1>3. CASE ~ CopyPath(g, r1, r2)
  <2> DEFINE c == NewNode(g)
             m == RpaConcat(g, x, y)
             R == (S \ {x, y}) \union {c}
             h1 == [m EXCEPT !.root[r1] = c, !.tail[r1] = t]
             ra == [g.root EXCEPT ![r1] = c]
             ta == [g.tail EXCEPT ![r1] = t]
             rb == [ra EXCEPT ![r2] = Null]
             tb == [ta EXCEPT ![r2] = Null]
  <2>1. k = [h1 EXCEPT !.root[r2] = Null, !.tail[r2] = Null] BY <1>3 DEF Concatenate
  <2>2. /\ c = NewNode(g) /\ m = RpaConcat(g, x, y) /\ R = (S \ {x, y}) \union {c}
        /\ h1 = [m EXCEPT !.root[r1] = c, !.tail[r1] = t]
        /\ ra = [g.root EXCEPT ![r1] = c] /\ ta = [g.tail EXCEPT ![r1] = t]
        /\ rb = [ra EXCEPT ![r2] = Null] /\ tb = [ta EXCEPT ![r2] = Null]
        /\ S = Roots(g) /\ x = g.root[r1] /\ y = g.root[r2] /\ t = g.tail[r2]
    OBVIOUS
  <2> HIDE DEF S, x, y, t, c, m, R, h1, ra, ta, rb, tb
  <2>3. Linked(g, m, x, c, y, R) /\ m.root = g.root /\ m.tail = g.tail
    BY <1>1, <2>2, LinkFacts
  <2>4. /\ Sound(m, R) /\ Tops(m, R) /\ c \in Inner /\ c \in R
        /\ Last(LeavesUnder(m, c)) = Last(LeavesUnder(g, y))
        /\ Joined(Elems(m, c), Elems(g, x), Elems(g, y))
        /\ \A z \in g.live : z # c /\ LeavesUnder(m, z) = LeavesUnder(g, z) /\ Elems(m, z) = Elems(g, z)
    BY <2>3 DEF Linked
  <2>5. k = WithRoots(m, rb, tb)
    <3>1. h1 = [m EXCEPT !.root = [m.root EXCEPT ![r1] = c], !.tail = [m.tail EXCEPT ![r1] = t]]
      BY <2>2
    <3>2. h1 = [m EXCEPT !.root = ra, !.tail = ta] BY <2>2, <2>3, <3>1
    <3>3. m \in Heaps BY <2>4 DEF Sound
    <3>4. h1.root = ra /\ h1.tail = ta BY <3>2, <3>3 DEF Heaps
    <3>5. k = [h1 EXCEPT !.root = [h1.root EXCEPT ![r2] = Null], !.tail = [h1.tail EXCEPT ![r2] = Null]]
      BY <2>1
    <3>6. k = [h1 EXCEPT !.root = rb, !.tail = tb] BY <2>2, <3>4, <3>5
    <3>7. k = [m EXCEPT !.root = rb, !.tail = tb] BY <3>2, <3>3, <3>6 DEF Heaps
    <3> QED BY <3>7 DEF WithRoots
  <2>6. Sets(g, r1, c, t, ra, ta)
    <3>1. c \in Hdrs \union {Null} /\ t \in Leaves \union {Null} BY <1>1, <2>4, HdrFacts
    <3> QED BY <1>1, <2>2, <3>1, NewRoots
  <2>7. /\ ra \in [Ropes -> Hdrs \union {Null}] /\ ta \in [Ropes -> Leaves \union {Null}]
        /\ ra[r1] = c /\ ta[r1] = t /\ \A s \in Ropes \ {r1} : ra[s] = g.root[s] /\ ta[s] = g.tail[s]
    BY <2>6 DEF Sets
  <2>8. /\ rb \in [Ropes -> Hdrs \union {Null}] /\ tb \in [Ropes -> Leaves \union {Null}]
    BY <2>2, <2>7, ExceptType
  <2>9. /\ rb[r1] = c /\ tb[r1] = t /\ rb[r2] = Null
        /\ \A s \in Ropes \ {r1, r2} : rb[s] = g.root[s] /\ tb[s] = g.tail[s]
    BY <1>1, <2>2, <2>7
  <2>10. Sound(k, R) /\ k.root = rb /\ k.tail = tb /\ SameTrees(m, k)
    BY <2>4, <2>5, <2>8, WithRootsFacts
  <2>11. Tops(k, R) BY <2>4, <2>10 DEF Tops, SameTrees
  <2>12. R \subseteq m.live /\ c \in m.live /\ c # Null BY <2>4, HdrFacts DEF Sound, Trees, Hdrs
  <2>13. \A s \in Open(g) \ {r1, r2} :
           s \in Ropes /\ g.root[s] \in R /\ g.root[s] \in g.live /\ g.root[s] \in m.live
    <3> SUFFICES ASSUME NEW s \in Open(g) \ {r1, r2}
                 PROVE  s \in Ropes /\ g.root[s] \in R /\ g.root[s] \in g.live /\ g.root[s] \in m.live
      OBVIOUS
    <3>1. s \in Ropes /\ g.root[s] \in S /\ g.root[s] \in g.live BY <2>2, GoodFacts
    <3>2. g.root[s] # x /\ g.root[s] # y BY <2>2 DEF Good
    <3> QED BY <2>2, <2>12, <3>1, <3>2
  <2>14. \A z \in m.live : LeavesUnder(k, z) = LeavesUnder(m, z) /\ Elems(k, z) = Elems(m, z)
    BY <2>10 DEF SameTrees
  <2>15. Regrouped(g, k, {r1, r2}, R)
    <3>1. \A s \in Ropes \ {r1, r2} : k.root[s] = g.root[s] /\ k.tail[s] = g.tail[s] BY <2>9, <2>10
    <3>2. \A s \in Open(g) \ {r1, r2} :
            LeavesUnder(k, g.root[s]) = LeavesUnder(g, g.root[s]) /\ g.root[s] \in R
      BY <2>4, <2>13, <2>14
    <3>3. Settled(k, R, r1)
      <4>1. k.root[r1] = c /\ k.tail[r1] = t BY <2>9, <2>10
      <4>2. Last(LeavesUnder(k, c)) = t BY <1>1, <2>4, <2>12, <2>14
      <4>3. \A s \in Ropes \ {r1} : k.root[s] # c
        <5> SUFFICES ASSUME NEW s \in Ropes \ {r1}, k.root[s] = c PROVE FALSE OBVIOUS
        <5>1. s # r2 BY <2>9, <2>10, <2>12
        <5>2. g.root[s] = c BY <3>1, <5>1
        <5>3. s \in Open(g) \ {r1, r2} BY <2>12, <5>1, <5>2 DEF Open
        <5> QED BY <2>4, <2>13, <5>2, <5>3
      <4> QED BY <2>4, <4>1, <4>2, <4>3 DEF Settled
    <3>4. k.root[r2] = Null BY <2>9, <2>10
    <3>5. \A z \in R : \E s \in Ropes : k.root[s] = z
      <4> SUFFICES ASSUME NEW z \in R, z # c PROVE \E s \in Ropes : k.root[s] = z
        BY <1>1, <2>9, <2>10
      <4>1. z \in S /\ z # x /\ z # y BY <2>2
      <4>2. PICK s \in Open(g) : z = g.root[s] BY <2>2, <4>1 DEF Roots
      <4>3. s \in Ropes \ {r1, r2} BY <2>2, <4>1, <4>2 DEF Open
      <4> QED BY <3>1, <4>2, <4>3
    <3> QED BY <3>1, <3>2, <3>3, <3>4, <3>5 DEF Regrouped
  <2>16. {r1, r2} \subseteq Ropes BY <1>1
  <2>17. Good(k) /\ Open(k) = (Open(g) \ {r1, r2}) \union {s \in {r1, r2} : k.root[s] # Null}
    BY <2>10, <2>11, <2>15, <2>16, Regroup
  <2>18. k.root[r1] = c /\ k.root[r2] = Null BY <2>9, <2>10
  <2>19. Open(k) = Open(g) \ {r2} BY <2>12, <2>17, <2>18
  <2>20. \A s \in Open(g) \ {r1, r2} : Text(k, s) = Text(g, s)
    BY <2>4, <2>9, <2>10, <2>13, <2>14 DEF Text
  <2>21. Joined(Text(k, r1), Text(g, r1), Text(g, r2))
    BY <2>2, <2>4, <2>12, <2>14, <2>18 DEF Text
  <2> QED BY <2>17, <2>19, <2>20, <2>21 DEF Merged
<1> QED BY <1>2, <1>3

-----------------------------------------------------------------------------
(* Searching                                                               *)

LEMMA NodeElems ==
  ASSUME NEW g \in Heaps, NEW S, Trees(g, S), NEW n \in Nodes(g)
  PROVE  /\ Elems(g, n) = Elems(g, g.left[n]) \o Elems(g, g.right[n])
         /\ Elems(g, g.left[n]) \in Seq(Vals) /\ Elems(g, g.right[n]) \in Seq(Vals)
<1> DEFINE s == LeavesUnder(g, g.left[n])
           t == LeavesUnder(g, g.right[n])
<1>1. s \in Seq(Leaves) /\ t \in Seq(Leaves) BY NodeFacts, LeafSeqs
<1>2. LeavesUnder(g, n) = s \o t BY LeavesRules
<1> HIDE DEF s, t
<1>3. Data(g, s \o t) = Data(g, s) \o Data(g, t) BY <1>1, DataRules
<1>4. Data(g, s) \in Seq(Vals) /\ Data(g, t) \in Seq(Vals) BY <1>1, DataRules
<1> QED BY <1>2, <1>3, <1>4 DEF Elems, s, t

(* The elements from `at' of y, len many, are those from a.off of a.hdr,   *)
(* which is a leaf or has some on either side.                             *)
Finds(g, y, at, len, a) ==
  /\ a.hdr \in All(g, y) /\ a.hdr \in g.live /\ a.off \in Nat /\ a.off + len <= g.nelems[a.hdr]
  /\ \A i \in 1..len : Elems(g, a.hdr)[a.off + i] = Elems(g, y)[at + i]
  /\ a.hdr \in Nodes(g) =>
       LET left == g.nelems[g.left[a.hdr]] IN a.off < left /\ a.off + len > left

(* The rounds of the search: into a child that holds the elements.         *)
LEMMA RangeRules ==
  ASSUME NEW g \in Heaps, NEW S, Trees(g, S), NEW len \in Nat
  PROVE  /\ \A y \in g.live, d \in Nat : GetHdrRange(g, y, d, len) \in [hdr : g.live, off : Nat]
         /\ \A l \in LiveLeaves(g), d \in Nat :
              GetHdrRange(g, l, d, len) = [hdr |-> l, off |-> d]
         /\ \A n \in Nodes(g), d \in Nat :
              GetHdrRange(g, n, d, len) =
                IF d < g.nelems[g.left[n]]
                THEN IF d + len <= g.nelems[g.left[n]] THEN GetHdrRange(g, g.left[n], d, len)
                     ELSE [hdr |-> n, off |-> d]
                ELSE GetHdrRange(g, g.right[n], d - g.nelems[g.left[n]], len)
<1> DEFINE At(y, d) == [hdr |-> y, off |-> d]
           Way(f, y, d) ==
             LET left == g.nelems[g.left[y]]
             IN  CASE d < left /\ d + len <= left -> f[g.left[y]][d]
                   [] d < left /\ d + len > left -> At(y, d)
                   [] OTHER -> f[g.right[y]][d - left]
           Is(f) == f = [y \in g.live |-> [d \in Nat |->
                           IF y \in Leaves THEN At(y, d) ELSE Way(f, y, d)]]
           down == CHOOSE f : Is(f)
           Found == [hdr : g.live, off : Nat]
           W == [Nat -> Found]
           B == [l \in LiveLeaves(g) |-> [d \in Nat |-> At(l, d)]]
           G == [p \in Nodes(g) \X W \X W |-> [d \in Nat |->
                   IF d < g.nelems[g.left[p[1]]]
                   THEN IF d + len <= g.nelems[g.left[p[1]]] THEN p[2][d] ELSE At(p[1], d)
                   ELSE p[3][d - g.nelems[g.left[p[1]]]]]]
<1>1. \A y, d : GetHdrRange(g, y, d, len) = down[y][d] BY DEF GetHdrRange
<1> HIDE DEF down
<1>2. \A y \in g.live : y \in Hdrs /\ g.nelems[y] \in Nat BY HeapFacts
<1>3. \A n \in Nodes(g) : /\ n \in g.live /\ n \notin Leaves
                          /\ g.left[n] \in g.live /\ g.right[n] \in g.live
                          /\ g.nelems[g.left[n]] \in Nat
  BY <1>2, NodeFacts
<1>4. ASSUME NEW f, NEW n \in Nodes(g), NEW d \in Nat
      PROVE  Way(f, n, d) =
               IF d < g.nelems[g.left[n]]
               THEN IF d + len <= g.nelems[g.left[n]] THEN f[g.left[n]][d] ELSE At(n, d)
               ELSE f[g.right[n]][d - g.nelems[g.left[n]]]
  <2> DEFINE left == g.nelems[g.left[n]]
  <2>1. left \in Nat BY <1>3
  <2>2. Way(f, n, d) = CASE d < left /\ d + len <= left -> f[g.left[n]][d]
                         [] d < left /\ d + len > left -> At(n, d)
                         [] OTHER -> f[g.right[n]][d - left]
    OBVIOUS
  <2> HIDE DEF Way, left, At
  <2>3. ASSUME d < left, d + len <= left PROVE Way(f, n, d) = f[g.left[n]][d]
    BY <2>1, <2>2, <2>3
  <2>4. ASSUME d < left, ~ (d + len <= left) PROVE Way(f, n, d) = At(n, d)
    BY <2>1, <2>2, <2>4
  <2>5. ASSUME ~ (d < left) PROVE Way(f, n, d) = f[g.right[n]][d - left]
    BY <2>1, <2>2, <2>5
  <2> QED BY <2>3, <2>4, <2>5 DEF left
<1> HIDE DEF Way
<1>5. \A y \in g.live, d \in Nat : At(y, d) \in Found OBVIOUS
<1>6. \A l \in LiveLeaves(g) : B[l] \in W BY <1>2, <1>5 DEF LiveLeaves
<1>7. \A n \in Nodes(g) : \A a, e \in W :
        G[<<n, a, e>>] = [d \in Nat |->
          IF d < g.nelems[g.left[n]]
          THEN IF d + len <= g.nelems[g.left[n]] THEN a[d] ELSE At(n, d)
          ELSE e[d - g.nelems[g.left[n]]]]
  <2> HIDE DEF W, At
  <2> QED OBVIOUS
<1>8. ASSUME NEW n \in Nodes(g), NEW a \in W, NEW e \in W PROVE G[<<n, a, e>>] \in W
  <2> DEFINE left == g.nelems[g.left[n]]
             v == [d \in Nat |-> IF d < left THEN IF d + len <= left THEN a[d] ELSE At(n, d)
                                 ELSE e[d - left]]
  <2>1. left \in Nat /\ n \in g.live BY <1>2, <1>3
  <2>2. G[<<n, a, e>>] = v BY <1>7
  <2> HIDE DEF left, G, At, Found
  <2>3. ASSUME NEW d \in Nat PROVE v[d] \in Found
    <3>1. ~ (d < left) => d - left \in Nat BY <2>1
    <3> QED BY <1>5, <2>1, <3>1
  <2>4. v \in W BY <2>3
  <2> QED BY <2>2, <2>4
<1> HIDE DEF At, Found, W, G, B
<1>9. PICK f : Folds(g, W, B, G, f)
  <2>1. \A n \in Nodes(g) : \A a, e \in W : G[<<n, a, e>>] \in W BY <1>8
  <2> QED BY <1>6, <2>1, TreeFunction
<1>10. Is(f)
  <2>1. f \in [g.live -> W] BY <1>9 DEF Folds
  <2>2. ASSUME NEW y \in g.live
        PROVE  f[y] = [d \in Nat |-> IF y \in Leaves THEN At(y, d) ELSE Way(f, y, d)]
    <3>1. f[y] = IF y \in Leaves THEN B[y] ELSE G[<<y, f[g.left[y]], f[g.right[y]]>>]
      BY <1>9 DEF Folds
    <3>2. CASE y \in LiveLeaves(g) BY <3>1, <3>2 DEF LiveLeaves, B
    <3>3. CASE y \in Nodes(g) /\ y \notin Leaves
      <4> DEFINE a == f[g.left[y]]
                 e == f[g.right[y]]
                 left == g.nelems[g.left[y]]
      <4>1. a \in W /\ e \in W BY <1>3, <2>1, <3>3
      <4>2. f[y] = [d \in Nat |-> IF d < left
                                  THEN IF d + len <= left THEN a[d] ELSE At(y, d) ELSE e[d - left]]
        BY <1>7, <3>1, <3>3, <4>1
      <4>3. ASSUME NEW d \in Nat
            PROVE  Way(f, y, d) = IF d < left THEN IF d + len <= left THEN a[d] ELSE At(y, d)
                                  ELSE e[d - left]
        <5>1. Way(f, y, d) =
                IF d < g.nelems[g.left[y]]
                THEN IF d + len <= g.nelems[g.left[y]] THEN f[g.left[y]][d] ELSE At(y, d)
                ELSE f[g.right[y]][d - g.nelems[g.left[y]]]
          BY <1>4, <3>3
        <5> QED BY <5>1
      <4> QED BY <3>3, <4>2, <4>3
    <3> QED BY <3>2, <3>3, LeafOrNode
  <2> QED BY <2>1, <2>2
<1>11. Is(down) BY <1>10 DEF down
<1>12. \A y \in g.live : down[y] = [d \in Nat |-> IF y \in Leaves THEN At(y, d) ELSE Way(down, y, d)]
  BY <1>11
<1> HIDE DEF Is
<1> DEFINE T == {y \in g.live : down[y] \in W}
<1>13. ASSUME NEW l \in LiveLeaves(g) PROVE l \in T
  <2>1. l \in g.live /\ l \in Leaves BY DEF LiveLeaves
  <2>2. down[l] = [d \in Nat |-> At(l, d)] BY <1>12, <2>1
  <2> QED BY <1>5, <2>1, <2>2 DEF W
<1>14. ASSUME NEW n \in Nodes(g), g.left[n] \in T, g.right[n] \in T PROVE n \in T
  <2> DEFINE a == down[g.left[n]]
             e == down[g.right[n]]
  <2>1. a \in W /\ e \in W /\ n \in g.live /\ n \notin Leaves BY <1>3, <1>14
  <2>2. down[n] = [d \in Nat |-> Way(down, n, d)] BY <1>12, <2>1
  <2>3. ASSUME NEW d \in Nat
        PROVE  Way(down, n, d) = IF d < g.nelems[g.left[n]]
                                 THEN IF d + len <= g.nelems[g.left[n]] THEN a[d] ELSE At(n, d)
                                 ELSE e[d - g.nelems[g.left[n]]]
    BY <1>4
  <2> HIDE DEF a, e
  <2>4. down[n] = [d \in Nat |-> IF d < g.nelems[g.left[n]]
                                 THEN IF d + len <= g.nelems[g.left[n]] THEN a[d] ELSE At(n, d)
                                 ELSE e[d - g.nelems[g.left[n]]]]
    BY <2>2, <2>3
  <2>5. down[n] = G[<<n, a, e>>] BY <1>7, <2>1, <2>4
  <2> QED BY <1>8, <2>1, <2>5
<1>15. \A y \in g.live : down[y] \in W
  <2> HIDE DEF T
  <2>1. g.live \subseteq T BY <1>13, <1>14, TreeSets
  <2> QED BY <2>1 DEF T
<1>16. \A y \in g.live, d \in Nat : down[y][d] \in [hdr : g.live, off : Nat] BY <1>15 DEF W, Found
<1>17. \A l \in LiveLeaves(g), d \in Nat : down[l][d] = [hdr |-> l, off |-> d]
  BY <1>12 DEF LiveLeaves, At
<1>18. \A n \in Nodes(g), d \in Nat :
         down[n][d] = IF d < g.nelems[g.left[n]]
                      THEN IF d + len <= g.nelems[g.left[n]] THEN down[g.left[n]][d]
                           ELSE [hdr |-> n, off |-> d]
                      ELSE down[g.right[n]][d - g.nelems[g.left[n]]]
  <2> SUFFICES ASSUME NEW n \in Nodes(g), NEW d \in Nat
               PROVE  down[n][d] = IF d < g.nelems[g.left[n]]
                                   THEN IF d + len <= g.nelems[g.left[n]] THEN down[g.left[n]][d]
                                        ELSE At(n, d)
                                   ELSE down[g.right[n]][d - g.nelems[g.left[n]]]
    BY DEF At
  <2>1. down[n][d] = Way(down, n, d) BY <1>3, <1>12
  <2> QED BY <1>4, <2>1
<1> DEFINE R(y, d) == GetHdrRange(g, y, d, len)
<1>19. \A y, d : R(y, d) = down[y][d] BY <1>1
<1> HIDE DEF R
<1>20. \A y \in g.live, d \in Nat : R(y, d) \in [hdr : g.live, off : Nat] BY <1>16, <1>19
<1>21. \A l \in LiveLeaves(g), d \in Nat : R(l, d) = [hdr |-> l, off |-> d] BY <1>17, <1>19
<1>22. ASSUME NEW n \in Nodes(g), NEW d \in Nat
       PROVE  R(n, d) = IF d < g.nelems[g.left[n]]
                        THEN IF d + len <= g.nelems[g.left[n]] THEN R(g.left[n], d)
                             ELSE [hdr |-> n, off |-> d]
                        ELSE R(g.right[n], d - g.nelems[g.left[n]])
  <2>1. /\ R(n, d) = down[n][d] /\ R(g.left[n], d) = down[g.left[n]][d]
        /\ R(g.right[n], d - g.nelems[g.left[n]]) = down[g.right[n]][d - g.nelems[g.left[n]]]
    BY <1>19
  <2> QED BY <1>18, <2>1
<1> QED BY <1>20, <1>21, <1>22 DEF R

LEMMA RangeFound ==
  ASSUME NEW g \in Heaps, NEW S, Trees(g, S), Sizes(g), NEW len \in Nat \ {0},
         NEW x \in g.live, NEW start \in Nat, start + len <= g.nelems[x]
  PROVE  Finds(g, x, start, len, GetHdrRange(g, x, start, len))
<1> DEFINE At(y, d) == [hdr |-> y, off |-> d]
           R(y, d) == GetHdrRange(g, y, d, len)
<1>1. \A y \in g.live : y \in Hdrs /\ g.nelems[y] \in Nat BY HeapFacts
<1>2. \A n \in Nodes(g) : /\ n \in g.live /\ n \notin Leaves
                          /\ g.left[n] \in g.live /\ g.right[n] \in g.live
                          /\ g.nelems[g.left[n]] \in Nat
  BY <1>1, NodeFacts
<1>3. /\ \A l \in LiveLeaves(g), d \in Nat : R(l, d) = At(l, d)
      /\ \A n \in Nodes(g), d \in Nat :
           R(n, d) = IF d < g.nelems[g.left[n]]
                     THEN IF d + len <= g.nelems[g.left[n]] THEN R(g.left[n], d) ELSE At(n, d)
                     ELSE R(g.right[n], d - g.nelems[g.left[n]])
  BY RangeRules
<1> HIDE DEF R, At
<1> DEFINE T == {y \in g.live : \A d \in Nat : d + len <= g.nelems[y] => Finds(g, y, d, len, R(y, d))}
<1>4. ASSUME NEW l \in LiveLeaves(g) PROVE l \in T
  <2>1. l \in g.live /\ l \in Leaves /\ l \notin Nodes(g) /\ All(g, l) = {l}
    BY HeapFacts, AllRules DEF LiveLeaves
  <2> SUFFICES ASSUME NEW d \in Nat, d + len <= g.nelems[l] PROVE Finds(g, l, d, len, R(l, d))
    BY <2>1
  <2>2. R(l, d) = At(l, d) BY <1>3
  <2>3. At(l, d).hdr = l /\ At(l, d).off = d BY DEF At
  <2> QED BY <2>1, <2>2, <2>3 DEF Finds
<1>5. ASSUME NEW n \in Nodes(g), g.left[n] \in T, g.right[n] \in T PROVE n \in T
  <2> DEFINE lc == g.left[n]
             rc == g.right[n]
             left == g.nelems[lc]
             u == Elems(g, lc)
             v == Elems(g, rc)
  <2>1. /\ n \in g.live /\ n \notin Leaves /\ lc \in g.live /\ rc \in g.live /\ left \in Nat
        /\ g.nelems[n] = left + g.nelems[rc] /\ g.nelems[rc] \in Nat /\ g.nelems[n] \in Nat
    BY <1>1, <1>2 DEF Sizes
  <2>2. All(g, n) = {n} \union All(g, lc) \union All(g, rc) BY AllRules
  <2>3. /\ Elems(g, n) = u \o v /\ u \in Seq(Vals) /\ v \in Seq(Vals) BY NodeElems
  <2>4. left = Len(u) /\ g.nelems[rc] = Len(v) BY <2>1, SizeIs
  <2> SUFFICES ASSUME NEW d \in Nat, d + len <= g.nelems[n] PROVE Finds(g, n, d, len, R(n, d))
    BY <2>1
  <2>6. /\ \A e \in Nat : e + len <= left => Finds(g, lc, e, len, R(lc, e))
        /\ \A e \in Nat : e + len <= g.nelems[rc] => Finds(g, rc, e, len, R(rc, e))
    BY <1>5
  <2>7. /\ d < left /\ d + len <= left => R(n, d) = R(lc, d)
        /\ d < left /\ ~ (d + len <= left) => R(n, d) = At(n, d)
        /\ ~ (d < left) => R(n, d) = R(rc, d - left)
    BY <1>3
  <2> HIDE DEF lc, rc, u, v, left, T
  <2>8. /\ \A i \in 1..left : (u \o v)[i] = u[i]
        /\ \A i \in 1..Len(v) : (u \o v)[left + i] = v[i]
    BY <2>3, <2>4, ConcatFacts, SMTT(30)
  <2>9. CASE d < left /\ d + len <= left
    <3> DEFINE a == R(lc, d)
    <3>1. Finds(g, lc, d, len, a) BY <2>6, <2>9
    <3>2. R(n, d) = a BY <2>7, <2>9
    <3> HIDE DEF a
    <3>3. \A i \in 1..len : Elems(g, a.hdr)[a.off + i] = Elems(g, n)[d + i]
      <4> SUFFICES ASSUME NEW i \in 1..len PROVE Elems(g, a.hdr)[a.off + i] = Elems(g, n)[d + i]
        OBVIOUS
      <4>1. Elems(g, a.hdr)[a.off + i] = u[d + i] BY <3>1 DEF Finds, u
      <4>2. d + i \in 1..left BY <2>1, <2>9
      <4>3. (u \o v)[d + i] = u[d + i] BY <2>8, <4>2
      <4> QED BY <2>3, <4>1, <4>3
    <3> QED BY <2>2, <3>1, <3>2, <3>3 DEF Finds
  <2>10. CASE d < left /\ ~ (d + len <= left)
    <3> DEFINE a == At(n, d)
    <3>1. R(n, d) = a BY <2>7, <2>10
    <3>2. a.hdr = n /\ a.off = d BY DEF At
    <3> HIDE DEF a
    <3>3. d < left /\ d + len > left BY <2>1, <2>10
    <3> QED BY <2>1, <2>2, <3>1, <3>2, <3>3 DEF Finds, left, lc
  <2>11. CASE ~ (d < left)
    <3> DEFINE e == d - left
               a == R(rc, e)
    <3>1. e \in Nat /\ e + len <= g.nelems[rc] /\ d = left + e BY <2>1, <2>11
    <3>2. Finds(g, rc, e, len, a) BY <2>6, <3>1
    <3>3. R(n, d) = a BY <2>7, <2>11
    <3> HIDE DEF a, e
    <3>4. \A i \in 1..len : Elems(g, a.hdr)[a.off + i] = Elems(g, n)[d + i]
      <4> SUFFICES ASSUME NEW i \in 1..len PROVE Elems(g, a.hdr)[a.off + i] = Elems(g, n)[d + i]
        OBVIOUS
      <4>1. Elems(g, a.hdr)[a.off + i] = v[e + i] BY <3>2 DEF Finds, v
      <4>2. e + i \in 1..Len(v) /\ d + i = left + (e + i) BY <2>1, <2>4, <3>1
      <4>3. (u \o v)[d + i] = v[e + i] BY <2>8, <4>2
      <4> QED BY <2>3, <4>1, <4>3
    <3> QED BY <2>2, <3>2, <3>3, <3>4 DEF Finds
  <2> QED BY <2>9, <2>10, <2>11
<1> HIDE DEF T
<1>6. g.live \subseteq T BY <1>4, <1>5, TreeSets
<1>7. x \in T BY <1>6
<1> QED BY <1>7 DEF T, R

-----------------------------------------------------------------------------
(* Parts of a sequence and their weights                                   *)

Part(s, a, e) == SubSeq(s, a + 1, e)

Between(T, s, a, e, v) ==
  v \in Seq(T) /\ Len(v) = e - a /\ \A i \in 1..(e - a) : v[i] = s[a + i]

LEMMA PartFacts ==
  ASSUME NEW T, NEW s \in Seq(T), NEW a \in Nat, NEW e \in Nat, a <= e, e <= Len(s)
  PROVE  Between(T, s, a, e, Part(s, a, e))
<1> DEFINE p == a + 1
           v == SubSeq(s, p, e)
<1>1. Len(s) \in Nat /\ p \in 1..(Len(s) + 1) /\ e \in (p - 1)..Len(s) BY LenProperties
<1> HIDE DEF p
<1>2. v \in Seq(T) /\ Len(v) = e - p + 1 /\ \A i \in 1..(e - p + 1) : v[i] = s[p + i - 1]
  BY <1>1, SubSeqProperties
<1> HIDE DEF v
<1>3. e - p + 1 = e - a /\ \A i \in 1..(e - a) : p + i - 1 = a + i BY DEF p
<1>4. v \in Seq(T) /\ Len(v) = e - a /\ \A i \in 1..(e - a) : v[i] = s[a + i] BY <1>2, <1>3
<1>5. v = Part(s, a, e) BY DEF Part, p, v
<1> QED BY <1>4, <1>5 DEF Between

LEMMA PartJoin ==
  ASSUME NEW T, NEW s \in Seq(T), NEW a \in Nat, NEW mid \in Nat, NEW e \in Nat,
         a <= mid, mid <= e, e <= Len(s)
  PROVE  Part(s, a, mid) \o Part(s, mid, e) = Part(s, a, e)
<1> DEFINE u == Part(s, a, mid)
           v == Part(s, mid, e)
           w == Part(s, a, e)
<1>1. Len(s) \in Nat BY LenProperties
<1>a. mid <= Len(s) /\ a <= e BY <1>1
<1>b. Between(T, s, a, mid, Part(s, a, mid)) BY <1>a, PartFacts
<1>c. Between(T, s, mid, e, Part(s, mid, e)) BY <1>a, PartFacts
<1>d. Between(T, s, a, e, Part(s, a, e)) BY <1>a, PartFacts
<1>e. Between(T, s, a, mid, u) /\ Between(T, s, mid, e, v) /\ Between(T, s, a, e, w)
  BY <1>b, <1>c, <1>d
<1> HIDE DEF u, v, w
<1>2. u \in Seq(T) /\ Len(u) = mid - a /\ \A i \in 1..(mid - a) : u[i] = s[a + i]
  BY <1>e DEF Between
<1>3. v \in Seq(T) /\ Len(v) = e - mid /\ \A i \in 1..(e - mid) : v[i] = s[mid + i]
  BY <1>e DEF Between
<1>4. w \in Seq(T) /\ Len(w) = e - a /\ \A i \in 1..(e - a) : w[i] = s[a + i]
  BY <1>e DEF Between
<1>5. u \o v \in Seq(T) /\ Len(u \o v) = Len(u) + Len(v) BY <1>2, <1>3, ConcatFacts
<1>6. \A i \in 1..Len(u) : (u \o v)[i] = u[i] BY <1>2, <1>3, ConcatFacts
<1>7. \A i \in 1..Len(v) : (u \o v)[Len(u) + i] = v[i] BY <1>2, <1>3, ConcatFacts
<1>8. Len(u \o v) = Len(w) BY <1>2, <1>3, <1>4, <1>5
<1>9. ASSUME NEW i \in 1..Len(w) PROVE (u \o v)[i] = w[i]
  <2>1. CASE i <= mid - a BY <1>2, <1>4, <1>6, <2>1
  <2>2. CASE ~ (i <= mid - a)
    <3> DEFINE m == i - (mid - a)
    <3>1. m \in 1..(e - mid) /\ (mid - a) + m = i /\ mid + m = a + i /\ i \in 1..(e - a)
      BY <1>4, <2>2
    <3> HIDE DEF m
    <3>2. (u \o v)[Len(u) + m] = v[m] /\ v[m] = s[mid + m] BY <1>3, <1>7, <3>1
    <3>3. Len(u) + m = i BY <1>2, <3>1
    <3>4. w[i] = s[a + i] BY <1>4, <3>1
    <3> QED BY <3>1, <3>2, <3>3, <3>4
  <2> QED BY <2>1, <2>2
<1>10. u \o v = w BY <1>4, <1>5, <1>8, <1>9, SeqEqual
<1> QED BY <1>10 DEF u, v, w

(* The elements in the first j leaves.                                     *)
Weight(g, s) == [j \in 0..Len(s) |-> Len(Data(g, Part(s, 0, j)))]

(* What a weight is of.                                                    *)
Weighed(g, s, w) ==
  /\ Len(s) \in Nat /\ w[0] = 0 /\ \A j \in 0..Len(s) : w[j] \in Nat
  /\ \A a, e \in 0..Len(s) : a <= e => w[a] <= w[e]
  /\ \A a, e \in 0..Len(s) : a <= e => Len(Data(g, Part(s, a, e))) = w[e] - w[a]

LEMMA WeightFacts ==
  ASSUME NEW g \in Heaps, NEW s \in Seq(Leaves), NEW w, w = Weight(g, s)
  PROVE  Weighed(g, s, w)
<1>1. Len(s) \in Nat BY LenProperties
<1>2. ASSUME NEW a \in 0..Len(s), NEW e \in 0..Len(s), a <= e
      PROVE  /\ Part(s, a, e) \in Seq(Leaves) /\ Data(g, Part(s, a, e)) \in Seq(Vals)
             /\ Len(Data(g, Part(s, a, e))) \in Nat
  <2>0. a \in Nat /\ e \in Nat /\ e <= Len(s) BY <1>1
  <2>1. Part(s, a, e) \in Seq(Leaves)
    <3>1. Between(Leaves, s, a, e, Part(s, a, e)) BY <1>2, <2>0, PartFacts
    <3> QED BY <3>1 DEF Between
  <2>2. Data(g, Part(s, a, e)) \in Seq(Vals) BY <2>1, DataRules
  <2> QED BY <2>1, <2>2, LenProperties
<1>3. \A j \in 0..Len(s) : w[j] = Len(Data(g, Part(s, 0, j))) BY DEF Weight
<1>4. \A j \in 0..Len(s) : w[j] \in Nat BY <1>1, <1>2, <1>3
<1>5. w[0] = 0
  <2>0. 0 \in Nat /\ 0 <= 0 /\ 0 <= Len(s) BY <1>1
  <2>1. Len(Part(s, 0, 0)) = 0 /\ Part(s, 0, 0) \in Seq(Leaves)
    <3>1. Between(Leaves, s, 0, 0, Part(s, 0, 0)) BY <2>0, PartFacts
    <3> QED BY <3>1 DEF Between
  <2>2. Part(s, 0, 0) = <<>> BY <2>1, EmptySeq
  <2>3. Data(g, <<>>) = <<>> BY DataRules
  <2> QED BY <1>1, <1>3, <2>2, <2>3
<1>6. ASSUME NEW a \in 0..Len(s), NEW e \in 0..Len(s), a <= e
      PROVE  Len(Data(g, Part(s, a, e))) = w[e] - w[a] /\ w[a] <= w[e]
  <2> DEFINE u == Part(s, 0, a)
             v == Part(s, a, e)
             du == Data(g, u)
             dv == Data(g, v)
  <2>1. u \in Seq(Leaves) /\ v \in Seq(Leaves) BY <1>1, <1>2, <1>6
  <2>2. u \o v = Part(s, 0, e) BY <1>1, <1>6, PartJoin
  <2>3. w[a] = Len(du) /\ w[e] = Len(Data(g, u \o v)) BY <1>3, <2>2
  <2> HIDE DEF u, v
  <2>4. Data(g, u \o v) = du \o dv /\ du \in Seq(Vals) /\ dv \in Seq(Vals) BY <2>1, DataRules
  <2> HIDE DEF du, dv
  <2>5. Len(du \o dv) = Len(du) + Len(dv) /\ Len(du) \in Nat /\ Len(dv) \in Nat BY <2>4, ConcatFacts
  <2>6. Len(dv) = w[e] - w[a] /\ w[a] <= w[e] BY <2>3, <2>4, <2>5
  <2> QED BY <2>6 DEF dv, v
<1> QED BY <1>1, <1>4, <1>5, <1>6 DEF Weighed

-----------------------------------------------------------------------------
(* The Fibonacci numbers                                                   *)

LastSlot == RPA_FIB_SIZE - 2

LEMMA FibFacts ==
  /\ LastSlot \in Nat /\ Slots = 0..LastSlot
  /\ \A i \in 0..(LastSlot + 1) : rpa_fib[i] \in Nat
  /\ rpa_fib[0] = 1
  /\ Cardinality(Leaves) * Grain < rpa_fib[LastSlot + 1]
<1> DEFINE D == 0..(RPA_FIB_SIZE - 1)
           rank == [i \in D |-> i]
           G == [p \in UNION {{i} \X [Below(D, rank, i) -> Nat] : i \in D} |->
                   IF p[1] < 2 THEN p[1] + 1 ELSE p[2][p[1] - 1] + p[2][p[1] - 2]]
           Is(f) == f = [i \in D |-> IF i < 2 THEN i + 1 ELSE f[i - 1] + f[i - 2]]
<1>1. RPA_FIB_SIZE \in Nat \ {0, 1} BY FibAssumption
<1>2. LastSlot \in Nat /\ Slots = 0..LastSlot /\ LastSlot + 1 = RPA_FIB_SIZE - 1
  BY <1>1 DEF LastSlot, Slots
<1>3. \A i \in D : Below(D, rank, i) = 0..(i - 1) BY <1>1 DEF Below
<1>4. \A i \in D : \A u \in [Below(D, rank, i) -> Nat] :
        G[<<i, u>>] = IF i < 2 THEN i + 1 ELSE u[i - 1] + u[i - 2]
  <2> SUFFICES ASSUME NEW i \in D, NEW u \in [Below(D, rank, i) -> Nat]
               PROVE  G[<<i, u>>] = IF i < 2 THEN i + 1 ELSE u[i - 1] + u[i - 2]
    OBVIOUS
  <2> HIDE DEF D, rank
  <2>1. <<i, u>> \in {i} \X [Below(D, rank, i) -> Nat] OBVIOUS
  <2> QED BY <2>1
<1>5. Typed(D, rank, Nat, G)
  <2> SUFFICES ASSUME NEW i \in D, NEW u \in [Below(D, rank, i) -> Nat]
               PROVE  G[<<i, u>>] \in Nat
    BY DEF Typed
  <2>1. i >= 2 => i - 1 \in 0..(i - 1) /\ i - 2 \in 0..(i - 1) BY <1>1
  <2> HIDE DEF G
  <2>2. i >= 2 => u[i - 1] \in Nat /\ u[i - 2] \in Nat BY <1>3, <2>1
  <2>3. i \in Nat BY <1>1
  <2>4. G[<<i, u>>] = IF i < 2 THEN i + 1 ELSE u[i - 1] + u[i - 2] BY <1>4
  <2> HIDE DEF D, rank
  <2> DEFINE a == u[i - 1]
             e == u[i - 2]
  <2>5. i >= 2 => a \in Nat /\ e \in Nat BY <2>2
  <2>6. G[<<i, u>>] = IF i < 2 THEN i + 1 ELSE a + e BY <2>4
  <2> HIDE DEF a, e
  <2>7. (IF i < 2 THEN i + 1 ELSE a + e) \in Nat BY <2>3, <2>5
  <2> QED BY <2>6, <2>7
<1>6. Ranked(D, rank, RPA_FIB_SIZE) BY <1>1 DEF Ranked
<1>7. \A i \in D : rank[i] = i OBVIOUS
<1> DEFINE size == RPA_FIB_SIZE
           nat == Nat
<1>8. Ranked(D, rank, size) /\ Typed(D, rank, nat, G) BY <1>5, <1>6
<1> HIDE DEF D, rank, G, size, nat
<1>9. PICK f : Solves(D, rank, nat, G, f) BY <1>8, Recursion
<1>10. f \in [D -> Nat] /\ \A i \in D : f[i] = G[<<i, Under(D, rank, i, f)>>]
  BY <1>9 DEF Solves, nat
<1>11. ASSUME NEW i \in D PROVE f[i] = IF i < 2 THEN i + 1 ELSE f[i - 1] + f[i - 2]
  <2> DEFINE u == Under(D, rank, i, f)
  <2>1. Below(D, rank, i) = 0..(i - 1) /\ i \in Nat /\ 0..(i - 1) \subseteq D BY <1>1, <1>3 DEF D
  <2>2. u \in [Below(D, rank, i) -> Nat] BY <1>10, <2>1 DEF Under
  <2>3. \A e \in 0..(i - 1) : u[e] = f[e] BY <2>1 DEF Under
  <2>4. i >= 2 => i - 1 \in 0..(i - 1) /\ i - 2 \in 0..(i - 1) BY <2>1
  <2> HIDE DEF u
  <2>5. G[<<i, u>>] = IF i < 2 THEN i + 1 ELSE u[i - 1] + u[i - 2] BY <1>4, <2>2
  <2> QED BY <1>10, <2>1, <2>3, <2>4, <2>5 DEF u
<1>12. Is(f) BY <1>10, <1>11
<1>13. rpa_fib = CHOOSE e : Is(e) BY DEF rpa_fib, D
<1>14. Is(rpa_fib) BY <1>12, <1>13
<1>15. rpa_fib = f
  <2> DEFINE last == RPA_FIB_SIZE - 1
  <2>1. last \in Nat /\ D = 0..last /\ last >= 1 BY <1>1 DEF D
  <2>2. \A i \in D : rpa_fib[i] = IF i < 2 THEN i + 1 ELSE rpa_fib[i - 1] + rpa_fib[i - 2]
    BY <1>14
  <2>3. ASSUME NEW T, \A i \in D : i \in T <=> (\A e \in 0..i : rpa_fib[e] = f[e])
        PROVE  \A i \in 0..last : i \in T
    <3> DEFINE Q == {i \in Nat : i <= last => i \in T}
    <3>1. 0 \in Q
      <4>1. rpa_fib[0] = 1 /\ f[0] = 1 BY <1>11, <2>1, <2>2
      <4> QED BY <2>1, <2>3, <4>1
    <3>2. ASSUME NEW i \in Nat, i \in Q PROVE i + 1 \in Q
      <4> SUFFICES ASSUME i + 1 <= last PROVE i + 1 \in T OBVIOUS
      <4>1. i \in D /\ i + 1 \in D /\ i \in T BY <2>1, <3>2
      <4>2. \A e \in 0..i : rpa_fib[e] = f[e] BY <2>3, <4>1
      <4>3. rpa_fib[i + 1] = IF i + 1 < 2 THEN (i + 1) + 1 ELSE rpa_fib[(i + 1) - 1] + rpa_fib[(i + 1) - 2]
        BY <2>2, <4>1
      <4>4. f[i + 1] = IF i + 1 < 2 THEN (i + 1) + 1 ELSE f[(i + 1) - 1] + f[(i + 1) - 2]
        BY <1>11, <4>1
      <4>5. (i + 1) - 1 = i /\ (i + 1 >= 2 => (i + 1) - 2 \in 0..i) OBVIOUS
      <4>6. rpa_fib[i + 1] = f[i + 1] BY <4>2, <4>3, <4>4, <4>5
      <4>7. \A e \in 0..(i + 1) : e = i + 1 \/ e \in 0..i OBVIOUS
      <4> QED BY <2>3, <4>1, <4>2, <4>6, <4>7
    <3> HIDE DEF Q
    <3>3. Nat \subseteq Q BY <3>1, <3>2, NatSets
    <3> QED BY <2>1, <3>3 DEF Q
  <2>4. \A i \in D : rpa_fib[i] = f[i]
    <3> DEFINE T == {i \in D : \A e \in 0..i : rpa_fib[e] = f[e]}
    <3>1. \A i \in D : i \in T <=> (\A e \in 0..i : rpa_fib[e] = f[e]) OBVIOUS
    <3> HIDE DEF T
    <3>2. \A i \in D : i \in T BY <2>1, <2>3, <3>1
    <3> QED BY <2>1, <3>1, <3>2
  <2>5. rpa_fib = [i \in D |-> rpa_fib[i]] BY <1>14
  <2> QED BY <1>10, <2>4, <2>5
<1>16. \A i \in 0..(LastSlot + 1) : rpa_fib[i] \in Nat BY <1>2, <1>10, <1>15 DEF D
<1>17. rpa_fib[0] = 1
  <2>1. 0 \in D BY <1>1 DEF D
  <2> QED BY <1>11, <1>15, <2>1
<1>18. Cardinality(Leaves) * Grain < rpa_fib[LastSlot + 1] BY <1>2, FibAssumption
<1> QED BY <1>2, <1>16, <1>17, <1>18

-----------------------------------------------------------------------------
(* Trees over parts of a sequence of leaves                                *)

(* The leaves s, no one twice, under none of the roots O of heap g.        *)
Scene(g, O, s) ==
  /\ g \in Heaps /\ s \in Seq(Leaves) /\ Distinct(s)
  /\ \A z \in O : ToSet(LeavesUnder(g, z)) \intersect ToSet(s) = {}
  /\ \A i \in 1..Len(s) : Len(g.data[s[i]]) <= Grain

(* In heap f the trees O are those of g, and those with the other roots of *)
(* R are over leaves of s.                                                 *)
Stands(g, O, s, f, R) ==
  /\ Sound(f, R) /\ O \subseteq R /\ f.data = g.data /\ f.root = g.root /\ f.tail = g.tail
  /\ \A z \in O : LeavesUnder(f, z) = LeavesUnder(g, z)
  /\ \A z \in R \ O : ToSet(LeavesUnder(f, z)) \subseteq ToSet(s)
  /\ \A z \in R : f.parent[z] = Null \/ (z \in Leaves /\ f.parent[z] = g.parent[z])

(* The tree x, or none, over the leaves a + 1 to e of s.                   *)
Piece(O, s, f, R, a, e, x) ==
  \/ x = Null /\ a = e
  \/ x \in R \ O /\ x # Null /\ a < e /\ LeavesUnder(f, x) = Part(s, a, e)

Bounds(s, a, e) == a \in Nat /\ e \in Nat /\ a <= e /\ e <= Len(s)

LEMMA PartOf ==
  ASSUME NEW s \in Seq(Leaves), NEW a, NEW e, Bounds(s, a, e)
  PROVE  /\ Between(Leaves, s, a, e, Part(s, a, e))
         /\ a = e => Part(s, a, e) = <<>>
         /\ a < e => a + 1 \in 1..Len(s) /\ Part(s, a, e)[1] = s[a + 1]
<1>1. a \in Nat /\ e \in Nat /\ a <= e /\ e <= Len(s) /\ Len(s) \in Nat BY LenProperties DEF Bounds
<1>2. Between(Leaves, s, a, e, Part(s, a, e)) BY <1>1, PartFacts
<1> DEFINE v == Part(s, a, e)
<1>3. Between(Leaves, s, a, e, v) BY <1>2
<1> HIDE DEF v
<1>4. v \in Seq(Leaves) /\ Len(v) = e - a /\ \A i \in 1..(e - a) : v[i] = s[a + i]
  BY <1>3 DEF Between
<1>5. a = e => v = <<>> BY <1>1, <1>4, EmptySeq
<1>6. a < e => a + 1 \in 1..Len(s) /\ v[1] = s[a + 1] BY <1>1, <1>4
<1> QED BY <1>2, <1>5, <1>6 DEF v

LEMMA OnePart ==
  ASSUME NEW s \in Seq(Leaves), NEW j \in 1..Len(s)
  PROVE  Part(s, j - 1, j) = <<s[j]>> /\ s[j] \in Leaves
<1> DEFINE v == Part(s, j - 1, j)
           l == s[j]
<1>1. Len(s) \in Nat /\ Bounds(s, j - 1, j) BY LenProperties DEF Bounds
<1>2. Between(Leaves, s, j - 1, j, v) BY <1>1, PartOf
<1>3. l \in Leaves BY ElementOfSeq
<1> HIDE DEF v
<1>4. v \in Seq(Leaves) /\ Len(v) = 1 /\ v[1] = l
  <2>1. v \in Seq(Leaves) /\ Len(v) = j - (j - 1) /\ \A i \in 1..(j - (j - 1)) : v[i] = s[(j - 1) + i]
    BY <1>2 DEF Between
  <2>2. j - (j - 1) = 1 /\ (j - 1) + 1 = j BY <1>1
  <2> QED BY <2>1, <2>2
<1> HIDE DEF l
<1>5. v = <<l>>
  <2>1. <<l>> \in Seq(Leaves) /\ Len(<<l>>) = 1 /\ <<l>>[1] = l BY <1>3, OneSeq
  <2>2. \A i \in 1..Len(v) : v[i] = <<l>>[i] BY <1>4, <2>1
  <2> QED BY <1>4, <2>1, <2>2, SeqEqual
<1> QED BY <1>3, <1>5 DEF v, l

(* Trees over different parts are different.                               *)
LEMMA PiecesApart ==
  ASSUME NEW g, NEW O, NEW s, Scene(g, O, s), NEW f, NEW R,
         NEW a, NEW e, Bounds(s, a, e), NEW u, NEW v, Bounds(s, u, v), v <= a \/ e <= u,
         NEW x, Piece(O, s, f, R, a, e, x), NEW y, Piece(O, s, f, R, u, v, y), x # Null
  PROVE  x # y
<1> SUFFICES ASSUME x = y PROVE FALSE OBVIOUS
<1>1. a < e /\ LeavesUnder(f, x) = Part(s, a, e) /\ u < v /\ LeavesUnder(f, x) = Part(s, u, v)
  BY DEF Piece
<1>2. s \in Seq(Leaves) /\ Distinct(s) BY DEF Scene
<1>3. a + 1 \in 1..Len(s) /\ Part(s, a, e)[1] = s[a + 1] BY <1>1, <1>2, PartOf
<1>4. u + 1 \in 1..Len(s) /\ Part(s, u, v)[1] = s[u + 1] BY <1>1, <1>2, PartOf
<1>5. s[a + 1] = s[u + 1] BY <1>1, <1>3, <1>4
<1>6. a + 1 = u + 1 BY <1>2, <1>3, <1>4, <1>5 DEF Distinct
<1> QED BY <1>1, <1>6 DEF Bounds

(* Step from heap f with roots R to k with Q: every tree over a part that  *)
(* does not meet that from a to e stays.                                   *)
Stay(O, s, f, R, k, Q, a, e) ==
  \A u, v, y : Bounds(s, u, v) /\ (v <= a \/ e <= u) /\ Piece(O, s, f, R, u, v, y)
                 => Piece(O, s, k, Q, u, v, y)
Grown(g, O, s, f, R, a, e, st, Q) ==
  /\ Stands(g, O, s, st.h, Q) /\ Piece(O, s, st.h, Q, a, e, st.top)
  /\ Stay(O, s, f, R, st.h, Q, a, e)
  /\ st = [h |-> st.h, top |-> st.top]

LEMMA OntoLeftGrows ==
  ASSUME NEW g, NEW O, NEW s, Scene(g, O, s), NEW f, NEW R, Stands(g, O, s, f, R),
         NEW a, NEW mid, NEW e, Bounds(s, a, mid), Bounds(s, mid, e),
         NEW x, Piece(O, s, f, R, a, mid, x), NEW top, Piece(O, s, f, R, mid, e, top),
         NEW st, st = OntoLeft([h |-> f, top |-> top], x)
  PROVE  \E Q : Grown(g, O, s, f, R, a, e, st, Q)
<1>0. Bounds(s, a, e) BY DEF Bounds
<1>1. CASE x = Null
  <2>1. st = [h |-> f, top |-> top] /\ a = mid BY <1>1 DEF OntoLeft, Piece
  <2>2. Stay(O, s, f, R, f, R, a, e) BY DEF Stay
  <2>3. st.h = f /\ st.top = top BY <2>1
  <2>4. Grown(g, O, s, f, R, a, e, st, R) BY <2>1, <2>2, <2>3 DEF Grown
  <2> QED BY <2>4
<1>2. CASE x # Null /\ top = Null
  <2>1. st = [h |-> f, top |-> x] /\ mid = e BY <1>2 DEF OntoLeft, Piece
  <2>2. Stay(O, s, f, R, f, R, a, e) BY DEF Stay
  <2>3. st.h = f /\ st.top = x BY <2>1
  <2>4. Grown(g, O, s, f, R, a, e, st, R) BY <2>1, <2>2, <2>3 DEF Grown
  <2> QED BY <2>4
<1>3. CASE x # Null /\ top # Null
  <2> DEFINE k == RpaConcat(f, x, top)
             c == NewNode(f)
             Q == (R \ {x, top}) \union {c}
  <2>1. st = [h |-> k, top |-> c] BY <1>3 DEF OntoLeft
  <2>2. st.h = k /\ st.top = c BY <2>1
  <2>3. x \in R \ O /\ a < mid /\ LeavesUnder(f, x) = Part(s, a, mid) BY <1>3 DEF Piece
  <2>4. top \in R \ O /\ mid < e /\ LeavesUnder(f, top) = Part(s, mid, e) BY <1>3 DEF Piece
  <2>5. x # top
    <3>1. a <= mid /\ mid <= mid BY DEF Bounds
    <3> QED BY <1>3, <3>1, PiecesApart
  <2>6. Sound(f, R) /\ f \in Heaps /\ Trees(f, R) /\ R \subseteq f.live /\ R \subseteq Hdrs
    BY HeapFacts DEF Stands, Sound, Trees
  <2> HIDE DEF k, c
  <2>7. Concatenated(f, R, x, top, c, k) BY <2>3, <2>4, <2>5, <2>6, ConcatNodeFacts DEF k, c
  <2>8. /\ c \in Inner \ f.live /\ Sound(k, Q) /\ Keeps(f, k) /\ k.parent[c] = Null
        /\ \A z \in Hdrs \ {x, top, c} : k.parent[z] = f.parent[z]
    BY <2>7 DEF Concatenated
  <2>9. /\ k.data = f.data /\ k.root = f.root /\ k.tail = f.tail
        /\ \A z \in f.live : LeavesUnder(k, z) = LeavesUnder(f, z)
    BY <2>8 DEF Keeps
  <2>10. LeavesUnder(k, c) = LeavesUnder(f, x) \o LeavesUnder(f, top) BY <2>7 DEF Concatenated
  <2>11. c \notin O /\ c \notin R /\ c # Null
    BY <2>6, <2>8, HdrFacts DEF Stands
  <2>12. LeavesUnder(k, c) = Part(s, a, e)
    <3>1. s \in Seq(Leaves) BY DEF Scene
    <3>2. Part(s, a, mid) \o Part(s, mid, e) = Part(s, a, e)
      <4>1. a \in Nat /\ mid \in Nat /\ e \in Nat /\ a <= mid /\ mid <= e /\ e <= Len(s)
        BY DEF Bounds
      <4> QED BY <3>1, <4>1, PartJoin
    <3> QED BY <2>3, <2>4, <2>10, <3>2
  <2>13. Stands(g, O, s, k, Q)
    <3>1. O \subseteq Q BY <2>3, <2>4 DEF Stands
    <3>2. k.data = g.data /\ k.root = g.root /\ k.tail = g.tail BY <2>9 DEF Stands
    <3>3. \A z \in O : LeavesUnder(k, z) = LeavesUnder(g, z) BY <2>6, <2>9 DEF Stands
    <3>4. ASSUME NEW z \in Q \ O PROVE ToSet(LeavesUnder(k, z)) \subseteq ToSet(s)
      <4>1. CASE z = c
        <5>1. ToSet(LeavesUnder(f, x)) \subseteq ToSet(s) /\ ToSet(LeavesUnder(f, top)) \subseteq ToSet(s)
          BY <2>3, <2>4 DEF Stands
        <5>2. LeavesUnder(f, x) \in Seq(Leaves) /\ LeavesUnder(f, top) \in Seq(Leaves)
          BY <2>3, <2>4, <2>6, LeafSeqs
        <5>3. ToSet(LeavesUnder(k, c)) = ToSet(LeavesUnder(f, x)) \union ToSet(LeavesUnder(f, top))
          BY <2>10, <5>2, ToSetFacts
        <5> QED BY <4>1, <5>1, <5>3
      <4>2. CASE z # c BY <2>6, <2>9, <4>2 DEF Stands
      <4> QED BY <4>1, <4>2
    <3>5. \A z \in Q : k.parent[z] = Null \/ (z \in Leaves /\ k.parent[z] = g.parent[z])
      BY <2>6, <2>8 DEF Stands
    <3> QED BY <2>8, <3>1, <3>2, <3>3, <3>4, <3>5 DEF Stands
  <2>14. Piece(O, s, k, Q, a, e, c) BY <2>3, <2>4, <2>11, <2>12 DEF Piece, Bounds
  <2>15. Stay(O, s, f, R, k, Q, a, e)
    <3> SUFFICES ASSUME NEW u, NEW v, NEW y, Bounds(s, u, v), v <= a \/ e <= u,
                        Piece(O, s, f, R, u, v, y)
                 PROVE  Piece(O, s, k, Q, u, v, y)
      BY DEF Stay
    <3>1. CASE y = Null BY <3>1, HdrFacts, <2>6 DEF Piece
    <3>2. CASE y # Null
      <4>1. y \in R \ O /\ u < v /\ LeavesUnder(f, y) = Part(s, u, v) BY <3>2 DEF Piece
      <4>2. v <= mid \/ e <= u BY DEF Bounds
      <4>3. v <= a \/ mid <= u BY DEF Bounds
      <4>4. x # y BY <1>3, <4>3, PiecesApart
      <4>5. top # y BY <1>3, <4>2, PiecesApart
      <4>6. y \in Q \ O /\ LeavesUnder(k, y) = Part(s, u, v) BY <2>6, <2>9, <4>1, <4>4, <4>5
      <4> QED BY <3>2, <4>1, <4>6 DEF Piece
    <3> QED BY <3>1, <3>2
  <2> HIDE DEF Q
  <2>16. Grown(g, O, s, f, R, a, e, st, Q) BY <2>1, <2>2, <2>13, <2>14, <2>15 DEF Grown
  <2> QED BY <2>16
<1> QED BY <1>1, <1>2, <1>3

(* Slot i of a forest holds the tree over the leaves c[i + 1] + 1 to c[i]. *)
Cuts(s, c) ==
  /\ c \in [0..(LastSlot + 1) -> 0..Len(s)] /\ c[LastSlot + 1] = 0
  /\ \A i, j \in 0..(LastSlot + 1) : i <= j => c[j] <= c[i]

(* The tree st.top is over the leaves from those of slot i to the e-th;    *)
(* the slots after i and the leaves after e are as they were.              *)
GatheringWith(g, O, s, c, fo, i, e, st, R) ==
  /\ Stands(g, O, s, st.h, R) /\ Piece(O, s, st.h, R, c[i + 1], e, st.top)
  /\ \A j \in Slots : j > i => Piece(O, s, st.h, R, c[j + 1], c[j], fo[j])
  /\ \A j \in (e + 1)..Len(s) : Piece(O, s, st.h, R, j - 1, j, s[j])
Gathering(g, O, s, c, fo, i, e, st) ==
  st = [h |-> st.h, top |-> st.top] /\ \E R : GatheringWith(g, O, s, c, fo, i, e, st, R)

GatherStates == [h : Heaps, top : Hdrs \union {Null}]

LEMMA GatheringState ==
  ASSUME NEW g, NEW O, NEW s, NEW c, NEW fo, NEW i, NEW e, NEW st,
         Gathering(g, O, s, c, fo, i, e, st)
  PROVE  st \in GatherStates
<1>1. st = [h |-> st.h, top |-> st.top] BY DEF Gathering
<1>2. PICK R : GatheringWith(g, O, s, c, fo, i, e, st, R) BY DEF Gathering
<1>3. st.h \in Heaps /\ R \subseteq st.h.live BY <1>2 DEF GatheringWith, Stands, Sound, Trees
<1>4. st.top \in Hdrs \union {Null}
  BY <1>2, <1>3, HeapFacts DEF GatheringWith, Piece
<1> QED BY <1>1, <1>3, <1>4 DEF GatherStates

LEMMA CutBounds ==
  ASSUME NEW s \in Seq(Leaves), NEW c, Cuts(s, c), NEW i \in Slots
  PROVE  /\ c[i] \in Nat /\ c[i + 1] \in Nat /\ c[i + 1] <= c[i] /\ c[i] <= c[0]
         /\ c[0] \in Nat /\ c[0] <= Len(s) /\ Len(s) \in Nat /\ Bounds(s, c[i + 1], c[i])
         /\ i \in 0..LastSlot /\ c[LastSlot + 1] = 0
         /\ \A j \in Slots : j > i => c[j + 1] <= c[j] /\ c[j] <= c[i + 1] /\ Bounds(s, c[j + 1], c[j])
<1>1. LastSlot \in Nat /\ Slots = 0..LastSlot /\ Len(s) \in Nat BY FibFacts, LenProperties
<1>2. i \in 0..(LastSlot + 1) /\ i + 1 \in 0..(LastSlot + 1) /\ 0 \in 0..(LastSlot + 1)
  BY <1>1
<1>3. \A j \in 0..(LastSlot + 1) : c[j] \in 0..Len(s) BY DEF Cuts
<1>4. c[i + 1] <= c[i] /\ c[i] <= c[0] BY <1>1, <1>2 DEF Cuts
<1>5. ASSUME NEW j \in Slots, j > i
      PROVE  c[j + 1] <= c[j] /\ c[j] <= c[i + 1] /\ Bounds(s, c[j + 1], c[j])
  <2>1. j \in 0..(LastSlot + 1) /\ j + 1 \in 0..(LastSlot + 1) /\ i + 1 <= j /\ j <= j + 1
    BY <1>1, <1>5
  <2>2. c[j + 1] <= c[j] /\ c[j] <= c[i + 1] BY <1>2, <2>1 DEF Cuts
  <2>3. c[j] \in 0..Len(s) /\ c[j + 1] \in 0..Len(s) BY <1>3, <2>1
  <2> QED BY <1>1, <2>2, <2>3 DEF Bounds
<1>6. c[i] \in 0..Len(s) /\ c[i + 1] \in 0..Len(s) /\ c[0] \in 0..Len(s) BY <1>2, <1>3
<1>7. Bounds(s, c[i + 1], c[i]) BY <1>1, <1>4, <1>6 DEF Bounds
<1>8. c[LastSlot + 1] = 0 BY DEF Cuts
<1> QED BY <1>1, <1>4, <1>5, <1>6, <1>7, <1>8

LEMMA GatherStep ==
  ASSUME NEW g, NEW O, NEW s, Scene(g, O, s), NEW c, Cuts(s, c), NEW fo,
         NEW i \in Slots, NEW e \in c[0]..Len(s), NEW st,
         Gathering(g, O, s, c, fo, i - 1, e, st)
  PROVE  Gathering(g, O, s, c, fo, i, e, OntoLeft(st, fo[i]))
<1>1. st = [h |-> st.h, top |-> st.top] BY DEF Gathering
<1>2. PICK R : GatheringWith(g, O, s, c, fo, i - 1, e, st, R) BY DEF Gathering
<1> DEFINE f == st.h
           top == st.top
           x == fo[i]
           a == c[i + 1]
           mid == c[i]
           z == OntoLeft(st, x)
<1>3. s \in Seq(Leaves) BY DEF Scene
<1>4. /\ a \in Nat /\ mid \in Nat /\ a <= mid /\ mid <= c[0] /\ c[0] \in Nat
      /\ Len(s) \in Nat /\ Bounds(s, a, mid) /\ i \in Nat
      /\ \A j \in Slots : j > i => c[j] <= a /\ Bounds(s, c[j + 1], c[j])
  BY <1>3, CutBounds
<1>5. e \in Nat /\ Bounds(s, mid, e) /\ mid <= e BY <1>4 DEF Bounds
<1>6. i - 1 + 1 = i /\ i > i - 1 BY <1>4
<1>7. Stands(g, O, s, f, R) /\ Piece(O, s, f, R, a, mid, x) /\ Piece(O, s, f, R, mid, e, top)
  BY <1>2, <1>6 DEF GatheringWith
<1>8. z = OntoLeft([h |-> f, top |-> top], x) BY <1>1
<1> HIDE DEF f, top, x, a, mid, z
<1>9. PICK Q : Grown(g, O, s, f, R, a, e, z, Q) BY <1>4, <1>5, <1>7, <1>8, OntoLeftGrows
<1>10. /\ Stands(g, O, s, z.h, Q) /\ Piece(O, s, z.h, Q, a, e, z.top)
       /\ Stay(O, s, f, R, z.h, Q, a, e) /\ z = [h |-> z.h, top |-> z.top]
  BY <1>9 DEF Grown
<1>11. ASSUME NEW j \in Slots, j > i PROVE Piece(O, s, z.h, Q, c[j + 1], c[j], fo[j])
  <2>1. j > i - 1 /\ c[j] <= a /\ Bounds(s, c[j + 1], c[j]) BY <1>4, <1>11, FibFacts
  <2>2. Piece(O, s, f, R, c[j + 1], c[j], fo[j]) BY <1>2, <2>1 DEF GatheringWith, f
  <2> QED BY <1>10, <2>1, <2>2 DEF Stay
<1>12. ASSUME NEW j \in (e + 1)..Len(s) PROVE Piece(O, s, z.h, Q, j - 1, j, s[j])
  <2>1. e <= j - 1 /\ Bounds(s, j - 1, j) BY <1>4, <1>5 DEF Bounds
  <2>2. Piece(O, s, f, R, j - 1, j, s[j]) BY <1>2 DEF GatheringWith, f
  <2> QED BY <1>10, <2>1, <2>2 DEF Stay
<1>13. GatheringWith(g, O, s, c, fo, i, e, z, Q)
  BY <1>10, <1>11, <1>12 DEF GatheringWith, a
<1>14. Gathering(g, O, s, c, fo, i, e, z) BY <1>10, <1>13 DEF Gathering
<1> QED BY <1>14 DEF z, x

LEMMA GatherFacts ==
  ASSUME NEW g, NEW O, NEW s, Scene(g, O, s), NEW c, Cuts(s, c), NEW fo,
         NEW from \in Nat, NEW to \in Int, from - 1 <= to, to <= LastSlot,
         NEW e \in c[0]..Len(s), NEW st, Gathering(g, O, s, c, fo, from - 1, e, st)
  PROVE  Gathering(g, O, s, c, fo, to, e, Gather(st, fo, from, to))
<1> DEFINE m == from - 1
           I == m..to
           P == [i \in I |-> {u \in GatherStates : Gathering(g, O, s, c, fo, i, e, u)}]
           F == [p \in I \X GatherStates |-> OntoLeft(p[2], fo[p[1]])]
           Is(f) == f = [i \in I |-> IF i < from THEN st ELSE OntoLeft(f[i - 1], fo[i])]
           after == CHOOSE f : Is(f)
           k == Gather(st, fo, from, to)
<1>1. k = after[to] BY DEF Gather
<1> HIDE DEF after
<1>2. m \in Int /\ to \in Int /\ m \in I /\ to \in I OBVIOUS
<1>3. \A i \in I : (i < from <=> i = m) /\ (i # m => i - 1 \in I /\ i \in Slots) BY FibFacts
<1>4. st \in P[m]
  <2>1. st \in GatherStates BY GatheringState
  <2> QED BY <1>2, <2>1
<1>5. ASSUME NEW i \in I, i # m, NEW u \in P[i - 1] PROVE OntoLeft(u, fo[i]) \in P[i]
  <2>1. i \in Slots /\ i - 1 \in I BY <1>3, <1>5
  <2>2. Gathering(g, O, s, c, fo, i - 1, e, u) BY <1>5, <2>1
  <2>3. Gathering(g, O, s, c, fo, i, e, OntoLeft(u, fo[i])) BY <2>1, <2>2, GatherStep
  <2>4. OntoLeft(u, fo[i]) \in GatherStates BY <2>3, GatheringState
  <2> QED BY <2>3, <2>4
<1>6. ASSUME NEW i \in I, i # m, NEW u \in P[i - 1] PROVE F[<<i, u>>] = OntoLeft(u, fo[i])
  <2>1. i - 1 \in I BY <1>3, <1>6
  <2>2. u \in GatherStates BY <1>6, <2>1
  <2> HIDE DEF P, I
  <2> QED BY <2>2
<1>7. \A i \in I : i # m => \A u \in P[i - 1] : F[<<i, u>>] \in P[i] BY <1>5, <1>6
<1>8. P[to] \subseteq {u \in GatherStates : Gathering(g, O, s, c, fo, to, e, u)} BY <1>2
<1> DEFINE last == to
<1>9. I = m..last /\ last \in Int /\ to = last BY <1>2
<1> HIDE DEF P, F, m, last
<1>10. PICK q : Loops(m, last, st, F, q) /\ \A i \in m..last : q[i] \in P[i]
  <2>1. \A i \in m..last : i # m => \A u \in P[i - 1] : F[<<i, u>>] \in P[i] BY <1>7, <1>9
  <2> HIDE DEF I
  <2> QED BY <1>2, <1>4, <1>9, <2>1, Loop
<1>11. Is(q)
  <2>1. \A i \in I : i # m => F[<<i, q[i - 1]>>] = OntoLeft(q[i - 1], fo[i])
    <3> SUFFICES ASSUME NEW i \in I, i # m PROVE F[<<i, q[i - 1]>>] = OntoLeft(q[i - 1], fo[i])
      OBVIOUS
    <3>1. i - 1 \in I BY <1>3
    <3>2. q[i - 1] \in P[i - 1] BY <1>9, <1>10, <3>1
    <3> QED BY <1>6, <3>2
  <2>2. q = [i \in I |-> IF i = m THEN st ELSE F[<<i, q[i - 1]>>]] BY <1>9, <1>10 DEF Loops
  <2> HIDE DEF I
  <2>3. q = [i \in I |-> IF i < from THEN st ELSE OntoLeft(q[i - 1], fo[i])] BY <1>3, <2>1, <2>2
  <2> QED BY <2>3
<1>12. Is(after) BY <1>11 DEF after
<1> HIDE DEF I
<1>13. \A i \in I : after[i] = IF i < from THEN st ELSE OntoLeft(after[i - 1], fo[i]) BY <1>12
<1> HIDE DEF Is
<1>14. \A i \in m..last : after[i] \in P[i]
  <2>1. after[m] \in P[m] BY <1>2, <1>3, <1>4, <1>13
  <2>2. \A i \in m..last : i # m /\ after[i - 1] \in P[i - 1] => after[i] \in P[i]
    BY <1>3, <1>5, <1>9, <1>13
  <2> QED BY <1>2, <1>9, <2>1, <2>2, LoopKeeps
<1>15. k \in P[to] BY <1>1, <1>2, <1>9, <1>14
<1>16. Gathering(g, O, s, c, fo, to, e, k) BY <1>8, <1>15
<1> QED BY <1>16

-----------------------------------------------------------------------------
(* The slots of a forest                                                   *)

(* The elements of a tree, or of none.                                     *)
TreeSize(f, x) == IF x = Null THEN 0 ELSE f.nelems[x]

LEMMA PieceWeight ==
  ASSUME NEW g, NEW O, NEW s, Scene(g, O, s), NEW f, NEW R, Stands(g, O, s, f, R),
         NEW w, w = Weight(g, s),
         NEW a, NEW e, Bounds(s, a, e), NEW x, Piece(O, s, f, R, a, e, x)
  PROVE  TreeSize(f, x) = w[e] - w[a] /\ w[a] <= w[e] /\ w[a] \in Nat /\ w[e] \in Nat
<1>1. g \in Heaps /\ s \in Seq(Leaves) BY DEF Scene
<1>2. Len(s) \in Nat /\ a \in 0..Len(s) /\ e \in 0..Len(s) /\ a <= e
  BY <1>1, LenProperties DEF Bounds
<1>3. /\ \A j \in 0..Len(s) : w[j] \in Nat
      /\ \A u, v \in 0..Len(s) : u <= v => w[u] <= w[v]
      /\ \A u, v \in 0..Len(s) : u <= v => Len(Data(g, Part(s, u, v))) = w[v] - w[u]
  <2>1. Weighed(g, s, w) BY <1>1, WeightFacts
  <2> QED BY <2>1 DEF Weighed
<1>4. w[a] \in Nat /\ w[e] \in Nat /\ w[a] <= w[e] /\ Len(Data(g, Part(s, a, e))) = w[e] - w[a]
  BY <1>2, <1>3
<1>5. CASE x = Null BY <1>4, <1>5, HdrFacts DEF Piece, TreeSize, Stands, Sound, Trees
<1>6. CASE x # Null
  <2>1. /\ x \in f.live /\ f \in Heaps /\ Trees(f, R) /\ Sizes(f) /\ f.data = g.data
        /\ LeavesUnder(f, x) = Part(s, a, e)
    BY <1>6 DEF Piece, Stands, Sound, Trees
  <2>2. f.nelems[x] = Len(Elems(f, x)) BY <2>1, SizeIs
  <2>3. Elems(f, x) = Data(g, Part(s, a, e)) BY <2>1 DEF Elems, Data
  <2> QED BY <1>4, <1>6, <2>2, <2>3 DEF TreeSize
<1> QED BY <1>5, <1>6

(* One leaf more; all of them are less than the last slot takes.           *)
LEMMA WeightSteps ==
  ASSUME NEW g, NEW O, NEW s, Scene(g, O, s), NEW w, w = Weight(g, s)
  PROVE  /\ \A j \in 1..Len(s) : w[j] - w[j - 1] = Len(g.data[s[j]])
         /\ \A j \in 0..Len(s) : w[j] \in Nat /\ w[j] < rpa_fib[LastSlot + 1]
<1>1. /\ g \in Heaps /\ s \in Seq(Leaves) /\ Distinct(s) /\ Len(s) \in Nat
      /\ \A i \in 1..Len(s) : Len(g.data[s[i]]) <= Grain
  BY LenProperties DEF Scene
<1>2. /\ w[0] = 0 /\ \A j \in 0..Len(s) : w[j] \in Nat
      /\ \A a, e \in 0..Len(s) : a <= e => w[a] <= w[e]
      /\ \A a, e \in 0..Len(s) : a <= e => Len(Data(g, Part(s, a, e))) = w[e] - w[a]
  <2>1. Weighed(g, s, w) BY <1>1, WeightFacts
  <2> QED BY <2>1 DEF Weighed
<1>3. ASSUME NEW j \in 1..Len(s) PROVE w[j] - w[j - 1] = Len(g.data[s[j]])
  <2>1. j - 1 \in 0..Len(s) /\ j \in 0..Len(s) /\ j - 1 <= j BY <1>1
  <2>2. Part(s, j - 1, j) = <<s[j]>> /\ s[j] \in Leaves BY <1>1, OnePart
  <2>3. Len(Data(g, Part(s, j - 1, j))) = w[j] - w[j - 1] BY <1>2, <2>1
  <2>4. Data(g, <<s[j]>>) = g.data[s[j]] BY <1>1, <2>2, DataRules
  <2> QED BY <2>2, <2>3, <2>4
<1>4. Grain \in Nat \ {0} BY GrainAssumption
<1>5. ASSUME NEW j \in 0..Len(s) PROVE w[j] <= Grain * j
  <2> DEFINE T == {i \in Nat : i <= Len(s) => w[i] <= Grain * i}
  <2>1. 0 \in T BY <1>2, <1>4
  <2>2. ASSUME NEW i \in Nat, i \in T PROVE i + 1 \in T
    <3> SUFFICES ASSUME i + 1 <= Len(s) PROVE w[i + 1] <= Grain * (i + 1) OBVIOUS
    <3>1. i + 1 \in 1..Len(s) /\ (i + 1) - 1 = i /\ i \in 0..Len(s) /\ i + 1 \in 0..Len(s)
      BY <1>1
    <3>2. w[i + 1] - w[i] = Len(g.data[s[i + 1]]) /\ Len(g.data[s[i + 1]]) <= Grain
      BY <1>1, <1>3, <3>1
    <3>3. w[i] <= Grain * i BY <1>1, <2>2, <3>1
    <3>4. Grain * (i + 1) = Grain * i + Grain /\ Grain * i \in Nat BY <1>4
    <3>5. w[i] \in Nat /\ w[i + 1] \in Nat BY <1>2, <3>1
    <3> QED BY <1>4, <3>2, <3>3, <3>4, <3>5
  <2> HIDE DEF T
  <2>3. Nat \subseteq T BY <2>1, <2>2, NatSets
  <2> QED BY <1>1, <2>3 DEF T
<1>6. ASSUME NEW j \in 0..Len(s) PROVE w[j] \in Nat /\ w[j] < rpa_fib[LastSlot + 1]
  <2> DEFINE m == Len(s)
             q == Cardinality(Leaves)
  <2>1. m <= q /\ q \in Nat
    <3>1. IsFiniteSet(Leaves) BY HdrsAssumption
    <3> QED BY <1>1, <3>1, DistinctLen, FS_CardinalityType
  <2>2. w[j] <= w[m] /\ w[m] <= Grain * m /\ w[j] \in Nat /\ w[m] \in Nat /\ m \in Nat
    <3>1. j \in 0..m /\ m \in 0..m /\ j <= m /\ m \in Nat BY <1>1
    <3>2. w[j] <= w[m] /\ w[j] \in Nat /\ w[m] \in Nat BY <1>2, <3>1
    <3>3. w[m] <= Grain * m BY <1>5, <3>1
    <3> QED BY <3>1, <3>2, <3>3
  <2>3. q * Grain < rpa_fib[LastSlot + 1] /\ rpa_fib[LastSlot + 1] \in Nat
    <3>1. LastSlot + 1 \in 0..(LastSlot + 1) BY FibFacts
    <3> QED BY <3>1, FibFacts
  <2> HIDE DEF m, q
  <2>4. Grain * m <= q * Grain
    <3>1. PICK d \in Nat : q = m + d
      <4>1. q - m \in Nat /\ q = m + (q - m) BY <2>1, <2>2
      <4> QED BY <4>1
    <3>2. (m + d) * Grain = Grain * m + Grain * d /\ Grain * d \in Nat /\ Grain * m \in Nat
      BY <1>4, <2>2
    <3> QED BY <3>1, <3>2
  <2>5. Grain * m \in Nat /\ q * Grain \in Nat BY <1>4, <2>1, <2>2
  <2> QED BY <2>2, <2>3, <2>4, <2>5
<1> QED BY <1>3, <1>6

(* The slot for a length.                                                  *)
LEMMA FirstSlot ==
  ASSUME NEW z \in Nat, z < rpa_fib[LastSlot + 1],
         NEW i, i = Min({j \in Slots : z < rpa_fib[j + 1]})
  PROVE  i \in Slots /\ z < rpa_fib[i + 1] /\ (z # 0 => rpa_fib[i] <= z)
<1> DEFINE T == {j \in Slots : z < rpa_fib[j + 1]}
<1>1. LastSlot \in Nat /\ Slots = 0..LastSlot /\ rpa_fib[0] = 1
      /\ \A j \in 0..(LastSlot + 1) : rpa_fib[j] \in Nat
  BY FibFacts
<1>2. LastSlot \in T /\ T \subseteq Nat BY <1>1
<1> HIDE DEF T
<1>3. i \in T /\ \A j \in T : i <= j
  <2>1. i = Min(T) BY DEF T
  <2> QED BY <1>2, <2>1, MinIs
<1>4. i \in Slots /\ z < rpa_fib[i + 1] BY <1>3 DEF T
<1>5. ASSUME z # 0 PROVE rpa_fib[i] <= z
  <2>1. CASE i = 0 BY <1>1, <1>5, <2>1
  <2>2. CASE i # 0
    <3>1. i - 1 \in Slots /\ ~ (i <= i - 1) /\ (i - 1) + 1 = i /\ i \in 0..(LastSlot + 1)
      BY <1>1, <1>4, <2>2
    <3>2. i - 1 \notin T BY <1>3, <3>1
    <3>3. ~ (z < rpa_fib[(i - 1) + 1]) BY <3>1, <3>2 DEF T
    <3>4. rpa_fib[i] \in Nat BY <1>1, <3>1
    <3> QED BY <3>1, <3>3, <3>4
  <2> QED BY <2>1, <2>2
<1> QED BY <1>4, <1>5

(* The slot where the gathering ends.                                      *)
LEMMA EndSlot ==
  ASSUME NEW m \in Slots, NEW up, \A j \in Slots : up[j] \in Nat,
         up[LastSlot] < rpa_fib[LastSlot + 1],
         NEW i, i = Min({j \in Slots : j >= m /\ up[j] < rpa_fib[j + 1]})
  PROVE  /\ i \in Slots /\ i >= m /\ up[i] < rpa_fib[i + 1]
         /\ i # m => i - 1 \in Slots /\ rpa_fib[i] <= up[i - 1]
<1> DEFINE T == {j \in Slots : j >= m /\ up[j] < rpa_fib[j + 1]}
<1>1. LastSlot \in Nat /\ Slots = 0..LastSlot /\ \A j \in 0..(LastSlot + 1) : rpa_fib[j] \in Nat
  BY FibFacts
<1>2. LastSlot \in T /\ T \subseteq Nat BY <1>1
<1> HIDE DEF T
<1>3. i \in T /\ \A j \in T : i <= j
  <2>1. i = Min(T) BY DEF T
  <2> QED BY <1>2, <2>1, MinIs
<1>4. i \in Slots /\ i >= m /\ up[i] < rpa_fib[i + 1] BY <1>3 DEF T
<1>5. ASSUME i # m PROVE i - 1 \in Slots /\ rpa_fib[i] <= up[i - 1]
  <2>1. /\ i - 1 \in Slots /\ ~ (i <= i - 1) /\ (i - 1) + 1 = i /\ i \in 0..(LastSlot + 1)
        /\ i - 1 >= m
    BY <1>1, <1>4, <1>5
  <2>2. ~ (up[i - 1] < rpa_fib[i]) BY <1>3, <2>1 DEF T
  <2> QED BY <1>1, <2>1, <2>2
<1> QED BY <1>4, <1>5

(* Sums up to each slot, from z on.                                        *)
Sums(u, t, z) == u = [i \in Slots |-> t[i] + (IF i = 0 THEN z ELSE u[i - 1])]

LEMMA SameSums ==
  ASSUME NEW t, NEW z, NEW u, Sums(u, t, z), NEW v, Sums(v, t, z)
  PROVE  \A i \in Slots : u[i] = v[i]
<1>1. LastSlot \in Nat /\ Slots = 0..LastSlot BY FibFacts
<1>2. \A i \in Slots : u[i] = t[i] + (IF i = 0 THEN z ELSE u[i - 1]) BY DEF Sums
<1>3. \A i \in Slots : v[i] = t[i] + (IF i = 0 THEN z ELSE v[i - 1]) BY DEF Sums
<1> DEFINE T == {i \in Nat : i <= LastSlot => u[i] = v[i]}
<1>4. 0 \in T BY <1>1, <1>2, <1>3
<1>5. ASSUME NEW i \in Nat, i \in T PROVE i + 1 \in T
  <2> SUFFICES ASSUME i + 1 <= LastSlot PROVE u[i + 1] = v[i + 1] OBVIOUS
  <2>1. i + 1 \in Slots /\ i + 1 # 0 /\ (i + 1) - 1 = i /\ i <= LastSlot BY <1>1
  <2>2. u[i] = v[i] BY <1>5, <2>1
  <2> QED BY <1>2, <1>3, <2>1, <2>2
<1> HIDE DEF T
<1>6. Nat \subseteq T BY <1>4, <1>5, NatSets
<1> QED BY <1>1, <1>6 DEF T

-----------------------------------------------------------------------------
(* Adding leaves to a forest                                               *)

(* No leaf is empty.                                                       *)
Full(g, s) == \A i \in 1..Len(s) : Len(g.data[s[i]]) # 0

(* The trees of a forest are of the lengths of their slots.                *)
Ordered(w, c) ==
  \A i \in Slots : c[i + 1] < c[i] =>
    rpa_fib[i] <= w[c[i]] - w[c[i + 1]] /\ w[c[i]] - w[c[i + 1]] < rpa_fib[i + 1]

(* The forest over the first k leaves of s.                                *)
ForestedWith(g, O, s, k, F, c) ==
  /\ Cuts(s, c) /\ c[0] = k
  /\ Gathering(g, O, s, c, F.forest, -1, k, [h |-> F.h, top |-> Null])
  /\ Full(g, s) => Ordered(Weight(g, s), c)
Forested(g, O, s, k, F) ==
  /\ F = [h |-> F.h, forest |-> [i \in Slots |-> F.forest[i]]]
  /\ \E c : ForestedWith(g, O, s, k, F, c)

(* The next leaf is put behind the prefix.                                 *)
LEMMA LeafStep ==
  ASSUME NEW g, NEW O, NEW s, Scene(g, O, s), NEW c, Cuts(s, c), NEW fo,
         NEW i \in Slots, NEW k \in Nat, c[0] = k, k + 1 <= Len(s), NEW st,
         Gathering(g, O, s, c, fo, i, k, st),
         NEW z, z = OntoLeft([st EXCEPT !.top = s[k + 1]], st.top)
  PROVE  Gathering(g, O, s, c, fo, i, k + 1, z)
<1>1. st = [h |-> st.h, top |-> st.top] BY DEF Gathering
<1>2. PICK R : GatheringWith(g, O, s, c, fo, i, k, st, R) BY DEF Gathering
<1> DEFINE f == st.h
           x == st.top
           a == c[i + 1]
           e == k + 1
           top == s[k + 1]
<1>3. s \in Seq(Leaves) BY DEF Scene
<1>4. /\ a \in Nat /\ a <= k /\ Len(s) \in Nat
      /\ \A j \in Slots : j > i => c[j] <= a /\ Bounds(s, c[j + 1], c[j])
  BY <1>3, CutBounds
<1>5. Bounds(s, a, k) /\ Bounds(s, k, e) BY <1>4 DEF Bounds
<1>6. Piece(O, s, f, R, k, e, top)
  <2>1. e \in (k + 1)..Len(s) /\ e - 1 = k BY <1>4
  <2>2. Piece(O, s, f, R, e - 1, e, s[e]) BY <1>2, <2>1 DEF GatheringWith
  <2> QED BY <2>1, <2>2
<1>7. Stands(g, O, s, f, R) /\ Piece(O, s, f, R, a, k, x) BY <1>2 DEF GatheringWith
<1>8. z = OntoLeft([h |-> f, top |-> top], x) BY <1>1
<1> HIDE DEF f, top, x, a, e
<1>9. PICK Q : Grown(g, O, s, f, R, a, e, z, Q) BY <1>5, <1>6, <1>7, <1>8, OntoLeftGrows
<1>10. /\ Stands(g, O, s, z.h, Q) /\ Piece(O, s, z.h, Q, a, e, z.top)
       /\ Stay(O, s, f, R, z.h, Q, a, e) /\ z = [h |-> z.h, top |-> z.top]
  BY <1>9 DEF Grown
<1>11. ASSUME NEW j \in Slots, j > i PROVE Piece(O, s, z.h, Q, c[j + 1], c[j], fo[j])
  <2>1. c[j] <= a /\ Bounds(s, c[j + 1], c[j]) BY <1>4, <1>11
  <2>2. Piece(O, s, f, R, c[j + 1], c[j], fo[j]) BY <1>2, <1>11 DEF GatheringWith, f
  <2> QED BY <1>10, <2>1, <2>2 DEF Stay
<1>12. ASSUME NEW j \in (e + 1)..Len(s) PROVE Piece(O, s, z.h, Q, j - 1, j, s[j])
  <2>1. e <= j - 1 /\ Bounds(s, j - 1, j) /\ j \in (k + 1)..Len(s) BY <1>4 DEF Bounds, e
  <2>2. Piece(O, s, f, R, j - 1, j, s[j]) BY <1>2, <2>1 DEF GatheringWith, f
  <2> QED BY <1>10, <2>1, <2>2 DEF Stay
<1>13. GatheringWith(g, O, s, c, fo, i, e, z, Q)
  BY <1>10, <1>11, <1>12 DEF GatheringWith, a
<1>14. Gathering(g, O, s, c, fo, i, e, z) BY <1>10, <1>13 DEF Gathering
<1> QED BY <1>14 DEF e

(* The tree that was gathered goes into slot i.                            *)
Filled(fo, i, x) ==
  [j \in Slots |-> CASE j = i -> x [] j < i -> Null [] OTHER -> fo[j]]
NewCuts(s, c, i, k) == [j \in 0..(LastSlot + 1) |-> IF j <= i THEN k ELSE c[j]]

LEMMA FilledSlot ==
  ASSUME NEW g, NEW O, NEW s, Scene(g, O, s), NEW c, Cuts(s, c), NEW fo,
         NEW i \in Slots, NEW k \in c[0]..Len(s), NEW st,
         Gathering(g, O, s, c, fo, i, k, st),
         NEW d, d = NewCuts(s, c, i, k), NEW fp, fp = Filled(fo, i, st.top),
         NEW u, u = [h |-> st.h, top |-> Null]
  PROVE  Cuts(s, d) /\ d[0] = k /\ Gathering(g, O, s, d, fp, -1, k, u)
<1>1. s \in Seq(Leaves) BY DEF Scene
<1>2. /\ LastSlot \in Nat /\ Slots = 0..LastSlot /\ Len(s) \in Nat /\ c[0] \in Nat /\ k \in 0..Len(s)
      /\ i \in 0..LastSlot /\ c[LastSlot + 1] = 0
  BY <1>1, CutBounds, FibFacts
<1>3. \A j \in 0..(LastSlot + 1) : c[j] \in 0..Len(s) /\ c[j] <= k
  <2> SUFFICES ASSUME NEW j \in 0..(LastSlot + 1) PROVE c[j] \in 0..Len(s) /\ c[j] <= k
    OBVIOUS
  <2>1. 0 \in 0..(LastSlot + 1) /\ 0 <= j BY <1>2
  <2>2. c[j] <= c[0] /\ c[j] \in 0..Len(s) BY <2>1 DEF Cuts
  <2> QED BY <1>2, <2>2
<1>4. \A j \in 0..(LastSlot + 1) : d[j] = IF j <= i THEN k ELSE c[j] BY DEF NewCuts
<1>5. Cuts(s, d)
  <2>1. d \in [0..(LastSlot + 1) -> 0..Len(s)] BY <1>2, <1>3 DEF NewCuts
  <2>2. d[LastSlot + 1] = 0 BY <1>2, <1>4
  <2>3. ASSUME NEW j \in 0..(LastSlot + 1), NEW m \in 0..(LastSlot + 1), j <= m
        PROVE  d[m] <= d[j]
    <3>1. c[m] <= c[j] /\ c[m] <= k /\ c[j] \in Int /\ c[m] \in Int /\ k \in Int
      BY <1>2, <1>3, <2>3 DEF Cuts
    <3>2. CASE m <= i
      <4>1. j <= i BY <1>2, <2>3, <3>2
      <4> QED BY <1>4, <3>1, <3>2, <4>1
    <3>3. CASE ~ (m <= i) BY <1>4, <3>1, <3>3
    <3> QED BY <3>2, <3>3
  <2> QED BY <2>1, <2>2, <2>3 DEF Cuts
<1>6. d[0] = k BY <1>2, <1>4
<1>7. PICK R : GatheringWith(g, O, s, c, fo, i, k, st, R) BY DEF Gathering
<1>8. u.h = st.h /\ u.top = Null /\ u = [h |-> u.h, top |-> u.top] OBVIOUS
<1>9. ASSUME NEW j \in Slots PROVE Piece(O, s, st.h, R, d[j + 1], d[j], fp[j])
  <2>1. j \in 0..(LastSlot + 1) /\ j + 1 \in 0..(LastSlot + 1) BY <1>2
  <2>2. fp[j] = CASE j = i -> st.top [] j < i -> Null [] OTHER -> fo[j] BY DEF Filled
  <2>3. CASE j < i
    <3>1. d[j + 1] = k /\ d[j] = k /\ fp[j] = Null BY <1>2, <1>4, <2>1, <2>2, <2>3
    <3> QED BY <3>1 DEF Piece
  <2>4. CASE j = i
    <3>1. d[j + 1] = c[i + 1] /\ d[j] = k /\ fp[j] = st.top BY <1>2, <1>4, <2>1, <2>2, <2>4
    <3> QED BY <1>7, <3>1 DEF GatheringWith
  <2>5. CASE j > i
    <3>1. d[j + 1] = c[j + 1] /\ d[j] = c[j] /\ fp[j] = fo[j] BY <1>2, <1>4, <2>1, <2>2, <2>5
    <3> QED BY <1>7, <2>5, <3>1 DEF GatheringWith
  <2> QED BY <1>2, <2>3, <2>4, <2>5
<1>10. Piece(O, s, st.h, R, d[-1 + 1], k, Null)
  <2>1. -1 + 1 = 0 OBVIOUS
  <2> QED BY <1>6, <2>1 DEF Piece
<1>11. GatheringWith(g, O, s, d, fp, -1, k, u, R)
  BY <1>7, <1>8, <1>9, <1>10 DEF GatheringWith
<1>12. Gathering(g, O, s, d, fp, -1, k, u) BY <1>8, <1>11 DEF Gathering
<1> QED BY <1>5, <1>6, <1>12

(* The slots stay ordered if slot i takes the length of what it gets.      *)
LEMMA OrderStep ==
  ASSUME NEW s \in Seq(Leaves), NEW c, Cuts(s, c), NEW i \in Slots, NEW k \in c[0]..Len(s),
         NEW d, d = NewCuts(s, c, i, k), NEW w, Ordered(w, c),
         rpa_fib[i] <= w[k] - w[c[i + 1]], w[k] - w[c[i + 1]] < rpa_fib[i + 1]
  PROVE  Ordered(w, d)
<1>1. /\ LastSlot \in Nat /\ Slots = 0..LastSlot /\ k \in Int
  BY CutBounds, FibFacts
<1>2. \A j \in 0..(LastSlot + 1) : d[j] = IF j <= i THEN k ELSE c[j] BY DEF NewCuts
<1> SUFFICES ASSUME NEW j \in Slots, d[j + 1] < d[j]
             PROVE  rpa_fib[j] <= w[d[j]] - w[d[j + 1]] /\ w[d[j]] - w[d[j + 1]] < rpa_fib[j + 1]
  BY DEF Ordered
<1>3. j \in 0..(LastSlot + 1) /\ j + 1 \in 0..(LastSlot + 1) BY <1>1
<1>4. CASE j < i
  <2>1. d[j + 1] = k /\ d[j] = k BY <1>1, <1>2, <1>3, <1>4
  <2> QED BY <1>1, <2>1
<1>5. CASE j = i
  <2>1. d[j + 1] = c[i + 1] /\ d[j] = k BY <1>1, <1>2, <1>3, <1>5
  <2> QED BY <1>5, <2>1
<1>6. CASE j > i
  <2>1. d[j + 1] = c[j + 1] /\ d[j] = c[j] BY <1>1, <1>2, <1>3, <1>6
  <2> QED BY <2>1 DEF Ordered
<1> QED BY <1>1, <1>4, <1>5, <1>6

(* The sums rpa_add_to_forest compares: with the leaf, the elements from   *)
(* those of each slot on.                                                  *)
LEMMA SlotSums ==
  ASSUME NEW g, NEW O, NEW s, Scene(g, O, s), NEW w, w = Weight(g, s),
         NEW k \in Nat, k + 1 <= Len(s), NEW F, NEW c, ForestedWith(g, O, s, k, F, c),
         NEW z, z = TreeSize(F.h, s[k + 1]),
         NEW t, t = [i \in Slots |-> TreeSize(F.h, F.forest[i])]
  PROVE  /\ z = w[k + 1] - w[k] /\ z = Len(g.data[s[k + 1]]) /\ z \in Nat
         /\ w[k] \in Nat /\ w[k + 1] \in Nat
         /\ Sums([i \in Slots |-> w[k + 1] - w[c[i + 1]]], t, z)
         /\ \A i \in Slots : w[c[i + 1]] \in Nat /\ w[c[i + 1]] <= w[k]
<1> DEFINE u == [h |-> F.h, top |-> Null]
           e == k + 1
<1>1. Cuts(s, c) /\ c[0] = k /\ Gathering(g, O, s, c, F.forest, -1, k, u) BY DEF ForestedWith
<1>2. PICK R : GatheringWith(g, O, s, c, F.forest, -1, k, u, R) BY <1>1 DEF Gathering
<1>3. s \in Seq(Leaves) /\ g \in Heaps BY DEF Scene
<1>4. LastSlot \in Nat /\ Slots = 0..LastSlot /\ Len(s) \in Nat BY <1>3, FibFacts, LenProperties
<1>5. u.h = F.h OBVIOUS
<1>6. Stands(g, O, s, F.h, R) BY <1>2, <1>5 DEF GatheringWith
<1>7. z = w[e] - w[k] /\ w[k] \in Nat /\ w[e] \in Nat /\ w[k] <= w[e]
  <2>1. e \in (k + 1)..Len(s) /\ e - 1 = k /\ Bounds(s, k, e) BY <1>4 DEF Bounds
  <2>2. Piece(O, s, F.h, R, e - 1, e, s[e]) BY <1>2, <1>5, <2>1 DEF GatheringWith
  <2>3. Piece(O, s, F.h, R, k, e, s[k + 1]) BY <2>1, <2>2
  <2> HIDE DEF e
  <2> QED BY <1>6, <2>1, <2>3, PieceWeight
<1>8. z = Len(g.data[s[k + 1]])
  <2>1. e \in 1..Len(s) /\ e - 1 = k BY <1>4
  <2>2. w[e] - w[e - 1] = Len(g.data[s[e]]) BY <2>1, WeightSteps
  <2> QED BY <1>7, <2>1, <2>2
<1>9. ASSUME NEW i \in Slots
      PROVE  /\ t[i] = w[c[i]] - w[c[i + 1]] /\ w[c[i]] \in Nat /\ w[c[i + 1]] \in Nat
  <2> DEFINE a == c[i + 1]
             d == c[i]
             x == F.forest[i]
  <2>1. i > -1 BY <1>4
  <2>2. Bounds(s, a, d) BY <1>1, <1>3, CutBounds
  <2>3. Piece(O, s, F.h, R, a, d, x) BY <1>2, <1>5, <2>1 DEF GatheringWith
  <2>4. t[i] = TreeSize(F.h, x) OBVIOUS
  <2> HIDE DEF a, d, x
  <2>5. TreeSize(F.h, x) = w[d] - w[a] /\ w[a] \in Nat /\ w[d] \in Nat
    BY <1>6, <2>2, <2>3, PieceWeight
  <2> QED BY <2>4, <2>5 DEF a, d
<1>10. ASSUME NEW i \in Slots PROVE w[c[i + 1]] <= w[k]
  <2>1. Bounds(s, c[i + 1], c[i]) /\ c[i] <= k /\ k \in 0..Len(s) /\ c[i + 1] \in 0..Len(s)
        /\ c[i + 1] <= k
    BY <1>1, <1>3, <1>4, CutBounds DEF Bounds
  <2>2. \A a, d \in 0..Len(s) : a <= d => w[a] <= w[d]
    <3>1. Weighed(g, s, w) BY <1>3, WeightFacts
    <3> QED BY <3>1 DEF Weighed
  <2> QED BY <2>1, <2>2
<1> DEFINE v == [i \in Slots |-> w[e] - w[c[i + 1]]]
<1>11. Sums(v, t, z)
  <2>1. ASSUME NEW i \in Slots PROVE v[i] = t[i] + (IF i = 0 THEN z ELSE v[i - 1])
    <3>1. v[i] = w[e] - w[c[i + 1]] OBVIOUS
    <3>2. CASE i = 0
      <4>1. t[i] = w[k] - w[c[i + 1]] BY <1>1, <1>9, <3>2
      <4> QED BY <1>7, <1>9, <3>1, <3>2, <4>1
    <3>3. CASE i # 0
      <4>1. i - 1 \in Slots /\ (i - 1) + 1 = i BY <1>4, <3>3
      <4>2. v[i - 1] = w[e] - w[c[i]] BY <4>1
      <4> HIDE DEF v
      <4> QED BY <1>7, <1>9, <3>1, <3>3, <4>2
    <3> QED BY <3>2, <3>3
  <2>2. v = [i \in Slots |-> v[i]] OBVIOUS
  <2> HIDE DEF v
  <2>3. v = [i \in Slots |-> t[i] + (IF i = 0 THEN z ELSE v[i - 1])] BY <2>1, <2>2
  <2> QED BY <2>3 DEF Sums
<1> HIDE DEF v
<1> QED BY <1>7, <1>8, <1>9, <1>10, <1>11 DEF v

LEMMA AddToForestFacts ==
  ASSUME NEW g, NEW O, NEW s, Scene(g, O, s), NEW k \in Nat, k + 1 <= Len(s),
         NEW F, Forested(g, O, s, k, F)
  PROVE  Forested(g, O, s, k + 1, AddToForest(F, s[k + 1]))
<1> DEFINE leaf == s[k + 1]
           sz(x) == IF x = Null THEN 0 ELSE F.h.nelems[x]
           Up(u) == u = [i \in Slots |->
                      sz(F.forest[i]) + (IF i = 0 THEN sz(leaf) ELSE u[i - 1])]
           upto == CHOOSE u : Up(u)
           first == Min({i \in Slots : sz(leaf) < rpa_fib[i + 1]})
           slot == Min({i \in Slots : i >= first /\ upto[i] < rpa_fib[i + 1]})
           init == [h |-> F.h, top |-> Null]
           prefix == Gather(init, F.forest, 0, first)
           mid == OntoLeft([prefix EXCEPT !.top = leaf], prefix.top)
           tree == Gather(mid, F.forest, first + 1, slot)
           K == AddToForest(F, leaf)
           w == Weight(g, s)
           z == TreeSize(F.h, leaf)
           t == [i \in Slots |-> TreeSize(F.h, F.forest[i])]
<1>1. K = [h |-> tree.h, forest |-> Filled(F.forest, slot, tree.top)]
  BY DEF AddToForest, Filled
<1> HIDE DEF K
<1>2. PICK c : ForestedWith(g, O, s, k, F, c) BY DEF Forested
<1>3. /\ Cuts(s, c) /\ c[0] = k /\ Gathering(g, O, s, c, F.forest, -1, k, init)
      /\ Full(g, s) => Ordered(w, c)
  BY <1>2 DEF ForestedWith
<1>4. /\ s \in Seq(Leaves) /\ LastSlot \in Nat /\ Slots = 0..LastSlot /\ Len(s) \in Nat
      /\ k \in c[0]..Len(s) /\ k + 1 \in c[0]..Len(s)
  BY <1>3, FibFacts, LenProperties DEF Scene
<1> DEFINE v == [i \in Slots |-> w[k + 1] - w[c[i + 1]]]
<1>5. /\ z = w[k + 1] - w[k] /\ z = Len(g.data[leaf]) /\ z \in Nat
      /\ w[k] \in Nat /\ w[k + 1] \in Nat /\ Sums(v, t, z)
      /\ \A i \in Slots : w[c[i + 1]] \in Nat /\ w[c[i + 1]] <= w[k]
  <2> HIDE DEF leaf, w, t, z
  <2> QED BY <1>2, SlotSums DEF leaf, w, t, z
<1>6. sz(leaf) = z BY DEF TreeSize
<1>7. \A u : Up(u) <=> Sums(u, t, z) BY <1>6 DEF Sums, TreeSize
<1>8. Sums(upto, t, z)
  <2>1. Up(v) BY <1>5, <1>7
  <2> HIDE DEF Up, v, t, z
  <2>2. Up(upto) BY <2>1
  <2> QED BY <1>7, <2>2
<1>9. \A i \in Slots : upto[i] = w[k + 1] - w[c[i + 1]]
  <2> HIDE DEF upto, t, z
  <2>1. \A i \in Slots : upto[i] = v[i] BY <1>5, <1>8, SameSums
  <2> QED BY <2>1
<1>10. \A j \in 0..Len(s) : w[j] \in Nat /\ w[j] < rpa_fib[LastSlot + 1] BY WeightSteps
<1>11. w[k + 1] < rpa_fib[LastSlot + 1] /\ rpa_fib[LastSlot + 1] \in Nat
  <2>1. k + 1 \in 0..Len(s) /\ LastSlot + 1 \in 0..(LastSlot + 1) BY <1>4
  <2> QED BY <1>10, <2>1, FibFacts
<1>12. first = Min({i \in Slots : z < rpa_fib[i + 1]}) BY <1>6
<1> HIDE DEF sz, upto, first, slot, z, t, v, w, leaf
<1>13. first \in Slots /\ z < rpa_fib[first + 1] /\ (z # 0 => rpa_fib[first] <= z)
  <2>1. z < rpa_fib[LastSlot + 1] BY <1>5, <1>11
  <2> QED BY <1>5, <1>12, <2>1, FirstSlot
<1>14. /\ slot \in Slots /\ slot >= first /\ upto[slot] < rpa_fib[slot + 1]
       /\ slot # first => slot - 1 \in Slots /\ rpa_fib[slot] <= upto[slot - 1]
  <2>1. \A i \in Slots : upto[i] \in Nat BY <1>5, <1>9
  <2>2. upto[LastSlot] < rpa_fib[LastSlot + 1]
    <3>1. LastSlot \in Slots BY <1>4
    <3>2. upto[LastSlot] <= w[k + 1] BY <1>5, <1>9, <3>1
    <3> QED BY <1>5, <1>11, <2>1, <3>1, <3>2
  <2>3. slot = Min({i \in Slots : i >= first /\ upto[i] < rpa_fib[i + 1]}) BY DEF slot
  <2> QED BY <1>13, <2>1, <2>2, <2>3, EndSlot
<1> HIDE DEF init, prefix, mid, tree
<1>15. Gathering(g, O, s, c, F.forest, first, k, prefix)
  <2>1. 0 \in Nat /\ first \in Int /\ 0 - 1 <= first /\ first <= LastSlot /\ 0 - 1 = -1
    BY <1>4, <1>13
  <2>2. Gathering(g, O, s, c, F.forest, 0 - 1, k, init) BY <1>3, <2>1
  <2> QED BY <1>3, <1>4, <2>1, <2>2, GatherFacts DEF prefix
<1>16. Gathering(g, O, s, c, F.forest, first, k + 1, mid)
  <2>1. mid = OntoLeft([prefix EXCEPT !.top = s[k + 1]], prefix.top) BY DEF mid, leaf
  <2> QED BY <1>3, <1>13, <1>15, <2>1, LeafStep
<1>17. Gathering(g, O, s, c, F.forest, slot, k + 1, tree)
  <2> DEFINE from == first + 1
  <2>1. from \in Nat /\ slot \in Int /\ from - 1 <= slot /\ slot <= LastSlot /\ from - 1 = first
    BY <1>4, <1>13, <1>14
  <2>2. tree = Gather(mid, F.forest, from, slot) BY DEF tree
  <2> HIDE DEF from
  <2>3. Gathering(g, O, s, c, F.forest, from - 1, k + 1, mid) BY <1>16, <2>1
  <2> QED BY <1>3, <1>4, <2>1, <2>2, <2>3, GatherFacts
<1> DEFINE e == k + 1
           d == NewCuts(s, c, slot, e)
           fp == Filled(F.forest, slot, tree.top)
           u == [h |-> tree.h, top |-> Null]
<1>18. Cuts(s, d) /\ d[0] = e /\ Gathering(g, O, s, d, fp, -1, e, u)
  <2>1. e \in c[0]..Len(s) /\ Gathering(g, O, s, c, F.forest, slot, e, tree) BY <1>4, <1>17
  <2>2. d = NewCuts(s, c, slot, e) /\ fp = Filled(F.forest, slot, tree.top)
        /\ u = [h |-> tree.h, top |-> Null]
    OBVIOUS
  <2> HIDE DEF e, d, fp, u
  <2> QED BY <1>3, <1>14, <2>1, <2>2, FilledSlot
<1>19. ASSUME Full(g, s) PROVE Ordered(w, d)
  <2>1. Ordered(w, c) BY <1>3, <1>19
  <2>2. z # 0
    <3>1. k + 1 \in 1..Len(s) BY <1>4
    <3> QED BY <1>5, <1>19, <3>1 DEF Full, leaf
  <2>3. upto[slot] = w[e] - w[c[slot + 1]] BY <1>9, <1>14
  <2>4. \A i \in Slots : rpa_fib[i] \in Nat BY <1>4, FibFacts
  <2>5. rpa_fib[slot] <= upto[slot]
    <3>1. CASE slot = first
      <4>1. w[c[slot + 1]] <= w[k] /\ w[c[slot + 1]] \in Nat BY <1>5, <1>14
      <4>2. rpa_fib[slot] <= z BY <1>13, <2>2, <3>1
      <4> QED BY <1>5, <1>14, <2>3, <2>4, <4>1, <4>2
    <3>2. CASE slot # first
      <4>1. slot - 1 \in Slots /\ rpa_fib[slot] <= upto[slot - 1] /\ (slot - 1) + 1 = slot
        BY <1>4, <1>14, <3>2
      <4>2. upto[slot - 1] = w[e] - w[c[slot]] BY <1>9, <4>1
      <4>3. w[c[slot + 1]] <= w[c[slot]]
        <5>1. Bounds(s, c[slot + 1], c[slot]) BY <1>3, <1>4, <1>14, CutBounds
        <5>2. g \in Heaps /\ s \in Seq(Leaves) BY <1>4 DEF Scene
        <5>3. Weighed(g, s, w) BY <5>2, WeightFacts DEF w
        <5>4. \A a, b \in 0..Len(s) : a <= b => w[a] <= w[b] BY <5>3 DEF Weighed
        <5> QED BY <1>4, <5>1, <5>4 DEF Bounds
      <4>4. w[c[slot]] \in Nat /\ w[c[slot + 1]] \in Nat BY <1>5, <1>14, <4>1
      <4> QED BY <1>5, <1>14, <2>3, <2>4, <4>1, <4>2, <4>3, <4>4
    <3> QED BY <3>1, <3>2
  <2>6. rpa_fib[slot] <= w[e] - w[c[slot + 1]] /\ w[e] - w[c[slot + 1]] < rpa_fib[slot + 1]
    BY <1>14, <2>3, <2>5
  <2>7. d = NewCuts(s, c, slot, e) /\ e \in c[0]..Len(s) BY <1>4
  <2> HIDE DEF e, d
  <2> QED BY <1>3, <1>4, <1>14, <2>1, <2>6, <2>7, OrderStep
<1>20. K.h = tree.h /\ K.forest = fp /\ K = [h |-> K.h, forest |-> [i \in Slots |-> K.forest[i]]]
  <2>1. fp = [i \in Slots |-> fp[i]] BY DEF Filled
  <2>2. K = [h |-> tree.h, forest |-> fp] BY <1>1
  <2> HIDE DEF fp
  <2> QED BY <2>1, <2>2
<1> HIDE DEF d, fp
<1>21. ForestedWith(g, O, s, k + 1, K, d) BY <1>18, <1>19, <1>20 DEF ForestedWith, w
<1>22. Forested(g, O, s, k + 1, K) BY <1>20, <1>21 DEF Forested
<1> QED BY <1>22 DEF K, leaf

ForestStates == [h : Heaps, forest : [Slots -> Hdrs \union {Null}]]

LEMMA ForestedState ==
  ASSUME NEW g, NEW O, NEW s, NEW k, NEW F, Forested(g, O, s, k, F)
  PROVE  F \in ForestStates
<1>1. F = [h |-> F.h, forest |-> [i \in Slots |-> F.forest[i]]] BY DEF Forested
<1>2. PICK c : ForestedWith(g, O, s, k, F, c) BY DEF Forested
<1> DEFINE u == [h |-> F.h, top |-> Null]
<1>3. Gathering(g, O, s, c, F.forest, -1, k, u) BY <1>2 DEF ForestedWith
<1>4. PICK R : GatheringWith(g, O, s, c, F.forest, -1, k, u, R) BY <1>3 DEF Gathering
<1>5. u.h = F.h OBVIOUS
<1>6. F.h \in Heaps /\ R \subseteq F.h.live
  BY <1>4, <1>5 DEF GatheringWith, Stands, Sound, Trees
<1>7. ASSUME NEW i \in Slots PROVE F.forest[i] \in Hdrs \union {Null}
  <2>1. i > -1 BY FibFacts
  <2>2. Piece(O, s, F.h, R, c[i + 1], c[i], F.forest[i]) BY <1>4, <1>5, <2>1 DEF GatheringWith
  <2> QED BY <1>6, <2>2, HeapFacts DEF Piece
<1> HIDE DEF u
<1>8. [i \in Slots |-> F.forest[i]] \in [Slots -> Hdrs \union {Null}] BY <1>7
<1> QED BY <1>1, <1>6, <1>8 DEF ForestStates

(* The leaves s are trees, and no others are over them.                    *)
Based(g, O, s, f, R) ==
  Stands(g, O, s, f, R) /\ \A j \in 1..Len(s) : Piece(O, s, f, R, j - 1, j, s[j])

LEMMA ForestFacts ==
  ASSUME NEW g, NEW O, NEW s, Scene(g, O, s), NEW f, NEW R, Based(g, O, s, f, R),
         NEW k \in 0..Len(s), NEW v, v = Part(s, 0, k)
  PROVE  Forested(g, O, s, k, Forest(f, v))
<1> DEFINE none == [i \in Slots |-> Null]
           St0 == [h |-> f, forest |-> none]
           I == 0..Len(v)
           Is(q) == q = [j \in I |-> IF j = 0 THEN St0 ELSE AddToForest(q[j - 1], v[j])]
           after == CHOOSE q : Is(q)
           n == Len(v)
           P == [j \in I |-> {F \in ForestStates : Forested(g, O, s, j, F)}]
           F0 == [p \in I \X ForestStates |-> AddToForest(p[2], v[p[1]])]
           K == Forest(f, v)
<1>1. K = after[n] BY DEF Forest
<1> HIDE DEF after, K
<1>2. s \in Seq(Leaves) /\ Len(s) \in Nat /\ LastSlot \in Nat /\ Slots = 0..LastSlot
  BY FibFacts, LenProperties DEF Scene
<1>3. v \in Seq(Leaves) /\ Len(v) = k /\ \A j \in 1..k : v[j] = s[j]
  <2>1. Bounds(s, 0, k) BY <1>2 DEF Bounds
  <2>2. Between(Leaves, s, 0, k, v) BY <1>2, <2>1, PartOf
  <2>3. v \in Seq(Leaves) /\ Len(v) = k - 0 /\ \A j \in 1..(k - 0) : v[j] = s[0 + j]
    BY <2>2 DEF Between
  <2> QED BY <1>2, <2>3
<1>4. n \in Nat /\ n = k /\ I = 0..n BY <1>3
<1>5. St0 \in P[0]
  <2> DEFINE c == [j \in 0..(LastSlot + 1) |-> 0]
             u == [h |-> f, top |-> Null]
  <2>1. \A j \in 0..(LastSlot + 1) : c[j] = 0 OBVIOUS
  <2>2. Cuts(s, c) BY <1>2 DEF Cuts
  <2> HIDE DEF c
  <2>3. c[0] = 0 BY <1>2, <2>1
  <2>4. St0.h = f /\ St0.forest = none /\ none = [i \in Slots |-> none[i]]
        /\ \A i \in Slots : none[i] = Null
    OBVIOUS
  <2>5. u.h = f /\ u.top = Null /\ u = [h |-> u.h, top |-> u.top] OBVIOUS
  <2> HIDE DEF none, u
  <2>6. St0 = [h |-> St0.h, forest |-> [i \in Slots |-> St0.forest[i]]] BY <2>4
  <2>7. GatheringWith(g, O, s, c, none, -1, 0, u, R)
    <3>1. Stands(g, O, s, f, R) /\ \A j \in 1..Len(s) : Piece(O, s, f, R, j - 1, j, s[j])
      BY DEF Based
    <3>2. -1 + 1 = 0 /\ 0 + 1 = 1 OBVIOUS
    <3>3. Piece(O, s, f, R, c[-1 + 1], 0, Null) BY <2>3, <3>2 DEF Piece
    <3>4. \A j \in Slots : Piece(O, s, f, R, c[j + 1], c[j], none[j])
      BY <1>2, <2>1, <2>4 DEF Piece
    <3> QED BY <2>5, <3>1, <3>2, <3>3, <3>4 DEF GatheringWith
  <2>8. Gathering(g, O, s, c, none, -1, 0, u) BY <2>5, <2>7 DEF Gathering
  <2>9. Ordered(Weight(g, s), c) BY <1>2, <2>1 DEF Ordered
  <2>10. ForestedWith(g, O, s, 0, St0, c)
    BY <2>2, <2>3, <2>4, <2>8, <2>9 DEF ForestedWith, u
  <2> HIDE DEF St0
  <2>11. Forested(g, O, s, 0, St0) BY <2>6, <2>10 DEF Forested
  <2>12. 0 \in I BY <1>4
  <2> QED BY <2>11, <2>12, ForestedState
<1>6. ASSUME NEW j \in I, j # 0, NEW F \in P[j - 1] PROVE AddToForest(F, v[j]) \in P[j]
  <2> DEFINE m == j - 1
  <2>1. m \in Nat /\ m \in I /\ m + 1 = j /\ m + 1 <= Len(s) /\ v[j] = s[m + 1]
    BY <1>2, <1>3, <1>4, <1>6
  <2>2. Forested(g, O, s, m, F) BY <1>6, <2>1
  <2> HIDE DEF m
  <2>3. Forested(g, O, s, m + 1, AddToForest(F, s[m + 1])) BY <2>1, <2>2, AddToForestFacts
  <2>4. Forested(g, O, s, j, AddToForest(F, v[j])) BY <2>1, <2>3
  <2>5. AddToForest(F, v[j]) \in ForestStates BY <2>4, ForestedState
  <2> QED BY <2>4, <2>5
<1>7. ASSUME NEW j \in I, j # 0, NEW F \in P[j - 1] PROVE F0[<<j, F>>] = AddToForest(F, v[j])
  <2>1. j - 1 \in I BY <1>4, <1>7
  <2>2. F \in ForestStates BY <1>7, <2>1
  <2> HIDE DEF P, I
  <2> QED BY <2>2
<1>8. \A j \in I : j # 0 => \A F \in P[j - 1] : F0[<<j, F>>] \in P[j] BY <1>6, <1>7
<1>9. n \in I /\ P[n] \subseteq {F \in ForestStates : Forested(g, O, s, n, F)} BY <1>4
<1> DEFINE zero == 0
<1>10. I = zero..n /\ zero \in Int /\ n \in Int /\ zero = 0 BY <1>4
<1> HIDE DEF P, F0, St0, zero, n
<1>11. PICK q : Loops(zero, n, St0, F0, q) /\ \A j \in zero..n : q[j] \in P[j]
  <2>1. \A j \in zero..n : j # zero => \A F \in P[j - 1] : F0[<<j, F>>] \in P[j] BY <1>8, <1>10
  <2>2. St0 \in P[zero] BY <1>5, <1>10
  <2> HIDE DEF I
  <2> QED BY <1>10, <2>1, <2>2, Loop
<1>12. Is(q)
  <2>1. \A j \in I : j # 0 => F0[<<j, q[j - 1]>>] = AddToForest(q[j - 1], v[j])
    <3> SUFFICES ASSUME NEW j \in I, j # 0
                 PROVE  F0[<<j, q[j - 1]>>] = AddToForest(q[j - 1], v[j])
      OBVIOUS
    <3>1. j - 1 \in I BY <1>4
    <3>2. q[j - 1] \in P[j - 1] BY <1>10, <1>11, <3>1
    <3> QED BY <1>7, <3>2
  <2>2. q = [j \in I |-> IF j = 0 THEN St0 ELSE F0[<<j, q[j - 1]>>]] BY <1>10, <1>11 DEF Loops
  <2> HIDE DEF I
  <2>3. q = [j \in I |-> IF j = 0 THEN St0 ELSE AddToForest(q[j - 1], v[j])] BY <2>1, <2>2
  <2> QED BY <2>3
<1>13. Is(after) BY <1>12 DEF after
<1> HIDE DEF I
<1>14. \A j \in I : after[j] = IF j = 0 THEN St0 ELSE AddToForest(after[j - 1], v[j]) BY <1>13
<1> HIDE DEF Is
<1>15. \A j \in zero..n : after[j] \in P[j]
  <2>1. after[zero] \in P[zero] BY <1>4, <1>5, <1>10, <1>14
  <2>2. \A j \in zero..n : j # zero /\ after[j - 1] \in P[j - 1] => after[j] \in P[j]
    BY <1>6, <1>10, <1>14
  <2> QED BY <1>10, <2>1, <2>2, LoopKeeps
<1>16. K \in P[n] BY <1>1, <1>9, <1>10, <1>15
<1>17. Forested(g, O, s, n, K) BY <1>9, <1>16
<1> QED BY <1>4, <1>17 DEF K

-----------------------------------------------------------------------------
(* Rebalancing                                                             *)

LEMMA WholePart ==
  ASSUME NEW s \in Seq(Leaves)
  PROVE  Part(s, 0, Len(s)) = s
<1> DEFINE n == Len(s)
           v == Part(s, 0, n)
<1>1. Len(s) \in Nat /\ Bounds(s, 0, n) BY LenProperties DEF Bounds
<1>2. Between(Leaves, s, 0, n, v) BY <1>1, PartOf
<1> HIDE DEF v
<1>3. v \in Seq(Leaves) /\ Len(v) = n - 0 /\ \A i \in 1..(n - 0) : v[i] = s[0 + i]
  BY <1>2 DEF Between
<1>4. Len(v) = Len(s) /\ \A i \in 1..Len(v) : v[i] = s[i] BY <1>1, <1>3
<1>5. v = s BY <1>3, <1>4, SeqEqual
<1> QED BY <1>5 DEF v

(* Without the inner nodes of rope r its leaves are trees.                 *)
LEMMA BareFacts ==
  ASSUME NEW g, Good(g), NEW r \in Open(g), NEW x, x = g.root[r],
         NEW O, OtherRoots(g, r, O), NEW s, s = LeavesUnder(g, x)
  PROVE  Scene(g, O, s) /\ \E R : Based(g, O, s, Bare(g, r), R)
<1> DEFINE S == Roots(g)
           xs == InnerUnder(g, x)
           f == Bare(g, r)
           R == (S \ xs) \union {z \in g.live \ (xs \union S) : g.parent[z] \in xs}
<1>1. /\ g \in Heaps /\ Trees(g, S) /\ Sizes(g) /\ Sound(g, S) /\ Tops(g, S) /\ S \subseteq g.live
      /\ x \in S /\ x \in g.live
  BY GoodFacts DEF Good, Trees
<1>2. O = S \ {x} BY DEF OtherRoots
<1>3. f = Dealloc(g, xs) BY DEF Bare
<1> HIDE DEF S, xs, f, R
<1>4. /\ xs = All(g, x) \intersect Nodes(g) /\ ToSet(s) = All(g, x) \intersect LiveLeaves(g)
      /\ All(g, x) \subseteq g.live /\ x \in All(g, x)
  BY <1>1, AllRules DEF xs
<1>5. s \in Seq(Leaves) /\ Len(s) \in Nat BY <1>1, LeafSeqs
<1>6. Distinct(s) BY <1>1, LeavesDistinct
<1>7. \A z \in O : z \in S /\ z \in g.live /\ All(g, z) \intersect All(g, x) = {} /\ z \in All(g, z)
  BY <1>1, <1>2, Apart, AllRules
<1>8. \A z \in g.live : ToSet(LeavesUnder(g, z)) \subseteq All(g, z) BY DEF All
<1>9. Scene(g, O, s)
  <2>1. \A z \in O : ToSet(LeavesUnder(g, z)) \intersect ToSet(s) = {} BY <1>4, <1>7, <1>8
  <2>2. ASSUME NEW i \in 1..Len(s) PROVE Len(g.data[s[i]]) <= Grain
    <3>1. s[i] \in ToSet(s) BY <1>5, ToSetFacts
    <3>2. s[i] \in LiveLeaves(g) BY <1>4, <3>1
    <3>3. g.nelems[s[i]] = Len(g.data[s[i]]) /\ g.nelems[s[i]] <= Grain BY <1>1, <3>2 DEF Sizes
    <3> QED BY <3>3
  <2> QED BY <1>1, <1>5, <1>6, <2>1, <2>2 DEF Scene
<1>10. Freed(g, f, xs, R)
  <2>1. xs \subseteq g.live BY <1>4
  <2>2. ASSUME NEW z \in xs PROVE z \in S \/ g.parent[z] \in xs
    <3>1. z = x \/ (g.parent[z] \in All(g, x) /\ g.parent[z] \in Nodes(g)) BY <1>1, <1>4, Climb
    <3> QED BY <1>1, <1>4, <3>1
  <2>3. R = (S \ xs) \union {z \in g.live \ (xs \union S) : g.parent[z] \in xs} BY DEF R
  <2> QED BY <1>1, <1>3, <2>1, <2>2, <2>3, FreeTops
<1>11. /\ Sound(f, R) /\ f.live = g.live \ xs /\ f.root = g.root /\ f.tail = g.tail
       /\ \A z \in g.live \ xs :
            f.parent[z] = g.parent[z] /\ LeavesUnder(f, z) = LeavesUnder(g, z)
  BY <1>10 DEF Freed
<1>12. \A l \in LiveLeaves(g) : l \notin xs /\ l \in Leaves /\ l \in g.live
  BY <1>1, <1>4, HeapFacts DEF LiveLeaves
<1>13. f.data = g.data
  <2>1. xs \intersect Leaves = {} BY <1>1, <1>4, HeapFacts
  <2>2. \A l \in Leaves : f.data[l] = IF l \in xs THEN <<>> ELSE g.data[l]
    BY <1>1, <1>3, DeallocIs
  <2>3. f.data \in [Leaves -> Seq(Vals)] /\ g.data \in [Leaves -> Seq(Vals)]
    BY <1>1, <1>11, HeapFacts DEF Sound
  <2> QED BY <2>1, <2>2, <2>3
<1>14. O \subseteq R BY <1>4, <1>7 DEF R
<1>15. ASSUME NEW l \in ToSet(s) PROVE l \in R \ O /\ LeavesUnder(f, l) = <<l>>
  <2>1. l \in All(g, x) /\ l \in LiveLeaves(g) BY <1>4
  <2>2. l \notin xs /\ l \in g.live /\ l \in Leaves BY <1>12, <2>1
  <2>3. l \notin O BY <1>7, <2>1
  <2>4. l = x \/ (l \notin S /\ g.parent[l] \in xs)
    <3> SUFFICES ASSUME l # x PROVE l \notin S /\ g.parent[l] \in xs OBVIOUS
    <3>1. l \notin S /\ g.parent[l] \in All(g, x) /\ g.parent[l] \in Nodes(g) BY <1>1, <2>1, Climb
    <3> QED BY <1>4, <3>1
  <2>5. l \in R BY <1>1, <2>2, <2>4 DEF R
  <2>6. LeavesUnder(g, l) = <<l>> BY <1>1, <2>1, LeavesRules
  <2> QED BY <1>11, <2>2, <2>3, <2>5, <2>6
<1>16. ASSUME NEW z \in R \ S PROVE z \in ToSet(s) /\ z \in Leaves
  <2>1. z \in g.live /\ z \notin xs /\ z \notin S /\ g.parent[z] \in xs BY DEF R
  <2>2. z = g.left[g.parent[z]] \/ z = g.right[g.parent[z]] BY <1>1, <2>1 DEF Trees, Child
  <2>3. z \in All(g, x)
    <3>1. g.parent[z] \in All(g, x) /\ g.parent[z] \in Nodes(g) BY <1>4, <2>1
    <3>2. g.left[g.parent[z]] \in All(g, x) /\ g.right[g.parent[z]] \in All(g, x)
      BY <1>1, <3>1, Descend
    <3> QED BY <2>2, <3>2
  <2>4. z \notin Nodes(g) BY <1>4, <2>1, <2>3
  <2>5. z \in Leaves /\ z \in LiveLeaves(g) BY <1>1, <2>1, <2>4, LeafOrNode
  <2> QED BY <1>4, <2>3, <2>5
<1>17. ASSUME NEW z \in R \ O PROVE ToSet(LeavesUnder(f, z)) \subseteq ToSet(s)
  <2>1. CASE z \in S
    <3>1. z = x BY <1>2, <2>1
    <3>2. x \in g.live \ xs BY <1>1, <3>1 DEF R
    <3>3. LeavesUnder(f, z) = s BY <1>11, <3>1, <3>2
    <3> QED BY <3>3
  <2>2. CASE z \notin S
    <3>1. z \in ToSet(s) /\ z \in Leaves BY <1>16, <2>2
    <3>2. LeavesUnder(f, z) = <<z>> BY <1>15, <3>1
    <3>3. ToSet(<<z>>) = {z} BY <3>1, ToSetFacts
    <3> QED BY <3>1, <3>2, <3>3
  <2> QED BY <2>1, <2>2
<1>18. ASSUME NEW z \in R PROVE f.parent[z] = Null \/ (z \in Leaves /\ f.parent[z] = g.parent[z])
  <2>1. z \in g.live \ xs BY <1>1 DEF R
  <2>2. f.parent[z] = g.parent[z] BY <1>11, <2>1
  <2>3. z \in S => g.parent[z] = Null BY <1>1 DEF Tops
  <2> QED BY <1>16, <2>2, <2>3
<1>19. Stands(g, O, s, f, R)
  <2>1. \A z \in O : LeavesUnder(f, z) = LeavesUnder(g, z) BY <1>4, <1>7, <1>11
  <2> QED BY <1>11, <1>13, <1>14, <1>17, <1>18, <2>1 DEF Stands
<1>20. ASSUME NEW j \in 1..Len(s) PROVE Piece(O, s, f, R, j - 1, j, s[j])
  <2>1. s[j] \in ToSet(s) BY <1>5, ToSetFacts
  <2>2. Part(s, j - 1, j) = <<s[j]>> /\ s[j] \in Leaves BY <1>5, OnePart
  <2>3. s[j] \in R \ O /\ LeavesUnder(f, s[j]) = <<s[j]>> BY <1>15, <2>1
  <2>4. s[j] # Null /\ j - 1 < j BY <1>5, <2>2, HdrFacts
  <2> QED BY <2>2, <2>3, <2>4 DEF Piece
<1>21. Based(g, O, s, f, R) BY <1>19, <1>20 DEF Based
<1>22. \E Q : Based(g, O, s, f, Q) BY <1>21
<1> QED BY <1>9, <1>22 DEF f

(* All trees of the forest in one.                                         *)
AllOf(F) == Gather([h |-> F.h, top |-> Null], F.forest, 0, Max(Slots))

LEMMA AllOfFacts ==
  ASSUME NEW g, NEW O, NEW s, Scene(g, O, s), s # <<>>,
         NEW F, Forested(g, O, s, Len(s), F), NEW st, st = AllOf(F)
  PROVE  /\ \E R : Stands(g, O, s, st.h, R) /\ R = O \union {st.top} /\ st.top \in R
         /\ LeavesUnder(st.h, st.top) = s /\ st.top \notin O
<1> DEFINE n == Len(s)
           u == [h |-> F.h, top |-> Null]
<1>1. PICK c : ForestedWith(g, O, s, n, F, c) BY DEF Forested
<1>2. Cuts(s, c) /\ c[0] = n /\ Gathering(g, O, s, c, F.forest, -1, n, u) BY <1>1 DEF ForestedWith
<1>3. /\ s \in Seq(Leaves) /\ LastSlot \in Nat /\ Slots = 0..LastSlot /\ n \in Nat
      /\ n \in c[0]..Len(s) /\ n # 0 /\ c[LastSlot + 1] = 0
  BY <1>2, FibFacts, LenProperties, EmptySeq DEF Scene, Cuts
<1>4. Max(Slots) = LastSlot
  <2>1. LastSlot \in Slots /\ \A i \in Slots : LastSlot >= i BY <1>3
  <2>2. \A i \in Slots : i >= LastSlot => i = LastSlot BY <1>3
  <2> QED BY <2>1, <2>2 DEF Max
<1>5. Gathering(g, O, s, c, F.forest, LastSlot, n, st)
  <2>1. 0 \in Nat /\ LastSlot \in Int /\ 0 - 1 <= LastSlot /\ LastSlot <= LastSlot /\ 0 - 1 = -1
    BY <1>3
  <2>2. st = Gather(u, F.forest, 0, LastSlot) BY <1>4 DEF AllOf
  <2>3. Gathering(g, O, s, c, F.forest, 0 - 1, n, u) BY <1>2, <2>1
  <2> HIDE DEF u, n
  <2> QED BY <1>2, <1>3, <2>1, <2>2, <2>3, GatherFacts
<1>6. PICK R : GatheringWith(g, O, s, c, F.forest, LastSlot, n, st, R) BY <1>5 DEF Gathering
<1>7. Stands(g, O, s, st.h, R) /\ Piece(O, s, st.h, R, 0, n, st.top)
  BY <1>3, <1>6 DEF GatheringWith
<1>8. st.top \in R \ O /\ LeavesUnder(st.h, st.top) = Part(s, 0, n) BY <1>3, <1>7 DEF Piece
<1>9. Part(s, 0, n) = s BY <1>3, WholePart
<1>10. ASSUME NEW z \in R \ O PROVE z = st.top
  <2>1. /\ st.h \in Heaps /\ Trees(st.h, R) /\ z \in R /\ z \in st.h.live
        /\ st.top \in R /\ st.top \in st.h.live
        /\ ToSet(LeavesUnder(st.h, z)) \subseteq ToSet(LeavesUnder(st.h, st.top))
    BY <1>7, <1>8, <1>9 DEF Stands, Sound, Trees
  <2>2. LeavesUnder(st.h, z) \in Seq(Leaves) /\ LeavesUnder(st.h, z) # <<>>
    BY <2>1, LeafSeqs, LeavesRules
  <2>3. Last(LeavesUnder(st.h, z)) \in ToSet(LeavesUnder(st.h, z)) BY <2>2, LastIs
  <2>4. Last(LeavesUnder(st.h, z)) \in All(st.h, z)
        /\ Last(LeavesUnder(st.h, z)) \in All(st.h, st.top)
    BY <2>1, <2>3 DEF All
  <2> QED BY <2>1, <2>4, Apart
<1>11. R = O \union {st.top} BY <1>7, <1>8, <1>10 DEF Stands
<1> QED BY <1>7, <1>8, <1>9, <1>11

Rebalanced(g, k, r) == OnlyRope(g, k, r) /\ Text(k, r) = Text(g, r)

(* The tree st.top is that of rope r.                                      *)
Hung(st, r) == [st.h EXCEPT !.root[r] = st.top]

LEMMA RebuildGood ==
  ASSUME NEW g, Good(g), NEW r \in Open(g), NEW x, x = g.root[r],
         NEW O, OtherRoots(g, r, O), NEW s, s = LeavesUnder(g, x),
         NEW st, st = AllOf(Forest(Bare(g, r), s)),
         NEW k, k = Hung(st, r)
  PROVE  Rebalanced(g, k, r)
<1> DEFINE F == Forest(Bare(g, r), s)
           f == st.h
           y == st.top
           ra == [g.root EXCEPT ![r] = y]
           S == Roots(g)
<1>1. /\ g \in Heaps /\ Trees(g, S) /\ Sound(g, S) /\ Tops(g, S) /\ S \subseteq g.live
      /\ x \in S /\ x \in g.live /\ r \in Ropes /\ g.tail[r] = Last(s)
      /\ Text(g, r) = Elems(g, x)
  BY GoodFacts DEF Good, Trees, Text
<1>2. O = S \ {x} BY DEF OtherRoots
<1>3. Scene(g, O, s) /\ \E R : Based(g, O, s, Bare(g, r), R) BY BareFacts
<1>4. s \in Seq(Leaves) /\ Len(s) \in Nat /\ s # <<>> BY <1>1, LeafSeqs, LeavesRules
<1> HIDE DEF S, F
<1>5. Forested(g, O, s, Len(s), F)
  <2>1. Len(s) \in 0..Len(s) /\ s = Part(s, 0, Len(s)) BY <1>4, WholePart
  <2> DEFINE n == Len(s)
             v == s
             q == Bare(g, r)
  <2>2. n \in 0..Len(s) /\ v = Part(s, 0, n) /\ F = Forest(q, v) BY <2>1 DEF F
  <2> HIDE DEF n, v, q
  <2>3. PICK R : Based(g, O, s, q, R) BY <1>3 DEF q
  <2>4. Forested(g, O, s, n, F) BY <1>3, <2>2, <2>3, ForestFacts
  <2> QED BY <2>4 DEF n
<1>6. /\ \E R : Stands(g, O, s, f, R) /\ R = O \union {y} /\ y \in R
      /\ LeavesUnder(f, y) = s /\ y \notin O
  <2>1. st = AllOf(F) BY DEF F
  <2> QED BY <1>3, <1>4, <1>5, <2>1, AllOfFacts
<1> DEFINE R == O \union {y}
<1>7. Stands(g, O, s, f, R) /\ y \in R BY <1>6
<1> HIDE DEF R
<1>8. /\ Sound(f, R) /\ f \in Heaps /\ Trees(f, R) /\ y \in f.live /\ y \in Hdrs /\ R \subseteq f.live
      /\ f.data = g.data /\ f.root = g.root /\ f.tail = g.tail
      /\ \A z \in O : LeavesUnder(f, z) = LeavesUnder(g, z)
  BY <1>7, HeapFacts DEF Stands, Sound, Trees
<1>9. f.parent[y] = Null
  <2> SUFFICES ASSUME y \in Leaves, f.parent[y] = g.parent[y] PROVE g.parent[y] = Null
    BY <1>7 DEF Stands
  <2>1. s = <<y>> BY <1>6, <1>8, LeavesRules DEF LiveLeaves
  <2>2. ToSet(s) = {y} BY <2>1, ToSetFacts
  <2>3. y = x
    <3>1. CASE x \in Leaves
      <4>1. s = <<x>> BY <1>1, <3>1, LeavesRules DEF LiveLeaves
      <4>2. ToSet(s) = {x} BY <3>1, <4>1, ToSetFacts
      <4> QED BY <2>2, <4>2
    <3>2. CASE x \notin Leaves
      <4> DEFINE a == g.left[x]
                 d == g.right[x]
                 u == LeavesUnder(g, a)
                 v == LeavesUnder(g, d)
      <4>1. x \in Nodes(g) BY <1>1, <3>2, LeafOrNode
      <4>2. a \in g.live /\ d \in g.live BY <1>1, <4>1, NodeFacts
      <4>3. s = u \o v BY <1>1, <4>1, LeavesRules
      <4> HIDE DEF a, d
      <4>4. u \in Seq(Leaves) /\ Len(u) \in Nat \ {0} /\ v \in Seq(Leaves) /\ Len(v) \in Nat \ {0}
        BY <1>1, <4>2, LeafSeqs
      <4> HIDE DEF u, v
      <4>5. Len(s) = Len(u) + Len(v) BY <4>3, <4>4, ConcatFacts
      <4>6. Len(s) = 1 BY <2>1, OneSeq
      <4> DEFINE m == Len(u)
                 n == Len(v)
      <4>7. m \in Nat \ {0} /\ n \in Nat \ {0} /\ m + n = 1 BY <4>4, <4>5, <4>6
      <4> HIDE DEF m, n
      <4>8. FALSE BY <4>7
      <4> QED BY <4>8
    <3> QED BY <3>1, <3>2
  <2> QED BY <1>1, <2>3 DEF Tops
<1>10. Tops(f, R)
  <2> SUFFICES ASSUME NEW z \in R, z # y PROVE f.parent[z] = Null BY <1>9 DEF Tops
  <2>1. z \in O /\ z \in S BY <1>2 DEF R
  <2>2. g.parent[z] = Null BY <1>1, <2>1 DEF Tops
  <2> QED BY <1>7, <2>2 DEF Stands
<1>11. /\ ra \in [Ropes -> Hdrs \union {Null}] /\ g.tail \in [Ropes -> Leaves \union {Null}]
  BY <1>1, <1>8, HeapFacts
<1>12. k = WithRoots(f, ra, g.tail)
  <2>1. k = [f EXCEPT !.root = [f.root EXCEPT ![r] = y]] BY DEF Hung
  <2>2. k = [f EXCEPT !.root = ra] BY <1>8, <2>1
  <2>3. f.tail = g.tail BY <1>8
  <2> HIDE DEF ra, f, y
  <2>4. [f EXCEPT !.root = ra] = [f EXCEPT !.root = ra, !.tail = f.tail] BY <1>8 DEF Heaps
  <2> QED BY <2>2, <2>3, <2>4 DEF WithRoots
<1>13. Sound(k, R) /\ k.root = ra /\ k.tail = g.tail /\ SameTrees(f, k)
  <2> DEFINE e == g.tail
  <2>1. e \in [Ropes -> Leaves \union {Null}] /\ k = WithRoots(f, ra, e) BY <1>11, <1>12
  <2>a. Sound(f, R) /\ ra \in [Ropes -> Hdrs \union {Null}] BY <1>8, <1>11
  <2> HIDE DEF e, ra, f, y
  <2>2. Sound(k, R) /\ k.root = ra /\ k.tail = e /\ SameTrees(f, k)
    BY <2>1, <2>a, WithRootsFacts
  <2> QED BY <2>2 DEF e
<1>14. /\ Tops(k, R) /\ k.data = g.data /\ LeavesUnder(k, y) = s
       /\ \A z \in O : LeavesUnder(k, z) = LeavesUnder(g, z)
  <2>1. /\ k.parent = f.parent /\ k.data = f.data
        /\ \A z \in f.live : LeavesUnder(k, z) = LeavesUnder(f, z)
    BY <1>13 DEF SameTrees
  <2>4. R \subseteq f.live /\ O \subseteq R /\ y \in R BY <1>8 DEF Sound, Trees, R
  <2>2. Tops(k, R) BY <1>10, <2>1 DEF Tops
  <2> QED BY <1>6, <1>8, <2>1, <2>2, <2>4
<1>15. Moved(g, k, r, y, Last(LeavesUnder(k, y)))
  <2>1. k.tail = [g.tail EXCEPT ![r] = g.tail[r]] BY <1>11, <1>13
  <2> QED BY <1>1, <1>13, <1>14, <2>1 DEF Moved
<1>16. Rerooted(g, k, r, y, O)
  <2>1. Sound(k, O \union {y}) /\ Tops(k, O \union {y}) BY <1>13, <1>14 DEF R
  <2> HIDE DEF y
  <2> QED BY <1>1, <1>6, <1>8, <1>14, <1>15, <2>1, Reroot
<1>17. Good(k) /\ Open(k) = Open(g) /\ k.root[r] = y
       /\ \A s2 \in Open(g) \ {r} : k.root[s2] = g.root[s2] /\ g.root[s2] \in O
  BY <1>16 DEF Rerooted
<1>18. /\ \A t : Data(k, t) = Data(g, t)
       /\ \A z : LeavesUnder(k, z) = LeavesUnder(g, z) => Elems(k, z) = Elems(g, z)
  <2>1. ASSUME NEW t PROVE Data(k, t) = Data(g, t) BY <1>14 DEF Data
  <2> QED BY <2>1 DEF Elems
<1>19. Others(g, k, r) BY <1>14, <1>17, <1>18 DEF Others, Text
<1>20. Text(k, r) = Text(g, r)
  <2>1. Text(k, r) = Data(k, s) BY <1>14, <1>17 DEF Text, Elems
  <2>2. Text(g, r) = Data(g, s) BY <1>1 DEF Elems
  <2> QED BY <1>18, <2>1, <2>2
<1> QED BY <1>17, <1>19, <1>20 DEF Rebalanced, OnlyRope

LEMMA RebalanceGood ==
  ASSUME NEW g, Good(g), NEW r \in Open(g), NEW k, k = Rebalance(g, r)
  PROVE  Rebalanced(g, k, r)
<1> DEFINE x == g.root[r]
           s == LeavesUnder(g, x)
           O == Roots(g) \ {x}
           st == AllOf(Forest(Bare(g, r), s))
<1>1. k = IF IsBalanced(g, x) THEN g ELSE Hung(st, r)
  BY DEF Rebalance, AllOf, Hung
<1>2. CASE IsBalanced(g, x)
  <2>1. k = g BY <1>1, <1>2
  <2> QED BY <2>1 DEF Rebalanced, OnlyRope, Others
<1>3. CASE ~ IsBalanced(g, x)
  <2>1. k = Hung(st, r) BY <1>1, <1>3
  <2>2. OtherRoots(g, r, O) BY DEF OtherRoots
  <2>3. x = g.root[r] /\ s = LeavesUnder(g, x) /\ st = AllOf(Forest(Bare(g, r), s)) OBVIOUS
  <2> HIDE DEF x, s, O, st
  <2> QED BY <2>1, <2>2, <2>3, RebuildGood
<1> QED BY <1>2, <1>3

-----------------------------------------------------------------------------
(* What the abstract arrays do when the ropes change                       *)

Shows(g) == [r \in Ropes |-> IF r \in Open(g) THEN Text(g, r) ELSE Gone]
Moves(g, k) == Abstract!Operation(Shows(g), Shows(k)) \/ Shows(k) = Shows(g)

LEMMA ShowsFacts ==
  ASSUME NEW g, Good(g)
  PROVE  /\ \A r \in Open(g) : r \in Ropes /\ Shows(g)[r] = Text(g, r) /\ Shows(g)[r] # Gone
                               /\ Text(g, r) \in Seq(Vals)
         /\ \A r \in Ropes \ Open(g) : Shows(g)[r] = Gone
         /\ Shows(g) = [r \in Ropes |-> Shows(g)[r]]
<1>1. \A r \in Open(g) : r \in Ropes /\ Text(g, r) \in Seq(Vals) BY GoodFacts
<1> QED BY <1>1, GoneAssumption DEF Shows

LEMMA IsOperation ==
  ASSUME NEW g, NEW k, NEW r \in Ropes, NEW r2 \in Ropes, Shows(k)[r] # Shows(g)[r],
         \/ Abstract!Create(Shows(g), Shows(k), r) \/ Abstract!Extend(Shows(g), Shows(k), r)
         \/ Abstract!Pop(Shows(g), Shows(k), r)
  PROVE  Moves(g, k)
<1> DEFINE old == Shows(g)
           new == Shows(k)
<1>1. new # old OBVIOUS
<1> HIDE DEF old, new
<1>2. \/ Abstract!Create(old, new, r) \/ Abstract!Extend(old, new, r)
      \/ Abstract!Pop(old, new, r)
  BY DEF old, new
<1>3. Abstract!Operation(old, new) BY <1>1, <1>2 DEF Abstract!Operation
<1> QED BY <1>3 DEF Moves, old, new

LEMMA CreateMoves ==
  ASSUME NEW g, Good(g), NEW r \in Ropes \ Open(g), NEW k, Created(g, k, r)
  PROVE  Moves(g, k)
<1> DEFINE old == Shows(g)
           new == Shows(k)
<1>1. Good(k) /\ Open(k) = Open(g) \union {r} /\ Others(g, k, r) /\ Text(k, r) = <<>>
  BY DEF Created
<1>2. old[r] = Gone BY ShowsFacts
<1>3. new[r] = <<>> /\ new[r] # Gone BY <1>1, ShowsFacts
<1>4. \A s \in Ropes \ {r} : new[s] = old[s] BY <1>1 DEF Shows, Others
<1> HIDE DEF old, new
<1>5. Abstract!Create(old, new, r)
  BY <1>2, <1>3, <1>4 DEF Abstract!Create, Abstract!Live, Abstract!Same
<1> QED BY <1>2, <1>3, <1>5, IsOperation DEF old, new

LEMMA SameMoves ==
  ASSUME NEW g, Good(g), NEW r \in Open(g), NEW k, OnlyRope(g, k, r), Text(k, r) = Text(g, r)
  PROVE  Moves(g, k)
<1>1. Open(k) = Open(g) /\ Others(g, k, r) BY DEF OnlyRope
<1>2. \A s \in Open(g) : Text(k, s) = Text(g, s) BY <1>1 DEF Others
<1>3. Shows(k) = Shows(g) BY <1>1, <1>2 DEF Shows
<1> QED BY <1>3 DEF Moves

LEMMA ShowsOnly ==
  ASSUME NEW g, Good(g), NEW r \in Open(g), NEW k, OnlyRope(g, k, r)
  PROVE  /\ r \in Ropes /\ Shows(g)[r] = Text(g, r) /\ Shows(k)[r] = Text(k, r)
         /\ Shows(g)[r] # Gone /\ Shows(k)[r] # Gone
         /\ Text(g, r) \in Seq(Vals) /\ Text(k, r) \in Seq(Vals)
         /\ \A s \in Ropes \ {r} : Shows(k)[s] = Shows(g)[s]
<1>1. Good(k) /\ Open(k) = Open(g) /\ Others(g, k, r) BY DEF OnlyRope
<1>2. \A s \in Ropes \ {r} : Shows(k)[s] = Shows(g)[s] BY <1>1 DEF Shows, Others
<1> QED BY <1>1, <1>2, ShowsFacts

(* A sequence is a prefix of what it is joined with.                       *)
LEMMA JoinedPrefix ==
  ASSUME NEW s \in Seq(Vals), NEW vs \in Seq(Vals), NEW t \in Seq(Vals), Joined(t, s, vs), t # s
  PROVE  Abstract!IsStrictPrefix(s, t)
<1> DEFINE n == Len(s)
           a == SubSeq(s, 1, n)
           d == SubSeq(t, 1, n)
<1>1. t = s \o vs /\ n \in Nat /\ Len(vs) \in Nat BY LenProperties DEF Joined
<1>2. Len(t) = n + Len(vs) /\ \A i \in 1..n : t[i] = s[i] BY <1>1, ConcatFacts
<1> DEFINE one == 1
<1>3. /\ one \in 1..(Len(s) + 1) /\ n \in (one - 1)..Len(s)
      /\ one \in 1..(Len(t) + 1) /\ n \in (one - 1)..Len(t)
  BY <1>1, <1>2
<1> HIDE DEF one
<1>4. /\ SubSeq(s, one, n) \in Seq(Vals) /\ Len(SubSeq(s, one, n)) = n - one + 1
      /\ \A i \in 1..(n - one + 1) : SubSeq(s, one, n)[i] = s[one + i - 1]
  BY <1>3, SubSeqProperties
<1>5. /\ SubSeq(t, one, n) \in Seq(Vals) /\ Len(SubSeq(t, one, n)) = n - one + 1
      /\ \A i \in 1..(n - one + 1) : SubSeq(t, one, n)[i] = t[one + i - 1]
  BY <1>3, SubSeqProperties
<1>6. /\ a \in Seq(Vals) /\ Len(a) = n - 1 + 1 /\ \A i \in 1..(n - 1 + 1) : a[i] = s[1 + i - 1]
      /\ d \in Seq(Vals) /\ Len(d) = n - 1 + 1 /\ \A i \in 1..(n - 1 + 1) : d[i] = t[1 + i - 1]
  BY <1>4, <1>5 DEF one
<1> HIDE DEF a, d, n
<1>7. n - 1 + 1 = n /\ \A i \in 1..n : 1 + i - 1 = i BY <1>1
<1>8. Len(a) = Len(d) /\ \A i \in 1..Len(a) : a[i] = d[i] BY <1>1, <1>2, <1>6, <1>7
<1>9. a = d BY <1>6, <1>8, SeqEqual
<1>10. Len(s) <= Len(t) BY <1>1, <1>2 DEF n
<1>11. SubSeq(s, 1, Len(s)) = SubSeq(t, 1, Len(s)) BY <1>9 DEF a, d, n
<1> QED BY <1>10, <1>11 DEF Abstract!IsStrictPrefix, Abstract!IsPrefix

LEMMA ExtendMoves ==
  ASSUME NEW g, Good(g), NEW r \in Open(g), NEW k, OnlyRope(g, k, r),
         NEW vs \in Seq(Vals), Joined(Text(k, r), Text(g, r), vs)
  PROVE  Moves(g, k)
<1> DEFINE old == Shows(g)
           new == Shows(k)
<1>1. /\ r \in Ropes /\ old[r] = Text(g, r) /\ new[r] = Text(k, r) /\ old[r] # Gone /\ new[r] # Gone
      /\ Text(g, r) \in Seq(Vals) /\ Text(k, r) \in Seq(Vals)
      /\ \A s \in Ropes \ {r} : new[s] = old[s]
  BY ShowsOnly
<1> HIDE DEF old, new
<1>2. CASE Text(k, r) = Text(g, r) BY <1>2, SameMoves
<1>3. CASE Text(k, r) # Text(g, r)
  <2>1. Abstract!IsStrictPrefix(Text(g, r), Text(k, r)) BY <1>1, <1>3, JoinedPrefix
  <2>2. Abstract!Extend(old, new, r)
    BY <1>1, <2>1 DEF Abstract!Extend, Abstract!Live, Abstract!Same
  <2> QED BY <1>1, <1>3, <2>2, IsOperation DEF old, new
<1> QED BY <1>2, <1>3

LEMMA PopMoves ==
  ASSUME NEW g, Good(g), NEW r \in Open(g), NEW k, OnlyRope(g, k, r),
         NEW j, LongerBy(Text(g, r), Text(k, r), j)
  PROVE  Moves(g, k)
<1> DEFINE old == Shows(g)
           new == Shows(k)
<1>1. /\ r \in Ropes /\ old[r] = Text(g, r) /\ new[r] = Text(k, r) /\ old[r] # Gone /\ new[r] # Gone
      /\ Text(g, r) \in Seq(Vals) /\ Text(k, r) \in Seq(Vals)
      /\ \A s \in Ropes \ {r} : new[s] = old[s]
  BY ShowsOnly
<1> HIDE DEF old, new
<1>2. CASE Text(k, r) = Text(g, r) BY <1>2, SameMoves
<1>3. CASE Text(k, r) # Text(g, r)
  <2>1. PICK vs \in Seq(Vals) : Joined(Text(g, r), Text(k, r), vs) BY DEF LongerBy
  <2>2. Abstract!IsStrictPrefix(Text(k, r), Text(g, r)) BY <1>1, <1>3, <2>1, JoinedPrefix
  <2>3. Abstract!Pop(old, new, r)
    BY <1>1, <2>2 DEF Abstract!Pop, Abstract!Live, Abstract!Same
  <2> QED BY <1>1, <1>3, <2>3, IsOperation DEF old, new
<1> QED BY <1>2, <1>3

LEMMA ConcatMoves ==
  ASSUME NEW g, Good(g), NEW r \in Open(g), NEW r2 \in Open(g), r # r2,
         NEW k, Merged(g, k, r, r2)
  PROVE  Moves(g, k)
<1> DEFINE old == Shows(g)
           new == Shows(k)
<1>1. /\ Good(k) /\ Open(k) = Open(g) \ {r2}
      /\ \A s \in Open(g) \ {r, r2} : Text(k, s) = Text(g, s)
      /\ Text(k, r) = Text(g, r) \o Text(g, r2)
  BY DEF Merged, Joined
<1>2. old[r] = Text(g, r) /\ old[r2] = Text(g, r2) /\ old[r] # Gone /\ old[r2] # Gone
      /\ r \in Ropes /\ r2 \in Ropes
  BY ShowsFacts
<1>3. new[r] = Text(k, r) /\ new[r2] = Gone BY <1>1, <1>2, ShowsFacts
<1>4. \A s \in Ropes \ {r, r2} : new[s] = old[s] BY <1>1 DEF Shows
<1> HIDE DEF old, new
<1>5. Abstract!Concat(old, new, r, r2)
  BY <1>1, <1>2, <1>3, <1>4 DEF Abstract!Concat, Abstract!Live, Abstract!Same
<1>6. new # old BY <1>2, <1>3
<1>7. Abstract!Operation(old, new) BY <1>2, <1>5, <1>6 DEF Abstract!Operation
<1> QED BY <1>7 DEF Moves, old, new

-----------------------------------------------------------------------------
(* The invariant                                                           *)

RopeInv == Good(h) /\ prep \subseteq Open(h)

(* What every step keeps, and how the arrays move.                         *)
Step == Good(h') /\ prep' \subseteq Open(h') /\ Moves(h, h')

LEMMA InitGood == Good(InitHeap) /\ Open(InitHeap) = {}
<1> DEFINE g == InitHeap
<1>1. /\ g.live = {} /\ g.nelems = [x \in Hdrs |-> 0] /\ g.parent = [x \in Hdrs |-> Null]
      /\ g.left = [n \in Inner |-> Null] /\ g.right = [n \in Inner |-> Null]
      /\ g.depth = [n \in Inner |-> 0] /\ g.data = [l \in Leaves |-> <<>>]
      /\ g.root = [r \in Ropes |-> Null] /\ g.tail = [r \in Ropes |-> Null]
  BY DEF InitHeap
<1>2. g = [live |-> g.live, nelems |-> g.nelems, parent |-> g.parent, left |-> g.left,
           right |-> g.right, depth |-> g.depth, data |-> g.data, root |-> g.root,
           tail |-> g.tail]
  BY DEF InitHeap
<1> HIDE DEF g
<1>3. /\ g.live \subseteq Hdrs /\ g.nelems \in [Hdrs -> Nat]
      /\ g.parent \in [Hdrs -> Inner \union {Null}]
      /\ g.left \in [Inner -> Hdrs \union {Null}] /\ g.right \in [Inner -> Hdrs \union {Null}]
      /\ g.depth \in [Inner -> Nat] /\ g.data \in [Leaves -> Seq(Vals)]
      /\ g.root \in [Ropes -> Hdrs \union {Null}] /\ g.tail \in [Ropes -> Leaves \union {Null}]
  BY <1>1
<1>4. g \in Heaps BY <1>2, <1>3, HeapRecord
<1>5. Open(g) = {} BY <1>1 DEF Open
<1>6. Roots(g) = {} BY <1>5 DEF Roots
<1>7. Trees(g, {}) BY <1>1 DEF Trees, Nodes
<1>8. Sizes(g) /\ Depths(g) BY <1>1 DEF Sizes, Depths, Nodes, LiveLeaves
<1>9. Good(g) BY <1>4, <1>5, <1>6, <1>7, <1>8 DEF Good, Sound, Tops
<1> QED BY <1>5, <1>9 DEF g

LEMMA OnlyRopeChain ==
  ASSUME NEW f, NEW g, NEW k, NEW r, OnlyRope(f, g, r), OnlyRope(g, k, r)
  PROVE  OnlyRope(f, k, r)
BY DEF OnlyRope, Others

(* append_prepare and append_finalize in one.                              *)
LEMMA AppendGood ==
  ASSUME NEW g, Good(g), NEW r \in Open(g), TailFull(g, r) => Leaves \ g.live # {},
         NEW v \in Vals, NEW k, k = Finalize(MakeRoom(g, r), r, <<v>>)
  PROVE  OnlyRope(g, k, r) /\ Joined(Text(k, r), Text(g, r), <<v>>)
<1> DEFINE m == MakeRoom(g, r)
           vs == <<v>>
<1>1. vs \in Seq(Vals) /\ Len(vs) = 1 BY OneSeq
<1>2. k = Finalize(m, r, vs) OBVIOUS
<1>3. m = MakeRoom(g, r) /\ vs = <<v>> OBVIOUS
<1> HIDE DEF m, vs
<1>4. Roomy(g, m, r) BY <1>3, MakeRoomGood
<1>5. OnlyRope(g, m, r) /\ Text(m, r) = Text(g, r) /\ m.nelems[m.tail[r]] < Grain
  BY <1>4 DEF Roomy
<1>6. Good(m) /\ r \in Open(m) BY <1>5 DEF OnlyRope
<1>7. m.nelems[m.tail[r]] + Len(vs) <= Grain
  <2> DEFINE z == m.nelems[m.tail[r]]
  <2>1. m \in Heaps /\ m.tail[r] \in Leaves BY <1>6, GoodFacts
  <2>2. z \in Nat BY <2>1, HeapFacts, HdrFacts
  <2>3. z < Grain BY <1>5
  <2> HIDE DEF z
  <2>4. z + 1 <= Grain BY <2>2, <2>3, GrainAssumption
  <2> QED BY <1>1, <2>4 DEF z
<1>8. OnlyRope(m, k, r) /\ Joined(Text(k, r), Text(m, r), vs)
  BY <1>1, <1>2, <1>6, <1>7, FinalizeGood
<1>9. OnlyRope(g, k, r) BY <1>5, <1>8, OnlyRopeChain
<1> QED BY <1>3, <1>5, <1>8, <1>9

LEMMA CreateStep ==
  ASSUME RopeInv, NEW r \in Ropes, Create(r)
  PROVE  Step
<1>1. /\ Good(h) /\ r \in Ropes \ Open(h) /\ Leaves \ h.live # {} /\ h' = WithLeaf(h, r)
      /\ prep' = prep /\ prep \subseteq Open(h)
  BY DEF RopeInv, Create, LeafLeft, WithLeaf, open, Open
<1> DEFINE k == h'
<1>2. k = WithLeaf(h, r) BY <1>1
<1> HIDE DEF k
<1>3. Created(h, k, r) BY <1>1, <1>2, CreateGood
<1>4. Moves(h, k) BY <1>1, <1>3, CreateMoves
<1>5. Good(k) /\ Open(k) = Open(h) \union {r} BY <1>3 DEF Created
<1> QED BY <1>1, <1>4, <1>5 DEF Step, k

LEMMA AppendStep ==
  ASSUME RopeInv, NEW r \in Ropes, NEW v \in Vals, Append1(r, v)
  PROVE  Step
<1>1. /\ Good(h) /\ r \in Open(h) /\ (TailFull(h, r) => Leaves \ h.live # {})
      /\ h' = Finalize(MakeRoom(h, r), r, <<v>>) /\ prep' = prep /\ prep \subseteq Open(h)
  BY DEF RopeInv, Append1, Idle, LeafLeft, open, Open
<1> DEFINE k == h'
           vs == <<v>>
<1>2. k = Finalize(MakeRoom(h, r), r, <<v>>) BY <1>1
<1> HIDE DEF k
<1>3. OnlyRope(h, k, r) /\ Joined(Text(k, r), Text(h, r), vs) BY <1>1, <1>2, AppendGood
<1>4. vs \in Seq(Vals) OBVIOUS
<1> HIDE DEF vs
<1>5. Moves(h, k) BY <1>1, <1>3, <1>4, ExtendMoves
<1> QED BY <1>1, <1>3, <1>5 DEF Step, OnlyRope, k

LEMMA PrepareStep ==
  ASSUME RopeInv, NEW r \in Ropes, AppendPrepare(r)
  PROVE  Step
<1>1. /\ Good(h) /\ r \in Open(h) /\ (TailFull(h, r) => Leaves \ h.live # {})
      /\ h' = MakeRoom(h, r) /\ prep' = prep \union {r} /\ prep \subseteq Open(h)
  BY DEF RopeInv, AppendPrepare, Idle, LeafLeft, open, Open
<1> DEFINE k == h'
<1>2. k = MakeRoom(h, r) BY <1>1
<1> HIDE DEF k
<1>3. Roomy(h, k, r) BY <1>1, <1>2, MakeRoomGood
<1>4. OnlyRope(h, k, r) /\ Text(k, r) = Text(h, r) BY <1>3 DEF Roomy
<1>5. Moves(h, k) BY <1>1, <1>4, SameMoves
<1> QED BY <1>1, <1>4, <1>5 DEF Step, OnlyRope, k

LEMMA FinalizeStep ==
  ASSUME RopeInv, NEW r \in Ropes, NEW vs \in Buffers, AppendFinalize(r, vs)
  PROVE  Step
<1>1. /\ Good(h) /\ r \in Open(h) /\ h.nelems[h.tail[r]] + Len(vs) <= Grain
      /\ h' = Finalize(h, r, vs) /\ prep' \subseteq Open(h) /\ prep \subseteq Open(h)
  BY DEF RopeInv, AppendFinalize
<1> DEFINE k == h'
<1>2. k = Finalize(h, r, vs) BY <1>1
<1>3. vs \in Seq(Vals) BY GrainAssumption DEF Buffers
<1> HIDE DEF k
<1>4. OnlyRope(h, k, r) /\ Joined(Text(k, r), Text(h, r), vs) BY <1>1, <1>2, <1>3, FinalizeGood
<1>5. Moves(h, k) BY <1>1, <1>3, <1>4, ExtendMoves
<1> QED BY <1>1, <1>4, <1>5 DEF Step, OnlyRope, k

LEMMA PopStays ==
  ASSUME RopeInv, NEW r \in Ropes, NEW j, Pop(r, j)
  PROVE  Step
<1>1. /\ Good(h) /\ r \in Open(h) /\ j \in 1..Size(h, r)
      /\ h' = PopElems(r, j) /\ prep' = prep /\ prep \subseteq Open(h)
  BY DEF RopeInv, Pop, Idle, open, Open
<1> DEFINE k == h'
<1>2. k = PopElems(r, j) BY <1>1
<1>3. j \in Nat /\ j <= Size(h, r)
  <2>1. Text(h, r) \in Seq(Vals) /\ Size(h, r) = Len(Text(h, r)) BY <1>1, GoodFacts
  <2>2. Size(h, r) \in Nat BY <2>1, LenProperties
  <2> QED BY <1>1, <2>2
<1> HIDE DEF k
<1>4. OnlyRope(h, k, r) /\ LongerBy(Text(h, r), Text(k, r), j) BY <1>1, <1>2, <1>3, PopGood
<1>5. Moves(h, k) BY <1>1, <1>4, PopMoves
<1> QED BY <1>1, <1>4, <1>5 DEF Step, OnlyRope, k

LEMMA ConcatStep ==
  ASSUME RopeInv, NEW r \in Ropes, NEW r2 \in Ropes, Concat(r, r2)
  PROVE  Step
<1>1. /\ Good(h) /\ r \in Open(h) /\ r2 \in Open(h) /\ r # r2 /\ r2 \notin prep
      /\ h' = Concatenate(h, r, r2) /\ prep' = prep /\ prep \subseteq Open(h)
  BY DEF RopeInv, Concat, Idle, open, Open
<1> DEFINE k == h'
<1>2. k = Concatenate(h, r, r2) BY <1>1
<1> HIDE DEF k
<1>3. Merged(h, k, r, r2) BY <1>1, <1>2, ConcatenateGood
<1>4. Moves(h, k) BY <1>1, <1>3, ConcatMoves
<1>5. Good(k) /\ Open(k) = Open(h) \ {r2} BY <1>3 DEF Merged
<1> QED BY <1>1, <1>4, <1>5 DEF Step, k

LEMMA RebalanceStep ==
  ASSUME RopeInv, NEW r \in Ropes, RebalanceArray(r)
  PROVE  Step
<1>1. /\ Good(h) /\ r \in Open(h) /\ h' = Rebalance(h, r) /\ prep' = prep /\ prep \subseteq Open(h)
  BY DEF RopeInv, RebalanceArray, Idle, open, Open
<1> DEFINE k == h'
<1>2. k = Rebalance(h, r) BY <1>1
<1> HIDE DEF k
<1>3. Rebalanced(h, k, r) BY <1>1, <1>2, RebalanceGood
<1>4. OnlyRope(h, k, r) /\ Text(k, r) = Text(h, r) BY <1>3 DEF Rebalanced
<1>5. Moves(h, k) BY <1>1, <1>4, SameMoves
<1> QED BY <1>1, <1>4, <1>5 DEF Step, OnlyRope, k

LEMMA NextStep == RopeInv /\ [Next]_vars => Step
<1> SUFFICES ASSUME RopeInv, [Next]_vars PROVE Step OBVIOUS
<1>1. CASE UNCHANGED vars BY <1>1 DEF vars, RopeInv, Step, Moves
<1>2. ASSUME NEW r \in Ropes,
             \/ Create(r)
             \/ \E v \in Vals : Append1(r, v)
             \/ AppendPrepare(r)
             \/ \E vs \in Buffers : AppendFinalize(r, vs)
             \/ \E k \in 1..(Cardinality(Leaves) * Grain) : r \in open /\ Pop(r, k)
             \/ \E r2 \in Ropes : Concat(r, r2)
             \/ RebalanceArray(r)
      PROVE  Step
  BY <1>2, CreateStep, AppendStep, PrepareStep, FinalizeStep, PopStays, ConcatStep, RebalanceStep
<1> QED BY <1>1, <1>2 DEF Next

LEMMA RopeInvHolds == Spec => []RopeInv
<1>1. Init => RopeInv BY InitGood DEF Init, RopeInv
<1>2. RopeInv /\ [Next]_vars => RopeInv' BY NextStep DEF RopeInv, Step
<1> QED BY <1>1, <1>2, PTL DEF Spec
-----------------------------------------------------------------------------
(* The theorems                                                            *)
LEMMA TreesSound ==
  ASSUME RopeInv
  PROVE  TreesAreSound
<1>1. Good(h) /\ open = Open(h) /\ prep \subseteq Open(h) BY DEF RopeInv, open, Open
<1>2. h \in Heaps /\ Trees(h, Roots(h)) /\ Sizes(h) /\ Depths(h) BY <1>1, GoodFacts
<1>3. TypeOK BY <1>1, <1>2, HeapFacts DEF TypeOK
<1>4. ASSUME NEW r \in open
      PROVE  /\ h.parent[h.root[r]] = Null /\ h.tail[r] = Last(LeavesUnder(h, h.root[r]))
             /\ \A l \in ToSet(LeavesUnder(h, h.root[r])) :
                  h.nelems[l] = Len(h.data[l]) /\ h.nelems[l] <= Grain
             /\ \A n \in InnerUnder(h, h.root[r]) :
                  /\ h.parent[h.left[n]] = n /\ h.parent[h.right[n]] = n
                  /\ h.nelems[n] = h.nelems[h.left[n]] + h.nelems[h.right[n]]
                  /\ h.depth[n] = 1 + Max({Depth(h, h.left[n]), Depth(h, h.right[n])})
  <2> DEFINE x == h.root[r]
  <2>1. x \in h.live /\ h.parent[x] = Null /\ h.tail[r] = Last(LeavesUnder(h, x))
    BY <1>1, <1>4, GoodFacts
  <2> HIDE DEF x
  <2>2. ASSUME NEW l \in ToSet(LeavesUnder(h, x))
        PROVE  h.nelems[l] = Len(h.data[l]) /\ h.nelems[l] <= Grain
    <3>1. l \in LiveLeaves(h) BY <1>2, <2>1, <2>2, AllRules
    <3> QED BY <1>2, <3>1 DEF Sizes
  <2>3. ASSUME NEW n \in InnerUnder(h, x)
        PROVE  /\ h.parent[h.left[n]] = n /\ h.parent[h.right[n]] = n
               /\ h.nelems[n] = h.nelems[h.left[n]] + h.nelems[h.right[n]]
               /\ h.depth[n] = 1 + Max({Depth(h, h.left[n]), Depth(h, h.right[n])})
    <3>1. n \in Nodes(h) BY <1>2, <2>1, <2>3, InnerRules
    <3>2. h.parent[h.left[n]] = n /\ h.parent[h.right[n]] = n BY <1>2, <3>1, NodeFacts
    <3> QED BY <1>2, <3>1, <3>2 DEF Sizes, Depths, DepthIs
  <2> QED BY <2>1, <2>2, <2>3 DEF x
<1> QED BY <1>3, <1>4 DEF TreesAreSound

(* However ropes grow, shrink, are concatenated and rebalanced, what       *)
(* rpa_verify checks (rope_array.c:554) holds at every node of every rope, *)
(* the links between nodes agree, and rpa->tail is the last leaf.          *)
THEOREM RopesStaySound == Spec => []TreesAreSound
<1>1. RopeInv => TreesAreSound BY TreesSound
<1> QED BY <1>1, RopeInvHolds, PTL

LEMMA HdrsOwned ==
  ASSUME RopeInv
  PROVE  HdrsOwnedOnce
<1>1. Good(h) /\ open = Open(h) BY DEF RopeInv, open, Open
<1>2. h \in Heaps /\ Trees(h, Roots(h)) BY <1>1, GoodFacts
<1>3. \A r \in open : Owned(r) = All(h, h.root[r]) /\ h.root[r] \in Roots(h) /\ h.root[r] \in h.live
  BY <1>1, GoodFacts DEF Owned, All
<1>4. ASSUME NEW y \in h.live PROVE \E r \in open : y \in Owned(r)
  <2>1. PICK x \in Roots(h) : y \in All(h, x) BY <1>2, Covered
  <2>2. PICK r \in Open(h) : x = h.root[r] BY <2>1 DEF Roots
  <2> QED BY <1>1, <1>3, <2>1, <2>2
<1>5. \A r \in open : Owned(r) \subseteq h.live BY <1>2, <1>3, AllRules
<1>6. ASSUME NEW r \in open, NEW s \in open, r # s PROVE Owned(r) \intersect Owned(s) = {}
  <2>1. h.root[r] # h.root[s] BY <1>1, <1>6 DEF Good
  <2> QED BY <1>2, <1>3, <2>1, Apart
<1>7. h.live = UNION {Owned(r) : r \in open}
  <2>1. \A y \in UNION {Owned(r) : r \in open} : y \in h.live BY <1>5
  <2>2. \A y \in h.live : y \in UNION {Owned(r) : r \in open} BY <1>4
  <2> QED BY <2>1, <2>2
<1> QED BY <1>6, <1>7 DEF HdrsOwnedOnce

(* Concatenation hands the nodes of the second rope to the first           *)
(* (rope_array.c:591), popping frees a leaf with its parent                *)
(* (rope_array.c:370), and rebalancing frees all nodes of a rope and takes *)
(* new ones (rope_array.c:428): none leaks, has two owners or is used      *)
(* after it was freed.                                                     *)
THEOREM NodesHaveOneRope == Spec => []HdrsOwnedOnce
<1>1. RopeInv => HdrsOwnedOnce BY HdrsOwned
<1> QED BY <1>1, RopeInvHolds, PTL

LEMMA ReadsElement ==
  ASSUME RopeInv
  PROVE  GetReadsElement
<1>1. Good(h) /\ open = Open(h) BY DEF RopeInv, open, Open
<1>2. h \in Heaps /\ Trees(h, Roots(h)) /\ Sizes(h) BY <1>1, GoodFacts
<1>3. ASSUME NEW r \in open, NEW idx \in 0..(Size(h, r) - 1), NEW f, f = GetLeaf(h, h.root[r], idx)
      PROVE  f.off < h.nelems[f.hdr] /\ h.data[f.hdr][f.off + 1] = Contents(r)[idx + 1]
  <2> DEFINE x == h.root[r]
  <2>1. x \in h.live /\ Size(h, r) = h.nelems[x] /\ h.nelems[x] \in Nat
    BY <1>1, <1>2, <1>3, GoodFacts, HeapFacts DEF Size
  <2>2. Contents(r) = Elems(h, x) BY DEF Contents, Elems, Data
  <2>3. f = GetHdrRange(h, x, idx, 1) BY <1>3 DEF GetLeaf
  <2> HIDE DEF x
  <2>4. idx \in Nat /\ idx + 1 <= h.nelems[x] BY <1>3, <2>1
  <2>5. 1 \in Nat \ {0} OBVIOUS
  <2>6. Finds(h, x, idx, 1, f) BY <1>2, <2>1, <2>3, <2>4, <2>5, RangeFound
  <2> DEFINE l == f.hdr
             o == f.off
             m == h.nelems[l]
  <2>7. l \in h.live /\ o \in Nat /\ o + 1 <= m BY <2>6 DEF Finds
  <2>8. m \in Nat BY <1>2, <2>7, HeapFacts
  <2>9. l \in LiveLeaves(h)
    <3> SUFFICES ASSUME l \in Nodes(h) PROVE FALSE BY <1>2, <2>7, LeafOrNode
    <3> DEFINE left == h.nelems[h.left[l]]
    <3>1. o < left /\ o + 1 > left BY <2>6 DEF Finds
    <3>2. left \in Nat BY <1>2, NodeFacts, HeapFacts
    <3> HIDE DEF left, o
    <3> QED BY <2>7, <3>1, <3>2
  <2>10. Elems(h, l) = h.data[l] BY <1>2, <2>9, LeavesRules, DataRules DEF Elems, LiveLeaves
  <2>11. Elems(h, l)[o + 1] = Elems(h, x)[idx + 1] BY <2>6 DEF Finds
  <2> HIDE DEF l, o, m
  <2>12. o < m BY <2>7, <2>8
  <2> QED BY <2>2, <2>10, <2>11, <2>12 DEF l, o, m
<1> QED BY <1>3 DEF GetReadsElement

(* xarray_get (xarray_rpa.h:59): the descent of rpa_getleaf by the lengths *)
(* of left children (rope_array.c:212) ends in a leaf, within it, at the   *)
(* element with that index, whatever mix of operations built the tree.     *)
THEOREM SearchFindsElement == Spec => []GetReadsElement
<1>1. RopeInv => GetReadsElement BY ReadsElement
<1> QED BY <1>1, RopeInvHolds, PTL

LEMMA ShownIs ==
  /\ Shows(h) = [r \in Ropes |-> IF r \in open THEN Contents(r) ELSE Gone]
  /\ Shows(h') = [r \in Ropes |-> IF r \in open THEN Contents(r) ELSE Gone]'
BY DEF Shows, Open, open, Text, Elems, Data, Contents

(* Ropes promise what skip-list arrays do: a program sees sequences that   *)
(* xarray_append, xarray_pop and xarray_concat change at their ends, only  *)
(* those of the arrays they are given; and it does not see                 *)
(* xarray_rebalance (xarray_rpa.h), nor the tail that append_prepare may   *)
(* hang into the tree before there is an element for it.                   *)
THEOREM RopesAreSequences == Spec => ImplementsArrays
<1>1. Init => RopeInv BY InitGood DEF Init, RopeInv
<1>2. Init => Abstract!Init
  <2> SUFFICES ASSUME Init PROVE Abstract!Init OBVIOUS
  <2>1. Shows(h) = [r \in Ropes |-> Gone] BY InitGood DEF Init, Shows
  <2> QED BY <2>1, ShownIs DEF Abstract!Init
<1>3. RopeInv /\ [Next]_vars => RopeInv' BY NextStep DEF RopeInv, Step
<1>4. RopeInv /\ [Next]_vars =>
        [Abstract!Next]_([r \in Ropes |-> IF r \in open THEN Contents(r) ELSE Gone])
  <2> SUFFICES ASSUME RopeInv, [Next]_vars
               PROVE  [Abstract!Next]_([r \in Ropes |-> IF r \in open THEN Contents(r) ELSE Gone])
    OBVIOUS
  <2>1. Abstract!Operation(Shows(h), Shows(h')) \/ Shows(h') = Shows(h)
    BY NextStep DEF Step, Moves
  <2> QED BY <2>1, ShownIs DEF Abstract!Next
<1> QED BY <1>1, <1>2, <1>3, <1>4, PTL DEF Spec, ImplementsArrays, Abstract!Spec

(* The trees of a forest, from the last slot to the first, are over the    *)
(* leaves from the first one on.                                           *)
LEMMA PiecesInOrder ==
  ASSUME NEW s \in Seq(Leaves), NEW c, Cuts(s, c),
         NEW u, \A i \in Slots : u[i] = Part(s, c[i + 1], c[i])
  PROVE  FlattenSeq([j \in 1..(LastSlot + 1) |-> u[LastSlot + 1 - j]]) = Part(s, 0, c[0])
<1> DEFINE L == LastSlot
           ss(m) == [j \in 1..m |-> u[L + 1 - j]]
           T == {m \in Nat : m <= L + 1 => /\ ss(m) \in Seq(Seq(Leaves))
                                           /\ FlattenSeq(ss(m)) = Part(s, 0, c[L + 1 - m])}
<1>1. L \in Nat /\ Slots = 0..L /\ c[L + 1] = 0 /\ Len(s) \in Nat BY FibFacts, LenProperties DEF Cuts
<1>2. \A i \in Slots : /\ c[i] \in Nat /\ c[i + 1] \in Nat /\ c[i + 1] <= c[i] /\ c[i] <= Len(s)
                       /\ u[i] \in Seq(Leaves)
  <2> TAKE i \in Slots
  <2>1. /\ c[i] \in Nat /\ c[i + 1] \in Nat /\ c[i + 1] <= c[i] /\ Bounds(s, c[i + 1], c[i])
    BY CutBounds
  <2>2. Part(s, c[i + 1], c[i]) \in Seq(Leaves) BY <2>1, PartOf DEF Between
  <2> QED BY <2>1, <2>2 DEF Bounds
<1>3. 0 \in T
  <2>1. ss(0) = <<>> OBVIOUS
  <2>2. <<>> \in Seq(Seq(Leaves)) /\ FlattenSeq(<<>>) = <<>> BY FlattenRules
  <2>3. Part(s, 0, 0) = <<>>
    <3>1. Bounds(s, 0, 0) BY <1>1 DEF Bounds
    <3> QED BY <3>1, PartOf
  <2>4. L + 1 - 0 = L + 1 BY <1>1
  <2> HIDE DEF ss
  <2> QED BY <1>1, <2>1, <2>2, <2>3, <2>4
<1>4. ASSUME NEW m \in Nat, m \in T PROVE m + 1 \in T
  <2> SUFFICES ASSUME m + 1 <= L + 1
               PROVE  /\ ss(m + 1) \in Seq(Seq(Leaves))
                      /\ FlattenSeq(ss(m + 1)) = Part(s, 0, c[L + 1 - (m + 1)])
    OBVIOUS
  <2> DEFINE i == L - m
             v == u[i]
  <2>1. m <= L + 1 /\ i \in Slots /\ i + 1 = L + 1 - m /\ i = L + 1 - (m + 1) BY <1>1
  <2>2. ss(m) \in Seq(Seq(Leaves)) /\ FlattenSeq(ss(m)) = Part(s, 0, c[i + 1]) BY <1>4, <2>1
  <2>3. v \in Seq(Leaves) BY <1>2, <2>1
  <2>4. ss(m + 1) = ss(m) \o <<v>>
    <3>1. DOMAIN ss(m) = 1..m /\ Len(ss(m)) = m BY <2>2
    <3>2. \A j \in 1..m : ss(m + 1)[j] = ss(m)[j] OBVIOUS
    <3>3. ss(m + 1)[m + 1] = v BY <2>1
    <3>4. ss(m + 1) = [j \in 1..(m + 1) |-> ss(m + 1)[j]] OBVIOUS
    <3> HIDE DEF ss, v
    <3>5. ss(m) \o <<v>> = [j \in 1..(m + 1) |-> (ss(m) \o <<v>>)[j]] BY <2>2, <2>3, <3>1
    <3>6. ASSUME NEW j \in 1..(m + 1) PROVE (ss(m) \o <<v>>)[j] = ss(m + 1)[j]
      <4>1. CASE j = m + 1 BY <2>2, <2>3, <3>1, <3>3, <4>1
      <4>2. CASE j \in 1..m BY <2>2, <2>3, <3>1, <3>2, <4>2
      <4>3. j = m + 1 \/ j \in 1..m BY <1>4, <3>6
      <4> QED BY <4>1, <4>2, <4>3
    <3> QED BY <3>4, <3>5, <3>6
  <2> HIDE DEF ss, v
  <2>5. ss(m) \o <<v>> \in Seq(Seq(Leaves)) BY <2>2, <2>3
  <2>6. FlattenSeq(ss(m) \o <<v>>) = FlattenSeq(ss(m)) \o v BY <2>2, <2>3, FlattenRules
  <2>7. Part(s, 0, c[i + 1]) \o Part(s, c[i + 1], c[i]) = Part(s, 0, c[i])
    <3> DEFINE mid == c[i + 1]
               e == c[i]
    <3>1. mid \in Nat /\ e \in Nat /\ 0 <= mid /\ mid <= e /\ e <= Len(s) BY <1>2, <2>1
    <3> HIDE DEF mid, e
    <3>2. Part(s, 0, mid) \o Part(s, mid, e) = Part(s, 0, e) BY <3>1, PartJoin
    <3> QED BY <3>2 DEF mid, e
  <2>8. v = Part(s, c[i + 1], c[i]) BY <2>1 DEF v
  <2> QED BY <2>1, <2>2, <2>4, <2>5, <2>6, <2>7, <2>8
<1>5. L + 1 \in T
  <2> HIDE DEF T
  <2>1. Nat \subseteq T BY <1>3, <1>4, NatSets
  <2> QED BY <1>1, <2>1
<1>6. L + 1 - (L + 1) = 0 /\ L + 1 <= L + 1 BY <1>1
<1>7. FlattenSeq(ss(L + 1)) = Part(s, 0, c[L + 1 - (L + 1)])
  <2> HIDE DEF ss
  <2> QED BY <1>1, <1>5, <1>6
<1> QED BY <1>6, <1>7

(* The ropes of forest F have the lengths of their slots and are together  *)
(* the leaves v.                                                           *)
UnderSlot(F, i) == IF F.forest[i] = Null THEN <<>> ELSE LeavesUnder(F.h, F.forest[i])
InOrder(F, v) ==
  /\ \A i \in Slots : F.forest[i] # Null =>
       F.h.nelems[F.forest[i]] \in rpa_fib[i]..(rpa_fib[i + 1] - 1)
  /\ FlattenSeq([j \in 1..(LastSlot + 1) |-> UnderSlot(F, LastSlot + 1 - j)]) = v

LEMMA ForestInOrder ==
  ASSUME NEW g, Good(g), NEW r \in Open(g), NEW x, x = g.root[r], NEW s, s = LeavesUnder(g, x),
         Full(g, s), NEW k \in 1..Len(s), NEW v, v = Part(s, 0, k),
         NEW F, F = Forest(Bare(g, r), v)
  PROVE  InOrder(F, v)
<1> DEFINE O == Roots(g) \ {g.root[r]}
           w == Weight(g, s)
<1>1. OtherRoots(g, r, O) BY DEF OtherRoots
<1> HIDE DEF O
<1>2. Scene(g, O, s) /\ \E R : Based(g, O, s, Bare(g, r), R) BY <1>1, BareFacts
<1>3. PICK R : Based(g, O, s, Bare(g, r), R) BY <1>2
<1>4. s \in Seq(Leaves) /\ Len(s) \in Nat /\ k \in 0..Len(s) BY <1>2, LenProperties DEF Scene
<1>5. Forested(g, O, s, k, F)
  <2> DEFINE f == Bare(g, r)
  <2>1. Based(g, O, s, f, R) /\ F = Forest(f, v) BY <1>3
  <2> HIDE DEF f
  <2> QED BY <1>2, <1>4, <2>1, ForestFacts
<1>6. PICK c : ForestedWith(g, O, s, k, F, c) BY <1>5 DEF Forested
<1>7. /\ Cuts(s, c) /\ c[0] = k /\ Ordered(w, c)
      /\ Gathering(g, O, s, c, F.forest, -1, k, [h |-> F.h, top |-> Null])
  BY <1>6 DEF ForestedWith
<1> HIDE DEF w
<1>8. PICK Q : GatheringWith(g, O, s, c, F.forest, -1, k, [h |-> F.h, top |-> Null], Q)
  BY <1>7 DEF Gathering
<1>9. LastSlot \in Nat /\ Slots = 0..LastSlot /\ \A i \in 0..(LastSlot + 1) : rpa_fib[i] \in Nat
  BY FibFacts
<1>10. /\ Stands(g, O, s, F.h, Q)
       /\ \A i \in Slots : Piece(O, s, F.h, Q, c[i + 1], c[i], F.forest[i])
  BY <1>8, <1>9 DEF GatheringWith
<1>11. \A i \in Slots : Bounds(s, c[i + 1], c[i]) BY <1>4, <1>7, CutBounds
<1>12. ASSUME NEW i \in Slots, F.forest[i] # Null
       PROVE  F.h.nelems[F.forest[i]] \in rpa_fib[i]..(rpa_fib[i + 1] - 1)
  <2> DEFINE y == F.forest[i]
             a == c[i + 1]
             e == c[i]
             z == w[e] - w[a]
             lo == rpa_fib[i]
             hi == rpa_fib[i + 1]
  <2>1. Bounds(s, a, e) /\ Piece(O, s, F.h, Q, a, e, y) /\ y # Null BY <1>10, <1>11, <1>12
  <2>2. a < e BY <2>1 DEF Piece
  <2>3. lo <= z /\ z < hi BY <1>7, <2>2 DEF Ordered
  <2> HIDE DEF a, e, y
  <2>4. /\ TreeSize(F.h, y) = w[e] - w[a] /\ w[a] <= w[e] /\ w[a] \in Nat /\ w[e] \in Nat
    BY <1>2, <1>10, <2>1, PieceWeight DEF w
  <2>5. F.h.nelems[y] = z BY <2>1, <2>4 DEF TreeSize
  <2>6. z \in Nat BY <2>4
  <2>7. lo \in Nat /\ hi \in Nat
    <3>1. i \in 0..(LastSlot + 1) /\ i + 1 \in 0..(LastSlot + 1) BY <1>9
    <3> QED BY <1>9, <3>1
  <2> HIDE DEF z, lo, hi
  <2>8. z \in lo..(hi - 1) BY <2>3, <2>6, <2>7
  <2> QED BY <2>5, <2>8 DEF y, lo, hi
<1> DEFINE u == [i \in Slots |-> UnderSlot(F, i)]
<1>13. \A i \in Slots : u[i] = Part(s, c[i + 1], c[i])
  <2> TAKE i \in Slots
  <2> DEFINE a == c[i + 1]
             e == c[i]
  <2>1. Bounds(s, a, e) /\ Piece(O, s, F.h, Q, a, e, F.forest[i]) BY <1>10, <1>11
  <2> HIDE DEF a, e
  <2>2. a = e => Part(s, a, e) = <<>> BY <1>4, <2>1, PartOf
  <2>3. UnderSlot(F, i) = Part(s, a, e)
    <3>1. CASE F.forest[i] = Null
      <4>1. a = e
        <5> SUFFICES ASSUME F.forest[i] \in Q \ O, F.forest[i] # Null PROVE FALSE
          BY <2>1 DEF Piece
        <5> QED BY <3>1
      <4> QED BY <2>2, <3>1, <4>1 DEF UnderSlot
    <3>2. CASE F.forest[i] # Null BY <2>1, <3>2 DEF Piece, UnderSlot
    <3> QED BY <3>1, <3>2
  <2> QED BY <2>3 DEF a, e
<1>14. \A j \in 1..(LastSlot + 1) : UnderSlot(F, LastSlot + 1 - j) = u[LastSlot + 1 - j]
  BY <1>9
<1> HIDE DEF u
<1>15. FlattenSeq([j \in 1..(LastSlot + 1) |-> u[LastSlot + 1 - j]]) = Part(s, 0, c[0])
  BY <1>4, <1>7, <1>13, PiecesInOrder
<1>16. [j \in 1..(LastSlot + 1) |-> UnderSlot(F, LastSlot + 1 - j)]
         = [j \in 1..(LastSlot + 1) |-> u[LastSlot + 1 - j]]
  BY <1>14
<1>17. FlattenSeq([j \in 1..(LastSlot + 1) |-> UnderSlot(F, LastSlot + 1 - j)]) = v
  BY <1>7, <1>15, <1>16
<1> QED BY <1>12, <1>17 DEF InOrder

LEMMA ForestsInOrder ==
  ASSUME RopeInv
  PROVE  ForestIsOrdered
<1>1. Good(h) /\ open = Open(h) BY DEF RopeInv, open, Open
<1>2. h \in Heaps /\ Trees(h, Roots(h)) /\ Sizes(h) BY <1>1, GoodFacts
<1>3. Max(Slots) = LastSlot
  <2>1. LastSlot \in Slots /\ \A i \in Slots : LastSlot >= i BY FibFacts
  <2>2. \A i \in Slots : i >= LastSlot => i = LastSlot BY FibFacts
  <2> QED BY <2>1, <2>2 DEF Max
<1>4. ASSUME NEW r \in open, NoEmptyLeaf(r), NEW s, s = LeavesUnder(h, h.root[r]),
             NEW k \in DOMAIN s
      PROVE  InOrder(Forest(Bare(h, r), SubSeq(s, 1, k)), SubSeq(s, 1, k))
  <2> DEFINE x == h.root[r]
  <2>1. x \in h.live BY <1>1, <1>4, GoodFacts
  <2>2. s = LeavesUnder(h, x) BY <1>4
  <2> HIDE DEF x
  <2>3. s \in Seq(LiveLeaves(h)) BY <1>2, <2>1, <2>2, LeavesRules
  <2>4. k \in 1..Len(s) BY <1>4, <2>3
  <2>5. ASSUME NEW i \in 1..Len(s) PROVE Len(h.data[s[i]]) # 0
    <3>1. s[i] \in LiveLeaves(h) /\ s[i] \in ToSet(s) BY <2>3 DEF ToSet
    <3>2. h.nelems[s[i]] > 0 BY <1>4, <3>1 DEF NoEmptyLeaf
    <3>3. h.nelems[s[i]] = Len(h.data[s[i]]) BY <1>2, <3>1 DEF Sizes
    <3> QED BY <3>2, <3>3
  <2>6. Full(h, s) BY <2>5 DEF Full
  <2> DEFINE v == SubSeq(s, 1, k)
             F == Forest(Bare(h, r), v)
  <2>7. v = Part(s, 0, k) BY DEF Part
  <2>8. F = Forest(Bare(h, r), v) OBVIOUS
  <2> HIDE DEF v, F
  <2>9. r \in Open(h) /\ x = h.root[r] BY <1>1, <1>4 DEF x
  <2>10. InOrder(F, v) BY <1>1, <2>2, <2>4, <2>6, <2>7, <2>8, <2>9, ForestInOrder
  <2> QED BY <2>10 DEF F, v
<1>5. \A r \in open : NoEmptyLeaf(r) =>
         \A k \in DOMAIN LeavesUnder(h, h.root[r]) :
           InOrder(Forest(Bare(h, r), SubSeq(LeavesUnder(h, h.root[r]), 1, k)),
                   SubSeq(LeavesUnder(h, h.root[r]), 1, k))
  BY <1>4
<1> QED BY <1>3, <1>5 DEF ForestIsOrdered, InOrder, UnderSlot

(* While rpa_rebalance adds the leaves of a rope without empty ones to its *)
(* forest, the comment at rope_array.c:406 holds: the rope in a slot has a *)
(* length of the slot's Fibonacci interval, and the ropes from the last    *)
(* slot to the first are the leaves so far in their order.  Of how deep    *)
(* the ropes in the slots are it says nothing.                             *)
THEOREM RebalancingKeepsOrder == Spec => []ForestIsOrdered
<1>1. RopeInv => ForestIsOrdered BY ForestsInOrder
<1> QED BY <1>1, RopeInvHolds, PTL
=============================================================================
