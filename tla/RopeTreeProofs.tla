--------------------------- MODULE RopeTreeProofs ---------------------------
(***************************************************************************)
(* Facts about the trees of Rope, for any number of leaves and nodes: what *)
(* is under a node, how the operators of rope_array.c that allocate,       *)
(* concatenate, grow and shrink change it, and induction over trees.       *)
(* RopeProofs proves the theorems with them.                               *)
(***************************************************************************)
EXTENDS XArrayRpa, FiniteSetTheorems, SequenceTheorems, WellFoundedInduction, TLAPS

-----------------------------------------------------------------------------
(* Induction and recursion                                                 *)

(* Induction, for sets of naturals.                                        *)
LEMMA NatSets ==
  ASSUME NEW T, 0 \in T, \A k \in Nat : k \in T => k + 1 \in T
  PROVE  Nat \subseteq T
<1> DEFINE Rel == OpToRel(<, Nat)
           N == Nat \ T
<1> SUFFICES ASSUME N # {} PROVE FALSE OBVIOUS
<1>1. IsWellFoundedOn(Rel, Nat) BY NatLessThanWellFounded
<1>2. N \subseteq Nat OBVIOUS
<1> HIDE DEF Rel, N
<1>3. PICK m \in N : \A k \in N : ~ (<<k, m>> \in Rel) BY <1>1, <1>2, WFMin
<1> USE DEF N
<1>4. m \in Nat /\ m # 0 OBVIOUS
<1>5. m - 1 \in Nat /\ m - 1 < m BY <1>4
<1>6. <<m - 1, m>> \in Rel BY <1>4, <1>5 DEF Rel, OpToRel
<1>7. m - 1 \in T BY <1>3, <1>5, <1>6
<1>8. (m - 1) + 1 \in T BY <1>5, <1>7
<1> QED BY <1>4, <1>8

(* Induction over the rank of the elements of a set.                       *)
LEMMA RankSets ==
  ASSUME NEW D, NEW rank, \A x \in D : rank[x] \in Nat, NEW T,
         \A x \in D : (\A y \in D : rank[y] < rank[x] => y \in T) => x \in T
  PROVE  D \subseteq T
<1> DEFINE N == {k \in Nat : \A x \in D : rank[x] < k => x \in T}
<1>1. 0 \in N OBVIOUS
<1>2. ASSUME NEW k \in Nat, k \in N PROVE k + 1 \in N
  <2> SUFFICES ASSUME NEW x \in D, rank[x] < k + 1 PROVE x \in T OBVIOUS
  <2>1. \A y \in D : rank[y] < rank[x] => y \in T BY <1>2
  <2> QED BY <2>1
<1> HIDE DEF N
<1>3. Nat \subseteq N BY <1>1, <1>2, NatSets
<1>4. ASSUME NEW x \in D PROVE x \in T
  <2>1. rank[x] + 1 \in N /\ rank[x] < rank[x] + 1 BY <1>3
  <2> QED BY <2>1 DEF N
<1> QED BY <1>4

(* A function on the elements of a set of bounded rank is given by what G  *)
(* makes of its values at the elements below.                              *)
Below(D, rank, x) == {y \in D : rank[y] < rank[x]}
Under(D, rank, x, f) == [y \in Below(D, rank, x) |-> f[y]]

Ranked(D, rank, N) == N \in Nat /\ \A x \in D : rank[x] \in Nat /\ rank[x] < N
Typed(D, rank, V, G) == \A x \in D : \A u \in [Below(D, rank, x) -> V] : G[<<x, u>>] \in V
Solves(D, rank, V, G, f) ==
  f \in [D -> V] /\ \A x \in D : f[x] = G[<<x, Under(D, rank, x, f)>>]

LEMMA Recursion ==
  ASSUME NEW D, NEW rank, NEW N, Ranked(D, rank, N), NEW V, NEW G, Typed(D, rank, V, G)
  PROVE  \E f : Solves(D, rank, V, G, f)
<1> USE DEF Ranked, Typed
<1> DEFINE Dom(k) == {x \in D : rank[x] < k}
           Is(f, k) == \A x \in Dom(k) : f[x] = G[<<x, Under(D, rank, x, f)>>]
           T == {k \in Nat : \E f \in [Dom(k) -> V] : Is(f, k)}
<1>1. 0 \in T
  <2> DEFINE f == [x \in Dom(0) |-> CHOOSE v \in V : TRUE]
  <2>1. Dom(0) = {} OBVIOUS
  <2>2. f \in [Dom(0) -> V] /\ Is(f, 0) BY <2>1
  <2> QED BY <2>2
<1>2. ASSUME NEW k \in Nat, k \in T PROVE k + 1 \in T
  <2>1. PICK f \in [Dom(k) -> V] : Is(f, k) BY <1>2
  <2> DEFINE g == [x \in Dom(k + 1) |-> IF x \in Dom(k) THEN f[x] ELSE G[<<x, Under(D, rank, x, f)>>]]
  <2>2. ASSUME NEW x \in Dom(k + 1)
        PROVE  Below(D, rank, x) \subseteq Dom(k) /\ Under(D, rank, x, f) \in [Below(D, rank, x) -> V]
               /\ Under(D, rank, x, g) = Under(D, rank, x, f)
    <3>1. Below(D, rank, x) \subseteq Dom(k) BY DEF Below
    <3>2. Dom(k) \subseteq Dom(k + 1) OBVIOUS
    <3>3. \A y \in Dom(k) : g[y] = f[y] /\ f[y] \in V BY <3>2
    <3> HIDE DEF g, Dom
    <3> QED BY <3>1, <3>3 DEF Under
  <2>3. \A x \in Dom(k + 1) : g[x] \in V
    <3> SUFFICES ASSUME NEW x \in Dom(k + 1) PROVE g[x] \in V OBVIOUS
    <3>1. G[<<x, Under(D, rank, x, f)>>] \in V BY <2>2
    <3> QED BY <3>1
  <2>4. g \in [Dom(k + 1) -> V] BY <2>3
  <2>5. ASSUME NEW x \in Dom(k + 1) PROVE g[x] = G[<<x, Under(D, rank, x, g)>>]
    <3>1. g[x] = G[<<x, Under(D, rank, x, f)>>] BY <2>1
    <3> QED BY <3>1, <2>2
  <2> HIDE DEF g
  <2>6. Is(g, k + 1) BY <2>5
  <2>7. \E f1 \in [Dom(k + 1) -> V] : Is(f1, k + 1)
    <3> HIDE DEF Is, Dom
    <3> QED BY <2>4, <2>6
  <2> HIDE DEF Is, Dom
  <2> QED BY <2>7
<1> HIDE DEF T
<1>3. Nat \subseteq T BY <1>1, <1>2, NatSets
<1>4. N \in T BY <1>3
<1>5. Dom(N) = D OBVIOUS
<1> QED BY <1>4, <1>5 DEF T, Solves

(* The values of a function on a finite set have a bound.                  *)
LEMMA FiniteBound ==
  ASSUME NEW S, IsFiniteSet(S), NEW f, \A x \in S : f[x] \in Nat
  PROVE  \E N \in Nat : \A x \in S : f[x] < N
<1> DEFINE T == {n \in Nat : \A e : (\A i \in 1..n : e[i] \in S) =>
                     \E N \in Nat : \A i \in 1..n : f[e[i]] < N}
<1>1. 0 \in T OBVIOUS
<1>2. ASSUME NEW n \in Nat, n \in T PROVE n + 1 \in T
  <2> SUFFICES ASSUME NEW e, \A i \in 1..(n + 1) : e[i] \in S
               PROVE  \E N \in Nat : \A i \in 1..(n + 1) : f[e[i]] < N
    OBVIOUS
  <2>1. \A i \in 1..n : e[i] \in S OBVIOUS
  <2>2. PICK N \in Nat : \A i \in 1..n : f[e[i]] < N BY <1>2, <2>1
  <2> DEFINE b == f[e[n + 1]]
             M == N + b + 1
  <2>3. e[n + 1] \in S OBVIOUS
  <2>4. b \in Nat BY <2>3
  <2>5. ASSUME NEW i \in 1..(n + 1) PROVE f[e[i]] < M
    <3>1. CASE i = n + 1 BY <3>1, <2>4
    <3>2. CASE i # n + 1
      <4>1. i \in 1..n BY <3>2
      <4>2. f[e[i]] < N /\ f[e[i]] \in Nat BY <4>1, <2>1, <2>2
      <4> QED BY <4>2, <2>4
    <3> QED BY <3>1, <3>2
  <2>6. M \in Nat BY <2>4
  <2> QED BY <2>5, <2>6
<1> HIDE DEF T
<1>3. Nat \subseteq T BY <1>1, <1>2, NatSets
<1>4. PICK n \in Nat : ExistsBijection(1..n, S) BY FS_CardinalityType
<1>5. PICK e \in Bijection(1..n, S) : TRUE BY <1>4 DEF ExistsBijection
<1>6. (\A i \in 1..n : e[i] \in S) /\ \A x \in S : \E i \in 1..n : e[i] = x
  BY <1>5 DEF Bijection, Injection, Surjection
<1>7. n \in T BY <1>3
<1>8. PICK N \in Nat : \A i \in 1..n : f[e[i]] < N BY <1>6, <1>7 DEF T
<1> QED BY <1>6, <1>8

-----------------------------------------------------------------------------
(* Heaps of trees                                                          *)

Heaps ==
  [live : SUBSET Hdrs, nelems : [Hdrs -> Nat], parent : [Hdrs -> Inner \union {Null}],
   left : [Inner -> Hdrs \union {Null}], right : [Inner -> Hdrs \union {Null}],
   depth : [Inner -> Nat], data : [Leaves -> Seq(Vals)],
   root : [Ropes -> Hdrs \union {Null}], tail : [Ropes -> Leaves \union {Null}]]

Nodes(g) == g.live \intersect Inner
LiveLeaves(g) == g.live \intersect Leaves

(* What is allocated is a set of trees with the roots S: every node has    *)
(* two children that are no roots and less deep, and what is no root is a  *)
(* child of its parent.                                                    *)
Node(g, S, n) ==
  /\ g.left[n] \in g.live \ S /\ g.right[n] \in g.live \ S /\ g.left[n] # g.right[n]
  /\ g.parent[g.left[n]] = n /\ g.parent[g.right[n]] = n
  /\ Depth(g, g.left[n]) < g.depth[n] /\ Depth(g, g.right[n]) < g.depth[n]
Child(g, x) ==
  g.parent[x] \in Nodes(g) /\ (x = g.left[g.parent[x]] \/ x = g.right[g.parent[x]])

Trees(g, S) ==
  /\ S \subseteq g.live
  /\ \A n \in Nodes(g) : Node(g, S, n)
  /\ \A x \in g.live \ S : Child(g, x)

(* Lengths are sums, those of leaves the number of their elements.         *)
Sizes(g) ==
  /\ \A n \in Nodes(g) : g.nelems[n] = g.nelems[g.left[n]] + g.nelems[g.right[n]]
  /\ \A l \in LiveLeaves(g) : g.nelems[l] = Len(g.data[l]) /\ g.nelems[l] <= Grain
  /\ \A l \in Leaves \ g.live : g.data[l] = <<>>

(* Depths are those of the children and one.                               *)
DepthIs(g, n) == g.depth[n] = 1 + Max({Depth(g, g.left[n]), Depth(g, g.right[n])})
Depths(g) == \A n \in Nodes(g) : DepthIs(g, n)

LEMMA HdrFacts ==
  /\ \A x \in Hdrs : x \in Nat /\ x # Null /\ (x \in Inner <=> x \notin Leaves)
  /\ IsFiniteSet(Hdrs)
  /\ Leaves \subseteq Hdrs /\ Inner \subseteq Hdrs
BY HdrsAssumption, FS_Union DEF Hdrs

LEMMA MaxIs ==
  ASSUME NEW a \in Nat, NEW b \in Nat
  PROVE  /\ Max({a, b}) = IF a >= b THEN a ELSE b
         /\ Max({a, b}) \in Nat /\ Max({a, b}) >= a /\ Max({a, b}) >= b
<1> DEFINE m == IF a >= b THEN a ELSE b
           P(x) == x \in {a, b} /\ \A y \in {a, b} : x >= y
<1>1. P(m) OBVIOUS
<1>2. P(CHOOSE x : P(x)) BY <1>1
<1>3. Max({a, b}) = CHOOSE x : P(x) BY DEF Max
<1>4. P(Max({a, b})) BY <1>2, <1>3
<1> QED BY <1>4

LEMMA MinIs ==
  ASSUME NEW S, S \subseteq Nat, S # {}
  PROVE  Min(S) \in S /\ \A x \in S : Min(S) <= x
<1>1. \E m \in S : \A x \in S : m <= x
  <2> DEFINE Rel == OpToRel(<, Nat)
  <2>1. IsWellFoundedOn(Rel, Nat) BY NatLessThanWellFounded
  <2> HIDE DEF Rel
  <2>2. PICK m \in S : \A k \in S : ~ (<<k, m>> \in Rel) BY <2>1, WFMin
  <2> USE DEF Rel
  <2>3. \A k \in S : ~ (k < m) BY <2>2 DEF OpToRel
  <2> QED BY <2>3
<1> DEFINE P(m) == m \in S /\ \A x \in S : m <= x
<1>2. P(CHOOSE m : P(m)) BY <1>1
<1>3. Min(S) = CHOOSE m : P(m) BY DEF Min
<1> QED BY <1>2, <1>3

LEMMA HeapFacts ==
  ASSUME NEW g \in Heaps
  PROVE  /\ g.live \subseteq Hdrs /\ g.nelems \in [Hdrs -> Nat]
         /\ g.parent \in [Hdrs -> Inner \union {Null}]
         /\ g.left \in [Inner -> Hdrs \union {Null}] /\ g.right \in [Inner -> Hdrs \union {Null}]
         /\ g.depth \in [Inner -> Nat] /\ g.data \in [Leaves -> Seq(Vals)]
         /\ g.root \in [Ropes -> Hdrs \union {Null}] /\ g.tail \in [Ropes -> Leaves \union {Null}]
         /\ \A x \in Hdrs : Depth(g, x) \in Nat
         /\ \A x \in g.live : x \in Hdrs /\ x # Null /\ (x \in Nodes(g) <=> x \notin Leaves)
         /\ IsFiniteSet(g.live)
<1>1. g.live \subseteq Hdrs BY DEF Heaps
<1>2. IsFiniteSet(g.live) BY <1>1, HdrFacts, FS_Subset
<1>3. \A x \in Hdrs : Depth(g, x) \in Nat BY HdrFacts DEF Heaps, Depth
<1> QED BY <1>1, <1>2, <1>3, HdrFacts DEF Heaps, Nodes

LEMMA NodeFacts ==
  ASSUME NEW g \in Heaps, NEW S, Trees(g, S), NEW n \in Nodes(g)
  PROVE  /\ n \in g.live /\ n \in Inner /\ n \notin Leaves
         /\ g.left[n] \in g.live /\ g.right[n] \in g.live
         /\ g.left[n] \notin S /\ g.right[n] \notin S
         /\ g.left[n] # g.right[n] /\ g.parent[g.left[n]] = n /\ g.parent[g.right[n]] = n
         /\ Depth(g, g.left[n]) < Depth(g, n) /\ Depth(g, g.right[n]) < Depth(g, n)
BY HeapFacts DEF Trees, Node, Nodes, Depth

LEMMA LeafOrNode ==
  ASSUME NEW g \in Heaps, NEW x \in g.live
  PROVE  (x \in Leaves /\ x \in LiveLeaves(g) /\ x \notin Nodes(g))
         \/ (x \notin Leaves /\ x \in Nodes(g))
BY HeapFacts DEF LiveLeaves, Nodes

(* Induction over a set of trees from the leaves up.                       *)
LEMMA TreeSets ==
  ASSUME NEW g \in Heaps, NEW S, Trees(g, S), NEW T,
         \A l \in LiveLeaves(g) : l \in T,
         \A n \in Nodes(g) : g.left[n] \in T /\ g.right[n] \in T => n \in T
  PROVE  g.live \subseteq T
<1> DEFINE rank == [x \in g.live |-> Depth(g, x)]
<1>1. \A x \in g.live : rank[x] \in Nat BY HeapFacts
<1>2. ASSUME NEW x \in g.live, \A y \in g.live : rank[y] < rank[x] => y \in T
      PROVE  x \in T
  <2>1. CASE x \in LiveLeaves(g) BY <2>1
  <2>2. CASE x \in Nodes(g)
    <3>1. g.left[x] \in T /\ g.right[x] \in T BY <1>2, <2>2, NodeFacts
    <3> QED BY <2>2, <3>1
  <2> QED BY <2>1, <2>2, LeafOrNode
<1> HIDE DEF rank
<1> QED BY <1>1, <1>2, RankSets

(* A function of the trees, from its values at the leaves up.              *)
Folds(g, W, B, F, f) ==
  /\ f \in [g.live -> W]
  /\ \A x \in g.live :
       f[x] = IF x \in Leaves THEN B[x] ELSE F[<<x, f[g.left[x]], f[g.right[x]]>>]

LEMMA TreeFunction ==
  ASSUME NEW g \in Heaps, NEW S, Trees(g, S), NEW W, NEW B, NEW F,
         \A l \in LiveLeaves(g) : B[l] \in W,
         \A n \in Nodes(g) : \A a, b \in W : F[<<n, a, b>>] \in W
  PROVE  \E f : Folds(g, W, B, F, f)
<1> DEFINE X == g.live
           level == [x \in X |-> Depth(g, x)]
           Step(x, f) == IF x \in Leaves THEN B[x] ELSE F[<<x, f[g.left[x]], f[g.right[x]]>>]
           All == UNION {{x} \X [Below(X, level, x) -> W] : x \in X}
           H == [p \in All |-> Step(p[1], p[2])]
<1>1. \A x \in X : level[x] \in Nat BY HeapFacts
<1>2. PICK b \in Nat : \A x \in X : level[x] < b
  <2> HIDE DEF level, X
  <2>1. IsFiniteSet(X) BY HeapFacts DEF X
  <2> QED BY <1>1, <2>1, FiniteBound
<1>3. ASSUME NEW x \in X, NEW f \in [Below(X, level, x) -> W]
      PROVE  H[<<x, f>>] = Step(x, f)
  <2> DEFINE here == {x} \X [Below(X, level, x) -> W]
  <2>2. <<x, f>> \in here OBVIOUS
  <2>3. here \in {{y} \X [Below(X, level, y) -> W] : y \in X} OBVIOUS
  <2> HIDE DEF here
  <2>1. <<x, f>> \in All BY <2>2, <2>3
  <2> HIDE DEF All
  <2> QED BY <2>1
<1>4. ASSUME NEW x \in X
      PROVE  x \notin Leaves => /\ x \in Nodes(g)
                                /\ g.left[x] \in Below(X, level, x) /\ g.right[x] \in Below(X, level, x)
  <2> SUFFICES ASSUME x \notin Leaves
               PROVE  /\ x \in Nodes(g)
                      /\ g.left[x] \in Below(X, level, x) /\ g.right[x] \in Below(X, level, x)
    OBVIOUS
  <2>1. x \in Nodes(g) BY LeafOrNode
  <2> QED BY <2>1, NodeFacts DEF Below
<1> HIDE DEF H
<1>5. \A x \in X : \A f \in [Below(X, level, x) -> W] : H[<<x, f>>] \in W
  <2> SUFFICES ASSUME NEW x \in X, NEW f \in [Below(X, level, x) -> W]
               PROVE  Step(x, f) \in W
    BY <1>3
  <2>1. CASE x \in Leaves
    <3>1. x \in LiveLeaves(g) BY <2>1 DEF LiveLeaves
    <3> QED BY <2>1, <3>1
  <2>2. CASE x \notin Leaves
    <3>1. f[g.left[x]] \in W /\ f[g.right[x]] \in W /\ x \in Nodes(g) BY <2>2, <1>4
    <3> QED BY <2>2, <3>1
  <2> QED BY <2>1, <2>2
<1> HIDE DEF level
<1>6. PICK f : f \in [X -> W] /\ \A x \in X : f[x] = H[<<x, Under(X, level, x, f)>>]
  <2> HIDE DEF X
  <2>1. Ranked(X, level, b) BY <1>1, <1>2 DEF Ranked
  <2>2. Typed(X, level, W, H) BY <1>5 DEF Typed
  <2>3. \E f : Solves(X, level, W, H, f) BY <2>1, <2>2, Recursion
  <2> QED BY <2>3 DEF Solves
<1>7. ASSUME NEW x \in X PROVE f[x] = Step(x, f)
  <2> DEFINE u == Under(X, level, x, f)
  <2>1. u \in [Below(X, level, x) -> W] /\ \A y \in Below(X, level, x) : u[y] = f[y]
    BY <1>6 DEF Under, Below
  <2> HIDE DEF u
  <2>2. f[x] = Step(x, u) BY <1>3, <1>6, <2>1 DEF u
  <2> QED BY <1>4, <2>1, <2>2
<1> QED BY <1>6, <1>7 DEF Folds

-----------------------------------------------------------------------------
(* What is under a node                                                    *)

LEMMA ConcatFacts ==
  ASSUME NEW T, NEW a \in Seq(T), NEW b \in Seq(T)
  PROVE  /\ a \o b \in Seq(T) /\ Len(a \o b) = Len(a) + Len(b)
         /\ Len(a) \in Nat /\ Len(b) \in Nat
         /\ \A i \in 1..Len(a) : (a \o b)[i] = a[i]
         /\ \A i \in 1..Len(b) : (a \o b)[Len(a) + i] = b[i]
<1>1. Len(a) \in Nat /\ Len(b) \in Nat BY LenProperties
<1>2. a \o b \in Seq(T) /\ Len(a \o b) = Len(a) + Len(b) BY ConcatProperties
<1>3. \A i \in 1..(Len(a) + Len(b)) : (a \o b)[i] = IF i <= Len(a) THEN a[i] ELSE b[i - Len(a)]
  BY ConcatProperties
<1>4. ASSUME NEW i \in 1..Len(a) PROVE (a \o b)[i] = a[i]
  <2>1. i \in 1..(Len(a) + Len(b)) /\ i <= Len(a) BY <1>1
  <2> QED BY <1>3, <2>1
<1>5. ASSUME NEW i \in 1..Len(b) PROVE (a \o b)[Len(a) + i] = b[i]
  <2>1. /\ Len(a) + i \in 1..(Len(a) + Len(b)) /\ ~ (Len(a) + i <= Len(a))
        /\ (Len(a) + i) - Len(a) = i
    BY <1>1
  <2> QED BY <1>3, <2>1
<1> QED BY <1>1, <1>2, <1>4, <1>5

LEMMA OneSeq ==
  ASSUME NEW T, NEW x \in T
  PROVE  <<x>> \in Seq(T) /\ Len(<<x>>) = 1 /\ <<x>>[1] = x /\ <<x>> # <<>>
OBVIOUS

LEMMA ConsFacts ==
  ASSUME NEW T, NEW x \in T, NEW s \in Seq(T)
  PROVE  /\ <<x>> \o s \in Seq(T) /\ Len(<<x>> \o s) = Len(s) + 1
         /\ (<<x>> \o s)[1] = x /\ \A i \in 1..Len(s) : (<<x>> \o s)[i + 1] = s[i]
<1> DEFINE one == <<x>>
<1>1. one \in Seq(T) /\ Len(one) = 1 /\ one[1] = x BY OneSeq
<1>2. 1 \in 1..Len(one) BY <1>1
<1> HIDE DEF one
<1>3. /\ one \o s \in Seq(T) /\ Len(one \o s) = Len(one) + Len(s) /\ Len(s) \in Nat
      /\ \A i \in 1..Len(one) : (one \o s)[i] = one[i]
      /\ \A i \in 1..Len(s) : (one \o s)[Len(one) + i] = s[i]
  BY <1>1, ConcatFacts
<1>4. \A i \in 1..Len(s) : Len(one) + i = i + 1 BY <1>1, <1>3
<1>5. /\ one \o s \in Seq(T) /\ Len(one \o s) = Len(s) + 1 /\ (one \o s)[1] = x
      /\ \A i \in 1..Len(s) : (one \o s)[i + 1] = s[i]
  BY <1>1, <1>2, <1>3, <1>4
<1> QED BY <1>5 DEF one

LEMMA ToSetFacts ==
  ASSUME NEW T
  PROVE  /\ \A x \in T : ToSet(<<x>>) = {x}
         /\ \A s \in Seq(T) : ToSet(s) \subseteq T /\ ToSet(s) = {s[i] : i \in 1..Len(s)}
         /\ \A s, t \in Seq(T) : ToSet(s \o t) = ToSet(s) \union ToSet(t)
<1>1. \A s \in Seq(T) : ToSet(s) = {s[i] : i \in 1..Len(s)} BY LenProperties DEF ToSet
<1>2. \A x \in T : ToSet(<<x>>) = {x}
  <2> SUFFICES ASSUME NEW x \in T PROVE ToSet(<<x>>) = {x} OBVIOUS
  <2>1. ToSet(<<x>>) = {<<x>>[i] : i \in 1..1} BY <1>1, OneSeq
  <2> QED BY <2>1
<1>3. \A s \in Seq(T) : ToSet(s) \subseteq T BY <1>1, ElementOfSeq
<1>4. ASSUME NEW s \in Seq(T), NEW t \in Seq(T) PROVE ToSet(s \o t) = ToSet(s) \union ToSet(t)
  <2> DEFINE u == s \o t
  <2>1. /\ u \in Seq(T) /\ Len(u) = Len(s) + Len(t) /\ Len(s) \in Nat /\ Len(t) \in Nat
        /\ \A i \in 1..Len(s) : u[i] = s[i]
        /\ \A i \in 1..Len(t) : u[Len(s) + i] = t[i]
    BY ConcatFacts
  <2>2. ToSet(u) = {u[i] : i \in 1..Len(u)} BY <1>1, <2>1
  <2> HIDE DEF u
  <2>3. \A x \in ToSet(s) : x \in ToSet(u)
    <3> SUFFICES ASSUME NEW i \in 1..Len(s) PROVE s[i] \in ToSet(u) BY <1>1
    <3>1. i \in 1..Len(u) BY <2>1
    <3> QED BY <2>1, <2>2, <3>1
  <2>4. \A x \in ToSet(t) : x \in ToSet(u)
    <3> SUFFICES ASSUME NEW i \in 1..Len(t) PROVE t[i] \in ToSet(u) BY <1>1
    <3>1. Len(s) + i \in 1..Len(u) BY <2>1
    <3> QED BY <2>1, <2>2, <3>1
  <2>5. \A x \in ToSet(u) : x \in ToSet(s) \union ToSet(t)
    <3> SUFFICES ASSUME NEW i \in 1..Len(u) PROVE u[i] \in ToSet(s) \union ToSet(t) BY <2>2
    <3>1. CASE i <= Len(s)
      <4>1. i \in 1..Len(s) BY <2>1, <3>1
      <4> QED BY <1>1, <2>1, <4>1
    <3>2. CASE ~ (i <= Len(s))
      <4> DEFINE j == i - Len(s)
      <4>1. j \in 1..Len(t) /\ i = Len(s) + j BY <2>1, <3>2
      <4> HIDE DEF j
      <4> QED BY <1>1, <2>1, <4>1
    <3> QED BY <3>1, <3>2
  <2> QED BY <2>3, <2>4, <2>5 DEF u
<1> QED BY <1>1, <1>2, <1>3, <1>4

LEMMA LeavesRules ==
  ASSUME NEW g \in Heaps, NEW S, Trees(g, S)
  PROVE  /\ \A x \in g.live : LeavesUnder(g, x) \in Seq(LiveLeaves(g)) /\ LeavesUnder(g, x) # <<>>
         /\ \A l \in LiveLeaves(g) : LeavesUnder(g, l) = <<l>>
         /\ \A n \in Nodes(g) :
              LeavesUnder(g, n) = LeavesUnder(g, g.left[n]) \o LeavesUnder(g, g.right[n])
<1> DEFINE W == Seq(LiveLeaves(g)) \ {<<>>}
           Is(f) == f = [y \in g.live |-> IF y \in Leaves THEN <<y>>
                                          ELSE f[g.left[y]] \o f[g.right[y]]]
           B == [l \in LiveLeaves(g) |-> <<l>>]
           F == [p \in Nodes(g) \X W \X W |-> p[2] \o p[3]]
           u == CHOOSE f : Is(f)
<1>1. \A l \in LiveLeaves(g) : B[l] \in W BY OneSeq
<1>2. /\ \A n \in Nodes(g) : \A a, b \in W : F[<<n, a, b>>] = a \o b
      /\ \A a, b \in W : a \o b \in W
  <2>1. \A n \in Nodes(g) : \A a, b \in W : F[<<n, a, b>>] = a \o b OBVIOUS
  <2>2. ASSUME NEW a \in W, NEW b \in W PROVE a \o b \in W
    <3>1. a \o b \in Seq(LiveLeaves(g)) BY ConcatFacts
    <3>2. a \o b # <<>> BY ConcatEqualIffEmpty
    <3> QED BY <3>1, <3>2
  <2> HIDE DEF W, F
  <2> QED BY <2>1, <2>2
<1>3. PICK f : Folds(g, W, B, F, f)
  <2> HIDE DEF W, B, F
  <2>1. \A n \in Nodes(g) : \A a, b \in W : F[<<n, a, b>>] \in W BY <1>2
  <2> QED BY <1>1, <2>1, TreeFunction
<1>4. Is(f)
  <2>1. f \in [g.live -> W] BY <1>3 DEF Folds
  <2>2. ASSUME NEW y \in g.live
        PROVE  f[y] = IF y \in Leaves THEN <<y>> ELSE f[g.left[y]] \o f[g.right[y]]
    <3>1. f[y] = IF y \in Leaves THEN B[y] ELSE F[<<y, f[g.left[y]], f[g.right[y]]>>]
      BY <1>3 DEF Folds
    <3>2. CASE y \in LiveLeaves(g) BY <3>1, <3>2 DEF LiveLeaves
    <3>3. CASE y \in Nodes(g) /\ y \notin Leaves
      <4>1. f[g.left[y]] \in W /\ f[g.right[y]] \in W BY <2>1, <3>3, NodeFacts
      <4> QED BY <1>2, <3>1, <3>3, <4>1
    <3> QED BY <3>2, <3>3, LeafOrNode
  <2> QED BY <2>1, <2>2
<1>5. Is(u) BY <1>4
<1>6. \A x : LeavesUnder(g, x) = u[x] BY DEF LeavesUnder
<1> HIDE DEF u
<1>7. \A y \in g.live : u[y] = IF y \in Leaves THEN <<y>> ELSE u[g.left[y]] \o u[g.right[y]]
  BY <1>5
<1>8. \A l \in LiveLeaves(g) : u[l] = <<l>> BY <1>7 DEF LiveLeaves
<1>9. \A n \in Nodes(g) : u[n] = u[g.left[n]] \o u[g.right[n]] BY <1>7, NodeFacts
<1> DEFINE T == {x \in g.live : u[x] \in W}
<1>10. \A l \in LiveLeaves(g) : l \in T BY <1>8, <1>1 DEF LiveLeaves
<1>11. \A n \in Nodes(g) : g.left[n] \in T /\ g.right[n] \in T => n \in T
  <2> HIDE DEF W, F
  <2> SUFFICES ASSUME NEW n \in Nodes(g), g.left[n] \in T, g.right[n] \in T PROVE n \in T
    OBVIOUS
  <2>1. u[g.left[n]] \o u[g.right[n]] \in W BY <1>2
  <2>2. u[n] \in W BY <2>1, <1>9
  <2> QED BY <2>2, NodeFacts
<1> HIDE DEF T
<1>12. g.live \subseteq T BY <1>10, <1>11, TreeSets
<1>13. \A x \in g.live : u[x] \in Seq(LiveLeaves(g)) /\ u[x] # <<>> BY <1>12 DEF T
<1> QED BY <1>6, <1>8, <1>9, <1>13

LEMMA InnerRules ==
  ASSUME NEW g \in Heaps, NEW S, Trees(g, S)
  PROVE  /\ \A x \in g.live : InnerUnder(g, x) \subseteq Nodes(g)
         /\ \A l \in LiveLeaves(g) : InnerUnder(g, l) = {}
         /\ \A n \in Nodes(g) :
              InnerUnder(g, n)
                = {n} \union InnerUnder(g, g.left[n]) \union InnerUnder(g, g.right[n])
<1> DEFINE W == SUBSET Nodes(g)
           Is(f) == f = [y \in g.live |-> IF y \in Leaves THEN {}
                                          ELSE {y} \union f[g.left[y]] \union f[g.right[y]]]
           B == [l \in LiveLeaves(g) |-> {}]
           F == [p \in Nodes(g) \X W \X W |-> {p[1]} \union p[2] \union p[3]]
           u == CHOOSE f : Is(f)
<1>1. \A l \in LiveLeaves(g) : B[l] \in W OBVIOUS
<1>2. /\ \A n \in Nodes(g) : \A a, b \in W : F[<<n, a, b>>] = {n} \union a \union b
      /\ \A n \in Nodes(g) : \A a, b \in W : F[<<n, a, b>>] \in W
  OBVIOUS
<1>3. PICK f : Folds(g, W, B, F, f)
  <2> HIDE DEF W, B, F
  <2> QED BY <1>1, <1>2, TreeFunction
<1>4. Is(f)
  <2>1. f \in [g.live -> W] BY <1>3 DEF Folds
  <2>2. ASSUME NEW y \in g.live
        PROVE  f[y] = IF y \in Leaves THEN {} ELSE {y} \union f[g.left[y]] \union f[g.right[y]]
    <3>1. f[y] = IF y \in Leaves THEN B[y] ELSE F[<<y, f[g.left[y]], f[g.right[y]]>>]
      BY <1>3 DEF Folds
    <3>2. CASE y \in LiveLeaves(g) BY <3>1, <3>2 DEF LiveLeaves
    <3>3. CASE y \in Nodes(g) /\ y \notin Leaves
      <4>1. f[g.left[y]] \in W /\ f[g.right[y]] \in W BY <2>1, <3>3, NodeFacts
      <4> QED BY <1>2, <3>1, <3>3, <4>1
    <3> QED BY <3>2, <3>3, LeafOrNode
  <2> QED BY <2>1, <2>2
<1>5. Is(u) BY <1>4
<1>6. \A x : InnerUnder(g, x) = u[x] BY DEF InnerUnder
<1> HIDE DEF u
<1>7. \A y \in g.live :
        u[y] = IF y \in Leaves THEN {} ELSE {y} \union u[g.left[y]] \union u[g.right[y]]
  BY <1>5
<1>8. \A l \in LiveLeaves(g) : u[l] = {} BY <1>7 DEF LiveLeaves
<1>9. \A n \in Nodes(g) : u[n] = {n} \union u[g.left[n]] \union u[g.right[n]] BY <1>7, NodeFacts
<1> DEFINE T == {x \in g.live : u[x] \in W}
<1>10. \A l \in LiveLeaves(g) : l \in T BY <1>8 DEF LiveLeaves
<1>11. \A n \in Nodes(g) : g.left[n] \in T /\ g.right[n] \in T => n \in T
  BY <1>9, NodeFacts
<1> HIDE DEF T
<1>12. g.live \subseteq T BY <1>10, <1>11, TreeSets
<1>13. \A x \in g.live : u[x] \subseteq Nodes(g) BY <1>12 DEF T
<1> QED BY <1>6, <1>8, <1>9, <1>13

(* The leaves and the nodes under x, and x.                                *)
All(g, x) == InnerUnder(g, x) \union ToSet(LeavesUnder(g, x))

LEMMA AllRules ==
  ASSUME NEW g \in Heaps, NEW S, Trees(g, S)
  PROVE  /\ \A l \in LiveLeaves(g) : All(g, l) = {l}
         /\ \A n \in Nodes(g) : All(g, n) = {n} \union All(g, g.left[n]) \union All(g, g.right[n])
         /\ \A x \in g.live : x \in All(g, x) /\ All(g, x) \subseteq g.live
         /\ \A x \in g.live : InnerUnder(g, x) = All(g, x) \intersect Nodes(g)
         /\ \A x \in g.live : ToSet(LeavesUnder(g, x)) = All(g, x) \intersect LiveLeaves(g)
         /\ \A x \in g.live : \A y \in All(g, x) : Depth(g, y) <= Depth(g, x)
<1> DEFINE L(x) == LeavesUnder(g, x)
           I(x) == InnerUnder(g, x)
<1>1. \A x \in g.live : L(x) \in Seq(LiveLeaves(g)) BY LeavesRules
<1>2. ASSUME NEW l \in LiveLeaves(g) PROVE All(g, l) = {l}
  <2>1. L(l) = <<l>> /\ I(l) = {} BY LeavesRules, InnerRules
  <2> HIDE DEF L, I
  <2>2. ToSet(<<l>>) = {l} BY ToSetFacts
  <2> QED BY <2>1, <2>2 DEF All, L, I
<1>3. ASSUME NEW n \in Nodes(g)
      PROVE  All(g, n) = {n} \union All(g, g.left[n]) \union All(g, g.right[n])
  <2> DEFINE a == g.left[n]
             b == g.right[n]
  <2>1. n \in g.live /\ a \in g.live /\ b \in g.live BY NodeFacts
  <2>2. L(n) = L(a) \o L(b) BY LeavesRules
  <2>3. I(n) = {n} \union I(a) \union I(b) BY InnerRules
  <2>4. L(a) \in Seq(LiveLeaves(g)) /\ L(b) \in Seq(LiveLeaves(g)) BY <1>1, <2>1
  <2> HIDE DEF a, b, L, I
  <2>5. ToSet(L(a) \o L(b)) = ToSet(L(a)) \union ToSet(L(b)) BY <2>4, ToSetFacts
  <2>6. \A x : All(g, x) = I(x) \union ToSet(L(x)) BY DEF All, I, L
  <2> QED BY <2>2, <2>3, <2>5, <2>6 DEF a, b
<1>4. \A x \in g.live : All(g, x) \subseteq g.live
  <2> SUFFICES ASSUME NEW x \in g.live PROVE All(g, x) \subseteq g.live OBVIOUS
  <2>1. I(x) \subseteq Nodes(g) BY InnerRules
  <2>2. ToSet(L(x)) \subseteq LiveLeaves(g) BY <1>1, ToSetFacts
  <2> HIDE DEF I, L
  <2> QED BY <2>1, <2>2 DEF All, I, L, Nodes, LiveLeaves
<1>5. ASSUME NEW x \in g.live
      PROVE  I(x) = All(g, x) \intersect Nodes(g) /\ ToSet(L(x)) = All(g, x) \intersect LiveLeaves(g)
  <2>1. I(x) \subseteq Nodes(g) BY InnerRules
  <2>2. ToSet(L(x)) \subseteq LiveLeaves(g) BY <1>1, ToSetFacts
  <2>3. \A y \in Nodes(g) : y \notin LiveLeaves(g) BY HdrFacts DEF Nodes, LiveLeaves
  <2>4. All(g, x) = I(x) \union ToSet(L(x)) BY DEF All
  <2> HIDE DEF I, L
  <2> QED BY <2>1, <2>2, <2>3, <2>4
<1> DEFINE T == {x \in g.live : x \in All(g, x) /\ \A y \in All(g, x) : Depth(g, y) <= Depth(g, x)}
<1>6. ASSUME NEW l \in LiveLeaves(g) PROVE l \in T
  <2>1. l \in g.live /\ Depth(g, l) \in Nat BY HeapFacts DEF LiveLeaves
  <2>2. All(g, l) = {l} BY <1>2
  <2> QED BY <2>1, <2>2
<1>7. ASSUME NEW n \in Nodes(g), g.left[n] \in T, g.right[n] \in T PROVE n \in T
  <2> DEFINE a == g.left[n]
             b == g.right[n]
  <2>1. /\ n \in g.live /\ a \in g.live /\ b \in g.live
        /\ Depth(g, a) < Depth(g, n) /\ Depth(g, b) < Depth(g, n)
    BY NodeFacts
  <2>2. All(g, n) = {n} \union All(g, a) \union All(g, b) BY <1>3
  <2>3. /\ \A y \in All(g, a) : y \in g.live /\ Depth(g, y) <= Depth(g, a)
        /\ \A y \in All(g, b) : y \in g.live /\ Depth(g, y) <= Depth(g, b)
    BY <1>4, <1>7, <2>1
  <2>4. \A y \in g.live : Depth(g, y) \in Nat BY HeapFacts
  <2> HIDE DEF a, b
  <2>5. \A y \in All(g, n) : Depth(g, y) <= Depth(g, n) BY <2>1, <2>2, <2>3, <2>4
  <2> QED BY <2>1, <2>2, <2>5
<1> HIDE DEF T
<1>8. g.live \subseteq T BY <1>6, <1>7, TreeSets
<1> QED BY <1>2, <1>3, <1>4, <1>5, <1>8 DEF T

(* Induction over a set of trees from the roots down.                      *)
LEMMA TopSets ==
  ASSUME NEW g \in Heaps, NEW S, Trees(g, S), NEW T,
         \A x \in S : x \in T,
         \A n \in Nodes(g) : n \in T => g.left[n] \in T /\ g.right[n] \in T
  PROVE  g.live \subseteq T
<1>1. \A x \in g.live : Depth(g, x) \in Nat BY HeapFacts
<1> DEFINE depth == [x \in g.live |-> Depth(g, x)]
<1>2. IsFiniteSet(g.live) BY HeapFacts
<1>3. PICK N \in Nat : \A x \in g.live : depth[x] < N
  <2>1. \A x \in g.live : depth[x] \in Nat BY <1>1
  <2> HIDE DEF depth
  <2> QED BY <1>2, <2>1, FiniteBound
<1> DEFINE rank == [x \in g.live |-> N - Depth(g, x)]
<1>4. \A x \in g.live : rank[x] \in Nat
  <2> SUFFICES ASSUME NEW x \in g.live PROVE N - Depth(g, x) \in Nat OBVIOUS
  <2>1. depth[x] < N /\ depth[x] = Depth(g, x) /\ Depth(g, x) \in Nat BY <1>1, <1>3
  <2> HIDE DEF depth
  <2> QED BY <1>3, <2>1
<1>5. ASSUME NEW x \in g.live, \A y \in g.live : rank[y] < rank[x] => y \in T
      PROVE  x \in T
  <2>1. CASE x \in S BY <2>1
  <2>2. CASE x \notin S
    <3> DEFINE p == g.parent[x]
    <3>1. p \in Nodes(g) /\ (x = g.left[p] \/ x = g.right[p]) BY <2>2 DEF Trees, Child
    <3>2. p \in g.live /\ Depth(g, x) < Depth(g, p) BY <3>1, NodeFacts
    <3>3. rank[p] < rank[x] BY <1>1, <3>2
    <3> QED BY <1>5, <3>1, <3>2, <3>3
  <2> QED BY <2>1, <2>2
<1> HIDE DEF rank
<1> QED BY <1>4, <1>5, RankSets

(* What is under a node, but the node, has its parent there.               *)
LEMMA Climb ==
  ASSUME NEW g \in Heaps, NEW S, Trees(g, S), NEW x \in g.live, NEW y \in All(g, x), y # x
  PROVE  y \notin S /\ g.parent[y] \in All(g, x) /\ g.parent[y] \in Nodes(g)
<1> DEFINE Up(z) == \A w \in All(g, z) : w # z =>
                      w \notin S /\ g.parent[w] \in All(g, z) /\ g.parent[w] \in Nodes(g)
           T == {z \in g.live : Up(z)}
<1>1. ASSUME NEW l \in LiveLeaves(g) PROVE l \in T
  <2>1. All(g, l) = {l} /\ l \in g.live BY AllRules DEF LiveLeaves
  <2> QED BY <2>1
<1>2. ASSUME NEW n \in Nodes(g), g.left[n] \in T, g.right[n] \in T PROVE n \in T
  <2> DEFINE a == g.left[n]
             b == g.right[n]
  <2>1. /\ n \in g.live /\ a \notin S /\ b \notin S /\ g.parent[a] = n /\ g.parent[b] = n
    BY NodeFacts
  <2>2. All(g, n) = {n} \union All(g, a) \union All(g, b) BY AllRules
  <2>3. Up(a) /\ Up(b) BY <1>2
  <2> HIDE DEF a, b
  <2>4. Up(n) BY <2>1, <2>2, <2>3
  <2> QED BY <2>1, <2>4
<1> HIDE DEF T
<1>3. g.live \subseteq T BY <1>1, <1>2, TreeSets
<1> QED BY <1>3 DEF T

(* What is under a node has its children there.                            *)
LEMMA Descend ==
  ASSUME NEW g \in Heaps, NEW S, Trees(g, S), NEW x \in g.live,
         NEW y \in All(g, x), y \in Nodes(g)
  PROVE  g.left[y] \in All(g, x) /\ g.right[y] \in All(g, x)
<1> DEFINE Down(z) == \A w \in All(g, z) \intersect Nodes(g) :
                        g.left[w] \in All(g, z) /\ g.right[w] \in All(g, z)
           T == {z \in g.live : Down(z)}
<1>1. ASSUME NEW l \in LiveLeaves(g) PROVE l \in T
  <2>1. All(g, l) = {l} /\ l \in g.live /\ l \notin Nodes(g) BY AllRules, HdrFacts DEF LiveLeaves, Nodes
  <2> QED BY <2>1
<1>2. ASSUME NEW n \in Nodes(g), g.left[n] \in T, g.right[n] \in T PROVE n \in T
  <2> DEFINE a == g.left[n]
             b == g.right[n]
  <2>1. n \in g.live /\ a \in All(g, a) /\ b \in All(g, b) BY NodeFacts, AllRules
  <2>2. All(g, n) = {n} \union All(g, a) \union All(g, b) BY AllRules
  <2>3. Down(a) /\ Down(b) BY <1>2
  <2>4. g.left[n] = a /\ g.right[n] = b OBVIOUS
  <2> HIDE DEF a, b
  <2>5. Down(n) BY <2>1, <2>2, <2>3, <2>4
  <2> QED BY <2>1, <2>5
<1> HIDE DEF T
<1>3. g.live \subseteq T BY <1>1, <1>2, TreeSets
<1> QED BY <1>3 DEF T

(* Of two nodes with a common one under them one is under the other.       *)
LEMMA Chain ==
  ASSUME NEW g \in Heaps, NEW S, Trees(g, S), NEW a \in g.live, NEW b \in g.live,
         NEW y \in All(g, a), y \in All(g, b)
  PROVE  a \in All(g, b) \/ b \in All(g, a)
<1> DEFINE T == {z \in g.live : z \in All(g, a) /\ z \in All(g, b) => a \in All(g, b) \/ b \in All(g, a)}
<1>1. ASSUME NEW z \in S PROVE z \in T
  <2>1. z \in g.live BY DEF Trees
  <2>2. z \in All(g, a) => z = a BY Climb
  <2> QED BY <2>1, <2>2
<1>2. ASSUME NEW n \in Nodes(g), n \in T, NEW z, z = g.left[n] \/ z = g.right[n] PROVE z \in T
  <2>1. z \in g.live /\ g.parent[z] = n BY <1>2, NodeFacts
  <2>2. z \in All(g, a) => z = a \/ n \in All(g, a) BY <2>1, Climb
  <2>3. z \in All(g, b) => z = b \/ n \in All(g, b) BY <2>1, Climb
  <2> QED BY <1>2, <2>1, <2>2, <2>3
<1> HIDE DEF T
<1>3. g.live \subseteq T BY <1>1, <1>2, TopSets
<1>4. y \in g.live BY AllRules
<1> QED BY <1>3, <1>4 DEF T

(* The children of a node have nothing in common, nor have two roots.      *)
LEMMA Apart ==
  ASSUME NEW g \in Heaps, NEW S, Trees(g, S)
  PROVE  /\ \A n \in Nodes(g) : All(g, g.left[n]) \intersect All(g, g.right[n]) = {}
         /\ \A n \in Nodes(g) : n \notin All(g, g.left[n]) /\ n \notin All(g, g.right[n])
         /\ \A x, y \in S : x # y => All(g, x) \intersect All(g, y) = {}
<1>1. ASSUME NEW n \in Nodes(g), NEW z, z = g.left[n] \/ z = g.right[n] PROVE n \notin All(g, z)
  <2>1. z \in g.live /\ n \in g.live /\ Depth(g, z) < Depth(g, n) BY <1>1, NodeFacts
  <2>2. Depth(g, z) \in Nat /\ Depth(g, n) \in Nat BY <2>1, HeapFacts
  <2>3. n \in All(g, z) => Depth(g, n) <= Depth(g, z) BY <2>1, AllRules
  <2> QED BY <2>1, <2>2, <2>3
<1>2. ASSUME NEW n \in Nodes(g) PROVE All(g, g.left[n]) \intersect All(g, g.right[n]) = {}
  <2> DEFINE a == g.left[n]
             b == g.right[n]
  <2> SUFFICES ASSUME NEW y \in All(g, a), y \in All(g, b) PROVE FALSE OBVIOUS
  <2>1. a \in g.live /\ b \in g.live /\ a # b /\ g.parent[a] = n /\ g.parent[b] = n BY NodeFacts
  <2>2. n \notin All(g, a) /\ n \notin All(g, b) BY <1>1
  <2> HIDE DEF a, b
  <2>3. a \in All(g, b) \/ b \in All(g, a) BY <2>1, Chain
  <2>4. ~ (a \in All(g, b)) BY <2>1, <2>2, Climb
  <2>5. ~ (b \in All(g, a)) BY <2>1, <2>2, Climb
  <2> QED BY <2>3, <2>4, <2>5
<1>3. ASSUME NEW x \in S, NEW y \in S, x # y PROVE All(g, x) \intersect All(g, y) = {}
  <2> SUFFICES ASSUME NEW z \in All(g, x), z \in All(g, y) PROVE FALSE OBVIOUS
  <2>1. x \in g.live /\ y \in g.live BY DEF Trees
  <2>2. x \in All(g, y) \/ y \in All(g, x) BY <2>1, Chain
  <2> QED BY <1>3, <2>1, <2>2, Climb
<1> QED BY <1>1, <1>2, <1>3

(* Everything is under a root.                                             *)
LEMMA Covered ==
  ASSUME NEW g \in Heaps, NEW S, Trees(g, S), NEW y \in g.live
  PROVE  \E x \in S : y \in All(g, x)
<1> DEFINE T == {z \in g.live : \E x \in S : z \in All(g, x)}
<1>1. ASSUME NEW z \in S PROVE z \in T
  <2>1. z \in g.live BY DEF Trees
  <2> QED BY <2>1, AllRules
<1>2. ASSUME NEW n \in Nodes(g), n \in T PROVE g.left[n] \in T /\ g.right[n] \in T
  <2>1. PICK x \in S : n \in All(g, x) BY <1>2
  <2>2. x \in g.live BY DEF Trees
  <2>3. g.left[n] \in All(g, x) /\ g.right[n] \in All(g, x) BY <2>1, <2>2, Descend
  <2> QED BY <2>3, NodeFacts
<1> HIDE DEF T
<1>3. g.live \subseteq T BY <1>1, <1>2, TopSets
<1> QED BY <1>3 DEF T

Sound(g, S) == g \in Heaps /\ Trees(g, S) /\ Sizes(g) /\ Depths(g)

(* What is under x is the same in two heaps that agree about its nodes.    *)
LEMMA SameUnder ==
  ASSUME NEW g \in Heaps, NEW S, Trees(g, S), NEW k \in Heaps, NEW R, Trees(k, R),
         NEW x \in g.live, All(g, x) \subseteq k.live,
         \A n \in InnerUnder(g, x) : k.left[n] = g.left[n] /\ k.right[n] = g.right[n]
  PROVE  /\ LeavesUnder(k, x) = LeavesUnder(g, x) /\ InnerUnder(k, x) = InnerUnder(g, x)
         /\ All(k, x) = All(g, x)
<1> DEFINE P(z) == LeavesUnder(k, z) = LeavesUnder(g, z) /\ InnerUnder(k, z) = InnerUnder(g, z)
           T == {z \in g.live : z \in All(g, x) => P(z)}
<1>1. ASSUME NEW l \in LiveLeaves(g) PROVE l \in T
  <2> SUFFICES ASSUME l \in All(g, x) PROVE P(l) BY DEF LiveLeaves
  <2>1. l \in LiveLeaves(k) BY DEF LiveLeaves
  <2>2. LeavesUnder(k, l) = <<l>> /\ InnerUnder(k, l) = {} BY <2>1, LeavesRules, InnerRules
  <2>3. LeavesUnder(g, l) = <<l>> /\ InnerUnder(g, l) = {} BY LeavesRules, InnerRules
  <2> QED BY <2>2, <2>3
<1>2. ASSUME NEW n \in Nodes(g), g.left[n] \in T, g.right[n] \in T PROVE n \in T
  <2> SUFFICES ASSUME n \in All(g, x) PROVE P(n) BY NodeFacts
  <2> DEFINE a == g.left[n]
             b == g.right[n]
  <2>1. a \in All(g, x) /\ b \in All(g, x) BY Descend
  <2>2. P(a) /\ P(b) BY <1>2, <2>1
  <2>3. n \in InnerUnder(g, x) BY AllRules
  <2>4. k.left[n] = a /\ k.right[n] = b BY <2>3
  <2>5. n \in Nodes(k) BY DEF Nodes
  <2>6. LeavesUnder(g, n) = LeavesUnder(g, a) \o LeavesUnder(g, b) BY LeavesRules
  <2>7. LeavesUnder(k, n) = LeavesUnder(k, k.left[n]) \o LeavesUnder(k, k.right[n]) BY <2>5, LeavesRules
  <2>8. InnerUnder(g, n) = {n} \union InnerUnder(g, a) \union InnerUnder(g, b) BY InnerRules
  <2>9. InnerUnder(k, n) = {n} \union InnerUnder(k, k.left[n]) \union InnerUnder(k, k.right[n])
    BY <2>5, InnerRules
  <2> HIDE DEF a, b
  <2> QED BY <2>2, <2>4, <2>6, <2>7, <2>8, <2>9
<1> HIDE DEF T
<1>3. g.live \subseteq T BY <1>1, <1>2, TreeSets
<1>4. x \in All(g, x) BY AllRules
<1>5. P(x) BY <1>3, <1>4 DEF T
<1> QED BY <1>5 DEF All

(* No leaf is met twice.                                                   *)
Distinct(s) == \A i, j \in 1..Len(s) : s[i] = s[j] => i = j

LEMMA DistinctConcat ==
  ASSUME NEW T, NEW s \in Seq(T), NEW t \in Seq(T), Distinct(s), Distinct(t),
         ToSet(s) \intersect ToSet(t) = {}
  PROVE  Distinct(s \o t)
<1> DEFINE u == s \o t
<1>1. /\ Len(u) = Len(s) + Len(t) /\ Len(s) \in Nat /\ Len(t) \in Nat
      /\ \A i \in 1..Len(s) : u[i] = s[i]
      /\ \A i \in 1..Len(t) : u[Len(s) + i] = t[i]
  BY ConcatFacts
<1>2. /\ \A i \in 1..Len(s) : s[i] \in ToSet(s)
      /\ \A i \in 1..Len(t) : t[i] \in ToSet(t)
  BY ToSetFacts
<1> HIDE DEF u
<1> SUFFICES ASSUME NEW i \in 1..Len(u), NEW j \in 1..Len(u), u[i] = u[j], i < j PROVE FALSE
  <2>1. Distinct(u) BY <1>1 DEF Distinct
  <2> QED BY <2>1 DEF u
<1>3. CASE j <= Len(s)
  <2>1. i \in 1..Len(s) /\ j \in 1..Len(s) /\ i # j BY <1>1, <1>3
  <2> QED BY <1>1, <2>1 DEF Distinct
<1>4. CASE i > Len(s)
  <2> DEFINE a == i - Len(s)
             b == j - Len(s)
  <2>1. a \in 1..Len(t) /\ b \in 1..Len(t) /\ a # b /\ i = Len(s) + a /\ j = Len(s) + b BY <1>1, <1>4
  <2> HIDE DEF a, b
  <2> QED BY <1>1, <2>1 DEF Distinct
<1>5. CASE i <= Len(s) /\ j > Len(s)
  <2> DEFINE b == j - Len(s)
  <2>1. i \in 1..Len(s) /\ b \in 1..Len(t) /\ j = Len(s) + b BY <1>1, <1>5
  <2> HIDE DEF b
  <2> QED BY <1>1, <1>2, <2>1
<1> QED BY <1>1, <1>3, <1>4, <1>5

LEMMA LeavesDistinct ==
  ASSUME NEW g \in Heaps, NEW S, Trees(g, S), NEW x \in g.live
  PROVE  Distinct(LeavesUnder(g, x))
<1> DEFINE T == {z \in g.live : Distinct(LeavesUnder(g, z))}
<1>1. ASSUME NEW l \in LiveLeaves(g) PROVE l \in T
  <2>1. LeavesUnder(g, l) = <<l>> /\ l \in g.live BY LeavesRules DEF LiveLeaves
  <2>2. Distinct(<<l>>) BY DEF Distinct
  <2> QED BY <2>1, <2>2
<1>2. ASSUME NEW n \in Nodes(g), g.left[n] \in T, g.right[n] \in T PROVE n \in T
  <2> DEFINE s == LeavesUnder(g, g.left[n])
             t == LeavesUnder(g, g.right[n])
  <2>1. n \in g.live /\ g.left[n] \in g.live /\ g.right[n] \in g.live BY NodeFacts
  <2>2. s \in Seq(LiveLeaves(g)) /\ t \in Seq(LiveLeaves(g)) BY <2>1, LeavesRules
  <2>3. ToSet(s) \intersect ToSet(t) = {} BY Apart DEF All
  <2>4. LeavesUnder(g, n) = s \o t BY LeavesRules
  <2>5. Distinct(s) /\ Distinct(t) BY <1>2
  <2> HIDE DEF s, t
  <2>6. Distinct(s \o t) BY <2>2, <2>3, <2>5, DistinctConcat
  <2> QED BY <2>1, <2>4, <2>6
<1> HIDE DEF T
<1>3. g.live \subseteq T BY <1>1, <1>2, TreeSets
<1> QED BY <1>3 DEF T

LEMMA LastIs ==
  ASSUME NEW T, NEW s \in Seq(T), s # <<>>
  PROVE  Last(s) = s[Len(s)] /\ Last(s) \in T /\ Last(s) \in ToSet(s) /\ Len(s) \in Nat \ {0}
<1>1. Len(s) \in Nat \ {0} BY EmptySeq
<1>2. Len(s) \in 1..Len(s) BY <1>1
<1>3. Last(s) = s[Len(s)] BY DEF Last
<1>4. s[Len(s)] \in ToSet(s) /\ ToSet(s) \subseteq T BY <1>2, ToSetFacts
<1> QED BY <1>1, <1>3, <1>4

LEMMA LastConcat ==
  ASSUME NEW T, NEW s \in Seq(T), NEW t \in Seq(T), t # <<>>
  PROVE  s \o t # <<>> /\ Last(s \o t) = Last(t)
<1>1. s \o t # <<>> /\ s \o t \in Seq(T) BY ConcatEqualIffEmpty, ConcatFacts
<1>2. Len(t) \in Nat \ {0} /\ Last(t) = t[Len(t)] BY LastIs
<1>3. Len(t) \in 1..Len(t) BY <1>2
<1>4. (s \o t)[Len(s) + Len(t)] = t[Len(t)] /\ Len(s \o t) = Len(s) + Len(t) BY <1>3, ConcatFacts
<1>5. Last(s \o t) = (s \o t)[Len(s \o t)] BY <1>1, LastIs
<1> QED BY <1>1, <1>2, <1>4, <1>5

(* The way to the right.                                                   *)
Tailpath(g, x) ==
  LET from[y \in g.live] == IF y \in Leaves THEN {y} ELSE {y} \union from[g.right[y]]
  IN  from[x]

LEMMA TailpathRules ==
  ASSUME NEW g \in Heaps, NEW S, Trees(g, S)
  PROVE  /\ \A l \in LiveLeaves(g) : Tailpath(g, l) = {l}
         /\ \A n \in Nodes(g) : Tailpath(g, n) = {n} \union Tailpath(g, g.right[n])
<1> DEFINE W == SUBSET g.live
           Is(f) == f = [y \in g.live |-> IF y \in Leaves THEN {y} ELSE {y} \union f[g.right[y]]]
           B == [l \in LiveLeaves(g) |-> {l}]
           F == [p \in Nodes(g) \X W \X W |-> {p[1]} \union p[3]]
           u == CHOOSE f : Is(f)
<1>1. \A l \in LiveLeaves(g) : B[l] \in W BY DEF LiveLeaves
<1>2. /\ \A n \in Nodes(g) : \A a, b \in W : F[<<n, a, b>>] = {n} \union b
      /\ \A n \in Nodes(g) : \A a, b \in W : F[<<n, a, b>>] \in W
  BY DEF Nodes
<1>3. PICK f : Folds(g, W, B, F, f)
  <2> HIDE DEF W, B, F
  <2> QED BY <1>1, <1>2, TreeFunction
<1>4. Is(f)
  <2>1. f \in [g.live -> W] BY <1>3 DEF Folds
  <2>2. ASSUME NEW y \in g.live
        PROVE  f[y] = IF y \in Leaves THEN {y} ELSE {y} \union f[g.right[y]]
    <3>1. f[y] = IF y \in Leaves THEN B[y] ELSE F[<<y, f[g.left[y]], f[g.right[y]]>>]
      BY <1>3 DEF Folds
    <3>2. CASE y \in LiveLeaves(g) BY <3>1, <3>2 DEF LiveLeaves
    <3>3. CASE y \in Nodes(g) /\ y \notin Leaves
      <4>1. f[g.left[y]] \in W /\ f[g.right[y]] \in W BY <2>1, <3>3, NodeFacts
      <4> QED BY <1>2, <3>1, <3>3, <4>1
    <3> QED BY <3>2, <3>3, LeafOrNode
  <2> QED BY <2>1, <2>2
<1>5. Is(u) BY <1>4
<1>6. \A x : Tailpath(g, x) = u[x] BY DEF Tailpath
<1> HIDE DEF u
<1>7. \A y \in g.live : u[y] = IF y \in Leaves THEN {y} ELSE {y} \union u[g.right[y]]
  BY <1>5
<1>8. \A l \in LiveLeaves(g) : u[l] = {l} BY <1>7 DEF LiveLeaves
<1>9. \A n \in Nodes(g) : u[n] = {n} \union u[g.right[n]] BY <1>7, NodeFacts
<1> QED BY <1>6, <1>8, <1>9

LEMMA RightmostRules ==
  ASSUME NEW g \in Heaps, NEW S, Trees(g, S), NEW x \in g.live
  PROVE  Rightmost(g, x) = Last(LeavesUnder(g, x))
<1> DEFINE W == LiveLeaves(g)
           Is(f) == f = [y \in g.live |-> IF y \in Leaves THEN y ELSE f[g.right[y]]]
           B == [l \in LiveLeaves(g) |-> l]
           F == [p \in Nodes(g) \X W \X W |-> p[3]]
           u == CHOOSE f : Is(f)
<1>1. \A l \in LiveLeaves(g) : B[l] \in W OBVIOUS
<1>2. \A n \in Nodes(g) : \A a, b \in W : F[<<n, a, b>>] = b OBVIOUS
<1>3. PICK f : Folds(g, W, B, F, f)
  <2> HIDE DEF W, B, F
  <2> QED BY <1>1, <1>2, TreeFunction
<1>4. Is(f)
  <2>1. f \in [g.live -> W] BY <1>3 DEF Folds
  <2>2. ASSUME NEW y \in g.live
        PROVE  f[y] = IF y \in Leaves THEN y ELSE f[g.right[y]]
    <3>1. f[y] = IF y \in Leaves THEN B[y] ELSE F[<<y, f[g.left[y]], f[g.right[y]]>>]
      BY <1>3 DEF Folds
    <3>2. CASE y \in LiveLeaves(g) BY <3>1, <3>2 DEF LiveLeaves
    <3>3. CASE y \in Nodes(g) /\ y \notin Leaves
      <4>1. f[g.left[y]] \in W /\ f[g.right[y]] \in W BY <2>1, <3>3, NodeFacts
      <4> QED BY <1>2, <3>1, <3>3, <4>1
    <3> QED BY <3>2, <3>3, LeafOrNode
  <2> QED BY <2>1, <2>2
<1>5. Is(u) BY <1>4
<1>6. \A y : Rightmost(g, y) = u[y] BY DEF Rightmost
<1> HIDE DEF u
<1>7. \A y \in g.live : u[y] = IF y \in Leaves THEN y ELSE u[g.right[y]]
  BY <1>5
<1> DEFINE T == {y \in g.live : u[y] = Last(LeavesUnder(g, y))}
<1>8. ASSUME NEW l \in LiveLeaves(g) PROVE l \in T
  <2>1. LeavesUnder(g, l) = <<l>> /\ l \in g.live /\ l \in Leaves BY LeavesRules DEF LiveLeaves
  <2>2. Last(<<l>>) = l BY LastIs, OneSeq
  <2> QED BY <1>7, <2>1, <2>2
<1>9. ASSUME NEW n \in Nodes(g), g.left[n] \in T, g.right[n] \in T PROVE n \in T
  <2> DEFINE s == LeavesUnder(g, g.left[n])
             t == LeavesUnder(g, g.right[n])
  <2>1. /\ n \in g.live /\ g.left[n] \in g.live /\ g.right[n] \in g.live /\ n \notin Leaves
    BY NodeFacts
  <2>2. s \in Seq(LiveLeaves(g)) /\ t \in Seq(LiveLeaves(g)) /\ t # <<>> BY <2>1, LeavesRules
  <2>3. LeavesUnder(g, n) = s \o t BY LeavesRules
  <2>4. u[n] = Last(t) BY <1>7, <1>9, <2>1
  <2> HIDE DEF s, t
  <2>5. Last(s \o t) = Last(t) BY <2>2, LastConcat
  <2> QED BY <2>1, <2>3, <2>4, <2>5
<1> HIDE DEF T
<1>10. g.live \subseteq T BY <1>8, <1>9, TreeSets
<1> QED BY <1>6, <1>10 DEF T

(* The tail path of x leads from x, to the right only, to the last leaf.   *)
LEMMA TailpathFacts ==
  ASSUME NEW g \in Heaps, NEW S, Trees(g, S), NEW x \in g.live
  PROVE  /\ Tailpath(g, x) \subseteq All(g, x) /\ x \in Tailpath(g, x)
         /\ Tailpath(g, x) \intersect Leaves = {Last(LeavesUnder(g, x))}
         /\ \A n \in Tailpath(g, x) : n \in Nodes(g) =>
              g.right[n] \in Tailpath(g, x) /\ g.left[n] \notin Tailpath(g, x)
         /\ \A y \in Tailpath(g, x) : y # x =>
              g.parent[y] \in Tailpath(g, x) /\ y = g.right[g.parent[y]]
         /\ \A y \in Tailpath(g, x) :
              y \in g.live /\ Last(LeavesUnder(g, y)) = Last(LeavesUnder(g, x))
<1> DEFINE end(y) == Last(LeavesUnder(g, y))
           P(z) == /\ Tailpath(g, z) \subseteq All(g, z) /\ z \in Tailpath(g, z)
                   /\ Tailpath(g, z) \intersect Leaves = {end(z)}
                   /\ \A n \in Tailpath(g, z) : n \in Nodes(g) =>
                        g.right[n] \in Tailpath(g, z) /\ g.left[n] \notin Tailpath(g, z)
                   /\ \A y \in Tailpath(g, z) : y # z =>
                        g.parent[y] \in Tailpath(g, z) /\ y = g.right[g.parent[y]]
                   /\ \A y \in Tailpath(g, z) : y \in g.live /\ end(y) = end(z)
           T == {z \in g.live : P(z)}
<1>1. ASSUME NEW l \in LiveLeaves(g) PROVE l \in T
  <2>1. /\ l \in g.live /\ l \in Leaves /\ l \notin Nodes(g)
        /\ Tailpath(g, l) = {l} /\ All(g, l) = {l} /\ LeavesUnder(g, l) = <<l>>
    BY TailpathRules, AllRules, LeavesRules, HdrFacts DEF LiveLeaves, Nodes
  <2>2. end(l) = l
    <3>1. /\ <<l>> \in Seq(Leaves) /\ <<l>> # <<>>
          /\ Len(<<l>>) = 1 /\ <<l>>[1] = l
      BY <2>1, OneSeq
    <3>2. Last(<<l>>) = <<l>>[Len(<<l>>)] BY <3>1, LastIs
    <3> QED BY <2>1, <3>1, <3>2
  <2> HIDE DEF end
  <2> QED BY <2>1, <2>2
<1>2. ASSUME NEW n \in Nodes(g), g.left[n] \in T, g.right[n] \in T PROVE n \in T
  <2> DEFINE a == g.left[n]
             b == g.right[n]
  <2>1. /\ n \in g.live /\ a \in g.live /\ b \in g.live /\ n \notin Leaves /\ g.parent[b] = n
    BY NodeFacts
  <2>2. Tailpath(g, n) = {n} \union Tailpath(g, b) BY TailpathRules
  <2>3. All(g, n) = {n} \union All(g, a) \union All(g, b) BY AllRules
  <2>4. P(b) BY <1>2
  <2>5. /\ a \notin All(g, b) /\ n \notin All(g, b) /\ a # n
    BY <2>1, Apart, AllRules
  <2>6. end(n) = end(b)
    <3>1. LeavesUnder(g, n) = LeavesUnder(g, a) \o LeavesUnder(g, b) BY LeavesRules
    <3>2. /\ LeavesUnder(g, a) \in Seq(LiveLeaves(g))
          /\ LeavesUnder(g, b) \in Seq(LiveLeaves(g)) /\ LeavesUnder(g, b) # <<>>
      BY <2>1, LeavesRules
    <3> HIDE DEF a, b
    <3> QED BY <3>1, <3>2, LastConcat
  <2>7. /\ g.left[n] = a /\ g.right[n] = b OBVIOUS
  <2>8. \A y \in Tailpath(g, b) : y \in Nodes(g) => g.left[y] # n
    <3> SUFFICES ASSUME NEW y \in Tailpath(g, b), y \in Nodes(g), g.left[y] = n PROVE FALSE
      OBVIOUS
    <3>1. y \in All(g, b) /\ b \in g.live BY <2>1, <2>4
    <3>2. n \in All(g, b) BY <3>1, Descend
    <3> QED BY <2>5, <3>2
  <2> HIDE DEF a, b, end
  <2>9. P(n)
    <3>1. Tailpath(g, n) \subseteq All(g, n) /\ n \in Tailpath(g, n) BY <2>2, <2>3, <2>4
    <3>2. Tailpath(g, n) \intersect Leaves = {end(n)} BY <2>1, <2>2, <2>4, <2>6
    <3>3. ASSUME NEW y \in Tailpath(g, n), y \in Nodes(g)
          PROVE  g.right[y] \in Tailpath(g, n) /\ g.left[y] \notin Tailpath(g, n)
      <4>1. CASE y = n BY <4>1, <2>2, <2>4, <2>5, <2>7
      <4>2. CASE y # n
        <5>1. y \in Tailpath(g, b) BY <2>2, <4>2
        <5> QED BY <3>3, <5>1, <2>2, <2>4, <2>8
      <4> QED BY <4>1, <4>2
    <3>4. ASSUME NEW y \in Tailpath(g, n), y # n
          PROVE  g.parent[y] \in Tailpath(g, n) /\ y = g.right[g.parent[y]]
      <4>1. y \in Tailpath(g, b) BY <2>2, <3>4
      <4>2. CASE y = b BY <4>2, <2>1, <2>2, <2>7
      <4>3. CASE y # b BY <4>1, <4>3, <2>2, <2>4
      <4> QED BY <4>2, <4>3
    <3>5. \A y \in Tailpath(g, n) : y \in g.live /\ end(y) = end(n) BY <2>1, <2>2, <2>4, <2>6
    <3> QED BY <3>1, <3>2, <3>3, <3>4, <3>5
  <2> QED BY <2>1, <2>9
<1> HIDE DEF T
<1>3. g.live \subseteq T BY <1>1, <1>2, TreeSets
<1> QED BY <1>3 DEF T

-----------------------------------------------------------------------------
(* Loops                                                                   *)

(* What each round keeps holds after every round.                          *)
LEMMA LoopKeeps ==
  ASSUME NEW m \in Int, NEW n \in Int, NEW P, NEW u, u[m] \in P[m],
         \A i \in m..n : i # m /\ u[i - 1] \in P[i - 1] => u[i] \in P[i]
  PROVE  \A i \in m..n : u[i] \in P[i]
<1> DEFINE T == {k \in Nat : m + k <= n => u[m + k] \in P[m + k]}
<1>1. 0 \in T OBVIOUS
<1>2. ASSUME NEW k \in Nat, k \in T PROVE k + 1 \in T
  <2> SUFFICES ASSUME m + (k + 1) <= n PROVE u[m + (k + 1)] \in P[m + (k + 1)] OBVIOUS
  <2> DEFINE i == m + (k + 1)
  <2>1. i \in m..n /\ i # m /\ i - 1 = m + k /\ m + k <= n OBVIOUS
  <2>2. u[m + k] \in P[m + k] BY <1>2, <2>1
  <2> HIDE DEF i
  <2>3. u[i] \in P[i] BY <2>1, <2>2
  <2> QED BY <2>3 DEF i
<1> HIDE DEF T
<1>3. Nat \subseteq T BY <1>1, <1>2, NatSets
<1>4. ASSUME NEW i \in m..n PROVE u[i] \in P[i]
  <2>1. i - m \in T /\ m + (i - m) = i BY <1>3
  <2> QED BY <2>1 DEF T
<1> QED BY <1>4

(* A loop whose rounds keep something has a state after every round.       *)
Loops(m, n, b, F, f) == f = [i \in m..n |-> IF i = m THEN b ELSE F[<<i, f[i - 1]>>]]

LEMMA Loop ==
  ASSUME NEW m \in Int, NEW n \in Int, NEW P, NEW b, b \in P[m], NEW F,
         \A i \in m..n : i # m => \A v \in P[i - 1] : F[<<i, v>>] \in P[i]
  PROVE  \E f : Loops(m, n, b, F, f) /\ \A i \in m..n : f[i] \in P[i]
<1> DEFINE Is(f, k) == /\ f = [i \in m..k |-> IF i = m THEN b ELSE F[<<i, f[i - 1]>>]]
                       /\ \A i \in m..k : f[i] \in P[i]
           T == {k \in Nat : m + k <= n => \E f : Is(f, m + k)}
<1>1. 0 \in T
  <2> DEFINE f == [i \in m..(m + 0) |-> b]
  <2>1. f = [i \in m..(m + 0) |-> IF i = m THEN b ELSE F[<<i, f[i - 1]>>]] OBVIOUS
  <2>2. \A i \in m..(m + 0) : f[i] \in P[i]
    <3>1. \A i \in m..(m + 0) : i = m OBVIOUS
    <3> QED BY <3>1
  <2> HIDE DEF f
  <2>3. Is(f, m + 0) BY <2>1, <2>2
  <2>4. \E f1 : Is(f1, m + 0) BY <2>3
  <2> HIDE DEF Is
  <2> QED BY <2>4
<1>2. ASSUME NEW k \in Nat, k \in T PROVE k + 1 \in T
  <2> SUFFICES ASSUME m + (k + 1) <= n PROVE \E f : Is(f, m + (k + 1)) OBVIOUS
  <2> DEFINE j == m + k
             j1 == m + (k + 1)
  <2>1. j <= n /\ j1 \in m..n /\ j1 - 1 = j /\ j1 # m /\ m..j1 = (m..j) \union {j1} /\ j1 \notin m..j
    OBVIOUS
  <2>2. PICK f : Is(f, j) BY <1>2, <2>1
  <2> DEFINE e == [i \in m..j1 |-> IF i = j1 THEN F[<<j1, f[j]>>] ELSE f[i]]
  <2>3. j \in m..j /\ \A i \in m..j : i # m => i - 1 \in m..j OBVIOUS
  <2>4. (\A i \in m..j : e[i] = f[i] /\ i # j1) /\ e[j1] = F[<<j1, f[j]>>] /\ DOMAIN e = m..j1
        /\ e = [i \in m..j1 |-> e[i]]
    BY <2>1
  <2>5. \A i \in m..j : f[i] = IF i = m THEN b ELSE F[<<i, f[i - 1]>>] BY <2>2
  <2>6. \A i \in m..j : f[i] \in P[i] BY <2>2
  <2> HIDE DEF e, j, j1, T, Is
  <2>7. \A i \in m..j1 : e[i] = IF i = m THEN b ELSE F[<<i, e[i - 1]>>]
    <3> SUFFICES ASSUME NEW i \in m..j1 PROVE e[i] = IF i = m THEN b ELSE F[<<i, e[i - 1]>>]
      OBVIOUS
    <3>1. CASE i = j1 BY <3>1, <2>1, <2>3, <2>4
    <3>2. CASE i \in m..j BY <3>2, <2>3, <2>4, <2>5
    <3> QED BY <3>1, <3>2, <2>1
  <2>8. \A i \in m..j1 : e[i] \in P[i]
    <3>1. e[j1] \in P[j1] BY <2>1, <2>3, <2>4, <2>6
    <3>2. \A i \in m..j : e[i] \in P[i] BY <2>4, <2>6
    <3> QED BY <3>1, <3>2, <2>1
  <2>9. Is(e, j1) BY <2>4, <2>7, <2>8 DEF Is
  <2> QED BY <2>9 DEF j1
<1>3. Nat \subseteq T
  <2> HIDE DEF T
  <2> QED BY <1>1, <1>2, NatSets
<1>4. CASE m <= n
  <2>1. n - m \in Nat /\ m + (n - m) = n BY <1>4
  <2>2. n - m \in T BY <1>3, <2>1
  <2>3. \E f : Is(f, n)
    <3> HIDE DEF Is
    <3> QED BY <2>1, <2>2
  <2> QED BY <2>3 DEF Loops
<1>5. CASE n < m
  <2> DEFINE f == [i \in m..n |-> b]
  <2>1. m..n = {} BY <1>5
  <2>2. f = [i \in m..n |-> IF i = m THEN b ELSE F[<<i, f[i - 1]>>]] BY <2>1
  <2> HIDE DEF f
  <2> QED BY <2>1, <2>2 DEF Loops
<1> QED BY <1>4, <1>5

(* Induction over sequences, for sets of sequences.                        *)
LEMMA SeqSets ==
  ASSUME NEW S, NEW T, <<>> \in T,
         \A s \in Seq(S), x \in S : s \in T => s \o <<x>> \in T
  PROVE  Seq(S) \subseteq T
<1> DEFINE N == {k \in Nat : \A s \in Seq(S) : Len(s) = k => s \in T}
<1>1. 0 \in N
  <2> SUFFICES ASSUME NEW s \in Seq(S), Len(s) = 0 PROVE s \in T OBVIOUS
  <2>1. s = <<>> BY EmptySeq
  <2> QED BY <2>1
<1>2. ASSUME NEW k \in Nat, k \in N PROVE k + 1 \in N
  <2> SUFFICES ASSUME NEW s \in Seq(S), Len(s) = k + 1 PROVE s \in T OBVIOUS
  <2>1. s # <<>> BY EmptySeq
  <2>2. PICK t \in Seq(S), x \in S : s = Append(t, x) BY <2>1, SequenceEmptyOrAppend
  <2>3. Len(t) = k BY <2>2, AppendProperties, LenProperties
  <2>4. t \in T BY <2>3, <1>2
  <2>5. s = t \o <<x>> BY <2>2, AppendIsConcat
  <2> QED BY <2>4, <2>5
<1> HIDE DEF N
<1>3. Nat \subseteq N BY <1>1, <1>2, NatSets
<1>4. \A s \in Seq(S) : Len(s) \in Nat BY LenProperties
<1> QED BY <1>3, <1>4 DEF N

LEMMA FlattenRules ==
  ASSUME NEW T
  PROVE  /\ FlattenSeq(<<>>) = <<>>
         /\ \A ss \in Seq(Seq(T)) : FlattenSeq(ss) \in Seq(T)
         /\ \A ss \in Seq(Seq(T)), s \in Seq(T) : FlattenSeq(ss \o <<s>>) = FlattenSeq(ss) \o s
<1> DEFINE Is(f, ss) == f = [i \in 1..Len(ss) |-> IF i = 1 THEN ss[i] ELSE f[i - 1] \o ss[i]]
           fun(ss) == CHOOSE f : Is(f, ss)
<1>1. FlattenSeq(<<>>) = <<>> BY EmptySeq DEF FlattenSeq
<1>2. ASSUME NEW ss \in Seq(Seq(T)), ss # <<>>
      PROVE  /\ Len(ss) \in Nat \ {0} /\ FlattenSeq(ss) = fun(ss)[Len(ss)]
             /\ \A i \in 1..Len(ss) : fun(ss)[i] \in Seq(T)
             /\ fun(ss)[1] = ss[1]
             /\ \A i \in 2..Len(ss) : fun(ss)[i] = fun(ss)[i - 1] \o ss[i]
  <2> DEFINE n == Len(ss)
             P == [i \in 1..n |-> Seq(T)]
             F == [p \in (2..n) \X Seq(T) |-> p[2] \o ss[p[1]]]
             u == fun(ss)
  <2>1. n \in Nat \ {0} BY <1>2, EmptySeq
  <2>2. \A i \in 1..n : ss[i] \in Seq(T) BY ElementOfSeq
  <2>3. FlattenSeq(ss) = u[n] BY <2>1 DEF FlattenSeq
  <2>4. \A i \in 2..n : \A v \in Seq(T) : F[<<i, v>>] = v \o ss[i] OBVIOUS
  <2>5. \A i \in 2..n : \A v \in Seq(T) : v \o ss[i] \in Seq(T)
    <3> SUFFICES ASSUME NEW i \in 2..n, NEW v \in Seq(T) PROVE v \o ss[i] \in Seq(T) OBVIOUS
    <3>1. ss[i] \in Seq(T) BY <2>1, <2>2
    <3> QED BY <3>1, ConcatFacts
  <2>6. \A i \in 1..n : P[i] = Seq(T) OBVIOUS
  <2> HIDE DEF P, F, n, u
  <2>7. PICK f : Loops(1, n, ss[1], F, f) /\ \A i \in 1..n : f[i] \in P[i]
    <3>1. ss[1] \in P[1] BY <2>1, <2>2, <2>6
    <3>2. \A i \in 1..n : i # 1 => \A v \in P[i - 1] : F[<<i, v>>] \in P[i]
      <4> SUFFICES ASSUME NEW i \in 1..n, i # 1, NEW v \in P[i - 1] PROVE F[<<i, v>>] \in P[i]
        OBVIOUS
      <4>1. i - 1 \in 1..n /\ i \in 2..n BY <2>1
      <4>2. v \in Seq(T) BY <2>6, <4>1
      <4> QED BY <2>4, <2>5, <2>6, <4>1, <4>2
    <3>3. 1 \in Int /\ n \in Int BY <2>1
    <3> QED BY <3>1, <3>2, <3>3, Loop
  <2>8. Is(f, ss)
    <3>1. f = [i \in 1..n |-> IF i = 1 THEN ss[1] ELSE F[<<i, f[i - 1]>>]] BY <2>7 DEF Loops
    <3>2. \A i \in 1..n : i # 1 => F[<<i, f[i - 1]>>] = f[i - 1] \o ss[i]
      <4> SUFFICES ASSUME NEW i \in 1..n, i # 1 PROVE F[<<i, f[i - 1]>>] = f[i - 1] \o ss[i] OBVIOUS
      <4>1. i \in 2..n /\ i - 1 \in 1..n BY <2>1
      <4> QED BY <2>4, <2>6, <2>7, <4>1
    <3>3. f = [i \in 1..n |-> f[i]] BY <3>1
    <3>4. \A i \in 1..n : f[i] = IF i = 1 THEN ss[i] ELSE f[i - 1] \o ss[i] BY <3>1, <3>2
    <3> QED BY <3>3, <3>4 DEF n
  <2>9. Is(u, ss) BY <2>8 DEF u
  <2>10. \A i \in 1..n : u[i] = IF i = 1 THEN ss[i] ELSE u[i - 1] \o ss[i] BY <2>9 DEF n
  <2>11. u[1] = ss[1] BY <2>1, <2>10
  <2>12. ASSUME NEW i \in 2..n PROVE u[i] = u[i - 1] \o ss[i]
    <3>1. i \in 1..n /\ i # 1 BY <2>1
    <3> QED BY <2>10, <3>1
  <2>13. \A i \in 1..n : u[i] \in P[i]
    <3>1. u[1] \in P[1] BY <2>1, <2>2, <2>6, <2>11
    <3>2. \A i \in 1..n : i # 1 /\ u[i - 1] \in P[i - 1] => u[i] \in P[i]
      <4> SUFFICES ASSUME NEW i \in 1..n, i # 1, u[i - 1] \in P[i - 1] PROVE u[i] \in P[i]
        OBVIOUS
      <4>1. i - 1 \in 1..n /\ i \in 2..n BY <2>1
      <4> QED BY <2>5, <2>6, <2>12, <4>1
    <3>3. 1 \in Int /\ n \in Int BY <2>1
    <3> QED BY <3>1, <3>2, <3>3, LoopKeeps
  <2> QED BY <2>1, <2>3, <2>6, <2>11, <2>12, <2>13 DEF u, n
<1> HIDE DEF fun
<1>3. ASSUME NEW ss \in Seq(Seq(T)) PROVE FlattenSeq(ss) \in Seq(T)
  <2>1. CASE ss = <<>>
    <3>1. <<>> \in Seq(T) BY EmptySeq
    <3> QED BY <2>1, <3>1, <1>1
  <2>2. CASE ss # <<>>
    <3>1. Len(ss) \in 1..Len(ss) BY <1>2, <2>2
    <3> QED BY <1>2, <2>2, <3>1
  <2> QED BY <2>1, <2>2
<1>4. ASSUME NEW ss \in Seq(Seq(T)), NEW s \in Seq(T)
      PROVE  FlattenSeq(ss \o <<s>>) = FlattenSeq(ss) \o s
  <2> DEFINE tt == ss \o <<s>>
             n == Len(ss)
  <2>1. /\ tt \in Seq(Seq(T)) /\ Len(tt) = n + 1 /\ n \in Nat /\ tt[n + 1] = s
        /\ \A i \in 1..n : tt[i] = ss[i]
    <3>1. <<s>> \in Seq(Seq(T)) /\ Len(<<s>>) = 1 /\ <<s>>[1] = s BY OneSeq
    <3>2. 1 \in 1..Len(<<s>>) BY <3>1
    <3> HIDE DEF n
    <3> QED BY <3>1, <3>2, ConcatFacts DEF n
  <2> HIDE DEF tt
  <2>2. tt # <<>> BY <2>1, EmptySeq
  <2>3. CASE ss = <<>>
    <3>1. n = 0 BY <2>3, EmptySeq
    <3>2. FlattenSeq(tt) = s
      <4>1. FlattenSeq(tt) = fun(tt)[Len(tt)] /\ fun(tt)[1] = tt[1] BY <1>2, <2>1, <2>2
      <4> QED BY <4>1, <2>1, <3>1
    <3>3. <<>> \o s = s BY ConcatEmptySeq
    <3> QED BY <1>1, <2>3, <3>2, <3>3 DEF tt
  <2>4. CASE ss # <<>>
    <3>1. n \in Nat \ {0} BY <1>2, <2>4
    <3> DEFINE P == [i \in 1..n |-> {fun(ss)[i]}]
    <3>2. \A i \in 1..n : fun(tt)[i] \in P[i]
      <4>1. fun(tt)[1] = tt[1] /\ fun(ss)[1] = ss[1] BY <1>2, <2>1, <2>2, <2>4
      <4>2. \A i \in 2..n : /\ fun(tt)[i] = fun(tt)[i - 1] \o tt[i]
                            /\ fun(ss)[i] = fun(ss)[i - 1] \o ss[i]
        <5>1. \A i \in 2..(n + 1) : fun(tt)[i] = fun(tt)[i - 1] \o tt[i] BY <1>2, <2>1, <2>2
        <5>2. \A i \in 2..n : fun(ss)[i] = fun(ss)[i - 1] \o ss[i] BY <1>2, <2>4
        <5>3. \A i \in 2..n : i \in 2..(n + 1) BY <3>1
        <5> QED BY <5>1, <5>2, <5>3
      <4>3. fun(tt)[1] \in P[1] BY <2>1, <3>1, <4>1
      <4>4. \A i \in 1..n : i # 1 /\ fun(tt)[i - 1] \in P[i - 1] => fun(tt)[i] \in P[i]
        <5> SUFFICES ASSUME NEW i \in 1..n, i # 1, fun(tt)[i - 1] \in P[i - 1]
                     PROVE  fun(tt)[i] \in P[i]
          OBVIOUS
        <5>1. i \in 2..n /\ i - 1 \in 1..n BY <3>1
        <5> QED BY <2>1, <4>2, <5>1
      <4>5. 1 \in Int /\ n \in Int BY <3>1
      <4> HIDE DEF P, n
      <4> DEFINE w == fun(tt)
      <4> HIDE DEF w
      <4>6. w[1] \in P[1] /\ \A i \in 1..n : i # 1 /\ w[i - 1] \in P[i - 1] => w[i] \in P[i]
        BY <4>3, <4>4 DEF w
      <4>7. \A i \in 1..n : w[i] \in P[i] BY <4>5, <4>6, LoopKeeps
      <4> QED BY <4>7 DEF w
    <3>3. fun(tt)[n] = fun(ss)[n]
      <4>1. n \in 1..n BY <3>1
      <4> QED BY <3>2, <4>1
    <3>4. FlattenSeq(tt) = fun(tt)[n + 1] BY <1>2, <2>1, <2>2
    <3>5. n + 1 \in 2..(n + 1) /\ (n + 1) - 1 = n BY <3>1
    <3>6. fun(tt)[n + 1] = fun(tt)[n] \o s BY <1>2, <2>1, <2>2, <3>5
    <3>7. FlattenSeq(ss) = fun(ss)[n] BY <1>2, <2>4
    <3> QED BY <3>3, <3>4, <3>6, <3>7 DEF tt
  <2> QED BY <2>3, <2>4
<1> QED BY <1>1, <1>3, <1>4

-----------------------------------------------------------------------------
(* The elements in a sequence of leaves                                    *)

Data(g, s) == FlattenSeq([k \in DOMAIN s |-> g.data[s[k]]])

LEMMA ValsAssociative == \A a, b, c \in Seq(Vals) : (a \o b) \o c = a \o (b \o c)
BY ConcatAssociative

LEMMA DataRules ==
  ASSUME NEW g \in Heaps
  PROVE  /\ Data(g, <<>>) = <<>>
         /\ \A s \in Seq(Leaves) : Data(g, s) \in Seq(Vals)
         /\ \A l \in Leaves : Data(g, <<l>>) = g.data[l]
         /\ \A s \in Seq(Leaves), l \in Leaves : Data(g, s \o <<l>>) = Data(g, s) \o g.data[l]
         /\ \A s, t \in Seq(Leaves) : Data(g, s \o t) = Data(g, s) \o Data(g, t)
<1> DEFINE ss(s) == [k \in DOMAIN s |-> g.data[s[k]]]
<1>0. g.data \in [Leaves -> Seq(Vals)] BY HeapFacts
<1>1. \A s \in Seq(Leaves) : ss(s) \in Seq(Seq(Vals)) /\ Len(ss(s)) = Len(s)
                             /\ \A i \in 1..Len(s) : ss(s)[i] = g.data[s[i]]
  <2> SUFFICES ASSUME NEW s \in Seq(Leaves)
               PROVE  ss(s) \in Seq(Seq(Vals)) /\ Len(ss(s)) = Len(s)
                      /\ \A i \in 1..Len(s) : ss(s)[i] = g.data[s[i]]
    OBVIOUS
  <2>1. Len(s) \in Nat /\ DOMAIN s = 1..Len(s) BY LenProperties
  <2>2. \A i \in 1..Len(s) : g.data[s[i]] \in Seq(Vals) BY <1>0, ElementOfSeq
  <2>3. ss(s) = [k \in 1..Len(s) |-> g.data[s[k]]] BY <2>1
  <2>4. ss(s) \in Seq(Seq(Vals)) BY <2>1, <2>2, <2>3, SeqDef
  <2>5. Len(ss(s)) = Len(s) BY <2>1, <2>3
  <2> QED BY <2>3, <2>4, <2>5
<1>2. Data(g, <<>>) = <<>>
  <2>1. ss(<<>>) = <<>> BY EmptySeq
  <2> QED BY <2>1, FlattenRules DEF Data
<1>3. \A s \in Seq(Leaves) : Data(g, s) \in Seq(Vals)
  <2> HIDE DEF ss
  <2>1. \A s : Data(g, s) = FlattenSeq(ss(s)) BY DEF Data, ss
  <2> QED BY <1>1, <2>1, FlattenRules
<1>4. ASSUME NEW s \in Seq(Leaves), NEW l \in Leaves
      PROVE  Data(g, s \o <<l>>) = Data(g, s) \o g.data[l]
  <2> DEFINE n == Len(s)
             t == s \o <<l>>
             d == g.data[l]
  <2>1. <<l>> \in Seq(Leaves) /\ Len(<<l>>) = 1 /\ <<l>>[1] = l /\ 1 \in 1..Len(<<l>>) BY OneSeq
  <2>2. /\ t \in Seq(Leaves) /\ Len(t) = n + 1 /\ n \in Nat /\ t[n + 1] = l
        /\ \A i \in 1..n : t[i] = s[i]
    <3> HIDE DEF n
    <3> QED BY <2>1, ConcatFacts DEF n
  <2>3. d \in Seq(Vals) BY <1>0
  <2>4. <<d>> \in Seq(Seq(Vals)) /\ Len(<<d>>) = 1 /\ <<d>>[1] = d /\ 1 \in 1..Len(<<d>>)
    BY <2>3, OneSeq
  <2>5. ss(s) \in Seq(Seq(Vals)) /\ Len(ss(s)) = n /\ \A i \in 1..n : ss(s)[i] = g.data[s[i]]
    BY <1>1
  <2>6. ss(t) \in Seq(Seq(Vals)) /\ Len(ss(t)) = n + 1
        /\ \A i \in 1..(n + 1) : ss(t)[i] = g.data[t[i]]
    BY <1>1, <2>2
  <2> HIDE DEF ss, t, d, n
  <2>7. ss(t) = ss(s) \o <<d>>
    <3> DEFINE u == ss(s) \o <<d>>
    <3>1. /\ u \in Seq(Seq(Vals)) /\ Len(u) = n + 1 /\ u[n + 1] = d
          /\ \A i \in 1..n : u[i] = g.data[s[i]]
      BY <2>4, <2>5, ConcatFacts
    <3> HIDE DEF u
    <3>2. ASSUME NEW i \in 1..(n + 1) PROVE ss(t)[i] = u[i]
      <4>1. CASE i = n + 1 BY <4>1, <2>2, <2>6, <3>1 DEF d
      <4>2. CASE i # n + 1
        <5>1. i \in 1..n BY <2>2, <4>2
        <5> QED BY <5>1, <2>2, <2>6, <3>1
      <4> QED BY <4>1, <4>2
    <3>3. ss(t) = u BY <2>6, <3>1, <3>2, SeqEqual
    <3> QED BY <3>3 DEF u
  <2>8. FlattenSeq(ss(s) \o <<d>>) = FlattenSeq(ss(s)) \o d BY <2>3, <2>5, FlattenRules
  <2>9. Data(g, t) = FlattenSeq(ss(t)) /\ Data(g, s) = FlattenSeq(ss(s)) BY DEF Data, ss
  <2> QED BY <2>7, <2>8, <2>9 DEF t, d
<1>5. ASSUME NEW l \in Leaves PROVE Data(g, <<l>>) = g.data[l]
  <2>1. <<>> \in Seq(Leaves) /\ <<>> \o <<l>> = <<l>> BY EmptySeq, OneSeq, ConcatEmptySeq
  <2>2. Data(g, <<>> \o <<l>>) = Data(g, <<>>) \o g.data[l] BY <1>4, <2>1
  <2>3. g.data[l] \in Seq(Vals) BY <1>0
  <2>4. <<>> \o g.data[l] = g.data[l] BY <2>3, ConcatEmptySeq
  <2> QED BY <1>2, <2>1, <2>2, <2>4
<1>6. ASSUME NEW s \in Seq(Leaves), NEW t \in Seq(Leaves)
      PROVE  Data(g, s \o t) = Data(g, s) \o Data(g, t)
  <2> DEFINE T == {w \in Seq(Leaves) : Data(g, s \o w) = Data(g, s) \o Data(g, w)}
  <2>1. <<>> \in T
    <3>1. s \o <<>> = s /\ Data(g, s) \o <<>> = Data(g, s) /\ <<>> \in Seq(Leaves)
      BY <1>3, ConcatEmptySeq, EmptySeq
    <3> QED BY <3>1, <1>2
  <2>2. ASSUME NEW w \in Seq(Leaves), NEW l \in Leaves, w \in T PROVE w \o <<l>> \in T
    <3>1. <<l>> \in Seq(Leaves) BY OneSeq
    <3>2. w \o <<l>> \in Seq(Leaves) /\ s \o w \in Seq(Leaves) BY <3>1, ConcatFacts
    <3>3. s \o (w \o <<l>>) = (s \o w) \o <<l>> BY <3>1, ConcatAssociative
    <3>4. Data(g, (s \o w) \o <<l>>) = Data(g, s \o w) \o g.data[l] BY <1>4, <3>2
    <3>5. Data(g, w \o <<l>>) = Data(g, w) \o g.data[l] BY <1>4
    <3>6. Data(g, s \o w) = Data(g, s) \o Data(g, w) BY <2>2
    <3>7. g.data[l] \in Seq(Vals) /\ Data(g, s) \in Seq(Vals) /\ Data(g, w) \in Seq(Vals)
      BY <1>0, <1>3
    <3> DEFINE a == Data(g, s)
               b == Data(g, w)
               c == g.data[l]
    <3>8. (a \o b) \o c = a \o (b \o c)
      <4>1. a \in Seq(Vals) /\ b \in Seq(Vals) /\ c \in Seq(Vals) BY <3>7
      <4> HIDE DEF a, b, c
      <4> QED BY <4>1, ValsAssociative
    <3> QED BY <3>2, <3>3, <3>4, <3>5, <3>6, <3>8
  <2> HIDE DEF T
  <2>3. Seq(Leaves) \subseteq T BY <2>1, <2>2, SeqSets
  <2> QED BY <2>3 DEF T
<1> QED BY <1>2, <1>3, <1>4, <1>5, <1>6

LEMMA DataSame ==
  ASSUME NEW g, NEW k, NEW s \in Seq(Leaves), \A l \in ToSet(s) : k.data[l] = g.data[l]
  PROVE  Data(k, s) = Data(g, s)
<1>1. \A i \in DOMAIN s : k.data[s[i]] = g.data[s[i]] BY DEF ToSet
<1>2. [i \in DOMAIN s |-> k.data[s[i]]] = [i \in DOMAIN s |-> g.data[s[i]]] BY <1>1
<1> QED BY <1>2 DEF Data

(* The elements under x.                                                   *)
Elems(g, x) == Data(g, LeavesUnder(g, x))

LEMMA LeafSeqs ==
  ASSUME NEW g \in Heaps, NEW S, Trees(g, S), NEW x \in g.live
  PROVE  LeavesUnder(g, x) \in Seq(Leaves) /\ Len(LeavesUnder(g, x)) \in Nat \ {0}
<1>1. LeavesUnder(g, x) \in Seq(LiveLeaves(g)) /\ LeavesUnder(g, x) # <<>> BY LeavesRules
<1>2. LiveLeaves(g) \subseteq Leaves BY DEF LiveLeaves
<1>3. LeavesUnder(g, x) \in Seq(Leaves) BY <1>1, <1>2, SeqMonotonic
<1> QED BY <1>1, <1>3, EmptySeq

(* Lengths are numbers of elements.                                        *)
LEMMA SizeIs ==
  ASSUME NEW g \in Heaps, NEW S, Trees(g, S), Sizes(g), NEW x \in g.live
  PROVE  /\ g.nelems[x] = Len(Elems(g, x)) /\ Elems(g, x) \in Seq(Vals)
         /\ g.nelems[x] <= Grain * Len(LeavesUnder(g, x))
<1> DEFINE L(z) == LeavesUnder(g, z)
           P(z) == /\ g.nelems[z] = Len(Data(g, L(z))) /\ Data(g, L(z)) \in Seq(Vals)
                   /\ g.nelems[z] <= Grain * Len(L(z))
           T == {z \in g.live : P(z)}
<1>0. Grain \in Nat BY GrainAssumption
<1>1. ASSUME NEW l \in LiveLeaves(g) PROVE l \in T
  <2>1. l \in g.live /\ l \in Leaves /\ L(l) = <<l>> BY LeavesRules DEF LiveLeaves
  <2>2. Len(<<l>>) = 1 BY OneSeq
  <2>3. Data(g, <<l>>) = g.data[l] /\ g.data[l] \in Seq(Vals) BY <2>1, DataRules, HeapFacts
  <2>4. g.nelems[l] = Len(g.data[l]) /\ g.nelems[l] <= Grain BY DEF Sizes
  <2>5. Grain * 1 = Grain BY <1>0
  <2> HIDE DEF L
  <2> QED BY <2>1, <2>2, <2>3, <2>4, <2>5
<1>2. ASSUME NEW n \in Nodes(g), g.left[n] \in T, g.right[n] \in T PROVE n \in T
  <2> DEFINE a == g.left[n]
             b == g.right[n]
  <2>1. n \in g.live /\ a \in g.live /\ b \in g.live BY NodeFacts
  <2>2. /\ L(a) \in Seq(Leaves) /\ L(b) \in Seq(Leaves)
        /\ Len(L(a)) \in Nat /\ Len(L(b)) \in Nat
    BY <2>1, LeafSeqs
  <2>3. L(n) = L(a) \o L(b) BY LeavesRules
  <2>4. P(a) /\ P(b) BY <1>2
  <2>5. g.nelems[n] = g.nelems[a] + g.nelems[b] BY DEF Sizes
  <2> HIDE DEF L, a, b
  <2>6. Data(g, L(n)) = Data(g, L(a)) \o Data(g, L(b)) BY <2>2, <2>3, DataRules
  <2>7. /\ Data(g, L(n)) \in Seq(Vals)
        /\ Len(Data(g, L(n))) = Len(Data(g, L(a))) + Len(Data(g, L(b)))
        /\ Len(Data(g, L(a))) \in Nat /\ Len(Data(g, L(b))) \in Nat
    BY <2>4, <2>6, ConcatFacts
  <2>8. Len(L(n)) = Len(L(a)) + Len(L(b)) BY <2>2, <2>3, ConcatFacts
  <2>9. Grain * (Len(L(a)) + Len(L(b))) = Grain * Len(L(a)) + Grain * Len(L(b)) BY <1>0, <2>2
  <2>10. g.nelems[n] <= Grain * Len(L(n))
    <3> DEFINE p == Grain * Len(L(a))
               q == Grain * Len(L(b))
    <3>1. p \in Nat /\ q \in Nat BY <1>0, <2>2
    <3>2. g.nelems[a] <= p /\ g.nelems[b] <= q /\ g.nelems[a] \in Nat /\ g.nelems[b] \in Nat
      BY <2>4, <2>7
    <3> HIDE DEF p, q
    <3>3. g.nelems[a] + g.nelems[b] <= p + q BY <3>1, <3>2
    <3> QED BY <2>5, <2>8, <2>9, <3>3 DEF p, q
  <2> QED BY <2>1, <2>4, <2>5, <2>7, <2>10
<1> HIDE DEF T
<1>3. g.live \subseteq T BY <1>1, <1>2, TreeSets
<1> QED BY <1>3 DEF T, Elems

LEMMA DistinctLen ==
  ASSUME NEW T, IsFiniteSet(T), NEW s \in Seq(T), Distinct(s)
  PROVE  Len(s) <= Cardinality(T)
<1>1. Len(s) \in Nat /\ s \in [1..Len(s) -> T] BY LenProperties
<1>2. s \in Injection(1..Len(s), T) BY <1>1 DEF Distinct, Injection, IsInjective
<1>3. Cardinality(1..Len(s)) <= Cardinality(T) BY <1>2, FS_Injection
<1>4. 1 \in Int /\ Len(s) \in Int BY <1>1
<1>5. Cardinality(1..Len(s)) = IF 1 > Len(s) THEN 0 ELSE Len(s) - 1 + 1 BY <1>4, FS_Interval
<1> QED BY <1>1, <1>3, <1>5

-----------------------------------------------------------------------------
(* Allocating and concatenating                                            *)

(* There are as many nodes as leaves and no roots: concatenations          *)
LEMMA Counting ==
  ASSUME NEW g \in Heaps, NEW S, Trees(g, S)
  PROVE  /\ IsFiniteSet(Nodes(g)) /\ IsFiniteSet(S) /\ IsFiniteSet(LiveLeaves(g))
         /\ Cardinality(Nodes(g)) + Cardinality(S) = Cardinality(LiveLeaves(g))
<1> DEFINE A == {g.left[n] : n \in Nodes(g)}
           B == {g.right[n] : n \in Nodes(g)}
           fa == [n \in Nodes(g) |-> g.left[n]]
           fb == [n \in Nodes(g) |-> g.right[n]]
<1>1. IsFiniteSet(g.live) BY HeapFacts
<1>2. /\ Nodes(g) \subseteq g.live /\ S \subseteq g.live /\ LiveLeaves(g) \subseteq g.live
      /\ LiveLeaves(g) = g.live \ Nodes(g) /\ Nodes(g) \intersect g.live = Nodes(g)
      /\ g.live \intersect Nodes(g) = Nodes(g) /\ g.live \intersect S = S
  BY HeapFacts DEF Nodes, LiveLeaves, Trees
<1>3. IsFiniteSet(Nodes(g)) /\ IsFiniteSet(S) /\ IsFiniteSet(LiveLeaves(g))
  BY <1>1, <1>2, FS_Subset
<1>4. fa \in Bijection(Nodes(g), A)
  <2>1. \A n, m \in Nodes(g) : g.left[n] = g.left[m] => n = m BY NodeFacts
  <2> QED BY <2>1 DEF Bijection, Injection, Surjection, IsInjective
<1>5. fb \in Bijection(Nodes(g), B)
  <2>1. \A n, m \in Nodes(g) : g.right[n] = g.right[m] => n = m BY NodeFacts
  <2> QED BY <2>1 DEF Bijection, Injection, Surjection, IsInjective
<1> HIDE DEF fa, fb
<1>6. /\ IsFiniteSet(A) /\ Cardinality(A) = Cardinality(Nodes(g))
      /\ IsFiniteSet(B) /\ Cardinality(B) = Cardinality(Nodes(g))
  <2>1. ExistsBijection(Nodes(g), A) /\ ExistsBijection(Nodes(g), B)
    BY <1>4, <1>5 DEF ExistsBijection
  <2> HIDE DEF A, B
  <2> QED BY <1>3, <2>1, FS_Bijection
<1>7. A \intersect B = {}
  <2> SUFFICES ASSUME NEW n \in Nodes(g), NEW m \in Nodes(g), g.left[n] = g.right[m] PROVE FALSE
    OBVIOUS
  <2>1. n = m BY NodeFacts
  <2> QED BY <2>1, NodeFacts
<1>8. g.live \ S = A \union B
  <2>1. \A n \in Nodes(g) : g.left[n] \in g.live \ S /\ g.right[n] \in g.live \ S BY NodeFacts
  <2>2. \A x \in g.live \ S : x \in A \union B
    <3> SUFFICES ASSUME NEW x \in g.live \ S PROVE x \in A \union B OBVIOUS
    <3>1. g.parent[x] \in Nodes(g) /\ (x = g.left[g.parent[x]] \/ x = g.right[g.parent[x]])
      BY DEF Trees, Child
    <3> QED BY <3>1
  <2> QED BY <2>1, <2>2
<1> HIDE DEF A, B
<1>9. Cardinality(A \union B) = Cardinality(A) + Cardinality(B) - Cardinality(A \intersect B)
  BY <1>6, FS_Union
<1>10. Cardinality(A \intersect B) = 0 BY <1>7, FS_EmptySet
<1>11. Cardinality(g.live \ S) = Cardinality(g.live) - Cardinality(S)
  <2> DEFINE L == g.live
  <2>1. IsFiniteSet(L) /\ L \intersect S = S BY <1>1, <1>2
  <2> HIDE DEF L
  <2>2. Cardinality(L \ S) = Cardinality(L) - Cardinality(L \intersect S) BY <2>1, FS_Difference
  <2> QED BY <2>1, <2>2 DEF L
<1>12. Cardinality(g.live \ Nodes(g)) = Cardinality(g.live) - Cardinality(Nodes(g))
  <2> DEFINE N == Nodes(g)
             L == g.live
  <2> HIDE DEF N, L
  <2>1. IsFiniteSet(L) /\ L \intersect N = N BY <1>1, <1>2 DEF N, L
  <2>2. Cardinality(L \ N) = Cardinality(L) - Cardinality(L \intersect N) BY <2>1, FS_Difference
  <2> QED BY <2>1, <2>2 DEF N, L
<1>13. /\ Cardinality(g.live) \in Nat /\ Cardinality(S) \in Nat /\ Cardinality(Nodes(g)) \in Nat
       /\ Cardinality(A) \in Nat /\ Cardinality(B) \in Nat
  BY <1>1, <1>3, <1>6, FS_CardinalityType
<1>14. Cardinality(A \union B) = Cardinality(Nodes(g)) + Cardinality(Nodes(g))
  BY <1>6, <1>9, <1>10, <1>13
<1>15. Cardinality(g.live) - Cardinality(S) = Cardinality(Nodes(g)) + Cardinality(Nodes(g))
  BY <1>8, <1>11, <1>14
<1>16. Cardinality(LiveLeaves(g)) = Cardinality(g.live) - Cardinality(Nodes(g)) BY <1>2, <1>12
<1> QED BY <1>3, <1>13, <1>15, <1>16

(* For two trees there is a node to concatenate them.                      *)
LEMMA NodeLeft ==
  ASSUME NEW g \in Heaps, NEW S, Trees(g, S), NEW a \in S, NEW b \in S, a # b
  PROVE  NewNode(g) \in Inner \ g.live
<1>1. Cardinality(Nodes(g)) + Cardinality(S) = Cardinality(LiveLeaves(g))
      /\ IsFiniteSet(Nodes(g)) /\ IsFiniteSet(S) /\ IsFiniteSet(LiveLeaves(g))
  BY Counting
<1>2. Cardinality(S) >= 2
  <2>1. IsFiniteSet({b}) /\ Cardinality({b}) = 1 BY FS_Singleton
  <2>2. Cardinality({b} \union {a}) = Cardinality({b}) + 1 /\ IsFiniteSet({b} \union {a})
    BY <2>1, FS_AddElement
  <2>3. {b} \union {a} \in SUBSET S OBVIOUS
  <2>4. Cardinality({b} \union {a}) <= Cardinality(S) BY <1>1, <2>3, FS_Subset
  <2>5. Cardinality(S) \in Nat BY <1>1, FS_CardinalityType
  <2> QED BY <2>1, <2>2, <2>4, <2>5
<1>3. Cardinality(LiveLeaves(g)) <= Cardinality(Leaves)
  <2>1. LiveLeaves(g) \in SUBSET Leaves BY DEF LiveLeaves
  <2> QED BY <2>1, HdrsAssumption, FS_Subset
<1>4. /\ Cardinality(Nodes(g)) \in Nat /\ Cardinality(S) \in Nat
      /\ Cardinality(LiveLeaves(g)) \in Nat /\ Cardinality(Leaves) \in Nat /\ Cardinality(Inner) \in Nat
  BY <1>1, HdrsAssumption, FS_CardinalityType
<1>5. Cardinality(Inner) > Cardinality(Nodes(g)) BY <1>1, <1>2, <1>3, <1>4, InnerAssumption
<1>6. Inner \ g.live # {}
  <2> SUFFICES ASSUME Inner \ g.live = {} PROVE FALSE OBVIOUS
  <2>1. Nodes(g) = Inner BY DEF Nodes
  <2> QED BY <2>1, <1>4, <1>5
<1>7. Inner \ g.live \subseteq Nat BY HdrsAssumption
<1>8. Min(Inner \ g.live) \in Inner \ g.live BY <1>6, <1>7, MinIs
<1> QED BY <1>8 DEF NewNode

(* Trees of one heap are in another, with the same elements.               *)
Keeps(g, k) ==
  /\ g.live \subseteq k.live /\ k.data = g.data /\ k.root = g.root /\ k.tail = g.tail
  /\ \A x \in g.live :
       /\ k.nelems[x] = g.nelems[x]
       /\ LeavesUnder(k, x) = LeavesUnder(g, x) /\ InnerUnder(k, x) = InnerUnder(g, x)

LEMMA KeepsFacts ==
  /\ \A g : Keeps(g, g)
  /\ \A f, g, k : Keeps(f, g) /\ Keeps(g, k) => Keeps(f, k)
  /\ \A g, k : Keeps(g, k) => \A x \in g.live : All(k, x) = All(g, x) /\ Elems(k, x) = Elems(g, x)
<1>1. \A g : Keeps(g, g) BY DEF Keeps
<1>2. ASSUME NEW f, NEW g, NEW k, Keeps(f, g), Keeps(g, k) PROVE Keeps(f, k)
  <2>1. \A x \in f.live : x \in g.live BY <1>2 DEF Keeps
  <2>2. f.live \subseteq k.live /\ k.data = f.data /\ k.root = f.root /\ k.tail = f.tail
    BY <1>2 DEF Keeps
  <2>3. \A x \in f.live :
          /\ k.nelems[x] = f.nelems[x]
          /\ LeavesUnder(k, x) = LeavesUnder(f, x) /\ InnerUnder(k, x) = InnerUnder(f, x)
    BY <1>2, <2>1 DEF Keeps
  <2> QED BY <2>2, <2>3 DEF Keeps
<1>3. ASSUME NEW g, NEW k, Keeps(g, k), NEW x \in g.live
      PROVE  All(k, x) = All(g, x) /\ Elems(k, x) = Elems(g, x)
  <2>1. /\ k.data = g.data
        /\ LeavesUnder(k, x) = LeavesUnder(g, x) /\ InnerUnder(k, x) = InnerUnder(g, x)
    BY <1>3 DEF Keeps
  <2> QED BY <2>1 DEF All, Elems, Data
<1> QED BY <1>1, <1>2, <1>3

LEMMA ExceptType ==
  ASSUME NEW A, NEW B, NEW f \in [A -> B], NEW x, NEW v \in B
  PROVE  [f EXCEPT ![x] = v] \in [A -> B]
OBVIOUS

(* k is g and an empty leaf l.                                             *)
Allocated(g, S, l, k) ==
  /\ l \in Leaves \ g.live /\ Sound(k, S \union {l}) /\ Keeps(g, k)
  /\ k.live = g.live \union {l} /\ k.nelems[l] = 0 /\ k.data[l] = <<>>
  /\ LeavesUnder(k, l) = <<l>>
  /\ k.parent[l] = Null /\ \A x \in Hdrs \ {l} : k.parent[x] = g.parent[x]

LEMMA LeafAllocFacts ==
  ASSUME NEW g, NEW S, Sound(g, S), Leaves \ g.live # {},
         NEW l, l = NewLeaf(g), NEW k, k = LeafAlloc(g)
  PROVE  Allocated(g, S, l, k)
<1> USE DEF Sound
<1>1. l \in Leaves \ g.live
  <2>1. Leaves \ g.live \subseteq Nat BY HdrsAssumption
  <2> QED BY <2>1, MinIs DEF NewLeaf
<1>2. l \in Hdrs /\ l \notin Inner BY <1>1, HdrFacts
<1>3. /\ k.live = g.live \union {l} /\ k.left = g.left /\ k.right = g.right /\ k.depth = g.depth
      /\ k.nelems = [g.nelems EXCEPT ![l] = 0] /\ k.parent = [g.parent EXCEPT ![l] = Null]
      /\ k.data = g.data /\ k.root = g.root /\ k.tail = g.tail
  BY DEF LeafAlloc, Heaps
<1>4. k \in Heaps
  <2>1. k = [live |-> k.live, nelems |-> k.nelems, parent |-> k.parent, left |-> k.left,
             right |-> k.right, depth |-> k.depth, data |-> k.data, root |-> k.root, tail |-> k.tail]
    BY DEF LeafAlloc, Heaps
  <2>2. /\ k.live \subseteq Hdrs /\ k.nelems \in [Hdrs -> Nat]
        /\ k.parent \in [Hdrs -> Inner \union {Null}]
    BY <1>2, <1>3, HeapFacts
  <2> QED BY <1>3, <2>1, <2>2, HeapFacts DEF Heaps
<1>5. /\ \A x \in Hdrs \ {l} : k.nelems[x] = g.nelems[x] /\ k.parent[x] = g.parent[x]
      /\ k.nelems[l] = 0 /\ k.parent[l] = Null
  BY <1>2, <1>3, HeapFacts
<1>6. Nodes(k) = Nodes(g) /\ LiveLeaves(k) = LiveLeaves(g) \union {l}
  BY <1>1, <1>2, <1>3 DEF Nodes, LiveLeaves
<1>7. \A x : Depth(k, x) = Depth(g, x) BY <1>3 DEF Depth
<1>8. \A x \in g.live : x \in Hdrs \ {l} BY <1>1, HeapFacts
<1>9. Trees(k, S \union {l})
  <2>1. \A n \in Nodes(k) : Node(k, S \union {l}, n)
    <3> SUFFICES ASSUME NEW n \in Nodes(g) PROVE Node(k, S \union {l}, n) BY <1>6
    <3>1. Node(g, S, n) BY DEF Trees
    <3> QED BY <1>3, <1>5, <1>7, <1>8, <3>1 DEF Node
  <2>2. \A x \in k.live \ (S \union {l}) : Child(k, x)
    <3> SUFFICES ASSUME NEW x \in g.live \ S PROVE Child(k, x) BY <1>3
    <3>1. Child(g, x) BY DEF Trees
    <3> QED BY <1>3, <1>5, <1>6, <1>8, <3>1 DEF Child
  <2> QED BY <1>3, <2>1, <2>2 DEF Trees
<1>10. k.data[l] = <<>> BY <1>1, <1>3 DEF Sizes
<1>11. Sizes(k)
  <2>1. Len(k.data[l]) = 0 /\ 0 <= Grain BY <1>10, GrainAssumption
  <2>2. \A n \in Nodes(g) : g.left[n] \in g.live /\ g.right[n] \in g.live /\ n \in g.live BY NodeFacts
  <2> QED BY <1>1, <1>3, <1>5, <1>6, <1>8, <2>1, <2>2 DEF Sizes, LiveLeaves
<1>12. Depths(k) BY <1>3, <1>6, <1>7 DEF Depths, DepthIs
<1>13. Keeps(g, k)
  <2>1. \A x \in g.live :
          LeavesUnder(k, x) = LeavesUnder(g, x) /\ InnerUnder(k, x) = InnerUnder(g, x)
    <3> SUFFICES ASSUME NEW x \in g.live
                 PROVE  LeavesUnder(k, x) = LeavesUnder(g, x) /\ InnerUnder(k, x) = InnerUnder(g, x)
      OBVIOUS
    <3>1. All(g, x) \subseteq k.live BY <1>3, AllRules
    <3> QED BY <1>3, <1>4, <1>9, <3>1, SameUnder
  <2> QED BY <1>3, <1>5, <1>8, <2>1 DEF Keeps
<1>14. LeavesUnder(k, l) = <<l>>
  <2>1. l \in LiveLeaves(k) BY <1>6
  <2> QED BY <1>4, <1>9, <2>1, LeavesRules
<1> QED BY <1>1, <1>3, <1>4, <1>5, <1>9, <1>10, <1>11, <1>12, <1>13, <1>14 DEF Allocated

(* k is g and a node c with the roots a and b below it.                    *)
Concatenated(g, S, a, b, c, k) ==
  /\ c \in Inner \ g.live /\ Sound(k, (S \ {a, b}) \union {c}) /\ Keeps(g, k)
  /\ k.live = g.live \union {c}
  /\ k.nelems[c] = g.nelems[a] + g.nelems[b]
  /\ LeavesUnder(k, c) = LeavesUnder(g, a) \o LeavesUnder(g, b)
  /\ InnerUnder(k, c) = {c} \union InnerUnder(g, a) \union InnerUnder(g, b)
  /\ k.parent[c] = Null /\ \A x \in Hdrs \ {a, b, c} : k.parent[x] = g.parent[x]

LEMMA ConcatNodeFacts ==
  ASSUME NEW g, NEW S, Sound(g, S), NEW a \in S, NEW b \in S, a # b,
         NEW c, c = NewNode(g), NEW k, k = RpaConcat(g, a, b)
  PROVE  Concatenated(g, S, a, b, c, k)
<1> USE DEF Sound
<1> DEFINE R == (S \ {a, b}) \union {c}
<1>1. c \in Inner \ g.live BY NodeLeft
<1>2. /\ a \in g.live /\ b \in g.live /\ a # c /\ b # c /\ c \in Hdrs /\ a \in Hdrs /\ b \in Hdrs
      /\ c \notin Leaves
  BY <1>1, HdrFacts, HeapFacts DEF Trees
<1> DEFINE d == 1 + Max({Depth(g, a), Depth(g, b)})
<1>3. /\ k.live = g.live \union {c}
      /\ k.left = [g.left EXCEPT ![c] = a] /\ k.right = [g.right EXCEPT ![c] = b]
      /\ k.depth = [g.depth EXCEPT ![c] = d]
      /\ k.nelems = [g.nelems EXCEPT ![c] = g.nelems[a] + g.nelems[b]]
      /\ k.parent = [g.parent EXCEPT ![c] = Null, ![a] = c, ![b] = c]
      /\ k.data = g.data /\ k.root = g.root /\ k.tail = g.tail
  BY DEF RpaConcat, Heaps
<1>4. d \in Nat /\ Depth(g, a) < d /\ Depth(g, b) < d
  <2>1. Depth(g, a) \in Nat /\ Depth(g, b) \in Nat BY <1>2, HeapFacts
  <2> QED BY <2>1, MaxIs
<1>5. k \in Heaps
  <2>1. k = [live |-> k.live, nelems |-> k.nelems, parent |-> k.parent, left |-> k.left,
             right |-> k.right, depth |-> k.depth, data |-> k.data, root |-> k.root, tail |-> k.tail]
    BY DEF RpaConcat, Heaps
  <2> HIDE DEF d
  <2>2. /\ k.live \subseteq Hdrs /\ k.nelems \in [Hdrs -> Nat]
        /\ k.parent \in [Hdrs -> Inner \union {Null}]
    <3>1. g.live \subseteq Hdrs /\ g.nelems \in [Hdrs -> Nat] /\ g.parent \in [Hdrs -> Inner \union {Null}]
      BY HeapFacts
    <3>2. g.nelems[a] + g.nelems[b] \in Nat BY <1>2, <3>1
    <3>3. k.nelems \in [Hdrs -> Nat] BY <1>3, <3>1, <3>2, ExceptType
    <3>4. c \in Inner \union {Null} /\ Null \in Inner \union {Null} BY <1>1
    <3> DEFINE I == Inner \union {Null}
               p1 == [g.parent EXCEPT ![c] = Null]
               p2 == [p1 EXCEPT ![a] = c]
    <3>5. p1 \in [Hdrs -> I] BY <3>1, <3>4, ExceptType
    <3>6. p2 \in [Hdrs -> I]
      <4> HIDE DEF p1, I
      <4> QED BY <3>4, <3>5, ExceptType DEF I
    <3>7. k.parent \in [Hdrs -> I]
      <4>1. k.parent = [p2 EXCEPT ![b] = c] BY <1>3
      <4> HIDE DEF p2, I
      <4> QED BY <3>4, <3>6, <4>1, ExceptType DEF I
    <3> QED BY <1>2, <1>3, <3>1, <3>3, <3>7
  <2>3. k.left \in [Inner -> Hdrs \union {Null}] /\ k.right \in [Inner -> Hdrs \union {Null}]
        /\ k.depth \in [Inner -> Nat]
    BY <1>1, <1>2, <1>3, <1>4, HeapFacts
  <2> QED BY <1>3, <2>1, <2>2, <2>3, HeapFacts DEF Heaps
<1>6. /\ \A x \in Hdrs \ {c} : k.nelems[x] = g.nelems[x]
      /\ k.nelems[c] = g.nelems[a] + g.nelems[b]
      /\ \A x \in Hdrs \ {a, b, c} : k.parent[x] = g.parent[x]
      /\ k.parent[a] = c /\ k.parent[b] = c /\ k.parent[c] = Null
      /\ \A n \in Inner \ {c} :
           k.left[n] = g.left[n] /\ k.right[n] = g.right[n] /\ k.depth[n] = g.depth[n]
      /\ k.left[c] = a /\ k.right[c] = b /\ k.depth[c] = d
  BY <1>1, <1>2, <1>3, HeapFacts
<1>7. Nodes(k) = Nodes(g) \union {c} /\ LiveLeaves(k) = LiveLeaves(g) /\ c \notin Nodes(g)
  BY <1>1, <1>2, <1>3 DEF Nodes, LiveLeaves
<1> HIDE DEF d
<1>8. \A x \in g.live : x \in Hdrs \ {c} BY <1>1, HeapFacts
<1>9. /\ \A x \in g.live : Depth(k, x) = Depth(g, x)
      /\ Depth(k, c) = d
  <2>1. \A x \in g.live : x \in Leaves \/ x \in Inner \ {c} BY <1>8, HdrFacts
  <2> QED BY <1>2, <1>6, <2>1 DEF Depth
<1>10. \A n \in Nodes(g) :
         /\ n \in Inner \ {c} /\ n \in g.live /\ g.left[n] \in g.live /\ g.right[n] \in g.live
         /\ g.left[n] \notin {a, b} /\ g.right[n] \notin {a, b}
  BY <1>8, NodeFacts
<1>11. Trees(k, R)
  <2>1. ASSUME NEW n \in Nodes(g) PROVE Node(k, R, n)
    <3>1. Node(g, S, n) BY DEF Trees
    <3> QED BY <1>3, <1>6, <1>8, <1>9, <1>10, <3>1 DEF Node
  <2>2. Node(k, R, c) BY <1>2, <1>3, <1>4, <1>6, <1>9 DEF Node
  <2>3. \A x \in k.live \ R : Child(k, x)
    <3> SUFFICES ASSUME NEW x \in g.live, x \in {a, b} \/ x \notin S PROVE Child(k, x) BY <1>3
    <3>1. CASE x \in {a, b} BY <3>1, <1>6, <1>7 DEF Child
    <3>2. CASE x \notin {a, b}
      <4>1. Child(g, x) BY <3>2 DEF Trees
      <4> QED BY <1>6, <1>7, <1>8, <1>10, <3>2, <4>1 DEF Child
    <3> QED BY <3>1, <3>2
  <2>4. R \subseteq k.live BY <1>3 DEF Trees
  <2> QED BY <1>7, <2>1, <2>2, <2>3, <2>4 DEF Trees
<1> HIDE DEF R
<1>12. Sizes(k)
  <2>1. \A n \in Nodes(g) : k.nelems[n] = k.nelems[k.left[n]] + k.nelems[k.right[n]]
    BY <1>6, <1>8, <1>10 DEF Sizes
  <2>2. k.nelems[c] = k.nelems[k.left[c]] + k.nelems[k.right[c]] BY <1>2, <1>6
  <2>3. \A l \in LiveLeaves(k) : k.nelems[l] = g.nelems[l] BY <1>6, <1>7, <1>8 DEF LiveLeaves
  <2>4. \A l \in Leaves \ k.live : l \in Leaves \ g.live BY <1>3
  <2> QED BY <1>3, <1>7, <2>1, <2>2, <2>3, <2>4 DEF Sizes
<1>13. Depths(k)
  <2>1. \A n \in Nodes(g) : DepthIs(k, n) BY <1>6, <1>9, <1>10 DEF Depths, DepthIs
  <2>2. DepthIs(k, c) BY <1>2, <1>6, <1>9 DEF DepthIs, d
  <2> QED BY <1>7, <2>1, <2>2 DEF Depths
<1>14. \A x \in g.live :
         LeavesUnder(k, x) = LeavesUnder(g, x) /\ InnerUnder(k, x) = InnerUnder(g, x)
  <2> SUFFICES ASSUME NEW x \in g.live
               PROVE  LeavesUnder(k, x) = LeavesUnder(g, x) /\ InnerUnder(k, x) = InnerUnder(g, x)
    OBVIOUS
  <2>1. All(g, x) \subseteq k.live BY <1>3, AllRules
  <2>2. \A n \in InnerUnder(g, x) : k.left[n] = g.left[n] /\ k.right[n] = g.right[n]
    <3>1. InnerUnder(g, x) \subseteq Nodes(g) BY InnerRules
    <3> QED BY <1>6, <1>10, <3>1
  <2> QED BY <1>5, <1>11, <2>1, <2>2, SameUnder
<1>15. Keeps(g, k) BY <1>3, <1>6, <1>8, <1>14 DEF Keeps
<1>16. /\ LeavesUnder(k, c) = LeavesUnder(g, a) \o LeavesUnder(g, b)
       /\ InnerUnder(k, c) = {c} \union InnerUnder(g, a) \union InnerUnder(g, b)
  <2>1. c \in Nodes(k) BY <1>7
  <2>2. LeavesUnder(k, c) = LeavesUnder(k, k.left[c]) \o LeavesUnder(k, k.right[c])
    BY <1>5, <1>11, <2>1, LeavesRules
  <2>3. InnerUnder(k, c) = {c} \union InnerUnder(k, k.left[c]) \union InnerUnder(k, k.right[c])
    BY <1>5, <1>11, <2>1, InnerRules
  <2> QED BY <1>2, <1>6, <1>14, <2>2, <2>3
<1> QED BY <1>1, <1>3, <1>5, <1>6, <1>11, <1>12, <1>13, <1>15, <1>16 DEF R, Concatenated

-----------------------------------------------------------------------------
(* Growing and shrinking at the tail                                       *)

LEMMA LastApart ==
  ASSUME NEW g \in Heaps, NEW S, Trees(g, S), NEW x \in g.live,
         NEW t, t = Last(LeavesUnder(g, x))
  PROVE  /\ t \in LiveLeaves(g) /\ t \in Leaves /\ t \in All(g, x)
         /\ \E s \in Seq(Leaves) :
              /\ LeavesUnder(g, x) = s \o <<t>> /\ t \notin ToSet(s)
              /\ ToSet(s) \subseteq ToSet(LeavesUnder(g, x))
              /\ Elems(g, x) = Data(g, s) \o g.data[t]
<1> DEFINE L == LeavesUnder(g, x)
<1>1. L \in Seq(Leaves) /\ L \in Seq(LiveLeaves(g)) /\ L # <<>> /\ Distinct(L)
  BY LeafSeqs, LeavesRules, LeavesDistinct
<1>2. t \in LiveLeaves(g) /\ t \in Leaves /\ t \in All(g, x)
  <2> HIDE DEF L
  <2>1. t \in LiveLeaves(g) /\ t \in ToSet(L) /\ t \in Leaves BY <1>1, LastIs DEF L
  <2> QED BY <2>1 DEF All, L
<1> HIDE DEF L
<1>3. PICK s \in Seq(Leaves), l \in Leaves : L = Append(s, l) BY <1>1, SequenceEmptyOrAppend
<1>4. L = s \o <<l>> BY <1>3, AppendIsConcat
<1>5. /\ Len(L) = Len(s) + 1 /\ Len(s) \in Nat /\ L[Len(s) + 1] = l
      /\ \A i \in 1..Len(s) : L[i] = s[i]
  BY <1>3, AppendProperties, LenProperties
<1>6. l = t BY <1>1, <1>5, LastIs DEF L
<1>7. t \notin ToSet(s)
  <2> SUFFICES ASSUME NEW i \in 1..Len(s), s[i] = t PROVE FALSE BY ToSetFacts
  <2>1. i \in 1..Len(L) /\ Len(s) + 1 \in 1..Len(L) /\ i # Len(s) + 1 BY <1>5
  <2> QED BY <1>1, <1>5, <1>6, <2>1 DEF Distinct
<1>8. ToSet(s) \subseteq ToSet(L)
  <2>1. ToSet(L) = ToSet(s) \union ToSet(<<l>>)
    <3>1. <<l>> \in Seq(Leaves) BY OneSeq
    <3> DEFINE one == <<l>>
    <3> HIDE DEF one
    <3>2. one \in Seq(Leaves) BY <3>1 DEF one
    <3>3. ToSet(s \o one) = ToSet(s) \union ToSet(one) BY <3>2, ToSetFacts
    <3> QED BY <1>4, <3>3 DEF one
  <2> QED BY <2>1
<1>9. Elems(g, x) = Data(g, s) \o g.data[t]
  <2>1. Data(g, s \o <<l>>) = Data(g, s) \o g.data[l] BY DataRules
  <2> QED BY <2>1, <1>4, <1>6 DEF Elems, L
<1> QED BY <1>2, <1>4, <1>6, <1>7, <1>8, <1>9 DEF L

LEMMA PathSizes ==
  ASSUME NEW g \in Heaps, NEW S, Trees(g, S), Sizes(g), NEW x \in g.live,
         NEW y \in Tailpath(g, x)
  PROVE  g.nelems[y] \in Nat /\ g.nelems[y] >= Len(g.data[Last(LeavesUnder(g, x))])
<1> DEFINE t == Last(LeavesUnder(g, x))
<1>1. y \in g.live /\ Last(LeavesUnder(g, y)) = t BY TailpathFacts
<1>2. PICK s \in Seq(Leaves) : Elems(g, y) = Data(g, s) \o g.data[t] BY <1>1, LastApart
<1>3. t \in Leaves BY <1>1, LastApart
<1> HIDE DEF t
<1>4. Data(g, s) \in Seq(Vals) /\ g.data[t] \in Seq(Vals) BY <1>3, DataRules, HeapFacts
<1>5. /\ Len(Elems(g, y)) = Len(Data(g, s)) + Len(g.data[t])
      /\ Len(Data(g, s)) \in Nat /\ Len(g.data[t]) \in Nat
  BY <1>2, <1>4, ConcatFacts
<1>6. g.nelems[y] = Len(Elems(g, y)) BY <1>1, SizeIs
<1> QED BY <1>5, <1>6 DEF t

(* New elements in the tail, with the lengths on the way to it.            *)
Retail(g, x, inc, d) ==
  [g EXCEPT !.nelems = [y \in Hdrs |-> IF y \in Tailpath(g, x) THEN @[y] + inc ELSE @[y]],
            !.data[Last(LeavesUnder(g, x))] = d]

SameShape(g, k) ==
  /\ k.live = g.live /\ k.parent = g.parent /\ k.left = g.left /\ k.right = g.right
  /\ k.depth = g.depth /\ k.root = g.root /\ k.tail = g.tail

(* Sequence u is v and then w.                                             *)
Joined(u, v, w) == u = v \o w

(* The heap k after t, the last leaf under x, got the elements d, inc more *)
(* than it had.                                                            *)
RetailDone(g, S, x, inc, d, t, k) ==
  /\ Sound(k, S) /\ SameShape(g, k)
  /\ k.nelems[t] = Len(d) /\ k.nelems[x] = g.nelems[x] + inc
  /\ k.data[t] = d /\ \A l \in Leaves \ {t} : k.data[l] = g.data[l]
  /\ \A y \in g.live :
       LeavesUnder(k, y) = LeavesUnder(g, y) /\ InnerUnder(k, y) = InnerUnder(g, y)
  /\ \A y \in S \ {x} : Elems(k, y) = Elems(g, y) /\ k.nelems[y] = g.nelems[y]
  /\ \A vs \in Seq(Vals) :
       /\ Joined(d, g.data[t], vs) => Joined(Elems(k, x), Elems(g, x), vs)
       /\ Joined(g.data[t], d, vs) => Joined(Elems(g, x), Elems(k, x), vs)

LEMMA RetailFacts ==
  ASSUME NEW g, NEW S, Sound(g, S), NEW x \in S, NEW inc \in Int, NEW d \in Seq(Vals),
         NEW t, t = Last(LeavesUnder(g, x)),
         Len(d) = Len(g.data[t]) + inc, Len(d) <= Grain,
         NEW k, k = Retail(g, x, inc, d)
  PROVE  RetailDone(g, S, x, inc, d, t, k)
<1> USE DEF Sound
<1> DEFINE P == Tailpath(g, x)
<1>1. x \in g.live /\ x \in Hdrs BY HeapFacts DEF Trees
<1>2. t \in LiveLeaves(g) /\ t \in Leaves /\ t \in All(g, x) /\ t \in Hdrs BY <1>1, LastApart, HdrFacts
<1>3. /\ P \subseteq All(g, x) /\ x \in P /\ P \intersect Leaves = {t}
      /\ \A n \in P : n \in Nodes(g) => g.right[n] \in P /\ g.left[n] \notin P
      /\ \A y \in P : y # x => g.parent[y] \in P /\ y = g.right[g.parent[y]]
      /\ \A y \in P : y \in g.live
  BY <1>1, TailpathFacts
<1>4. \A y \in P : g.nelems[y] + inc \in Nat
  <2> SUFFICES ASSUME NEW y \in P PROVE g.nelems[y] + inc \in Nat OBVIOUS
  <2>1. g.nelems[y] \in Nat /\ g.nelems[y] >= Len(g.data[t]) BY <1>1, PathSizes
  <2>2. Len(d) \in Nat BY LenProperties
  <2>3. Len(g.data[t]) \in Nat BY <1>2, HeapFacts, LenProperties
  <2> QED BY <2>1, <2>2, <2>3
<1> HIDE DEF P
<1>5. /\ SameShape(g, k)
      /\ k.nelems = [y \in Hdrs |-> IF y \in P THEN g.nelems[y] + inc ELSE g.nelems[y]]
      /\ k.data = [g.data EXCEPT ![t] = d]
  BY DEF Retail, Heaps, SameShape, P
<1>6. k \in Heaps
  <2>1. k = [live |-> k.live, nelems |-> k.nelems, parent |-> k.parent, left |-> k.left,
             right |-> k.right, depth |-> k.depth, data |-> k.data, root |-> k.root, tail |-> k.tail]
    BY DEF Retail, Heaps
  <2>2. k.data \in [Leaves -> Seq(Vals)] BY <1>5, HeapFacts, ExceptType
  <2>3. k.nelems \in [Hdrs -> Nat]
    <3>1. g.nelems \in [Hdrs -> Nat] BY HeapFacts
    <3>2. \A y \in Hdrs : (IF y \in P THEN g.nelems[y] + inc ELSE g.nelems[y]) \in Nat BY <1>4, <3>1
    <3> QED BY <1>5, <3>2
  <2>4. /\ k.live = g.live /\ k.parent = g.parent /\ k.left = g.left /\ k.right = g.right
        /\ k.depth = g.depth /\ k.root = g.root /\ k.tail = g.tail
    BY <1>5 DEF SameShape
  <2> QED BY <2>1, <2>2, <2>3, <2>4, HeapFacts DEF Heaps
<1>7. /\ k.data[t] = d /\ \A l \in Leaves \ {t} : k.data[l] = g.data[l]
      /\ \A y \in Hdrs : k.nelems[y] = IF y \in P THEN g.nelems[y] + inc ELSE g.nelems[y]
  BY <1>2, <1>5, HeapFacts
<1>8. Nodes(k) = Nodes(g) /\ LiveLeaves(k) = LiveLeaves(g) /\ \A y : Depth(k, y) = Depth(g, y)
  BY <1>5 DEF SameShape, Nodes, LiveLeaves, Depth
<1>9. Trees(k, S)
  <2>1. \A n \in Nodes(g) : Node(g, S, n) BY DEF Trees
  <2>2. \A y \in g.live \ S : Child(g, y) BY DEF Trees
  <2>3. \A n : Node(g, S, n) <=> Node(k, S, n) BY <1>5, <1>8 DEF Node, SameShape
  <2>4. \A y : Child(g, y) <=> Child(k, y) BY <1>5, <1>8 DEF Child, SameShape
  <2>5. S \subseteq k.live /\ k.live = g.live BY <1>5 DEF Trees, SameShape
  <2> QED BY <1>8, <2>1, <2>2, <2>3, <2>4, <2>5 DEF Trees
<1>10. Depths(k) BY <1>5, <1>8 DEF Depths, DepthIs, SameShape
<1>11. ASSUME NEW n \in Nodes(g) PROVE k.nelems[n] = k.nelems[k.left[n]] + k.nelems[k.right[n]]
  <2> DEFINE a == g.left[n]
             b == g.right[n]
  <2>1. /\ n \in g.live /\ a \in g.live /\ b \in g.live /\ a \notin S /\ b \notin S
        /\ g.parent[a] = n /\ g.parent[b] = n /\ a # b
    BY NodeFacts
  <2>2. g.nelems[n] = g.nelems[a] + g.nelems[b] BY DEF Sizes
  <2>3. k.left[n] = a /\ k.right[n] = b BY <1>5 DEF SameShape
  <2>4. n \in Hdrs /\ a \in Hdrs /\ b \in Hdrs BY <2>1, HeapFacts
  <2>5. g.nelems[n] \in Nat /\ g.nelems[a] \in Nat /\ g.nelems[b] \in Nat BY <2>4, HeapFacts
  <2>6. n \in P => b \in P /\ a \notin P BY <1>3
  <2>7. n \notin P => b \notin P /\ a \notin P BY <1>3, <2>1
  <2> HIDE DEF a, b
  <2> QED BY <1>7, <2>2, <2>3, <2>4, <2>5, <2>6, <2>7
<1>12. \A l \in LiveLeaves(g) : k.nelems[l] = Len(k.data[l]) /\ k.nelems[l] <= Grain
  <2> SUFFICES ASSUME NEW l \in LiveLeaves(g) PROVE k.nelems[l] = Len(k.data[l]) /\ k.nelems[l] <= Grain
    OBVIOUS
  <2>1. l \in Leaves /\ l \in Hdrs BY HdrFacts DEF LiveLeaves
  <2>2. g.nelems[l] = Len(g.data[l]) /\ g.nelems[l] <= Grain BY DEF Sizes
  <2>3. l \in P <=> l = t BY <1>3, <2>1
  <2> QED BY <1>7, <2>1, <2>2, <2>3
<1>13. \A l \in Leaves \ g.live : k.data[l] = <<>>
  <2>1. t \in g.live BY <1>2 DEF LiveLeaves
  <2> QED BY <1>7, <2>1 DEF Sizes
<1>14. Sizes(k)
  <2>1. k.live = g.live BY <1>5 DEF SameShape
  <2> QED BY <1>8, <1>11, <1>12, <1>13, <2>1 DEF Sizes
<1>15. \A y \in g.live :
         LeavesUnder(k, y) = LeavesUnder(g, y) /\ InnerUnder(k, y) = InnerUnder(g, y)
  <2> SUFFICES ASSUME NEW y \in g.live
               PROVE  LeavesUnder(k, y) = LeavesUnder(g, y) /\ InnerUnder(k, y) = InnerUnder(g, y)
    OBVIOUS
  <2>1. All(g, y) \subseteq k.live BY <1>5, AllRules DEF SameShape
  <2>2. \A n \in InnerUnder(g, y) : k.left[n] = g.left[n] /\ k.right[n] = g.right[n]
    BY <1>5 DEF SameShape
  <2> QED BY <1>6, <1>9, <2>1, <2>2, SameUnder
<1>16. ASSUME NEW y \in S \ {x} PROVE Elems(k, y) = Elems(g, y) /\ k.nelems[y] = g.nelems[y]
  <2>1. y \in g.live /\ y \in All(g, y) /\ y \in Hdrs BY AllRules, HeapFacts DEF Trees
  <2>2. All(g, y) \intersect All(g, x) = {} BY Apart
  <2>3. LeavesUnder(g, y) \in Seq(Leaves) BY <2>1, LeafSeqs
  <2>4. \A l \in ToSet(LeavesUnder(g, y)) : l \in Leaves /\ l \in All(g, y)
    BY <2>3, ToSetFacts DEF All
  <2>5. \A l \in ToSet(LeavesUnder(g, y)) : k.data[l] = g.data[l] BY <1>2, <1>7, <2>2, <2>4
  <2>6. Data(k, LeavesUnder(g, y)) = Data(g, LeavesUnder(g, y)) BY <2>3, <2>5, DataSame
  <2>7. y \notin P BY <1>3, <2>1, <2>2
  <2> QED BY <1>7, <1>15, <2>1, <2>6, <2>7 DEF Elems
<1>17. ASSUME NEW vs \in Seq(Vals)
       PROVE  /\ d = g.data[t] \o vs => Elems(k, x) = Elems(g, x) \o vs
              /\ g.data[t] = d \o vs => Elems(g, x) = Elems(k, x) \o vs
  <2>1. PICK s \in Seq(Leaves) :
          /\ LeavesUnder(g, x) = s \o <<t>> /\ t \notin ToSet(s)
          /\ Elems(g, x) = Data(g, s) \o g.data[t]
    BY <1>1, LastApart
  <2>2. \A l \in ToSet(s) : k.data[l] = g.data[l] BY <1>7, <2>1, ToSetFacts
  <2>3. Data(k, s) = Data(g, s) BY <2>2, DataSame
  <2>4. Elems(k, x) = Data(g, s) \o d
    <3>1. Data(k, s \o <<t>>) = Data(k, s) \o k.data[t] BY <1>2, <1>6, DataRules
    <3> QED BY <1>1, <1>7, <1>15, <2>1, <2>3, <3>1 DEF Elems
  <2>5. Data(g, s) \in Seq(Vals) /\ g.data[t] \in Seq(Vals) BY <1>2, DataRules, HeapFacts
  <2>6. \A a, b, c \in Seq(Vals) : (a \o b) \o c = a \o (b \o c) BY ValsAssociative
  <2>7. (Data(g, s) \o g.data[t]) \o vs = Data(g, s) \o (g.data[t] \o vs) BY <2>5, <2>6
  <2>8. (Data(g, s) \o d) \o vs = Data(g, s) \o (d \o vs)
    <3> DEFINE a == Data(g, s)
    <3>1. a \in Seq(Vals) BY <2>5
    <3> HIDE DEF a
    <3>2. (a \o d) \o vs = a \o (d \o vs) BY <2>6, <3>1
    <3> QED BY <3>2 DEF a
  <2> QED BY <2>1, <2>4, <2>7, <2>8
<1>18. k.nelems[t] = Len(d)
  <2>1. k.nelems[t] = Len(k.data[t]) BY <1>2, <1>12
  <2> QED BY <2>1, <1>7
<1>19. k.nelems[x] = g.nelems[x] + inc BY <1>1, <1>3, <1>7
<1>20. \A vs \in Seq(Vals) :
         /\ Joined(d, g.data[t], vs) => Joined(Elems(k, x), Elems(g, x), vs)
         /\ Joined(g.data[t], d, vs) => Joined(Elems(g, x), Elems(k, x), vs)
  BY <1>17 DEF Joined
<1>21. Sound(k, S) BY <1>6, <1>9, <1>10, <1>14
<1> HIDE DEF Sound
<1> QED BY <1>5, <1>7, <1>15, <1>16, <1>18, <1>19, <1>20, <1>21 DEF RetailDone

-----------------------------------------------------------------------------
(* Depths after a node is gone                                             *)

(* The nodes from m up to the root.                                        *)
Ups(g, n) ==
  LET up[m \in g.live \ Leaves] ==
        IF g.parent[m] = Null THEN <<m>> ELSE <<m>> \o up[g.parent[m]]
  IN  up[n]

IsUp(g, m, s) ==
  /\ s \in Seq(Nodes(g)) /\ Len(s) \in Nat \ {0} /\ s[1] = m
  /\ \A k \in 1..(Len(s) - 1) : g.parent[s[k]] # Null /\ s[k + 1] = g.parent[s[k]]
  /\ g.parent[s[Len(s)]] = Null

(* Parents are nodes, and deeper.                                          *)
Upward(g) ==
  \A m \in Nodes(g) : \/ g.parent[m] = Null
                      \/ g.parent[m] \in Nodes(g) /\ g.depth[m] < g.depth[g.parent[m]]

LEMMA UpsFacts ==
  ASSUME NEW g \in Heaps, Upward(g), NEW n \in Nodes(g)
  PROVE  IsUp(g, n, Ups(g, n))
<1> DEFINE X == Nodes(g)
           W == Seq(X)
           Step(m, f) == IF g.parent[m] = Null THEN <<m>> ELSE <<m>> \o f[g.parent[m]]
           Is(f) == f = [m \in g.live \ Leaves |-> Step(m, f)]
           depth == [m \in X |-> g.depth[m]]
<1>1. X = g.live \ Leaves /\ IsFiniteSet(X) /\ \A m \in X : m \in Inner /\ g.depth[m] \in Nat /\ m # Null
  <2>1. X \subseteq g.live /\ IsFiniteSet(g.live) BY HeapFacts DEF Nodes
  <2>2. IsFiniteSet(X) BY <2>1, FS_Subset
  <2> QED BY <2>2, HeapFacts, HdrFacts DEF Nodes
<1>2. PICK top \in Nat : \A m \in X : depth[m] < top
  <2>1. \A m \in X : depth[m] \in Nat BY <1>1
  <2> HIDE DEF depth, X
  <2> QED BY <1>1, <2>1, FiniteBound
<1> DEFINE level == [m \in X |-> top - g.depth[m]]
           H == [p \in UNION {{m} \X [Below(X, level, m) -> W] : m \in X} |-> Step(p[1], p[2])]
<1>3. \A m \in X : g.depth[m] < top
  <2>1. \A m \in X : depth[m] = g.depth[m] BY DEF depth
  <2> HIDE DEF X, depth
  <2> QED BY <1>2, <2>1
<1>4. \A m \in X : level[m] \in Nat /\ level[m] < top + 1
  <2> SUFFICES ASSUME NEW m \in X PROVE top - g.depth[m] \in Nat /\ top - g.depth[m] < top + 1
    OBVIOUS
  <2>1. g.depth[m] \in Nat /\ g.depth[m] < top BY <1>1, <1>3
  <2> QED BY <1>2, <2>1
<1>5. ASSUME NEW m \in X, NEW f \in [Below(X, level, m) -> W]
      PROVE  H[<<m, f>>] = Step(m, f)
  <2> DEFINE here == {m} \X [Below(X, level, m) -> W]
  <2>2. <<m, f>> \in here OBVIOUS
  <2>3. here \in {{y} \X [Below(X, level, y) -> W] : y \in X} OBVIOUS
  <2> HIDE DEF here, level, X
  <2>1. <<m, f>> \in UNION {{y} \X [Below(X, level, y) -> W] : y \in X} BY <2>2, <2>3
  <2> QED BY <2>1
<1> HIDE DEF H
<1>6. \A m \in X : g.parent[m] # Null => g.parent[m] \in Below(X, level, m)
  <2> SUFFICES ASSUME NEW m \in X, g.parent[m] # Null PROVE g.parent[m] \in Below(X, level, m)
    OBVIOUS
  <2> DEFINE p == g.parent[m]
  <2>1. p \in X /\ g.depth[m] < g.depth[p] BY DEF Upward
  <2>2. g.depth[m] \in Nat /\ g.depth[p] \in Nat /\ top \in Nat BY <1>1, <1>2, <2>1
  <2>3. level[p] = top - g.depth[p] /\ level[m] = top - g.depth[m] BY <2>1
  <2> HIDE DEF level, p, X
  <2>4. level[p] < level[m] BY <2>1, <2>2, <2>3
  <2> QED BY <2>1, <2>4 DEF Below, p
<1>7. \A m \in X : \A f \in [Below(X, level, m) -> W] : H[<<m, f>>] \in W
  <2> SUFFICES ASSUME NEW m \in X, NEW f \in [Below(X, level, m) -> W] PROVE Step(m, f) \in W
    BY <1>5
  <2>1. <<m>> \in W BY OneSeq
  <2>2. CASE g.parent[m] = Null BY <2>1, <2>2
  <2>3. CASE g.parent[m] # Null
    <3>1. f[g.parent[m]] \in W BY <1>6, <2>3
    <3>2. <<m>> \o f[g.parent[m]] \in W BY <2>1, <3>1, ConcatFacts
    <3> QED BY <2>3, <3>2
  <2> QED BY <2>2, <2>3
<1> HIDE DEF level
<1>8. PICK f : f \in [X -> W] /\ \A m \in X : f[m] = H[<<m, Under(X, level, m, f)>>]
  <2> HIDE DEF X, W
  <2>1. Ranked(X, level, top + 1) BY <1>2, <1>4 DEF Ranked
  <2>2. Typed(X, level, W, H) BY <1>7 DEF Typed
  <2>3. \E f : Solves(X, level, W, H, f) BY <2>1, <2>2, Recursion
  <2> QED BY <2>3 DEF Solves
<1>9. Is(f)
  <2>1. ASSUME NEW m \in X PROVE f[m] = Step(m, f)
    <3> DEFINE u == Under(X, level, m, f)
    <3>1. u \in [Below(X, level, m) -> W] /\ \A y \in Below(X, level, m) : u[y] = f[y]
      BY <1>8 DEF Under, Below
    <3> HIDE DEF u, X, W
    <3>2. f[m] = Step(m, u) BY <1>5, <1>8, <3>1 DEF u
    <3>3. g.parent[m] # Null => u[g.parent[m]] = f[g.parent[m]] BY <1>6, <3>1
    <3> QED BY <3>2, <3>3
  <2> HIDE DEF X
  <2>2. f = [m \in X |-> f[m]] BY <1>8
  <2>3. f = [m \in X |-> Step(m, f)] BY <2>1, <2>2
  <2> QED BY <1>1, <2>3
<1> DEFINE u == CHOOSE f1 : Is(f1)
<1>10. Is(u) BY <1>9
<1>11. Ups(g, n) = u[n] BY DEF Ups
<1> HIDE DEF u
<1>12. \A m \in X : u[m] = Step(m, u)
  <2> HIDE DEF X
  <2> QED BY <1>1, <1>10
<1> DEFINE T == {m \in X : IsUp(g, m, u[m])}
<1>13. ASSUME NEW m \in X, \A y \in X : level[y] < level[m] => y \in T PROVE m \in T
  <2>0. <<m>> \in Seq(Nodes(g)) /\ Len(<<m>>) = 1 /\ <<m>>[1] = m BY OneSeq
  <2>1. CASE g.parent[m] = Null
    <3> DEFINE one == <<m>>
    <3>1. u[m] = one BY <1>12, <2>1
    <3>2. one \in Seq(Nodes(g)) /\ Len(one) = 1 /\ one[1] = m BY <2>0
    <3> HIDE DEF one
    <3>3. IsUp(g, m, one) BY <2>1, <3>2 DEF IsUp
    <3> QED BY <3>1, <3>3
  <2>2. CASE g.parent[m] # Null
    <3> DEFINE p == g.parent[m]
               t == u[p]
               one == <<m>>
    <3>1. p \in X /\ level[p] < level[m] BY <1>6, <2>2 DEF Below
    <3>2. IsUp(g, p, t) BY <1>13, <3>1
    <3>3. u[m] = one \o t BY <1>12, <2>2
    <3>4. p # Null /\ p = g.parent[m] BY <2>2
    <3>5. one \in Seq(Nodes(g)) /\ Len(one) = 1 /\ one[1] = m BY <2>0
    <3> HIDE DEF t, p, one
    <3>6. /\ u[m] \in Seq(Nodes(g)) /\ Len(u[m]) = Len(t) + 1 /\ Len(t) \in Nat \ {0}
          /\ u[m][1] = m /\ \A i \in 1..Len(t) : u[m][i + 1] = t[i]
      <4>1. t \in Seq(Nodes(g)) /\ Len(t) \in Nat \ {0} BY <3>2 DEF IsUp
      <4>2. u[m] = <<m>> \o t BY <3>3 DEF one
      <4> QED BY <4>1, <4>2, ConsFacts
    <3>7. ASSUME NEW k \in 1..(Len(u[m]) - 1)
          PROVE  g.parent[u[m][k]] # Null /\ u[m][k + 1] = g.parent[u[m][k]]
      <4>1. CASE k = 1
        <5>1. 1 \in 1..Len(t) BY <3>6
        <5>2. u[m][1 + 1] = t[1] BY <3>6, <5>1
        <5>3. t[1] = p BY <3>2 DEF IsUp
        <5> QED BY <3>4, <3>6, <4>1, <5>2, <5>3
      <4>2. CASE k # 1
        <5> DEFINE j == k - 1
        <5>1. j \in 1..(Len(t) - 1) /\ j \in 1..Len(t) /\ j + 1 \in 1..Len(t) /\ k = j + 1
          BY <3>6, <4>2
        <5>2. g.parent[t[j]] # Null /\ t[j + 1] = g.parent[t[j]] BY <3>2, <5>1 DEF IsUp
        <5>3. u[m][k] = t[j] /\ u[m][(j + 1) + 1] = t[j + 1] BY <3>6, <5>1
        <5> QED BY <5>1, <5>2, <5>3
      <4> QED BY <4>1, <4>2
    <3>8. g.parent[u[m][Len(u[m])]] = Null
      <4>1. Len(t) \in 1..Len(t) BY <3>6
      <4>2. u[m][Len(t) + 1] = t[Len(t)] BY <3>6, <4>1
      <4> QED BY <3>2, <3>6, <4>2 DEF IsUp
    <3> QED BY <3>6, <3>7, <3>8 DEF IsUp
  <2> QED BY <2>1, <2>2
<1>14. X \subseteq T
  <2> HIDE DEF T, X
  <2>1. \A m \in X : level[m] \in Nat BY <1>4
  <2> QED BY <1>13, <2>1, RankSets
<1> QED BY <1>11, <1>14 DEF T

(* Nodes M with all that is above or below them, and depths that fall on   *)
(* the way down.                                                           *)
Region(g, M) ==
  /\ M \subseteq Nodes(g)
  /\ \A m \in M : g.parent[m] = Null \/ g.parent[m] \in M
  /\ \A m \in M : \A c \in {g.left[m], g.right[m]} :
       c \in Hdrs /\ Depth(g, c) < g.depth[m] /\ (c \in Inner => c \in M /\ g.parent[c] = m)

DepthIn(f, x) == IF x \in Leaves THEN 0 ELSE f[x]
DepthOver(g, f, m) == 1 + Max({DepthIn(f, g.left[m]), DepthIn(f, g.right[m])})

(* The state of the climb that rpa_depth_recalc makes, after k nodes: what *)
(* it changed lies below the node it is at, which alone may be wrong.      *)
ClimbingWith(g, M, u, k, st, f) ==
  /\ st.done \in BOOLEAN /\ st = [h |-> [g EXCEPT !.depth = f], done |-> st.done]
  /\ \A m \in Inner : f[m] # g.depth[m] =>
       m \in M /\ f[m] < g.depth[m] /\ (k < Len(u) => g.depth[m] < g.depth[u[k + 1]])
  /\ \A m \in M : \/ f[m] = DepthOver(g, f, m)
                  \/ ~ st.done /\ k < Len(u) /\ m = u[k + 1]
Climbing(g, M, u, k, st) == \E f \in [Inner -> Nat] : ClimbingWith(g, M, u, k, st, f)

ClimbStep(g, st, m) ==
  LET depth == 1 + Max({Depth(st.h, g.left[m]), Depth(st.h, g.right[m])})
  IN  IF st.done \/ g.depth[m] = depth THEN [st EXCEPT !.done = TRUE]
      ELSE [st EXCEPT !.h.depth[m] = depth]

LEMMA StepsOfState ==
  ASSUME NEW a, NEW e, NEW st, st = [h |-> a, done |-> e]
  PROVE  /\ \A d : [st EXCEPT !.done = d] = [h |-> a, done |-> d]
         /\ \A k : [st EXCEPT !.h = k] = [h |-> k, done |-> e]
<1>1. ASSUME NEW d PROVE [st EXCEPT !.done = d] = [h |-> a, done |-> d] OBVIOUS
<1>2. ASSUME NEW k PROVE [st EXCEPT !.h = k] = [h |-> k, done |-> e] OBVIOUS
<1> QED BY <1>1, <1>2

LEMMA OneStep ==
  ASSUME NEW g \in Heaps, Upward(g), NEW M, Region(g, M), NEW u, NEW n, IsUp(g, n, u),
         \A i \in 1..Len(u) : u[i] \in M,
         NEW k \in 1..Len(u), NEW st, Climbing(g, M, u, k - 1, st)
  PROVE  Climbing(g, M, u, k, ClimbStep(g, st, u[k]))
<1> DEFINE m == u[k]
<1>0. PICK f \in [Inner -> Nat] : ClimbingWith(g, M, u, k - 1, st, f) BY DEF Climbing
<1>1. /\ st.done \in BOOLEAN /\ st = [h |-> [g EXCEPT !.depth = f], done |-> st.done]
      /\ \A x \in Inner : f[x] # g.depth[x] =>
           x \in M /\ f[x] < g.depth[x] /\ (k - 1 < Len(u) => g.depth[x] < g.depth[u[(k - 1) + 1]])
      /\ \A x \in M : \/ f[x] = DepthOver(g, f, x)
                      \/ ~ st.done /\ k - 1 < Len(u) /\ x = u[(k - 1) + 1]
  BY <1>0 DEF ClimbingWith
<1>2. Len(u) \in Nat /\ k - 1 < Len(u) /\ (k - 1) + 1 = k BY DEF IsUp
<1>3. /\ \A x \in Inner : f[x] # g.depth[x] => x \in M /\ f[x] < g.depth[x] /\ g.depth[x] < g.depth[m]
      /\ \A x \in M : f[x] = DepthOver(g, f, x) \/ (~ st.done /\ x = m)
  BY <1>1, <1>2
<1>4. m \in M /\ m \in Inner /\ m \in Nodes(g) BY DEF Region, Nodes
<1>5. /\ \A x \in Inner : g.depth[x] \in Nat /\ f[x] \in Nat
      /\ g.depth \in [Inner -> Nat] /\ M \subseteq Inner
  BY HeapFacts DEF Region, Nodes
<1>6. k < Len(u) => /\ g.parent[m] # Null /\ u[k + 1] = g.parent[m]
                    /\ g.depth[m] < g.depth[u[k + 1]] /\ u[k + 1] \in Inner
  <2> SUFFICES ASSUME k < Len(u)
               PROVE  /\ g.parent[m] # Null /\ u[k + 1] = g.parent[m]
                      /\ g.depth[m] < g.depth[u[k + 1]] /\ u[k + 1] \in Inner
    OBVIOUS
  <2>1. k \in 1..(Len(u) - 1) /\ k + 1 \in 1..Len(u) BY <1>2
  <2>2. g.parent[m] # Null /\ u[k + 1] = g.parent[m] BY <2>1 DEF IsUp
  <2> QED BY <1>4, <1>5, <2>1, <2>2 DEF Upward
<1>7. k = Len(u) => g.parent[m] = Null BY DEF IsUp
<1>8. \A x \in Inner : f[x] # g.depth[x] =>
        x \in M /\ f[x] < g.depth[x] /\ (k < Len(u) => g.depth[x] < g.depth[u[k + 1]])
  BY <1>3, <1>4, <1>5, <1>6
<1>9. st.h = [g EXCEPT !.depth = f] /\ st.h.depth = f BY <1>1 DEF Heaps
<1>10. \A x : Depth(st.h, x) = DepthIn(f, x) BY <1>9 DEF Depth, DepthIn
<1> DEFINE d == DepthOver(g, f, m)
<1>11. d = 1 + Max({Depth(st.h, g.left[m]), Depth(st.h, g.right[m])})
  <2>1. /\ Depth(st.h, g.left[m]) = DepthIn(f, g.left[m])
        /\ Depth(st.h, g.right[m]) = DepthIn(f, g.right[m])
    BY <1>10
  <2> QED BY <2>1 DEF DepthOver
<1>12. \A c \in {g.left[m], g.right[m]} :
         /\ c \in Hdrs /\ c # m /\ DepthIn(f, c) \in Nat /\ DepthIn(f, c) < g.depth[m]
         /\ (c \in Inner => c \in M /\ g.parent[c] = m)
  <2> SUFFICES ASSUME NEW c \in {g.left[m], g.right[m]}
               PROVE  /\ c \in Hdrs /\ c # m /\ DepthIn(f, c) \in Nat /\ DepthIn(f, c) < g.depth[m]
                      /\ (c \in Inner => c \in M /\ g.parent[c] = m)
    OBVIOUS
  <2>1. c \in Hdrs /\ Depth(g, c) < g.depth[m] /\ (c \in Inner => c \in M /\ g.parent[c] = m)
    BY <1>4 DEF Region
  <2>2. CASE c \in Leaves BY <2>1, <2>2, <1>4, HdrFacts DEF Depth, DepthIn
  <2>3. CASE c \in Inner /\ c \notin Leaves
    <3>1. g.depth[c] < g.depth[m] BY <2>1, <2>3 DEF Depth
    <3>2. DepthIn(f, c) = f[c] /\ f[c] \in Nat /\ f[c] <= g.depth[c] BY <2>3, <1>3, <1>5 DEF DepthIn
    <3> QED BY <1>4, <1>5, <2>1, <2>3, <3>1, <3>2
  <2> QED BY <2>1, <2>2, <2>3, HdrFacts
<1>13. d \in Nat /\ d <= g.depth[m]
  <2> DEFINE a == DepthIn(f, g.left[m])
             b == DepthIn(f, g.right[m])
  <2>1. a \in Nat /\ b \in Nat /\ a < g.depth[m] /\ b < g.depth[m] BY <1>12
  <2>2. g.depth[m] \in Nat BY <1>4, <1>5
  <2>3. d = 1 + Max({a, b}) BY DEF DepthOver
  <2> HIDE DEF a, b, d
  <2>4. Max({a, b}) \in Nat /\ (Max({a, b}) = a \/ Max({a, b}) = b) BY <2>1, MaxIs
  <2> QED BY <2>1, <2>2, <2>3, <2>4
<1> HIDE DEF d, m
<1>14. CASE st.done \/ g.depth[m] = d
  <2>1. ClimbStep(g, st, m) = [st EXCEPT !.done = TRUE] BY <1>11, <1>14 DEF ClimbStep
  <2>2. [st EXCEPT !.done = TRUE] = [h |-> [g EXCEPT !.depth = f], done |-> TRUE]
    <3> DEFINE k1 == [g EXCEPT !.depth = f]
    <3>1. st = [h |-> k1, done |-> st.done] BY <1>1
    <3> HIDE DEF k1
    <3>3. \A e : [st EXCEPT !.done = e] = [h |-> k1, done |-> e]
      <4> DEFINE b == st.done
      <4>1. st = [h |-> k1, done |-> b] BY <3>1
      <4> HIDE DEF b
      <4> QED BY <4>1, StepsOfState
    <3>2. [st EXCEPT !.done = TRUE] = [h |-> k1, done |-> TRUE] BY <3>3
    <3> QED BY <3>2 DEF k1
  <2>3. \A x \in M : f[x] = DepthOver(g, f, x)
    <3>1. ~ st.done => f[m] = DepthOver(g, f, m)
      <4>1. f[m] = g.depth[m] BY <1>3, <1>4, <1>5
      <4> QED BY <1>14, <4>1 DEF d
    <3> QED BY <1>3, <3>1
  <2> DEFINE s2 == [h |-> [g EXCEPT !.depth = f], done |-> TRUE]
  <2>4. s2.done = TRUE /\ s2 = [h |-> [g EXCEPT !.depth = f], done |-> s2.done] OBVIOUS
  <2> HIDE DEF s2
  <2>5. ClimbingWith(g, M, u, k, s2, f) BY <1>8, <2>3, <2>4 DEF ClimbingWith
  <2>6. Climbing(g, M, u, k, s2) BY <2>5 DEF Climbing
  <2> QED BY <2>1, <2>2, <2>6 DEF s2, m
<1>15. CASE ~ (st.done \/ g.depth[m] = d)
  <2> DEFINE e == [f EXCEPT ![m] = d]
             s2 == [h |-> [g EXCEPT !.depth = e], done |-> FALSE]
  <2>1. ClimbStep(g, st, m) = s2
    <3>1. ClimbStep(g, st, m) = [st EXCEPT !.h.depth[m] = d] BY <1>11, <1>15 DEF ClimbStep
    <3>2. st = [h |-> [g EXCEPT !.depth = f], done |-> FALSE] BY <1>1, <1>15
    <3>3. [st EXCEPT !.h.depth[m] = d] = [st EXCEPT !.h = [st.h EXCEPT !.depth = [st.h.depth EXCEPT ![m] = d]]]
      OBVIOUS
    <3>4. [st.h EXCEPT !.depth = e] = [g EXCEPT !.depth = e] BY <1>9 DEF Heaps
    <3> HIDE DEF e
    <3> DEFINE k1 == [g EXCEPT !.depth = f]
               k2 == [g EXCEPT !.depth = e]
    <3>6. st = [h |-> k1, done |-> FALSE] BY <3>2
    <3> HIDE DEF k1, k2
    <3>8. \A x : [st EXCEPT !.h = x] = [h |-> x, done |-> FALSE]
      <4> DEFINE b == FALSE
      <4>1. st = [h |-> k1, done |-> b] BY <3>6
      <4> HIDE DEF b
      <4>2. \A x : [st EXCEPT !.h = x] = [h |-> x, done |-> b] BY <4>1, StepsOfState
      <4> QED BY <4>2 DEF b
    <3>7. [st EXCEPT !.h = k2] = [h |-> k2, done |-> FALSE] BY <3>8
    <3>5. [st EXCEPT !.h = [g EXCEPT !.depth = e]] = [h |-> [g EXCEPT !.depth = e], done |-> FALSE]
      BY <3>7 DEF k2
    <3> QED BY <1>9, <3>1, <3>3, <3>4, <3>5 DEF e
  <2>2. e \in [Inner -> Nat] /\ e[m] = d /\ \A x \in Inner \ {m} : e[x] = f[x] BY <1>4, <1>13
  <2> HIDE DEF e
  <2>3. \A c \in Hdrs : c # m => DepthIn(e, c) = DepthIn(f, c)
    BY <2>2, HdrFacts DEF DepthIn
  <2>4. \A x \in Inner : e[x] # g.depth[x] =>
          x \in M /\ e[x] < g.depth[x] /\ (k < Len(u) => g.depth[x] < g.depth[u[k + 1]])
    <3>1. e[m] # g.depth[m] => m \in M /\ e[m] < g.depth[m] /\ (k < Len(u) => g.depth[m] < g.depth[u[k + 1]])
      BY <1>4, <1>5, <1>6, <1>13, <2>2
    <3> QED BY <1>8, <2>2, <3>1
  <2>5. \A x \in M : e[x] = DepthOver(g, e, x) \/ (k < Len(u) /\ x = u[k + 1])
    <3> SUFFICES ASSUME NEW x \in M, ~ (k < Len(u) /\ x = u[k + 1]) PROVE e[x] = DepthOver(g, e, x)
      OBVIOUS
    <3>1. \A c \in {g.left[x], g.right[x]} : c \in Hdrs /\ c # m
      <4> SUFFICES ASSUME NEW c \in {g.left[x], g.right[x]}, c = m PROVE FALSE
        BY DEF Region
      <4>1. g.parent[m] = x BY <1>4 DEF Region
      <4>2. x # Null BY <1>5, HdrFacts
      <4> QED BY <1>2, <1>6, <1>7, <4>1, <4>2
    <3>2. DepthIn(e, g.left[x]) = DepthIn(f, g.left[x]) /\ DepthIn(e, g.right[x]) = DepthIn(f, g.right[x])
      BY <2>3, <3>1
    <3>3. DepthOver(g, e, x) = DepthOver(g, f, x) BY <3>2 DEF DepthOver
    <3>4. CASE x = m BY <2>2, <3>3, <3>4 DEF d
    <3>5. CASE x # m BY <1>3, <1>5, <2>2, <3>3, <3>5
    <3> QED BY <3>4, <3>5
  <2>6. s2.done = FALSE /\ s2 = [h |-> [g EXCEPT !.depth = e], done |-> s2.done] OBVIOUS
  <2> HIDE DEF s2
  <2>7. ClimbingWith(g, M, u, k, s2, e) BY <2>2, <2>4, <2>5, <2>6 DEF ClimbingWith
  <2>8. Climbing(g, M, u, k, s2) BY <2>2, <2>7 DEF Climbing
  <2> QED BY <2>1, <2>8 DEF m
<1> QED BY <1>14, <1>15

WithDepths(g, f) == [g EXCEPT !.depth = f]

(* rpa_depth_recalc: if the node it starts from is the only one that may   *)
(* have a wrong depth, all are right in the end.                           *)
LEMMA DepthRecalcFacts ==
  ASSUME NEW g \in Heaps, Upward(g), NEW M, Region(g, M), NEW low \in M,
         \A m \in M : m # low => DepthIs(g, m)
  PROVE  \E f \in [Inner -> Nat] :
           /\ DepthRecalc(g, low) = WithDepths(g, f)
           /\ \A m \in Inner : m \notin M => f[m] = g.depth[m]
           /\ \A m \in M : f[m] = DepthOver(g, f, m)
<1> DEFINE u == Ups(g, low)
           N == Len(u)
           States == [h : Heaps, done : BOOLEAN]
           St0 == [h |-> g, done |-> FALSE]
           P == [k \in 0..N |-> {st \in States : Climbing(g, M, u, k, st)}]
           F == [p \in (0..N) \X States |-> ClimbStep(g, p[2], u[p[1]])]
           Is(f) == f = [k \in 0..N |-> IF k = 0 THEN St0 ELSE ClimbStep(g, f[k - 1], u[k])]
           after == CHOOSE f : Is(f)
<1>1. low \in Nodes(g) BY DEF Region
<1>2. IsUp(g, low, u) BY <1>1, UpsFacts
<1>3. DepthRecalc(g, low) = after[N].h BY DEF DepthRecalc, Ups, ClimbStep
<1> HIDE DEF u, after
<1>4. N \in Nat \ {0} BY <1>2 DEF IsUp
<1>5. \A i \in 1..N : u[i] \in M
  <2> DEFINE Q == [i \in 1..N |-> M]
  <2>1. u[1] \in Q[1] BY <1>2, <1>4 DEF IsUp
  <2>2. \A i \in 1..N : i # 1 /\ u[i - 1] \in Q[i - 1] => u[i] \in Q[i]
    <3> SUFFICES ASSUME NEW i \in 1..N, i # 1, u[i - 1] \in M PROVE u[i] \in M
      BY <1>4
    <3>1. i - 1 \in 1..(N - 1) /\ (i - 1) + 1 = i BY <1>4
    <3>2. g.parent[u[i - 1]] # Null /\ u[i] = g.parent[u[i - 1]] BY <1>2, <3>1 DEF IsUp
    <3> QED BY <3>2 DEF Region
  <2>3. \A i \in 1..N : Q[i] = M OBVIOUS
  <2> HIDE DEF Q, N
  <2>4. \A i \in 1..N : u[i] \in Q[i] BY <1>4, <2>1, <2>2, LoopKeeps
  <2> QED BY <2>3, <2>4
<1>6. \A k \in 0..N : \A st : Climbing(g, M, u, k, st) => st \in States
  <2> SUFFICES ASSUME NEW k \in 0..N, NEW st, Climbing(g, M, u, k, st) PROVE st \in States
    OBVIOUS
  <2>1. PICK f \in [Inner -> Nat] : st.done \in BOOLEAN /\ st = [h |-> [g EXCEPT !.depth = f], done |-> st.done]
    BY DEF Climbing, ClimbingWith
  <2>2. [g EXCEPT !.depth = f] \in Heaps BY <2>1 DEF Heaps
  <2> QED BY <2>1, <2>2
<1>7. St0 \in P[0]
  <2>1. g = [g EXCEPT !.depth = g.depth] /\ g.depth \in [Inner -> Nat] BY DEF Heaps
  <2>2. St0.done = FALSE /\ St0 = [h |-> [g EXCEPT !.depth = g.depth], done |-> St0.done] BY <2>1
  <2> HIDE DEF St0
  <2>3. u[1] = low BY <1>2 DEF IsUp
  <2>4. \A m \in M : m # low => g.depth[m] = DepthOver(g, g.depth, m)
    BY DEF DepthIs, DepthOver, DepthIn, Depth
  <2>7. St0.done \in BOOLEAN BY <2>2
  <2>8. \A m \in M : g.depth[m] = DepthOver(g, g.depth, m) \/ (~ St0.done /\ 0 < Len(u) /\ m = u[0 + 1])
    BY <1>4, <2>2, <2>3, <2>4
  <2>9. \A m \in Inner : ~ (g.depth[m] # g.depth[m]) OBVIOUS
  <2>5. ClimbingWith(g, M, u, 0, St0, g.depth) BY <2>2, <2>7, <2>8, <2>9 DEF ClimbingWith
  <2>6. Climbing(g, M, u, 0, St0) BY <2>1, <2>5 DEF Climbing
  <2> QED BY <1>4, <1>6, <2>6
<1>8. ASSUME NEW k \in 0..N, k # 0, NEW st \in P[k - 1]
      PROVE  ClimbStep(g, st, u[k]) \in P[k]
  <2>1. k \in 1..Len(u) /\ Climbing(g, M, u, k - 1, st) BY <1>4, <1>8
  <2>2. Climbing(g, M, u, k, ClimbStep(g, st, u[k])) BY <1>2, <1>5, <2>1, OneStep
  <2> QED BY <1>6, <2>2
<1>9. \A k \in 0..N : k # 0 => \A st \in P[k - 1] : F[<<k, st>>] = ClimbStep(g, st, u[k])
  <2> SUFFICES ASSUME NEW k \in 0..N, k # 0, NEW st \in P[k - 1]
               PROVE  F[<<k, st>>] = ClimbStep(g, st, u[k])
    OBVIOUS
  <2>1. k - 1 \in 0..N BY <1>4
  <2>2. st \in States BY <2>1
  <2> HIDE DEF States, P
  <2> QED BY <2>2
<1> HIDE DEF P, F, St0, States
<1>10. PICK e : Loops(0, N, St0, F, e) /\ \A k \in 0..N : e[k] \in P[k]
  <2>1. \A k \in 0..N : k # 0 => \A st \in P[k - 1] : F[<<k, st>>] \in P[k] BY <1>8, <1>9
  <2>2. 0 \in Int /\ N \in Int BY <1>4
  <2> HIDE DEF N
  <2> QED BY <1>7, <2>1, <2>2, Loop
<1>11. Is(e)
  <2>1. \A k \in 0..N : k # 0 => F[<<k, e[k - 1]>>] = ClimbStep(g, e[k - 1], u[k])
    <3> SUFFICES ASSUME NEW k \in 0..N, k # 0 PROVE F[<<k, e[k - 1]>>] = ClimbStep(g, e[k - 1], u[k])
      OBVIOUS
    <3>1. k - 1 \in 0..N BY <1>4
    <3> QED BY <1>9, <1>10, <3>1
  <2> QED BY <1>10, <2>1 DEF Loops
<1>12. Is(after) BY <1>11 DEF after
<1>13. \A k \in 0..N : after[k] \in P[k]
  <2>1. after[0] \in P[0] BY <1>4, <1>7, <1>12
  <2>2. \A k \in 0..N : k # 0 /\ after[k - 1] \in P[k - 1] => after[k] \in P[k]
    BY <1>8, <1>12
  <2> HIDE DEF N, Is
  <2> QED BY <1>4, <2>1, <2>2, LoopKeeps
<1>14. Climbing(g, M, u, N, after[N]) BY <1>4, <1>13 DEF P
<1>17. PICK f \in [Inner -> Nat] : ClimbingWith(g, M, u, N, after[N], f) BY <1>14 DEF Climbing
<1>15. /\ after[N] = [h |-> [g EXCEPT !.depth = f], done |-> after[N].done]
       /\ \A m \in Inner : f[m] # g.depth[m] => m \in M
       /\ \A m \in M : f[m] = DepthOver(g, f, m)
  BY <1>4, <1>17 DEF ClimbingWith
<1>16. after[N].h = WithDepths(g, f) BY <1>15 DEF WithDepths
<1> QED BY <1>3, <1>15, <1>16

-----------------------------------------------------------------------------
(* Taking out the last leaf                                                *)

(* Roots have no parent.                                                   *)
Tops(g, S) == \A x \in S : g.parent[x] = Null

(* Leaf t, the last under the root x, with its parent and its sibling.     *)
LEMMA TailParent ==
  ASSUME NEW g \in Heaps, NEW S, Trees(g, S), Tops(g, S), NEW x \in S,
         NEW t, t = Last(LeavesUnder(g, x)), t # x,
         NEW up, up = g.parent[t], NEW sib, sib = g.left[up], NEW top, top = g.parent[up]
  PROVE  /\ x \in g.live /\ t \in LiveLeaves(g) /\ t \in Leaves /\ t \in g.live /\ t \notin S
         /\ up \in Nodes(g) /\ up \in Inner /\ up \in g.live /\ up \notin Leaves
         /\ t = g.right[up] /\ up \in Tailpath(g, x) /\ t \in Tailpath(g, x)
         /\ sib \in g.live /\ sib \notin S /\ sib \notin Tailpath(g, x)
         /\ g.parent[sib] = up /\ sib # t /\ sib # up
         /\ (top = Null <=> up = x)
         /\ top # Null => /\ top \in Nodes(g) /\ top \in Tailpath(g, x) /\ g.right[top] = up
                          /\ g.left[top] \notin {up, t, sib} /\ top \notin {up, t, sib}
                          /\ up \notin S
<1>1. x \in g.live BY DEF Trees
<1>2. /\ t \in LiveLeaves(g) /\ t \in Leaves /\ t \in Tailpath(g, x) /\ t \in g.live
  BY <1>1, LastApart, TailpathFacts DEF LiveLeaves
<1>3. up \in Tailpath(g, x) /\ t = g.right[up] BY <1>1, <1>2, TailpathFacts
<1>4. t \in All(g, x) BY <1>1, <1>2, TailpathFacts
<1>5. t \notin S /\ up \in Nodes(g) BY <1>1, <1>4, Climb
<1>6. /\ up \in g.live /\ up \in Inner /\ up \notin Leaves
      /\ sib \in g.live /\ sib \notin S /\ g.parent[sib] = up /\ sib # t /\ sib # up
  <2>1. /\ up \in g.live /\ up \in Inner /\ up \notin Leaves
        /\ sib \in g.live /\ sib \notin S /\ sib # g.right[up] /\ g.parent[sib] = up
        /\ Depth(g, sib) < Depth(g, up)
    BY <1>5, NodeFacts
  <2>2. up \in Hdrs /\ Depth(g, up) \in Nat BY <1>5, HeapFacts, NodeFacts
  <2>3. ~ (Depth(g, up) < Depth(g, up)) BY <2>2
  <2> QED BY <1>3, <2>1, <2>3
<1>7. sib \notin Tailpath(g, x) BY <1>1, <1>3, <1>5, TailpathFacts
<1>8. up = x => top = Null BY DEF Tops
<1>9. ASSUME up # x
      PROVE  /\ top \in Nodes(g) /\ top # Null /\ top \in Tailpath(g, x) /\ g.right[top] = up
             /\ g.left[top] \notin {up, t, sib} /\ top \notin {up, t, sib} /\ up \notin S
  <2>1. top \in Tailpath(g, x) /\ up = g.right[top] BY <1>1, <1>3, <1>9, TailpathFacts
  <2>2. up \in All(g, x) BY <1>1, <1>3, TailpathFacts
  <2>3. up \notin S /\ top \in Nodes(g) BY <1>1, <1>9, <2>2, Climb
  <2>4. top # Null /\ g.left[top] # up /\ g.parent[g.left[top]] = top /\ Depth(g, up) < Depth(g, top)
        /\ top \notin Leaves /\ top \in Hdrs
    <3>1. /\ top \in g.live /\ top \notin Leaves /\ g.left[top] # g.right[top]
          /\ g.parent[g.left[top]] = top /\ Depth(g, g.right[top]) < Depth(g, top)
      BY <2>3, NodeFacts
    <3>2. top \in Hdrs /\ top # Null BY <3>1, HeapFacts
    <3> QED BY <2>1, <3>1, <3>2
  <2>5. Depth(g, top) \in Nat BY <2>4, HeapFacts
  <2>6. up # top BY <2>4, <2>5
  <2>7. sib # top BY <1>7, <2>1
  <2> QED BY <1>2, <1>6, <2>1, <2>3, <2>4, <2>6, <2>7
<1> QED BY <1>1, <1>2, <1>3, <1>5, <1>6, <1>7, <1>8, <1>9

(* The tail leaf t under x, its parent, its sibling and the node above.    *)
TailSpot(g, x, t, up, sib, top) ==
  /\ x \in g.live /\ t \in LiveLeaves(g) /\ t \in Leaves /\ t \in g.live
  /\ up \in Nodes(g) /\ up \in g.live
  /\ sib \in g.live /\ g.parent[sib] = up /\ sib # t /\ sib # up
  /\ top # Null => /\ top \in Nodes(g) /\ g.right[top] = up
                   /\ g.left[top] \notin {up, t, sib} /\ top \notin {up, t, sib}

LEMMA TailSpots ==
  ASSUME NEW g \in Heaps, NEW S, Trees(g, S), Tops(g, S), NEW x \in S,
         NEW t, t = Last(LeavesUnder(g, x)), t # x,
         NEW up, up = g.parent[t], NEW sib, sib = g.left[up], NEW top, top = g.parent[up]
  PROVE  TailSpot(g, x, t, up, sib, top)
BY TailParent DEF TailSpot

(* Heap k is g without t and its parent.                                   *)
Cut(g, k, t) ==
  LET up == g.parent[t]
      sib == g.left[up]
      top == g.parent[up]
  IN  /\ k \in Heaps /\ k.live = g.live \ {up, t} /\ k.data = g.data
      /\ \A z \in k.live : k.nelems[z] = g.nelems[z]
      /\ \A z \in k.live \ {sib} : k.parent[z] = g.parent[z]
      /\ k.parent[sib] = top
      /\ \A n \in Nodes(g) \ {up} : k.left[n] = g.left[n] /\ (n # top => k.right[n] = g.right[n])
      /\ top # Null => k.right[top] = sib
      /\ \A n \in Nodes(g) \ {up} : DepthIs(k, n)

(* The root without leaf t.                                                *)
NewTop(g, x, t, y) == y = IF g.parent[g.parent[t]] = Null THEN g.left[g.parent[t]] ELSE x

(* The trees in k are those in g but that of x, now that of y, which is    *)
(* without its last leaf t.                                                *)
CutFrom(g, S, x, t, k, y) ==
  /\ \A z \in S \ {x} : LeavesUnder(k, z) = LeavesUnder(g, z)
  /\ LeavesUnder(g, x) = LeavesUnder(k, y) \o <<t>>
  /\ Last(LeavesUnder(k, y)) = Last(LeavesUnder(g, g.left[g.parent[t]]))
  /\ Elems(k, y) = Elems(g, x)

LEMMA CutFacts ==
  ASSUME NEW g, NEW S, Sound(g, S), Tops(g, S), NEW x \in S,
         NEW t, t = Last(LeavesUnder(g, x)), t # x, g.nelems[t] = 0,
         NEW k, Cut(g, k, t), NEW y, NewTop(g, x, t, y),
         NEW R, R = (S \ {x}) \union {y}
  PROVE  /\ Sound(k, R) /\ Tops(k, R) /\ y \in All(g, x)
         /\ k.nelems[y] = g.nelems[x]
         /\ CutFrom(g, S, x, t, k, y)
<1> USE DEF Sound
<1> DEFINE up == g.parent[t]
           sib == g.left[up]
           top == g.parent[up]
           path == Tailpath(g, x)
<1>1. /\ x \in g.live /\ t \in LiveLeaves(g) /\ t \in Leaves /\ t \in g.live /\ t \notin S
      /\ up \in Nodes(g) /\ up \in Inner /\ up \in g.live /\ up \notin Leaves
      /\ t = g.right[up] /\ up \in path /\ t \in path
      /\ sib \in g.live /\ sib \notin S /\ sib \notin path
      /\ g.parent[sib] = up /\ sib # t /\ sib # up
      /\ (top = Null <=> up = x)
      /\ top # Null => /\ top \in Nodes(g) /\ top \in path /\ g.right[top] = up
                       /\ g.left[top] \notin {up, t, sib} /\ top \notin {up, t, sib}
                       /\ up \notin S
  BY TailParent
<1>2. /\ k \in Heaps /\ k.live = g.live \ {up, t} /\ k.data = g.data
      /\ \A z \in k.live : k.nelems[z] = g.nelems[z]
      /\ \A z \in k.live \ {sib} : k.parent[z] = g.parent[z]
      /\ k.parent[sib] = top
      /\ \A n \in Nodes(g) \ {up} : k.left[n] = g.left[n] /\ (n # top => k.right[n] = g.right[n])
      /\ top # Null => k.right[top] = sib
      /\ \A n \in Nodes(g) \ {up} : DepthIs(k, n)
  BY DEF Cut
<1>3. y = IF top = Null THEN sib ELSE x BY DEF NewTop
<1>4. \A z \in g.live \ S : g.parent[z] \in Nodes(g) /\ (z = g.left[g.parent[z]] \/ z = g.right[g.parent[z]])
  BY DEF Trees, Child
<1>5. \A n \in Nodes(g) :
        /\ n \in g.live /\ n # Null /\ n \notin Leaves
        /\ g.left[n] \in g.live /\ g.right[n] \in g.live /\ g.left[n] \notin S /\ g.right[n] \notin S
        /\ g.left[n] # g.right[n] /\ g.parent[g.left[n]] = n /\ g.parent[g.right[n]] = n
  BY NodeFacts, HeapFacts
<1>6. g.left[up] = sib /\ g.parent[up] = top /\ g.parent[t] = up OBVIOUS
<1>7. Nodes(k) = Nodes(g) \ {up} /\ LiveLeaves(k) = LiveLeaves(g) \ {t}
  <2>1. up \notin Leaves /\ t \notin Inner /\ k.live = g.live \ {up, t} BY <1>1, <1>2, HdrFacts
  <2> QED BY <2>1 DEF Nodes, LiveLeaves
<1>8. /\ \A n \in path : n \in Nodes(g) => g.right[n] \in path /\ g.left[n] \notin path
      /\ \A z \in path : z # x => g.parent[z] \in path
      /\ path \subseteq All(g, x) /\ x \in path
      /\ path \intersect Leaves = {t}
  BY <1>1, TailpathFacts
<1> HIDE DEF up, sib, top, path
(* the children of the nodes that are left *)
<1>9. ASSUME NEW n \in Nodes(g), n # up, n # top
      PROVE  /\ k.left[n] = g.left[n] /\ k.right[n] = g.right[n]
             /\ g.left[n] \in k.live \ {sib} /\ g.right[n] \in k.live \ {sib}
             /\ k.parent[g.left[n]] = n /\ k.parent[g.right[n]] = n
  <2>1. g.left[n] \notin {t, sib} /\ g.right[n] \notin {t, sib} BY <1>1, <1>5, <1>6, <1>9
  <2>2. g.left[n] # up /\ g.right[n] # up BY <1>5, <1>6, <1>9
  <2> QED BY <1>2, <1>5, <1>9, <2>1, <2>2
<1>10. ASSUME top # Null
       PROVE  /\ k.left[top] = g.left[top] /\ k.right[top] = sib /\ g.left[top] # sib
              /\ g.left[top] \in k.live /\ sib \in k.live /\ g.left[top] \notin path
              /\ k.parent[g.left[top]] = top /\ k.parent[sib] = top
  BY <1>1, <1>2, <1>5, <1>8, <1>10
<1>11. Depths(k) BY <1>2, <1>7 DEF Depths
<1>12. \A n \in Nodes(k) : k.left[n] \in k.live /\ k.right[n] \in k.live
  BY <1>1, <1>5, <1>7, <1>9, <1>10
<1>13. ASSUME NEW n \in Nodes(k)
       PROVE  Depth(k, k.left[n]) < k.depth[n] /\ Depth(k, k.right[n]) < k.depth[n]
  <2> DEFINE c == Depth(k, k.left[n])
             d == Depth(k, k.right[n])
  <2>1. c \in Nat /\ d \in Nat BY <1>2, <1>12, HeapFacts
  <2>2. k.depth[n] = 1 + Max({c, d}) BY <1>11 DEF Depths, DepthIs
  <2> HIDE DEF c, d
  <2>3. c < k.depth[n] /\ d < k.depth[n] BY <2>1, <2>2, MaxIs
  <2> QED BY <2>3 DEF c, d
<1>14. S \subseteq g.live BY DEF Trees
<1>15. R \subseteq k.live
  <2>1. \A z \in S \ {x} : z \in k.live BY <1>1, <1>2, <1>14
  <2>2. y \in k.live BY <1>1, <1>2, <1>3
  <2> QED BY <2>1, <2>2
<1>16. ASSUME NEW z \in g.live, z \notin S, z # sib \/ top # Null PROVE z \notin R
  BY <1>1, <1>3, <1>16
<1>17. Trees(k, R)
  <2>1. ASSUME NEW n \in Nodes(k) PROVE Node(k, R, n)
    <3>1. CASE n # top
      <4>1. /\ k.left[n] = g.left[n] /\ k.right[n] = g.right[n]
            /\ g.left[n] \in k.live \ {sib} /\ g.right[n] \in k.live \ {sib}
            /\ k.parent[g.left[n]] = n /\ k.parent[g.right[n]] = n
        BY <1>7, <1>9, <3>1
      <4>2. g.left[n] \notin R /\ g.right[n] \notin R BY <1>2, <1>5, <1>7, <1>16, <4>1
      <4> QED BY <1>5, <1>7, <1>13, <4>1, <4>2 DEF Node
    <3>2. CASE n = top
      <4>1. top # Null BY <1>5, <1>7, <3>2
      <4>2. k.left[n] \notin R /\ k.right[n] \notin R
        BY <1>1, <1>2, <1>5, <1>7, <1>10, <1>16, <3>2, <4>1
      <4> QED BY <1>10, <1>13, <3>2, <4>1, <4>2 DEF Node
    <3> QED BY <3>1, <3>2
  <2>2. ASSUME NEW z \in k.live \ R PROVE Child(k, z)
    <3>1. CASE z = sib
      <4>1. top # Null BY <1>3, <2>2, <3>1
      <4> QED BY <1>1, <1>7, <1>10, <3>1, <4>1 DEF Child
    <3>2. CASE z # sib
      <4>1. z \notin S /\ z \in g.live /\ z # up /\ z # t
        <5>1. z # x BY <1>1, <1>2, <1>3, <2>2
        <5> QED BY <1>2, <2>2, <5>1
      <4> DEFINE n == g.parent[z]
      <4>2. n \in Nodes(g) /\ (z = g.left[n] \/ z = g.right[n]) BY <1>4, <4>1
      <4>3. k.parent[z] = n BY <1>2, <2>2, <3>2
      <4> HIDE DEF n
      <4>4. n # up BY <1>1, <1>6, <3>2, <4>1, <4>2
      <4>5. n = top => z = g.left[n] BY <1>1, <1>5, <4>1, <4>2
      <4>6. z = k.left[n] \/ z = k.right[n] BY <1>2, <4>2, <4>4, <4>5
      <4> QED BY <1>7, <4>2, <4>3, <4>4, <4>6 DEF Child
    <3> QED BY <3>1, <3>2
  <2> QED BY <1>15, <2>1, <2>2 DEF Trees
<1>18. Tops(k, R)
  <2>1. ASSUME NEW z \in S \ {x} PROVE k.parent[z] = Null
    <3>1. z \in k.live /\ z # sib BY <1>1, <1>15
    <3> QED BY <1>2, <3>1 DEF Tops
  <2>2. k.parent[y] = Null
    <3>1. CASE top = Null BY <1>2, <1>3, <3>1
    <3>2. CASE top # Null
      <4>1. x \in k.live \ {sib} BY <1>1, <1>2, <3>2
      <4> QED BY <1>2, <1>3, <3>2, <4>1 DEF Tops
    <3> QED BY <3>1, <3>2
  <2> QED BY <2>1, <2>2 DEF Tops
<1>19. g.data[t] = <<>>
  <2>1. Len(g.data[t]) = 0 /\ g.data[t] \in Seq(Vals) BY <1>1, HeapFacts DEF Sizes
  <2> QED BY <2>1, EmptySeq
<1>20. Sizes(k)
  <2>1. ASSUME NEW n \in Nodes(k) PROVE k.nelems[n] = k.nelems[k.left[n]] + k.nelems[k.right[n]]
    <3>1. g.nelems[n] = g.nelems[g.left[n]] + g.nelems[g.right[n]] BY <1>7 DEF Sizes
    <3>2. n \in k.live /\ k.nelems[n] = g.nelems[n] BY <1>2 DEF Nodes
    <3>3. CASE n # top
      <4>1. /\ k.left[n] = g.left[n] /\ k.right[n] = g.right[n]
            /\ g.left[n] \in k.live /\ g.right[n] \in k.live
        BY <1>7, <1>9, <3>3
      <4> QED BY <1>2, <3>1, <3>2, <4>1
    <3>4. CASE n = top
      <4>1. g.nelems[up] = g.nelems[sib] + g.nelems[t] BY <1>1, <1>6 DEF Sizes
      <4>2. g.nelems[sib] \in Nat BY <1>1, HeapFacts
      <4>3. g.nelems[up] = g.nelems[sib] BY <4>1, <4>2
      <4>4. n # Null BY <1>5, <1>7
      <4>5. k.nelems[k.left[n]] = g.nelems[g.left[n]] /\ k.nelems[k.right[n]] = g.nelems[sib]
        BY <1>2, <1>10, <3>4, <4>4
      <4> QED BY <1>1, <3>1, <3>2, <3>4, <4>3, <4>4, <4>5
    <3> QED BY <3>3, <3>4
  <2>2. \A l \in LiveLeaves(k) : k.nelems[l] = Len(k.data[l]) /\ k.nelems[l] <= Grain
    BY <1>2, <1>7 DEF Sizes, LiveLeaves
  <2>3. \A l \in Leaves \ k.live : k.data[l] = <<>>
    <3>1. \A l \in Leaves \ k.live : l \in Leaves \ g.live \/ l = t BY <1>1, <1>2
    <3> QED BY <1>2, <1>19, <3>1 DEF Sizes
  <2> QED BY <2>1, <2>2, <2>3 DEF Sizes
(* what is left of the leaves *)
<1> DEFINE one == <<t>>
           e == Last(LeavesUnder(g, sib))
           P(z) == /\ z \notin path => LeavesUnder(k, z) = LeavesUnder(g, z)
                   /\ z \in path =>
                        LeavesUnder(g, z) = LeavesUnder(k, z) \o one /\ Last(LeavesUnder(k, z)) = e
           T == {z \in k.live : P(z)}
<1>21. one \in Seq(Leaves) /\ one \in Seq(LiveLeaves(g)) BY <1>1, OneSeq
<1>22. LeavesUnder(g, t) = one BY <1>1, LeavesRules
<1> HIDE DEF one, e
<1>23. ASSUME NEW l \in LiveLeaves(k) PROVE l \in T
  <2>1. l \in LiveLeaves(g) /\ l \in Leaves /\ l # t /\ l \in k.live BY <1>7 DEF LiveLeaves
  <2>2. l \notin path BY <1>8, <2>1
  <2>3. LeavesUnder(k, l) = <<l>> BY <1>2, <1>17, LeavesRules
  <2>4. LeavesUnder(g, l) = <<l>> BY <2>1, LeavesRules
  <2> QED BY <2>1, <2>2, <2>3, <2>4
<1>24. \A z \in k.live : LeavesUnder(k, z) \in Seq(LiveLeaves(k)) /\ LeavesUnder(k, z) # <<>>
                         /\ LeavesUnder(k, z) \in Seq(Leaves)
  BY <1>2, <1>17, LeavesRules, LeafSeqs
<1>25. \A z \in g.live : LeavesUnder(g, z) \in Seq(Leaves) BY LeafSeqs
<1>26. \A s1, s2, s3 \in Seq(Leaves) : (s1 \o s2) \o s3 = s1 \o (s2 \o s3) BY ConcatAssociative
<1>27. ASSUME NEW n \in Nodes(k), k.left[n] \in T, k.right[n] \in T PROVE n \in T
  <2>1. n \in Nodes(g) /\ n # up /\ n \in k.live BY <1>7 DEF Nodes
  <2>2. LeavesUnder(k, n) = LeavesUnder(k, k.left[n]) \o LeavesUnder(k, k.right[n])
    BY <1>2, <1>17, LeavesRules
  <2>3. LeavesUnder(g, n) = LeavesUnder(g, g.left[n]) \o LeavesUnder(g, g.right[n])
    BY <2>1, LeavesRules
  <2>4. P(k.left[n]) /\ P(k.right[n]) BY <1>27
  <2>5. k.left[n] \in k.live /\ k.right[n] \in k.live BY <1>12
  <2> DEFINE kl == LeavesUnder(k, k.left[n])
             kr == LeavesUnder(k, k.right[n])
  <2>6. kl \in Seq(Leaves) /\ kr \in Seq(Leaves) /\ kr # <<>> BY <1>24, <2>5
  <2>7. Last(kl \o kr) = Last(kr)
    <3> HIDE DEF kl, kr
    <3> QED BY <2>6, LastConcat
  <2>8. CASE n # top
    <3>1. k.left[n] = g.left[n] /\ k.right[n] = g.right[n] BY <1>9, <2>1, <2>8
    <3>2. CASE n \in path
      <4>1. g.right[n] \in path /\ g.left[n] \notin path BY <1>8, <2>1, <3>2
      <4>2. LeavesUnder(g, g.left[n]) = kl /\ LeavesUnder(g, g.right[n]) = kr \o one /\ Last(kr) = e
        BY <2>4, <3>1, <4>1
      <4>3. LeavesUnder(g, n) = (kl \o kr) \o one
        <5> HIDE DEF kl, kr
        <5>1. (kl \o kr) \o one = kl \o (kr \o one) BY <1>21, <1>26, <2>6
        <5> QED BY <2>3, <4>2, <5>1
      <4> QED BY <2>1, <2>2, <2>7, <3>2, <4>2, <4>3
    <3>3. CASE n \notin path
      <4>1. g.left[n] \notin path /\ g.right[n] \notin path
        <5>1. /\ g.left[n] # x /\ g.right[n] # x
              /\ g.parent[g.left[n]] = n /\ g.parent[g.right[n]] = n
          BY <1>5, <2>1
        <5> QED BY <1>8, <3>3, <5>1
      <4> QED BY <2>1, <2>2, <2>3, <2>4, <3>1, <3>3, <4>1
    <3> QED BY <3>2, <3>3
  <2>9. CASE n = top
    <3>1. top # Null BY <1>5, <2>1, <2>9
    <3>2. k.left[n] = g.left[n] /\ k.right[n] = sib /\ g.left[n] \notin path /\ n \in path
          /\ g.right[n] = up
      BY <1>1, <1>10, <2>9, <3>1
    <3>3. LeavesUnder(g, g.left[n]) = kl /\ LeavesUnder(g, sib) = kr BY <1>1, <2>4, <3>2
    <3>4. LeavesUnder(g, up) = LeavesUnder(g, sib) \o one BY <1>1, <1>6, <1>22, LeavesRules
    <3>5. LeavesUnder(g, n) = (kl \o kr) \o one
      <4> HIDE DEF kl, kr
      <4>1. (kl \o kr) \o one = kl \o (kr \o one) BY <1>21, <1>26, <2>6
      <4>2. LeavesUnder(g, n) = kl \o (kr \o one) BY <2>3, <3>2, <3>3, <3>4
      <4> QED BY <4>1, <4>2
    <3>6. Last(kr) = e BY <3>3 DEF e
    <3> QED BY <2>1, <2>2, <2>7, <3>2, <3>5, <3>6
  <2> QED BY <2>8, <2>9
<1> HIDE DEF T
<1>28. k.live \subseteq T BY <1>2, <1>17, <1>23, <1>27, TreeSets
<1>29. \A z \in k.live : P(z) BY <1>28 DEF T
<1>30. y \in k.live BY <1>15
<1>31. /\ LeavesUnder(g, x) = LeavesUnder(k, y) \o one
       /\ Last(LeavesUnder(k, y)) = e
  <2>1. CASE top = Null
    <3>1. y = sib /\ x = up BY <1>1, <1>3, <2>1
    <3>2. LeavesUnder(k, y) = LeavesUnder(g, sib) BY <1>1, <1>29, <1>30, <3>1
    <3>3. LeavesUnder(g, up) = LeavesUnder(g, sib) \o one BY <1>1, <1>6, <1>22, LeavesRules
    <3> QED BY <3>1, <3>2, <3>3 DEF e
  <2>2. CASE top # Null
    <3>1. y = x /\ x \in path BY <1>3, <1>8, <2>2
    <3> QED BY <1>29, <1>30, <3>1
  <2> QED BY <2>1, <2>2
<1>32. ASSUME NEW z \in S \ {x} PROVE LeavesUnder(k, z) = LeavesUnder(g, z)
  <2>1. z \in k.live /\ z \in g.live BY <1>14, <1>15
  <2>2. z \in All(g, z) /\ All(g, z) \intersect All(g, x) = {} BY <2>1, AllRules, Apart
  <2>3. z \notin path BY <1>8, <2>2
  <2> QED BY <1>29, <2>1, <2>3
<1>33. y \in All(g, x)
  <2>1. x \in All(g, x) BY <1>1, AllRules
  <2>2. up = x => sib \in All(g, x) BY <1>1, <1>6, <2>1, Descend
  <2> QED BY <1>1, <1>3, <2>1, <2>2
<1>34. Elems(k, y) = Elems(g, x)
  <2>1. LeavesUnder(k, y) \in Seq(Leaves) BY <1>24, <1>30
  <2> DEFINE s == LeavesUnder(k, y)
  <2>2. Data(g, s \o <<t>>) = Data(g, s) \o g.data[t] /\ Data(g, s) \in Seq(Vals)
    <3> HIDE DEF s
    <3> QED BY <1>1, <2>1, DataRules DEF s
  <2>3. Data(g, s) \o <<>> = Data(g, s) BY <2>2, ConcatEmptySeq
  <2>4. Elems(g, x) = Data(g, s) BY <1>19, <1>31, <2>2, <2>3 DEF Elems, one
  <2>5. Data(k, s) = Data(g, s) BY <1>2 DEF Data
  <2> QED BY <2>4, <2>5 DEF Elems
<1>35. k.nelems[y] = g.nelems[x]
  <2>1. g.nelems[x] = Len(Elems(g, x)) BY <1>1, SizeIs
  <2>2. k.nelems[y] = Len(Elems(k, y)) BY <1>2, <1>17, <1>20, <1>30, SizeIs
  <2> QED BY <1>34, <2>1, <2>2
<1>36. CutFrom(g, S, x, t, k, y) BY <1>31, <1>32, <1>34 DEF CutFrom, one, e, sib, up
<1> QED BY <1>2, <1>11, <1>17, <1>18, <1>20, <1>33, <1>35, <1>36

LEMMA DeallocIs ==
  ASSUME NEW g \in Heaps, NEW xs, NEW k, k = Dealloc(g, xs)
  PROVE  /\ k \in Heaps /\ k.live = g.live \ xs /\ k.root = g.root /\ k.tail = g.tail
         /\ \A z \in Hdrs : z \notin xs => k.nelems[z] = g.nelems[z] /\ k.parent[z] = g.parent[z]
         /\ \A n \in Inner : n \notin xs =>
              k.left[n] = g.left[n] /\ k.right[n] = g.right[n] /\ k.depth[n] = g.depth[n]
         /\ \A l \in Leaves : k.data[l] = IF l \in xs THEN <<>> ELSE g.data[l]
<1>1. /\ k.live = g.live \ xs
      /\ k.nelems = [z \in Hdrs |-> IF z \in xs THEN 0 ELSE g.nelems[z]]
      /\ k.parent = [z \in Hdrs |-> IF z \in xs THEN Null ELSE g.parent[z]]
      /\ k.left = [n \in Inner |-> IF n \in xs THEN Null ELSE g.left[n]]
      /\ k.right = [n \in Inner |-> IF n \in xs THEN Null ELSE g.right[n]]
      /\ k.depth = [n \in Inner |-> IF n \in xs THEN 0 ELSE g.depth[n]]
      /\ k.data = [l \in Leaves |-> IF l \in xs THEN <<>> ELSE g.data[l]]
      /\ k.root = g.root /\ k.tail = g.tail
  BY DEF Dealloc, Heaps
<1>2. k = [live |-> k.live, nelems |-> k.nelems, parent |-> k.parent, left |-> k.left,
           right |-> k.right, depth |-> k.depth, data |-> k.data, root |-> k.root, tail |-> k.tail]
  BY DEF Dealloc, Heaps
<1>3. k.live \subseteq Hdrs /\ k.nelems \in [Hdrs -> Nat] /\ k.parent \in [Hdrs -> Inner \union {Null}]
  <2>1. g.live \subseteq Hdrs /\ g.nelems \in [Hdrs -> Nat] /\ g.parent \in [Hdrs -> Inner \union {Null}]
    BY HeapFacts
  <2>2. 0 \in Nat OBVIOUS
  <2> QED BY <1>1, <2>1, <2>2
<1>4. k.left \in [Inner -> Hdrs \union {Null}] /\ k.right \in [Inner -> Hdrs \union {Null}]
  BY <1>1, HeapFacts
<1>5. k.depth \in [Inner -> Nat] BY <1>1, HeapFacts
<1>6. k.data \in [Leaves -> Seq(Vals)]
  <2>1. <<>> \in Seq(Vals) BY EmptySeq
  <2> QED BY <1>1, <2>1, HeapFacts
<1>7. k \in Heaps BY <1>1, <1>2, <1>3, <1>4, <1>5, <1>6, HeapFacts DEF Heaps
<1> QED BY <1>1, <1>7

(* The last leaf below the sibling of the leaf t that goes, while its      *)
(* parent is still there.                                                  *)
LEMMA RightmostCut ==
  ASSUME NEW g \in Heaps, NEW S, Trees(g, S), Tops(g, S), NEW x \in S,
         NEW t, t = Last(LeavesUnder(g, x)), t # x,
         NEW up, up = g.parent[t], NEW sib, sib = g.left[up], NEW top, top = g.parent[up],
         NEW w, w.live = g.live,
         \A n \in Nodes(g) : w.right[n] = IF n = top THEN sib ELSE g.right[n]
  PROVE  Rightmost(w, sib) = Last(LeavesUnder(g, sib))
<1> DEFINE path == Tailpath(g, x) \ {up, t}
           end(y) == Last(LeavesUnder(g, y))
           e == end(sib)
           Is(f) == f = [y \in w.live |-> IF y \in Leaves THEN y ELSE f[w.right[y]]]
           sol == [y \in g.live |-> IF y \in path THEN e ELSE end(y)]
           u == CHOOSE f : Is(f)
<1>1. /\ x \in g.live /\ t \in LiveLeaves(g) /\ t \in Leaves /\ t \in g.live /\ t \notin S
      /\ up \in Nodes(g) /\ up \in g.live /\ up \notin Leaves
      /\ t = g.right[up] /\ up \in Tailpath(g, x) /\ t \in Tailpath(g, x)
      /\ sib \in g.live /\ sib \notin S /\ sib \notin Tailpath(g, x)
      /\ g.parent[sib] = up /\ sib # t /\ sib # up
      /\ (top = Null <=> up = x)
      /\ top # Null => /\ top \in Nodes(g) /\ top \in Tailpath(g, x) /\ g.right[top] = up
                       /\ g.left[top] \notin {up, t, sib} /\ top \notin {up, t, sib}
                       /\ up \notin S
  BY TailParent
<1>2. \A n \in Nodes(g) :
        /\ n \in g.live /\ n \notin Leaves /\ g.right[n] \in g.live /\ g.right[n] \notin S
        /\ g.parent[g.right[n]] = n
  BY NodeFacts
<1>3. \A y \in Tailpath(g, x) : y \in Nodes(g) => g.right[y] \in Tailpath(g, x) BY <1>1, TailpathFacts
<1>4. \A y \in Tailpath(g, x) : y # x => g.parent[y] \in Tailpath(g, x) BY <1>1, TailpathFacts
<1>5. \A y \in g.live : y \in Leaves => end(y) = y
  <2> SUFFICES ASSUME NEW y \in g.live, y \in Leaves PROVE end(y) = y OBVIOUS
  <2> DEFINE one == <<y>>
  <2>1. LeavesUnder(g, y) = one BY LeavesRules DEF LiveLeaves
  <2>2. one \in Seq(g.live) /\ Len(one) = 1 /\ one[1] = y /\ one # <<>> BY OneSeq
  <2> HIDE DEF one
  <2>3. Last(one) = y BY <2>2, LastIs
  <2> QED BY <2>1, <2>3
<1>6. \A n \in Nodes(g) : end(n) = end(g.right[n])
  <2> SUFFICES ASSUME NEW n \in Nodes(g) PROVE end(n) = end(g.right[n]) OBVIOUS
  <2> DEFINE l1 == LeavesUnder(g, g.left[n])
             l2 == LeavesUnder(g, g.right[n])
  <2>1. l1 \in Seq(LiveLeaves(g)) /\ l2 \in Seq(LiveLeaves(g)) /\ l2 # <<>> /\ LeavesUnder(g, n) = l1 \o l2
    BY NodeFacts, LeavesRules
  <2> HIDE DEF l1, l2
  <2>2. Last(l1 \o l2) = Last(l2) BY <2>1, LastConcat
  <2> QED BY <2>1, <2>2 DEF l2
<1> HIDE DEF end
<1>7. \A y \in g.live : y \in path => y \in Nodes(g)
  <2>1. Tailpath(g, x) \intersect Leaves = {t} BY <1>1, TailpathFacts
  <2> QED BY <2>1, LeafOrNode
<1>8. Is(sol)
  <2>1. ASSUME NEW y \in g.live
        PROVE  sol[y] = IF y \in Leaves THEN y ELSE sol[w.right[y]]
    <3>1. CASE y \in Leaves
      <4>1. y \notin path BY <1>2, <1>7, <3>1
      <4> QED BY <1>5, <3>1, <4>1
    <3>2. CASE y \in Nodes(g) /\ y = top
      <4>1. top # Null BY <3>2, HeapFacts DEF Nodes
      <4>2. w.right[y] = sib /\ y \in path /\ sib \notin path /\ y \notin Leaves BY <1>1, <1>2, <3>2, <4>1
      <4> QED BY <1>1, <4>2
    <3>3. CASE y \in Nodes(g) /\ y # top /\ y \in path
      <4>1. w.right[y] = g.right[y] /\ g.right[y] \in g.live /\ y \notin Leaves BY <1>2, <3>3
      <4>2. g.right[y] \in path BY <1>1, <1>2, <1>3, <3>3
      <4> QED BY <3>3, <4>1, <4>2
    <3>4. CASE y \in Nodes(g) /\ y # top /\ y \notin path
      <4>1. w.right[y] = g.right[y] /\ g.right[y] \in g.live /\ y \notin Leaves BY <1>2, <3>4
      <4>2. g.right[y] \notin path
        <5> SUFFICES ASSUME g.right[y] \in path PROVE FALSE OBVIOUS
        <5>1. g.right[y] # x /\ g.parent[g.right[y]] = y BY <1>2, <3>4
        <5>2. y \in Tailpath(g, x) BY <1>4, <5>1
        <5>3. y = up BY <1>1, <1>2, <3>4, <5>2
        <5> QED BY <1>1, <5>3
      <4> QED BY <1>6, <3>4, <4>1, <4>2
    <3> QED BY <3>1, <3>2, <3>3, <3>4, LeafOrNode
  <2> HIDE DEF path
  <2>2. sol = [y \in w.live |-> sol[y]] OBVIOUS
  <2> HIDE DEF sol
  <2>3. sol = [y \in w.live |-> IF y \in Leaves THEN y ELSE sol[w.right[y]]] BY <2>1, <2>2
  <2> QED BY <2>3
<1> HIDE DEF sol
<1>9. Is(u) BY <1>8
<1>10. Rightmost(w, sib) = u[sib] BY DEF Rightmost
<1> HIDE DEF u
<1>11. \A y \in g.live : u[y] = IF y \in Leaves THEN y ELSE u[w.right[y]] BY <1>9
<1> DEFINE T == {y \in g.live : y \in All(g, sib) => u[y] = end(y)}
<1>12. ASSUME NEW l \in LiveLeaves(g) PROVE l \in T
  BY <1>5, <1>11 DEF LiveLeaves
<1>13. ASSUME NEW n \in Nodes(g), g.left[n] \in T, g.right[n] \in T PROVE n \in T
  <2> SUFFICES ASSUME n \in All(g, sib) PROVE u[n] = end(n) BY <1>2
  <2>1. g.right[n] \in All(g, sib) BY <1>1, Descend
  <2>2. n # top
    <3> SUFFICES ASSUME n = top PROVE FALSE OBVIOUS
    <3>1. n # Null BY HeapFacts DEF Nodes
    <3>2. g.right[n] = up BY <1>1, <3>1
    <3>3. up \notin All(g, sib) BY <1>1, Apart
    <3> QED BY <2>1, <3>2, <3>3
  <2>3. u[n] = u[g.right[n]] BY <1>2, <1>11, <2>2
  <2> QED BY <1>6, <1>13, <2>1, <2>3
<1> HIDE DEF T
<1>14. g.live \subseteq T BY <1>12, <1>13, TreeSets
<1>15. sib \in All(g, sib) BY <1>1, AllRules
<1> QED BY <1>1, <1>10, <1>14, <1>15 DEF T, end

(* The tree with the sibling in the place of its parent up, before leaf t  *)
(* and up are freed; y is the root.                                        *)
Spliced(g, w, r, up, sib, top, y) ==
  /\ w \in Heaps /\ w.live = g.live /\ w.data = g.data /\ w.nelems = g.nelems
  /\ w.left = g.left /\ w.tail = g.tail
  /\ \A n \in Nodes(g) : w.right[n] = (IF n = top THEN sib ELSE g.right[n])
  /\ \A z \in Hdrs : w.parent[z] = (IF z = sib THEN top ELSE g.parent[z])
  /\ \A n \in Nodes(g) \ {up} : w.depth[n] = DepthOver(w, w.depth, n)
  /\ w.root = [g.root EXCEPT ![r] = y]

LEMMA Links ==
  ASSUME NEW g \in Heaps, NEW S, Trees(g, S)
  PROVE  \A n \in Nodes(g) :
           /\ n \in g.live /\ n \in Inner /\ n # Null /\ n \in Hdrs
           /\ g.left[n] \in Hdrs /\ g.right[n] \in Hdrs /\ g.left[n] \in g.live /\ g.right[n] \in g.live
           /\ g.left[n] # g.right[n] /\ g.parent[g.left[n]] = n /\ g.parent[g.right[n]] = n
           /\ Depth(g, g.left[n]) < g.depth[n] /\ Depth(g, g.right[n]) < g.depth[n]
           /\ Depth(g, n) = g.depth[n] /\ g.depth[n] \in Nat
<1> SUFFICES ASSUME NEW n \in Nodes(g)
             PROVE  /\ n \in g.live /\ n \in Inner /\ n # Null /\ n \in Hdrs
                    /\ g.left[n] \in Hdrs /\ g.right[n] \in Hdrs /\ g.left[n] \in g.live /\ g.right[n] \in g.live
                    /\ g.left[n] # g.right[n] /\ g.parent[g.left[n]] = n /\ g.parent[g.right[n]] = n
                    /\ Depth(g, g.left[n]) < g.depth[n] /\ Depth(g, g.right[n]) < g.depth[n]
                    /\ Depth(g, n) = g.depth[n] /\ g.depth[n] \in Nat
  OBVIOUS
<1>1. /\ n \in g.live /\ n \in Inner /\ n \notin Leaves
      /\ g.left[n] \in g.live /\ g.right[n] \in g.live
      /\ g.left[n] # g.right[n] /\ g.parent[g.left[n]] = n /\ g.parent[g.right[n]] = n
      /\ Depth(g, g.left[n]) < Depth(g, n) /\ Depth(g, g.right[n]) < Depth(g, n)
  BY NodeFacts
<1>2. /\ n # Null /\ n \in Hdrs /\ g.left[n] \in Hdrs /\ g.right[n] \in Hdrs /\ g.depth[n] \in Nat
  BY <1>1, HeapFacts
<1>3. Depth(g, n) = g.depth[n] BY <1>1 DEF Depth
<1> QED BY <1>1, <1>2, <1>3

LEMMA HeapRecord ==
  ASSUME NEW k, k = [live |-> k.live, nelems |-> k.nelems, parent |-> k.parent, left |-> k.left,
                     right |-> k.right, depth |-> k.depth, data |-> k.data, root |-> k.root,
                     tail |-> k.tail],
         k.live \subseteq Hdrs, k.nelems \in [Hdrs -> Nat], k.parent \in [Hdrs -> Inner \union {Null}],
         k.left \in [Inner -> Hdrs \union {Null}], k.right \in [Inner -> Hdrs \union {Null}],
         k.depth \in [Inner -> Nat], k.data \in [Leaves -> Seq(Vals)],
         k.root \in [Ropes -> Hdrs \union {Null}], k.tail \in [Ropes -> Leaves \union {Null}]
  PROVE  k \in Heaps
BY DEF Heaps

(* The ways rpa_pop links the sibling.                                     *)
AtRoot(g, r, sib) == [g EXCEPT !.root[r] = sib, !.parent[sib] = Null]
BelowTop(g, sib, top) == DepthRecalc([g EXCEPT !.right[top] = sib, !.parent[sib] = top], top)
Grafted(g, r, sib, top) == IF top = Null THEN AtRoot(g, r, sib) ELSE BelowTop(g, sib, top)
Retailor(g, r, sib) == [g EXCEPT !.tail[r] = Rightmost(g, sib)]
Splice(g, r, t, up, sib, top) == Dealloc(Retailor(Grafted(g, r, sib, top), r, sib), {up, t})

LEMMA SpliceIs ==
  ASSUME NEW g, NEW r
  PROVE  DropTail(g, r)
           = Splice(g, r, g.tail[r], g.parent[g.tail[r]], g.left[g.parent[g.tail[r]]],
                    g.parent[g.parent[g.tail[r]]])
BY DEF DropTail, Splice, Grafted, Retailor, AtRoot, BelowTop

LEMMA SplicedAtRoot ==
  ASSUME NEW g, NEW S, Sound(g, S), Tops(g, S), NEW x \in S,
         NEW t, t = Last(LeavesUnder(g, x)), t # x,
         NEW up, up = g.parent[t], NEW sib, sib = g.left[up], NEW top, top = g.parent[up],
         top = Null, NEW r \in Ropes,
         NEW w, w = AtRoot(g, r, sib)
  PROVE  Spliced(g, w, r, up, sib, top, sib)
<1> USE DEF Sound
<1>1. sib \in g.live /\ sib \in Hdrs
  <2>1. sib \in g.live BY TailParent
  <2> QED BY <2>1, HeapFacts
<1> DEFINE ps == [g.parent EXCEPT ![sib] = Null]
           rs == [g.root EXCEPT ![r] = sib]
<1>2. w = [g EXCEPT !.root = rs, !.parent = ps] BY DEF Heaps, AtRoot
<1>7. ps = [g.parent EXCEPT ![sib] = Null] /\ rs = [g.root EXCEPT ![r] = sib] OBVIOUS
<1> HIDE DEF ps, rs
<1>3. /\ w \in Heaps /\ w.live = g.live /\ w.data = g.data /\ w.nelems = g.nelems
      /\ w.left = g.left /\ w.right = g.right /\ w.tail = g.tail /\ w.depth = g.depth
      /\ w.parent = ps /\ w.root = rs
  <2>1. /\ w = [live |-> w.live, nelems |-> w.nelems, parent |-> w.parent, left |-> w.left,
                right |-> w.right, depth |-> w.depth, data |-> w.data, root |-> w.root, tail |-> w.tail]
        /\ w.live = g.live /\ w.data = g.data /\ w.nelems = g.nelems
        /\ w.left = g.left /\ w.right = g.right /\ w.tail = g.tail /\ w.depth = g.depth
        /\ w.parent = ps /\ w.root = rs
    BY <1>2 DEF Heaps
  <2>2. ps \in [Hdrs -> Inner \union {Null}]
    <3>1. g.parent \in [Hdrs -> Inner \union {Null}] BY HeapFacts
    <3> QED BY <1>7, <3>1, ExceptType
  <2>3. rs \in [Ropes -> Hdrs \union {Null}]
    <3>1. g.root \in [Ropes -> Hdrs \union {Null}] BY HeapFacts
    <3> QED BY <1>1, <1>7, <3>1, ExceptType
  <2>4. /\ w.live \subseteq Hdrs /\ w.nelems \in [Hdrs -> Nat] /\ w.parent \in [Hdrs -> Inner \union {Null}]
        /\ w.left \in [Inner -> Hdrs \union {Null}] /\ w.right \in [Inner -> Hdrs \union {Null}]
        /\ w.depth \in [Inner -> Nat] /\ w.data \in [Leaves -> Seq(Vals)]
        /\ w.root \in [Ropes -> Hdrs \union {Null}] /\ w.tail \in [Ropes -> Leaves \union {Null}]
    BY <2>1, <2>2, <2>3, HeapFacts
  <2>5. w \in Heaps BY <2>1, <2>4, HeapRecord
  <2> QED BY <2>1, <2>5
<1>4. \A z \in Hdrs : w.parent[z] = (IF z = sib THEN top ELSE g.parent[z])
  <2> SUFFICES ASSUME NEW z \in Hdrs
               PROVE  w.parent[z] = (IF z = sib THEN top ELSE g.parent[z])
    OBVIOUS
  <2>1. DOMAIN g.parent = Hdrs BY HeapFacts
  <2>2. ps[z] = (IF z = sib THEN Null ELSE g.parent[z]) BY <2>1 DEF ps
  <2> QED BY <1>3, <2>2
<1>5. \A n \in Nodes(g) : w.right[n] = (IF n = top THEN sib ELSE g.right[n])
  <2>1. \A n \in Nodes(g) : n # Null BY Links
  <2> QED BY <1>3, <2>1
<1>6. \A n \in Nodes(g) \ {up} : w.depth[n] = DepthOver(w, w.depth, n)
  <2> SUFFICES ASSUME NEW n \in Nodes(g) PROVE w.depth[n] = DepthOver(w, w.depth, n) OBVIOUS
  <2>1. DepthIs(g, n) BY DEF Depths
  <2>2. g.depth[n] = DepthOver(g, g.depth, n) BY <2>1 DEF DepthIs, DepthOver, Depth, DepthIn
  <2>3. w.depth = g.depth /\ w.left = g.left /\ w.right = g.right BY <1>3
  <2> QED BY <2>2, <2>3 DEF DepthOver
<1> QED BY <1>3, <1>4, <1>5, <1>6 DEF Spliced, rs

LEMMA SplicedBelow ==
  ASSUME NEW g, NEW S, Sound(g, S), Tops(g, S), NEW x \in S,
         NEW t, t = Last(LeavesUnder(g, x)), t # x,
         NEW up, up = g.parent[t], NEW sib, sib = g.left[up], NEW top, top = g.parent[up],
         top # Null, NEW r \in Ropes, g.root[r] = x,
         NEW w, w = BelowTop(g, sib, top)
  PROVE  Spliced(g, w, r, up, sib, top, x)
<1> USE DEF Sound
<1> DEFINE M == Nodes(g) \ {up}
           ps == [g.parent EXCEPT ![sib] = top]
           rs == [g.right EXCEPT ![top] = sib]
           g1 == [g EXCEPT !.right = rs, !.parent = ps]
<1>1. /\ t \in Leaves /\ t \in g.live /\ up \in Nodes(g) /\ t = g.right[up]
      /\ sib \in g.live /\ g.parent[sib] = up /\ sib # t /\ sib # up
      /\ top \in Nodes(g) /\ g.right[top] = up
      /\ g.left[top] \notin {up, t, sib} /\ top \notin {up, t, sib}
  BY TailParent
<1>2. \A n \in Nodes(g) :
        /\ n \in g.live /\ n \in Inner /\ n # Null /\ n \in Hdrs
        /\ g.left[n] \in Hdrs /\ g.right[n] \in Hdrs /\ g.left[n] \in g.live /\ g.right[n] \in g.live
        /\ g.left[n] # g.right[n] /\ g.parent[g.left[n]] = n /\ g.parent[g.right[n]] = n
        /\ Depth(g, g.left[n]) < g.depth[n] /\ Depth(g, g.right[n]) < g.depth[n]
        /\ Depth(g, n) = g.depth[n] /\ g.depth[n] \in Nat
  BY Links
<1>3. sib \in Hdrs /\ top \in Inner /\ top \in M BY <1>1, <1>2, HeapFacts
<1>4. w = DepthRecalc(g1, top)
  <2>1. [g EXCEPT !.right[top] = sib, !.parent[sib] = top] = g1 BY DEF Heaps
  <2> HIDE DEF g1
  <2> QED BY <2>1 DEF BelowTop
<1>19. ps = [g.parent EXCEPT ![sib] = top] /\ rs = [g.right EXCEPT ![top] = sib] OBVIOUS
<1> HIDE DEF ps, rs
<1>5. /\ g1 \in Heaps /\ g1.live = g.live /\ g1.data = g.data /\ g1.nelems = g.nelems
      /\ g1.left = g.left /\ g1.right = rs /\ g1.tail = g.tail /\ g1.depth = g.depth
      /\ g1.parent = ps /\ g1.root = g.root
  <2>6. g1 = [g EXCEPT !.right = rs, !.parent = ps] OBVIOUS
  <2> HIDE DEF g1
  <2>1. /\ g1 = [live |-> g1.live, nelems |-> g1.nelems, parent |-> g1.parent, left |-> g1.left,
                right |-> g1.right, depth |-> g1.depth, data |-> g1.data, root |-> g1.root, tail |-> g1.tail]
        /\ g1.live = g.live /\ g1.data = g.data /\ g1.nelems = g.nelems
        /\ g1.left = g.left /\ g1.right = rs /\ g1.tail = g.tail /\ g1.depth = g.depth
        /\ g1.parent = ps /\ g1.root = g.root
    BY <2>6 DEF Heaps
  <2>2. ps \in [Hdrs -> Inner \union {Null}]
    <3>1. g.parent \in [Hdrs -> Inner \union {Null}] BY HeapFacts
    <3> QED BY <1>3, <1>19, <3>1, ExceptType
  <2>3. rs \in [Inner -> Hdrs \union {Null}]
    <3>1. g.right \in [Inner -> Hdrs \union {Null}] BY HeapFacts
    <3> QED BY <1>3, <1>19, <3>1, ExceptType
  <2>4. /\ g1.live \subseteq Hdrs /\ g1.nelems \in [Hdrs -> Nat] /\ g1.parent \in [Hdrs -> Inner \union {Null}]
        /\ g1.left \in [Inner -> Hdrs \union {Null}] /\ g1.right \in [Inner -> Hdrs \union {Null}]
        /\ g1.depth \in [Inner -> Nat] /\ g1.data \in [Leaves -> Seq(Vals)]
        /\ g1.root \in [Ropes -> Hdrs \union {Null}] /\ g1.tail \in [Ropes -> Leaves \union {Null}]
    BY <2>1, <2>2, <2>3, HeapFacts
  <2>5. g1 \in Heaps BY <2>1, <2>4, HeapRecord
  <2> QED BY <2>1, <2>5
<1> HIDE DEF g1
<1>6. /\ \A n \in Inner : g1.right[n] = (IF n = top THEN sib ELSE g.right[n])
      /\ \A z \in Hdrs : g1.parent[z] = (IF z = sib THEN top ELSE g.parent[z])
      /\ Nodes(g1) = Nodes(g) /\ \A z : Depth(g1, z) = Depth(g, z)
  <2>1. g.right \in [Inner -> Hdrs \union {Null}] /\ g.parent \in [Hdrs -> Inner \union {Null}] BY HeapFacts
  <2> QED BY <1>3, <1>5, <2>1 DEF Nodes, Depth, ps, rs
<1>7. Depth(g, sib) < g.depth[top]
  <2>1. Depth(g, sib) < g.depth[up] BY <1>1, <1>2
  <2>3. g.depth[up] < g.depth[top]
    <3>1. Depth(g, g.right[top]) < g.depth[top] BY <1>1, <1>2
    <3>2. Depth(g, up) = g.depth[up] BY <1>1, <1>2
    <3> QED BY <1>1, <3>1, <3>2
  <2>2. Depth(g, sib) \in Nat /\ g.depth[up] \in Nat /\ g.depth[top] \in Nat
    BY <1>1, <1>2, <1>3, HeapFacts
  <2> QED BY <2>1, <2>2, <2>3
<1>8. \A n \in Nodes(g) : n \notin S => /\ g.parent[n] \in Nodes(g)
                                        /\ (n = g.left[g.parent[n]] \/ n = g.right[g.parent[n]])
  BY <1>2 DEF Trees, Child
<1>9. Upward(g1)
  <2> SUFFICES ASSUME NEW n \in Nodes(g)
               PROVE  \/ g1.parent[n] = Null
                      \/ g1.parent[n] \in Nodes(g) /\ g.depth[n] < g.depth[g1.parent[n]]
    BY <1>5, <1>6 DEF Upward
  <2>1. n \in Hdrs /\ Depth(g, n) = g.depth[n] BY <1>2
  <2>2. CASE n = sib BY <1>1, <1>6, <1>7, <2>1, <2>2
  <2>3. CASE n # sib /\ n \in S BY <1>6, <2>1, <2>3 DEF Tops
  <2>4. CASE n # sib /\ n \notin S
    <3>1. g.parent[n] \in Nodes(g) /\ Depth(g, n) < g.depth[g.parent[n]] BY <1>2, <1>8, <2>4
    <3> QED BY <1>6, <2>1, <2>4, <3>1
  <2> QED BY <2>2, <2>3, <2>4
<1>10. ASSUME NEW m \in M, NEW c \in {g1.left[m], g1.right[m]}
       PROVE  /\ c \in Hdrs /\ Depth(g, c) < g.depth[m] /\ c # up
              /\ c \in g.live /\ g1.parent[c] = m
  <2>1. m \in Nodes(g) /\ m # up /\ m \in Inner BY <1>2
  <2>2. CASE m = top
    <3>1. c = g.left[top] \/ c = sib BY <1>5, <1>6, <1>10, <2>1, <2>2
    <3>2. CASE c = sib BY <1>1, <1>3, <1>6, <1>7, <2>2, <3>2
    <3>3. CASE c = g.left[top] /\ c # sib /\ c # up
      <4>1. c \in Hdrs /\ c \in g.live /\ g.parent[c] = top /\ Depth(g, c) < g.depth[top]
        BY <1>1, <1>2, <3>3
      <4> QED BY <1>6, <2>2, <3>3, <4>1
    <3> QED BY <1>1, <3>1, <3>2, <3>3
  <2>3. CASE m # top
    <3>1. c = g.left[m] \/ c = g.right[m] BY <1>5, <1>6, <1>10, <2>1, <2>3
    <3>2. c \in Hdrs /\ c \in g.live /\ Depth(g, c) < g.depth[m] /\ g.parent[c] = m BY <1>2, <2>1, <3>1
    <3>3. c # up /\ c # sib BY <1>1, <2>1, <2>3, <3>2
    <3> QED BY <1>6, <3>2, <3>3
  <2> QED BY <2>2, <2>3
<1>11. Region(g1, M)
  <2>1. \A m \in M : g1.parent[m] = Null \/ g1.parent[m] \in M
    <3> SUFFICES ASSUME NEW m \in M, g1.parent[m] # Null PROVE g1.parent[m] \in M OBVIOUS
    <3>1. m \in Nodes(g) /\ m \in Hdrs /\ m # up BY <1>2
    <3>2. CASE m = sib BY <1>3, <1>6, <3>1, <3>2
    <3>3. CASE m # sib
      <4>1. g1.parent[m] = g.parent[m] BY <1>6, <3>1, <3>3
      <4>2. m \notin S BY <4>1 DEF Tops
      <4>3. g.parent[m] \in Nodes(g) /\ (m = g.left[g.parent[m]] \/ m = g.right[g.parent[m]])
        BY <1>8, <3>1, <4>2
      <4>4. g.parent[m] # up
        <5> SUFFICES ASSUME g.parent[m] = up PROVE FALSE OBVIOUS
        <5>1. m = t BY <1>1, <3>3, <4>3
        <5>2. t \notin Inner BY <1>1, HdrFacts
        <5> QED BY <1>2, <3>1, <5>1, <5>2
      <4> QED BY <4>1, <4>3, <4>4
    <3> QED BY <3>2, <3>3
  <2>2. \A m \in M : \A c \in {g1.left[m], g1.right[m]} :
          c \in Hdrs /\ Depth(g1, c) < g1.depth[m] /\ (c \in Inner => c \in M /\ g1.parent[c] = m)
    <3> SUFFICES ASSUME NEW m \in M, NEW c \in {g1.left[m], g1.right[m]}
                 PROVE  c \in Hdrs /\ Depth(g1, c) < g1.depth[m] /\ (c \in Inner => c \in M /\ g1.parent[c] = m)
      OBVIOUS
    <3>1. c \in Hdrs /\ Depth(g, c) < g.depth[m] /\ c # up /\ c \in g.live /\ g1.parent[c] = m
      BY <1>10
    <3>2. c \in Inner => c \in M BY <3>1 DEF Nodes
    <3> QED BY <1>5, <1>6, <3>1, <3>2
  <2>3. M \subseteq Nodes(g1) BY <1>6
  <2> HIDE DEF M
  <2> QED BY <2>1, <2>2, <2>3 DEF Region
<1>12. \A m \in M : m # top => DepthIs(g1, m)
  <2> SUFFICES ASSUME NEW m \in M, m # top PROVE DepthIs(g1, m) OBVIOUS
  <2>1. DepthIs(g, m) /\ m \in Inner BY <1>2 DEF Depths
  <2>2. g1.left[m] = g.left[m] /\ g1.right[m] = g.right[m] BY <1>5, <1>6, <2>1
  <2>3. /\ Depth(g1, g1.left[m]) = Depth(g, g.left[m])
        /\ Depth(g1, g1.right[m]) = Depth(g, g.right[m]) /\ g1.depth[m] = g.depth[m]
    BY <1>5, <1>6, <2>2
  <2> QED BY <2>1, <2>3 DEF DepthIs
<1>13. PICK f \in [Inner -> Nat] :
         /\ DepthRecalc(g1, top) = WithDepths(g1, f)
         /\ \A m \in M : f[m] = DepthOver(g1, f, m)
  <2>1. g1 \in Heaps BY <1>5
  <2>2. top \in M BY <1>3
  <2> HIDE DEF M
  <2>3. \E f \in [Inner -> Nat] :
          /\ DepthRecalc(g1, top) = WithDepths(g1, f)
          /\ \A m \in Inner : m \notin M => f[m] = g1.depth[m]
          /\ \A m \in M : f[m] = DepthOver(g1, f, m)
    BY <1>9, <1>11, <1>12, <2>1, <2>2, DepthRecalcFacts
  <2> QED BY <2>3
<1>14. w = [g1 EXCEPT !.depth = f] BY <1>4, <1>13 DEF WithDepths
<1>15. /\ w \in Heaps /\ w.live = g1.live /\ w.data = g1.data /\ w.nelems = g1.nelems
       /\ w.left = g1.left /\ w.right = g1.right /\ w.tail = g1.tail /\ w.parent = g1.parent
       /\ w.root = g1.root /\ w.depth = f
  BY <1>5, <1>14 DEF Heaps
<1>16. \A n \in Nodes(g) \ {up} : w.depth[n] = DepthOver(w, w.depth, n)
  <2> SUFFICES ASSUME NEW n \in Nodes(g) \ {up} PROVE w.depth[n] = DepthOver(w, w.depth, n)
    OBVIOUS
  <2>1. f[n] = DepthOver(g1, f, n) BY <1>13
  <2>2. DepthOver(w, f, n) = DepthOver(g1, f, n) BY <1>15 DEF DepthOver
  <2> QED BY <1>15, <2>1, <2>2
<1>17. \A n \in Nodes(g) : w.right[n] = (IF n = top THEN sib ELSE g.right[n])
  <2> SUFFICES ASSUME NEW n \in Nodes(g)
               PROVE  w.right[n] = (IF n = top THEN sib ELSE g.right[n])
    OBVIOUS
  <2>1. n \in Inner BY <1>2
  <2>2. w.right[n] = g1.right[n] BY <1>15
  <2> QED BY <1>6, <2>1, <2>2
<1>18. g.root = [g.root EXCEPT ![r] = x]
  <2>1. g.root \in [Ropes -> Hdrs \union {Null}] BY HeapFacts
  <2> QED BY <2>1
<1>20. \A z \in Hdrs : w.parent[z] = (IF z = sib THEN top ELSE g.parent[z])
  <2> SUFFICES ASSUME NEW z \in Hdrs PROVE w.parent[z] = (IF z = sib THEN top ELSE g.parent[z])
    OBVIOUS
  <2>1. w.parent[z] = g1.parent[z] BY <1>15
  <2> QED BY <1>6, <2>1
<1>21. /\ w \in Heaps /\ w.live = g.live /\ w.data = g.data /\ w.nelems = g.nelems
       /\ w.left = g.left /\ w.tail = g.tail /\ w.root = g.root
  BY <1>5, <1>15
<1> QED BY <1>16, <1>17, <1>18, <1>20, <1>21 DEF Spliced

(* The root and the tail of a rope change.                                 *)
Moved(g, k, r, y, t) == k.root = [g.root EXCEPT ![r] = y] /\ k.tail = [g.tail EXCEPT ![r] = t]

(* rpa_pop: taking out the tail cuts it from the tree.                     *)
LEMMA DropTailIs ==
  ASSUME NEW g, NEW S, Sound(g, S), Tops(g, S), NEW r \in Ropes, NEW x \in S, x = g.root[r],
         NEW t, t = g.tail[r], t = Last(LeavesUnder(g, x)), t # x, g.nelems[t] = 0,
         NEW up, up = g.parent[t], NEW sib, sib = g.left[up], NEW top, top = g.parent[up],
         NEW y, y = IF top = Null THEN sib ELSE x,
         NEW k, k = DropTail(g, r)
  PROVE  Cut(g, k, t) /\ Moved(g, k, r, y, Last(LeavesUnder(g, sib)))
<1> USE DEF Sound
<1> DEFINE h1 == Grafted(g, r, sib, top)
           h2 == Retailor(h1, r, sib)
           e == Last(LeavesUnder(g, sib))
<1>1. k = Dealloc(h2, {up, t})
  <2>1. DropTail(g, r) = Splice(g, r, t, up, sib, top) BY SpliceIs
  <2> QED BY <2>1 DEF Splice
<1> HIDE DEF h2, e
<1>2. /\ x \in g.live /\ t \in LiveLeaves(g) /\ t \in Leaves /\ t \in g.live
      /\ up \in Nodes(g) /\ up \in g.live
      /\ sib \in g.live /\ g.parent[sib] = up /\ sib # t /\ sib # up
      /\ top # Null => /\ top \in Nodes(g) /\ g.right[top] = up
                       /\ g.left[top] \notin {up, t, sib} /\ top \notin {up, t, sib}
  <2>1. TailSpot(g, x, t, up, sib, top) BY TailSpots
  <2> QED BY <2>1 DEF TailSpot
<1>3. \A n \in Nodes(g) :
        /\ n \in g.live /\ n \in Inner /\ n # Null /\ n \in Hdrs
        /\ g.left[n] \in Hdrs /\ g.right[n] \in Hdrs
        /\ g.parent[g.left[n]] = n /\ g.parent[g.right[n]] = n
  BY Links
<1>4. sib \in Hdrs /\ t \in Hdrs /\ up \in Hdrs BY <1>2, HeapFacts
<1>5. Spliced(g, h1, r, up, sib, top, y)
  <2>1. CASE top = Null
    <3>1. h1 = AtRoot(g, r, sib) /\ y = sib BY <2>1 DEF Grafted
    <3> HIDE DEF h1
    <3>2. Spliced(g, h1, r, up, sib, top, sib) BY <2>1, <3>1, SplicedAtRoot
    <3> QED BY <3>1, <3>2
  <2>2. CASE top # Null
    <3>1. h1 = BelowTop(g, sib, top) /\ y = x BY <2>2 DEF Grafted
    <3> HIDE DEF h1
    <3>2. Spliced(g, h1, r, up, sib, top, x) BY <2>2, <3>1, SplicedBelow
    <3> QED BY <3>1, <3>2
  <2> QED BY <2>1, <2>2
<1> HIDE DEF h1
<1>6. /\ h1 \in Heaps /\ h1.live = g.live /\ h1.data = g.data /\ h1.nelems = g.nelems
      /\ h1.left = g.left /\ h1.tail = g.tail
  BY <1>5 DEF Spliced
<1>61. \A n \in Nodes(g) : h1.right[n] = (IF n = top THEN sib ELSE g.right[n])
  BY <1>5 DEF Spliced
<1>62. \A z \in Hdrs : h1.parent[z] = (IF z = sib THEN top ELSE g.parent[z])
  BY <1>5 DEF Spliced
<1>63. \A n \in Nodes(g) \ {up} : h1.depth[n] = DepthOver(h1, h1.depth, n)
  BY <1>5 DEF Spliced
<1>64. h1.root = [g.root EXCEPT ![r] = y] BY <1>5 DEF Spliced
<1>7. Rightmost(h1, sib) = e
  <2>1. Rightmost(h1, sib) = Last(LeavesUnder(g, sib)) BY <1>6, <1>61, RightmostCut
  <2> QED BY <2>1 DEF e
<1>8. e \in Leaves
  <2>1. Last(LeavesUnder(g, sib)) \in Leaves BY <1>2, LastApart
  <2> QED BY <2>1 DEF e
<1>9. /\ h2 \in Heaps /\ h2.live = h1.live /\ h2.data = h1.data /\ h2.nelems = h1.nelems
      /\ h2.left = h1.left /\ h2.right = h1.right /\ h2.parent = h1.parent
      /\ h2.root = h1.root /\ h2.depth = h1.depth /\ h2.tail = [g.tail EXCEPT ![r] = e]
  <2> DEFINE tails == [h1.tail EXCEPT ![r] = e]
  <2>1. tails \in [Ropes -> Leaves \union {Null}]
    <3>1. h1.tail \in [Ropes -> Leaves \union {Null}] BY <1>6, HeapFacts
    <3>2. e \in Leaves \union {Null} BY <1>8
    <3> QED BY <3>1, <3>2, ExceptType
  <2>2. h2 = [h1 EXCEPT !.tail = tails] BY <1>7 DEF h2, Retailor
  <2> HIDE DEF tails
  <2>3. /\ h2 \in Heaps /\ h2.live = h1.live /\ h2.data = h1.data /\ h2.nelems = h1.nelems
        /\ h2.left = h1.left /\ h2.right = h1.right /\ h2.parent = h1.parent
        /\ h2.root = h1.root /\ h2.depth = h1.depth /\ h2.tail = tails
    BY <1>6, <2>1, <2>2 DEF Heaps
  <2> QED BY <1>6, <2>3 DEF tails
<1>91. h2 \in Heaps BY <1>9
<1>10. k \in Heaps /\ k.live = h2.live \ {up, t} /\ k.root = h2.root /\ k.tail = h2.tail
  BY <1>1, <1>91, DeallocIs
<1>a. \A z \in Hdrs : z \notin {up, t} => k.nelems[z] = h2.nelems[z] /\ k.parent[z] = h2.parent[z]
  BY <1>1, <1>91, DeallocIs
<1>b. \A n \in Inner : n \notin {up, t} =>
        k.left[n] = h2.left[n] /\ k.right[n] = h2.right[n] /\ k.depth[n] = h2.depth[n]
  BY <1>1, <1>91, DeallocIs
<1>c. \A l \in Leaves : k.data[l] = IF l \in {up, t} THEN <<>> ELSE h2.data[l]
  BY <1>1, <1>91, DeallocIs
<1>11. g.data[t] = <<>>
  <2>1. Len(g.data[t]) = 0 /\ g.data[t] \in Seq(Vals) BY <1>2, HeapFacts DEF Sizes
  <2> QED BY <2>1, EmptySeq
<1>12. k.data = g.data
  <2>1. k.data \in [Leaves -> Seq(Vals)] /\ g.data \in [Leaves -> Seq(Vals)] BY <1>10, HeapFacts
  <2>2. \A l \in Leaves : k.data[l] = g.data[l]
    <3> SUFFICES ASSUME NEW l \in Leaves PROVE k.data[l] = g.data[l] OBVIOUS
    <3>1. h2.data[l] = g.data[l] BY <1>6, <1>9
    <3>2. l # up BY <1>3, <1>2, HdrFacts
    <3> QED BY <1>c, <1>11, <3>1, <3>2
  <2> QED BY <2>1, <2>2
<1>13. k.live = g.live \ {up, t} BY <1>6, <1>9, <1>10
<1>14. \A z \in k.live : z \in Hdrs /\ z \notin {up, t}
  <2>1. g.live \subseteq Hdrs BY HeapFacts
  <2> QED BY <1>13, <2>1
<1>15. \A z \in k.live : k.nelems[z] = g.nelems[z]
  <2>1. h2.nelems = g.nelems BY <1>6, <1>9
  <2> QED BY <1>a, <1>14, <2>1
<1>16. k.parent[sib] = top /\ \A z \in k.live \ {sib} : k.parent[z] = g.parent[z]
  <2>1. \A z \in Hdrs : h2.parent[z] = (IF z = sib THEN top ELSE g.parent[z])
    BY <1>62, <1>9
  <2>2. sib \in Hdrs /\ sib \notin {up, t} BY <1>2, <1>4
  <2> QED BY <1>a, <1>14, <2>1, <2>2
<1>17. ASSUME NEW n \in Nodes(g) \ {up}
       PROVE  /\ n \in Inner /\ n \notin {up, t}
              /\ k.left[n] = h1.left[n] /\ k.right[n] = h1.right[n]
              /\ k.depth[n] = h1.depth[n]
  <2>1. n \in Inner /\ n # t BY <1>2, <1>3, HdrFacts
  <2>2. n \notin {up, t} BY <2>1
  <2>3. h2.left = h1.left /\ h2.right = h1.right /\ h2.depth = h1.depth BY <1>9
  <2> QED BY <1>b, <2>1, <2>2, <2>3
<1>18. ASSUME NEW n \in Nodes(g) \ {up} PROVE DepthIs(k, n)
  <2>1. \A c \in {k.left[n], k.right[n]} : c \in Hdrs /\ c # up
    <3>1. n # Null /\ g.left[n] \in Hdrs /\ g.right[n] \in Hdrs BY <1>3
    <3>2. \A c \in {g.left[n], g.right[n]} : c = up => n = top BY <1>3
    <3>3. n = top => g.left[n] # up BY <1>2, <3>1
    <3>4. k.left[n] = g.left[n] /\ k.right[n] = (IF n = top THEN sib ELSE g.right[n])
      BY <1>6, <1>61, <1>17
    <3> QED BY <1>2, <1>4, <3>1, <3>2, <3>3, <3>4
  <2>2. \A c \in {k.left[n], k.right[n]} : Depth(k, c) = DepthIn(h1.depth, c)
    <3> SUFFICES ASSUME NEW c \in {k.left[n], k.right[n]} PROVE Depth(k, c) = DepthIn(h1.depth, c)
      OBVIOUS
    <3>1. CASE c \in Leaves BY <3>1 DEF Depth, DepthIn
    <3>2. CASE c \notin Leaves
      <4>1. c \in Inner /\ c \notin {up, t} BY <1>2, <2>1, <3>2, HdrFacts
      <4>2. k.depth[c] = h1.depth[c] BY <1>9, <1>b, <4>1
      <4> QED BY <3>2, <4>2 DEF Depth, DepthIn
    <3> QED BY <3>1, <3>2
  <2>3. k.left[n] = h1.left[n] /\ k.right[n] = h1.right[n] /\ k.depth[n] = h1.depth[n] BY <1>17
  <2>4. h1.depth[n] = DepthOver(h1, h1.depth, n) BY <1>63
  <2>5. Depth(k, k.left[n]) = DepthIn(h1.depth, h1.left[n]) /\ Depth(k, k.right[n]) = DepthIn(h1.depth, h1.right[n])
    BY <2>2, <2>3
  <2> QED BY <2>3, <2>4, <2>5 DEF DepthIs, DepthOver
<1>19. top # Null => k.right[top] = sib
  <2> SUFFICES ASSUME top # Null PROVE k.right[top] = sib OBVIOUS
  <2>1. top \in Nodes(g) \ {up} BY <1>2
  <2> QED BY <1>61, <1>17, <2>1
<1>20. \A n \in Nodes(g) \ {up} : k.left[n] = g.left[n] /\ (n # top => k.right[n] = g.right[n])
  BY <1>6, <1>61, <1>17
<1>21. Cut(g, k, t) BY <1>10, <1>12, <1>13, <1>15, <1>16, <1>18, <1>19, <1>20 DEF Cut
<1>22. k.root = [g.root EXCEPT ![r] = y] /\ k.tail = [g.tail EXCEPT ![r] = e] BY <1>64, <1>9, <1>10
<1> QED BY <1>21, <1>22 DEF e, Moved
=============================================================================
