--------------------------- MODULE XVArrayProofs ---------------------------
(***************************************************************************)
(* Proofs about XVArray: what boards see, count and log, for any number of *)
(* boards, nodes and values, and however many of them turn base pointers   *)
(* into marked ones at a time.                                             *)
(***************************************************************************)
EXTENDS XVArray, FiniteSetTheorems, SequenceTheorems, TLAPS

-----------------------------------------------------------------------------
(* The inductive invariant *)

(* The boards that are v or above it, where p gives the parents: those in  *)
(* every set with v that has the parents of its members.                   *)
UpClosed(p, T) == \A c \in T : p[c] # Null => p[c] \in T
Above(p, v) == {a \in Boards : \A T \in SUBSET Boards : v \in T /\ UpClosed(p, T) => a \in T}

(* Versions are a tree under the base, as long as there are any, and no    *)
(* board is in use without the base.                                       *)
Alive == {b \in Boards : rfcnt[b] > 0}

TreeInv ==
  /\ open \subseteq Alive
  /\ open # {} => Base \in open
  /\ parent[Base] = Null
  /\ \A c \in Alive \ {Base} : parent[c] \in Alive
  /\ \A c \in Boards \ Alive : parent[c] = Null
  /\ \A T \in SUBSET Alive : T # {} /\ UpClosed(parent, T) => Base \in T

(* The boards whose reference to the base is not yet a mapping.            *)
Setting == {c \in Boards : op[c].pc = "set"}
Own(b) == IF b \in open THEN 1 ELSE 0
Due(b) == IF b = Base THEN Cardinality(Setting) ELSE 0
CountInv ==
  \A b \in Boards :
    rfcnt[b] = Own(b) + Cardinality(MapsOf(b)) + Due(b) + Cardinality(Children(b))

(* A verp that maps a version, or is the pointer of a node, maps the base; *)
(* its node is marked, with this or another verp, or about to be.          *)
MapInv ==
  /\ \A n \in Nodes : IF node[n].verp = Null THEN node[n].val # Null ELSE node[n].verp[1] = n
  /\ Base \in open =>
       /\ \A n \in Nodes : node[n].verp # Null => map[node[n].verp][Base] # Null
       /\ \A e \in Verps, c \in Boards : map[e][c] # Null =>
            /\ map[e][Base] # Null
            /\ node[e[1]].verp # Null \/ (op[e[2]].pc = "mark" /\ op[e[2]].verp = e)

(* The verps that the log of the base should name: those that map it, and  *)
(* those for which verp_log_add has stored a count.                        *)
Counted ==
  MapsOf(Base) \union {op[c].verp : c \in {d \in Boards : op[d].pc \in {"entry", "ref", "set"}}}

(* Slot i of the log is for verp e: it holds it, or a board is about to    *)
(* store it there.                                                         *)
SlotOf(e, i) ==
  LET c == e[2]
  IN  IF op[c].pc = "entry" /\ op[c].verp = e THEN op[c].size + 1 = i ELSE log[Base][i] = e

(* The base has fewer entries than were added, or each has its slot.       *)
BaseLogInv ==
  Base \in open =>
    /\ nadds[Base] <= Cardinality(Counted)
    /\ nadds[Base] = Cardinality(Counted) =>
         \E s \in Bijection(1..nadds[Base], Counted) : \A i \in 1..nadds[Base] : SlotOf(s[i], i)

LogInv ==
  /\ \A b \in Alive \ {Base} : nadds[b] = Cardinality(MapsOf(b)) /\ Logged(b) = MapsOf(b)
  /\ BaseLogInv

InCall == {"walk", "mark", "have", "got"} \union Inserting

(* What a board knows while it is in a call; of the node, as long as no    *)
(* other board converts it at a time.                                      *)
CallInv(b) ==
  LET o == op[b]
      alone == ~ Contested(o.node)
  IN  /\ o.pc # "idle" => b \in open
      /\ o.writes => o.pc \in InCall /\ Children(b) = {}
      /\ o.pc = "collect" =>
           /\ Children(b) = {} /\ rfcnt[b] = nadds[b] + 1
           /\ Logged(b) = MapsOf(b) /\ Cardinality(MapsOf(b)) = nadds[b]
      /\ o.pc = "keep" /\ b \in ChildrenFirst => b = Base /\ Children(b) = {} /\ BaseLogLost
      /\ o.pc \in InCall => o.node \in Nodes /\ o.at \in Above(parent, b)
      /\ o.pc \in {"walk", "have"} => o.verp # Null
      /\ o.pc \in {"walk", "have", "got"} /\ o.verp # Null =>
           o.verp[1] = o.node /\ map[o.verp][Base] # Null /\ (alone => o.verp = node[o.node].verp)
      /\ o.pc = "walk" => o.at = b \/ map[o.verp][b] = Null
      /\ o.pc \in Inserting \union {"mark"} =>
           /\ o.writes /\ b # Base /\ o.verp = <<o.node, b>> /\ o.at = Base
           /\ alone => node[o.node].verp = Null
      /\ o.pc \in Inserting => map[o.verp][Base] = Null
      /\ o.pc = "count" =>
           /\ o.size <= Cardinality(Counted)
           /\ o.size = Cardinality(Counted) => nadds[Base] = o.size
      /\ o.pc = "mark" =>
           /\ map[o.verp][Base] # Null /\ map[o.verp][b] = Null
           /\ alone => /\ map[o.verp][Base] = node[o.node].val
                       /\ \A c \in Boards \ {Base} : map[o.verp][c] = Null
      /\ o.pc = "have" => o.writes /\ b # Base /\ map[o.verp][o.at] # Null /\ map[o.verp][b] = Null
      /\ o.pc = "got" =>
           \/ /\ o.verp = Null /\ o.at = Base
              /\ o.writes => b = Base /\ node[o.node].verp = Null
           \/ o.verp # Null /\ map[o.verp][o.at] # Null /\ (o.writes => o.at = b)

(* held: what every version holds, want of the boards in use and the same  *)
(* for the versions that boards have left behind.                          *)
HoldsAt(held, c, n) ==
  LET e == node[n].verp
  IN  CASE e = Null -> held[c][n] = node[n].val
        [] e # Null /\ map[e][c] # Null -> held[c][n] = map[e][c]
        [] OTHER -> parent[c] # Null /\ held[c][n] = held[parent[c]][n]

Holds(held) ==
  /\ \A b \in open : held[b] = want[b]
  /\ \A c \in Alive, n \in Nodes : ~ Contested(n) => HoldsAt(held, c, n)
  /\ \A b \in Boards : op[b].pc \in InCall /\ ~ Contested(op[b].node) =>
       held[op[b].at][op[b].node] = held[b][op[b].node]

HoldInv == \E held \in [Boards -> [Nodes -> Contents]] : Holds(held)

XVInv ==
  /\ TypeOK /\ TreeInv /\ CountInv /\ MapInv /\ LogInv
  /\ \A b \in Boards : CallInv(b)
  /\ HoldInv /\ NothingLeaks

-----------------------------------------------------------------------------
(* The tree *)

LEMMA AboveFacts ==
  ASSUME NEW p \in [Boards -> Boards \union {Null}], NEW b \in Boards
  PROVE  /\ b \in Above(p, b)
         /\ \A v \in Above(p, b) : v \in Boards /\ (p[v] # Null => p[v] \in Above(p, b))
         /\ \A v \in Above(p, b) : v # b => \E c \in Boards : p[c] = v
<1>1. b \in Above(p, b) BY DEF Above
<1>2. ASSUME NEW v \in Above(p, b) PROVE v \in Boards /\ (p[v] # Null => p[v] \in Above(p, b))
  BY <1>2 DEF Above, UpClosed
<1>3. ASSUME NEW v \in Above(p, b), v # b PROVE \E c \in Boards : p[c] = v
  <2> SUFFICES ASSUME \A c \in Boards : p[c] # v PROVE FALSE OBVIOUS
  <2> DEFINE T == Boards \ {v}
  <2>1. b \in T /\ T \in SUBSET Boards BY <1>3
  <2>2. UpClosed(p, T) BY DEF UpClosed
  <2>3. v \in T BY <2>1, <2>2 DEF Above
  <2> QED BY <2>3
<1> QED BY <1>1, <1>2, <1>3

LEMMA TreeFacts ==
  ASSUME TypeOK, TreeInv
  PROVE  /\ \A v \in Boards : Children(v) = {c \in Boards : parent[c] = v}
         /\ \A b \in Alive : Above(parent, b) \subseteq Alive /\ Base \in Above(parent, b)
         /\ Children(Base) = {} => Alive \subseteq {Base}
         /\ Alive # {} => Base \in Alive
         /\ \A b \in Boards : \A v \in Above(parent, b) : v # b => Children(v) # {}
<1>1. parent \in [Boards -> Boards \union {Null}] /\ rfcnt \in [Boards -> Nat] /\ Null \notin Boards
      /\ Base \in Boards
  BY ConstantsAssumption DEF TypeOK
<1>2. \A v \in Boards : Children(v) = {c \in Boards : parent[c] = v}
  <2> SUFFICES ASSUME NEW v \in Boards, NEW c \in Boards, parent[c] = v PROVE rfcnt[c] > 0
    BY DEF Children
  <2>1. c \in Alive BY <1>1 DEF TreeInv
  <2> QED BY <2>1 DEF Alive
<1>3. UpClosed(parent, Alive) /\ Alive \subseteq Boards BY <1>1 DEF TreeInv, UpClosed, Alive
<1>4. ASSUME NEW b \in Alive PROVE Above(parent, b) \subseteq Alive /\ Base \in Above(parent, b)
  <2>1. Above(parent, b) \subseteq Alive BY <1>3 DEF Above
  <2>2. ASSUME NEW T \in SUBSET Boards, b \in T, UpClosed(parent, T) PROVE Base \in T
    <3>1. UpClosed(parent, T \cap Alive) /\ T \cap Alive # {} BY <2>2, <1>3 DEF UpClosed
    <3> QED BY <3>1 DEF TreeInv
  <2> QED BY <2>1, <2>2, <1>1 DEF Above
<1>5. ASSUME Children(Base) = {} PROVE Alive \subseteq {Base}
  <2>1. UpClosed(parent, Alive \ {Base}) BY <1>1, <1>2, <1>3, <1>5 DEF UpClosed
  <2> QED BY <2>1 DEF TreeInv
<1>6. Alive # {} => Base \in Alive BY <1>3 DEF TreeInv
<1>7. \A b \in Boards : \A v \in Above(parent, b) : v # b => Children(v) # {}
  BY <1>1, <1>2, AboveFacts
<1> QED BY <1>2, <1>4, <1>5, <1>6, <1>7

(* Cardinalities of what is counted, and what a count of one or zero tells.*)
LEMMA CountFacts ==
  ASSUME TypeOK, CountInv, NEW b \in Boards
  PROVE  /\ IsFiniteSet(Verps) /\ IsFiniteSet(MapsOf(b)) /\ IsFiniteSet(Children(b)) /\ IsFiniteSet(Setting)
         /\ Own(b) \in {0, 1} /\ Due(b) \in Nat /\ rfcnt[b] \in Nat
         /\ Cardinality(MapsOf(b)) \in Nat /\ Cardinality(Children(b)) \in Nat
         /\ Cardinality(Setting) \in Nat
         /\ Cardinality(MapsOf(b)) = 0 <=> MapsOf(b) = {}
         /\ Cardinality(Children(b)) = 0 <=> Children(b) = {}
         /\ rfcnt[b] = Own(b) + Cardinality(MapsOf(b)) + Due(b) + Cardinality(Children(b))
<1>1. IsFiniteSet(Verps) BY ConstantsAssumption, FS_Product DEF Verps
<1>2. IsFiniteSet(MapsOf(b)) BY <1>1, FS_Subset DEF MapsOf
<1>3. IsFiniteSet(Children(b)) BY ConstantsAssumption, FS_Subset DEF Children
<1>4. Cardinality(MapsOf(b)) \in Nat /\ Cardinality(Children(b)) \in Nat
  BY <1>2, <1>3, FS_CardinalityType
<1>5. IsFiniteSet(Setting) BY ConstantsAssumption, FS_Subset DEF Setting
<1>6. Cardinality(Setting) \in Nat BY <1>5, FS_CardinalityType
<1>7. rfcnt[b] \in Nat BY DEF TypeOK
<1>8. Cardinality(MapsOf(b)) = 0 <=> MapsOf(b) = {} BY <1>2, FS_EmptySet
<1>9. Cardinality(Children(b)) = 0 <=> Children(b) = {} BY <1>3, FS_EmptySet
<1>10. rfcnt[b] = Own(b) + Cardinality(MapsOf(b)) + Due(b) + Cardinality(Children(b)) BY DEF CountInv
<1> QED BY <1>1, <1>2, <1>3, <1>4, <1>5, <1>6, <1>7, <1>8, <1>9, <1>10 DEF Own, Due

-----------------------------------------------------------------------------
(* Putting references *)

(* The versions that PutRefs(b, k) releases.                               *)
Released(b, k, S) ==
  \A v \in Boards : v \in S <=> \/ v = b /\ rfcnt[v] = k
                                \/ v # b /\ rfcnt[v] = 1 /\ \E c \in Children(v) : c \in S

(* There is such a set, the least that is closed under the rule, so the    *)
(* function by which PutRefs is defined is one.                            *)
LEMMA PutRefsReleases ==
  ASSUME NEW b \in Boards, NEW k, PutRefs(b, k)
  PROVE  \E S \in SUBSET Boards :
           /\ Released(b, k, S)
           /\ rfcnt' = [v \in Boards |-> rfcnt[v] - (IF v = b THEN k ELSE Cardinality(S \intersect Children(v)))]
           /\ parent' = [v \in Boards |-> IF v \in S THEN Null ELSE parent[v]]
<1> DEFINE Rule(T) == {v \in Boards : \/ v = b /\ rfcnt[v] = k
                                      \/ v # b /\ rfcnt[v] = 1 /\ \E c \in Children(v) : c \in T}
           L == {v \in Boards : \A T \in SUBSET Boards : Rule(T) \subseteq T => v \in T}
           IsFalls(f) == f = [v \in Boards |-> \/ v = b /\ rfcnt[v] = k
                                               \/ v # b /\ rfcnt[v] = 1 /\ \E c \in Children(v) : f[c]]
           falls == CHOOSE f : IsFalls(f)
           S == {v \in Boards : falls[v]}
<1>1. Rule(L) \subseteq L
  <2> SUFFICES ASSUME NEW v \in Rule(L), NEW T \in SUBSET Boards, Rule(T) \subseteq T PROVE v \in T
    OBVIOUS
  <2>1. L \subseteq T OBVIOUS
  <2>2. v \in Rule(T) BY <2>1
  <2> QED BY <2>2
<1>2. L \subseteq Rule(L)
  <2>1. Rule(Rule(L)) \subseteq Rule(L) BY <1>1
  <2>2. Rule(L) \in SUBSET Boards OBVIOUS
  <2> HIDE DEF Rule
  <2> QED BY <2>1, <2>2
<1>3. IsFalls([v \in Boards |-> v \in L])
  <2> DEFINE f == [v \in Boards |-> v \in L]
             g == [v \in Boards |-> \/ v = b /\ rfcnt[v] = k
                                    \/ v # b /\ rfcnt[v] = 1 /\ \E c \in Children(v) : f[c]]
  <2>1. ASSUME NEW v \in Boards PROVE f[v] = g[v]
    <3>1. \A c \in Children(v) : f[c] <=> c \in L BY DEF Children
    <3>2. v \in L <=> v \in Rule(L) BY <1>1, <1>2
    <3> HIDE DEF L
    <3>3. f[v] = (v \in L) OBVIOUS
    <3>4. g[v] = ((v = b /\ rfcnt[v] = k) \/ (v # b /\ rfcnt[v] = 1 /\ \E c \in Children(v) : f[c]))
      OBVIOUS
    <3>5. (v \in L) = ((v = b /\ rfcnt[v] = k) \/ (v # b /\ rfcnt[v] = 1 /\ \E c \in Children(v) : f[c]))
      <4> HIDE DEF f
      <4>1. (\E c \in Children(v) : c \in L) = (\E c \in Children(v) : f[c]) BY <3>1
      <4>2. v \in Rule(L) <=> ((v = b /\ rfcnt[v] = k) \/ (v # b /\ rfcnt[v] = 1 /\ \E c \in Children(v) : f[c]))
        BY <4>1
      <4> HIDE DEF Rule
      <4> QED BY <3>2, <4>2
    <3> HIDE DEF f, g
    <3> QED BY <3>3, <3>4, <3>5
  <2> HIDE DEF L
  <2>2. f = g BY <2>1
  <2> QED BY <2>2
<1>4. IsFalls(falls)
  <2> HIDE DEF IsFalls
  <2> QED BY <1>3
<1>5. Released(b, k, S)
  <2> HIDE DEF falls
  <2>1. \A v \in Boards : falls[v] <=> \/ v = b /\ rfcnt[v] = k
                                       \/ v # b /\ rfcnt[v] = 1 /\ \E c \in Children(v) : falls[c]
    BY <1>4
  <2> QED BY <2>1 DEF Released, Children
<1>6. /\ rfcnt' = [v \in Boards |-> rfcnt[v] - (IF v = b THEN k ELSE Cardinality(S \intersect Children(v)))]
      /\ parent' = [v \in Boards |-> IF v \in S THEN Null ELSE parent[v]]
  BY DEF PutRefs
<1> HIDE DEF S
<1>7. S \in SUBSET Boards BY DEF S
<1> QED BY <1>5, <1>6, <1>7

(* What is released is a chain: each version of it, other than b, has one  *)
(* child and that is released too; only the top has a parent that stays.   *)
LEMMA ReleasedAreChain ==
  ASSUME TypeOK, TreeInv, CountInv, NEW b \in open, NEW k \in Nat \ {0}, NEW S \in SUBSET Boards,
         Released(b, k, S), rfcnt[b] = k => Children(b) = {}
  PROVE  /\ S \subseteq Alive
         /\ \A v \in S \ {b} : v \notin open /\ MapsOf(v) = {} /\ \E c \in S : Children(v) = {c}
         /\ b \in S => Children(b) = {}
         /\ \A c1, c2 \in S : parent[c1] \notin S /\ parent[c2] \notin S => c1 = c2
         /\ S # {} => b \in S
<1>1. b \in Boards /\ rfcnt \in [Boards -> Nat] /\ parent \in [Boards -> Boards \union {Null}] /\ Null \notin Boards
  BY ConstantsAssumption DEF TypeOK
<1>2. S \subseteq Alive BY <1>1 DEF Released, Alive
<1>3. b \in S => Children(b) = {} BY <1>1 DEF Released
<1>4. ASSUME NEW v \in S \ {b} PROVE v \notin open /\ MapsOf(v) = {} /\ \E c \in S : Children(v) = {c}
  <2>1. rfcnt[v] = 1 /\ \E c \in S : c \in Children(v) BY DEF Released
  <2>2. PICK c \in S : c \in Children(v) BY <2>1
  <2>3. Own(v) = 0 /\ MapsOf(v) = {} /\ Cardinality(Children(v)) = 1
    <3> DEFINE o == Own(v)
               p == Cardinality(MapsOf(v))
               u == Due(v)
               m == Cardinality(Children(v))
    <3>1. /\ o \in Nat /\ p \in Nat /\ u \in Nat /\ m \in Nat /\ 1 = o + p + u + m
          /\ p = 0 <=> MapsOf(v) = {}
      BY <2>1, CountFacts
    <3>2. m # 0 BY <2>2, CountFacts
    <3> HIDE DEF o, p, u, m
    <3>3. o = 0 /\ p = 0 /\ m = 1 BY <3>1, <3>2
    <3> QED BY <3>1, <3>3 DEF o, m
  <2>4. Children(v) = {c} BY <2>2, <2>3, CountFacts, FS_Singleton
  <2> QED BY <2>2, <2>3, <2>4 DEF Own
<1> DEFINE P == {y \in S : parent[y] \in S}
           f == [y \in P |-> parent[y]]
<1>5. f \in Surjection(P, S \ {b})
  <2>1. ASSUME NEW y \in P PROVE parent[y] \in S \ {b}
    <3>1. parent[y] = b => y \in Children(b) BY <1>1, TreeFacts
    <3> QED BY <3>1, <1>3
  <2>2. ASSUME NEW v \in S \ {b} PROVE \E y \in P : parent[y] = v
    <3>1. PICK c \in S : Children(v) = {c} BY <1>4
    <3>2. parent[c] = v BY <3>1 DEF Children
    <3> QED BY <3>2
  <2> QED BY <2>1, <2>2 DEF Surjection
<1>6. IsFiniteSet(S) /\ IsFiniteSet(P) /\ Cardinality(S) \in Nat /\ Cardinality(P) \in Nat
      /\ Cardinality(S \ {b}) \in Nat
  <2>1. IsFiniteSet(S) BY ConstantsAssumption, FS_Subset
  <2>2. IsFiniteSet(P) /\ IsFiniteSet(S \ {b}) BY <2>1, FS_Subset
  <2> QED BY <2>1, <2>2, FS_CardinalityType
<1>7. Cardinality(S \ {b}) <= Cardinality(P) BY <1>5, <1>6, FS_Surjection
<1>8. Cardinality(S) = Cardinality(S \ {b}) + (IF b \in S THEN 1 ELSE 0)
  <2>1. Cardinality(S \ {b}) = IF b \in S THEN Cardinality(S) - 1 ELSE Cardinality(S)
    BY <1>6, FS_RemoveElement
  <2> QED BY <1>6, <2>1
<1>9. ASSUME NEW c1 \in S, NEW c2 \in S, parent[c1] \notin S, parent[c2] \notin S, c1 # c2 PROVE FALSE
  <2>1. IsFiniteSet(S \ {c1}) /\ Cardinality(S \ {c1}) = Cardinality(S) - 1
    BY <1>6, FS_RemoveElement
  <2>2. IsFiniteSet((S \ {c1}) \ {c2}) /\ Cardinality((S \ {c1}) \ {c2}) = Cardinality(S) - 2
    <3> DEFINE R == S \ {c1}
    <3>1. c2 \in R BY <1>9
    <3> HIDE DEF R
    <3>2. IsFiniteSet(R \ {c2}) /\ Cardinality(R \ {c2}) = Cardinality(R) - 1
      BY <2>1, <3>1, FS_RemoveElement DEF R
    <3> QED BY <1>6, <2>1, <3>2 DEF R
  <2>3. P \subseteq (S \ {c1}) \ {c2} BY <1>9
  <2>4. Cardinality(P) <= Cardinality(S) - 2 BY <2>2, <2>3, FS_Subset
  <2> QED BY <2>4, <1>6, <1>7, <1>8
<1>10. ASSUME S # {}, b \notin S PROVE FALSE
  <2>1. P \subseteq S OBVIOUS
  <2>2. Cardinality(P) <= Cardinality(S) BY <1>6, <2>1, FS_Subset
  <2>3. P = S BY <1>6, <1>7, <1>8, <1>10, <2>1, <2>2, FS_Subset
  <2>4. UpClosed(parent, S) BY <2>3 DEF UpClosed
  <2>5. Base \in S BY <1>2, <1>10, <2>4 DEF TreeInv
  <2> QED BY <2>3, <2>5, <1>1 DEF TreeInv
<1> QED BY <1>2, <1>3, <1>4, <1>9, <1>10

(* What PutRefs does: a board with children stays, and with it everything  *)
(* above; nothing but b loses a reference that is not of a child.          *)
IsRelease(b, k, S) ==
  /\ rfcnt' \in [Boards -> Nat]
  /\ parent' = [v \in Boards |-> IF v \in S THEN Null ELSE parent[v]]
  /\ Alive' = Alive \ S
  /\ b \in S <=> rfcnt[b] = k
  /\ rfcnt'[b] = rfcnt[b] - k
  /\ \A v \in Boards \ {b} : rfcnt'[v] = rfcnt[v] - Cardinality(S \intersect Children(v))
  /\ \A v \in S \ {b} : v \notin open /\ MapsOf(v) = {} /\ Children(v) # {}
  /\ \A v \in Boards : v \in S => S \intersect Children(v) = Children(v)
  /\ S \intersect Children(b) = {}
  /\ UpClosed(parent, Boards \ S)

LEMMA Release ==
  ASSUME TypeOK, TreeInv, CountInv, NEW b \in open, NEW k \in Nat \ {0}, PutRefs(b, k),
         rfcnt[b] >= k, rfcnt[b] = k => Children(b) = {}
  PROVE  \E S \in SUBSET Alive : IsRelease(b, k, S)
<1>1. b \in Boards /\ rfcnt \in [Boards -> Nat] /\ parent \in [Boards -> Boards \union {Null}] /\ Null \notin Boards
  BY ConstantsAssumption DEF TypeOK
<1>2. PICK S \in SUBSET Boards :
        /\ Released(b, k, S)
        /\ rfcnt' = [v \in Boards |-> rfcnt[v] - (IF v = b THEN k ELSE Cardinality(S \intersect Children(v)))]
        /\ parent' = [v \in Boards |-> IF v \in S THEN Null ELSE parent[v]]
  BY <1>1, PutRefsReleases
<1>3. /\ S \subseteq Alive
      /\ \A v \in S \ {b} : v \notin open /\ MapsOf(v) = {} /\ \E c \in S : Children(v) = {c}
      /\ b \in S => Children(b) = {}
      /\ \A c1, c2 \in S : parent[c1] \notin S /\ parent[c2] \notin S => c1 = c2
      /\ S # {} => b \in S
  BY <1>2, ReleasedAreChain
<1>4. b \in S <=> rfcnt[b] = k BY <1>1, <1>2 DEF Released
<1>5. S \intersect Children(b) = {}
  <2> SUFFICES ASSUME NEW c \in S, c \in Children(b) PROVE FALSE OBVIOUS
  <2>1. b \in S BY <1>3
  <2> QED BY <1>3, <2>1
<1>6. \A v \in S : S \intersect Children(v) = Children(v) BY <1>3
<1>7. \A v \in S \ {b} : Children(v) # {} BY <1>3
<1>8. UpClosed(parent, Boards \ S)
  <2> SUFFICES ASSUME NEW y \in Boards \ S, parent[y] # Null, parent[y] \in S PROVE FALSE
    BY <1>1 DEF UpClosed
  <2>1. y \in Children(parent[y]) BY <1>1, TreeFacts
  <2> QED BY <2>1, <1>6
<1>9. ASSUME NEW v \in Boards \ {b}
      PROVE  /\ rfcnt'[v] = rfcnt[v] - Cardinality(S \intersect Children(v))
             /\ rfcnt'[v] \in Nat
             /\ rfcnt'[v] > 0 <=> rfcnt[v] > 0 /\ v \notin S
  <2> DEFINE C == S \intersect Children(v)
  <2>1. rfcnt'[v] = rfcnt[v] - Cardinality(C) BY <1>2
  <2>2. /\ IsFiniteSet(C) /\ Cardinality(C) \in Nat /\ Cardinality(C) <= Cardinality(Children(v))
        /\ Cardinality(C) = Cardinality(Children(v)) => C = Children(v)
    <3>1. IsFiniteSet(Children(v)) /\ C \in SUBSET Children(v) BY CountFacts
    <3>2. IsFiniteSet(C) BY <3>1, FS_Subset
    <3> QED BY <3>1, <3>2, FS_Subset, FS_CardinalityType
  <2>3. rfcnt[v] = Own(v) + Cardinality(MapsOf(v)) + Due(v) + Cardinality(Children(v))
        /\ Own(v) \in Nat /\ Cardinality(MapsOf(v)) \in Nat /\ Due(v) \in Nat
        /\ Cardinality(Children(v)) \in Nat /\ rfcnt[v] \in Nat
    BY CountFacts
  <2>4. rfcnt'[v] \in Nat BY <2>1, <2>2, <2>3
  <2>5. CASE v \in S
    <3>1. rfcnt[v] = 1 BY <1>2, <2>5 DEF Released
    <3>2. PICK c \in S : Children(v) = {c} BY <1>3, <2>5
    <3>3. C = {c} BY <3>2
    <3>4. Cardinality(C) = 1 BY <3>3, FS_Singleton
    <3> QED BY <3>1, <3>4, <2>1, <2>4, <2>5
  <2>6. CASE v \notin S /\ rfcnt[v] > 0
    <3> SUFFICES ASSUME rfcnt'[v] = 0 PROVE FALSE BY <2>1, <2>4, <2>6
    <3>1. Cardinality(C) = rfcnt[v] /\ C = Children(v)
      <4> DEFINE n == Cardinality(C)
                 m == Cardinality(Children(v))
                 p == Cardinality(MapsOf(v))
                 o == Own(v)
                 u == Due(v)
                 z == rfcnt[v]
      <4>1. /\ n \in Nat /\ m \in Nat /\ p \in Nat /\ o \in Nat /\ u \in Nat /\ z \in Nat
            /\ z = o + p + u + m /\ n <= m /\ 0 = z - n
        BY <2>1, <2>2, <2>3
      <4> HIDE DEF n, m, p, o, u, z
      <4>2. n = z /\ n = m BY <4>1
      <4> QED BY <2>2, <4>2 DEF n, m, z
    <3>2. \A c \in C : c \in S /\ parent[c] \notin S BY <2>6 DEF Children
    <3>3. \A c1, c2 \in C : c1 = c2 BY <3>2, <1>3
    <3>4. C # {} BY <3>1, <2>6, FS_EmptySet
    <3>5. PICK c \in C : C = {c} BY <3>3, <3>4
    <3>6. Cardinality(C) = 1 BY <3>5, FS_Singleton
    <3>7. rfcnt[v] = 1 /\ c \in Children(v) /\ c \in S BY <3>1, <3>5, <3>6
    <3>8. v \in S BY <3>7, <1>2 DEF Released
    <3> QED BY <3>8, <2>6
  <2>7. CASE v \notin S /\ rfcnt[v] = 0
    BY <2>1, <2>2, <2>3, <2>4, <2>7
  <2> QED BY <2>1, <2>3, <2>4, <2>5, <2>6, <2>7
<1>10. rfcnt'[b] = rfcnt[b] - k /\ rfcnt'[b] \in Nat /\ (rfcnt'[b] > 0 <=> rfcnt[b] > 0 /\ b \notin S)
  BY <1>1, <1>2, <1>4
<1>11. rfcnt' \in [Boards -> Nat] BY <1>2, <1>9, <1>10
<1>12. Alive' = Alive \ S
  <2>1. \A v \in Boards : rfcnt'[v] > 0 <=> rfcnt[v] > 0 /\ v \notin S BY <1>9, <1>10
  <2> QED BY <2>1 DEF Alive
<1>13. IsRelease(b, k, S)
  BY <1>2, <1>3, <1>4, <1>5, <1>6, <1>7, <1>8, <1>9, <1>10, <1>11, <1>12 DEF IsRelease
<1> QED BY <1>3, <1>13

(* A release keeps the tree and the ancestors of the boards in use; the    *)
(* base leaves last.                                                       *)
LEMMA ReleaseTree ==
  ASSUME TypeOK, TreeInv, NEW b \in open, NEW k, NEW S \in SUBSET Alive, IsRelease(b, k, S),
         open' = open \ {b}, b = Base => Children(b) = {}
  PROVE  /\ TreeInv'
         /\ parent' \in [Boards -> Boards \union {Null}]
         /\ \A d \in open' : \A v \in Above(parent, d) : v \in Above(parent', d)
         /\ \A v \in Boards : Children(v)' = Children(v) \ S
         /\ \A c \in Alive' : parent'[c] = parent[c]
<1>1. rfcnt \in [Boards -> Nat] /\ parent \in [Boards -> Boards \union {Null}] /\ Null \notin Boards
      /\ Base \in Boards /\ open \subseteq Boards /\ Alive \subseteq Boards
  BY ConstantsAssumption DEF TypeOK, Alive
<1>2. /\ parent' = [v \in Boards |-> IF v \in S THEN Null ELSE parent[v]]
      /\ Alive' = Alive \ S /\ UpClosed(parent, Boards \ S)
      /\ \A v \in S \ {b} : v \notin open
  BY DEF IsRelease
<1>3. \A c \in Boards \ S : parent'[c] = parent[c] /\ (parent[c] # Null => parent[c] \in Boards \ S)
  BY <1>2 DEF UpClosed
<1>4. open' \subseteq Alive' /\ parent'[Base] = Null BY <1>1, <1>2 DEF TreeInv
<1>5. \A c \in Alive' \ {Base} : parent'[c] \in Alive'
  BY <1>1, <1>2, <1>3 DEF TreeInv
<1>6. \A c \in Boards \ Alive' : parent'[c] = Null BY <1>1, <1>2 DEF TreeInv
<1>7. ASSUME NEW T \in SUBSET Alive', T # {}, UpClosed(parent', T) PROVE Base \in T
  <2>1. UpClosed(parent, T) BY <1>1, <1>2, <1>3, <1>7 DEF UpClosed
  <2>2. T \in SUBSET Alive BY <1>2
  <2> QED BY <1>7, <2>1, <2>2 DEF TreeInv
<1>13. open' # {} => Base \in open'
  <2>1. b = Base => Alive \subseteq {Base} BY TreeFacts
  <2> QED BY <2>1 DEF TreeInv
<1>8. TreeInv' BY <1>4, <1>5, <1>6, <1>7, <1>13 DEF TreeInv
<1>9. ASSUME NEW d \in open', NEW v \in Above(parent, d) PROVE v \in Above(parent', d)
  <2>1. d \in Boards \ S BY <1>1, <1>2
  <2> SUFFICES ASSUME NEW T \in SUBSET Boards, d \in T, UpClosed(parent', T) PROVE v \in T
    BY DEF Above
  <2>2. UpClosed(parent, T \ S) BY <1>1, <1>3 DEF UpClosed
  <2> QED BY <2>1, <2>2 DEF Above
<1>10. ASSUME NEW v \in Boards PROVE Children(v)' = Children(v) \ S
  <2>1. \A c \in Boards : rfcnt'[c] > 0 <=> (rfcnt[c] > 0 /\ c \notin S) BY <1>2 DEF Alive
  <2> QED BY <2>1, <1>1, <1>2, <1>3 DEF Children
<1>11. parent' \in [Boards -> Boards \union {Null}] BY <1>1, <1>2
<1>12. \A c \in Alive' : parent'[c] = parent[c] BY <1>1, <1>2, <1>3
<1> QED BY <1>8, <1>9, <1>10, <1>11, <1>12

(* It keeps the counts, whether the mappings of the board go or stay.      *)
LEMMA ReleaseCounts ==
  ASSUME TypeOK, TreeInv, CountInv, NEW b \in open, NEW k, NEW S \in SUBSET Alive, IsRelease(b, k, S),
         open' = open \ {b}, b = Base => Children(b) = {}, Setting' = Setting,
         \A v \in Boards \ {b} : MapsOf(v)' = MapsOf(v),
         \/ k = 1 /\ MapsOf(b)' = MapsOf(b)
         \/ k = Cardinality(MapsOf(b)) + 1 /\ MapsOf(b)' = {}
  PROVE  CountInv'
<1>1. b \in Boards BY DEF TypeOK
<1>2. ASSUME NEW v \in Boards \ {b}
      PROVE  rfcnt'[v] = Own(v)' + Cardinality(MapsOf(v))' + Due(v)' + Cardinality(Children(v))'
  <2>1. Own(v)' = Own(v) /\ Due(v)' = Due(v) BY DEF Own, Due
  <2>2. Cardinality(Children(v) \ S) = Cardinality(Children(v)) - Cardinality(Children(v) \intersect S)
    BY CountFacts, FS_Difference
  <2>3. Children(v)' = Children(v) \ S BY ReleaseTree
  <2>4. S \intersect Children(v) = Children(v) \intersect S OBVIOUS
  <2>5. rfcnt'[v] = rfcnt[v] - Cardinality(Children(v) \intersect S) BY <2>4 DEF IsRelease
  <2>6. Cardinality(Children(v) \intersect S) \in Nat
    BY CountFacts, FS_Intersection, FS_CardinalityType
  <2> QED BY <2>1, <2>2, <2>3, <2>5, <2>6, CountFacts
<1>3. rfcnt'[b] = Own(b)' + Cardinality(MapsOf(b))' + Due(b)' + Cardinality(Children(b))'
  <2>1. Own(b)' = 0 /\ Own(b) = 1 /\ Due(b)' = Due(b) BY DEF Own, Due
  <2>2. Children(b)' = Children(b)
    <3>1. Children(b)' = Children(b) \ S BY <1>1, ReleaseTree
    <3> QED BY <3>1 DEF IsRelease
  <2>3. rfcnt'[b] = rfcnt[b] - k BY DEF IsRelease
  <2>4. CASE k = 1 /\ MapsOf(b)' = MapsOf(b)
    BY <1>1, <2>1, <2>2, <2>3, <2>4, CountFacts
  <2>5. CASE k = Cardinality(MapsOf(b)) + 1 /\ MapsOf(b)' = {}
    <3>1. Cardinality(MapsOf(b))' = 0 BY <2>5, FS_EmptySet
    <3> QED BY <1>1, <2>1, <2>2, <2>3, <2>5, <3>1, CountFacts
  <2> QED BY <2>4, <2>5
<1> QED BY <1>2, <1>3 DEF CountInv

-----------------------------------------------------------------------------
(* What is used of the invariant again and again *)

CallType ==
  [pc : {"idle", "walk", "have", "mark", "got", "collect", "keep"} \union Inserting,
   writes : BOOLEAN, node : Nodes \union {Null}, verp : Verps \union {Null},
   at : Boards \union {Null}, size : 0..LogSize]

NodeType == [verp : Verps \union {Null}, val : Contents \union {Null}]

LEMMA Nulls ==
  /\ Null \notin Boards /\ Null \notin Verps /\ Null \notin Contents /\ Base \in Boards
  /\ Base \in ChildrenFirst /\ ChildrenFirst \subseteq Boards /\ LogSize \in Nat \ {0}
BY ConstantsAssumption, BaseIsLast DEF Verps, Contents

LEMMA Pairs ==
  /\ \A e \in Verps : e[1] \in Nodes /\ e[2] \in Boards /\ e = <<e[1], e[2]>>
  /\ \A n \in Nodes, b \in Boards : <<n, b>> \in Verps /\ <<n, b>>[1] = n /\ <<n, b>>[2] = b
BY DEF Verps

LEMMA Types ==
  ASSUME TypeOK
  PROVE  /\ node \in [Nodes -> NodeType] /\ map \in [Verps -> [Boards -> Contents \union {Null}]]
         /\ nadds \in [Boards -> 0..LogSize] /\ log \in [Boards -> [1..LogSize -> Verps \union {Null}]]
         /\ parent \in [Boards -> Boards \union {Null}] /\ rfcnt \in [Boards -> Nat]
         /\ open \subseteq Boards /\ op \in [Boards -> CallType]
         /\ want \in [Boards -> [Nodes -> Contents]]
BY DEF TypeOK, NodeType, CallType

LEMMA TypesNext ==
  ASSUME node' \in [Nodes -> NodeType], map' \in [Verps -> [Boards -> Contents \union {Null}]],
         nadds' \in [Boards -> 0..LogSize], log' \in [Boards -> [1..LogSize -> Verps \union {Null}]],
         parent' \in [Boards -> Boards \union {Null}], rfcnt' \in [Boards -> Nat],
         open' \subseteq Boards, op' \in [Boards -> CallType],
         want' \in [Boards -> [Nodes -> Contents]]
  PROVE  TypeOK'
BY DEF TypeOK, NodeType, CallType

(* The parts of the invariant. *)
LEMMA Parts ==
  ASSUME XVInv
  PROVE  /\ TypeOK /\ TreeInv /\ CountInv /\ MapInv /\ LogInv /\ NothingLeaks
         /\ \A b \in Boards : CallInv(b)
         /\ \E held \in [Boards -> [Nodes -> Contents]] : Holds(held)
BY DEF XVInv, HoldInv

(* A call that goes on at another step.                                    *)
LEMMA CallPut ==
  ASSUME op \in [Boards -> CallType], NEW b \in Boards, NEW o \in CallType, op' = [op EXCEPT ![b] = o]
  PROVE  op' \in [Boards -> CallType] /\ op'[b] = o /\ \A d \in Boards \ {b} : op'[d] = op[d]
OBVIOUS

(* Two verps for a node make it contested, and it stays so as long as no   *)
(* verp goes.                                                              *)
LEMMA TwoAllocated ==
  ASSUME NEW e \in Verps, NEW f \in Verps, e # f, e[1] = f[1], Allocated(e), Allocated(f)
  PROVE  Contested(e[1])
<1>1. /\ e[2] \in Boards /\ f[2] \in Boards /\ e = <<e[1], e[2]>> /\ f = <<e[1], f[2]>>
      /\ e[2] # f[2]
  BY Pairs
<1>2. Allocated(<<e[1], e[2]>>) /\ Allocated(<<e[1], f[2]>>) BY <1>1
<1> QED BY <1>1, <1>2 DEF Contested

LEMMA ContestedStays ==
  ASSUME \A e \in Verps : Allocated(e) => Allocated(e)'
  PROVE  \A n \in Nodes : Contested(n) => Contested(n)'
<1> SUFFICES ASSUME NEW n \in Nodes, Contested(n) PROVE Contested(n)' OBVIOUS
<1>1. PICK b \in Boards, c \in Boards : b # c /\ Allocated(<<n, b>>) /\ Allocated(<<n, c>>)
  BY DEF Contested
<1>2. Allocated(<<n, b>>)' /\ Allocated(<<n, c>>)' BY <1>1, Pairs
<1> QED BY <1>1, <1>2 DEF Contested

(* A board that is in use is alive and has the base above it; where the    *)
(* pointer of a node is not marked it holds what the base holds.           *)
LEMMA BoardInUse ==
  ASSUME XVInv, NEW b \in open
  PROVE  /\ b \in Boards /\ b \in Alive /\ Base \in Alive /\ Base \in open
         /\ b \in Above(parent, b) /\ Base \in Above(parent, b)
         /\ \A n \in Nodes : node[n].verp = Null /\ ~ Contested(n) =>
              \A held \in [Boards -> [Nodes -> Contents]] : Holds(held) => held[Base][n] = held[b][n]
<1>1. TypeOK /\ TreeInv BY Parts
<1>2. b \in Boards /\ b \in Alive /\ Base \in open /\ parent \in [Boards -> Boards \union {Null}]
  BY <1>1 DEF TypeOK, TreeInv
<1>3. Base \in Alive /\ b \in Above(parent, b) /\ Base \in Above(parent, b)
  BY <1>1, <1>2, TreeFacts, AboveFacts
<1>4. ASSUME NEW n \in Nodes, node[n].verp = Null, ~ Contested(n),
             NEW held \in [Boards -> [Nodes -> Contents]], Holds(held)
      PROVE  held[Base][n] = held[b][n]
  <2>1. HoldsAt(held, Base, n) /\ HoldsAt(held, b, n) BY <1>2, <1>3, <1>4 DEF Holds
  <2> QED BY <2>1, <1>4 DEF HoldsAt
<1> QED BY <1>2, <1>3, <1>4

(* With another board in use the base has children: it does not write and  *)
(* is not being destroyed.                                                 *)
LEMMA BaseIsParent ==
  ASSUME XVInv, NEW b \in open, b # Base
  PROVE  /\ Children(Base) # {} /\ ~ op[Base].writes /\ op[Base].pc # "collect" /\ op[Base].pc # "keep"
<1>1. TypeOK /\ TreeInv /\ CallInv(Base) BY Parts, Nulls
<1>2. Children(Base) # {} BY <1>1, BoardInUse, TreeFacts
<1> QED BY <1>1, <1>2, Nulls DEF CallInv

(* What is known of a call in progress. *)
LEMMA CallFacts ==
  ASSUME XVInv, NEW b \in Boards, op[b].pc \in InCall
  PROVE  /\ b \in open /\ b \in Alive /\ Base \in open /\ op[b].node \in Nodes
         /\ op[b].at \in Above(parent, b) /\ op[b].at \in Boards /\ op[b].at \in Alive
<1>1. TypeOK /\ TreeInv /\ CallInv(b) BY Parts
<1>2. b \in open /\ op[b].node \in Nodes /\ op[b].at \in Above(parent, b)
  BY <1>1 DEF CallInv, InCall, Inserting
<1>3. b \in Alive /\ Base \in open BY <1>2, BoardInUse
<1>4. op[b].at \in Boards BY <1>2 DEF Above
<1>5. op[b].at \in Alive BY <1>1, <1>2, <1>3, TreeFacts
<1> QED BY <1>2, <1>3, <1>4, <1>5

(* While a verp is being filled nothing is mapped by it. *)
LEMMA NewVerpIsEmpty ==
  ASSUME XVInv, NEW b \in Boards, op[b].pc \in Inserting
  PROVE  /\ op[b].verp = <<op[b].node, b>> /\ op[b].verp \in Verps /\ op[b].writes /\ b # Base
         /\ Children(b) = {} /\ op[b].at = Base
         /\ \A c \in Boards : map[op[b].verp][c] = Null
<1>1. MapInv /\ CallInv(b) BY Parts
<1>2. b \in open /\ Base \in open /\ op[b].node \in Nodes BY CallFacts DEF InCall
<1>3. /\ op[b].verp = <<op[b].node, b>> /\ op[b].writes /\ b # Base /\ Children(b) = {} /\ op[b].at = Base
      /\ map[op[b].verp][Base] = Null
  BY <1>1 DEF CallInv
<1>4. op[b].verp \in Verps BY <1>2, <1>3, Pairs
<1>5. \A c \in Boards : map[op[b].verp][c] = Null BY <1>1, <1>2, <1>3, <1>4 DEF MapInv
<1> QED BY <1>3, <1>4, <1>5

(* What a board knows is kept by a step that leaves alone what it is about.*)
Undisturbed(d) ==
  LET o == op[d]
      alone == ~ Contested(o.node)'
  IN  /\ op'[d] = op[d] /\ (d \in open => d \in open') /\ Children(d)' \subseteq Children(d)
      /\ o.pc = "collect" => /\ rfcnt'[d] = rfcnt[d] /\ nadds'[d] = nadds[d]
                             /\ Logged(d)' = Logged(d) /\ MapsOf(d)' = MapsOf(d)
      /\ o.pc = "keep" /\ d \in ChildrenFirst => BaseLogLost'
      /\ o.pc \in InCall => o.at \in Above(parent', d) /\ (alone => ~ Contested(o.node))
      /\ o.pc \in {"walk", "have", "got"} /\ o.verp # Null =>
           /\ map'[o.verp][Base] # Null /\ (alone => o.verp = node'[o.node].verp)
           /\ map[o.verp][d] = Null => map'[o.verp][d] = Null
           /\ map[o.verp][o.at] # Null => map'[o.verp][o.at] # Null
      /\ o.pc \in Inserting \union {"mark"} => (alone => node'[o.node] = node[o.node])
      /\ o.pc \in Inserting => map'[o.verp][Base] = Null
      /\ o.pc = "count" => \/ nadds'[Base] = nadds[Base] /\ Counted' = Counted
                           \/ Cardinality(Counted)' = Cardinality(Counted) + 1
      /\ o.pc = "mark" =>
           /\ map'[o.verp][Base] = map[o.verp][Base] /\ map'[o.verp][d] = map[o.verp][d]
           /\ alone => \A c \in Boards \ {Base} : map'[o.verp][c] = Null
      /\ o.pc = "got" /\ o.writes /\ o.verp = Null => node'[o.node].verp = Null

LEMMA CountedFinite == 
  ASSUME TypeOK
  PROVE  IsFiniteSet(Counted) /\ Cardinality(Counted) \in Nat /\ IsFiniteSet(MapsOf(Base))
         /\ Cardinality(MapsOf(Base)) \in Nat
<1>1. IsFiniteSet(Verps) BY ConstantsAssumption, FS_Product DEF Verps
<1>2. IsFiniteSet(MapsOf(Base)) BY <1>1, FS_Subset DEF MapsOf
<1> DEFINE D == {d \in Boards : op[d].pc \in {"entry", "ref", "set"}}
<1>3. IsFiniteSet(D) BY ConstantsAssumption, FS_Subset
<1>4. IsFiniteSet({op[c].verp : c \in D}) 
  <2> DEFINE f == [c \in D |-> op[c].verp]
             T == {op[c].verp : c \in D}
  <2>1. f \in Surjection(D, T) BY DEF Surjection
  <2> HIDE DEF f, T
  <2>2. IsFiniteSet(T) BY <1>3, <2>1, FS_Surjection
  <2> QED BY <2>2 DEF T
<1>5. IsFiniteSet(Counted) BY <1>2, <1>4, FS_Union DEF Counted
<1> QED BY <1>2, <1>5, FS_CardinalityType

LEMMA CallKept ==
  ASSUME XVInv, NEW d \in Boards, Undisturbed(d)
  PROVE  CallInv(d)'
<1> DEFINE o == op[d]
<1>1. CallInv(d) /\ op'[d] = op[d] /\ TypeOK BY Parts DEF Undisturbed
<1>2. CASE o.pc \notin InCall
  BY <1>1, <1>2 DEF CallInv, InCall, Inserting, Undisturbed
<1>3. CASE o.pc = "walk" BY <1>1, <1>3 DEF CallInv, InCall, Inserting, Undisturbed
<1>4. CASE o.pc = "have" BY <1>1, <1>4 DEF CallInv, InCall, Inserting, Undisturbed
<1>5. CASE o.pc = "got" BY <1>1, <1>5 DEF CallInv, InCall, Inserting, Undisturbed
<1>6. CASE o.pc = "mark" BY <1>1, <1>6 DEF CallInv, InCall, Inserting, Undisturbed
<1>7. CASE o.pc \in Inserting
  <2>1. /\ d \in open /\ o.writes /\ Children(d) = {} /\ o.node \in Nodes /\ d # Base
        /\ o.verp = <<o.node, d>> /\ o.at = Base /\ (~ Contested(o.node) => node[o.node].verp = Null)
        /\ map[o.verp][Base] = Null
    BY <1>1, <1>7 DEF CallInv, InCall, Inserting
  <2>2. o.pc = "count" => /\ o.size <= Cardinality(Counted)
                          /\ o.size = Cardinality(Counted) => nadds[Base] = o.size
    BY <1>1 DEF CallInv
  <2>3. o.size \in Nat /\ Cardinality(Counted) \in Nat
    BY <1>1, Types, CountedFinite, Nulls DEF CallType
  <2>4. o.pc = "count" => /\ o.size <= Cardinality(Counted)'
                          /\ o.size = Cardinality(Counted)' => nadds'[Base] = o.size
    BY <2>2, <2>3 DEF Undisturbed
  <2>5. /\ d \in open' /\ Children(d)' = {} /\ o.at \in Above(parent', d)
        /\ ~ Contested(o.node)' => node'[o.node].verp = Null
        /\ map'[o.verp][Base] = Null
    BY <1>7, <2>1 DEF Undisturbed, InCall
  <2> QED BY <1>1, <1>7, <2>1, <2>4, <2>5 DEF CallInv, InCall, Inserting
<1> QED BY <1>2, <1>3, <1>4, <1>5, <1>6, <1>7 DEF InCall

(* The same for a step of a board below the base that is in a call: it     *)
(* adds a mapping to itself or to the base, writes to its own, marks a     *)
(* pointer or counts.                                                      *)
OnlySides(b) ==
  /\ parent' = parent /\ open' = open /\ \A d \in Boards : Children(d)' = Children(d)
  /\ \A d \in Boards \ {b} : op'[d] = op[d]
  /\ \A d \in Boards \ {b, Base} : rfcnt'[d] = rfcnt[d] /\ nadds'[d] = nadds[d] /\ log'[d] = log[d]
  /\ \A n \in Nodes : Contested(n) => Contested(n)'
  /\ \A e \in Verps : \A c \in Boards \ {b, Base} : map'[e][c] = map[e][c]
  /\ \A e \in Verps : e # op[b].verp => map'[e][Base] = map[e][Base] /\ map'[e][b] = map[e][b]
  /\ op[b].pc \notin {"have", "got"} => \A e \in Verps : map'[e][b] = map[e][b]
  /\ op[b].pc \notin Inserting => \A e \in Verps : map'[e][Base] = map[e][Base]
  /\ \A e \in Verps, c \in Boards : map[e][c] # Null => map'[e][c] # Null
  /\ \A n \in Nodes : \/ node'[n] = node[n]
                      \/ op[b].pc = "mark" /\ n = op[b].node /\ node'[n].verp = op[b].verp
  /\ \/ nadds'[Base] = nadds[Base] /\ Counted' = Counted
     \/ Cardinality(Counted)' = Cardinality(Counted) + 1

LEMMA OthersKept ==
  ASSUME XVInv, NEW b \in Boards, b # Base, op[b].pc \in InCall, OnlySides(b)
  PROVE  \A d \in Boards \ {b} : CallInv(d)'
<1> SUFFICES ASSUME NEW d \in Boards \ {b} PROVE Undisturbed(d) BY CallKept
<1> DEFINE o == op[d]
           n == op[d].node
<1>1. /\ CallInv(d) /\ CallInv(b) /\ TypeOK /\ MapInv /\ b \in open /\ Base \in open
      /\ op[b].node \in Nodes
  BY Parts, CallFacts
<1>2. op'[d] = op[d] /\ open' = open /\ Children(d)' = Children(d) /\ parent' = parent
  BY DEF OnlySides
<1>3. o.pc # "collect" \/ d # Base BY <1>1, BaseIsParent
<1>4. ~ (o.pc = "keep" /\ d \in ChildrenFirst) BY <1>1, BaseIsParent DEF CallInv
<1>5. o.pc = "collect" => /\ rfcnt'[d] = rfcnt[d] /\ nadds'[d] = nadds[d]
                          /\ Logged(d)' = Logged(d) /\ MapsOf(d)' = MapsOf(d)
  <2> SUFFICES ASSUME o.pc = "collect"
               PROVE  /\ rfcnt'[d] = rfcnt[d] /\ nadds'[d] = nadds[d]
                      /\ Logged(d)' = Logged(d) /\ MapsOf(d)' = MapsOf(d)
    OBVIOUS
  <2>1. rfcnt'[d] = rfcnt[d] /\ nadds'[d] = nadds[d] /\ log'[d] = log[d] /\ \A e \in Verps : map'[e][d] = map[e][d]
    BY <1>3 DEF OnlySides
  <2> QED BY <2>1 DEF Logged, MapsOf
<1>6. o.pc \in InCall => o.node \in Nodes /\ o.at \in Above(parent', d) /\ o.at \in Boards
                         /\ (~ Contested(n)' => ~ Contested(n))
  BY <1>2, CallFacts DEF OnlySides
<1>7. ASSUME o.pc \in {"walk", "have", "got"}, o.verp # Null
      PROVE  /\ map'[o.verp][Base] # Null /\ (~ Contested(n)' => o.verp = node'[n].verp)
             /\ map[o.verp][d] = Null => map'[o.verp][d] = Null
             /\ map[o.verp][o.at] # Null => map'[o.verp][o.at] # Null
  <2>1. o.verp \in Verps /\ n \in Nodes /\ o.at \in Boards BY <1>1, <1>6, <1>7, Types DEF InCall, CallType
  <2>2. o.verp[1] = n /\ map[o.verp][Base] # Null /\ (~ Contested(n) => o.verp = node[n].verp)
    BY <1>1, <1>7 DEF CallInv
  <2>3. map'[o.verp][Base] # Null /\ (map[o.verp][o.at] # Null => map'[o.verp][o.at] # Null)
    BY <2>1, <2>2, Nulls DEF OnlySides
  <2>4. map[o.verp][d] = Null => map'[o.verp][d] = Null
    <3>1. d = Base => map[o.verp][d] # Null BY <2>2
    <3> QED BY <2>1, <3>1 DEF OnlySides
  <2>5. ASSUME ~ Contested(n)' PROVE o.verp = node'[n].verp
    <3>1. ~ Contested(n) /\ o.verp = node[n].verp BY <1>6, <1>7, <2>2, <2>5 DEF InCall
    <3>2. CASE node'[n] = node[n] BY <3>1, <3>2
    <3>3. CASE op[b].pc = "mark" /\ n = op[b].node /\ node'[n].verp = op[b].verp
      <4>1. node[n].verp = Null BY <1>1, <3>1, <3>3 DEF CallInv
      <4> QED BY <4>1, <3>1, <1>7
    <3> QED BY <3>2, <3>3, <2>1 DEF OnlySides
  <2> QED BY <2>3, <2>4, <2>5
<1>8. ASSUME o.pc \in Inserting \union {"mark"}
      PROVE  /\ o.verp \in Verps /\ o.verp = <<n, d>> /\ d # Base /\ n \in Nodes
             /\ op[b].pc \in Inserting \union {"mark"} => o.verp # op[b].verp
             /\ ~ Contested(n)' => node'[n] = node[n]
  <2>1. /\ o.verp = <<n, d>> /\ d # Base /\ n \in Nodes
        /\ o.pc \in Inserting \/ map[o.verp][Base] # Null
    BY <1>1, <1>6, <1>8 DEF CallInv, InCall
  <2>2. o.verp \in Verps BY <2>1, Pairs
  <2>3. op[b].pc \in Inserting \union {"mark"} => op[b].verp = <<op[b].node, b>> BY <1>1 DEF CallInv
  <2>4. op[b].pc \in Inserting \union {"mark"} => o.verp # op[b].verp BY <2>1, <2>3
  <2>5. ASSUME ~ Contested(n)', node'[n] # node[n] PROVE FALSE
    <3>1. op[b].pc = "mark" /\ n = op[b].node BY <2>1, <2>5 DEF OnlySides
    <3>2. op[b].verp = <<n, b>> /\ map[op[b].verp][Base] # Null BY <1>1, <3>1 DEF CallInv
    <3>3. Allocated(op[b].verp) /\ Allocated(o.verp) BY <2>1, <3>2, Pairs DEF Allocated, Adding
    <3>4. Contested(n) BY <2>1, <2>2, <2>4, <3>1, <3>2, <3>3, TwoAllocated, Pairs
    <3> QED BY <3>4, <2>5, <2>1 DEF OnlySides
  <2> QED BY <2>1, <2>2, <2>4, <2>5
<1>9. o.pc \in Inserting => map'[o.verp][Base] = Null
  <2> SUFFICES ASSUME o.pc \in Inserting PROVE map'[o.verp][Base] = Null OBVIOUS
  <2>1. map[o.verp][Base] = Null BY <1>1 DEF CallInv
  <2> QED BY <2>1, <1>8 DEF OnlySides
<1>10. ASSUME o.pc = "mark"
       PROVE  /\ map'[o.verp][Base] = map[o.verp][Base] /\ map'[o.verp][d] = map[o.verp][d]
              /\ ~ Contested(n)' => \A c \in Boards \ {Base} : map'[o.verp][c] = Null
  <2>1. map'[o.verp][Base] = map[o.verp][Base] /\ map'[o.verp][d] = map[o.verp][d]
    BY <1>8, <1>10 DEF OnlySides
  <2>2. ASSUME ~ Contested(n)', NEW c \in Boards \ {Base} PROVE map'[o.verp][c] = Null
    <3>1. ~ Contested(n) /\ node[n].verp = Null /\ map[o.verp][c] = Null
      BY <1>1, <1>6, <1>10, <2>2 DEF CallInv, InCall
    <3>2. CASE map'[o.verp][c] = map[o.verp][c] BY <3>1, <3>2
    <3>3. CASE map'[o.verp][c] # map[o.verp][c]
      <4>1. c = b /\ op[b].pc \in {"have", "got"} /\ o.verp = op[b].verp
        BY <1>8, <1>10, <2>2, <3>3 DEF OnlySides
      <4>2. op[b].verp[1] = op[b].node /\ op[b].verp # Null BY <1>1, <1>8, <1>10, <4>1, Nulls DEF CallInv
      <4>3. op[b].node = n BY <4>1, <4>2, <1>8, <1>10
      <4>4. op[b].verp = node[n].verp BY <1>1, <3>1, <4>1, <4>2, <4>3 DEF CallInv
      <4> QED BY <4>2, <4>4, <3>1
    <3> QED BY <3>2, <3>3
  <2> QED BY <2>1, <2>2
<1>11. ~ (o.pc = "got" /\ o.writes /\ o.verp = Null)
  <2>1. ~ op[Base].writes BY <1>1, BaseIsParent
  <2> QED BY <2>1, <1>1 DEF CallInv
<1>12. d \in open => d \in open' BY <1>2
<1>13. \/ nadds'[Base] = nadds[Base] /\ Counted' = Counted
       \/ Cardinality(Counted)' = Cardinality(Counted) + 1
  BY DEF OnlySides
<1> QED BY <1>2, <1>4, <1>5, <1>6, <1>7, <1>8, <1>9, <1>10, <1>11, <1>12, <1>13 DEF Undisturbed

-----------------------------------------------------------------------------
(* Steps that change nothing but what a board is doing *)

(* Nothing of what is counted or logged depends on them.                   *)
LEMMA CallStep ==
  ASSUME XVInv, NEW b \in Boards, NEW o \in CallType, op' = [op EXCEPT ![b] = o],
         UNCHANGED <<node, map, nadds, log, parent, rfcnt, open, want>>,
         CallInv(b)', op[b].pc \notin {"mark", "entry", "ref", "set"},
         o.pc \notin {"mark", "entry", "ref", "set"},
         op[b].pc \in Inserting => o.pc \in Inserting /\ o.verp = op[b].verp,
         o.pc \in InCall /\ ~ Contested(o.node) =>
           \A held \in [Boards -> [Nodes -> Contents]] : Holds(held) => held[o.at][o.node] = held[b][o.node]
  PROVE  XVInv'
<1>1. /\ TypeOK /\ TreeInv /\ CountInv /\ MapInv /\ LogInv /\ NothingLeaks
      /\ \A d \in Boards : CallInv(d)
  BY Parts
<1>2. op' \in [Boards -> CallType] /\ op'[b] = o /\ \A d \in Boards \ {b} : op'[d] = op[d]
  BY <1>1, Types, CallPut
<1>3. TypeOK'
  <2>1. /\ node \in [Nodes -> NodeType] /\ map \in [Verps -> [Boards -> Contents \union {Null}]]
        /\ nadds \in [Boards -> 0..LogSize] /\ log \in [Boards -> [1..LogSize -> Verps \union {Null}]]
        /\ parent \in [Boards -> Boards \union {Null}] /\ rfcnt \in [Boards -> Nat]
        /\ open \subseteq Boards /\ want \in [Boards -> [Nodes -> Contents]]
    BY <1>1, Types
  <2> QED BY <1>2, <2>1, TypesNext
<1>4. TreeInv' BY <1>1 DEF TreeInv, Alive
<1>5. Setting' = Setting /\ Counted' = Counted /\ \A d \in Boards : MapsOf(d)' = MapsOf(d)
                                              /\ Children(d)' = Children(d) /\ Logged(d)' = Logged(d)
  <2>1. Setting' = Setting BY <1>2 DEF Setting
  <2> DEFINE D == {d \in Boards : op[d].pc \in {"entry", "ref", "set"}}
  <2>2. D' = D /\ b \notin D BY <1>2
  <2>3. {op'[c].verp : c \in D'} = {op[c].verp : c \in D} BY <1>2, <2>2
  <2>4. MapsOf(Base)' = MapsOf(Base) BY DEF MapsOf
  <2>5. Counted' = Counted BY <2>3, <2>4 DEF Counted
  <2> QED BY <2>1, <2>5 DEF MapsOf, Children, Logged
<1>6. CountInv' BY <1>1, <1>5 DEF CountInv, Own, Due
<1>7. MapInv'
  <2>1. \A e \in Verps : op[e[2]].pc = "mark" => op'[e[2]] = op[e[2]] BY <1>2, Pairs
  <2> QED BY <2>1, <1>1 DEF MapInv
<1>8. LogInv'
  <2>1. \A e \in Verps, i \in 1..nadds[Base] : SlotOf(e, i) => SlotOf(e, i)'
    BY <1>2, Pairs DEF SlotOf
  <2>2. Counted \subseteq Verps
    <3>1. \A c \in Boards : op[c].pc \in {"entry", "ref", "set"} => op[c].verp \in Verps
      BY NewVerpIsEmpty DEF Inserting
    <3> QED BY <3>1 DEF Counted, MapsOf
  <2>3. BaseLogInv'
    <3> SUFFICES ASSUME Base \in open, nadds[Base] = Cardinality(Counted)
                 PROVE  \E s \in Bijection(1..nadds[Base], Counted) : \A i \in 1..nadds[Base] : SlotOf(s[i], i)'
      BY <1>1, <1>5 DEF BaseLogInv, LogInv
    <3>1. PICK s \in Bijection(1..nadds[Base], Counted) : \A i \in 1..nadds[Base] : SlotOf(s[i], i)
      BY <1>1 DEF LogInv, BaseLogInv
    <3>2. \A i \in 1..nadds[Base] : s[i] \in Verps BY <2>2 DEF Bijection, Injection
    <3> QED BY <2>1, <3>1, <3>2
  <2>4. Alive' = Alive /\ Alive \subseteq Boards BY DEF Alive
  <2>5. \A d \in Alive' \ {Base} : nadds'[d] = Cardinality(MapsOf(d)') /\ Logged(d)' = MapsOf(d)'
    BY <1>1, <1>5, <2>4 DEF LogInv
  <2> QED BY <2>3, <2>5 DEF LogInv
<1>9. \A n \in Nodes : Contested(n) => Contested(n)'
  <2>1. \A e \in Verps : Allocated(e) => Allocated(e)'
    BY <1>2, Pairs DEF Allocated, Adding
  <2> QED BY <2>1, ContestedStays
<1>10. \A d \in Boards \ {b} : CallInv(d)'
  <2> SUFFICES ASSUME NEW d \in Boards \ {b} PROVE Undisturbed(d) BY CallKept
  <2>1. CallInv(d) /\ op'[d] = op[d] BY <1>1, <1>2
  <2>2. op[d].pc \in InCall => /\ op[d].node \in Nodes /\ op[d].at \in Above(parent', d)
                               /\ (~ Contested(op[d].node)' => ~ Contested(op[d].node))
    BY <1>9, CallFacts
  <2>3. BaseLogLost' <=> BaseLogLost BY <1>5, Nulls DEF BaseLogLost
  <2>4. (op[d].pc \in {"walk", "have", "got"} => op[d].pc \in InCall)
        /\ (op[d].pc = "mark" => op[d].pc \in InCall)
    BY DEF InCall
  <2> QED BY <2>1, <2>2, <2>3, <2>4, <1>5 DEF Undisturbed, CallInv
<1>11. HoldInv'
  <2>1. PICK held \in [Boards -> [Nodes -> Contents]] : Holds(held) BY Parts
  <2>2. ASSUME NEW d \in Boards, op'[d].pc \in InCall, ~ Contested(op[d].node)'
        PROVE  held[op'[d].at][op'[d].node] = held[d][op'[d].node]
    <3>1. op'[d].node \in Nodes BY <2>2, <1>10 DEF CallInv
    <3>2. ~ Contested(op'[d].node) BY <2>2, <3>1, <1>9
    <3> QED BY <1>2, <2>1, <2>2, <3>2 DEF Holds
  <2>3. \A c \in Alive', n \in Nodes : ~ Contested(n)' => HoldsAt(held, c, n)'
    BY <2>1, <1>9 DEF Holds, HoldsAt, Alive
  <2>4. \A d \in open' : held[d] = want'[d] BY <2>1 DEF Holds
  <2>5. Holds(held)' BY <2>2, <2>3, <2>4 DEF Holds
  <2> QED BY <2>5 DEF HoldInv
<1>12. NothingLeaks'
  <2>1. BaseLogLost' <=> BaseLogLost BY <1>5, Nulls DEF BaseLogLost
  <2> QED BY <1>1, <1>5, <2>1, Nulls DEF NothingLeaks
<1> QED BY <1>3, <1>4, <1>6, <1>7, <1>8, <1>10, <1>11, <1>12 DEF XVInv


LEMMA GetRdInv ==
  ASSUME XVInv, NEW b \in Boards, NEW n \in Nodes, GetRd(b, n)
  PROVE  XVInv'
<1> DEFINE o == [NoOp EXCEPT !.node = n, !.verp = node[n].verp,
                    !.pc = IF node[n].verp = Null THEN "got" ELSE "walk",
                    !.at = IF node[n].verp = Null THEN Base ELSE b]
<1>1. /\ b \in open /\ op[b].pc = "idle" /\ op' = [op EXCEPT ![b] = o]
      /\ UNCHANGED <<node, map, nadds, log, parent, rfcnt, open, want>>
  BY DEF GetRd, Ready
<1>2. /\ node[n].verp \in Verps \union {Null} /\ op \in [Boards -> CallType] /\ 0 \in 0..LogSize
      /\ MapInv /\ Base \in open
  BY <1>1, Parts, Types, Nulls, BoardInUse DEF NodeType
<1>3. /\ o.node = n /\ o.verp = node[n].verp /\ o.writes = FALSE /\ o.size = 0
      /\ node[n].verp = Null => o.pc = "got" /\ o.at = Base
      /\ node[n].verp # Null => o.pc = "walk" /\ o.at = b
      /\ o \in CallType
  BY <1>2, Nulls DEF NoOp, CallType
<1> HIDE DEF o
<1>4. op'[b] = o BY <1>1, <1>2
<1>5. node[n].verp # Null => node[n].verp[1] = n /\ map[node[n].verp][Base] # Null
  BY <1>2 DEF MapInv
<1>6. CallInv(b)'
  BY <1>1, <1>3, <1>4, <1>5, BoardInUse DEF CallInv, InCall, Inserting
<1>7. o.pc \in InCall /\ ~ Contested(o.node) => \A held \in [Boards -> [Nodes -> Contents]] :
                           Holds(held) => held[o.at][o.node] = held[b][o.node]
  BY <1>1, <1>3, BoardInUse
<1> QED BY <1>1, <1>3, <1>6, <1>7, CallStep DEF Inserting

(* Two boards that convert the pointer of a node at a time make it         *)
(* contested.                                                              *)
LEMMA GetRdWrInv ==
  ASSUME XVInv, NEW b \in Boards, NEW n \in Nodes, GetRdWr(b, n)
  PROVE  XVInv'
<1> DEFINE e == node[n].verp
           marked == e # Null
           ours == ~ marked /\ b = Base
           p == IF marked THEN "walk" ELSE IF ours THEN "got" ELSE "log"
           f == IF marked \/ ours THEN e ELSE <<n, b>>
           a == IF marked THEN b ELSE Base
           o == [NoOp EXCEPT !.node = n, !.writes = TRUE, !.pc = p, !.verp = f, !.at = a]
<1>1. /\ b \in open /\ op[b].pc = "idle" /\ Children(b) = {} /\ op' = [op EXCEPT ![b] = o]
      /\ UNCHANGED <<node, map, nadds, log, parent, rfcnt, open, want>>
  BY DEF GetRdWr, Ready
<1>2. /\ e \in Verps \union {Null} /\ op \in [Boards -> CallType] /\ <<n, b>> \in Verps
      /\ <<n, b>>[1] = n /\ <<n, b>>[2] = b /\ 0 \in 0..LogSize /\ MapInv /\ Base \in open
  BY <1>1, Pairs, Parts, Types, Nulls, BoardInUse DEF NodeType
<1>3. /\ p \in {"walk", "log", "got"} /\ f \in Verps \union {Null} /\ a \in Boards
      /\ e # Null => p = "walk" /\ f = e /\ a = b
      /\ e = Null /\ b = Base => p = "got" /\ f = Null /\ a = Base
      /\ e = Null /\ b # Base => p = "log" /\ f = <<n, b>> /\ a = Base
  BY <1>2, Nulls
<1>4. e # Null => e[1] = n /\ map[e][Base] # Null BY <1>2 DEF MapInv
<1>5. e = Null => map[<<n, b>>][Base] = Null BY <1>1, <1>2, Nulls DEF MapInv
<1> HIDE DEF p, f, a
<1>6. /\ o.node = n /\ o.writes = TRUE /\ o.pc = p /\ o.verp = f /\ o.at = a
      /\ o \in CallType
  BY <1>2, <1>3, Nulls DEF CallType, NoOp, Inserting
<1> HIDE DEF o
<1>7. op'[b] = o BY <1>1, <1>2
<1>8. Children(b)' = {} BY <1>1 DEF Children
<1>9. CallInv(b)'
  <2>1. CASE e # Null
    BY <2>1, <1>1, <1>3, <1>4, <1>6, <1>7, <1>8, BoardInUse DEF CallInv, InCall, Inserting
  <2>2. CASE e = Null /\ b = Base
    BY <2>2, <1>1, <1>3, <1>6, <1>7, <1>8, BoardInUse DEF CallInv, InCall, Inserting
  <2>3. CASE e = Null /\ b # Base
    BY <2>3, <1>1, <1>3, <1>5, <1>6, <1>7, <1>8, BoardInUse DEF CallInv, InCall, Inserting
  <2> QED BY <2>1, <2>2, <2>3
<1>10. o.pc \in InCall /\ ~ Contested(o.node) => \A held \in [Boards -> [Nodes -> Contents]] :
                            Holds(held) => held[o.at][o.node] = held[b][o.node]
  BY <1>1, <1>3, <1>6, BoardInUse
<1>11. o.pc \notin {"mark", "entry", "ref", "set"} /\ op[b].pc \notin Inserting \union {"mark"}
  BY <1>1, <1>3, <1>6 DEF Inserting
<1> QED BY <1>1, <1>6, <1>9, <1>10, <1>11, CallStep DEF Inserting

LEMMA LogReadInv ==
  ASSUME XVInv, NEW b \in Boards, LogRead(b)
  PROVE  XVInv'
<1> DEFINE o == [op[b] EXCEPT !.pc = "count", !.size = nadds[Base]]
<1>1. op[b].pc = "log" /\ UNCHANGED <<node, map, nadds, log, parent, rfcnt, open, want>> BY DEF LogRead
<1>2. TypeOK /\ CallInv(b) /\ op[b] \in CallType /\ op \in [Boards -> CallType] /\ nadds[Base] \in 0..LogSize
  BY Parts, Types, Nulls
<1>3. op' = [op EXCEPT ![b] = o] BY <1>2 DEF LogRead, CallType
<1>4. /\ o.pc = "count" /\ o.size = nadds[Base] /\ o.node = op[b].node /\ o.verp = op[b].verp
      /\ o.at = op[b].at /\ o.writes = op[b].writes /\ o \in CallType
  BY <1>2 DEF CallType, Inserting
<1> HIDE DEF o
<1>5. op'[b] = o BY <1>2, <1>3
<1>6. Base \in open /\ BaseLogInv BY <1>1, Parts, CallFacts DEF InCall, Inserting, LogInv
<1>7. Counted' = Counted /\ Children(b)' = Children(b)
  <2> DEFINE D == {d \in Boards : op[d].pc \in {"entry", "ref", "set"}}
  <2>1. \A d \in Boards \ {b} : op'[d] = op[d] BY <1>2, <1>3
  <2>2. D' = D /\ b \notin D BY <1>1, <1>4, <1>5, <2>1
  <2>3. {op'[c].verp : c \in D'} = {op[c].verp : c \in D} BY <2>1, <2>2
  <2>4. MapsOf(Base)' = MapsOf(Base) BY <1>1 DEF MapsOf
  <2> QED BY <1>1, <2>3, <2>4 DEF Counted, Children
<1>8. o.size <= Cardinality(Counted)' /\ (o.size = Cardinality(Counted)' => nadds'[Base] = o.size)
  BY <1>1, <1>4, <1>6, <1>7 DEF BaseLogInv
<1>9. /\ b \in open /\ op[b].writes /\ Children(b) = {} /\ op[b].node \in Nodes /\ op[b].at \in Above(parent, b)
      /\ b # Base /\ op[b].verp = <<op[b].node, b>> /\ op[b].at = Base
      /\ ~ Contested(op[b].node) => node[op[b].node].verp = Null
      /\ map[op[b].verp][Base] = Null
  BY <1>1, <1>2 DEF CallInv, InCall, Inserting
<1>10. Contested(op[b].node) => Contested(op[b].node)'
  <2>1. \A e \in Verps : Allocated(e) => Allocated(e)'
    <3>1. \A d \in Boards : op[d].pc \in Inserting => op'[d].pc \in Inserting /\ op'[d].verp = op[d].verp
      BY <1>2, <1>3, <1>4, <1>5 DEF Inserting
    <3> QED BY <3>1, <1>1, Pairs DEF Allocated, Adding
  <2>3. \A n \in Nodes : Contested(n) => Contested(n)' BY <2>1, ContestedStays
  <2> QED BY <2>3, <1>4, <1>5, <1>9
<1>11. CallInv(b)'
  BY <1>1, <1>4, <1>5, <1>7, <1>8, <1>9, <1>10 DEF CallInv, InCall, Inserting
<1>12. o.pc \in InCall /\ ~ Contested(o.node) => \A held \in [Boards -> [Nodes -> Contents]] :
                            Holds(held) => held[o.at][o.node] = held[b][o.node]
  BY <1>1, <1>4 DEF Holds, InCall, Inserting
<1> QED BY <1>1, <1>3, <1>4, <1>11, <1>12, CallStep DEF Inserting

LEMMA ReturnInv ==
  ASSUME XVInv, NEW b \in Boards, Return(b)
  PROVE  XVInv'
<1>1. NoOp \in CallType BY Nulls DEF NoOp, CallType
<1>2. op'[b] = NoOp BY Parts, Types DEF Return
<1>3. CallInv(b)' BY <1>2 DEF CallInv, NoOp, InCall, Inserting
<1> QED BY <1>1, <1>3, CallStep DEF Return, NoOp, InCall, Inserting


(* When no board adds to it, the number of entries tells of the log of the *)
(* base whether it is complete.                                            *)
LEMMA LogTells ==
  ASSUME XVInv
  PROVE  LogNamesMappings
<1>1. TypeOK /\ LogInv /\ NothingLeaks /\ Base \in ChildrenFirst BY Parts, Nulls
<1> SUFFICES ASSUME NEW b \in Boards, rfcnt[b] > 0, b = Base => Adding = {}
             PROVE  IF nadds[b] = Cardinality(MapsOf(b)) THEN Logged(b) = MapsOf(b)
                    ELSE b = Base /\ nadds[b] < Cardinality(MapsOf(b))
  BY DEF LogNamesMappings
<1>2. CASE b # Base BY <1>1, <1>2 DEF LogInv, Alive
<1>3. CASE b = Base /\ Base \notin open
  <2>1. BaseLogLost BY <1>1, <1>3 DEF NothingLeaks
  <2>2. nadds[Base] \in Nat /\ Cardinality(MapsOf(Base)) \in Nat BY <1>1, Types, CountedFinite, Nulls
  <2> QED BY <1>3, <2>1, <2>2 DEF BaseLogLost
<1>4. CASE b = Base /\ Base \in open
  <2>1. \A c \in Boards : op[c].pc \notin {"entry", "ref", "set"} BY <1>4 DEF Adding, Inserting
  <2>2. Counted = MapsOf(Base) BY <2>1 DEF Counted
  <2>3. nadds[Base] \in Nat /\ Cardinality(MapsOf(Base)) \in Nat BY <1>1, Types, CountedFinite, Nulls
  <2>4. nadds[Base] <= Cardinality(MapsOf(Base)) BY <1>1, <1>4, <2>2 DEF LogInv, BaseLogInv
  <2>5. ASSUME nadds[Base] = Cardinality(MapsOf(Base)) PROVE Logged(Base) = MapsOf(Base)
    <3>1. PICK s \in Bijection(1..nadds[Base], MapsOf(Base)) : \A i \in 1..nadds[Base] : SlotOf(s[i], i)
      BY <1>1, <1>4, <2>2, <2>5 DEF LogInv, BaseLogInv
    <3>2. \A i \in 1..nadds[Base] : s[i] \in MapsOf(Base) /\ s[i] \in Verps
      BY <3>1 DEF Bijection, Injection, MapsOf
    <3>3. \A i \in 1..nadds[Base] : log[Base][i] = s[i] BY <2>1, <3>1, <3>2, Pairs DEF SlotOf
    <3>4. \A e \in MapsOf(Base) : \E i \in 1..nadds[Base] : s[i] = e
      BY <3>1 DEF Bijection, Surjection
    <3> QED BY <3>2, <3>3, <3>4 DEF Logged
  <2> QED BY <1>4, <2>3, <2>4, <2>5
<1> QED BY <1>2, <1>3, <1>4

LEMMA NobodyAdds ==
  ASSUME XVInv, Children(Base) = {}
  PROVE  Adding = {} /\ Setting = {} /\ \A b \in Boards : op[b].pc # "mark"
<1>1. ASSUME NEW b \in Boards, op[b].pc \in Inserting \union {"mark"} PROVE FALSE
  <2>1. b \in open /\ b # Base
    <3>1. CallInv(b) BY Parts
    <3>2. op[b].pc # "idle" BY <1>1 DEF Inserting
    <3> QED BY <1>1, <3>1, <3>2 DEF CallInv
  <2> QED BY <2>1, BaseIsParent
<1> QED BY <1>1 DEF Adding, Setting, Inserting

(* A count of one more than the log is long leaves no room for children.   *)
LEMMA DestroyInv ==
  ASSUME XVInv, NEW b \in Boards, Destroy(b)
  PROVE  XVInv'
<1> DEFINE o == [op[b] EXCEPT !.pc = IF HasNoChildren(b) THEN "collect" ELSE "keep"]
<1>1. /\ b \in open /\ op[b].pc = "idle" /\ (b \in ChildrenFirst => Children(b) = {})
      /\ op' = [op EXCEPT ![b] = o]
      /\ UNCHANGED <<node, map, nadds, log, parent, rfcnt, open, want>>
  BY DEF Destroy, Ready
<1>2. op \in [Boards -> CallType] /\ TypeOK /\ CountInv /\ LogNamesMappings
  BY Parts, Types, LogTells
<1>3. o \in CallType /\ o.pc = (IF HasNoChildren(b) THEN "collect" ELSE "keep") /\ o.writes = op[b].writes
  BY <1>2 DEF CallType
<1>4. ~ op[b].writes
  <2>1. CallInv(b) /\ op[b].writes \in BOOLEAN BY <1>2, Parts DEF CallType
  <2> QED BY <1>1, <2>1 DEF CallInv, InCall, Inserting
<1>5. b = Base => Adding = {} /\ Due(b) = 0
  <2>1. b = Base => Adding = {} /\ Setting = {} BY <1>1, Nulls, NobodyAdds
  <2> QED BY <2>1, FS_EmptySet DEF Due
<1>6. b # Base => Due(b) = 0 BY DEF Due
<1>7. rfcnt[b] > 0 BY <1>1, BoardInUse DEF Alive
<1> DEFINE m == Cardinality(MapsOf(b))
           k == Cardinality(Children(b))
<1>8. /\ rfcnt[b] = 1 + m + k /\ m \in Nat /\ k \in Nat /\ nadds[b] \in Nat
      /\ (k = 0) <=> (Children(b) = {})
  <2>1. Own(b) = 1 BY <1>1 DEF Own
  <2> QED BY <1>2, <1>5, <1>6, <2>1, CountFacts, Types
<1>9. IF nadds[b] = m THEN Logged(b) = MapsOf(b) ELSE b = Base /\ nadds[b] < m
  BY <1>2, <1>5, <1>7 DEF LogNamesMappings
<1> HIDE DEF m, k
<1>10. HasNoChildren(b) => /\ Children(b) = {} /\ rfcnt[b] = nadds[b] + 1 /\ Logged(b) = MapsOf(b)
                           /\ m = nadds[b]
  <2> SUFFICES ASSUME nadds[b] + 1 = rfcnt[b]
               PROVE  /\ Children(b) = {} /\ rfcnt[b] = nadds[b] + 1 /\ Logged(b) = MapsOf(b)
                      /\ m = nadds[b]
    BY DEF HasNoChildren
  <2>1. nadds[b] = m + k BY <1>8
  <2>2. CASE nadds[b] = m BY <2>1, <2>2, <1>8, <1>9
  <2>3. CASE nadds[b] # m BY <2>1, <2>3, <1>8, <1>9
  <2> QED BY <2>2, <2>3
<1>11. ~ HasNoChildren(b) /\ b \in ChildrenFirst => b = Base /\ Children(b) = {} /\ nadds[b] < m
  BY <1>1, <1>8, <1>9 DEF HasNoChildren
<1> HIDE DEF o
<1>12. op'[b] = o BY <1>1, <1>2
<1>13. Children(b)' = Children(b) /\ MapsOf(b)' = MapsOf(b) /\ Logged(b)' = Logged(b)
  BY <1>1 DEF Children, MapsOf, Logged
<1>14. ~ HasNoChildren(b) /\ b \in ChildrenFirst => BaseLogLost'
  BY <1>1, <1>11, <1>13 DEF BaseLogLost, m
<1>15. CallInv(b)'
  BY <1>1, <1>3, <1>4, <1>10, <1>11, <1>12, <1>13, <1>14 DEF CallInv, InCall, Inserting, m
<1> QED BY <1>1, <1>3, <1>15, CallStep DEF InCall, Inserting

(* The search for a chunk ends at the base at the latest: it is mapped by  *)
(* every verp that a call has read.                                        *)
LEMMA WalkInv ==
  ASSUME XVInv, NEW b \in Boards, Walk(b)
  PROVE  XVInv'
<1> DEFINE v == op[b].at
           n == op[b].node
           e == op[b].verp
           found == VerpmapGet(e, v) # Null
           a == IF found THEN v ELSE parent[v]
           p == IF ~ found /\ parent[v] # Null THEN "walk"
                ELSE IF op[b].writes /\ v # b THEN "have" ELSE "got"
           o == [op[b] EXCEPT !.at = a, !.pc = p]
<1>1. op[b].pc = "walk" /\ UNCHANGED <<node, map, nadds, log, parent, rfcnt, open, want>> BY DEF Walk
<1>2. /\ TypeOK /\ TreeInv /\ op \in [Boards -> CallType] /\ op[b] \in CallType
      /\ parent \in [Boards -> Boards \union {Null}] /\ op[b].writes \in BOOLEAN
  BY Parts, Types DEF CallType
<1>3. op' = [op EXCEPT ![b] = o] BY <1>2 DEF Walk, CallType
<1>4. /\ b \in open /\ n \in Nodes /\ v \in Above(parent, b) /\ v \in Alive /\ v \in Boards
      /\ e # Null /\ e[1] = n /\ map[e][Base] # Null /\ (~ Contested(n) => e = node[n].verp)
      /\ v = b \/ map[e][b] = Null
      /\ op[b].writes => Children(b) = {}
  <2>1. CallInv(b) BY Parts
  <2>2. /\ b \in open /\ n \in Nodes /\ v \in Above(parent, b) /\ v \in Alive /\ v \in Boards
    BY <1>1, CallFacts DEF InCall
  <2>3. /\ e # Null /\ e[1] = n /\ map[e][Base] # Null /\ (~ Contested(n) => e = node[n].verp)
    BY <1>1, <2>1 DEF CallInv
  <2>4. v = b \/ map[e][b] = Null BY <1>1, <2>1 DEF CallInv
  <2>5. op[b].writes => Children(b) = {} BY <1>1, <2>1 DEF CallInv
  <2> QED BY <2>2, <2>3, <2>4, <2>5
<1>5. ~ found => parent[v] \in Boards /\ parent[v] # Null
  BY <1>2, <1>4, Nulls DEF TreeInv, VerpmapGet, Alive
<1>6. ~ found /\ ~ Contested(n) => \A h \in [Boards -> [Nodes -> Contents]] :
        Holds(h) => h[parent[v]][n] = h[v][n]
  BY <1>4 DEF Holds, HoldsAt, VerpmapGet
<1>7. /\ o.at = (IF found THEN v ELSE parent[v])
      /\ o.writes = op[b].writes /\ o.node = n /\ o.verp = e
      /\ o.pc = IF found THEN IF op[b].writes /\ v # b THEN "have" ELSE "got" ELSE "walk"
      /\ o \in CallType
  <2>1. a = (IF found THEN v ELSE parent[v]) /\ a \in Boards BY <1>4, <1>5
  <2>2. p = IF found THEN IF op[b].writes /\ v # b THEN "have" ELSE "got" ELSE "walk" BY <1>5
  <2> HIDE DEF a, p
  <2>3. o.at = a /\ o.writes = op[b].writes /\ o.node = n /\ o.verp = e /\ o.pc = p
    BY <1>2 DEF CallType
  <2>4. p \in {"got", "have", "walk"} BY <2>2
  <2>5. o \in CallType BY <1>2, <2>1, <2>4 DEF CallType
  <2> QED BY <2>1, <2>2, <2>3, <2>5
<1> HIDE DEF o
<1>8. op'[b] = o BY <1>2, <1>3
<1>9. o.at \in Above(parent, b) BY <1>2, <1>4, <1>5, <1>7, AboveFacts
<1>10. Children(b)' = Children(b) BY <1>1 DEF Children
<1>11. Contested(n) => Contested(n)'
  <2>1. \A d \in Boards : op[d].pc \in Inserting => op'[d] = op[d] BY <1>1, <1>2, <1>3 DEF Inserting
  <2>2. \A f \in Verps : Allocated(f) => Allocated(f)' BY <2>1, <1>1, Pairs DEF Allocated, Adding
  <2>3. \A m \in Nodes : Contested(m) => Contested(m)' BY <2>2, ContestedStays
  <2> QED BY <1>4, <1>7, <1>8, <2>3
<1>12. found <=> map[e][v] # Null BY DEF VerpmapGet
<1>13. v # b /\ found => b # Base BY <1>4
<1>14. CallInv(b)'
  <2>1. CASE ~ found
    <3>1. o.pc = "walk" /\ map[e][b] = Null BY <2>1, <1>4, <1>7, <1>12
    <3> QED BY <3>1, <1>1, <1>4, <1>7, <1>8, <1>9, <1>10, <1>11 DEF CallInv, InCall, Inserting
  <2>2. CASE found /\ op[b].writes /\ v # b
    <3>1. o.pc = "have" /\ o.at = v /\ map[e][b] = Null /\ map[e][v] # Null BY <2>2, <1>4, <1>7, <1>12
    <3> QED BY <3>1, <2>2, <1>1, <1>4, <1>7, <1>8, <1>9, <1>10, <1>11, <1>13 DEF CallInv, InCall, Inserting
  <2>3. CASE found /\ ~ (op[b].writes /\ v # b)
    <3>1. o.pc = "got" /\ o.at = v /\ map[e][v] # Null BY <2>3, <1>7, <1>12
    <3> QED BY <3>1, <2>3, <1>1, <1>4, <1>7, <1>8, <1>9, <1>10, <1>11 DEF CallInv, InCall, Inserting
  <2> QED BY <2>1, <2>2, <2>3
<1>15. o.pc \in InCall /\ ~ Contested(o.node) => \A h \in [Boards -> [Nodes -> Contents]] :
                            Holds(h) => h[o.at][o.node] = h[b][o.node]
  <2>1. ~ Contested(n) => \A h \in [Boards -> [Nodes -> Contents]] : Holds(h) => h[v][n] = h[b][n]
    BY <1>1 DEF Holds, InCall
  <2> QED BY <2>1, <1>6, <1>7
<1>16. o.pc \notin {"mark", "entry", "ref", "set"} BY <1>7
<1> QED BY <1>1, <1>3, <1>7, <1>14, <1>15, <1>16, CallStep DEF Inserting

-----------------------------------------------------------------------------
(* Branching *)

(* The log of the base and its slots are left alone.                       *)
LEMMA BaseLogKept ==
  ASSUME XVInv, Base \in open' => Base \in open, nadds'[Base] = nadds[Base], log'[Base] = log[Base],
         Counted' = Counted,
         \A c \in Boards : op[c].pc = "entry" \/ op'[c].pc = "entry" => op'[c] = op[c]
  PROVE  BaseLogInv'
<1> SUFFICES ASSUME Base \in open
             PROVE  /\ nadds[Base] <= Cardinality(Counted)
                    /\ nadds[Base] = Cardinality(Counted) =>
                         \E s \in Bijection(1..nadds[Base], Counted) : \A i \in 1..nadds[Base] : SlotOf(s[i], i)'
  BY DEF BaseLogInv
<1>1. /\ nadds[Base] <= Cardinality(Counted)
      /\ nadds[Base] = Cardinality(Counted) =>
           \E s \in Bijection(1..nadds[Base], Counted) : \A i \in 1..nadds[Base] : SlotOf(s[i], i)
  BY Parts DEF LogInv, BaseLogInv
<1>2. Counted \subseteq Verps
  <2>1. \A c \in Boards : op[c].pc \in {"entry", "ref", "set"} => op[c].verp \in Verps
    BY NewVerpIsEmpty DEF Inserting
  <2> QED BY <2>1 DEF Counted, MapsOf
<1>3. ASSUME NEW e \in Verps, NEW i \in 1..nadds[Base], SlotOf(e, i) PROVE SlotOf(e, i)'
  <2>1. e[2] \in Boards BY Pairs
  <2> QED BY <2>1, <1>3 DEF SlotOf
<1>4. ASSUME NEW s \in Bijection(1..nadds[Base], Counted), \A i \in 1..nadds[Base] : SlotOf(s[i], i)
      PROVE  \A i \in 1..nadds[Base] : SlotOf(s[i], i)'
  <2>1. \A i \in 1..nadds[Base] : s[i] \in Verps BY <1>2 DEF Bijection, Injection
  <2> QED BY <1>3, <1>4, <2>1
<1> QED BY <1>1, <1>4

LEMMA CountedKept ==
  ASSUME MapsOf(Base)' = MapsOf(Base),
         \A c \in Boards : op'[c].verp = op[c].verp /\
           (op[c].pc \in {"entry", "ref", "set"} <=> op'[c].pc \in {"entry", "ref", "set"})
  PROVE  Counted' = Counted
<1> DEFINE D == {d \in Boards : op[d].pc \in {"entry", "ref", "set"}}
<1>1. D' = D OBVIOUS
<1>2. {op'[c].verp : c \in D'} = {op[c].verp : c \in D} BY <1>1
<1> QED BY <1>2 DEF Counted

LEMMA BranchInv ==
  ASSUME XVInv, NEW b \in Boards, NEW c \in Boards, Branch(b, c)
  PROVE  XVInv'
<1>1. /\ b \in open /\ op[b].pc = "idle" /\ rfcnt[c] = 0
      /\ parent' = [parent EXCEPT ![c] = b] /\ rfcnt' = [rfcnt EXCEPT ![c] = 1, ![b] = @ + 1]
      /\ nadds' = [nadds EXCEPT ![c] = 0] /\ log' = [log EXCEPT ![c] = EmptyLog]
      /\ open' = open \union {c} /\ want' = [want EXCEPT ![c] = want[b]]
      /\ node' = node /\ map' = map /\ op' = op
  BY DEF Branch, Ready
<1>2. /\ TypeOK /\ TreeInv /\ CountInv /\ parent \in [Boards -> Boards \union {Null}]
      /\ rfcnt \in [Boards -> Nat] /\ want \in [Boards -> [Nodes -> Contents]] /\ open \subseteq Boards
      /\ nadds \in [Boards -> 0..LogSize] /\ log \in [Boards -> [1..LogSize -> Verps \union {Null}]]
      /\ node \in [Nodes -> NodeType]
  BY Parts, Types
<1>3. /\ b \in Alive /\ c \in Boards \ Alive /\ Base \in Alive /\ Base \in open /\ c # b /\ c # Base
      /\ c \notin open /\ parent[c] = Null /\ MapsOf(c) = {} /\ Children(c) = {}
  <2>1. b \in Alive /\ Base \in Alive /\ Base \in open BY <1>1, BoardInUse
  <2>2. c \notin Alive BY <1>1 DEF Alive
  <2>3. MapsOf(c) = {} /\ Children(c) = {}
    <3>1. /\ rfcnt[c] = Own(c) + Cardinality(MapsOf(c)) + Due(c) + Cardinality(Children(c)) /\ Due(c) \in Nat
          /\ Own(c) \in {0, 1} /\ Cardinality(MapsOf(c)) \in Nat /\ Cardinality(Children(c)) \in Nat
      BY <1>2, CountFacts
    <3>2. Cardinality(MapsOf(c)) = 0 /\ Cardinality(Children(c)) = 0
      <4> DEFINE o == Own(c)
                 p == Cardinality(MapsOf(c))
                 u == Due(c)
                 m == Cardinality(Children(c))
      <4>1. 0 = o + p + u + m /\ o \in Nat /\ p \in Nat /\ u \in Nat /\ m \in Nat BY <1>1, <3>1
      <4> HIDE DEF o, p, u, m
      <4>2. p = 0 /\ m = 0 BY <4>1
      <4> QED BY <4>2 DEF p, m
    <3> QED BY <1>2, <3>2, CountFacts
  <2> QED BY <2>1, <2>2, <2>3, <1>2 DEF TreeInv
<1>4. /\ parent'[c] = b /\ \A v \in Boards \ {c} : parent'[v] = parent[v]
      /\ rfcnt'[c] = 1 /\ rfcnt'[b] = rfcnt[b] + 1 /\ \A v \in Boards \ {b, c} : rfcnt'[v] = rfcnt[v]
      /\ rfcnt' \in [Boards -> Nat] /\ parent' \in [Boards -> Boards \union {Null}]
  BY <1>1, <1>2, <1>3
<1>5. /\ nadds'[c] = 0 /\ \A v \in Boards \ {c} : nadds'[v] = nadds[v] /\ log'[v] = log[v]
      /\ nadds' \in [Boards -> 0..LogSize] /\ log' \in [Boards -> [1..LogSize -> Verps \union {Null}]]
  <2>1. EmptyLog \in [1..LogSize -> Verps \union {Null}] /\ 0 \in 0..LogSize BY Nulls DEF EmptyLog
  <2> QED BY <2>1, <1>1, <1>2
<1>6. \A v \in Boards : rfcnt'[v] > 0 <=> rfcnt[v] > 0 \/ v = c
  <2> SUFFICES ASSUME NEW v \in Boards PROVE rfcnt'[v] > 0 <=> rfcnt[v] > 0 \/ v = c OBVIOUS
  <2>1. rfcnt[b] > 0 /\ rfcnt[b] \in Nat BY <1>2, <1>3 DEF Alive
  <2>2. CASE v = b BY <2>1, <2>2, <1>4
  <2>3. CASE v = c BY <2>3, <1>4
  <2>4. CASE v # b /\ v # c BY <2>4, <1>4
  <2> QED BY <2>2, <2>3, <2>4
<1>7. Alive' = Alive \union {c} BY <1>6 DEF Alive
<1>8. ASSUME NEW v \in Boards PROVE Children(v)' = Children(v) \union (IF v = b THEN {c} ELSE {})
  <2>1. c \notin Children(v) BY <1>1, <1>2 DEF Children
  <2> QED BY <2>1, <1>4, <1>6 DEF Children
<1>9. ASSUME NEW d \in Boards, NEW v \in Above(parent, d) PROVE v \in Above(parent', d)
  <2>1. \A T \in SUBSET Boards : UpClosed(parent', T) => UpClosed(parent, T)
    BY <1>1, <1>2, <1>3 DEF UpClosed
  <2> QED BY <2>1 DEF Above
<1>10. \A v \in Boards : MapsOf(v)' = MapsOf(v) BY <1>1 DEF MapsOf
<1>11. Setting' = Setting /\ Counted' = Counted BY <1>1, <1>10, Nulls DEF Setting, Counted
<1>12. \A n \in Nodes : Contested(n)' <=> Contested(n) BY <1>1 DEF Contested, Allocated, Adding
<1>13. TypeOK'
  <2>1. want' \in [Boards -> [Nodes -> Contents]] BY <1>1, <1>2
  <2>2. /\ node' \in [Nodes -> NodeType] /\ map' \in [Verps -> [Boards -> Contents \union {Null}]]
        /\ op' \in [Boards -> CallType] /\ open' \subseteq Boards
    BY <1>1, <1>2, Types
  <2> QED BY <1>4, <1>5, <2>1, <2>2, TypesNext
<1>14. TreeInv'
  <2>1. /\ open' \subseteq Alive' /\ parent'[Base] = Null /\ (open' # {} => Base \in open')
        /\ \A v \in Alive' \ {Base} : parent'[v] \in Alive'
        /\ \A v \in Boards \ Alive' : parent'[v] = Null
    <3>1. open' \subseteq Alive' /\ parent'[Base] = Null /\ Base \in open'
      BY <1>1, <1>2, <1>3, <1>4, <1>7, Nulls DEF TreeInv
    <3>2. \A v \in Alive : v \in Boards /\ v # c BY <1>3 DEF Alive
    <3>3. \A v \in Alive' \ {Base} : parent'[v] \in Alive'
      <4> SUFFICES ASSUME NEW v \in Alive' \ {Base} PROVE parent'[v] \in Alive' OBVIOUS
      <4>1. CASE v = c BY <4>1, <1>3, <1>4, <1>7
      <4>2. CASE v # c BY <4>2, <3>2, <1>2, <1>4, <1>7 DEF TreeInv
      <4> QED BY <4>1, <4>2
    <3>4. \A v \in Boards \ Alive' : parent'[v] = Null BY <1>2, <1>4, <1>7 DEF TreeInv
    <3> QED BY <3>1, <3>3, <3>4
  <2>2. ASSUME NEW T \in SUBSET Alive', T # {}, UpClosed(parent', T) PROVE Base \in T
    <3>1. T \ {c} # {}
      <4>1. b \in Boards /\ b # Null BY Nulls
      <4> QED BY <4>1, <1>3, <1>4, <2>2 DEF UpClosed
    <3>2. T \ {c} \in SUBSET Alive BY <1>7
    <3>3. UpClosed(parent, T \ {c})
      <4> SUFFICES ASSUME NEW v \in T \ {c}, parent[v] # Null PROVE parent[v] \in T \ {c}
        BY DEF UpClosed
      <4>1. v \in Alive /\ parent[v] \in Alive BY <3>2, <1>2 DEF TreeInv
      <4>2. parent'[v] = parent[v] BY <1>4, <4>1 DEF Alive
      <4> QED BY <2>2, <4>1, <4>2, <1>3 DEF UpClosed
    <3> QED BY <3>1, <3>2, <3>3, <1>2 DEF TreeInv
  <2> QED BY <2>1, <2>2 DEF TreeInv
<1>15. CountInv'
  <2> SUFFICES ASSUME NEW v \in Boards
               PROVE  rfcnt'[v] = Own(v)' + Cardinality(MapsOf(v))' + Due(v)' + Cardinality(Children(v))'
    BY DEF CountInv
  <2>1. MapsOf(v)' = MapsOf(v) /\ Due(v)' = Due(v) BY <1>10, <1>11 DEF Due
  <2>2. Own(v)' = Own(v) + (IF v = c THEN 1 ELSE 0) BY <1>1, <1>3 DEF Own
  <2>3. Cardinality(Children(v))' = Cardinality(Children(v)) + (IF v = b THEN 1 ELSE 0)
    <3>1. CASE v = b
      <4>1. Children(v)' = Children(v) \union {c} BY <3>1, <1>8
      <4>2. c \notin Children(v) BY <1>1, <1>2 DEF Children
      <4>3. IsFiniteSet(Children(v)) BY <1>2, CountFacts
      <4>4. Cardinality(Children(v) \union {c}) = Cardinality(Children(v)) + 1 BY <4>2, <4>3, FS_AddElement
      <4> QED BY <3>1, <4>1, <4>4
    <3>2. CASE v # b
      <4>1. Children(v)' = Children(v) BY <3>2, <1>8
      <4> QED BY <3>2, <4>1, <1>2, CountFacts
    <3> QED BY <3>1, <3>2
  <2>4. rfcnt'[v] = rfcnt[v] + (IF v = b THEN 1 ELSE 0) + (IF v = c THEN 1 ELSE 0)
    BY <1>2, <1>3, <1>1, <1>4
  <2>5. /\ rfcnt[v] = Own(v) + Cardinality(MapsOf(v)) + Due(v) + Cardinality(Children(v)) /\ Due(v) \in Nat
        /\ Own(v) \in {0, 1} /\ Cardinality(MapsOf(v)) \in Nat /\ Cardinality(Children(v)) \in Nat
    BY <1>2, CountFacts
  <2> QED BY <2>1, <2>2, <2>3, <2>4, <2>5
<1>16. LogInv'
  <2>1. BaseLogInv' BY <1>1, <1>3, <1>5, <1>11, Nulls, BaseLogKept
  <2>2. ASSUME NEW v \in Alive', v # Base PROVE nadds'[v] = Cardinality(MapsOf(v)') /\ Logged(v)' = MapsOf(v)'
    <3>1. CASE v = c
      <4>1. Logged(c)' = {} BY <1>5 DEF Logged
      <4> QED BY <3>1, <4>1, <1>3, <1>5, <1>10, FS_EmptySet
    <3>2. CASE v # c
      <4>1. v \in Alive /\ v \in Boards BY <3>2, <1>7 DEF Alive
      <4>2. Logged(v)' = Logged(v) BY <3>2, <4>1, <1>5 DEF Logged
      <4> QED BY <2>2, <3>2, <4>1, <4>2, <1>5, <1>10, Parts DEF LogInv
    <3> QED BY <3>1, <3>2
  <2> QED BY <2>1, <2>2 DEF LogInv
<1>17. MapInv' BY <1>1, <1>3, Parts DEF MapInv
<1>18. ASSUME NEW d \in Boards PROVE CallInv(d)'
  <2>1. CallInv(d) BY Parts
  <2>2. CASE op[d].pc = "idle"
    BY <2>1, <2>2, <1>1 DEF CallInv, InCall, Inserting
  <2>3. CASE op[d].pc # "idle"
    <3>1. d \in open /\ d # b /\ d # c BY <2>1, <2>3, <1>1, <1>3 DEF CallInv
    <3>2. /\ Children(d)' = Children(d) /\ rfcnt'[d] = rfcnt[d] /\ nadds'[d] = nadds[d] /\ nadds'[Base] = nadds[Base]
          /\ Logged(d)' = Logged(d) /\ MapsOf(d)' = MapsOf(d) /\ (BaseLogLost' <=> BaseLogLost)
      <4>1. Children(d)' = Children(d) /\ rfcnt'[d] = rfcnt[d] /\ MapsOf(d)' = MapsOf(d)
        BY <3>1, <1>4, <1>8, <1>10
      <4>2. nadds'[d] = nadds[d] /\ log'[d] = log[d] /\ nadds'[Base] = nadds[Base]
        BY <3>1, <1>3, <1>5, Nulls
      <4> QED BY <4>1, <4>2, <1>10, Nulls DEF Logged, BaseLogLost
    <3>3. op[d].pc \in InCall => op[d].node \in Nodes BY <2>1 DEF CallInv
    <3>4. op[d].pc \in InCall => op[d].at \in Above(parent', d) BY <2>1, <1>9 DEF CallInv
    <3>5. op[d].pc \in {"walk", "have", "got", "mark"} \union Inserting => op[d].pc \in InCall BY DEF InCall
    <3>6. Undisturbed(d)
      BY <2>1, <3>1, <3>2, <3>3, <3>4, <3>5, <1>1, <1>11, <1>12 DEF Undisturbed, CallInv
    <3> QED BY <3>6, CallKept
  <2> QED BY <2>2, <2>3
<1>19. HoldInv'
  <2>1. PICK held \in [Boards -> [Nodes -> Contents]] : Holds(held) BY Parts
  <2> DEFINE held2 == [held EXCEPT ![c] = held[b]]
  <2>2. /\ held2 \in [Boards -> [Nodes -> Contents]] /\ held2[c] = held[b]
        /\ \A v \in Boards \ {c} : held2[v] = held[v]
    OBVIOUS
  <2> HIDE DEF held2
  <2>3. \A v \in open' : held2[v] = want'[v]
    BY <2>1, <2>2, <1>1, <1>2, <1>3 DEF Holds
  <2>4. ASSUME NEW v \in Alive', NEW n \in Nodes, ~ Contested(n)' PROVE HoldsAt(held2, v, n)'
    <3> SUFFICES CASE node[n].verp = Null -> held2[v][n] = node[n].val
                   [] node[n].verp # Null /\ map[node[n].verp][v] # Null -> held2[v][n] = map[node[n].verp][v]
                   [] OTHER -> parent'[v] # Null /\ held2[v][n] = held2[parent'[v]][n]
      BY <1>1 DEF HoldsAt
    <3>0. ~ Contested(n) BY <2>4, <1>12
    <3>1. CASE v = c
      <4>1. node[n].verp # Null => map[node[n].verp][c] = Null
        <5>1. node[n].verp \in Verps \union {Null} BY <1>2 DEF NodeType
        <5> QED BY <5>1, <1>3 DEF MapsOf
      <4>2. node[n].verp = Null => held[b][n] = node[n].val BY <2>1, <3>0, <1>3 DEF Holds, HoldsAt
      <4>3. parent'[c] = b /\ b # Null BY <1>4, Nulls
      <4> QED BY <3>1, <4>1, <4>2, <4>3, <2>2, <1>1, <1>3
    <3>2. CASE v # c
      <4>1. v \in Alive /\ v \in Boards /\ parent'[v] = parent[v] BY <3>2, <1>4, <1>7 DEF Alive
      <4>2. parent[v] # Null => parent[v] \in Boards \ {c}
        BY <4>1, <1>2, <1>3 DEF TreeInv, Alive
      <4>3. HoldsAt(held, v, n) BY <4>1, <3>0, <2>1 DEF Holds
      <4> QED BY <3>2, <4>1, <4>2, <4>3, <2>2 DEF HoldsAt
    <3> QED BY <3>1, <3>2
  <2>5. ASSUME NEW d \in Boards, op'[d].pc \in InCall, ~ Contested(op[d].node)'
        PROVE  held2[op'[d].at][op'[d].node] = held2[d][op'[d].node]
    <3>1. op'[d] = op[d] /\ op[d].pc \in InCall BY <2>5, <1>1
    <3>2. d \in Alive /\ op[d].at \in Alive /\ op[d].node \in Nodes BY <3>1, CallFacts
    <3>3. ~ Contested(op[d].node) BY <2>5, <3>1, <3>2, <1>1, <1>12
    <3>4. held[op[d].at][op[d].node] = held[d][op[d].node] BY <3>1, <3>3, <2>1 DEF Holds
    <3>5. d # c /\ op[d].at # c /\ op[d].at \in Boards BY <3>2, <1>3 DEF Alive
    <3>6. held2[d] = held[d] /\ held2[op[d].at] = held[op[d].at] BY <3>5, <2>2
    <3> QED BY <3>1, <3>4, <3>6
  <2>6. Holds(held2)' BY <2>3, <2>4, <2>5 DEF Holds
  <2> QED BY <2>2, <2>6 DEF HoldInv
<1>20. NothingLeaks'
  <2>1. BaseLogLost' <=> BaseLogLost BY <1>3, <1>5, <1>10, Nulls DEF BaseLogLost
  <2>2. \A v \in ChildrenFirst \ open : rfcnt'[v] = rfcnt[v] \/ v = c
    BY <1>1, <1>4, Nulls
  <2> QED BY <1>1, <1>10, <2>1, <2>2, Parts, Nulls DEF NothingLeaks
<1> QED BY <1>13, <1>14, <1>15, <1>16, <1>17, <1>18, <1>19, <1>20 DEF XVInv

-----------------------------------------------------------------------------
(* Copying chunks and writing to them *)

(* Verps stay allocated when mappings stay and nobody stops adding.        *)
LEMMA AllocatedStays ==
  ASSUME NEW b \in Boards, \A e \in Verps : map[e][Base] # Null => map'[e][Base] # Null,
         \A d \in Boards \ {b} : op'[d] = op[d],
         op[b].pc \in Inserting => \/ op'[b].pc \in Inserting /\ op'[b].verp = op[b].verp
                                   \/ map'[op[b].verp][Base] # Null
  PROVE  \A n \in Nodes : Contested(n) => Contested(n)'
<1>1. ASSUME NEW e \in Verps, Allocated(e) PROVE Allocated(e)'
  <2>1. CASE map[e][Base] # Null BY <2>1 DEF Allocated
  <2>2. CASE e[2] \in Adding /\ op[e[2]].verp = e
    <3>1. CASE e[2] = b BY <2>2, <3>1 DEF Allocated, Adding
    <3>2. CASE e[2] # b BY <2>2, <3>2 DEF Allocated, Adding
    <3> QED BY <3>1, <3>2
  <2> QED BY <1>1, <2>1, <2>2 DEF Allocated
<1> QED BY <1>1, ContestedStays

(* The copy is of the chunk that the board saw.                            *)
LEMMA CopyInv ==
  ASSUME XVInv, NEW b \in Boards, Copy(b)
  PROVE  XVInv'
<1> DEFINE n == op[b].node
           e == op[b].verp
           v == op[b].at
           x == map[e][v]
           o == [op[b] EXCEPT !.pc = "got", !.at = b]
           k == nadds[b]
<1>1. /\ TypeOK /\ TreeInv /\ CountInv /\ LogInv /\ MapInv /\ CallInv(b)
      /\ op \in [Boards -> CallType] /\ op[b] \in CallType /\ node \in [Nodes -> NodeType]
      /\ map \in [Verps -> [Boards -> Contents \union {Null}]] /\ rfcnt \in [Boards -> Nat]
      /\ nadds \in [Boards -> 0..LogSize] /\ log \in [Boards -> [1..LogSize -> Verps \union {Null}]]
  BY Parts, Types
<1>2. op[b].pc = "have" /\ k < LogSize BY DEF Copy
<1>3. /\ b \in open /\ b \in Alive /\ n \in Nodes /\ v \in Above(parent, b) /\ v \in Boards /\ v \in Alive
      /\ Base \in open /\ b \in Above(parent, b)
  BY <1>2, CallFacts, BoardInUse DEF InCall
<1>4. /\ e \in Verps /\ e[1] = n /\ map[e][Base] # Null /\ (~ Contested(n) => e = node[n].verp)
      /\ op[b].writes /\ Children(b) = {} /\ b # Base /\ x # Null /\ map[e][b] = Null /\ x \in Contents
      /\ e # Null
  <2>1. e # Null /\ e[1] = n /\ map[e][Base] # Null /\ (~ Contested(n) => e = node[n].verp)
    BY <1>1, <1>2 DEF CallInv
  <2>2. op[b].writes /\ b # Base /\ x # Null /\ map[e][b] = Null BY <1>1, <1>2 DEF CallInv
  <2>3. Children(b) = {} BY <1>1, <2>2 DEF CallInv
  <2>4. e \in Verps BY <1>1, <2>1 DEF CallType
  <2> QED BY <1>1, <1>3, <2>1, <2>2, <2>3, <2>4
<1>5. /\ map' = [map EXCEPT ![e][b] = x] /\ nadds' = [nadds EXCEPT ![b] = k + 1]
      /\ log' = [log EXCEPT ![b][k + 1] = e] /\ rfcnt' = [rfcnt EXCEPT ![b] = @ + 1]
      /\ node' = node /\ parent' = parent /\ open' = open /\ want' = want
  <2>1. Chunk(op[b]) = x BY <1>3, <1>4, Nulls DEF Chunk, VerpmapGet
  <2> QED BY <2>1 DEF Copy, VerpmapSet
<1> HIDE DEF x
<1>6. /\ map' \in [Verps -> [Boards -> Contents \union {Null}]] /\ map'[e][b] = x
      /\ \A f \in Verps, c \in Boards : f # e \/ c # b => map'[f][c] = map[f][c]
  BY <1>1, <1>3, <1>4, <1>5
<1>7. /\ nadds' \in [Boards -> 0..LogSize] /\ log' \in [Boards -> [1..LogSize -> Verps \union {Null}]]
      /\ nadds'[b] = k + 1 /\ log'[b][k + 1] = e /\ \A i \in 1..k : log'[b][i] = log[b][i]
      /\ \A c \in Boards \ {b} : nadds'[c] = nadds[c] /\ log'[c] = log[c]
      /\ k \in Nat
  <2>1. k \in 0..LogSize /\ LogSize \in Nat BY <1>1, Nulls
  <2>2. k + 1 \in 1..LogSize /\ k + 1 \in 0..LogSize /\ \A i \in 1..k : i \in 1..LogSize /\ i # k + 1
    BY <1>2, <2>1
  <2> HIDE DEF k
  <2>3. log[b] \in [1..LogSize -> Verps \union {Null}] BY <1>1
  <2>4. log' = [log EXCEPT ![b] = [log[b] EXCEPT ![k + 1] = e]] BY <1>5
  <2>5. [log[b] EXCEPT ![k + 1] = e] \in [1..LogSize -> Verps \union {Null}] BY <1>4, <2>2, <2>3
  <2>6. nadds' \in [Boards -> 0..LogSize] /\ nadds'[b] = k + 1
        /\ \A c \in Boards \ {b} : nadds'[c] = nadds[c]
    BY <1>1, <1>5, <2>2
  <2>7. /\ log' \in [Boards -> [1..LogSize -> Verps \union {Null}]]
        /\ log'[b] = [log[b] EXCEPT ![k + 1] = e] /\ \A c \in Boards \ {b} : log'[c] = log[c]
    BY <1>1, <2>4, <2>5
  <2>8. log'[b][k + 1] = e /\ \A i \in 1..k : log'[b][i] = log[b][i] BY <2>2, <2>3, <2>7
  <2> QED BY <2>1, <2>6, <2>7, <2>8
<1>8. /\ rfcnt' \in [Boards -> Nat] /\ rfcnt'[b] = rfcnt[b] + 1 /\ \A c \in Boards \ {b} : rfcnt'[c] = rfcnt[c]
      /\ rfcnt[b] \in Nat /\ rfcnt[b] > 0
  BY <1>1, <1>3, <1>5 DEF Alive
<1>9. ASSUME NEW c \in Boards PROVE rfcnt'[c] > 0 <=> rfcnt[c] > 0
  <2>1. rfcnt'[b] > 0 /\ rfcnt[b] > 0 BY <1>8
  <2>2. CASE c # b BY <2>2, <1>8
  <2> QED BY <2>1, <2>2
<1>10. Alive' = Alive /\ \A c \in Boards : Children(c)' = Children(c) BY <1>5, <1>9 DEF Alive, Children
<1>11. TreeInv' BY <1>1, <1>5, <1>10 DEF TreeInv
<1>12. /\ op' \in [Boards -> CallType] /\ \A d \in Boards \ {b} : op'[d] = op[d]
       /\ op'[b].pc = "got" /\ op'[b].writes /\ op'[b].verp = e /\ op'[b].at = b /\ op'[b].node = n
  <2>2. o \in CallType /\ o.pc = "got" /\ o.writes = op[b].writes /\ o.verp = e /\ o.at = b /\ o.node = n
    BY <1>1 DEF CallType
  <2>3. op' = [op EXCEPT ![b] = o] BY <1>1 DEF Copy, CallType
  <2> HIDE DEF o
  <2> QED BY <1>1, <1>4, <2>2, <2>3, CallPut
<1>13. TypeOK'
  <2>1. /\ node' \in [Nodes -> NodeType] /\ parent' \in [Boards -> Boards \union {Null}]
        /\ open' \subseteq Boards /\ want' \in [Boards -> [Nodes -> Contents]]
    BY <1>1, <1>5, Types
  <2> QED BY <1>6, <1>7, <1>8, <1>12, <2>1, TypesNext
<1>14. MapsOf(b)' = MapsOf(b) \union {e} /\ e \notin MapsOf(b)
       /\ \A c \in Boards \ {b} : MapsOf(c)' = MapsOf(c)
  BY <1>4, <1>6, Nulls DEF MapsOf
<1>15. Cardinality(MapsOf(b)') = Cardinality(MapsOf(b)) + 1
  <2>1. IsFiniteSet(MapsOf(b)) BY <1>1, CountFacts
  <2>2. Cardinality(MapsOf(b) \union {e}) = Cardinality(MapsOf(b)) + 1
    <3> HIDE DEF e
    <3> QED BY <2>1, <1>14, FS_AddElement
  <2> QED BY <2>2, <1>14
<1>16. Setting' = Setting BY <1>2, <1>12 DEF Setting
<1>17. Counted' = Counted
  BY <1>2, <1>4, <1>12, <1>14, Nulls, CountedKept
<1>18. CountInv'
  <2> SUFFICES ASSUME NEW c \in Boards
               PROVE  rfcnt'[c] = Own(c)' + Cardinality(MapsOf(c))' + Due(c)' + Cardinality(Children(c))'
    BY DEF CountInv
  <2>1. Own(c)' = Own(c) /\ Due(c)' = Due(c) /\ Children(c)' = Children(c) BY <1>5, <1>10, <1>16 DEF Own, Due
  <2>2. /\ rfcnt[c] = Own(c) + Cardinality(MapsOf(c)) + Due(c) + Cardinality(Children(c)) /\ Due(c) \in Nat
        /\ Own(c) \in {0, 1} /\ Cardinality(MapsOf(c)) \in Nat /\ Cardinality(Children(c)) \in Nat
    BY <1>1, CountFacts
  <2>3. CASE c = b BY <2>1, <2>2, <2>3, <1>8, <1>15
  <2>4. CASE c # b BY <2>1, <2>2, <2>4, <1>8, <1>14
  <2> QED BY <2>3, <2>4
<1>19. LogInv'
  <2>1. BaseLogInv' BY <1>2, <1>4, <1>5, <1>7, <1>12, <1>17, Nulls, BaseLogKept
  <2>2. Logged(b)' = Logged(b) \union {e} BY <1>7 DEF Logged
  <2>3. \A c \in Boards \ {b} : Logged(c)' = Logged(c) BY <1>7 DEF Logged
  <2>4. ASSUME NEW c \in Alive, c # Base
        PROVE  nadds'[c] = Cardinality(MapsOf(c)') /\ Logged(c)' = MapsOf(c)'
    <3>1. c \in Boards BY DEF Alive
    <3>2. nadds[c] = Cardinality(MapsOf(c)) /\ Logged(c) = MapsOf(c) BY <1>1, <2>4 DEF LogInv
    <3>3. CASE c = b BY <3>2, <3>3, <2>2, <1>7, <1>14, <1>15
    <3>4. CASE c # b BY <3>1, <3>2, <3>4, <2>3, <1>7, <1>14
    <3> QED BY <3>3, <3>4
  <2> QED BY <2>1, <2>4, <1>10 DEF LogInv
<1>20. MapInv'
  <2>1. \A m \in Nodes : node[m].verp # Null => map'[node[m].verp][Base] # Null
    <3>1. \A m \in Nodes : node[m].verp \in Verps \union {Null} BY <1>1 DEF NodeType
    <3> QED BY <3>1, <1>1, <1>3, <1>4, <1>6, Nulls DEF MapInv
  <2>2. ASSUME NEW f \in Verps, NEW c \in Boards, map'[f][c] # Null
        PROVE  /\ map'[f][Base] # Null
               /\ node[f[1]].verp # Null \/ (op'[f[2]].pc = "mark" /\ op'[f[2]].verp = f)
    <3>1. \E d \in Boards : map[f][d] # Null
      <4>1. CASE f = e BY <4>1, <1>4, Nulls
      <4>2. CASE f # e BY <4>2, <2>2, <1>6
      <4> QED BY <4>1, <4>2
    <3>2. /\ map[f][Base] # Null
          /\ node[f[1]].verp # Null \/ (op[f[2]].pc = "mark" /\ op[f[2]].verp = f)
      BY <3>1, <1>1, <1>3 DEF MapInv
    <3>3. map'[f][Base] # Null BY <3>2, <1>4, <1>6, Nulls
    <3>4. f[2] \in Boards BY Pairs
    <3> QED BY <3>2, <3>3, <3>4, <1>2, <1>12
  <2> QED BY <2>1, <2>2, <1>1, <1>5 DEF MapInv
<1>21. \A m \in Nodes : Contested(m) => Contested(m)'
  <2>1. \A f \in Verps : map[f][Base] # Null => map'[f][Base] # Null BY <1>4, <1>6, Nulls
  <2>2. op[b].pc \notin Inserting BY <1>2 DEF Inserting
  <2> QED BY <2>1, <2>2, <1>12, AllocatedStays
<1>22. \A d \in Boards \ {b} : CallInv(d)'
  <2>1. OnlySides(b)
    BY <1>2, <1>4, <1>5, <1>6, <1>7, <1>8, <1>10, <1>12, <1>17, <1>21, Nulls DEF OnlySides, Inserting
  <2> QED BY <2>1, <1>2, <1>4, OthersKept DEF InCall
<1>23. CallInv(b)'
  <2>1. Children(b)' = {} BY <1>4, <1>10
  <2>2. /\ b \in open' /\ n \in Nodes /\ b \in Above(parent', b)
        /\ map'[e][Base] # Null /\ map'[e][b] # Null
        /\ ~ Contested(n)' => e = node'[n].verp
    BY <1>3, <1>4, <1>5, <1>6, <1>12, <1>21, Nulls
  <2> QED BY <2>1, <2>2, <1>4, <1>12 DEF CallInv, InCall, Inserting
<1>24. HoldInv'
  <2>1. PICK held \in [Boards -> [Nodes -> Contents]] : Holds(held) BY Parts
  <2>2. ASSUME NEW c \in Alive, NEW m \in Nodes, ~ Contested(m)' PROVE HoldsAt(held, c, m)'
    <3>1. c \in Boards /\ HoldsAt(held, c, m) /\ node[m].verp \in Verps \union {Null}
      BY <1>1, <1>21, <2>1, <2>2 DEF Holds, Alive, NodeType
    <3>2. CASE c = b /\ m = n
      <4>1. ~ Contested(n) /\ e = node[n].verp BY <1>4, <1>21, <2>2, <3>2
      <4>2. HoldsAt(held, v, n) /\ held[v][n] = held[b][n]
        BY <1>2, <1>3, <2>1, <4>1 DEF Holds, InCall
      <4>3. held[v][n] = x BY <4>1, <4>2, <1>4 DEF HoldsAt, x
      <4>4. node'[m].verp = e /\ map'[e][c] = x /\ held[c][m] = x
        BY <3>2, <4>1, <4>2, <4>3, <1>5, <1>6
      <4>5. e # Null /\ x # Null BY <1>4
      <4> QED BY <4>4, <4>5 DEF HoldsAt
    <3>3. CASE c # b \/ m # n
      <4>1. node[m].verp # Null => map'[node[m].verp][c] = map[node[m].verp][c]
        <5>1. node[m].verp # Null => node[m].verp[1] = m BY <1>1 DEF MapInv
        <5> QED BY <5>1, <3>1, <3>3, <1>4, <1>6
      <4> QED BY <3>1, <4>1, <1>5 DEF HoldsAt
    <3> QED BY <3>2, <3>3
  <2>3. ASSUME NEW d \in Boards, op'[d].pc \in InCall, ~ Contested(op[d].node)'
        PROVE  held[op'[d].at][op'[d].node] = held[d][op'[d].node]
    <3>1. CASE d = b BY <3>1, <1>12
    <3>2. CASE d # b
      <4>1. op'[d] = op[d] /\ op[d].pc \in InCall BY <2>3, <3>2, <1>12
      <4>2. op[d].node \in Nodes BY <4>1, CallFacts
      <4>3. ~ Contested(op[d].node) BY <2>3, <4>1, <4>2, <1>21
      <4> QED BY <4>1, <4>3, <2>1 DEF Holds
    <3> QED BY <3>1, <3>2
  <2>4. \A d \in open : held[d] = want[d] BY <2>1 DEF Holds
  <2>5. Holds(held)' BY <2>2, <2>3, <2>4, <1>5, <1>10 DEF Holds
  <2> QED BY <2>5 DEF HoldInv
<1>25. NothingLeaks'
  <2>1. BaseLogLost' <=> BaseLogLost BY <1>4, <1>7, <1>14, Nulls DEF BaseLogLost
  <2>2. \A c \in ChildrenFirst \ open : c \in Boards \ {b} BY <1>3, Nulls
  <2> QED BY <1>5, <1>8, <1>14, <2>1, <2>2, Parts DEF NothingLeaks
<1> QED BY <1>11, <1>13, <1>18, <1>19, <1>20, <1>22, <1>23, <1>24, <1>25 DEF XVInv

-----------------------------------------------------------------------------
(* Inserting the pointer of the base in a new verp *)

LEMMA BijectionAppend ==
  ASSUME NEW N \in Nat, NEW S, NEW s \in Bijection(1..N, S), NEW e, e \notin S
  PROVE  \E t \in Bijection(1..(N + 1), S \union {e}) :
           t[N + 1] = e /\ \A i \in 1..N : t[i] = s[i]
<1> DEFINE t == [i \in 1..(N + 1) |-> IF i = N + 1 THEN e ELSE s[i]]
<1>1. /\ \A i \in 1..N : s[i] \in S /\ i \in 1..(N + 1) /\ i # N + 1
      /\ \A i, j \in 1..N : s[i] = s[j] => i = j
      /\ \A x \in S : \E i \in 1..N : s[i] = x
  BY DEF Bijection, Injection, Surjection, IsInjective
<1>2. N + 1 \in 1..(N + 1) /\ \A i \in 1..(N + 1) : i = N + 1 \/ i \in 1..N OBVIOUS
<1>3. t[N + 1] = e /\ \A i \in 1..N : t[i] = s[i] BY <1>1, <1>2
<1>4. t \in [1..(N + 1) -> S \union {e}] BY <1>1, <1>2
<1> HIDE DEF t
<1>5. \A i, j \in 1..(N + 1) : t[i] = t[j] => i = j BY <1>1, <1>2, <1>3
<1>6. \A x \in S \union {e} : \E i \in 1..(N + 1) : t[i] = x BY <1>1, <1>2, <1>3
<1>7. t \in Bijection(1..(N + 1), S \union {e})
  BY <1>4, <1>5, <1>6 DEF Bijection, Injection, Surjection, IsInjective
<1> QED BY <1>3, <1>7

(* A step of verp_log_add, and the reference that verpmap_set takes.       *)
LEMMA AddStep ==
  ASSUME XVInv, NEW b \in Boards, op[b].pc \in {"count", "entry", "ref"},
         NEW o \in CallType, op' = [op EXCEPT ![b] = o], o.pc \in {"entry", "ref", "set"},
         o.node = op[b].node, o.verp = op[b].verp, o.at = op[b].at, o.writes = op[b].writes,
         node' = node, map' = map, parent' = parent, open' = open, want' = want,
         rfcnt' \in [Boards -> Nat], nadds' \in [Boards -> 0..LogSize],
         log' \in [Boards -> [1..LogSize -> Verps \union {Null}]],
         \A c \in Boards : rfcnt'[c] > 0 <=> rfcnt[c] > 0,
         \A c \in Boards \ {Base} : rfcnt'[c] = rfcnt[c] /\ nadds'[c] = nadds[c] /\ log'[c] = log[c],
         \/ nadds'[Base] = nadds[Base] /\ Counted' = Counted
         \/ Cardinality(Counted)' = Cardinality(Counted) + 1,
         CountInv', BaseLogInv'
  PROVE  XVInv'
<1>1. /\ TypeOK /\ TreeInv /\ LogInv /\ MapInv /\ NothingLeaks /\ CallInv(b)
      /\ op \in [Boards -> CallType]
  BY Parts, Types
<1>2. op[b].pc \in Inserting /\ op[b].pc \in InCall /\ o.pc \in Inserting BY DEF Inserting, InCall
<1>3. /\ b \in open /\ Base \in open /\ op[b].node \in Nodes /\ op[b].at \in Above(parent, b)
      /\ op[b].writes /\ b # Base /\ Children(b) = {} /\ op[b].at = Base
      /\ op[b].verp = <<op[b].node, b>> /\ map[op[b].verp][Base] = Null
  BY <1>2, CallFacts, NewVerpIsEmpty, Nulls
<1>4. op' \in [Boards -> CallType] /\ op'[b] = o /\ \A d \in Boards \ {b} : op'[d] = op[d]
  BY <1>1, CallPut
<1>5. TypeOK'
  <2>1. /\ node' \in [Nodes -> NodeType] /\ map' \in [Verps -> [Boards -> Contents \union {Null}]]
        /\ parent' \in [Boards -> Boards \union {Null}]
        /\ open' \subseteq Boards /\ want' \in [Boards -> [Nodes -> Contents]]
    BY <1>1, Types
  <2> QED BY <1>4, <2>1, TypesNext
<1>6. /\ Alive' = Alive /\ \A c \in Boards : Children(c)' = Children(c) /\ MapsOf(c)' = MapsOf(c)
  BY DEF Alive, Children, MapsOf
<1>7. TreeInv' BY <1>1, <1>6 DEF TreeInv
<1>8. LogInv'
  <2>1. ASSUME NEW c \in Alive, c # Base
        PROVE  nadds'[c] = Cardinality(MapsOf(c)') /\ Logged(c)' = MapsOf(c)'
    <3>1. c \in Boards BY DEF Alive
    <3>2. nadds[c] = Cardinality(MapsOf(c)) /\ Logged(c) = MapsOf(c) BY <1>1, <2>1 DEF LogInv
    <3>3. Logged(c)' = Logged(c) BY <3>1, <2>1 DEF Logged
    <3> QED BY <3>1, <3>2, <3>3, <2>1, <1>6
  <2> QED BY <2>1, <1>6 DEF LogInv
<1>9. MapInv'
  <2>1. \A f \in Verps : op[f[2]].pc = "mark" => op'[f[2]] = op[f[2]] BY <1>2, <1>4, Pairs DEF Inserting
  <2> QED BY <2>1, <1>1 DEF MapInv
<1>10. \A n \in Nodes : Contested(n) => Contested(n)' BY <1>2, <1>4, AllocatedStays
<1>11. \A d \in Boards \ {b} : CallInv(d)'
  <2>1. OnlySides(b) BY <1>4, <1>6, <1>10 DEF OnlySides
  <2> QED BY <2>1, <1>2, <1>3, OthersKept
<1>12. CallInv(b)'
  <2>1. ~ Contested(op[b].node) => node[op[b].node].verp = Null BY <1>1, <1>2 DEF CallInv
  <2>2. Children(b)' = {} BY <1>3, <1>6
  <2> QED BY <2>1, <2>2, <1>2, <1>3, <1>4, <1>10 DEF CallInv, InCall, Inserting
<1>13. HoldInv'
  <2>1. PICK held \in [Boards -> [Nodes -> Contents]] : Holds(held) BY Parts
  <2>2. \A c \in Alive, n \in Nodes : ~ Contested(n)' => HoldsAt(held, c, n)'
    BY <1>10, <2>1 DEF Holds, HoldsAt
  <2>3. ASSUME NEW d \in Boards, op'[d].pc \in InCall, ~ Contested(op[d].node)'
        PROVE  held[op'[d].at][op'[d].node] = held[d][op'[d].node]
    <3>1. op[d].pc \in InCall /\ op'[d].at = op[d].at /\ op'[d].node = op[d].node BY <2>3, <1>2, <1>4
    <3>2. op[d].node \in Nodes BY <3>1, CallFacts
    <3>3. ~ Contested(op[d].node) BY <2>3, <3>1, <3>2, <1>10
    <3> QED BY <3>1, <3>3, <2>1 DEF Holds
  <2>4. \A d \in open : held[d] = want[d] BY <2>1 DEF Holds
  <2>5. Holds(held)' BY <2>2, <2>3, <2>4, <1>6 DEF Holds
  <2> QED BY <2>5 DEF HoldInv
<1>14. NothingLeaks'
  <2>1. \A c \in ChildrenFirst \ open : c \in Boards \ {Base} BY <1>3, Nulls
  <2> QED BY <2>1, <1>1, <1>6 DEF NothingLeaks
<1> QED BY <1>5, <1>7, <1>8, <1>9, <1>11, <1>12, <1>13, <1>14 DEF XVInv

(* The verp of a board that has stored a count is a new one, in the next   *)
(* slot if no entry was lost.                                              *)
LEMMA LogCountInv ==
  ASSUME XVInv, NEW b \in Boards, LogCount(b)
  PROVE  XVInv'
<1> DEFINE e == op[b].verp
           z == op[b].size
           o == [op[b] EXCEPT !.pc = "entry"]
           C == Counted
           N == Cardinality(Counted)
<1>1. /\ TypeOK /\ CountInv /\ BaseLogInv /\ CallInv(b) /\ op \in [Boards -> CallType] /\ op[b] \in CallType
      /\ nadds \in [Boards -> 0..LogSize] /\ rfcnt \in [Boards -> Nat]
      /\ log \in [Boards -> [1..LogSize -> Verps \union {Null}]]
  BY Parts, Types DEF LogInv
<1>2. /\ op[b].pc = "count" /\ z < LogSize /\ nadds' = [nadds EXCEPT ![Base] = z + 1]
      /\ UNCHANGED <<node, map, log, rfcnt, parent, open, want>>
  BY DEF LogCount
<1>3. op[b].pc \in Inserting /\ op[b].pc \in InCall BY <1>2 DEF Inserting, InCall
<1>4. /\ Base \in open /\ b # Base /\ e \in Verps /\ e = <<op[b].node, b>> /\ map[e][Base] = Null
      /\ e[2] = b /\ Base \in Boards
  BY <1>3, CallFacts, NewVerpIsEmpty, Nulls, Pairs
<1>5. /\ o \in CallType /\ o.pc = "entry" /\ o.size = z /\ o.node = op[b].node /\ o.verp = e /\ o.at = op[b].at
      /\ o.writes = op[b].writes
  BY <1>1 DEF CallType, Inserting
<1>6. op' = [op EXCEPT ![b] = o] BY DEF LogCount
<1> HIDE DEF o
<1>7. op'[b] = o /\ \A d \in Boards \ {b} : op'[d] = op[d] BY <1>1, <1>5, <1>6, CallPut
<1>8. z \in Nat /\ LogSize \in Nat /\ z + 1 \in 0..LogSize /\ nadds[Base] \in Nat BY <1>1, <1>2, <1>4, Nulls DEF CallType
<1>9. nadds' \in [Boards -> 0..LogSize] /\ nadds'[Base] = z + 1
      /\ \A c \in Boards \ {Base} : nadds'[c] = nadds[c]
  <2> HIDE DEF z
  <2> QED BY <1>1, <1>2, <1>4, <1>8
<1>10. e \notin C
  <2>1. e \notin MapsOf(Base) BY <1>4 DEF MapsOf
  <2>2. ASSUME NEW c \in Boards, op[c].pc \in {"entry", "ref", "set"} PROVE op[c].verp # e
    <3>1. op[c].verp = <<op[c].node, c>> BY <2>2, NewVerpIsEmpty DEF Inserting
    <3> QED BY <3>1, <2>2, <1>2, <1>4
  <2> QED BY <2>1, <2>2 DEF Counted
<1>11. Counted' = C \union {e}
  <2> DEFINE D == {d \in Boards : op[d].pc \in {"entry", "ref", "set"}}
  <2>1. D' = D \union {b} BY <1>2, <1>5, <1>7
  <2>2. \A d \in D' : op'[d].verp = op[d].verp BY <1>5, <1>7
  <2>3. {op'[c].verp : c \in D'} = {op[c].verp : c \in D} \union {e} BY <2>1, <2>2
  <2>4. MapsOf(Base)' = MapsOf(Base) BY <1>2 DEF MapsOf
  <2> QED BY <2>3, <2>4 DEF Counted
<1>12. C \subseteq Verps
  <2>1. \A c \in Boards : op[c].pc \in {"entry", "ref", "set"} => op[c].verp \in Verps
    BY NewVerpIsEmpty DEF Inserting
  <2> QED BY <2>1 DEF Counted, MapsOf
<1>13. IsFiniteSet(C) /\ N \in Nat BY <1>1, CountedFinite
<1>14. Cardinality(Counted') = N + 1
  <2> HIDE DEF C, N
  <2>1. IsFiniteSet(C \union {e}) /\ Cardinality(C \union {e}) = Cardinality(C) + 1 BY <1>10, <1>13, FS_AddElement
  <2> QED BY <2>1, <1>11 DEF C, N
<1>15. z <= N /\ (z = N => nadds[Base] = z) BY <1>1, <1>2 DEF CallInv
<1>16. BaseLogInv'
  <2>1. z + 1 <= N + 1
    <3> HIDE DEF z, N
    <3> QED BY <1>8, <1>13, <1>15
  <2>2. ASSUME z + 1 = N + 1
        PROVE  \E s \in Bijection(1..(z + 1), C \union {e}) : \A i \in 1..(z + 1) : SlotOf(s[i], i)'
    <3>1. z = N /\ nadds[Base] = z
      <4> HIDE DEF z, N
      <4> QED BY <1>8, <1>13, <1>15, <2>2
    <3>2. PICK s \in Bijection(1..z, C) : \A i \in 1..z : SlotOf(s[i], i)
      BY <3>1, <1>1, <1>4 DEF BaseLogInv
    <3> HIDE DEF C, e, z, N
    <3>3. PICK t \in Bijection(1..(z + 1), C \union {e}) : t[z + 1] = e /\ \A i \in 1..z : t[i] = s[i]
      BY <3>2, <1>8, <1>10, BijectionAppend
    <3>4. ASSUME NEW f, f = e, NEW i, i = z + 1 PROVE SlotOf(f, i)'
      BY <3>4, <1>4, <1>5, <1>7 DEF SlotOf, e
    <3>5. ASSUME NEW i \in 1..z PROVE SlotOf(t[i], i)'
      <4>1. s[i] \in C BY <3>2 DEF Bijection, Injection
      <4>2. s[i] \in Verps /\ s[i] # e /\ t[i] = s[i] BY <4>1, <1>10, <1>12, <3>3
      <4>3. SlotOf(s[i], i) /\ s[i][2] \in Boards BY <3>2, <4>2, Pairs
      <4>4. op'[s[i][2]] = op[s[i][2]] \/ s[i][2] = b BY <4>3, <1>7
      <4>5. SlotOf(s[i], i)'
        <5>1. CASE s[i][2] = b
          <6>1. log[Base][i] = s[i] BY <5>1, <4>2, <4>3, <1>2 DEF SlotOf, e
          <6>2. ~ (op'[s[i][2]].pc = "entry" /\ op'[s[i][2]].verp = s[i]) BY <5>1, <4>2, <1>5, <1>7
          <6> QED BY <6>1, <6>2, <1>2 DEF SlotOf
        <5>2. CASE s[i][2] # b
          <6>1. op'[s[i][2]] = op[s[i][2]] BY <5>2, <4>4
          <6> QED BY <6>1, <4>3, <1>2 DEF SlotOf
        <5> QED BY <5>1, <5>2
      <4> QED BY <4>2, <4>5
    <3>7. ASSUME NEW i \in 1..(z + 1) PROVE SlotOf(t[i], i)'
      <4>1. CASE i \in 1..z BY <4>1, <3>5
      <4>2. CASE i = z + 1
        <5>1. t[i] = e BY <4>2, <3>3
        <5> QED BY <5>1, <4>2, <3>4
      <4>3. i = z + 1 \/ i \in 1..z BY <1>8
      <4> QED BY <4>1, <4>2, <4>3
    <3> QED BY <3>3, <3>7
  <2>3. Base \in open' BY <1>2, <1>4
  <2>4. nadds'[Base] <= Cardinality(Counted') BY <2>1, <1>9, <1>14
  <2>5. nadds'[Base] = Cardinality(Counted') =>
          \E s \in Bijection(1..nadds'[Base], Counted') : \A i \in 1..nadds'[Base] : SlotOf(s[i], i)'
    BY <2>2, <1>9, <1>11, <1>14
  <2> QED BY <2>3, <2>4, <2>5 DEF BaseLogInv
<1>17. CountInv'
  <2>1. Setting' = Setting BY <1>2, <1>5, <1>7 DEF Setting
  <2>2. \A c \in Boards : MapsOf(c)' = MapsOf(c) /\ Children(c)' = Children(c) BY <1>2 DEF MapsOf, Children
  <2> QED BY <2>1, <2>2, <1>1, <1>2 DEF CountInv, Own, Due
<1>18. Cardinality(Counted)' = Cardinality(Counted) + 1 BY <1>14
<1> HIDE DEF C, N, z
<1> QED BY <1>1, <1>2, <1>5, <1>6, <1>9, <1>16, <1>17, <1>18, AddStep

(* The entry lands in the slot the board counted for, over nobody else's   *)
(* if no entry was lost.                                                   *)
LEMMA LogEntryInv ==
  ASSUME XVInv, NEW b \in Boards, LogEntry(b)
  PROVE  XVInv'
<1> DEFINE e == op[b].verp
           j == op[b].size + 1
           o == [op[b] EXCEPT !.pc = "ref", !.size = 0]
<1>1. /\ TypeOK /\ CountInv /\ BaseLogInv /\ op \in [Boards -> CallType] /\ op[b] \in CallType
      /\ nadds \in [Boards -> 0..LogSize] /\ rfcnt \in [Boards -> Nat]
      /\ log \in [Boards -> [1..LogSize -> Verps \union {Null}]]
  BY Parts, Types DEF LogInv
<1>2. /\ op[b].pc = "entry" /\ log' = [log EXCEPT ![Base][j] = e]
      /\ UNCHANGED <<node, map, nadds, rfcnt, parent, open, want>>
  BY DEF LogEntry
<1>3. op[b].pc \in Inserting /\ op[b].pc \in InCall BY <1>2 DEF Inserting, InCall
<1>4. Base \in open /\ b # Base /\ e \in Verps /\ e[2] = b /\ Base \in Boards /\ LogSize \in Nat
  BY <1>3, CallFacts, NewVerpIsEmpty, Nulls, Pairs
<1>5. o \in CallType /\ o.pc = "ref" /\ o.node = op[b].node /\ o.verp = e /\ o.at = op[b].at /\ o.writes = op[b].writes
  <2>1. 0 \in 0..LogSize /\ "ref" \in Inserting BY <1>4 DEF Inserting
  <2> QED BY <1>1, <2>1 DEF CallType
<1>6. op' = [op EXCEPT ![b] = o] BY <1>1 DEF LogEntry, CallType
<1> HIDE DEF o
<1>7. op'[b] = o /\ \A d \in Boards \ {b} : op'[d] = op[d] BY <1>1, <1>5, <1>6, CallPut
<1>8. nadds[Base] \in 0..LogSize BY <1>1, <1>4
<1>9. /\ log' \in [Boards -> [1..LogSize -> Verps \union {Null}]]
      /\ j \in 1..LogSize => log'[Base][j] = e
      /\ \A i \in 1..LogSize : i # j => log'[Base][i] = log[Base][i]
      /\ \A c \in Boards \ {Base} : log'[c] = log[c]
  <2> HIDE DEF e, j
  <2>1. log[Base] \in [1..LogSize -> Verps \union {Null}] BY <1>1, <1>4
  <2>2. log' = [log EXCEPT ![Base] = [log[Base] EXCEPT ![j] = e]] BY <1>2
  <2>3. [log[Base] EXCEPT ![j] = e] \in [1..LogSize -> Verps \union {Null}] BY <2>1, <1>4
  <2>4. log'[Base] = [log[Base] EXCEPT ![j] = e] /\ \A c \in Boards \ {Base} : log'[c] = log[c]
    BY <1>1, <1>4, <2>2
  <2> QED BY <1>1, <2>1, <2>2, <2>3, <2>4
<1>10. Counted' = Counted
  <2>1. MapsOf(Base)' = MapsOf(Base) BY <1>2 DEF MapsOf
  <2>2. \A c \in Boards : op'[c].verp = op[c].verp /\
           (op[c].pc \in {"entry", "ref", "set"} <=> op'[c].pc \in {"entry", "ref", "set"})
    BY <1>2, <1>5, <1>7
  <2> QED BY <2>1, <2>2, CountedKept
<1>11. Counted \subseteq Verps
  <2>1. \A c \in Boards : op[c].pc \in {"entry", "ref", "set"} => op[c].verp \in Verps
    BY NewVerpIsEmpty DEF Inserting
  <2> QED BY <2>1 DEF Counted, MapsOf
<1>12. e \in Counted BY <1>2 DEF Counted
<1>13. ASSUME NEW s \in Bijection(1..nadds[Base], Counted), \A i \in 1..nadds[Base] : SlotOf(s[i], i),
              NEW i \in 1..nadds[Base]
       PROVE  SlotOf(s[i], i)'
  <2>1. s[i] \in Counted BY DEF Bijection, Injection
  <2>2. PICK h \in 1..nadds[Base] : s[h] = e BY <1>12 DEF Bijection, Surjection
  <2>3. h = j BY <2>2, <1>2, <1>4, <1>13 DEF SlotOf
  <2>4. i \in 1..LogSize /\ h \in 1..LogSize
    <3>1. \A m \in 1..nadds[Base] : m \in 1..LogSize BY <1>4, <1>8
    <3> QED BY <3>1
  <2>5. CASE i = h
    <3>1. s[i] = e /\ log'[Base][i] = e BY <2>2, <2>3, <2>4, <2>5, <1>9
    <3> QED BY <3>1, <1>4, <1>5, <1>7 DEF SlotOf
  <2>6. CASE i # h
    <3>1. s[i] # e BY <2>2, <2>6 DEF Bijection, Injection, IsInjective
    <3>2. log'[Base][i] = log[Base][i] BY <2>3, <2>4, <2>6, <1>9
    <3>3. SlotOf(s[i], i) /\ s[i][2] \in Boards BY <1>11, <1>13, <2>1, Pairs
    <3>4. CASE s[i][2] = b
      <4>1. log[Base][i] = s[i] BY <3>1, <3>3, <3>4 DEF SlotOf
      <4>2. ~ (op'[s[i][2]].pc = "entry" /\ op'[s[i][2]].verp = s[i]) BY <3>4, <1>5, <1>7
      <4> QED BY <4>1, <4>2, <3>2 DEF SlotOf
    <3>5. CASE s[i][2] # b
      <4>1. op'[s[i][2]] = op[s[i][2]] BY <3>3, <3>5, <1>7
      <4> QED BY <4>1, <3>2, <3>3 DEF SlotOf
    <3> QED BY <3>4, <3>5
  <2> QED BY <2>5, <2>6
<1>14. BaseLogInv'
  <2>1. nadds'[Base] = nadds[Base] /\ open' = open BY <1>2
  <2> QED BY <2>1, <1>1, <1>10, <1>13 DEF BaseLogInv
<1>15. CountInv'
  <2>1. Setting' = Setting BY <1>2, <1>5, <1>7 DEF Setting
  <2>2. \A c \in Boards : MapsOf(c)' = MapsOf(c) /\ Children(c)' = Children(c) BY <1>2 DEF MapsOf, Children
  <2> QED BY <2>1, <2>2, <1>1, <1>2 DEF CountInv, Own, Due
<1>16. /\ node' = node /\ map' = map /\ parent' = parent /\ open' = open /\ want' = want
       /\ rfcnt' = rfcnt /\ nadds' = nadds
  BY <1>2
<1>17. op[b].pc \in {"count", "entry", "ref"} /\ o.pc \in {"entry", "ref", "set"} BY <1>2, <1>5
<1>18. \A c \in Boards \ {Base} : rfcnt'[c] = rfcnt[c] /\ nadds'[c] = nadds[c] /\ log'[c] = log[c]
  BY <1>9, <1>16
<1> QED BY <1>1, <1>5, <1>6, <1>9, <1>10, <1>14, <1>15, <1>16, <1>17, <1>18, AddStep

(* The reference is that of a mapping about to be.                         *)
LEMMA GetRefInv ==
  ASSUME XVInv, NEW b \in Boards, GetRef(b)
  PROVE  XVInv'
<1> DEFINE o == [op[b] EXCEPT !.pc = "set"]
<1>1. /\ TypeOK /\ TreeInv /\ CountInv /\ op \in [Boards -> CallType] /\ op[b] \in CallType
      /\ nadds \in [Boards -> 0..LogSize] /\ rfcnt \in [Boards -> Nat]
      /\ log \in [Boards -> [1..LogSize -> Verps \union {Null}]]
  BY Parts, Types
<1>2. /\ op[b].pc = "ref" /\ rfcnt' = [rfcnt EXCEPT ![Base] = @ + 1]
      /\ node' = node /\ map' = map /\ parent' = parent /\ open' = open /\ want' = want
      /\ nadds' = nadds /\ log' = log
  BY DEF GetRef
<1>3. op[b].pc \in Inserting /\ op[b].pc \in InCall BY <1>2 DEF Inserting, InCall
<1>4. Base \in open /\ Base \in Boards /\ Base \in Alive /\ b # Base
  BY <1>1, <1>3, CallFacts, NewVerpIsEmpty, Nulls DEF TreeInv
<1>5. /\ o \in CallType /\ o.pc = "set" /\ o.node = op[b].node /\ o.verp = op[b].verp /\ o.at = op[b].at
      /\ o.writes = op[b].writes
  BY <1>1 DEF CallType, Inserting
<1>6. op' = [op EXCEPT ![b] = o] BY DEF GetRef
<1> HIDE DEF o
<1>7. op'[b] = o /\ \A d \in Boards \ {b} : op'[d] = op[d] BY <1>1, <1>5, <1>6, CallPut
<1>8. /\ rfcnt' \in [Boards -> Nat] /\ rfcnt'[Base] = rfcnt[Base] + 1
      /\ \A c \in Boards \ {Base} : rfcnt'[c] = rfcnt[c]
      /\ \A c \in Boards : rfcnt'[c] > 0 <=> rfcnt[c] > 0
  <2>1. rfcnt[Base] > 0 /\ rfcnt[Base] \in Nat BY <1>1, <1>4 DEF Alive
  <2>2. /\ rfcnt' \in [Boards -> Nat] /\ rfcnt'[Base] = rfcnt[Base] + 1
        /\ \A c \in Boards \ {Base} : rfcnt'[c] = rfcnt[c]
    BY <1>1, <1>2, <1>4
  <2>3. rfcnt'[Base] > 0 BY <2>1, <2>2
  <2> QED BY <2>1, <2>2, <2>3
<1>9. Counted' = Counted
  <2>1. MapsOf(Base)' = MapsOf(Base) BY <1>2 DEF MapsOf
  <2>2. \A c \in Boards : op'[c].verp = op[c].verp /\
           (op[c].pc \in {"entry", "ref", "set"} <=> op'[c].pc \in {"entry", "ref", "set"})
    BY <1>2, <1>5, <1>7
  <2> QED BY <2>1, <2>2, CountedKept
<1>10. BaseLogInv'
  <2>1. \A c \in Boards : op[c].pc = "entry" \/ op'[c].pc = "entry" => op'[c] = op[c]
    BY <1>2, <1>5, <1>7
  <2> QED BY <2>1, <1>2, <1>4, <1>9, BaseLogKept
<1>11. Setting' = Setting \union {b} /\ b \notin Setting BY <1>2, <1>5, <1>7 DEF Setting
<1>12. IsFiniteSet(Setting) BY <1>1, <1>4, CountFacts
<1>13. Cardinality(Setting') = Cardinality(Setting) + 1 BY <1>11, <1>12, FS_AddElement
<1>14. CountInv'
  <2> SUFFICES ASSUME NEW c \in Boards
               PROVE  rfcnt'[c] = Own(c)' + Cardinality(MapsOf(c))' + Due(c)' + Cardinality(Children(c))'
    BY DEF CountInv
  <2>1. Own(c)' = Own(c) /\ MapsOf(c)' = MapsOf(c) /\ Children(c)' = Children(c)
    BY <1>2, <1>8 DEF Own, MapsOf, Children
  <2>2. /\ rfcnt[c] = Own(c) + Cardinality(MapsOf(c)) + Due(c) + Cardinality(Children(c))
        /\ Own(c) \in {0, 1} /\ Cardinality(MapsOf(c)) \in Nat /\ Cardinality(Children(c)) \in Nat
        /\ Cardinality(Setting) \in Nat /\ Due(c) \in Nat
    BY <1>1, CountFacts
  <2>3. CASE c = Base
    <3>1. Due(c)' = Due(c) + 1 BY <2>3, <1>13 DEF Due
    <3> QED BY <2>1, <2>2, <2>3, <3>1, <1>8
  <2>4. CASE c # Base
    <3>1. Due(c)' = Due(c) BY <2>4 DEF Due
    <3> QED BY <2>1, <2>2, <2>4, <3>1, <1>8
  <2> QED BY <2>3, <2>4
<1>15. op[b].pc \in {"count", "entry", "ref"} /\ o.pc \in {"entry", "ref", "set"} BY <1>2, <1>5
<1> QED BY <1>1, <1>2, <1>5, <1>6, <1>8, <1>9, <1>10, <1>14, <1>15, AddStep

(* The base is mapped to what it holds at the node, as long as no other    *)
(* board has marked the node.                                              *)
LEMMA SetMapInv ==
  ASSUME XVInv, NEW b \in Boards, SetMap(b)
  PROVE  XVInv'
<1> DEFINE n == op[b].node
           e == op[b].verp
           p == [op[b] EXCEPT !.verp = Null]
           x == Chunk(p)
           o == [op[b] EXCEPT !.pc = "mark"]
<1>1. /\ TypeOK /\ TreeInv /\ CountInv /\ LogInv /\ MapInv /\ CallInv(b)
      /\ op \in [Boards -> CallType] /\ op[b] \in CallType /\ node \in [Nodes -> NodeType]
      /\ map \in [Verps -> [Boards -> Contents \union {Null}]]
  BY Parts, Types
<1>2. op[b].pc = "set" BY DEF SetMap
<1>3. op[b].pc \in Inserting /\ op[b].pc \in InCall BY <1>2 DEF Inserting, InCall
<1>4. /\ b \in open /\ n \in Nodes /\ op[b].at \in Above(parent, b) /\ Base \in open /\ Base \in Boards
      /\ e \in Verps /\ e = <<n, b>> /\ e[1] = n /\ e[2] = b /\ e # Null
      /\ op[b].writes /\ Children(b) = {} /\ b # Base /\ op[b].at = Base
      /\ \A c \in Boards : map[e][c] = Null
  BY <1>3, CallFacts, NewVerpIsEmpty, Nulls, Pairs
<1>5. x \in Contents /\ x # Null /\ (node[n].verp = Null => x = node[n].val)
  <2>1. p.at = Base /\ p.verp = Null /\ p.node = n BY <1>1, <1>4 DEF CallType
  <2> HIDE DEF p
  <2>2. CASE node[n].verp = Null
    <3>1. x = node[n].val BY <2>1, <2>2, <1>4, Nulls DEF Chunk
    <3>2. node[n].val # Null /\ node[n].val \in Contents \union {Null} BY <2>2, <1>1, <1>4 DEF MapInv, NodeType
    <3> QED BY <3>1, <3>2, Nulls
  <2>3. CASE node[n].verp # Null
    <3>1. x = map[node[n].verp][Base] BY <2>1, <2>3, <1>4, Nulls DEF Chunk, VerpmapGet
    <3>2. node[n].verp \in Verps /\ map[node[n].verp][Base] # Null BY <2>3, <1>1, <1>4 DEF MapInv, NodeType
    <3> QED BY <2>3, <3>1, <3>2, <1>1, <1>4
  <2> QED BY <2>2, <2>3
<1>6. /\ map' = [map EXCEPT ![e][Base] = x] /\ op' = [op EXCEPT ![b] = o]
      /\ node' = node /\ nadds' = nadds /\ log' = log /\ parent' = parent /\ rfcnt' = rfcnt
      /\ open' = open /\ want' = want
  BY DEF SetMap, VerpmapSet
<1> HIDE DEF x
<1>7. /\ map' \in [Verps -> [Boards -> Contents \union {Null}]] /\ map'[e][Base] = x
      /\ \A f \in Verps, c \in Boards : f # e \/ c # Base => map'[f][c] = map[f][c]
  BY <1>1, <1>4, <1>5, <1>6
<1>8. /\ o \in CallType /\ o.pc = "mark" /\ o.node = n /\ o.verp = e /\ o.at = Base /\ o.writes
  BY <1>1, <1>4 DEF CallType
<1> HIDE DEF o
<1>9. op' \in [Boards -> CallType] /\ op'[b] = o /\ \A d \in Boards \ {b} : op'[d] = op[d]
  BY <1>1, <1>6, <1>8, CallPut
<1>10. TypeOK'
  <2>1. /\ node' \in [Nodes -> NodeType] /\ parent' \in [Boards -> Boards \union {Null}]
        /\ open' \subseteq Boards /\ want' \in [Boards -> [Nodes -> Contents]]
        /\ rfcnt' \in [Boards -> Nat] /\ nadds' \in [Boards -> 0..LogSize]
        /\ log' \in [Boards -> [1..LogSize -> Verps \union {Null}]]
    BY <1>1, <1>6, Types
  <2> QED BY <1>7, <1>9, <2>1, TypesNext
<1>11. Alive' = Alive /\ \A c \in Boards : Children(c)' = Children(c) BY <1>6 DEF Alive, Children
<1>12. TreeInv' BY <1>1, <1>6, <1>11 DEF TreeInv
<1>13. /\ MapsOf(Base)' = MapsOf(Base) \union {e} /\ e \notin MapsOf(Base)
       /\ \A c \in Boards \ {Base} : MapsOf(c)' = MapsOf(c)
  BY <1>4, <1>5, <1>7 DEF MapsOf
<1>14. Cardinality(MapsOf(Base)') = Cardinality(MapsOf(Base)) + 1
  <2>1. IsFiniteSet(MapsOf(Base)) BY <1>1, CountedFinite
  <2> QED BY <2>1, <1>13, FS_AddElement
<1>15. Setting' = Setting \ {b} /\ b \in Setting BY <1>2, <1>8, <1>9 DEF Setting
<1>16. Cardinality(Setting') = Cardinality(Setting) - 1
  BY <1>1, <1>4, <1>15, CountFacts, FS_RemoveElement
<1>17. Counted' = Counted
  <2> DEFINE D == {d \in Boards : op[d].pc \in {"entry", "ref", "set"}}
  <2>1. D = D' \union {b} BY <1>2, <1>8, <1>9
  <2>2. \A d \in D : op'[d].verp = op[d].verp BY <1>8, <1>9
  <2>3. {op[c].verp : c \in D} = {op'[c].verp : c \in D'} \union {e} BY <2>1, <2>2
  <2> QED BY <2>3, <1>13 DEF Counted
<1>18. CountInv'
  <2> SUFFICES ASSUME NEW c \in Boards
               PROVE  rfcnt'[c] = Own(c)' + Cardinality(MapsOf(c))' + Due(c)' + Cardinality(Children(c))'
    BY DEF CountInv
  <2>1. Own(c)' = Own(c) /\ Children(c)' = Children(c) /\ rfcnt'[c] = rfcnt[c] BY <1>6, <1>11 DEF Own
  <2>2. /\ rfcnt[c] = Own(c) + Cardinality(MapsOf(c)) + Due(c) + Cardinality(Children(c)) /\ Due(c) \in Nat
        /\ Own(c) \in {0, 1} /\ Cardinality(MapsOf(c)) \in Nat /\ Cardinality(Children(c)) \in Nat
        /\ Cardinality(Setting) \in Nat
    BY <1>1, CountFacts
  <2>3. CASE c = Base
    <3>1. Due(c)' = Due(c) - 1 BY <2>2, <2>3, <1>16 DEF Due
    <3> QED BY <2>1, <2>2, <2>3, <3>1, <1>14
  <2>4. CASE c # Base
    <3>1. Due(c)' = Due(c) BY <2>4 DEF Due
    <3> QED BY <2>1, <2>2, <2>4, <3>1, <1>13
  <2> QED BY <2>3, <2>4
<1>19. LogInv'
  <2>1. \A c \in Boards : op[c].pc = "entry" \/ op'[c].pc = "entry" => op'[c] = op[c]
    BY <1>2, <1>8, <1>9
  <2>2. BaseLogInv' BY <2>1, <1>4, <1>6, <1>17, BaseLogKept
  <2>3. ASSUME NEW c \in Alive, c # Base
        PROVE  nadds'[c] = Cardinality(MapsOf(c)') /\ Logged(c)' = MapsOf(c)'
    <3>1. c \in Boards BY DEF Alive
    <3>2. nadds[c] = Cardinality(MapsOf(c)) /\ Logged(c) = MapsOf(c) BY <1>1, <2>3 DEF LogInv
    <3>3. Logged(c)' = Logged(c) BY <1>6 DEF Logged
    <3> QED BY <3>1, <3>2, <3>3, <2>3, <1>6, <1>13
  <2> QED BY <2>2, <2>3, <1>11 DEF LogInv
<1>20. \A m \in Nodes : node[m].verp # Null => node[m].verp \in Verps /\ node[m].verp # e
  <2> SUFFICES ASSUME NEW m \in Nodes, node[m].verp # Null PROVE node[m].verp \in Verps /\ node[m].verp # e
    OBVIOUS
  <2>1. node[m].verp \in Verps BY <1>1 DEF NodeType
  <2>2. map[node[m].verp][Base] # Null BY <1>1, <1>4 DEF MapInv
  <2> QED BY <2>1, <2>2, <1>4
<1>21. MapInv'
  <2>1. \A m \in Nodes : node[m].verp # Null => map'[node[m].verp][Base] # Null
    BY <1>1, <1>4, <1>7, <1>20 DEF MapInv
  <2>2. ASSUME NEW f \in Verps, NEW c \in Boards, map'[f][c] # Null
        PROVE  /\ map'[f][Base] # Null
               /\ node[f[1]].verp # Null \/ (op'[f[2]].pc = "mark" /\ op'[f[2]].verp = f)
    <3>1. CASE f = e
      <4>1. map'[f][Base] # Null BY <3>1, <1>5, <1>7
      <4>2. op'[f[2]].pc = "mark" /\ op'[f[2]].verp = f BY <3>1, <1>4, <1>8, <1>9
      <4> QED BY <4>1, <4>2
    <3>2. CASE f # e
      <4>1. map[f][c] # Null /\ map'[f][Base] = map[f][Base] BY <2>2, <3>2, <1>4, <1>7
      <4>2. /\ map[f][Base] # Null
            /\ node[f[1]].verp # Null \/ (op[f[2]].pc = "mark" /\ op[f[2]].verp = f)
        BY <4>1, <1>1, <1>4 DEF MapInv
      <4>3. op[f[2]].pc = "mark" => op'[f[2]] = op[f[2]] BY <1>2, <1>9, Pairs
      <4> QED BY <4>1, <4>2, <4>3
    <3> QED BY <3>1, <3>2
  <2> QED BY <2>1, <2>2, <1>1, <1>6 DEF MapInv
<1>22. \A m \in Nodes : Contested(m) => Contested(m)'
  <2>1. \A f \in Verps : map[f][Base] # Null => map'[f][Base] # Null BY <1>4, <1>7
  <2>2. map'[e][Base] # Null BY <1>5, <1>7
  <2> QED BY <2>1, <2>2, <1>9, AllocatedStays
<1>23. \A d \in Boards \ {b} : CallInv(d)'
  <2>1. \A f \in Verps, c \in Boards : map[f][c] # Null => map'[f][c] # Null BY <1>4, <1>7
  <2>2. OnlySides(b)
    BY <2>1, <1>2, <1>3, <1>4, <1>6, <1>7, <1>9, <1>11, <1>17, <1>22 DEF OnlySides
  <2> QED BY <2>2, <1>3, <1>4, OthersKept
<1>24. CallInv(b)'
  <2>1. ~ Contested(n) => node[n].verp = Null BY <1>1, <1>3 DEF CallInv
  <2>2. ~ Contested(n)' => /\ node'[n].verp = Null /\ map'[e][Base] = node'[n].val
                           /\ \A c \in Boards \ {Base} : map'[e][c] = Null
    BY <2>1, <1>4, <1>5, <1>6, <1>7, <1>8, <1>9, <1>22
  <2>3. Children(b)' = {} /\ b \in open' /\ Base \in Above(parent', b) BY <1>4, <1>6, <1>11
  <2>4. map'[e][Base] # Null /\ map'[e][b] = Null BY <1>4, <1>5, <1>7
  <2> QED BY <2>2, <2>3, <2>4, <1>4, <1>8, <1>9 DEF CallInv, InCall, Inserting
<1>25. HoldInv'
  <2>1. PICK held \in [Boards -> [Nodes -> Contents]] : Holds(held) BY Parts
  <2>2. ASSUME NEW c \in Alive, NEW m \in Nodes, ~ Contested(m)' PROVE HoldsAt(held, c, m)'
    <3>1. c \in Boards /\ HoldsAt(held, c, m) BY <1>22, <2>1, <2>2 DEF Holds, Alive
    <3>2. node[m].verp # Null => map'[node[m].verp][c] = map[node[m].verp][c] BY <3>1, <1>7, <1>20
    <3> QED BY <3>1, <3>2, <1>6 DEF HoldsAt
  <2>3. ASSUME NEW d \in Boards, op'[d].pc \in InCall, ~ Contested(op[d].node)'
        PROVE  held[op'[d].at][op'[d].node] = held[d][op'[d].node]
    <3>1. op[d].pc \in InCall /\ op'[d].at = op[d].at /\ op'[d].node = op[d].node
      BY <2>3, <1>3, <1>4, <1>8, <1>9
    <3>2. op[d].node \in Nodes BY <3>1, CallFacts
    <3>3. ~ Contested(op[d].node) BY <2>3, <3>1, <3>2, <1>22
    <3> QED BY <3>1, <3>3, <2>1 DEF Holds
  <2>4. \A d \in open : held[d] = want[d] BY <2>1 DEF Holds
  <2>5. Holds(held)' BY <2>2, <2>3, <2>4, <1>6, <1>11 DEF Holds
  <2> QED BY <2>5 DEF HoldInv
<1>26. NothingLeaks'
  <2>1. \A c \in ChildrenFirst \ open : c \in Boards \ {Base} BY <1>4, Nulls
  <2> QED BY <2>1, <1>6, <1>13, Parts DEF NothingLeaks
<1> QED BY <1>10, <1>12, <1>18, <1>19, <1>21, <1>23, <1>24, <1>25, <1>26 DEF XVInv

(* The new verp takes the place of the pointer: the base finds in it what  *)
(* it held, and everybody else by way of the base.                         *)
LEMMA MarkInv ==
  ASSUME XVInv, NEW b \in Boards, Mark(b)
  PROVE  XVInv'
<1> DEFINE n == op[b].node
           e == op[b].verp
           o == [op[b] EXCEPT !.pc = "have"]
<1>1. /\ TypeOK /\ TreeInv /\ CountInv /\ LogInv /\ MapInv /\ NothingLeaks /\ CallInv(b)
      /\ op \in [Boards -> CallType] /\ op[b] \in CallType /\ node \in [Nodes -> NodeType]
  BY Parts, Types
<1>2. /\ op[b].pc = "mark" /\ node' = [node EXCEPT ![n] = [verp |-> e, val |-> Null]]
      /\ op' = [op EXCEPT ![b] = o]
      /\ map' = map /\ nadds' = nadds /\ log' = log /\ parent' = parent /\ rfcnt' = rfcnt
      /\ open' = open /\ want' = want
  BY DEF Mark
<1>3. op[b].pc \in InCall /\ op[b].pc \notin Inserting BY <1>2 DEF Inserting, InCall
<1>4. /\ b \in open /\ n \in Nodes /\ op[b].at \in Above(parent, b) /\ Base \in open /\ Base \in Boards
      /\ b \in Alive
  BY <1>3, CallFacts, Nulls
<1>5. /\ e = <<n, b>> /\ op[b].writes /\ Children(b) = {} /\ b # Base /\ op[b].at = Base
      /\ map[e][Base] # Null /\ map[e][b] = Null
      /\ ~ Contested(n) => /\ node[n].verp = Null /\ map[e][Base] = node[n].val
                           /\ \A c \in Boards \ {Base} : map[e][c] = Null
  <2>1. e = <<n, b>> /\ op[b].writes /\ b # Base /\ op[b].at = Base BY <1>1, <1>2 DEF CallInv
  <2>2. Children(b) = {} BY <1>1, <2>1 DEF CallInv
  <2>3. map[e][Base] # Null /\ map[e][b] = Null BY <1>1, <1>2 DEF CallInv
  <2>4. ASSUME ~ Contested(n)
        PROVE  /\ node[n].verp = Null /\ map[e][Base] = node[n].val
               /\ \A c \in Boards \ {Base} : map[e][c] = Null
    BY <1>1, <1>2, <2>4 DEF CallInv
  <2> QED BY <2>1, <2>2, <2>3, <2>4
<1>6. e \in Verps /\ e[1] = n /\ e[2] = b /\ e # Null BY <1>4, <1>5, Pairs, Nulls
<1>7. /\ node' \in [Nodes -> NodeType] /\ node'[n].verp = e /\ \A m \in Nodes \ {n} : node'[m] = node[m]
  <2> DEFINE y == [verp |-> e, val |-> Null]
  <2>1. y \in NodeType /\ y.verp = e BY <1>6 DEF NodeType
  <2> HIDE DEF y, e, n
  <2> QED BY <2>1, <1>1, <1>2, <1>4 DEF y
<1>8. /\ o \in CallType /\ o.pc = "have" /\ o.node = n /\ o.verp = e /\ o.at = Base /\ o.writes
  BY <1>1, <1>5 DEF CallType
<1> HIDE DEF o
<1>9. op' \in [Boards -> CallType] /\ op'[b] = o /\ \A d \in Boards \ {b} : op'[d] = op[d]
  BY <1>1, <1>2, <1>8, CallPut
<1>10. TypeOK'
  <2>1. /\ map' \in [Verps -> [Boards -> Contents \union {Null}]]
        /\ parent' \in [Boards -> Boards \union {Null}]
        /\ open' \subseteq Boards /\ want' \in [Boards -> [Nodes -> Contents]]
        /\ rfcnt' \in [Boards -> Nat] /\ nadds' \in [Boards -> 0..LogSize]
        /\ log' \in [Boards -> [1..LogSize -> Verps \union {Null}]]
    BY <1>1, <1>2, Types
  <2> QED BY <1>7, <1>9, <2>1, TypesNext
<1>11. /\ Alive' = Alive
       /\ \A c \in Boards : Children(c)' = Children(c) /\ MapsOf(c)' = MapsOf(c) /\ Logged(c)' = Logged(c)
  BY <1>2 DEF Alive, Children, MapsOf, Logged
<1>12. TreeInv' BY <1>1, <1>2, <1>11 DEF TreeInv
<1>13. Setting' = Setting BY <1>2, <1>8, <1>9 DEF Setting
<1>14. CountInv' BY <1>1, <1>2, <1>11, <1>13 DEF CountInv, Own, Due
<1>15. Counted' = Counted
  <2>1. \A c \in Boards : op'[c].verp = op[c].verp /\
           (op[c].pc \in {"entry", "ref", "set"} <=> op'[c].pc \in {"entry", "ref", "set"})
    BY <1>2, <1>8, <1>9
  <2> QED BY <2>1, <1>4, <1>11, CountedKept
<1>16. LogInv'
  <2>1. \A c \in Boards : op[c].pc = "entry" \/ op'[c].pc = "entry" => op'[c] = op[c]
    BY <1>2, <1>8, <1>9
  <2>2. BaseLogInv' BY <2>1, <1>2, <1>4, <1>15, BaseLogKept
  <2>3. \A c \in Alive : c \in Boards BY DEF Alive
  <2> QED BY <2>2, <2>3, <1>1, <1>2, <1>11 DEF LogInv
<1>17. MapInv'
  <2>1. \A m \in Nodes : IF node'[m].verp = Null THEN node'[m].val # Null ELSE node'[m].verp[1] = m
    <3> SUFFICES ASSUME NEW m \in Nodes
                 PROVE  IF node'[m].verp = Null THEN node'[m].val # Null ELSE node'[m].verp[1] = m
      OBVIOUS
    <3>1. CASE m = n BY <3>1, <1>6, <1>7
    <3>2. CASE m # n BY <3>2, <1>1, <1>7 DEF MapInv
    <3> QED BY <3>1, <3>2
  <2>2. \A m \in Nodes : node'[m].verp # Null => map[node'[m].verp][Base] # Null
    BY <1>1, <1>4, <1>5, <1>7 DEF MapInv
  <2>3. ASSUME NEW f \in Verps, NEW c \in Boards, map[f][c] # Null
        PROVE  /\ map[f][Base] # Null
               /\ node'[f[1]].verp # Null \/ (op'[f[2]].pc = "mark" /\ op'[f[2]].verp = f)
    <3>1. /\ map[f][Base] # Null
          /\ node[f[1]].verp # Null \/ (op[f[2]].pc = "mark" /\ op[f[2]].verp = f)
          /\ f[1] \in Nodes /\ f[2] \in Boards
      BY <2>3, <1>1, <1>4, Pairs DEF MapInv
    <3>2. CASE f[1] = n BY <3>1, <3>2, <1>6, <1>7
    <3>3. CASE f[1] # n
      <4>1. op[f[2]].verp = f => f[2] # b BY <3>3, <1>6
      <4> QED BY <3>1, <3>3, <4>1, <1>7, <1>9
    <3> QED BY <3>2, <3>3
  <2> QED BY <2>1, <2>2, <2>3, <1>2 DEF MapInv
<1>18. \A m \in Nodes : Contested(m) => Contested(m)' BY <1>2, <1>3, <1>9, AllocatedStays
<1>19. \A d \in Boards \ {b} : CallInv(d)'
  <2>1. \A m \in Nodes : node'[m] = node[m] \/ (m = n /\ node'[m].verp = e) BY <1>7
  <2>2. OnlySides(b) BY <2>1, <1>2, <1>9, <1>11, <1>15, <1>18 DEF OnlySides
  <2> QED BY <2>2, <1>3, <1>5, OthersKept
<1>20. CallInv(b)'
  <2>1. Children(b)' = {} /\ b \in open' /\ Base \in Above(parent', b) BY <1>2, <1>4, <1>5, <1>11
  <2>2. map'[e][Base] # Null /\ map'[e][b] = Null /\ node'[n].verp = e BY <1>2, <1>5, <1>7
  <2> QED BY <2>1, <2>2, <1>4, <1>5, <1>6, <1>8, <1>9 DEF CallInv, InCall, Inserting
<1>21. HoldInv'
  <2>1. PICK held \in [Boards -> [Nodes -> Contents]] : Holds(held) BY Parts
  <2>2. ASSUME NEW c \in Alive, NEW m \in Nodes, ~ Contested(m)' PROVE HoldsAt(held, c, m)'
    <3>1. c \in Boards /\ HoldsAt(held, c, m) /\ ~ Contested(m) BY <1>18, <2>1, <2>2 DEF Holds, Alive
    <3>2. CASE m # n BY <3>1, <3>2, <1>2, <1>7 DEF HoldsAt
    <3>3. CASE m = n
      <4>1. /\ node[n].verp = Null /\ map[e][Base] = node[n].val
            /\ \A d \in Boards \ {Base} : map[e][d] = Null
        BY <3>1, <3>3, <1>5
      <4>2. held[c][n] = node[n].val BY <3>1, <3>3, <4>1 DEF HoldsAt
      <4>3. CASE c = Base BY <3>3, <4>1, <4>2, <4>3, <1>2, <1>5, <1>6, <1>7 DEF HoldsAt
      <4>4. CASE c # Base
        <5>1. parent[c] \in Alive /\ parent[c] # Null BY <4>4, <1>1, Nulls DEF TreeInv, Alive
        <5>2. HoldsAt(held, parent[c], n) BY <5>1, <3>1, <3>3, <1>4, <2>1 DEF Holds
        <5>3. held[parent[c]][n] = node[n].val BY <5>2, <4>1 DEF HoldsAt
        <5>4. map'[e][c] = Null BY <3>1, <4>1, <4>4, <1>2
        <5> QED BY <3>3, <4>2, <5>1, <5>3, <5>4, <1>2, <1>6, <1>7 DEF HoldsAt
      <4> QED BY <4>3, <4>4
    <3> QED BY <3>2, <3>3
  <2>3. ASSUME NEW d \in Boards, op'[d].pc \in InCall, ~ Contested(op[d].node)'
        PROVE  held[op'[d].at][op'[d].node] = held[d][op'[d].node]
    <3>1. op[d].pc \in InCall /\ op'[d].at = op[d].at /\ op'[d].node = op[d].node
      BY <2>3, <1>3, <1>5, <1>8, <1>9
    <3>2. op[d].node \in Nodes BY <3>1, CallFacts
    <3>3. ~ Contested(op[d].node) BY <2>3, <3>1, <3>2, <1>18
    <3> QED BY <3>1, <3>3, <2>1 DEF Holds
  <2>4. \A d \in open : held[d] = want[d] BY <2>1 DEF Holds
  <2>5. Holds(held)' BY <2>2, <2>3, <2>4, <1>2, <1>11 DEF Holds
  <2> QED BY <2>5 DEF HoldInv
<1>22. NothingLeaks'
  <2>1. BaseLogLost' <=> BaseLogLost BY <1>2, <1>4, <1>11 DEF BaseLogLost
  <2>2. \A c \in ChildrenFirst \ open : c \in Boards BY Nulls
  <2> QED BY <2>1, <2>2, <1>1, <1>2, <1>11 DEF NothingLeaks
<1> QED BY <1>10, <1>12, <1>14, <1>16, <1>17, <1>19, <1>20, <1>21, <1>22 DEF XVInv

(* A board that writes has no children, so no other version sees it; when  *)
(* it is the base and writes to a pointer that is not marked, there is no  *)
(* other version.                                                          *)
LEMMA ValPut ==
  ASSUME NEW r \in NodeType, NEW x \in Contents
  PROVE  /\ [r EXCEPT !.val = x] \in NodeType
         /\ [r EXCEPT !.val = x].verp = r.verp /\ [r EXCEPT !.val = x].val = x
BY DEF NodeType

LEMMA WriteInv ==
  ASSUME XVInv, NEW b \in Boards, NEW val \in Vals, Write(b, val)
  PROVE  XVInv'
<1> DEFINE n == op[b].node
           e == op[b].verp
<1>1. /\ TypeOK /\ TreeInv /\ CountInv /\ LogInv /\ MapInv /\ NothingLeaks /\ CallInv(b)
      /\ val \in Contents /\ val # Null /\ op \in [Boards -> CallType] /\ node \in [Nodes -> NodeType]
      /\ map \in [Verps -> [Boards -> Contents \union {Null}]] /\ want \in [Boards -> [Nodes -> Contents]]
  BY Parts, Types, Nulls DEF Contents
<1>2. /\ op[b].pc = "got" /\ op[b].writes
      /\ nadds' = nadds /\ log' = log /\ parent' = parent /\ rfcnt' = rfcnt /\ open' = open /\ op' = op
      /\ want' = [want EXCEPT ![b][n] = val]
  BY DEF Write
<1>3. op[b].pc \in InCall /\ op[b].pc \notin Inserting BY <1>2 DEF InCall, Inserting
<1>4. /\ b \in open /\ b \in Alive /\ Base \in open /\ n \in Nodes /\ op[b].at \in Above(parent, b)
      /\ Base \in Boards
  BY <1>3, CallFacts, Nulls
<1>5. /\ Children(b) = {}
      /\ \/ e = Null /\ b = Base /\ op[b].at = b /\ node[n].verp = Null
         \/ /\ e \in Verps /\ e # Null /\ e[1] = n /\ op[b].at = b /\ map[e][b] # Null /\ map[e][Base] # Null
            /\ ~ Contested(n) => e = node[n].verp
  <2>1. Children(b) = {} BY <1>1, <1>2 DEF CallInv
  <2>2. CASE e = Null
    <3>1. op[b].at = Base /\ b = Base /\ node[n].verp = Null BY <1>1, <1>2, <2>2 DEF CallInv
    <3> QED BY <2>1, <2>2, <3>1
  <2>3. CASE e # Null
    <3>1. e \in Verps BY <1>1, <2>3 DEF CallType
    <3>2. e[1] = n /\ map[e][Base] # Null /\ (~ Contested(n) => e = node[n].verp)
      BY <1>1, <1>2, <2>3 DEF CallInv
    <3>3. op[b].at = b /\ map[e][b] # Null
      <4>1. map[e][op[b].at] # Null /\ op[b].at = b BY <1>1, <1>2, <2>3 DEF CallInv
      <4> QED BY <4>1
    <3> QED BY <2>1, <2>3, <3>1, <3>2, <3>3
  <2> QED BY <2>2, <2>3
(* What changes of the pointers and the maps. *)
<1>6. /\ node' \in [Nodes -> NodeType] /\ map' \in [Verps -> [Boards -> Contents \union {Null}]]
      /\ \A m \in Nodes : node'[m].verp = node[m].verp
      /\ \A m \in Nodes \ {n} : node'[m] = node[m]
      /\ e # Null => node' = node
      /\ e = Null => node'[n].val = val
      /\ \A f \in Verps, c \in Boards : f # e \/ c # b => map'[f][c] = map[f][c]
      /\ e # Null => map'[e][b] = val
  <2>1. CASE e = Null
    <3>1. node' = [node EXCEPT ![n].val = val] /\ map' = map BY <2>1 DEF Write
    <3>2. [node[n] EXCEPT !.val = val] \in NodeType /\ [node[n] EXCEPT !.val = val].verp = node[n].verp
          /\ [node[n] EXCEPT !.val = val].val = val
      <4>1. node[n] \in NodeType BY <1>1, <1>4
      <4> QED BY <4>1, <1>1, ValPut
    <3>3. node' = [node EXCEPT ![n] = [node[n] EXCEPT !.val = val]] BY <3>1
    <3> HIDE DEF n, e
    <3> QED BY <2>1, <3>1, <3>2, <3>3, <1>1, <1>4
  <2>2. CASE e # Null
    <3>1. node' = node /\ map' = [map EXCEPT ![e][b] = val] BY <2>2, <1>5 DEF Write
    <3> HIDE DEF n, e
    <3> QED BY <2>2, <3>1, <1>1, <1>5
  <2> QED BY <2>1, <2>2
<1>7. \A f \in Verps, c \in Boards : map'[f][c] # Null <=> map[f][c] # Null
  <2> SUFFICES ASSUME NEW f \in Verps, NEW c \in Boards PROVE map'[f][c] # Null <=> map[f][c] # Null
    OBVIOUS
  <2>1. CASE f = e /\ c = b
    <3>1. f # Null BY Nulls
    <3> QED BY <3>1, <2>1, <1>1, <1>5, <1>6
  <2>2. CASE f # e \/ c # b BY <2>2, <1>6
  <2> QED BY <2>1, <2>2
<1>8. want' \in [Boards -> [Nodes -> Contents]] /\ want'[b] = [want[b] EXCEPT ![n] = val]
      /\ \A d \in Boards \ {b} : want'[d] = want[d]
  <2> HIDE DEF n
  <2> QED BY <1>1, <1>2, <1>4
<1>9. TypeOK'
  <2>1. /\ parent' \in [Boards -> Boards \union {Null}] /\ op' \in [Boards -> CallType]
        /\ open' \subseteq Boards /\ rfcnt' \in [Boards -> Nat] /\ nadds' \in [Boards -> 0..LogSize]
        /\ log' \in [Boards -> [1..LogSize -> Verps \union {Null}]]
    BY <1>1, <1>2, Types
  <2> QED BY <1>6, <1>8, <2>1, TypesNext
<1>10. /\ Alive' = Alive /\ Alive \subseteq Boards
       /\ \A c \in Boards : Children(c)' = Children(c) /\ MapsOf(c)' = MapsOf(c) /\ Logged(c)' = Logged(c)
  BY <1>2, <1>7 DEF Alive, Children, MapsOf, Logged
<1>11. TreeInv' BY <1>1, <1>2, <1>10 DEF TreeInv
<1>12. Setting' = Setting /\ Counted' = Counted
  <2>1. Setting' = Setting BY <1>2 DEF Setting
  <2>2. Counted' = Counted BY <1>2, <1>4, <1>10, CountedKept
  <2> QED BY <2>1, <2>2
<1>13. CountInv' BY <1>1, <1>2, <1>10, <1>12 DEF CountInv, Own, Due
<1>14. LogInv'
  <2>1. BaseLogInv' BY <1>2, <1>4, <1>12, BaseLogKept
  <2> QED BY <2>1, <1>1, <1>2, <1>10 DEF LogInv
<1>15. MapInv'
  <2>1. \A m \in Nodes : IF node'[m].verp = Null THEN node'[m].val # Null ELSE node'[m].verp[1] = m
    <3> SUFFICES ASSUME NEW m \in Nodes
                 PROVE  IF node'[m].verp = Null THEN node'[m].val # Null ELSE node'[m].verp[1] = m
      OBVIOUS
    <3>1. IF node[m].verp = Null THEN node[m].val # Null ELSE node[m].verp[1] = m BY <1>1 DEF MapInv
    <3>2. node'[m].verp = node[m].verp BY <1>6
    <3>3. node'[m].val = node[m].val \/ node'[m].val = val BY <1>6
    <3> QED BY <3>1, <3>2, <3>3, <1>1
  <2>2. \A m \in Nodes : node'[m].verp # Null => map'[node'[m].verp][Base] # Null
    <3> SUFFICES ASSUME NEW m \in Nodes, node[m].verp # Null PROVE map'[node[m].verp][Base] # Null
      BY <1>6
    <3>1. node[m].verp \in Verps BY <1>1 DEF NodeType
    <3> QED BY <3>1, <1>1, <1>4, <1>7 DEF MapInv
  <2>3. ASSUME NEW f \in Verps, NEW c \in Boards, map'[f][c] # Null
        PROVE  /\ map'[f][Base] # Null
               /\ node'[f[1]].verp # Null \/ (op'[f[2]].pc = "mark" /\ op'[f[2]].verp = f)
    <3>1. /\ map[f][Base] # Null
          /\ node[f[1]].verp # Null \/ (op[f[2]].pc = "mark" /\ op[f[2]].verp = f)
      BY <2>3, <1>1, <1>4, <1>7 DEF MapInv
    <3>2. f[1] \in Nodes BY Pairs
    <3> QED BY <3>1, <3>2, <1>2, <1>4, <1>6, <1>7
  <2> QED BY <2>1, <2>2, <2>3 DEF MapInv
<1>16. \A m \in Nodes : Contested(m) => Contested(m)' BY <1>2, <1>3, <1>4, <1>7, AllocatedStays
<1>17. CallInv(b)'
  <2>1. Undisturbed(b)
    <3>1. op'[b] = op[b] /\ open' = open /\ Children(b)' = Children(b) /\ parent' = parent BY <1>2, <1>10
    <3>2. ~ Contested(n)' => ~ Contested(n) BY <1>2, <1>4, <1>16
    <3>3. e # Null => /\ map'[e][Base] # Null /\ map'[e][b] # Null
                      /\ ~ Contested(n)' => e = node'[n].verp
      BY <3>2, <1>1, <1>4, <1>5, <1>6, <1>7
    <3>4. e = Null => node'[n].verp = Null BY <1>4, <1>5, <1>6
    <3> QED BY <3>1, <3>2, <3>3, <3>4, <1>2, <1>3, <1>4, <1>5 DEF Undisturbed
  <2> QED BY <2>1, CallKept
<1>18. \A d \in Boards \ {b} : CallInv(d)'
  <2>1. CASE b # Base
    <3>1. e # Null BY <2>1, <1>5
    <3>2. \A m \in Nodes : node'[m] = node[m] BY <3>1, <1>6
    <3>3. OnlySides(b) BY <2>1, <3>2, <1>2, <1>3, <1>4, <1>6, <1>7, <1>10, <1>12, <1>16 DEF OnlySides
    <3> QED BY <2>1, <3>3, <1>3, OthersKept
  <2>2. CASE b = Base
    <3> SUFFICES ASSUME NEW d \in Boards \ {b} PROVE CallInv(d)' OBVIOUS
    <3>1. Alive \subseteq {Base} BY <1>1, <1>5, <2>2, TreeFacts
    <3>2. d \notin open BY <3>1, <2>2, <1>1 DEF TreeInv
    <3>3. CallInv(d) BY Parts
    <3>4. op[d].pc = "idle" /\ ~ op[d].writes BY <3>2, <3>3, Types, <1>1 DEF CallInv, CallType, InCall, Inserting
    <3> QED BY <3>4, <1>2 DEF CallInv, InCall, Inserting
  <2> QED BY <2>1, <2>2
<1>19. HoldInv'
  <2>1. PICK held \in [Boards -> [Nodes -> Contents]] : Holds(held) BY Parts
  <2> PICK held2 : held2 = [held EXCEPT ![b] = [held[b] EXCEPT ![op[b].node] = val]] OBVIOUS
  <2>2. /\ held2 \in [Boards -> [Nodes -> Contents]] /\ held2[b][n] = val
        /\ held2[b] = [held[b] EXCEPT ![n] = val]
        /\ \A c \in Boards \ {b} : held2[c] = held[c]
        /\ \A c \in Boards, m \in Nodes : c # b \/ m # n => held2[c][m] = held[c][m]
    <3>1. held[b] \in [Nodes -> Contents] OBVIOUS
    <3>2. [held[b] EXCEPT ![n] = val] \in [Nodes -> Contents] BY <3>1, <1>1
    <3> QED BY <3>1, <3>2, <1>4
  <2>3. ASSUME NEW d \in open PROVE held2[d] = want'[d]
    <3>1. held[d] = want[d] /\ d \in Boards BY <2>1, <1>1 DEF Holds, TypeOK
    <3> QED BY <3>1, <2>2, <1>8
  <2>4. ASSUME NEW c \in Alive, c # b PROVE parent[c] # b /\ parent[c] \in Boards \union {Null} /\ e # Null
    <3>1. c \in Boards /\ parent[c] \in Boards \union {Null} BY <1>1, Types DEF Alive
    <3>2. parent[c] # b BY <3>1, <1>1, <1>5, TreeFacts
    <3>3. b = Base => Alive \subseteq {Base} BY <1>1, <1>5, TreeFacts
    <3> QED BY <3>1, <3>2, <3>3, <2>4, <1>5
  <2>5. ASSUME NEW c \in Alive, NEW m \in Nodes, ~ Contested(m)' PROVE HoldsAt(held2, c, m)'
    <3>1. /\ c \in Boards /\ node[m].verp \in Verps \union {Null} /\ node'[m].verp = node[m].verp
          /\ ~ Contested(m) /\ HoldsAt(held, c, m) /\ parent[c] \in Boards \union {Null}
      BY <1>1, <1>6, <1>10, <1>16, <2>1, <2>5, Types DEF NodeType, Holds
    <3>2. CASE c = b /\ m = n
      <4>1. CASE e = Null
        <5>1. node'[m].verp = Null /\ node'[m].val = val BY <3>2, <4>1, <1>4, <1>5, <1>6
        <5> QED BY <5>1, <3>2, <2>2 DEF HoldsAt
      <4>2. CASE e # Null
        <5>1. node'[m].verp = e /\ map'[e][c] = val BY <3>1, <3>2, <4>2, <1>5, <1>6
        <5> QED BY <5>1, <3>2, <4>2, <2>2, <1>1 DEF HoldsAt
      <4> QED BY <4>1, <4>2
    <3>3. CASE c # b \/ m # n
      <4>1. node[m].verp # Null => map'[node[m].verp][c] = map[node[m].verp][c]
        <5>1. ASSUME node[m].verp # Null, node[m].verp = e PROVE m = n
          <6>1. node[m].verp[1] = m BY <5>1, <1>1 DEF MapInv
          <6>2. e[1] = n BY <5>1, <1>5
          <6> QED BY <5>1, <6>1, <6>2
        <5> QED BY <5>1, <3>1, <3>3, <1>6
      <4>2. node'[m] = node[m]
        <5>1. CASE m # n BY <5>1, <1>6
        <5>2. CASE c # b BY <5>2, <2>4, <1>6
        <5> QED BY <5>1, <5>2, <3>3
      <4>3. held2[c][m] = held[c][m] /\ (parent[c] # Null => held2[parent[c]][m] = held[parent[c]][m])
        <5>1. CASE m # n BY <5>1, <3>1, <2>2
        <5>2. CASE c # b BY <5>2, <3>1, <2>2, <2>4
        <5> QED BY <5>1, <5>2, <3>3
      <4> QED BY <3>1, <4>1, <4>2, <4>3, <1>2 DEF HoldsAt
    <3> QED BY <3>2, <3>3
  <2>6. ASSUME NEW d \in Boards, op[d].pc \in InCall, ~ Contested(op[d].node)'
        PROVE  held2[op[d].at][op[d].node] = held2[d][op[d].node]
    <3>1. op[d].node \in Nodes /\ op[d].at \in Above(parent, d) /\ op[d].at \in Boards
      BY <2>6, CallFacts
    <3>2. CASE d = b BY <3>2, <1>5
    <3>3. CASE d # b
      <4>1. op[d].at # b BY <3>1, <3>3, <1>1, <1>5, TreeFacts
      <4>2. ~ Contested(op[d].node) BY <2>6, <3>1, <1>2, <1>16
      <4>3. held[op[d].at][op[d].node] = held[d][op[d].node] BY <2>1, <2>6, <4>2 DEF Holds
      <4> QED BY <3>1, <3>3, <4>1, <4>3, <2>2
    <3> QED BY <3>2, <3>3
  <2>7. Holds(held2)' BY <2>3, <2>5, <2>6, <1>2, <1>10 DEF Holds
  <2> QED BY <2>2, <2>7 DEF HoldInv
<1>20. NothingLeaks'
  <2>1. \A c \in ChildrenFirst : c \in Boards BY Nulls
  <2>2. BaseLogLost' <=> BaseLogLost BY <1>2, <1>4, <1>10 DEF BaseLogLost
  <2> QED BY <2>1, <2>2, <1>1, <1>2, <1>10 DEF NothingLeaks
<1> QED BY <1>9, <1>11, <1>13, <1>14, <1>15, <1>17, <1>18, <1>19, <1>20 DEF XVInv

-----------------------------------------------------------------------------
(* Leaving *)

(* A board goes, with its mappings if nobody is below it (Collect), without*)
(* them otherwise (Keep).  The base goes when nobody else is there.        *)
LEMMA LeaveInv ==
  ASSUME XVInv, NEW b \in open, NEW k \in Nat \ {0}, PutRefs(b, k), rfcnt[b] >= k,
         rfcnt[b] = k => Children(b) = {}, b = Base => Children(b) = {},
         op[b].pc \in {"collect", "keep"},
         open' = open \ {b}, op' = [op EXCEPT ![b] = NoOp], want' = [want EXCEPT ![b] = NoWants],
         node' = node, nadds' = nadds, log' = log,
         map' \in [Verps -> [Boards -> Contents \union {Null}]],
         \A f \in Verps : \A c \in Boards \ {b} : map'[f][c] = map[f][c],
         \/ /\ k = 1 /\ (b \in ChildrenFirst => b = Base /\ BaseLogLost)
            /\ \A f \in Verps : map'[f][b] = map[f][b]
         \/ /\ k = Cardinality(MapsOf(b)) + 1 /\ rfcnt[b] = k
            /\ \A f \in Verps : map'[f][b] = Null
  PROVE  XVInv'
<1> DEFINE Keeps == /\ k = 1 /\ (b \in ChildrenFirst => b = Base /\ BaseLogLost)
                    /\ \A f \in Verps : map'[f][b] = map[f][b]
           Clears == /\ k = Cardinality(MapsOf(b)) + 1 /\ rfcnt[b] = k
                     /\ \A f \in Verps : map'[f][b] = Null
<1>1. /\ TypeOK /\ TreeInv /\ CountInv /\ LogInv /\ MapInv /\ NothingLeaks
      /\ op \in [Boards -> CallType] /\ node \in [Nodes -> NodeType]
      /\ rfcnt \in [Boards -> Nat] /\ want \in [Boards -> [Nodes -> Contents]]
  BY Parts, Types
<1>2. b \in Boards /\ b \in Alive /\ Base \in open /\ Base \in Boards /\ open \subseteq Alive /\ open \subseteq Boards
  BY <1>1, BoardInUse, Nulls DEF TreeInv, TypeOK
<1>3. PICK S \in SUBSET Alive : IsRelease(b, k, S) BY <1>1, Release
<1>4. /\ TreeInv' /\ parent' \in [Boards -> Boards \union {Null}]
      /\ \A d \in open' : \A v \in Above(parent, d) : v \in Above(parent', d)
      /\ \A v \in Boards : Children(v)' = Children(v) \ S
      /\ \A c \in Alive' : parent'[c] = parent[c]
  BY <1>1, <1>3, ReleaseTree
<1>5. /\ rfcnt' \in [Boards -> Nat] /\ Alive' = Alive \ S /\ rfcnt'[b] = rfcnt[b] - k
      /\ \A v \in Boards \ {b} : rfcnt'[v] = rfcnt[v] - Cardinality(S \intersect Children(v))
      /\ S \intersect Children(b) = {}
  BY <1>3 DEF IsRelease
<1>6. Keeps \/ Clears OBVIOUS
<1>7. \A v \in Boards \ {b} : MapsOf(v)' = MapsOf(v) BY DEF MapsOf
<1>8. (Keeps => MapsOf(b)' = MapsOf(b)) /\ (Clears => MapsOf(b)' = {}) BY DEF MapsOf
<1>9. Clears => Children(b) = {} /\ rfcnt'[b] = 0 /\ b \notin Alive' BY <1>1, <1>2, <1>5 DEF Alive
<1>10. Keeps => /\ \A f \in Verps : map'[f][b] = map[f][b]
                /\ b \in ChildrenFirst => b = Base /\ BaseLogLost
  OBVIOUS
<1>11. \/ k = 1 /\ MapsOf(b)' = MapsOf(b)
       \/ k = Cardinality(MapsOf(b)) + 1 /\ MapsOf(b)' = {}
  BY <1>6, <1>8
<1>12. \A f \in Verps, c \in Boards : map'[f][c] # Null => map[f][c] # Null
  BY <1>6, <1>10
<1> HIDE DEF Keeps, Clears
<1>13. NoOp \in CallType /\ NoOp.pc = "idle" /\ ~ NoOp.writes
  <2>1. 0 \in 0..LogSize BY Nulls
  <2> QED BY <2>1 DEF NoOp, CallType
<1>14. op' \in [Boards -> CallType] /\ op'[b] = NoOp /\ \A d \in Boards \ {b} : op'[d] = op[d]
  BY <1>1, <1>2, <1>13, CallPut
<1>15. Setting' = Setting BY <1>13, <1>14 DEF Setting
<1>16. CountInv' BY <1>1, <1>3, <1>7, <1>11, <1>15, ReleaseCounts
<1>17. want' \in [Boards -> [Nodes -> Contents]] /\ \A d \in Boards \ {b} : want'[d] = want[d]
  BY <1>1 DEF NoWants, Contents
<1>18. TypeOK'
  <2>1. /\ node' \in [Nodes -> NodeType] /\ nadds' \in [Boards -> 0..LogSize] /\ open' \subseteq Boards
        /\ log' \in [Boards -> [1..LogSize -> Verps \union {Null}]]
    BY <1>1, <1>2, Types
  <2> QED BY <1>4, <1>5, <1>14, <1>17, <2>1, TypesNext
<1>19. \A c \in Alive' : c \in Boards /\ c \in Alive /\ MapsOf(c)' = MapsOf(c)
                         /\ \A f \in Verps : map'[f][c] = map[f][c]
  <2> SUFFICES ASSUME NEW c \in Alive'
               PROVE  c \in Boards /\ c \in Alive /\ MapsOf(c)' = MapsOf(c)
                      /\ \A f \in Verps : map'[f][c] = map[f][c]
    OBVIOUS
  <2>1. c \in Boards /\ c \in Alive BY <1>5 DEF Alive
  <2>2. c = b => Keeps BY <1>6, <1>9
  <2> QED BY <2>1, <2>2, <1>7, <1>8, <1>10
(* If the base leaves there is nobody else. *)
<1>20. b = Base => open' = {} /\ Adding = {} /\ Adding' = {} /\ \A d \in Boards : op'[d].pc = "idle"
  <2> SUFFICES ASSUME b = Base PROVE open' = {} /\ Adding = {} /\ Adding' = {} /\ \A d \in Boards : op'[d].pc = "idle"
    OBVIOUS
  <2>1. open' = {} BY <1>1, <1>2, TreeFacts
  <2>2. Adding = {} BY NobodyAdds
  <2>3. \A d \in Boards : op'[d].pc = "idle"
    <3> SUFFICES ASSUME NEW d \in Boards, d # b PROVE op'[d].pc = "idle" BY <1>13, <1>14
    <3>1. d \notin open BY <2>1
    <3>2. CallInv(d) BY Parts
    <3> QED BY <3>1, <3>2, <1>14 DEF CallInv
  <2> QED BY <2>1, <2>2, <2>3 DEF Adding, Inserting
<1>21. b # Base => Counted' = Counted
  <2> DEFINE D == {d \in Boards : op[d].pc \in {"entry", "ref", "set"}}
  <2>1. D' = D /\ b \notin D BY <1>13, <1>14
  <2>2. {op'[c].verp : c \in D'} = {op[c].verp : c \in D} BY <1>14, <2>1
  <2> QED BY <2>2, <1>2, <1>7 DEF Counted
<1>22. LogInv'
  <2>1. BaseLogInv'
    <3>1. CASE b = Base BY <3>1 DEF BaseLogInv
    <3>2. CASE b # Base
      <4>1. \A c \in Boards : op[c].pc = "entry" \/ op'[c].pc = "entry" => op'[c] = op[c]
        BY <1>13, <1>14
      <4> QED BY <4>1, <3>2, <1>2, <1>21, BaseLogKept
    <3> QED BY <3>1, <3>2
  <2>2. ASSUME NEW c \in Alive', c # Base
        PROVE  nadds'[c] = Cardinality(MapsOf(c)') /\ Logged(c)' = MapsOf(c)'
    <3>1. c \in Alive /\ MapsOf(c)' = MapsOf(c) BY <1>19
    <3>2. Logged(c)' = Logged(c) BY DEF Logged
    <3> QED BY <2>2, <3>1, <3>2, <1>1 DEF LogInv
  <2> QED BY <2>1, <2>2 DEF LogInv
<1>23. MapInv'
  <2>1. CASE b = Base BY <2>1, <1>1 DEF MapInv
  <2>2. CASE b # Base
    <3>1. \A f \in Verps : map'[f][Base] = map[f][Base] BY <2>2, <1>2
    <3>2. \A m \in Nodes : node[m].verp # Null => map'[node[m].verp][Base] # Null
      <4> SUFFICES ASSUME NEW m \in Nodes, node[m].verp # Null PROVE map'[node[m].verp][Base] # Null
        OBVIOUS
      <4>1. node[m].verp \in Verps BY <1>1 DEF NodeType
      <4> QED BY <4>1, <3>1, <1>1, <1>2 DEF MapInv
    <3>3. ASSUME NEW f \in Verps, NEW c \in Boards, map'[f][c] # Null
          PROVE  /\ map'[f][Base] # Null
                 /\ node[f[1]].verp # Null \/ (op'[f[2]].pc = "mark" /\ op'[f[2]].verp = f)
      <4>1. /\ map[f][Base] # Null
            /\ node[f[1]].verp # Null \/ (op[f[2]].pc = "mark" /\ op[f[2]].verp = f)
        BY <3>3, <1>1, <1>2, <1>12 DEF MapInv
      <4>2. op[f[2]].pc = "mark" => op'[f[2]] = op[f[2]] BY <1>14, Pairs
      <4> QED BY <4>1, <4>2, <3>1
    <3> QED BY <3>2, <3>3, <1>1 DEF MapInv
  <2> QED BY <2>1, <2>2
<1>24. ASSUME b # Base \/ Keeps PROVE \A m \in Nodes : Contested(m) => Contested(m)'
  <2>1. \A f \in Verps : map'[f][Base] = map[f][Base] BY <1>2, <1>10, <1>24
  <2>2. op[b].pc \notin Inserting BY DEF Inserting
  <2> QED BY <2>1, <2>2, <1>2, <1>14, AllocatedStays
<1>25. ASSUME NEW d \in Boards PROVE CallInv(d)'
  <2>1. CASE d = b BY <2>1, <1>13, <1>14 DEF CallInv, InCall, Inserting
  <2>2. CASE d # b /\ op[d].pc = "idle"
    <3>1. ~ op[d].writes
      <4>1. CallInv(d) BY Parts
      <4> QED BY <4>1, <2>2, <1>1 DEF CallInv, InCall, Inserting
    <3> QED BY <3>1, <2>2, <1>14 DEF CallInv, InCall, Inserting
  <2>3. CASE d # b /\ op[d].pc # "idle"
    <3>1. CallInv(d) /\ op'[d] = op[d] BY <2>3, <1>14, Parts
    <3>2. d \in open /\ d \in open' BY <2>3, <3>1 DEF CallInv
    <3>3. b # Base BY <3>2, <1>20
    <3>4. \A m \in Nodes : Contested(m) => Contested(m)' BY <3>3, <1>24
    <3>5. Children(d)' \subseteq Children(d) BY <1>4
    <3>6. op[d].pc = "collect" => /\ rfcnt'[d] = rfcnt[d] /\ Logged(d)' = Logged(d) /\ MapsOf(d)' = MapsOf(d)
      <4> SUFFICES ASSUME op[d].pc = "collect"
                   PROVE  rfcnt'[d] = rfcnt[d] /\ Logged(d)' = Logged(d) /\ MapsOf(d)' = MapsOf(d)
        OBVIOUS
      <4>1. S \intersect Children(d) = {} BY <3>1 DEF CallInv
      <4>2. Cardinality(S \intersect Children(d)) = 0 BY <4>1, FS_EmptySet
      <4>3. rfcnt'[d] = rfcnt[d] - 0 BY <4>2, <2>3, <1>5
      <4>4. rfcnt[d] \in Nat BY <1>1
      <4>5. rfcnt'[d] = rfcnt[d] BY <4>3, <4>4
      <4>6. Logged(d)' = Logged(d) BY DEF Logged
      <4> QED BY <4>5, <4>6, <2>3, <1>7
    <3>7. ~ (op[d].pc = "keep" /\ d \in ChildrenFirst)
      <4>1. op[Base].pc # "keep" BY <3>3, BaseIsParent
      <4> QED BY <4>1, <3>1 DEF CallInv
    <3>8. op[d].pc \in InCall => /\ op[d].node \in Nodes /\ op[d].at \in Above(parent, d)
                                 /\ op[d].at \in Boards /\ op[d].at \in Above(parent', d)
      BY <3>2, <1>4, CallFacts
    <3>9. \A f \in Verps : map'[f][Base] = map[f][Base] /\ map'[f][d] = map[f][d] BY <2>3, <3>3, <1>2
    <3>10. ASSUME op[d].pc \in {"walk", "have", "got"}, op[d].verp # Null
           PROVE  /\ op[d].verp \in Verps
                  /\ map[op[d].verp][op[d].at] # Null => map'[op[d].verp][op[d].at] # Null
      <4>1. op[d].verp \in Verps BY <3>10, <1>1 DEF CallType
      <4>2. op[d].at \in Boards /\ op[d].at \in Above(parent, d) BY <3>8, <3>10 DEF InCall
      <4>3. op[d].at = b => Keeps BY <4>2, <2>3, <1>1, <1>6, <1>9, TreeFacts
      <4> QED BY <4>1, <4>2, <4>3, <1>10
    <3>11. op[d].pc \in Inserting \union {"mark"} => op[d].verp \in Verps
      <4> SUFFICES ASSUME op[d].pc \in Inserting \union {"mark"} PROVE op[d].verp \in Verps OBVIOUS
      <4>1. op[d].verp = <<op[d].node, d>> BY <3>1 DEF CallInv
      <4>2. op[d].node \in Nodes BY <3>8 DEF InCall
      <4> QED BY <4>1, <4>2, Pairs
    <3>12. Counted' = Counted /\ nadds'[Base] = nadds[Base] BY <3>3, <1>21
    <3>13. Undisturbed(d)
      <4>1. op[d].pc \in InCall => op[d].at \in Above(parent', d) /\ (~ Contested(op[d].node)' => ~ Contested(op[d].node))
        BY <3>1, <3>4, <3>8
      <4>2. ASSUME op[d].pc \in {"walk", "have", "got"}, op[d].verp # Null
            PROVE  /\ map'[op[d].verp][Base] # Null /\ (~ Contested(op[d].node)' => op[d].verp = node'[op[d].node].verp)
                   /\ map[op[d].verp][d] = Null => map'[op[d].verp][d] = Null
                   /\ map[op[d].verp][op[d].at] # Null => map'[op[d].verp][op[d].at] # Null
        <5>1. map[op[d].verp][Base] # Null /\ (~ Contested(op[d].node) => op[d].verp = node[op[d].node].verp)
          BY <3>1, <4>2 DEF CallInv
        <5> QED BY <5>1, <4>1, <4>2, <3>9, <3>10 DEF InCall
      <4>3. op[d].pc \in Inserting => map'[op[d].verp][Base] = Null
        <5>1. op[d].pc \in Inserting => map[op[d].verp][Base] = Null BY <3>1 DEF CallInv
        <5> QED BY <5>1, <3>9, <3>11
      <4>4. ASSUME op[d].pc = "mark"
            PROVE  /\ map'[op[d].verp][Base] = map[op[d].verp][Base] /\ map'[op[d].verp][d] = map[op[d].verp][d]
                   /\ ~ Contested(op[d].node)' => \A c \in Boards \ {Base} : map'[op[d].verp][c] = Null
        <5>1. ~ Contested(op[d].node) => \A c \in Boards \ {Base} : map[op[d].verp][c] = Null
          BY <3>1, <4>4 DEF CallInv
        <5> QED BY <5>1, <4>1, <4>4, <3>9, <3>11, <1>12 DEF InCall
      <4>5. op[d].pc = "got" /\ op[d].writes /\ op[d].verp = Null => node'[op[d].node].verp = Null
        BY <3>1 DEF CallInv
      <4> QED BY <4>1, <4>2, <4>3, <4>4, <4>5, <3>1, <3>2, <3>5, <3>6, <3>7, <3>12 DEF Undisturbed
    <3> QED BY <3>13, CallKept
  <2> QED BY <2>1, <2>2, <2>3
<1>26. HoldInv'
  <2>1. PICK held \in [Boards -> [Nodes -> Contents]] : Holds(held) BY Parts
  <2>2. ASSUME NEW c \in Alive', NEW m \in Nodes, ~ Contested(m)' PROVE HoldsAt(held, c, m)'
    <3>1. c \in Alive /\ parent'[c] = parent[c] BY <1>4, <1>19
    <3>2. b # Base \/ Keeps
      <4>1. b = Base => Alive \subseteq {Base} BY <1>1, TreeFacts
      <4> QED BY <4>1, <3>1, <2>2, <1>6, <1>9
    <3>3. HoldsAt(held, c, m) BY <3>1, <3>2, <2>1, <2>2, <1>24 DEF Holds
    <3>4. node[m].verp # Null => map'[node[m].verp][c] = map[node[m].verp][c] BY <1>1, <1>19 DEF NodeType
    <3> QED BY <3>1, <3>3, <3>4 DEF HoldsAt
  <2>3. ASSUME NEW d \in Boards, op'[d].pc \in InCall, ~ Contested(op[d].node)'
        PROVE  held[op'[d].at][op'[d].node] = held[d][op'[d].node]
    <3>1. d # b /\ op'[d] = op[d] BY <2>3, <1>13, <1>14 DEF InCall, Inserting
    <3>2. b # Base BY <2>3, <1>20 DEF InCall, Inserting
    <3>3. op[d].node \in Nodes BY <2>3, <3>1, CallFacts
    <3>4. ~ Contested(op[d].node) BY <2>3, <3>1, <3>2, <3>3, <1>24
    <3> QED BY <3>1, <3>4, <2>1, <2>3 DEF Holds
  <2>4. \A d \in open' : held[d] = want'[d] BY <2>1, <1>2, <1>17 DEF Holds
  <2>5. Holds(held)' BY <2>2, <2>3, <2>4 DEF Holds
  <2> QED BY <2>5 DEF HoldInv
<1>27. NothingLeaks'
  <2> SUFFICES ASSUME NEW c \in ChildrenFirst, c \notin open'
               PROVE  (rfcnt'[c] = 0 /\ MapsOf(c)' = {}) \/ (c = Base /\ BaseLogLost')
    BY DEF NothingLeaks
  <2>1. c \in Boards BY Nulls
  <2>2. CASE c = b
    <3>1. CASE Keeps
      <4>1. b = Base /\ BaseLogLost BY <2>2, <3>1, <1>10
      <4>2. MapsOf(Base)' = MapsOf(Base) BY <3>1, <4>1, <1>8
      <4> QED BY <4>1, <4>2, <2>2 DEF BaseLogLost
    <3>2. CASE Clears BY <2>2, <3>2, <1>8, <1>9
    <3> QED BY <3>1, <3>2, <1>6
  <2>3. CASE c # b
    <3>1. c \notin open BY <2>3
    <3>2. rfcnt[c] = 0 /\ MapsOf(c) = {} BY <3>1, <1>1, <1>2 DEF NothingLeaks
    <3>3. c \notin Alive' BY <3>2, <1>5 DEF Alive
    <3>4. rfcnt'[c] = 0 BY <2>1, <3>3, <1>5 DEF Alive
    <3> QED BY <2>1, <2>3, <3>2, <3>4, <1>7
  <2> QED BY <2>2, <2>3
<1> QED BY <1>4, <1>16, <1>18, <1>22, <1>23, <1>25, <1>26, <1>27 DEF XVInv

LEMMA CollectInv ==
  ASSUME XVInv, NEW b \in Boards, Collect(b)
  PROVE  XVInv'
<1> DEFINE k == nadds[b] + 1
<1>1. /\ TypeOK /\ CallInv(b) /\ map \in [Verps -> [Boards -> Contents \union {Null}]]
      /\ nadds \in [Boards -> 0..LogSize] /\ LogSize \in Nat
  BY Parts, Types, Nulls
<1>2. op[b].pc = "collect" BY DEF Collect
<1>3. /\ b \in open /\ Children(b) = {} /\ rfcnt[b] = k /\ Logged(b) = MapsOf(b)
      /\ Cardinality(MapsOf(b)) = nadds[b]
  BY <1>1, <1>2 DEF CallInv
<1>4. nadds[b] \in 0..LogSize /\ k = Cardinality(MapsOf(b)) + 1 BY <1>1, <1>3
<1>5. k \in Nat \ {0} BY <1>1, <1>4
<1>6. /\ map' \in [Verps -> [Boards -> Contents \union {Null}]]
      /\ \A f \in Verps : \A c \in Boards \ {b} : map'[f][c] = map[f][c]
      /\ \A f \in Verps : map'[f][b] = Null
  <2>1. map' = [f \in Verps |-> IF f \in MapsOf(b) THEN [map[f] EXCEPT ![b] = Null] ELSE map[f]]
    BY <1>3 DEF Collect, VerpmapRemove
  <2> QED BY <2>1, <1>1 DEF MapsOf
<1>7. /\ PutRefs(b, k) /\ open' = open \ {b} /\ op' = [op EXCEPT ![b] = NoOp]
      /\ want' = [want EXCEPT ![b] = NoWants] /\ node' = node /\ nadds' = nadds /\ log' = log
  BY DEF Collect
<1> HIDE DEF k
<1>8. rfcnt[b] >= k BY <1>3, <1>5
<1> QED BY <1>2, <1>3, <1>4, <1>5, <1>6, <1>7, <1>8, LeaveInv

LEMMA KeepInv ==
  ASSUME XVInv, NEW b \in Boards, Keep(b)
  PROVE  XVInv'
<1>1. TypeOK /\ CountInv /\ CallInv(b) /\ map \in [Verps -> [Boards -> Contents \union {Null}]]
  BY Parts, Types
<1>2. op[b].pc = "keep" BY DEF Keep
<1>3. b \in open /\ (b \in ChildrenFirst => b = Base /\ Children(b) = {} /\ BaseLogLost)
  BY <1>1, <1>2 DEF CallInv
<1>4. rfcnt[b] >= 1 /\ (rfcnt[b] = 1 => Children(b) = {})
  <2>1. Own(b) = 1 BY <1>3 DEF Own
  <2> DEFINE p == Cardinality(MapsOf(b))
             u == Due(b)
             m == Cardinality(Children(b))
             z == rfcnt[b]
  <2>2. /\ p \in Nat /\ u \in Nat /\ m \in Nat /\ z = 1 + p + u + m /\ (m = 0 <=> Children(b) = {})
    BY <2>1, <1>1, CountFacts
  <2> HIDE DEF p, u, m, z
  <2>3. z >= 1 /\ (z = 1 => m = 0) BY <2>2
  <2> QED BY <2>2, <2>3 DEF z
<1>5. /\ PutRefs(b, 1) /\ open' = open \ {b} /\ op' = [op EXCEPT ![b] = NoOp]
      /\ want' = [want EXCEPT ![b] = NoWants] /\ node' = node /\ nadds' = nadds /\ log' = log /\ map' = map
  BY DEF Keep
<1>6. /\ map' \in [Verps -> [Boards -> Contents \union {Null}]]
      /\ \A f \in Verps : \A c \in Boards \ {b} : map'[f][c] = map[f][c]
      /\ \A f \in Verps : map'[f][b] = map[f][b]
  BY <1>1, <1>5
<1>7. 1 \in Nat \ {0} /\ op[b].pc \in {"collect", "keep"} /\ 1 = 1 BY <1>2
<1>8. b = Base => Children(b) = {} BY <1>3, Nulls
<1> QED BY <1>3, <1>4, <1>5, <1>6, <1>7, <1>8, LeaveInv

-----------------------------------------------------------------------------
(* The theorems *)

LEMMA InitInv ==
  ASSUME Init
  PROVE  XVInv
<1>1. /\ Base \in Boards /\ Null \notin Boards /\ Null \notin Contents /\ InitVal \in Contents
      /\ ChildrenFirst \subseteq Boards /\ LogSize \in Nat
  BY Nulls DEF Contents
<1>2. TypeOK
  <2>1. /\ node \in [Nodes -> NodeType] /\ map \in [Verps -> [Boards -> Contents \union {Null}]]
        /\ parent \in [Boards -> Boards \union {Null}] /\ rfcnt \in [Boards -> Nat] /\ open \subseteq Boards
        /\ want \in [Boards -> [Nodes -> Contents]]
    BY <1>1 DEF Init, EmptyMap, NoWants, NodeType
  <2>2. 0 \in 0..LogSize BY <1>1
  <2>3. nadds \in [Boards -> 0..LogSize] /\ log \in [Boards -> [1..LogSize -> Verps \union {Null}]]
    BY <2>2 DEF Init, EmptyLog
  <2>4. op \in [Boards -> CallType] BY <2>2 DEF Init, NoOp, CallType
  <2> QED BY <2>1, <2>3, <2>4 DEF TypeOK, CallType, NodeType
<1>3. Alive = {Base} /\ \A b \in Boards : Children(b) = {} /\ MapsOf(b) = {}
  BY <1>1, Nulls DEF Init, Alive, Children, MapsOf, EmptyMap
<1>4. \A b \in Boards : op[b].pc = "idle" /\ ~ op[b].writes BY DEF Init, NoOp
<1>5. TreeInv
  <2>1. open \subseteq Alive /\ Base \in open /\ parent[Base] = Null /\ \A c \in Boards : parent[c] = Null
    BY <1>1, <1>3 DEF Init
  <2> QED BY <2>1, <1>3 DEF TreeInv
<1>6. Setting = {} /\ Counted = {} BY <1>1, <1>3, <1>4 DEF Setting, Counted
<1>7. CountInv
  <2> SUFFICES ASSUME NEW b \in Boards
               PROVE  rfcnt[b] = Own(b) + Cardinality(MapsOf(b)) + Due(b) + Cardinality(Children(b))
    BY DEF CountInv
  <2>1. rfcnt[b] = Own(b) /\ Own(b) \in Nat BY DEF Init, Own
  <2>2. Cardinality(MapsOf(b)) = 0 /\ Due(b) = 0 /\ Cardinality(Children(b)) = 0
    BY <1>3, <1>6, FS_EmptySet DEF Due
  <2> QED BY <2>1, <2>2
<1>8. LogInv
  <2>1. nadds[Base] = 0 /\ Cardinality(Counted) = 0 BY <1>1, <1>6, FS_EmptySet DEF Init
  <2>2. \E s \in Bijection(1..nadds[Base], Counted) : \A i \in 1..nadds[Base] : SlotOf(s[i], i)
    <3> DEFINE s == [i \in {} |-> Null]
    <3>1. 1..nadds[Base] = {} BY <2>1
    <3>2. s \in Bijection({}, {}) BY DEF Bijection, Injection, Surjection, IsInjective
    <3> HIDE DEF s
    <3> QED BY <3>1, <3>2, <1>6
  <2>3. BaseLogInv BY <2>1, <2>2 DEF BaseLogInv
  <2> QED BY <2>3, <1>3 DEF LogInv
<1>9. MapInv
  <2>1. \A n \in Nodes : node[n].verp = Null /\ node[n].val # Null BY <1>1 DEF Init
  <2>2. \A e \in Verps, c \in Boards : map[e][c] = Null BY DEF Init, EmptyMap
  <2> QED BY <2>1, <2>2 DEF MapInv
<1>10. \A b \in Boards : CallInv(b) BY <1>4 DEF CallInv, InCall, Inserting
<1>11. HoldInv
  <2>1. ASSUME NEW n \in Nodes PROVE HoldsAt(want, Base, n)
    BY <1>1 DEF HoldsAt, Init, NoWants
  <2>2. Holds(want) BY <2>1, <1>3, <1>4 DEF Holds, InCall, Inserting
  <2> QED BY <2>2, <1>2 DEF HoldInv, TypeOK
<1>12. NothingLeaks BY <1>1, <1>3 DEF Init, NothingLeaks
<1> QED BY <1>2, <1>5, <1>7, <1>8, <1>9, <1>10, <1>11, <1>12 DEF XVInv

LEMMA NextInv ==
  ASSUME XVInv, Next
  PROVE  XVInv'
<1> PICK b \in Boards :
      \/ \E c \in Boards : Branch(b, c)
      \/ \E n \in Nodes : GetRd(b, n) \/ GetRdWr(b, n)
      \/ Walk(b) \/ Copy(b)
      \/ LogRead(b) \/ LogCount(b) \/ LogEntry(b) \/ GetRef(b) \/ SetMap(b) \/ Mark(b)
      \/ Return(b)
      \/ \E val \in Vals : Write(b, val)
      \/ Destroy(b) \/ Collect(b) \/ Keep(b)
  BY DEF Next
<1>1. CASE \E c \in Boards : Branch(b, c) BY <1>1, BranchInv
<1>2. CASE \E n \in Nodes : GetRd(b, n) BY <1>2, GetRdInv
<1>3. CASE \E n \in Nodes : GetRdWr(b, n) BY <1>3, GetRdWrInv
<1>4. CASE Walk(b) BY <1>4, WalkInv
<1>5. CASE Copy(b) BY <1>5, CopyInv
<1>6. CASE LogRead(b) BY <1>6, LogReadInv
<1>7. CASE LogCount(b) BY <1>7, LogCountInv
<1>8. CASE LogEntry(b) BY <1>8, LogEntryInv
<1>9. CASE GetRef(b) BY <1>9, GetRefInv
<1>10. CASE SetMap(b) BY <1>10, SetMapInv
<1>11. CASE Mark(b) BY <1>11, MarkInv
<1>12. CASE Return(b) BY <1>12, ReturnInv
<1>13. CASE \E val \in Vals : Write(b, val) BY <1>13, WriteInv
<1>14. CASE Destroy(b) BY <1>14, DestroyInv
<1>15. CASE Collect(b) BY <1>15, CollectInv
<1>16. CASE Keep(b) BY <1>16, KeepInv
<1> QED BY <1>1, <1>2, <1>3, <1>4, <1>5, <1>6, <1>7, <1>8, <1>9, <1>10, <1>11, <1>12, <1>13,
           <1>14, <1>15, <1>16

LEMMA StutterInv ==
  ASSUME XVInv, UNCHANGED vars
  PROVE  XVInv'
<1>1. UNCHANGED <<node, map, nadds, log, parent, rfcnt, open, op, want>> BY DEF vars
<1>2. TypeOK' /\ TreeInv' BY <1>1, Parts DEF TypeOK, TreeInv, UpClosed, Alive
<1>3. /\ Setting' = Setting /\ Counted' = Counted /\ Alive' = Alive /\ (BaseLogLost' <=> BaseLogLost)
      /\ \A b \in Boards : Children(b)' = Children(b) /\ MapsOf(b)' = MapsOf(b) /\ Logged(b)' = Logged(b)
  BY <1>1 DEF Setting, Counted, Alive, BaseLogLost, Children, MapsOf, Logged
<1>4. \A n : Contested(n)' <=> Contested(n) BY <1>1 DEF Contested, Allocated, Adding
<1>5. CountInv' BY <1>1, <1>3, Parts DEF CountInv, Own, Due
<1>6. MapInv' /\ NothingLeaks'
  <2>1. MapInv' BY <1>1, Parts DEF MapInv
  <2>2. NothingLeaks' BY <1>1, <1>3, Nulls, Parts DEF NothingLeaks
  <2> QED BY <2>1, <2>2
<1>7. LogInv'
  <2>1. BaseLogInv' BY <1>1, <1>3, BaseLogKept
  <2>2. \A b \in Alive : b \in Boards BY DEF Alive
  <2> QED BY <2>1, <2>2, <1>1, <1>3, Parts DEF LogInv
<1>8. ASSUME NEW b \in Boards PROVE CallInv(b)'
  <2>1. CallInv(b) BY Parts
  <2>2. op[b].pc \in InCall => op[b].at \in Above(parent', b) BY <2>1, <1>1 DEF CallInv
  <2>3. Undisturbed(b)
    BY <2>1, <2>2, <1>1, <1>3, <1>4 DEF Undisturbed, CallInv, InCall, Inserting
  <2> QED BY <2>3, CallKept
<1>9. HoldInv'
  <2>1. PICK held \in [Boards -> [Nodes -> Contents]] : Holds(held) BY Parts
  <2>2. Holds(held)' BY <2>1, <1>1, <1>3, <1>4 DEF Holds, HoldsAt
  <2> QED BY <2>2 DEF HoldInv
<1> QED BY <1>2, <1>5, <1>6, <1>7, <1>8, <1>9 DEF XVInv

(* The inductive invariant of boards that branch, read, convert, copy,     *)
(* write and leave in any order and at any access of the others (xvarray.h,*)
(* verp.h), the base last.                                                 *)
THEOREM InvariantHolds ==
  Spec => []XVInv
<1>1. Init => XVInv BY InitInv
<1>2. XVInv /\ [Next]_vars => XVInv' BY NextInv, StutterInv
<1> QED BY <1>1, <1>2, PTL DEF Spec

(* A pointer that a board got shows its own writes over what its parent    *)
(* held when it branched (xvarray_branch, xvchunk_getrd, xvchunk_getrdwr), *)
(* however other boards write, copy, convert and free meanwhile: at every  *)
(* node for which no two boards have allocated a verp.  Where two have,    *)
(* it does not hold, and nothing in xvchunk_getrdwr prevents them.         *)
THEOREM SnapshotHolds ==
  Spec => []PointerShowsSnapshot
<1>1. XVInv => PointerShowsSnapshot
  <2> SUFFICES ASSUME XVInv, NEW b \in Boards, op[b].pc = "got", ~ Contested(op[b].node)
               PROVE  Chunk(op[b]) = want[b][op[b].node]
    BY DEF PointerShowsSnapshot
  <2> DEFINE n == op[b].node
             v == op[b].at
  <2>1. PICK held \in [Boards -> [Nodes -> Contents]] : Holds(held) BY Parts
  <2>2. TypeOK /\ TreeInv /\ CallInv(b) BY Parts
  <2>3. b \in open /\ n \in Nodes /\ v \in Boards /\ v \in Alive /\ v # Null /\ "got" \in InCall
    BY CallFacts, Nulls DEF InCall
  <2>4. \/ op[b].verp = Null /\ v = Base
        \/ op[b].verp # Null /\ op[b].verp = node[n].verp /\ map[op[b].verp][v] # Null
    BY <2>2 DEF CallInv
  <2>5. held[v][n] = want[b][n] BY <2>1, <2>3 DEF Holds
  <2>6. HoldsAt(held, v, n) BY <2>1, <2>3 DEF Holds
  <2>7. CASE op[b].verp # Null
    <3>1. Chunk(op[b]) = map[node[n].verp][v] BY <2>3, <2>4, <2>7 DEF Chunk, VerpmapGet
    <3>2. held[v][n] = map[node[n].verp][v] BY <2>4, <2>6, <2>7 DEF HoldsAt
    <3> QED BY <3>1, <3>2, <2>5
  <2>8. CASE op[b].verp = Null /\ node[n].verp = Null
    <3>1. Chunk(op[b]) = node[n].val BY <2>3, <2>8 DEF Chunk
    <3>2. held[v][n] = node[n].val BY <2>6, <2>8 DEF HoldsAt
    <3> QED BY <3>1, <3>2, <2>5
  <2>9. CASE op[b].verp = Null /\ node[n].verp # Null
    <3>1. v = Base /\ parent[Base] = Null BY <2>2, <2>4, <2>9 DEF TreeInv
    <3>2. Chunk(op[b]) = map[node[n].verp][Base] BY <2>3, <2>9 DEF Chunk, VerpmapGet
    <3>3. held[Base][n] = map[node[n].verp][Base] BY <3>1, <2>6, <2>9 DEF HoldsAt
    <3> QED BY <3>1, <3>2, <3>3, <2>5
  <2> QED BY <2>7, <2>8, <2>9
<1> QED BY <1>1, InvariantHolds, PTL

(* The log of a version other than the base names each of its mappings     *)
(* once, and that of the base does unless it is short of entries, with     *)
(* however many boards in verp_log_add at a time: so verp_log_gc, which    *)
(* only runs on a log as long as the count tells, frees every mapping.     *)
THEOREM LogsAreComplete ==
  Spec => []LogNamesMappings
<1>1. XVInv => LogNamesMappings BY LogTells
<1> QED BY <1>1, InvariantHolds, PTL

(* The count of a version is one for its board, one for each mapping, set  *)
(* or about to be, and one for each child: what xvarray_do_destroy relies  *)
(* on when it compares the count with the length of the log.               *)
THEOREM CountsAreRight ==
  Spec => []CountIsBoardMapsChildren
<1>1. XVInv => CountIsBoardMapsChildren
  BY Parts DEF CountInv, CountIsBoardMapsChildren, Own, Due, Setting
<1> QED BY <1>1, InvariantHolds, PTL

(* A board that decided to collect has still no children when it does, and *)
(* a log that names its mappings (the assertions of verp_log_gc and        *)
(* xvarray_do_destroy); one that is destroyed after its children takes     *)
(* itself for a parent only if it is a base whose log has lost entries.    *)
THEOREM DestroyIsRight ==
  Spec => []DestroyDecidesRight
<1>1. XVInv => DestroyDecidesRight
  <2> SUFFICES ASSUME XVInv, NEW b \in Boards
               PROVE  /\ op[b].pc = "collect" =>
                           /\ Children(b) = {} /\ rfcnt[b] = nadds[b] + 1
                           /\ Logged(b) = MapsOf(b) /\ Cardinality(MapsOf(b)) = nadds[b]
                      /\ op[b].pc = "keep" /\ b \in ChildrenFirst => b = Base /\ BaseLogLost
    BY DEF DestroyDecidesRight
  <2>1. CallInv(b) BY Parts
  <2> QED BY <2>1 DEF CallInv
<1> QED BY <1>1, InvariantHolds, PTL

(* Boards destroyed after those that branch from them leave no mapping and *)
(* no version behind (xvarray_destroy, ver_putref), but a base whose log   *)
(* has lost entries leaves all.                                            *)
THEOREM BoardsLeaveNothing ==
  Spec => []NothingLeaks
<1>1. XVInv => NothingLeaks BY Parts
<1> QED BY <1>1, InvariantHolds, PTL
=============================================================================
