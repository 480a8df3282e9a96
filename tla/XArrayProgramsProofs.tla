------------------------ MODULE XArrayProgramsProofs ------------------------
(***************************************************************************)
(* Proofs about XArrayPrograms: for any input, any limit and any grain,    *)
(* whatever order the calls run in, wherever chunks end and whenever       *)
(* realloc moves an array, every call of the encoder and of the sum has    *)
(* the answer for its slice, and the rules of skip-list arrays are kept;   *)
(* and XArrayPrograms implements XArraySpec: the arrays of dynarray.c are  *)
(* sequences, and each step creates, extends, shortens, writes to or       *)
(* concatenates sequences as XArraySpec says.                              *)
(***************************************************************************)
EXTENDS XArrayPrograms, SequenceTheorems, WellFoundedInduction, TLAPS

-----------------------------------------------------------------------------
(* Recursive functions *)

(* Induction, for sets of naturals.                                        *)
LEMMA NatSets ==
  ASSUME NEW T, 0 \in T, \A k \in Nat : k \in T => k + 1 \in T
  PROVE  Nat \subseteq T
<1> DEFINE R == OpToRel(<, Nat)
           N == Nat \ T
<1> SUFFICES ASSUME N # {} PROVE FALSE OBVIOUS
<1>1. IsWellFoundedOn(R, Nat) BY NatLessThanWellFounded
<1>2. N \subseteq Nat OBVIOUS
<1> HIDE DEF R, N
<1>3. PICK m \in N : \A k \in N : ~ (<<k, m>> \in R) BY <1>1, <1>2, WFMin
<1> USE DEF N
<1>4. m \in Nat /\ m # 0 OBVIOUS
<1>5. m - 1 \in Nat /\ m - 1 < m BY <1>4
<1>6. <<m - 1, m>> \in R BY <1>4, <1>5 DEF R, OpToRel
<1>7. m - 1 \in T BY <1>3, <1>5, <1>6
<1>8. (m - 1) + 1 \in T BY <1>5, <1>7
<1> QED BY <1>4, <1>8

(* Induction over the length of a sequence: T has the sequences for which  *)
(* something holds.                                                        *)
LEMMA SeqSets ==
  ASSUME NEW S, NEW T, <<>> \in T,
         \A s \in Seq(S), x \in S : s \in T => Append(s, x) \in T
  PROVE  Seq(S) \subseteq T
<1> DEFINE N == {k \in Nat : \A s \in Seq(S) : Len(s) = k => s \in T}
<1>1. 0 \in N
  <2> SUFFICES ASSUME NEW s \in Seq(S), Len(s) = 0 PROVE s \in T OBVIOUS
  <2>1. s = <<>> BY EmptySeq
  <2> QED BY <2>1
<1>2. ASSUME NEW k \in Nat, k \in N PROVE k + 1 \in N
  <2> SUFFICES ASSUME NEW s \in Seq(S), Len(s) = k + 1 PROVE s \in T OBVIOUS
  <2>1. s # <<>> BY EmptySeq
  <2>2. PICK t \in Seq(S), x \in S : s = Append(t, x) BY <2>1, SequenceEmptyOrAppend
  <2>3. Len(t) = k BY <2>2, AppendProperties, LenProperties
  <2>4. t \in T BY <2>3, <1>2
  <2> QED BY <2>2, <2>4
<1> HIDE DEF N
<1>3. Nat \subseteq N BY <1>1, <1>2, NatSets
<1> QED BY <1>3, LenProperties DEF N

(* f goes through s from the left, from b, by F.                           *)
GoesThrough(f, F, b, s) ==
  /\ f[0] = b
  /\ \A k \in 1..Len(s) : f[k] = F[<<f[k - 1], s[k]>>]

(* F leads from S to S by the elements of V, and b is in S.                *)
Leads(F, b, S, V) == F \in [S \X V -> S] /\ b \in S

LEMMA GoesThroughExists ==
  ASSUME NEW S, NEW V, NEW F, NEW b, Leads(F, b, S, V), NEW s \in Seq(V)
  PROVE  \E f \in [0..Len(s) -> S] : GoesThrough(f, F, b, s)
<1> USE DEF Leads
<1> DEFINE T == {t \in Seq(V) : \E f \in [0..Len(t) -> S] : GoesThrough(f, F, b, t)}
<1>1. <<>> \in T
  <2> DEFINE f == [k \in 0..0 |-> b]
  <2>1. f \in [0..Len(<<>>) -> S] /\ GoesThrough(f, F, b, <<>>) BY EmptySeq DEF GoesThrough
  <2> QED BY <2>1, EmptySeq
<1>2. ASSUME NEW t \in Seq(V), NEW x \in V, t \in T PROVE Append(t, x) \in T
  <2> DEFINE n == Len(t)
             u == Append(t, x)
  <2>1. PICK f \in [0..n -> S] : GoesThrough(f, F, b, t) BY <1>2
  <2>2. /\ n \in Nat /\ u \in Seq(V) /\ Len(u) = n + 1 /\ u[n + 1] = x
        /\ \A i \in 1..n : u[i] = t[i]
    BY AppendProperties, LenProperties
  <2> DEFINE g == [k \in 0..(n + 1) |-> IF k <= n THEN f[k] ELSE F[<<f[n], x>>]]
  <2> HIDE DEF u
  <2>3. F[<<f[n], x>>] \in S
    <3>1. f[n] \in S BY <2>2
    <3>2. <<f[n], x>> \in S \X V BY <3>1
    <3> QED BY <3>2
  <2>4. g \in [0..(n + 1) -> S] BY <2>2, <2>3
  <2>5. g[0] = b BY <2>1, <2>2 DEF GoesThrough
  <2>6. ASSUME NEW k \in 1..(n + 1) PROVE g[k] = F[<<g[k - 1], u[k]>>]
    <3>1. CASE k = n + 1
      <4>1. k - 1 = n /\ k - 1 \in 0..(n + 1) /\ ~ (k <= n) BY <3>1, <2>2
      <4>2. g[k - 1] = f[n] /\ g[k] = F[<<f[n], x>>] BY <4>1, <2>2
      <4> QED BY <4>2, <3>1, <2>2
    <3>2. CASE k # n + 1
      <4>1. k \in 1..n /\ k - 1 \in 0..n BY <3>2, <2>2
      <4>2. g[k - 1] = f[k - 1] /\ g[k] = f[k] /\ u[k] = t[k] BY <4>1, <2>2
      <4>3. f[k] = F[<<f[k - 1], t[k]>>] BY <4>1, <2>1 DEF GoesThrough
      <4> QED BY <4>2, <4>3
    <3> QED BY <3>1, <3>2
  <2> HIDE DEF g
  <2>7. GoesThrough(g, F, b, u) BY <2>2, <2>5, <2>6 DEF GoesThrough
  <2> QED BY <2>2, <2>4, <2>7 DEF u
<1> HIDE DEF T
<1>3. Seq(V) \subseteq T BY <1>1, <1>2, SeqSets
<1> QED BY <1>3 DEF T

(* Two that go through the same, or one through a part of the other.       *)
LEMMA GoesThroughOnce ==
  ASSUME NEW S, NEW V, NEW F, NEW b, Leads(F, b, S, V),
         NEW s \in Seq(V), NEW t \in Seq(V), Len(s) <= Len(t), \A i \in 1..Len(s) : t[i] = s[i],
         NEW f, NEW g, GoesThrough(f, F, b, s), GoesThrough(g, F, b, t)
  PROVE  \A k \in 0..Len(s) : f[k] = g[k] /\ f[k] \in S
<1> USE DEF Leads
<1> DEFINE T == {j \in Nat : j <= Len(s) => f[j] = g[j] /\ f[j] \in S}
<1>1. 0 \in T BY DEF GoesThrough
<1>2. ASSUME NEW j \in Nat, j \in T PROVE j + 1 \in T
  <2> SUFFICES ASSUME j + 1 <= Len(s) PROVE f[j + 1] = g[j + 1] /\ f[j + 1] \in S OBVIOUS
  <2>1. Len(s) \in Nat /\ Len(t) \in Nat BY LenProperties
  <2>2. j + 1 \in 1..Len(s) /\ j + 1 \in 1..Len(t) /\ (j + 1) - 1 = j BY <2>1
  <2>3. f[j] = g[j] /\ f[j] \in S BY <1>2, <2>1, <2>2
  <2>4. s[j + 1] \in V /\ t[j + 1] = s[j + 1] BY <2>2, ElementOfSeq
  <2>5. f[j + 1] = F[<<f[j], s[j + 1]>>] /\ g[j + 1] = F[<<g[j], t[j + 1]>>]
    BY <2>2 DEF GoesThrough
  <2>6. F[<<f[j], s[j + 1]>>] \in S
    <3>1. <<f[j], s[j + 1]>> \in S \X V BY <2>3, <2>4
    <3> QED BY <3>1
  <2> QED BY <2>3, <2>4, <2>5, <2>6
<1> HIDE DEF T
<1>3. Nat \subseteq T BY <1>1, <1>2, NatSets
<1> QED BY <1>3, LenProperties DEF T

(* What F gets from s, with the two rules by which it is computed.         *)
Through(F, b, s) == (CHOOSE f : GoesThrough(f, F, b, s))[Len(s)]

LEMMA ThroughRules ==
  ASSUME NEW S, NEW V, NEW F, NEW b, Leads(F, b, S, V)
  PROVE  /\ Through(F, b, <<>>) = b
         /\ \A s \in Seq(V) : Through(F, b, s) \in S
         /\ \A s \in Seq(V), x \in V :
              Through(F, b, Append(s, x)) = F[<<Through(F, b, s), x>>]
<1> DEFINE fun(s) == CHOOSE f : GoesThrough(f, F, b, s)
<1>1. \A s \in Seq(V) : GoesThrough(fun(s), F, b, s)
  <2> SUFFICES ASSUME NEW s \in Seq(V) PROVE GoesThrough(fun(s), F, b, s) OBVIOUS
  <2>1. \E f : GoesThrough(f, F, b, s) BY GoesThroughExists
  <2> QED BY <2>1
<1>2. \A s \in Seq(V) : Len(s) \in Nat /\ Len(s) \in 0..Len(s) BY LenProperties
<1>3. \A s : Through(F, b, s) = fun(s)[Len(s)] BY DEF Through
<1> HIDE DEF fun
<1>4. Through(F, b, <<>>) = b
  <2>1. <<>> \in Seq(V) /\ Len(<<>>) = 0 BY EmptySeq
  <2>2. fun(<<>>)[0] = b BY <1>1, <2>1 DEF GoesThrough
  <2> QED BY <1>3, <2>1, <2>2
<1>5. \A s \in Seq(V) : Through(F, b, s) \in S
  <2> SUFFICES ASSUME NEW s \in Seq(V) PROVE fun(s)[Len(s)] \in S BY <1>3
  <2> DEFINE f == fun(s)
  <2>1. GoesThrough(f, F, b, s) /\ Len(s) <= Len(s) /\ Len(s) \in 0..Len(s) BY <1>1, <1>2
  <2> HIDE DEF f
  <2>2. \A k \in 0..Len(s) : f[k] \in S BY <2>1, GoesThroughOnce
  <2>3. f[Len(s)] \in S BY <2>1, <2>2
  <2> QED BY <2>3 DEF f
<1>6. ASSUME NEW s \in Seq(V), NEW x \in V
      PROVE  Through(F, b, Append(s, x)) = F[<<Through(F, b, s), x>>]
  <2> DEFINE u == Append(s, x)
             n == Len(s)
  <2>1. /\ n \in Nat /\ u \in Seq(V) /\ Len(u) = n + 1 /\ u[n + 1] = x
        /\ \A i \in 1..n : u[i] = s[i]
    BY AppendProperties, LenProperties
  <2> HIDE DEF u
  <2>2. fun(s)[n] = fun(u)[n]
    <3> DEFINE f == fun(s)
               g == fun(u)
    <3>1. GoesThrough(f, F, b, s) /\ GoesThrough(g, F, b, u) BY <1>1, <2>1
    <3>2. Len(s) <= Len(u) /\ n \in 0..Len(s) BY <2>1
    <3> HIDE DEF f, g
    <3>5. s \in Seq(V) /\ u \in Seq(V) /\ Len(s) <= Len(u) /\ \A i \in 1..Len(s) : u[i] = s[i]
      BY <2>1, <3>2
    <3>3. \A k \in 0..Len(s) : f[k] = g[k] /\ f[k] \in S
      <4> HIDE DEF n
      <4> QED BY <3>1, <3>5, GoesThroughOnce
    <3>4. f[n] = g[n] BY <3>2, <3>3
    <3> QED BY <3>4 DEF f, g
  <2>3. fun(u)[n + 1] = F[<<fun(u)[n], x>>]
    <3>1. n + 1 \in 1..Len(u) /\ (n + 1) - 1 = n BY <2>1
    <3> QED BY <3>1, <1>1, <2>1 DEF GoesThrough
  <2>4. Through(F, b, u) = fun(u)[n + 1] /\ Through(F, b, s) = fun(s)[n] BY <1>3, <2>1
  <2> QED BY <2>2, <2>3, <2>4 DEF u
<1> QED BY <1>4, <1>5, <1>6

(* A function that goes on by F wherever F is defined gets the same.       *)
LEMMA ThroughIs ==
  ASSUME NEW S, NEW V, NEW F, NEW b, Leads(F, b, S, V), NEW s \in Seq(V),
         NEW h, h[0] = b, \A k \in 1..Len(s) : h[k - 1] \in S => h[k] = F[<<h[k - 1], s[k]>>]
  PROVE  h[Len(s)] = Through(F, b, s)
<1> DEFINE c == CHOOSE f : GoesThrough(f, F, b, s)
           T == {j \in Nat : j <= Len(s) => h[j] = c[j] /\ h[j] \in S}
<1>1. GoesThrough(c, F, b, s)
  <2>1. \E f : GoesThrough(f, F, b, s) BY GoesThroughExists
  <2> QED BY <2>1
<1>2. Through(F, b, s) = c[Len(s)] BY DEF Through
<1>3. Len(s) \in Nat BY LenProperties
<1> HIDE DEF c
<1>4. 0 \in T BY <1>1 DEF GoesThrough, Leads
<1>5. ASSUME NEW j \in Nat, j \in T PROVE j + 1 \in T
  <2> SUFFICES ASSUME j + 1 <= Len(s) PROVE h[j + 1] = c[j + 1] /\ h[j + 1] \in S OBVIOUS
  <2>1. j + 1 \in 1..Len(s) /\ (j + 1) - 1 = j /\ h[j] = c[j] /\ h[j] \in S BY <1>3, <1>5
  <2>2. h[j + 1] = F[<<h[j], s[j + 1]>>] BY <2>1
  <2>3. c[j + 1] = F[<<c[j], s[j + 1]>>] BY <1>1, <2>1 DEF GoesThrough
  <2>4. F[<<h[j], s[j + 1]>>] \in S
    <3>1. s[j + 1] \in V BY <2>1, ElementOfSeq
    <3>2. <<h[j], s[j + 1]>> \in S \X V BY <2>1, <3>1
    <3> QED BY <3>2 DEF Leads
  <2> QED BY <2>1, <2>2, <2>3, <2>4
<1> HIDE DEF T
<1>6. Nat \subseteq T BY <1>4, <1>5, NatSets
<1> QED BY <1>2, <1>3, <1>6 DEF T

-----------------------------------------------------------------------------
(* Elements, sums and runs                                                 *)

One == {<<c>> : c \in Nat}
RunElems == Nat \X (Nat \ {0})
Elem == {Junk} \union One \union RunElems

LEMMA OneFacts == \A x \in One : x[1] \in Nat /\ x = <<x[1]>> /\ x \in Elem
BY DEF One, Elem

LEMMA TotalRules ==
  /\ Total(<<>>) = 0
  /\ \A s \in Seq(One) : Total(s) \in Nat
  /\ \A s \in Seq(One), x \in One : Total(Append(s, x)) = Total(s) + x[1]
<1> DEFINE F == [p \in Nat \X One |-> p[1] + p[2][1]]
<1>1. Leads(F, 0, Nat, One) BY OneFacts DEF Leads
<1>2. \A m \in Nat, x \in One : F[<<m, x>>] = m + x[1] OBVIOUS
<1> HIDE DEF F
<1>3. ASSUME NEW s \in Seq(One) PROVE Total(s) = Through(F, 0, s)
  <2> DEFINE Is(f) == f = [k \in 0..Len(s) |-> IF k = 0 THEN 0 ELSE f[k - 1] + s[k][1]]
             h == CHOOSE f : Is(f)
  <2>1. Len(s) \in Nat /\ \A k \in 1..Len(s) : k - 1 \in 0..Len(s) /\ s[k] \in One
    BY LenProperties, ElementOfSeq
  <2>2. PICK g \in [0..Len(s) -> Nat] : GoesThrough(g, F, 0, s) BY <1>1, GoesThroughExists
  <2>3. g[0] = 0 /\ \A k \in 1..Len(s) : g[k] = g[k - 1] + s[k][1]
    BY <2>1, <2>2, <1>2 DEF GoesThrough
  <2>4. Is(g) BY <2>1, <2>2, <2>3
  <2>5. Is(h) BY <2>4
  <2>6. Total(s) = h[Len(s)] BY DEF Total
  <2> HIDE DEF h
  <2>7. h[0] = 0 /\ \A k \in 1..Len(s) : h[k] = h[k - 1] + s[k][1] BY <2>1, <2>5
  <2>8. \A k \in 1..Len(s) : h[k - 1] \in Nat => h[k] = F[<<h[k - 1], s[k]>>]
    BY <2>1, <2>7, <1>2
  <2>9. h[Len(s)] = Through(F, 0, s)  BY <1>1, <2>7, <2>8, ThroughIs
  <2> QED BY <2>6, <2>9
<1>4. /\ Through(F, 0, <<>>) = 0
      /\ \A s \in Seq(One) : Through(F, 0, s) \in Nat
      /\ \A s \in Seq(One), x \in One : Through(F, 0, Append(s, x)) = F[<<Through(F, 0, s), x>>]
  BY <1>1, ThroughRules
<1>5. <<>> \in Seq(One) BY EmptySeq
<1>6. ASSUME NEW s \in Seq(One), NEW x \in One PROVE Total(Append(s, x)) = Total(s) + x[1]
  <2>1. Append(s, x) \in Seq(One) BY AppendProperties
  <2>2. Total(Append(s, x)) = F[<<Total(s), x>>] BY <1>3, <1>4, <2>1
  <2> QED BY <2>2, <1>2, <1>3, <1>4
<1> QED BY <1>3, <1>4, <1>5, <1>6

LEMMA LongerFacts ==
  ASSUME NEW runs \in Seq(RunElems), NEW c \in Nat
  PROVE  Longer(runs, c) \in Seq(RunElems) /\ Longer(runs, c) # <<>>
<1>1. Run(c, 1) \in RunElems BY DEF Run, RunElems
<1>2. CASE runs # <<>> /\ Symbol(runs[Len(runs)]) = c
  <2> DEFINE n == Len(runs)
             e == Run(c, Freq(runs[n]) + 1)
  <2>1. n \in 1..Len(runs) BY <1>2, EmptySeq, LenProperties
  <2>2. runs[n] \in RunElems BY <2>1, ElementOfSeq
  <2>3. e \in RunElems BY <2>2 DEF Run, Freq, RunElems
  <2>4. Longer(runs, c) = [runs EXCEPT ![n] = e] BY <1>2 DEF Longer
  <2> HIDE DEF e
  <2>5. Longer(runs, c) \in Seq(RunElems) /\ Len(Longer(runs, c)) = n BY <2>1, <2>3, <2>4, ExceptSeq
  <2> QED BY <2>1, <2>5, EmptySeq
<1>3. CASE ~ (runs # <<>> /\ Symbol(runs[Len(runs)]) = c)
  <2>1. Longer(runs, c) = Append(runs, Run(c, 1)) BY <1>3 DEF Longer
  <2> QED BY <2>1, <1>1, AppendProperties
<1> QED BY <1>2, <1>3

LEMMA RunsIs ==
  ASSUME NEW s \in Seq(One), NEW F, Leads(F, <<>>, Seq(RunElems), One),
         \A m \in Seq(RunElems), x \in One : F[<<m, x>>] = Longer(m, x[1])
  PROVE  RunsOf(s) = Through(F, <<>>, s)
<1> DEFINE Is(f) == f = [k \in 0..Len(s) |-> IF k = 0 THEN <<>> ELSE Longer(f[k - 1], s[k][1])]
           h == CHOOSE f : Is(f)
<1>1. Len(s) \in Nat /\ \A k \in 1..Len(s) : k - 1 \in 0..Len(s) /\ s[k] \in One
  BY LenProperties, ElementOfSeq
<1>2. PICK g \in [0..Len(s) -> Seq(RunElems)] : GoesThrough(g, F, <<>>, s) BY GoesThroughExists
<1>3. g[0] = <<>> /\ \A k \in 1..Len(s) : g[k] = Longer(g[k - 1], s[k][1]) BY <1>1, <1>2 DEF GoesThrough
<1>4. Is(g) BY <1>1, <1>2, <1>3
<1>5. Is(h) BY <1>4
<1>6. RunsOf(s) = h[Len(s)] BY DEF RunsOf
<1> HIDE DEF h
<1>7. h[0] = <<>> /\ \A k \in 1..Len(s) : h[k] = Longer(h[k - 1], s[k][1]) BY <1>1, <1>5
<1>8. \A k \in 1..Len(s) : h[k - 1] \in Seq(RunElems) => h[k] = F[<<h[k - 1], s[k]>>] BY <1>1, <1>7
<1>9. h[Len(s)] = Through(F, <<>>, s) BY <1>7, <1>8, ThroughIs
<1> QED BY <1>6, <1>9

LEMMA RunsOfRules ==
  /\ RunsOf(<<>>) = <<>>
  /\ \A s \in Seq(One) : RunsOf(s) \in Seq(RunElems)
  /\ \A s \in Seq(One), x \in One : RunsOf(Append(s, x)) = Longer(RunsOf(s), x[1])
<1> DEFINE F == [p \in Seq(RunElems) \X One |-> Longer(p[1], p[2][1])]
<1>1. Leads(F, <<>>, Seq(RunElems), One) BY OneFacts, LongerFacts, EmptySeq DEF Leads
<1>2. \A m \in Seq(RunElems), x \in One : F[<<m, x>>] = Longer(m, x[1]) OBVIOUS
<1> HIDE DEF F
<1>3. \A s \in Seq(One) : RunsOf(s) = Through(F, <<>>, s) BY <1>1, <1>2, RunsIs
<1>4. /\ Through(F, <<>>, <<>>) = <<>>
      /\ \A s \in Seq(One) : Through(F, <<>>, s) \in Seq(RunElems)
      /\ \A s \in Seq(One), x \in One :
           Through(F, <<>>, Append(s, x)) = F[<<Through(F, <<>>, s), x>>]
  BY <1>1, ThroughRules
<1>5. <<>> \in Seq(One) BY EmptySeq
<1>6. ASSUME NEW s \in Seq(One), NEW x \in One
      PROVE  RunsOf(Append(s, x)) = Longer(RunsOf(s), x[1])
  <2>1. Append(s, x) \in Seq(One) BY AppendProperties
  <2>2. RunsOf(Append(s, x)) = F[<<RunsOf(s), x>>] BY <1>3, <1>4, <2>1
  <2> QED BY <2>2, <1>2, <1>3, <1>4
<1> QED BY <1>3, <1>4, <1>5, <1>6

LEMMA RepeatFacts ==
  ASSUME NEW c \in Nat, NEW freq \in Nat
  PROVE  /\ Repeat(c, freq) \in Seq(One) /\ Len(Repeat(c, freq)) = freq
         /\ \A j \in 1..freq : Repeat(c, freq)[j] = <<c>>
<1>1. <<c>> \in One BY DEF One
<1> QED BY <1>1 DEF Repeat

LEMMA SymbolsIs ==
  ASSUME NEW s \in Seq(RunElems), NEW F, Leads(F, <<>>, Seq(One), RunElems),
         \A m \in Seq(One), x \in RunElems : F[<<m, x>>] = m \o Repeat(Symbol(x), Freq(x))
  PROVE  SymbolsOf(s) = Through(F, <<>>, s)
<1> DEFINE Is(f) == f = [k \in 0..Len(s) |-> IF k = 0 THEN <<>> ELSE f[k - 1] \o Repeat(Symbol(s[k]), Freq(s[k]))]
           h == CHOOSE f : Is(f)
<1>1. Len(s) \in Nat /\ \A k \in 1..Len(s) : k - 1 \in 0..Len(s) /\ s[k] \in RunElems
  BY LenProperties, ElementOfSeq
<1>2. PICK g \in [0..Len(s) -> Seq(One)] : GoesThrough(g, F, <<>>, s) BY GoesThroughExists
<1>3. g[0] = <<>> /\ \A k \in 1..Len(s) : g[k] = g[k - 1] \o Repeat(Symbol(s[k]), Freq(s[k]))
  <2>1. g[0] = <<>> /\ \A k \in 1..Len(s) : g[k] = F[<<g[k - 1], s[k]>>] BY <1>2 DEF GoesThrough
  <2>2. ASSUME NEW k \in 1..Len(s) PROVE g[k] = g[k - 1] \o Repeat(Symbol(s[k]), Freq(s[k]))
    <3> DEFINE m == g[k - 1]
               x == s[k]
    <3>1. m \in Seq(One) /\ x \in RunElems /\ g[k] = F[<<m, x>>] BY <1>1, <2>1
    <3> HIDE DEF m, x
    <3>2. g[k] = m \o Repeat(Symbol(x), Freq(x)) BY <3>1
    <3> QED BY <3>2 DEF m, x
  <2> QED BY <2>1, <2>2
<1>4. Is(g) BY <1>1, <1>2, <1>3
<1>5. Is(h) BY <1>4
<1>6. SymbolsOf(s) = h[Len(s)] BY DEF SymbolsOf
<1> HIDE DEF h
<1>7. h[0] = <<>> /\ \A k \in 1..Len(s) : h[k] = h[k - 1] \o Repeat(Symbol(s[k]), Freq(s[k]))
  <2>1. h[0] = <<>> BY <1>5
  <2>2. ASSUME NEW k \in 1..Len(s) PROVE h[k] = h[k - 1] \o Repeat(Symbol(s[k]), Freq(s[k]))
    <3>1. k \in 0..Len(s) /\ k # 0 BY <1>1
    <3> QED BY <3>1, <1>5
  <2> QED BY <2>1, <2>2
<1>8. ASSUME NEW k \in 1..Len(s), h[k - 1] \in Seq(One) PROVE h[k] = F[<<h[k - 1], s[k]>>]
  <2> DEFINE m == h[k - 1]
             x == s[k]
  <2>1. m \in Seq(One) /\ x \in RunElems /\ h[k] = m \o Repeat(Symbol(x), Freq(x)) BY <1>1, <1>7, <1>8
  <2> HIDE DEF m, x
  <2>2. h[k] = F[<<m, x>>] BY <2>1
  <2> QED BY <2>2 DEF m, x
<1>9. h[Len(s)] = Through(F, <<>>, s) BY <1>7, <1>8, ThroughIs
<1> QED BY <1>6, <1>9

LEMMA SymbolsOfRules ==
  /\ SymbolsOf(<<>>) = <<>>
  /\ \A s \in Seq(RunElems) : SymbolsOf(s) \in Seq(One)
  /\ \A s \in Seq(RunElems), x \in RunElems :
       SymbolsOf(Append(s, x)) = SymbolsOf(s) \o Repeat(Symbol(x), Freq(x))
<1> DEFINE F == [p \in Seq(One) \X RunElems |-> p[1] \o Repeat(Symbol(p[2]), Freq(p[2]))]
<1>1. Leads(F, <<>>, Seq(One), RunElems)
  <2>1. ASSUME NEW m \in Seq(One), NEW x \in RunElems
        PROVE  m \o Repeat(Symbol(x), Freq(x)) \in Seq(One)
    <3>1. Symbol(x) \in Nat /\ Freq(x) \in Nat BY DEF RunElems, Symbol, Freq
    <3>2. Repeat(Symbol(x), Freq(x)) \in Seq(One) BY <3>1, RepeatFacts
    <3> QED BY <3>2, ConcatProperties
  <2> QED BY <2>1, EmptySeq DEF Leads
<1>2. \A m \in Seq(One), x \in RunElems : F[<<m, x>>] = m \o Repeat(Symbol(x), Freq(x)) OBVIOUS
<1> HIDE DEF F
<1>3. \A s \in Seq(RunElems) : SymbolsOf(s) = Through(F, <<>>, s) BY <1>1, <1>2, SymbolsIs
<1>4. /\ Through(F, <<>>, <<>>) = <<>>
      /\ \A s \in Seq(RunElems) : Through(F, <<>>, s) \in Seq(One)
      /\ \A s \in Seq(RunElems), x \in RunElems :
           Through(F, <<>>, Append(s, x)) = F[<<Through(F, <<>>, s), x>>]
  BY <1>1, ThroughRules
<1>5. <<>> \in Seq(RunElems) BY EmptySeq
<1>6. ASSUME NEW s \in Seq(RunElems), NEW x \in RunElems
      PROVE  SymbolsOf(Append(s, x)) = SymbolsOf(s) \o Repeat(Symbol(x), Freq(x))
  <2>1. Append(s, x) \in Seq(RunElems) BY AppendProperties
  <2>2. SymbolsOf(Append(s, x)) = F[<<SymbolsOf(s), x>>] BY <1>3, <1>4, <2>1
  <2> QED BY <2>2, <1>2, <1>3, <1>4
<1> QED BY <1>3, <1>4, <1>5, <1>6

-----------------------------------------------------------------------------
(* Sums and runs of parts                                                  *)

LEMMA ConcatAppend ==
  ASSUME NEW S, NEW s \in Seq(S), NEW t \in Seq(S), NEW x \in S
  PROVE  s \o Append(t, x) = Append(s \o t, x)
<1>1. <<x>> \in Seq(S) OBVIOUS
<1>2. Append(t, x) = t \o <<x>> BY AppendIsConcat
<1>3. s \o t \in Seq(S) BY ConcatProperties
<1>4. Append(s \o t, x) = (s \o t) \o <<x>> BY <1>3, AppendIsConcat
<1> QED BY <1>1, <1>2, <1>4, ConcatAssociative

LEMMA TotalConcat ==
  ASSUME NEW s \in Seq(One), NEW t \in Seq(One)
  PROVE  Total(s \o t) = Total(s) + Total(t)
<1> DEFINE T == {u \in Seq(One) : Total(s \o u) = Total(s) + Total(u)}
<1>1. <<>> \in T
  <2>1. s \o <<>> = s /\ <<>> \in Seq(One) BY ConcatEmptySeq, EmptySeq
  <2> QED BY <2>1, TotalRules
<1>2. ASSUME NEW u \in Seq(One), NEW x \in One, u \in T PROVE Append(u, x) \in T
  <2>1. s \o u \in Seq(One) /\ Append(u, x) \in Seq(One) BY ConcatProperties, AppendProperties
  <2>2. s \o Append(u, x) = Append(s \o u, x) BY ConcatAppend
  <2>3. Total(Append(s \o u, x)) = Total(s \o u) + x[1] /\ Total(Append(u, x)) = Total(u) + x[1]
    BY <2>1, TotalRules
  <2>4. Total(s) \in Nat /\ Total(u) \in Nat /\ x[1] \in Nat BY TotalRules, OneFacts
  <2>5. Total(s \o u) = Total(s) + Total(u) BY <1>2
  <2>6. Total(s \o Append(u, x)) = Total(s) + Total(Append(u, x)) BY <2>2, <2>3, <2>4, <2>5
  <2> QED BY <2>1, <2>6
<1> HIDE DEF T
<1>3. Seq(One) \subseteq T BY <1>1, <1>2, SeqSets
<1> QED BY <1>3 DEF T

(* b with its first run longer, and a and b one after the other: a run     *)
(* across the border is one.                                               *)
AddFirst(b, k) == [b EXCEPT ![1] = Run(Symbol(b[1]), Freq(b[1]) + k)]
Joined(a, b) ==
  IF Symbol(a[Len(a)]) = Symbol(b[1])
  THEN SubSeq(a, 1, Len(a) - 1) \o AddFirst(b, Freq(a[Len(a)]))
  ELSE a \o b

LEMMA RunFacts ==
  \A x \in RunElems : /\ Symbol(x) \in Nat /\ Freq(x) \in Nat \ {0} /\ x = Run(Symbol(x), Freq(x))
                      /\ x \in Elem
BY DEF RunElems, Symbol, Freq, Run, Elem

LEMMA RunMade ==
  ASSUME NEW c \in Nat, NEW f \in Nat \ {0}
  PROVE  Run(c, f) \in RunElems /\ Symbol(Run(c, f)) = c /\ Freq(Run(c, f)) = f
BY DEF RunElems, Symbol, Freq, Run

(* A sequence that is not empty has a first and a last element.            *)
LEMMA Ends ==
  ASSUME NEW S, NEW s \in Seq(S), s # <<>>
  PROVE  /\ Len(s) \in Nat \ {0} /\ 1 \in 1..Len(s) /\ Len(s) \in 1..Len(s)
         /\ s[1] \in S /\ s[Len(s)] \in S
<1>1. Len(s) \in Nat \ {0} BY EmptySeq
<1> QED BY <1>1, ElementOfSeq

LEMMA AddFirstFacts ==
  ASSUME NEW b \in Seq(RunElems), b # <<>>, NEW k \in Nat
  PROVE  /\ AddFirst(b, k) \in Seq(RunElems) /\ Len(AddFirst(b, k)) = Len(b) /\ AddFirst(b, k) # <<>>
         /\ AddFirst(b, k)[1] = Run(Symbol(b[1]), Freq(b[1]) + k)
         /\ \A i \in 2..Len(b) : AddFirst(b, k)[i] = b[i]
<1>1. 1 \in 1..Len(b) /\ b[1] \in RunElems /\ Len(b) \in Nat \ {0} BY Ends
<1>2. Run(Symbol(b[1]), Freq(b[1]) + k) \in RunElems BY <1>1, RunFacts, RunMade
<1>3. /\ AddFirst(b, k) \in Seq(RunElems) /\ Len(AddFirst(b, k)) = Len(b)
      /\ \A j \in 1..Len(b) : AddFirst(b, k)[j] = IF j = 1 THEN Run(Symbol(b[1]), Freq(b[1]) + k) ELSE b[j]
  BY <1>1, <1>2, ExceptSeq DEF AddFirst
<1> QED BY <1>1, <1>3, EmptySeq

(* Longer, element by element.                                             *)
LEMMA LongerElems ==
  ASSUME NEW b \in Seq(RunElems), b # <<>>, NEW c \in Nat
  PROVE  LET n == Len(b)
         IN  IF Symbol(b[n]) = c
             THEN /\ Len(Longer(b, c)) = n /\ Longer(b, c)[n] = Run(c, Freq(b[n]) + 1)
                  /\ \A i \in 1..n : i # n => Longer(b, c)[i] = b[i]
             ELSE /\ Len(Longer(b, c)) = n + 1 /\ Longer(b, c)[n + 1] = Run(c, 1)
                  /\ \A i \in 1..n : Longer(b, c)[i] = b[i]
<1> DEFINE n == Len(b)
<1>1. n \in 1..n /\ b[n] \in RunElems /\ n \in Nat BY Ends
<1>2. CASE Symbol(b[n]) = c
  <2>1. Run(c, Freq(b[n]) + 1) \in RunElems BY <1>1, RunFacts, RunMade
  <2>2. Longer(b, c) = [b EXCEPT ![n] = Run(c, Freq(b[n]) + 1)] BY <1>2 DEF Longer
  <2> QED BY <1>1, <1>2, <2>1, <2>2, ExceptSeq
<1>3. CASE Symbol(b[n]) # c
  <2>1. Run(c, 1) \in RunElems BY RunMade
  <2>2. Longer(b, c) = Append(b, Run(c, 1)) BY <1>3 DEF Longer
  <2> QED BY <1>1, <1>3, <2>1, <2>2, AppendProperties
<1> QED BY <1>2, <1>3

LEMMA LongerConcat ==
  ASSUME NEW u \in Seq(RunElems), NEW v \in Seq(RunElems), v # <<>>, NEW c \in Nat
  PROVE  Longer(u \o v, c) = u \o Longer(v, c)
<1> DEFINE w == u \o v
           m == Len(u)
           n == Len(v)
           lv == Longer(v, c)
           lw == Longer(w, c)
<1>1. m \in Nat /\ n \in Nat \ {0} /\ n \in 1..n BY Ends, LenProperties
<1>2. /\ w \in Seq(RunElems) /\ Len(w) = m + n
      /\ \A i \in 1..(m + n) : w[i] = IF i <= m THEN u[i] ELSE v[i - m]
  BY ConcatProperties
<1>3. w # <<>> BY <1>1, <1>2, EmptySeq
<1>4. w[m + n] = v[n] BY <1>1, <1>2
<1>5. lv \in Seq(RunElems) /\ lw \in Seq(RunElems)
  <2> HIDE DEF w
  <2> QED BY <1>2, LongerFacts
<1>6. /\ u \o lv \in Seq(RunElems) /\ Len(u \o lv) = m + Len(lv)
      /\ \A i \in 1..(m + Len(lv)) : (u \o lv)[i] = IF i <= m THEN u[i] ELSE lv[i - m]
  <2> HIDE DEF lv
  <2> QED BY <1>5, ConcatProperties
<1> HIDE DEF w
<1>7. CASE Symbol(v[n]) = c
  <2>1. Len(lv) = n /\ lv[n] = Run(c, Freq(v[n]) + 1) /\ \A i \in 1..n : i # n => lv[i] = v[i]
    BY <1>7, LongerElems
  <2>2. /\ Len(lw) = m + n /\ lw[m + n] = Run(c, Freq(v[n]) + 1)
        /\ \A i \in 1..(m + n) : i # m + n => lw[i] = w[i]
    <3>1. Symbol(w[Len(w)]) = c BY <1>2, <1>4, <1>7
    <3>2. /\ Len(lw) = Len(w) /\ lw[Len(w)] = Run(c, Freq(w[Len(w)]) + 1)
          /\ \A i \in 1..Len(w) : i # Len(w) => lw[i] = w[i]
      BY <1>2, <1>3, <3>1, LongerElems
    <3> HIDE DEF lw
    <3> QED BY <3>2, <1>2, <1>4
  <2> HIDE DEF lv, lw
  <2>3. ASSUME NEW i \in 1..(m + n) PROVE lw[i] = (u \o lv)[i]
    <3>1. CASE i = m + n BY <3>1, <1>1, <1>6, <2>1, <2>2
    <3>2. CASE i # m + n /\ i <= m BY <3>2, <1>1, <1>2, <1>6, <2>1, <2>2
    <3>3. CASE i # m + n /\ ~ (i <= m)
      <4>1. i - m \in 1..n /\ i - m # n BY <3>3, <1>1
      <4> QED BY <3>3, <4>1, <1>2, <1>6, <2>1, <2>2
    <3> QED BY <3>1, <3>2, <3>3
  <2>4. lw = u \o lv BY <1>5, <1>6, <2>1, <2>2, <2>3, SeqEqual
  <2> QED BY <2>4 DEF lv, lw, w
<1>8. CASE Symbol(v[n]) # c
  <2>1. Len(lv) = n + 1 /\ lv[n + 1] = Run(c, 1) /\ \A i \in 1..n : lv[i] = v[i] BY <1>8, LongerElems
  <2>2. /\ Len(lw) = m + n + 1 /\ lw[m + n + 1] = Run(c, 1)
        /\ \A i \in 1..(m + n) : lw[i] = w[i]
    <3>1. Symbol(w[Len(w)]) # c BY <1>2, <1>4, <1>8
    <3>2. /\ Len(lw) = Len(w) + 1 /\ lw[Len(w) + 1] = Run(c, 1)
          /\ \A i \in 1..Len(w) : lw[i] = w[i]
      BY <1>2, <1>3, <3>1, LongerElems
    <3> HIDE DEF lw
    <3> QED BY <3>2, <1>1, <1>2, <1>4
  <2> HIDE DEF lv, lw
  <2>3. ASSUME NEW i \in 1..(m + n + 1) PROVE lw[i] = (u \o lv)[i]
    <3>1. CASE i = m + n + 1
      <4>1. ~ (i <= m) /\ i - m = n + 1 /\ i \in 1..(m + Len(lv)) BY <3>1, <1>1, <2>1
      <4> QED BY <3>1, <4>1, <1>6, <2>1, <2>2
    <3>2. CASE i # m + n + 1 /\ i <= m BY <3>2, <1>1, <1>2, <1>6, <2>1, <2>2
    <3>3. CASE i # m + n + 1 /\ ~ (i <= m)
      <4>1. i - m \in 1..n /\ i \in 1..(m + n) /\ i \in 1..(m + Len(lv)) BY <3>3, <1>1, <2>1
      <4>2. lw[i] = v[i - m] BY <3>3, <4>1, <1>2, <2>2
      <4>3. (u \o lv)[i] = lv[i - m] BY <3>3, <4>1, <1>6
      <4> QED BY <4>1, <4>2, <4>3, <2>1
    <3> QED BY <3>1, <3>2, <3>3
  <2>4. Len(lw) = Len(u \o lv) BY <1>1, <1>6, <2>1, <2>2
  <2>5. lw = u \o lv BY <1>5, <1>6, <2>2, <2>3, <2>4, SeqEqual
  <2> QED BY <2>5 DEF lv, lw, w
<1> QED BY <1>7, <1>8

LEMMA LongerAddFirst ==
  ASSUME NEW b \in Seq(RunElems), b # <<>>, NEW c \in Nat, NEW k \in Nat
  PROVE  /\ Longer(AddFirst(b, k), c) = AddFirst(Longer(b, c), k)
         /\ Symbol(Longer(b, c)[1]) = Symbol(b[1])
<1> DEFINE n == Len(b)
           d == AddFirst(b, k)
           lb == Longer(b, c)
           ld == Longer(d, c)
           x == AddFirst(lb, k)
<1>1. n \in Nat \ {0} /\ n \in 1..n /\ 1 \in 1..n /\ b[1] \in RunElems /\ b[n] \in RunElems BY Ends
<1>2. /\ d \in Seq(RunElems) /\ d # <<>> /\ Len(d) = n
      /\ d[1] = Run(Symbol(b[1]), Freq(b[1]) + k) /\ \A i \in 2..n : d[i] = b[i]
  BY AddFirstFacts
<1>3. lb \in Seq(RunElems) /\ lb # <<>> BY LongerFacts
<1>4. /\ x \in Seq(RunElems) /\ Len(x) = Len(lb) /\ x[1] = Run(Symbol(lb[1]), Freq(lb[1]) + k)
      /\ \A i \in 2..Len(lb) : x[i] = lb[i]
  <2> HIDE DEF lb
  <2> QED BY <1>3, AddFirstFacts
<1> HIDE DEF d
<1>5. ld \in Seq(RunElems) BY <1>2, LongerFacts
<1>6. Symbol(d[1]) = Symbol(b[1]) /\ Freq(d[1]) = Freq(b[1]) + k
  <2>1. Symbol(b[1]) \in Nat /\ Freq(b[1]) \in Nat \ {0} BY <1>1, RunFacts
  <2>2. Freq(b[1]) + k \in Nat \ {0} BY <2>1
  <2> QED BY <1>2, <2>1, <2>2, RunMade
<1>7. Symbol(d[n]) = Symbol(b[n]) /\ (n # 1 => d[n] = b[n])
  <2>1. CASE n = 1 BY <2>1, <1>6
  <2>2. CASE n # 1 BY <2>2, <1>1, <1>2
  <2> QED BY <2>1, <2>2
<1>8. CASE Symbol(b[n]) = c
  <2>1. Len(lb) = n /\ lb[n] = Run(c, Freq(b[n]) + 1) /\ \A i \in 1..n : i # n => lb[i] = b[i]
    BY <1>8, LongerElems
  <2>2. Len(ld) = n /\ ld[n] = Run(c, Freq(d[n]) + 1) /\ \A i \in 1..n : i # n => ld[i] = d[i]
    <3>1. Symbol(d[Len(d)]) = c BY <1>2, <1>7, <1>8
    <3>2. /\ Len(ld) = Len(d) /\ ld[Len(d)] = Run(c, Freq(d[Len(d)]) + 1)
          /\ \A i \in 1..Len(d) : i # Len(d) => ld[i] = d[i]
      BY <1>2, <3>1, LongerElems
    <3> HIDE DEF ld
    <3> QED BY <3>2, <1>2
  <2>3. Freq(b[n]) \in Nat /\ Freq(b[1]) \in Nat BY <1>1, RunFacts
  <2>4. Symbol(Run(c, Freq(b[n]) + 1)) = c /\ Freq(Run(c, Freq(b[n]) + 1)) = Freq(b[n]) + 1
    BY <2>3, RunMade
  <2> HIDE DEF lb, ld, x
  <2>5. Symbol(lb[1]) = Symbol(b[1])
    <3>1. CASE n = 1 BY <3>1, <1>8, <2>1, <2>4
    <3>2. CASE n # 1 BY <3>2, <1>1, <2>1
    <3> QED BY <3>1, <3>2
  <2>6. ASSUME NEW i \in 1..n PROVE ld[i] = x[i]
    <3>1. CASE i = 1 /\ n = 1
      <4>1. Freq(d[n]) + 1 = Freq(b[1]) + k + 1 BY <3>1, <1>6
      <4>2. x[1] = Run(c, Freq(b[n]) + 1 + k) BY <3>1, <1>4, <1>8, <2>1, <2>4, <2>5
      <4>3. Freq(b[1]) + k + 1 = Freq(b[1]) + 1 + k BY <2>3
      <4> QED BY <3>1, <4>1, <4>2, <4>3, <2>2
    <3>2. CASE i = 1 /\ n # 1
      <4>1. ld[1] = d[1] /\ lb[1] = b[1] BY <3>2, <1>1, <2>1, <2>2
      <4> QED BY <3>2, <4>1, <1>2, <1>4
    <3>3. CASE i # 1 /\ i = n
      <4>1. d[n] = b[n] /\ i \in 2..Len(lb) BY <3>3, <1>1, <1>7, <2>1
      <4> QED BY <3>3, <4>1, <1>4, <2>1, <2>2
    <3>4. CASE i # 1 /\ i # n
      <4>1. i \in 2..n /\ i \in 2..Len(lb) BY <3>4, <1>1, <2>1
      <4> QED BY <3>4, <4>1, <1>2, <1>4, <2>1, <2>2
    <3> QED BY <3>1, <3>2, <3>3, <3>4
  <2>7. ld = x BY <1>4, <1>5, <2>1, <2>2, <2>6, SeqEqual
  <2> QED BY <2>5, <2>7 DEF lb, ld, x, d
<1>9. CASE Symbol(b[n]) # c
  <2>1. Len(lb) = n + 1 /\ lb[n + 1] = Run(c, 1) /\ \A i \in 1..n : lb[i] = b[i] BY <1>9, LongerElems
  <2>2. Len(ld) = n + 1 /\ ld[n + 1] = Run(c, 1) /\ \A i \in 1..n : ld[i] = d[i]
    <3>1. Symbol(d[Len(d)]) # c BY <1>2, <1>7, <1>9
    <3>2. /\ Len(ld) = Len(d) + 1 /\ ld[Len(d) + 1] = Run(c, 1)
          /\ \A i \in 1..Len(d) : ld[i] = d[i]
      BY <1>2, <3>1, LongerElems
    <3> HIDE DEF ld
    <3> QED BY <3>2, <1>2
  <2> HIDE DEF lb, ld, x
  <2>3. Symbol(lb[1]) = Symbol(b[1]) BY <1>1, <2>1
  <2>4. ASSUME NEW i \in 1..(n + 1) PROVE ld[i] = x[i]
    <3>1. CASE i = 1
      <4>1. ld[1] = d[1] /\ lb[1] = b[1] BY <1>1, <2>1, <2>2
      <4> QED BY <3>1, <4>1, <1>2, <1>4
    <3>2. CASE i # 1 /\ i = n + 1
      <4>1. i \in 2..Len(lb) BY <3>2, <1>1, <2>1
      <4> QED BY <3>2, <4>1, <1>4, <2>1, <2>2
    <3>3. CASE i # 1 /\ i # n + 1
      <4>1. i \in 2..n /\ i \in 1..n /\ i \in 2..Len(lb) BY <3>3, <1>1, <2>1
      <4> QED BY <4>1, <1>2, <1>4, <2>1, <2>2
    <3> QED BY <3>1, <3>2, <3>3
  <2>5. ld = x BY <1>4, <1>5, <2>1, <2>2, <2>4, SeqEqual
  <2> QED BY <2>3, <2>5 DEF lb, ld, x, d
<1> QED BY <1>8, <1>9

LEMMA Front ==
  ASSUME NEW S, NEW a \in Seq(S), a # <<>>
  PROVE  /\ SubSeq(a, 1, Len(a) - 1) \in Seq(S) /\ Len(SubSeq(a, 1, Len(a) - 1)) = Len(a) - 1
         /\ \A i \in 1..(Len(a) - 1) : SubSeq(a, 1, Len(a) - 1)[i] = a[i]
<1>1. Len(a) \in Nat \ {0} BY Ends
<1> DEFINE n == Len(a) - 1
<1>2. 1 \in Int /\ n \in Int /\ n >= 0 /\ \A i \in 1..n : a[i] \in S BY <1>1, ElementOfSeq
<1> HIDE DEF n
<1>3. /\ SubSeq(a, 1, n) \in Seq(S) /\ Len(SubSeq(a, 1, n)) = IF 1 <= n THEN n - 1 + 1 ELSE 0
      /\ \A i \in 1..(n - 1 + 1) : SubSeq(a, 1, n)[i] = a[1 + i - 1]
  BY <1>2, SubSeqProperties
<1>4. Len(SubSeq(a, 1, n)) = n /\ \A i \in 1..n : SubSeq(a, 1, n)[i] = a[i] BY <1>2, <1>3
<1> QED BY <1>3, <1>4 DEF n

LEMMA JoinedLonger ==
  ASSUME NEW a \in Seq(RunElems), a # <<>>, NEW b \in Seq(RunElems), b # <<>>, NEW c \in Nat
  PROVE  Longer(Joined(a, b), c) = Joined(a, Longer(b, c))
<1> DEFINE k == Freq(a[Len(a)])
           u == SubSeq(a, 1, Len(a) - 1)
<1>1. k \in Nat /\ u \in Seq(RunElems) BY Ends, RunFacts, Front
<1>2. AddFirst(b, k) \in Seq(RunElems) /\ AddFirst(b, k) # <<>> BY <1>1, AddFirstFacts
<1>3. /\ Longer(AddFirst(b, k), c) = AddFirst(Longer(b, c), k)
      /\ Symbol(Longer(b, c)[1]) = Symbol(b[1])
  BY <1>1, LongerAddFirst
<1>4. CASE Symbol(a[Len(a)]) = Symbol(b[1])
  <2>1. Joined(a, b) = u \o AddFirst(b, k) BY <1>4 DEF Joined
  <2>2. Joined(a, Longer(b, c)) = u \o AddFirst(Longer(b, c), k) BY <1>3, <1>4 DEF Joined
  <2>3. Longer(u \o AddFirst(b, k), c) = u \o Longer(AddFirst(b, k), c) BY <1>1, <1>2, LongerConcat
  <2> QED BY <1>3, <2>1, <2>2, <2>3
<1>5. CASE Symbol(a[Len(a)]) # Symbol(b[1])
  <2>1. Joined(a, b) = a \o b BY <1>5 DEF Joined
  <2>2. Joined(a, Longer(b, c)) = a \o Longer(b, c) BY <1>3, <1>5 DEF Joined
  <2> QED BY <2>1, <2>2, LongerConcat
<1> QED BY <1>4, <1>5

LEMMA RunsNotEmpty ==
  ASSUME NEW s \in Seq(One), s # <<>>
  PROVE  RunsOf(s) \in Seq(RunElems) /\ RunsOf(s) # <<>>
<1>1. PICK t \in Seq(One), x \in One : s = Append(t, x) BY SequenceEmptyOrAppend
<1>2. RunsOf(s) = Longer(RunsOf(t), x[1]) BY <1>1, RunsOfRules
<1> QED BY <1>2, RunsOfRules, OneFacts, LongerFacts

LEMMA RunsOfOne ==
  ASSUME NEW x \in One
  PROVE  RunsOf(Append(<<>>, x)) = <<Run(x[1], 1)>>
<1>1. <<>> \in Seq(One) BY EmptySeq
<1>2. RunsOf(Append(<<>>, x)) = Longer(<<>>, x[1]) BY <1>1, RunsOfRules
<1> QED BY <1>2 DEF Longer

(* The runs of two parts are joined at the border.                         *)
LEMMA RunsConcat ==
  ASSUME NEW s \in Seq(One), s # <<>>, NEW t \in Seq(One), t # <<>>
  PROVE  RunsOf(s \o t) = Joined(RunsOf(s), RunsOf(t))
<1> DEFINE a == RunsOf(s)
           T == {u \in Seq(One) : u # <<>> => RunsOf(s \o u) = Joined(a, RunsOf(u))}
<1>1. a \in Seq(RunElems) /\ a # <<>> BY RunsNotEmpty
<1>2. <<>> \in T BY EmptySeq
<1>3. ASSUME NEW u \in Seq(One), NEW x \in One, u \in T PROVE Append(u, x) \in T
  <2>1. s \o u \in Seq(One) /\ Append(u, x) \in Seq(One) /\ x[1] \in Nat
    BY ConcatProperties, AppendProperties, OneFacts
  <2>2. RunsOf(s \o Append(u, x)) = Longer(RunsOf(s \o u), x[1])
    <3>1. s \o Append(u, x) = Append(s \o u, x) BY ConcatAppend
    <3>2. RunsOf(Append(s \o u, x)) = Longer(RunsOf(s \o u), x[1]) BY <2>1, RunsOfRules
    <3> QED BY <3>1, <3>2
  <2>3. CASE u # <<>>
    <3>1. RunsOf(s \o u) = Joined(a, RunsOf(u)) BY <2>3, <1>3
    <3>2. RunsOf(u) \in Seq(RunElems) /\ RunsOf(u) # <<>> BY <2>3, RunsNotEmpty
    <3>3. RunsOf(Append(u, x)) = Longer(RunsOf(u), x[1]) BY RunsOfRules
    <3>4. Longer(Joined(a, RunsOf(u)), x[1]) = Joined(a, Longer(RunsOf(u), x[1]))
      <4> HIDE DEF a
      <4> QED BY <1>1, <2>1, <3>2, JoinedLonger
    <3>5. RunsOf(s \o Append(u, x)) = Joined(a, RunsOf(Append(u, x))) BY <2>2, <3>1, <3>3, <3>4
    <3> QED BY <2>1, <3>5
  <2>4. CASE u = <<>>
    <3> DEFINE c == x[1]
               n == Len(a)
               b == <<Run(c, 1)>>
    <3>1. RunsOf(Append(u, x)) = b BY <2>4, RunsOfOne
    <3>2. s \o u = s BY <2>4, ConcatEmptySeq
    <3>3. RunsOf(s \o Append(u, x)) = Longer(a, c) BY <2>2, <3>2
    <3>4. n \in Nat \ {0} /\ a[n] \in RunElems /\ Freq(a[n]) \in Nat BY <1>1, Ends, RunFacts
    <3>5. /\ Run(c, 1) \in RunElems /\ Symbol(Run(c, 1)) = c /\ Freq(Run(c, 1)) = 1
          /\ Run(c, Freq(a[n]) + 1) \in RunElems
      BY <2>1, <3>4, RunMade
    <3>6. b \in Seq(RunElems) /\ Len(b) = 1 /\ b[1] = Run(c, 1) BY <3>5
    <3> HIDE DEF a, b
    <3>7. Longer(a, c) = Joined(a, b)
      <4>1. CASE Symbol(a[n]) = c
        <5> DEFINE f == SubSeq(a, 1, n - 1)
                   e == <<Run(c, Freq(a[n]) + 1)>>
        <5>1. AddFirst(b, Freq(a[n])) = e
          <6>1. 1 + Freq(a[n]) = Freq(a[n]) + 1 BY <3>4
          <6> QED BY <3>5, <6>1 DEF AddFirst, b
        <5>2. Joined(a, b) = f \o e BY <4>1, <3>5, <3>6, <5>1 DEF Joined
        <5>3. f \in Seq(RunElems) /\ Len(f) = n - 1 /\ \A i \in 1..(n - 1) : f[i] = a[i] BY <1>1, Front
        <5>4. e \in Seq(RunElems) /\ Len(e) = 1 /\ e[1] = Run(c, Freq(a[n]) + 1) BY <3>5
        <5> DEFINE la == Longer(a, c)
                   g == f \o e
        <5>5. /\ la \in Seq(RunElems) /\ Len(la) = n /\ la[n] = Run(c, Freq(a[n]) + 1)
              /\ \A i \in 1..n : i # n => la[i] = a[i]
          BY <1>1, <2>1, <4>1, LongerFacts, LongerElems
        <5> HIDE DEF f, e, la
        <5>6. /\ g \in Seq(RunElems) /\ Len(g) = n
              /\ \A i \in 1..n : g[i] = IF i <= n - 1 THEN f[i] ELSE e[i - (n - 1)]
          <6>1. /\ g \in Seq(RunElems) /\ Len(g) = Len(f) + Len(e)
                /\ \A i \in 1..(Len(f) + Len(e)) : g[i] = IF i <= Len(f) THEN f[i] ELSE e[i - Len(f)]
            BY <5>3, <5>4, ConcatProperties
          <6>2. Len(f) + Len(e) = n BY <3>4, <5>3, <5>4
          <6> HIDE DEF g
          <6> QED BY <6>1, <6>2, <5>3
        <5> HIDE DEF g
        <5>7. ASSUME NEW i \in 1..n PROVE la[i] = g[i]
          <6>1. CASE i = n
            <7>1. ~ (i <= n - 1) /\ i - (n - 1) = 1 BY <6>1, <3>4
            <7> QED BY <6>1, <7>1, <5>4, <5>5, <5>6
          <6>2. CASE i # n
            <7>1. i \in 1..(n - 1) /\ i <= n - 1 BY <6>2, <3>4
            <7> QED BY <6>2, <7>1, <5>3, <5>5, <5>6
          <6> QED BY <6>1, <6>2
        <5>8. la = g BY <5>5, <5>6, <5>7, SeqEqual
        <5> QED BY <5>2, <5>8 DEF la, g
      <4>2. CASE Symbol(a[n]) # c
        <5>1. Longer(a, c) = Append(a, Run(c, 1)) BY <4>2 DEF Longer
        <5>2. Joined(a, b) = a \o b BY <4>2, <3>5, <3>6 DEF Joined
        <5> QED BY <5>1, <5>2, <1>1, <3>5, AppendIsConcat DEF b
      <4> QED BY <4>1, <4>2
    <3>8. RunsOf(s \o Append(u, x)) = Joined(a, RunsOf(Append(u, x))) BY <3>1, <3>3, <3>7
    <3> QED BY <2>1, <3>8
  <2> QED BY <2>3, <2>4
<1> HIDE DEF T
<1>4. Seq(One) \subseteq T BY <1>2, <1>3, SeqSets
<1> QED BY <1>4 DEF T

(* Runs are read back from the symbols they stand for, if neighbours       *)
(* differ.                                                                 *)
LEMMA RunsRepeat ==
  ASSUME NEW s \in Seq(One), NEW c \in Nat, NEW f \in Nat \ {0},
         RunsOf(s) # <<>> => Symbol(RunsOf(s)[Len(RunsOf(s))]) # c
  PROVE  RunsOf(s \o Repeat(c, f)) = Append(RunsOf(s), Run(c, f))
<1> DEFINE a == RunsOf(s)
           N == {k \in Nat : RunsOf(s \o Repeat(c, k + 1)) = Append(a, Run(c, k + 1))}
<1>1. a \in Seq(RunElems) BY RunsOfRules
<1>2. <<c>> \in One /\ <<c>>[1] = c BY DEF One
<1>3. ASSUME NEW k \in Nat
      PROVE  RunsOf(s \o Repeat(c, k + 1)) = Longer(RunsOf(s \o Repeat(c, k)), c)
  <2>1. Repeat(c, k) \in Seq(One) /\ Len(Repeat(c, k)) = k
        /\ Repeat(c, k + 1) \in Seq(One) /\ Len(Repeat(c, k + 1)) = k + 1
        /\ (\A j \in 1..k : Repeat(c, k)[j] = <<c>>) /\ \A j \in 1..(k + 1) : Repeat(c, k + 1)[j] = <<c>>
    <3> DEFINE m == k + 1
    <3>1. m \in Nat OBVIOUS
    <3> HIDE DEF m
    <3>2. /\ Repeat(c, m) \in Seq(One) /\ Len(Repeat(c, m)) = m
          /\ \A j \in 1..m : Repeat(c, m)[j] = <<c>>
      BY <3>1, RepeatFacts
    <3>3. /\ Repeat(c, k) \in Seq(One) /\ Len(Repeat(c, k)) = k
          /\ \A j \in 1..k : Repeat(c, k)[j] = <<c>>
      BY RepeatFacts
    <3> QED BY <3>2, <3>3 DEF m
  <2> DEFINE p == Append(Repeat(c, k), <<c>>)
  <2>2. /\ p \in Seq(One) /\ Len(p) = k + 1 /\ p[k + 1] = <<c>>
        /\ \A j \in 1..k : p[j] = Repeat(c, k)[j]
    BY <1>2, <2>1, AppendProperties
  <2> HIDE DEF p
  <2>3. \A j \in 1..(k + 1) : p[j] = Repeat(c, k + 1)[j]
    <3> SUFFICES ASSUME NEW j \in 1..(k + 1) PROVE p[j] = <<c>> BY <2>1
    <3>1. j = k + 1 \/ j \in 1..k OBVIOUS
    <3> QED BY <3>1, <2>1, <2>2
  <2>4. p = Repeat(c, k + 1) BY <2>1, <2>2, <2>3, SeqEqual
  <2>5. s \o Repeat(c, k) \in Seq(One) BY <2>1, ConcatProperties
  <2>6. s \o p = Append(s \o Repeat(c, k), <<c>>) BY <1>2, <2>1, ConcatAppend DEF p
  <2>7. RunsOf(Append(s \o Repeat(c, k), <<c>>)) = Longer(RunsOf(s \o Repeat(c, k)), c)
    BY <1>2, <2>5, RunsOfRules
  <2> QED BY <2>4, <2>6, <2>7
<1>4. Longer(a, c) = Append(a, Run(c, 1)) BY DEF Longer
<1>5. 0 \in N
  <2>1. s \o Repeat(c, 0) = s
    <3>1. Repeat(c, 0) = <<>> BY EmptySeq, RepeatFacts
    <3> QED BY <3>1, ConcatEmptySeq
  <2>2. RunsOf(s \o Repeat(c, 0 + 1)) = Longer(a, c) BY <1>3, <2>1
  <2> QED BY <2>2, <1>4
<1>6. ASSUME NEW k \in Nat, k \in N PROVE k + 1 \in N
  <2> DEFINE r == Run(c, k + 1)
             b == Append(a, r)
  <2>1. RunsOf(s \o Repeat(c, k + 1)) = b BY <1>6
  <2>2. RunsOf(s \o Repeat(c, (k + 1) + 1)) = Longer(b, c)
    <3> DEFINE j == k + 1
    <3>1. j \in Nat /\ RunsOf(s \o Repeat(c, j)) = b BY <2>1
    <3> HIDE DEF j, b
    <3>2. RunsOf(s \o Repeat(c, j + 1)) = Longer(RunsOf(s \o Repeat(c, j)), c) BY <1>3, <3>1
    <3> QED BY <3>1, <3>2 DEF j
  <2>3. r \in RunElems /\ Symbol(r) = c /\ Freq(r) = k + 1 BY RunMade
  <2>4. Run(c, (k + 1) + 1) \in RunElems BY RunMade
  <2> HIDE DEF r, a
  <2>5. /\ b \in Seq(RunElems) /\ b # <<>> /\ Len(b) = Len(a) + 1 /\ b[Len(a) + 1] = r
        /\ \A i \in 1..Len(a) : b[i] = a[i]
    BY <1>1, <2>3, AppendProperties
  <2> DEFINE d == Append(a, Run(c, (k + 1) + 1))
             lb == Longer(b, c)
  <2>6. /\ d \in Seq(RunElems) /\ Len(d) = Len(a) + 1 /\ d[Len(a) + 1] = Run(c, (k + 1) + 1)
        /\ \A i \in 1..Len(a) : d[i] = a[i]
    BY <1>1, <2>4, AppendProperties
  <2> HIDE DEF b
  <2>7. lb \in Seq(RunElems) BY <2>5, LongerFacts
  <2>8. /\ Len(lb) = Len(b) /\ lb[Len(b)] = Run(c, Freq(b[Len(b)]) + 1)
        /\ \A i \in 1..Len(b) : i # Len(b) => lb[i] = b[i]
    BY <2>3, <2>5, LongerElems
  <2>9. Len(a) \in Nat BY <1>1, LenProperties
  <2> HIDE DEF d, lb
  <2>10. ASSUME NEW i \in 1..Len(d) PROVE lb[i] = d[i]
    <3>1. CASE i = Len(a) + 1 BY <3>1, <2>3, <2>5, <2>6, <2>8
    <3>2. CASE i # Len(a) + 1
      <4>1. i \in 1..Len(a) /\ i \in 1..Len(b) /\ i # Len(b) BY <3>2, <2>5, <2>6, <2>9
      <4> QED BY <4>1, <2>5, <2>6, <2>8
    <3> QED BY <3>1, <3>2
  <2>11. Len(lb) = Len(d) BY <2>5, <2>6, <2>8
  <2>12. lb = d BY <2>6, <2>7, <2>10, <2>11, SeqEqual
  <2> QED BY <2>2, <2>12 DEF d, lb
<1> HIDE DEF N
<1>7. Nat \subseteq N BY <1>5, <1>6, NatSets
<1>8. f - 1 \in N /\ (f - 1) + 1 = f BY <1>7
<1> QED BY <1>8 DEF N

PlainRuns(g) == \A i \in 1..(Len(g) - 1) : Symbol(g[i]) # Symbol(g[i + 1])

LEMMA RunsOfSymbols ==
  ASSUME NEW g \in Seq(RunElems), PlainRuns(g)
  PROVE  RunsOf(SymbolsOf(g)) = g
<1> DEFINE T == {h \in Seq(RunElems) : PlainRuns(h) => RunsOf(SymbolsOf(h)) = h}
<1>1. <<>> \in T BY EmptySeq, SymbolsOfRules, RunsOfRules
<1>2. ASSUME NEW h \in Seq(RunElems), NEW x \in RunElems, h \in T PROVE Append(h, x) \in T
  <2> DEFINE u == Append(h, x)
  <2>1. /\ u \in Seq(RunElems) /\ Len(u) = Len(h) + 1 /\ u[Len(h) + 1] = x
        /\ \A i \in 1..Len(h) : u[i] = h[i]
    BY AppendProperties
  <2>2. Len(h) \in Nat BY LenProperties
  <2> SUFFICES ASSUME PlainRuns(u) PROVE RunsOf(SymbolsOf(u)) = u BY <2>1
  <2>3. SymbolsOf(u) = SymbolsOf(h) \o Repeat(Symbol(x), Freq(x)) BY SymbolsOfRules
  <2> HIDE DEF u
  <2>4. PlainRuns(h)
    <3> SUFFICES ASSUME NEW i \in 1..(Len(h) - 1) PROVE Symbol(h[i]) # Symbol(h[i + 1]) BY DEF PlainRuns
    <3>1. i \in 1..(Len(u) - 1) /\ i \in 1..Len(h) /\ i + 1 \in 1..Len(h) BY <2>1, <2>2
    <3> QED BY <3>1, <2>1 DEF PlainRuns
  <2>5. RunsOf(SymbolsOf(h)) = h BY <1>2, <2>4
  <2>6. h # <<>> => Symbol(h[Len(h)]) # Symbol(x)
    <3> SUFFICES ASSUME h # <<>> PROVE Symbol(h[Len(h)]) # Symbol(x) OBVIOUS
    <3>1. Len(h) \in 1..(Len(u) - 1) /\ Len(h) \in 1..Len(h) BY <2>1, Ends
    <3> QED BY <3>1, <2>1 DEF PlainRuns
  <2>7. Symbol(x) \in Nat /\ Freq(x) \in Nat \ {0} /\ x = Run(Symbol(x), Freq(x)) BY RunFacts
  <2>8. SymbolsOf(h) \in Seq(One) BY SymbolsOfRules
  <2>9. RunsOf(SymbolsOf(h) \o Repeat(Symbol(x), Freq(x)))
          = Append(RunsOf(SymbolsOf(h)), Run(Symbol(x), Freq(x)))
    BY <2>5, <2>6, <2>7, <2>8, RunsRepeat
  <2> QED BY <2>3, <2>5, <2>7, <2>9 DEF u
<1> HIDE DEF T
<1>3. Seq(RunElems) \subseteq T BY <1>1, <1>2, SeqSets
<1> QED BY <1>3 DEF T

-----------------------------------------------------------------------------
(* Dynamic arrays                                                          *)

Das == {da \in [elems : Seq(Elem), next_idx : Nat, alloc_grain : Nat \ {0}, moved : Nat] :
          da.next_idx <= Len(da.elems)}

LEMMA DaFacts ==
  ASSUME NEW da \in Das
  PROVE  /\ da.elems \in Seq(Elem) /\ Len(da.elems) \in Nat /\ da.next_idx \in Nat
         /\ da.next_idx <= Len(da.elems) /\ da.alloc_grain \in Nat \ {0} /\ da.moved \in Nat
         /\ \A i \in 1..Len(da.elems) : da.elems[i] \in Elem
         /\ DOMAIN da.elems = 1..Len(da.elems)
<1>1. da.elems \in Seq(Elem) /\ da.next_idx <= Len(da.elems) BY DEF Das
<1>2. da.next_idx \in Nat /\ da.alloc_grain \in Nat \ {0} /\ da.moved \in Nat BY DEF Das
<1> QED BY <1>1, <1>2, LenProperties, ElementOfSeq

(* The first k elements of an array.                                       *)
LEMMA FirstElems ==
  ASSUME NEW da \in Das, NEW k \in 0..Len(da.elems)
  PROVE  /\ SubSeq(da.elems, 1, k) \in Seq(Elem) /\ Len(SubSeq(da.elems, 1, k)) = k
         /\ \A i \in 1..k : SubSeq(da.elems, 1, k)[i] = da.elems[i]
<1> DEFINE e == da.elems
<1>1. e \in Seq(Elem) /\ Len(e) \in Nat /\ \A i \in 1..Len(e) : e[i] \in Elem BY DaFacts
<1> HIDE DEF e
<1>2. 1 \in Int /\ k \in Int /\ k >= 0 /\ k <= Len(e) BY <1>1 DEF e
<1>3. \A i \in 1..k : e[i] \in Elem BY <1>1, <1>2
<1>4. /\ SubSeq(e, 1, k) \in Seq(Elem) /\ Len(SubSeq(e, 1, k)) = IF 1 <= k THEN k - 1 + 1 ELSE 0
      /\ \A i \in 1..(k - 1 + 1) : SubSeq(e, 1, k)[i] = e[1 + i - 1]
  BY <1>2, <1>3, SubSeqProperties
<1>5. Len(SubSeq(e, 1, k)) = k /\ \A i \in 1..k : SubSeq(e, 1, k)[i] = e[i] BY <1>2, <1>4
<1> QED BY <1>4, <1>5 DEF e

LEMMA ContentsFacts ==
  ASSUME NEW da \in Das
  PROVE  /\ Contents(da) \in Seq(Elem) /\ Len(Contents(da)) = da.next_idx
         /\ \A i \in 1..da.next_idx : Contents(da)[i] = da.elems[i]
<1>1. da.next_idx \in 0..Len(da.elems) BY DaFacts
<1> QED BY <1>1, FirstElems DEF Contents

LEMMA FreshFacts ==
  ASSUME NEW n \in Nat
  PROVE  Fresh(n) \in Seq(Elem) /\ Len(Fresh(n)) = n
<1>1. Junk \in Elem BY DEF Elem
<1> QED BY <1>1 DEF Fresh

LEMMA RoundUpFacts ==
  ASSUME NEW x \in Nat, NEW y \in Nat \ {0}
  PROVE  RoundUp(x, y) \in Nat
<1>1. x + (y - 1) \in Nat OBVIOUS
<1>2. (x + (y - 1)) \div y \in Nat BY <1>1
<1> QED BY <1>2 DEF RoundUp

LEMMA InitFacts ==
  ASSUME NEW grain \in Nat \ {0}, NEW nr \in Nat
  PROVE  DaInit(grain, nr) \in Das /\ Contents(DaInit(grain, nr)) = <<>>
<1> DEFINE n == IF nr = 0 THEN grain ELSE RoundUp(nr, grain)
           da == DaInit(grain, nr)
<1>1. n \in Nat BY RoundUpFacts
<1> HIDE DEF n
<1>2. da = [elems |-> Fresh(n), next_idx |-> 0, alloc_grain |-> grain, moved |-> 0] BY DEF DaInit, n
<1>3. da \in Das BY <1>1, <1>2, FreshFacts DEF Das
<1>4. da.next_idx = 0 BY <1>2
<1> HIDE DEF da
<1>5. Contents(da) = <<>> BY <1>3, <1>4, ContentsFacts, EmptySeq
<1> QED BY <1>3, <1>5 DEF da

LEMMA ExpandFacts ==
  ASSUME NEW da \in Das, NEW k \in Nat, NEW moves \in BOOLEAN
  PROVE  LET d == DaExpand(da, k, moves)
         IN  /\ d \in Das /\ d.next_idx = da.next_idx /\ d.alloc_grain = da.alloc_grain
             /\ Len(d.elems) = Len(da.elems) + k * da.alloc_grain
             /\ \A i \in 1..Len(da.elems) : d.elems[i] = da.elems[i]
<1> DEFINE g == k * da.alloc_grain
           e == da.elems \o Fresh(g)
           m == IF moves /\ k > 0 THEN da.moved + 1 ELSE da.moved
<1>1. g \in Nat BY DaFacts
<1> HIDE DEF g
<1>2. /\ e \in Seq(Elem) /\ Len(e) = Len(da.elems) + g
      /\ \A i \in 1..Len(da.elems) : e[i] = da.elems[i]
  <2>1. Fresh(g) \in Seq(Elem) /\ Len(Fresh(g)) = g BY <1>1, FreshFacts
  <2>2. /\ e \in Seq(Elem) /\ Len(e) = Len(da.elems) + Len(Fresh(g))
        /\ \A i \in 1..(Len(da.elems) + Len(Fresh(g))) :
             e[i] = IF i <= Len(da.elems) THEN da.elems[i] ELSE Fresh(g)[i - Len(da.elems)]
    BY <2>1, DaFacts, ConcatProperties
  <2>3. Len(da.elems) \in Nat BY DaFacts
  <2> HIDE DEF e
  <2> QED BY <1>1, <2>1, <2>2, <2>3
<1>3. m \in Nat BY DaFacts
<1> HIDE DEF e, m
<1>4. DaExpand(da, k, moves) = [da EXCEPT !.elems = e, !.moved = m] BY DEF DaExpand, e, m, g
<1>5. da.next_idx <= Len(e) BY <1>1, <1>2, DaFacts
<1> DEFINE d == [da EXCEPT !.elems = e, !.moved = m]
<1>6. d \in Das /\ d.next_idx = da.next_idx /\ d.alloc_grain = da.alloc_grain /\ d.elems = e
  BY <1>2, <1>3, <1>5 DEF Das
<1> HIDE DEF d
<1>7. DaExpand(da, k, moves) = d BY <1>4 DEF d
<1> QED BY <1>2, <1>6, <1>7 DEF g

(* Room for one more: what dynarray_alloc and prepare make sure of.        *)
Roomy(da, moves) == DaExpand(da, IF da.next_idx >= Len(da.elems) THEN 1 ELSE 0, moves)

LEMMA RoomyFacts ==
  ASSUME NEW da \in Das, NEW moves \in BOOLEAN
  PROVE  /\ Roomy(da, moves) \in Das /\ Roomy(da, moves).next_idx = da.next_idx
         /\ da.next_idx < Len(Roomy(da, moves).elems)
         /\ \A i \in 1..Len(da.elems) : Roomy(da, moves).elems[i] = da.elems[i]
         /\ Len(Roomy(da, moves).elems) >= Len(da.elems)
<1> DEFINE k == IF da.next_idx >= Len(da.elems) THEN 1 ELSE 0
           d == DaExpand(da, k, moves)
<1>1. k \in {0, 1} /\ k \in Nat OBVIOUS
<1>2. /\ Len(da.elems) \in Nat /\ da.next_idx \in Nat /\ da.next_idx <= Len(da.elems)
      /\ da.alloc_grain \in Nat \ {0}
  BY DaFacts
<1>3. da.next_idx < Len(da.elems) + k * da.alloc_grain
  <2>1. CASE da.next_idx >= Len(da.elems)
    <3>1. k = 1 /\ k * da.alloc_grain = da.alloc_grain BY <2>1, <1>2
    <3> QED BY <3>1, <1>2
  <2>2. CASE ~ (da.next_idx >= Len(da.elems))
    <3>1. k = 0 /\ k * da.alloc_grain = 0 BY <2>2, <1>2
    <3> QED BY <3>1, <2>2, <1>2
  <2> QED BY <2>1, <2>2
<1>5. k * da.alloc_grain \in Nat BY <1>1, <1>2
<1>4. Roomy(da, moves) = d BY DEF Roomy
<1> HIDE DEF k
<1>6. /\ d \in Das /\ d.next_idx = da.next_idx /\ Len(d.elems) = Len(da.elems) + k * da.alloc_grain
      /\ \A i \in 1..Len(da.elems) : d.elems[i] = da.elems[i]
  BY <1>1, ExpandFacts
<1> HIDE DEF d
<1> QED BY <1>2, <1>3, <1>4, <1>5, <1>6

(* A store within the array, through a pointer to it.                      *)
LEMMA StoreFacts ==
  ASSUME NEW da \in Das, NEW ptr, ptr.moved = da.moved, ptr.idx \in 0..(Len(da.elems) - 1),
         NEW v \in Elem
  PROVE  LET d == Store(da, ptr, v)
         IN  /\ d \in Das /\ d.next_idx = da.next_idx /\ d.moved = da.moved
             /\ Len(d.elems) = Len(da.elems)
             /\ \A i \in 1..Len(da.elems) : d.elems[i] = IF i = ptr.idx + 1 THEN v ELSE da.elems[i]
<1> DEFINE j == ptr.idx + 1
           e == [da.elems EXCEPT ![j] = v]
           d == [da EXCEPT !.elems = e]
<1>1. j \in 1..Len(da.elems) /\ da.elems \in Seq(Elem) BY DaFacts
<1> HIDE DEF j
<1>2. /\ e \in Seq(Elem) /\ Len(e) = Len(da.elems)
      /\ \A i \in 1..Len(da.elems) : e[i] = IF i = j THEN v ELSE da.elems[i]
  BY <1>1, ExceptSeq
<1>3. Store(da, ptr, v) = d BY DEF Store, j
<1> HIDE DEF e
<1>4. /\ d \in Das /\ d.next_idx = da.next_idx /\ d.moved = da.moved /\ d.elems = e
  BY <1>2, DaFacts DEF Das
<1> HIDE DEF d
<1> QED BY <1>2, <1>3, <1>4 DEF j

LEMMA AppendOneFacts ==
  ASSUME NEW da \in Das, NEW v \in Elem, NEW moves \in BOOLEAN
  PROVE  /\ AppendOne(da, v, moves) \in Das
         /\ Contents(AppendOne(da, v, moves)) = Append(Contents(da), v)
<1> DEFINE r == Roomy(da, moves)
           d == DaAlloc(da, moves)
           n == da.next_idx
           ptr == PointerTo(d, d.next_idx - 1)
           e == AppendOne(da, v, moves)
<1>1. /\ r \in Das /\ r.next_idx = n /\ n < Len(r.elems) /\ n \in Nat /\ n <= Len(da.elems)
      /\ \A i \in 1..n : r.elems[i] = da.elems[i]
  BY RoomyFacts, DaFacts
<1>2. d = [r EXCEPT !.next_idx = @ + 1] BY DEF DaAlloc, Roomy
<1>3. Len(r.elems) \in Nat BY <1>1, DaFacts
<1> HIDE DEF r
<1>4. d \in Das /\ d.next_idx = n + 1 /\ d.elems = r.elems BY <1>1, <1>2, <1>3 DEF Das
<1>5. e = Store(d, ptr, v) BY DEF AppendOne
<1> HIDE DEF d, e
<1>6. ptr.moved = d.moved /\ ptr.idx = n BY <1>1, <1>4 DEF PointerTo
<1>7. ptr.idx \in 0..(Len(d.elems) - 1) BY <1>1, <1>3, <1>4, <1>6
<1> HIDE DEF ptr
<1>8. /\ e \in Das /\ e.next_idx = n + 1 /\ Len(e.elems) = Len(r.elems)
      /\ \A i \in 1..Len(r.elems) : e.elems[i] = IF i = n + 1 THEN v ELSE r.elems[i]
  <2> DEFINE S == Store(d, ptr, v)
  <2>1. /\ S \in Das /\ S.next_idx = d.next_idx /\ Len(S.elems) = Len(d.elems)
        /\ \A i \in 1..Len(d.elems) : S.elems[i] = IF i = ptr.idx + 1 THEN v ELSE d.elems[i]
    BY <1>4, <1>6, <1>7, StoreFacts
  <2> HIDE DEF S
  <2>2. e = S BY <1>5 DEF S
  <2> QED BY <2>1, <2>2, <1>4, <1>6
<1> DEFINE c == Contents(e)
           a == Append(Contents(da), v)
<1>9. c \in Seq(Elem) /\ Len(c) = n + 1 /\ \A i \in 1..(n + 1) : c[i] = e.elems[i]
  BY <1>8, ContentsFacts
<1>10. /\ Contents(da) \in Seq(Elem) /\ Len(Contents(da)) = n
       /\ \A i \in 1..n : Contents(da)[i] = da.elems[i]
  BY ContentsFacts
<1>11. /\ a \in Seq(Elem) /\ Len(a) = n + 1 /\ a[n + 1] = v /\ \A i \in 1..n : a[i] = da.elems[i]
  BY <1>10, AppendProperties
<1> HIDE DEF c, a
<1>12. ASSUME NEW i \in 1..(n + 1) PROVE c[i] = a[i]
  <2>1. CASE i = n + 1 BY <2>1, <1>1, <1>3, <1>8, <1>9, <1>11
  <2>2. CASE i # n + 1
    <3>1. i \in 1..n /\ i \in 1..Len(r.elems) BY <2>2, <1>1, <1>3
    <3> QED BY <2>2, <3>1, <1>1, <1>8, <1>9, <1>11
  <2> QED BY <2>1, <2>2
<1>13. c = a BY <1>9, <1>11, <1>12, SeqEqual
<1> QED BY <1>8, <1>13 DEF e, c, a

LEMMA FillIs ==
  ASSUME NEW da, NEW s \in Seq(Elem), NEW moves, NEW F, Leads(F, da, Das, Elem),
         \A m \in Das, x \in Elem : F[<<m, x>>] = AppendOne(m, x, moves)
  PROVE  FillWith(da, s, moves) = Through(F, da, s)
<1> DEFINE Is(f) == f = [k \in 0..Len(s) |-> IF k = 0 THEN da ELSE AppendOne(f[k - 1], s[k], moves)]
           h == CHOOSE f : Is(f)
<1>1. Len(s) \in Nat /\ \A k \in 1..Len(s) : k - 1 \in 0..Len(s) /\ s[k] \in Elem
  BY LenProperties, ElementOfSeq
<1>2. PICK g \in [0..Len(s) -> Das] : GoesThrough(g, F, da, s) BY GoesThroughExists
<1>3. g[0] = da /\ \A k \in 1..Len(s) : g[k] = AppendOne(g[k - 1], s[k], moves)
  BY <1>1, <1>2 DEF GoesThrough
<1>4. Is(g) BY <1>1, <1>2, <1>3
<1>5. Is(h) BY <1>4
<1>6. FillWith(da, s, moves) = h[Len(s)] BY DEF FillWith
<1> HIDE DEF h
<1>7. h[0] = da /\ \A k \in 1..Len(s) : h[k] = AppendOne(h[k - 1], s[k], moves) BY <1>1, <1>5
<1>8. \A k \in 1..Len(s) : h[k - 1] \in Das => h[k] = F[<<h[k - 1], s[k]>>] BY <1>1, <1>7
<1>9. h[Len(s)] = Through(F, da, s) BY <1>7, <1>8, ThroughIs
<1> QED BY <1>6, <1>9

LEMMA FillFacts ==
  ASSUME NEW da \in Das, NEW s \in Seq(Elem), NEW moves \in BOOLEAN
  PROVE  /\ FillWith(da, s, moves) \in Das
         /\ Contents(FillWith(da, s, moves)) = Contents(da) \o s
<1> DEFINE F == [p \in Das \X Elem |-> AppendOne(p[1], p[2], moves)]
           T == {t \in Seq(Elem) : Contents(Through(F, da, t)) = Contents(da) \o t}
<1>1. Leads(F, da, Das, Elem) BY AppendOneFacts DEF Leads
<1>2. \A m \in Das, x \in Elem : F[<<m, x>>] = AppendOne(m, x, moves) OBVIOUS
<1> HIDE DEF F
<1>3. /\ Through(F, da, <<>>) = da
      /\ \A t \in Seq(Elem) : Through(F, da, t) \in Das
      /\ \A t \in Seq(Elem), x \in Elem : Through(F, da, Append(t, x)) = F[<<Through(F, da, t), x>>]
  BY <1>1, ThroughRules
<1>4. FillWith(da, s, moves) = Through(F, da, s) BY <1>1, <1>2, FillIs
<1>5. Contents(da) \in Seq(Elem) BY ContentsFacts
<1>6. <<>> \in T BY <1>3, <1>5, ConcatEmptySeq, EmptySeq
<1>7. ASSUME NEW t \in Seq(Elem), NEW x \in Elem, t \in T PROVE Append(t, x) \in T
  <2> DEFINE d == Through(F, da, t)
  <2>1. d \in Das /\ Through(F, da, Append(t, x)) = AppendOne(d, x, moves) BY <1>2, <1>3
  <2>2. Contents(d) = Contents(da) \o t BY <1>7
  <2> HIDE DEF d
  <2>3. Contents(AppendOne(d, x, moves)) = Append(Contents(d), x) BY <2>1, AppendOneFacts
  <2>4. Contents(da) \o Append(t, x) = Append(Contents(da) \o t, x) BY <1>5, ConcatAppend
  <2>5. Append(t, x) \in Seq(Elem) BY AppendProperties
  <2> QED BY <2>1, <2>2, <2>3, <2>4, <2>5
<1> HIDE DEF T
<1>8. Seq(Elem) \subseteq T BY <1>6, <1>7, SeqSets
<1> QED BY <1>3, <1>4, <1>8 DEF T

-----------------------------------------------------------------------------
(* Buffers                                                                 *)

(* A buffer of an array: the pointer is to the first element behind those  *)
(* of the array, and no move has come between.                             *)
Bufs ==
  {b \in [da : Das, ptr : [moved : Nat, idx : Nat], cap : Nat, n : Nat] :
     /\ b.ptr.moved = b.da.moved /\ b.ptr.idx = b.da.next_idx
     /\ b.cap = Len(b.da.elems) - b.da.next_idx /\ b.cap > 0 /\ b.n <= b.cap}

(* The array with what was put into the buffer.                            *)
Written(b) == SubSeq(b.da.elems, 1, b.da.next_idx + b.n)

LEMMA BufFacts ==
  ASSUME NEW b \in Bufs
  PROVE  /\ b.da \in Das /\ b.n \in Nat /\ b.cap \in Nat \ {0} /\ b.n <= b.cap
         /\ b.ptr \in [moved : Nat, idx : Nat]
         /\ b.ptr.moved = b.da.moved /\ b.ptr.idx = b.da.next_idx
         /\ b.cap = Len(b.da.elems) - b.da.next_idx
         /\ b.da.next_idx \in Nat /\ Len(b.da.elems) \in Nat
         /\ b.da.next_idx + b.n \in 0..Len(b.da.elems)
<1>1. /\ b.da \in Das /\ b.n \in Nat /\ b.cap \in Nat \ {0} /\ b.n <= b.cap
      /\ b.ptr \in [moved : Nat, idx : Nat]
      /\ b.ptr.moved = b.da.moved /\ b.ptr.idx = b.da.next_idx
      /\ b.cap = Len(b.da.elems) - b.da.next_idx
  BY DEF Bufs
<1>2. b.da.next_idx \in Nat /\ Len(b.da.elems) \in Nat BY <1>1, DaFacts
<1> QED BY <1>1, <1>2

LEMMA WrittenFacts ==
  ASSUME NEW b \in Bufs
  PROVE  /\ Written(b) \in Seq(Elem) /\ Len(Written(b)) = b.da.next_idx + b.n
         /\ \A i \in 1..(b.da.next_idx + b.n) : Written(b)[i] = b.da.elems[i]
BY BufFacts, FirstElems DEF Written

LEMMA PrepareFacts ==
  ASSUME NEW da \in Das, NEW moves \in BOOLEAN
  PROVE  LET b == AppendPrepare(da, moves)
         IN  b \in Bufs /\ Written(b) = Contents(da) /\ b.n = 0 /\ b.da.next_idx = da.next_idx
<1> DEFINE d == Roomy(da, moves)
           b == [da |-> d, ptr |-> PointerTo(d, d.next_idx), cap |-> Len(d.elems) - d.next_idx, n |-> 0]
           n == da.next_idx
<1>1. AppendPrepare(da, moves) = b BY DEF AppendPrepare, Roomy
<1>2. /\ d \in Das /\ d.next_idx = n /\ n < Len(d.elems) /\ n <= Len(da.elems) /\ n \in Nat
      /\ \A i \in 1..n : d.elems[i] = da.elems[i]
  BY RoomyFacts, DaFacts
<1> HIDE DEF d
<1>3. d.moved \in Nat /\ Len(d.elems) \in Nat BY <1>2, DaFacts
<1>4. PointerTo(d, d.next_idx) = [moved |-> d.moved, idx |-> n] BY <1>2 DEF PointerTo
<1>5. b \in Bufs /\ b.n = 0 /\ b.da = d BY <1>2, <1>3, <1>4 DEF Bufs
<1> HIDE DEF b
<1> DEFINE w == Written(b)
           c == Contents(da)
<1>6. w \in Seq(Elem) /\ Len(w) = n /\ \A i \in 1..n : w[i] = da.elems[i]
  BY <1>2, <1>5, WrittenFacts
<1>7. c \in Seq(Elem) /\ Len(c) = n /\ \A i \in 1..n : c[i] = da.elems[i] BY ContentsFacts
<1> HIDE DEF w, c
<1>8. w = c BY <1>6, <1>7, SeqEqual
<1> QED BY <1>1, <1>2, <1>5, <1>8 DEF w, c

LEMMA FinalizeFacts ==
  ASSUME NEW b \in Bufs
  PROVE  /\ AppendFinalize(b.da, b.n) \in Das
         /\ Contents(AppendFinalize(b.da, b.n)) = Written(b)
         /\ AppendFinalize(b.da, b.n).next_idx = Len(Written(b))
<1> DEFINE d == AppendFinalize(b.da, b.n)
           da == b.da
           k == b.da.next_idx + b.n
<1>1. da \in Das /\ b.n \in Nat /\ k \in 0..Len(da.elems) /\ k = da.next_idx + b.n BY BufFacts
<1>2. d = [da EXCEPT !.next_idx = k] BY DEF AppendFinalize
<1>4. Written(b) = SubSeq(da.elems, 1, k) BY DEF Written
<1>5. Len(Written(b)) = k BY WrittenFacts
<1> HIDE DEF da, k
<1>3. d \in Das /\ d.next_idx = k /\ d.elems = da.elems BY <1>1, <1>2 DEF Das
<1> HIDE DEF d
<1>6. Contents(d) = Written(b) BY <1>3, <1>4 DEF Contents
<1> QED BY <1>3, <1>5, <1>6 DEF d, da

(* A buffer record with another array and count.                           *)
LEMMA OtherArray ==
  ASSUME NEW D, NEW P, NEW b \in [da : D, ptr : P, cap : Nat, n : Nat], NEW d \in D, NEW m \in Nat
  PROVE  LET c == [b EXCEPT !.da = d, !.n = m]
         IN  /\ c \in [da : D, ptr : P, cap : Nat, n : Nat]
             /\ c.da = d /\ c.ptr = b.ptr /\ c.cap = b.cap /\ c.n = m
OBVIOUS

(* A store into the buffer.                                                *)
LEMMA PutInto ==
  ASSUME NEW b \in Bufs, b.n < b.cap, NEW v \in Elem
  PROVE  LET c == [b EXCEPT !.da = Store(b.da, [b.ptr EXCEPT !.idx = @ + b.n], v), !.n = @ + 1]
         IN  c \in Bufs /\ c.n = b.n + 1 /\ Written(c) = Append(Written(b), v)
<1> DEFINE p == [b.ptr EXCEPT !.idx = @ + b.n]
           d == Store(b.da, p, v)
           c == [b EXCEPT !.da = d, !.n = @ + 1]
           k == b.da.next_idx + b.n
<1>1. /\ b.da \in Das /\ b.n \in Nat /\ b.cap \in Nat /\ b.ptr.moved = b.da.moved
      /\ b.ptr.idx = b.da.next_idx /\ b.da.next_idx \in Nat /\ b.ptr \in [moved : Nat, idx : Nat]
      /\ b.cap = Len(b.da.elems) - b.da.next_idx /\ Len(b.da.elems) \in Nat
  BY BufFacts
<1>2. p.moved = b.da.moved /\ p.idx = k BY <1>1
<1>3. k \in 0..(Len(b.da.elems) - 1) /\ k \in Nat
  <2> DEFINE x == b.da.next_idx
             y == b.n
             z == b.cap
             l == Len(b.da.elems)
  <2>1. x \in Nat /\ y \in Nat /\ z \in Nat /\ l \in Nat /\ z = l - x /\ y < z BY <1>1
  <2>2. k = x + y OBVIOUS
  <2> HIDE DEF x, y, z, l, k
  <2>3. k \in 0..(l - 1) /\ k \in Nat BY <2>1, <2>2
  <2> QED BY <2>3 DEF l
<1> HIDE DEF p
<1>4. /\ d \in Das /\ d.next_idx = b.da.next_idx /\ d.moved = b.da.moved
      /\ Len(d.elems) = Len(b.da.elems)
      /\ \A i \in 1..Len(b.da.elems) : d.elems[i] = IF i = k + 1 THEN v ELSE b.da.elems[i]
  <2>1. p.idx \in 0..(Len(b.da.elems) - 1) BY <1>2, <1>3
  <2>2. /\ d \in Das /\ d.next_idx = b.da.next_idx /\ d.moved = b.da.moved
        /\ Len(d.elems) = Len(b.da.elems)
        /\ \A i \in 1..Len(b.da.elems) : d.elems[i] = IF i = p.idx + 1 THEN v ELSE b.da.elems[i]
    <3> DEFINE da == b.da
               e == Store(da, p, v)
    <3>1. da \in Das /\ p.moved = da.moved /\ p.idx \in 0..(Len(da.elems) - 1) BY <1>1, <1>2, <2>1
    <3> HIDE DEF da
    <3>2. /\ e \in Das /\ e.next_idx = da.next_idx /\ e.moved = da.moved
          /\ Len(e.elems) = Len(da.elems)
          /\ \A i \in 1..Len(da.elems) : e.elems[i] = IF i = p.idx + 1 THEN v ELSE da.elems[i]
      BY <3>1, StoreFacts
    <3> QED BY <3>2 DEF da
  <2> HIDE DEF d, k
  <2> QED BY <2>2, <1>2
<1> HIDE DEF d
<1>5. c \in Bufs /\ c.n = b.n + 1 /\ c.da = d
  <2>1. b \in [da : Das, ptr : [moved : Nat, idx : Nat], cap : Nat, n : Nat] BY DEF Bufs
  <2>2. /\ c \in [da : Das, ptr : [moved : Nat, idx : Nat], cap : Nat, n : Nat]
        /\ c.da = d /\ c.ptr = b.ptr /\ c.cap = b.cap /\ c.n = b.n + 1
    <3> DEFINE m == b.n + 1
               P == [moved : Nat, idx : Nat]
               e == [b EXCEPT !.da = d, !.n = m]
    <3>1. d \in Das /\ m \in Nat BY <1>1, <1>4
    <3>2. c = e OBVIOUS
    <3> HIDE DEF c, m, P
    <3>3. b \in [da : Das, ptr : P, cap : Nat, n : Nat] BY <2>1 DEF P
    <3>4. /\ e \in [da : Das, ptr : P, cap : Nat, n : Nat]
          /\ e.da = d /\ e.ptr = b.ptr /\ e.cap = b.cap /\ e.n = m
      BY <3>1, <3>3, OtherArray
    <3> HIDE DEF e
    <3> QED BY <3>2, <3>4 DEF m, P
  <2>3. b.cap > 0 /\ c.n <= b.cap BY <1>1, <2>2
  <2>4. /\ c.ptr.moved = c.da.moved /\ c.ptr.idx = c.da.next_idx
        /\ c.cap = Len(c.da.elems) - c.da.next_idx
    BY <1>1, <1>4, <2>2
  <2> HIDE DEF c
  <2> QED BY <2>2, <2>3, <2>4 DEF Bufs
<1> HIDE DEF c
<1> DEFINE w == Written(c)
           a == Append(Written(b), v)
<1>6. w \in Seq(Elem) /\ Len(w) = k + 1 /\ \A i \in 1..(k + 1) : w[i] = d.elems[i]
  <2>1. c.da.next_idx + c.n = k + 1
    <3>1. c.da.next_idx = b.da.next_idx /\ c.n = b.n + 1 BY <1>4, <1>5
    <3> QED BY <3>1, <1>1
  <2>2. /\ w \in Seq(Elem) /\ Len(w) = c.da.next_idx + c.n
        /\ \A i \in 1..(c.da.next_idx + c.n) : w[i] = c.da.elems[i]
    BY <1>5, WrittenFacts
  <2> HIDE DEF w, k
  <2> QED BY <2>1, <2>2, <1>5
<1>7. Written(b) \in Seq(Elem) /\ Len(Written(b)) = k /\ \A i \in 1..k : Written(b)[i] = b.da.elems[i]
  BY WrittenFacts
<1> HIDE DEF k
<1>8. a \in Seq(Elem) /\ Len(a) = k + 1 /\ a[k + 1] = v /\ \A i \in 1..k : a[i] = b.da.elems[i]
  BY <1>7, AppendProperties
<1> HIDE DEF w, a
<1>9. ASSUME NEW i \in 1..(k + 1) PROVE w[i] = a[i]
  <2>1. i \in 1..Len(b.da.elems) BY <1>1, <1>3
  <2>2. CASE i = k + 1 BY <2>1, <2>2, <1>3, <1>4, <1>6, <1>8
  <2>3. CASE i # k + 1
    <3>1. i \in 1..k BY <2>3, <1>3
    <3> QED BY <2>1, <2>3, <3>1, <1>4, <1>6, <1>8
  <2> QED BY <2>2, <2>3
<1>10. w = a BY <1>6, <1>8, <1>9, SeqEqual
<1> QED BY <1>5, <1>10 DEF c, w, a, d, p

LEMMA PutFacts ==
  ASSUME NEW b \in Bufs, NEW v \in Elem, NEW moves \in BOOLEAN
  PROVE  /\ Put(b, v, moves) \in Bufs /\ Put(b, v, moves).n >= 1
         /\ Written(Put(b, v, moves)) = Append(Written(b), v)
<1> DEFINE c == IF b.n >= b.cap THEN AppendPrepare(AppendFinalize(b.da, b.n), moves) ELSE b
<1>1. c \in Bufs /\ c.n < c.cap /\ Written(c) = Written(b)
  <2>1. CASE b.n >= b.cap
    <3> DEFINE d == AppendFinalize(b.da, b.n)
    <3>1. d \in Das /\ Contents(d) = Written(b) BY FinalizeFacts
    <3> HIDE DEF d
    <3>2. /\ AppendPrepare(d, moves) \in Bufs /\ Written(AppendPrepare(d, moves)) = Contents(d)
          /\ AppendPrepare(d, moves).n = 0
      BY <3>1, PrepareFacts
    <3>3. c = AppendPrepare(d, moves) BY <2>1 DEF d
    <3> HIDE DEF c
    <3> QED BY <3>1, <3>2, <3>3, BufFacts
  <2>2. CASE ~ (b.n >= b.cap) BY <2>2, BufFacts
  <2> QED BY <2>1, <2>2
<1>2. Put(b, v, moves)
        = [c EXCEPT !.da = Store(c.da, [c.ptr EXCEPT !.idx = @ + c.n], v), !.n = @ + 1]
  BY DEF Put
<1> HIDE DEF c
<1> DEFINE d == [c EXCEPT !.da = Store(c.da, [c.ptr EXCEPT !.idx = @ + c.n], v), !.n = @ + 1]
<1>3. d \in Bufs /\ d.n = c.n + 1 /\ Written(d) = Append(Written(c), v) BY <1>1, PutInto
<1>4. c.n \in Nat BY <1>1, BufFacts
<1> HIDE DEF d
<1>5. Put(b, v, moves) = d BY <1>2 DEF d
<1> QED BY <1>1, <1>3, <1>4, <1>5

LEMMA PutAllIs ==
  ASSUME NEW b, NEW s \in Seq(Elem), NEW moves, NEW F, Leads(F, b, Bufs, Elem),
         \A m \in Bufs, x \in Elem : F[<<m, x>>] = Put(m, x, moves)
  PROVE  PutAll(b, s, moves) = Through(F, b, s)
<1> DEFINE Is(f) == f = [k \in 0..Len(s) |-> IF k = 0 THEN b ELSE Put(f[k - 1], s[k], moves)]
           h == CHOOSE f : Is(f)
<1>1. Len(s) \in Nat /\ \A k \in 1..Len(s) : k - 1 \in 0..Len(s) /\ s[k] \in Elem
  BY LenProperties, ElementOfSeq
<1>2. PICK g \in [0..Len(s) -> Bufs] : GoesThrough(g, F, b, s) BY GoesThroughExists
<1>3. g[0] = b /\ \A k \in 1..Len(s) : g[k] = Put(g[k - 1], s[k], moves)
  BY <1>1, <1>2 DEF GoesThrough
<1>4. Is(g) BY <1>1, <1>2, <1>3
<1>5. Is(h) BY <1>4
<1>6. PutAll(b, s, moves) = h[Len(s)] BY DEF PutAll
<1> HIDE DEF h
<1>7. h[0] = b /\ \A k \in 1..Len(s) : h[k] = Put(h[k - 1], s[k], moves) BY <1>1, <1>5
<1>8. \A k \in 1..Len(s) : h[k - 1] \in Bufs => h[k] = F[<<h[k - 1], s[k]>>] BY <1>1, <1>7
<1>9. h[Len(s)] = Through(F, b, s) BY <1>7, <1>8, ThroughIs
<1> QED BY <1>6, <1>9

LEMMA PutAllFacts ==
  ASSUME NEW b \in Bufs, NEW s \in Seq(Elem), NEW moves \in BOOLEAN
  PROVE  PutAll(b, s, moves) \in Bufs /\ Written(PutAll(b, s, moves)) = Written(b) \o s
<1> DEFINE F == [p \in Bufs \X Elem |-> Put(p[1], p[2], moves)]
           T == {t \in Seq(Elem) : Written(Through(F, b, t)) = Written(b) \o t}
<1>1. Leads(F, b, Bufs, Elem) BY PutFacts DEF Leads
<1>2. \A m \in Bufs, x \in Elem : F[<<m, x>>] = Put(m, x, moves) OBVIOUS
<1> HIDE DEF F
<1>3. /\ Through(F, b, <<>>) = b
      /\ \A t \in Seq(Elem) : Through(F, b, t) \in Bufs
      /\ \A t \in Seq(Elem), x \in Elem : Through(F, b, Append(t, x)) = F[<<Through(F, b, t), x>>]
  BY <1>1, ThroughRules
<1>4. PutAll(b, s, moves) = Through(F, b, s) BY <1>1, <1>2, PutAllIs
<1>5. Written(b) \in Seq(Elem) BY WrittenFacts
<1>6. <<>> \in T BY <1>3, <1>5, ConcatEmptySeq, EmptySeq
<1>7. ASSUME NEW t \in Seq(Elem), NEW x \in Elem, t \in T PROVE Append(t, x) \in T
  <2> DEFINE d == Through(F, b, t)
  <2>1. d \in Bufs /\ Through(F, b, Append(t, x)) = Put(d, x, moves) BY <1>2, <1>3
  <2>2. Written(d) = Written(b) \o t BY <1>7
  <2> HIDE DEF d
  <2>3. Written(Put(d, x, moves)) = Append(Written(d), x) BY <2>1, PutFacts
  <2>4. Written(b) \o Append(t, x) = Append(Written(b) \o t, x) BY <1>5, ConcatAppend
  <2>5. Append(t, x) \in Seq(Elem) BY AppendProperties
  <2> QED BY <2>1, <2>2, <2>3, <2>4, <2>5
<1> HIDE DEF T
<1>8. Seq(Elem) \subseteq T BY <1>6, <1>7, SeqSets
<1> QED BY <1>3, <1>4, <1>8 DEF T
-----------------------------------------------------------------------------
(* The arrays of rle_merge                                                 *)

LEMMA RunSeqs == \A s \in Seq(RunElems) : s \in Seq(Elem)
<1>1. RunElems \subseteq Elem BY DEF Elem
<1> QED BY <1>1, SeqMonotonic

LEMMA PopFacts ==
  ASSUME NEW da \in Das, da.next_idx >= 1
  PROVE  /\ DaPop(da, 1) \in Das
         /\ Contents(DaPop(da, 1)) = SubSeq(Contents(da), 1, Len(Contents(da)) - 1)
<1> DEFINE n == da.next_idx
           d == DaPop(da, 1)
           m == n - 1
<1>1. n \in Nat \ {0} /\ n <= Len(da.elems) /\ Len(da.elems) \in Nat BY DaFacts
<1>2. m \in Nat /\ m <= Len(da.elems) BY <1>1
<1>3. d = [da EXCEPT !.next_idx = m] BY DEF DaPop
<1> HIDE DEF m
<1>4. d \in Das /\ d.next_idx = m /\ d.elems = da.elems BY <1>2, <1>3 DEF Das
<1> HIDE DEF d
<1> DEFINE c == Contents(da)
           e == Contents(d)
           f == SubSeq(c, 1, Len(c) - 1)
<1>5. c \in Seq(Elem) /\ Len(c) = n /\ \A i \in 1..n : c[i] = da.elems[i] BY ContentsFacts
<1>6. e \in Seq(Elem) /\ Len(e) = m /\ \A i \in 1..m : e[i] = da.elems[i] BY <1>4, ContentsFacts
<1> HIDE DEF c
<1>7. c # <<>> BY <1>1, <1>5, EmptySeq
<1>8. f \in Seq(Elem) /\ Len(f) = Len(c) - 1 /\ \A i \in 1..(Len(c) - 1) : f[i] = c[i]
  BY <1>5, <1>7, Front
<1> HIDE DEF e, f
<1>9. ASSUME NEW i \in 1..m PROVE e[i] = f[i]
  <2>1. i \in 1..n /\ i \in 1..(Len(c) - 1) BY <1>1, <1>5 DEF m
  <2> QED BY <2>1, <1>5, <1>6, <1>8
<1>10. Len(f) = m BY <1>5, <1>8 DEF m
<1>11. e = f BY <1>6, <1>8, <1>9, <1>10, SeqEqual
<1> QED BY <1>4, <1>11 DEF c, d, e, f

(* A run added to the first of an array.                                   *)
LEMMA StoreFirst ==
  ASSUME NEW da \in Das, Contents(da) \in Seq(RunElems), Contents(da) # <<>>, NEW k \in Nat
  PROVE  LET b == Contents(da)
             d == Store(da, PointerTo(da, 0), Run(Symbol(b[1]), Freq(b[1]) + k))
         IN  d \in Das /\ Contents(d) = AddFirst(b, k)
<1> DEFINE b == Contents(da)
           n == da.next_idx
           v == Run(Symbol(b[1]), Freq(b[1]) + k)
           ptr == PointerTo(da, 0)
           d == Store(da, ptr, v)
           e == Contents(d)
           a == AddFirst(b, k)
<1>1. b[1] \in RunElems /\ Len(b) \in Nat \ {0} BY Ends
<1>2. v \in RunElems /\ v \in Elem BY <1>1, RunFacts, RunMade
<1>3. Len(b) = n /\ \A i \in 1..n : b[i] = da.elems[i] BY ContentsFacts
<1>4. n \in Nat /\ n <= Len(da.elems) /\ Len(da.elems) \in Nat BY DaFacts
<1>5. ptr.moved = da.moved /\ ptr.idx = 0 BY DEF PointerTo
<1>6. a \in Seq(RunElems) /\ Len(a) = Len(b) /\ a[1] = v /\ \A i \in 2..Len(b) : a[i] = b[i]
  BY AddFirstFacts
<1> HIDE DEF v, ptr, b
<1>7. ptr.idx \in 0..(Len(da.elems) - 1) BY <1>1, <1>3, <1>4, <1>5
<1>8. /\ d \in Das /\ d.next_idx = n /\ Len(d.elems) = Len(da.elems)
      /\ \A i \in 1..Len(da.elems) : d.elems[i] = IF i = ptr.idx + 1 THEN v ELSE da.elems[i]
  BY <1>2, <1>5, <1>7, StoreFacts
<1> HIDE DEF d
<1>9. e \in Seq(Elem) /\ Len(e) = n /\ \A i \in 1..n : e[i] = d.elems[i] BY <1>8, ContentsFacts
<1>10. a \in Seq(Elem) BY <1>6, RunSeqs
<1> HIDE DEF a, e
<1>11. ASSUME NEW i \in 1..n PROVE e[i] = a[i]
  <2>1. i \in 1..Len(da.elems) BY <1>4
  <2>2. CASE i = 1 BY <2>1, <2>2, <1>5, <1>6, <1>8, <1>9
  <2>3. CASE i # 1
    <3>1. i \in 2..Len(b) /\ i # ptr.idx + 1 BY <2>3, <1>3, <1>4, <1>5
    <3> QED BY <2>1, <3>1, <1>3, <1>6, <1>8, <1>9
  <2> QED BY <2>2, <2>3
<1>12. e = a BY <1>3, <1>6, <1>9, <1>10, <1>11, SeqEqual
<1> QED BY <1>8, <1>12 DEF a, b, d, e, ptr, v

LEMMA DivUp ==
  ASSUME NEW x \in Nat, NEW g \in Nat \ {0}
  PROVE  x \div g \in Nat /\ x < (x \div g + 1) * g
OBVIOUS

(* There is room for the elements that dynarray_alloc_nr adds.             *)
LEMMA AllocNrFacts ==
  ASSUME NEW da \in Das, NEW nr \in Nat, NEW moves \in BOOLEAN
  PROVE  LET d == DaAllocNr(da, nr, moves)
         IN  /\ d \in Das /\ d.next_idx = da.next_idx + nr
             /\ Len(d.elems) >= Len(da.elems)
             /\ \A i \in 1..Len(da.elems) : d.elems[i] = da.elems[i]
<1> DEFINE end == da.next_idx + nr
           rounds == IF end < Len(da.elems) THEN 0
                     ELSE (end - Len(da.elems)) \div da.alloc_grain + 1
           e == DaExpand(da, rounds, moves)
           d == DaAllocNr(da, nr, moves)
           g == da.alloc_grain
           n == Len(da.elems)
<1>1. end \in Nat /\ n \in Nat /\ g \in Nat \ {0} BY DaFacts
<1>2. rounds \in Nat /\ end <= n + rounds * g /\ rounds * g \in Nat
  <2>1. CASE end < n
    <3>1. rounds = 0 BY <2>1
    <3> HIDE DEF rounds, end
    <3>2. rounds * g = 0 BY <3>1, <1>1
    <3> QED BY <1>1, <2>1, <3>1, <3>2
  <2>2. CASE ~ (end < n)
    <3> DEFINE x == end - n
               q == x \div g
    <3>1. x \in Nat /\ end = n + x BY <2>2, <1>1
    <3>2. rounds = q + 1 BY <2>2
    <3> HIDE DEF x, rounds, end, n, g
    <3>3. q \in Nat /\ x < (q + 1) * g BY <1>1, <3>1, DivUp
    <3> HIDE DEF q
    <3>4. (q + 1) * g \in Nat BY <1>1, <3>3
    <3> QED BY <1>1, <3>1, <3>2, <3>3, <3>4
  <2> QED BY <2>1, <2>2
<1>3. d = [e EXCEPT !.next_idx = end] BY DEF DaAllocNr
<1> HIDE DEF rounds
<1>4. /\ e \in Das /\ Len(e.elems) = n + rounds * g
      /\ \A i \in 1..Len(da.elems) : e.elems[i] = da.elems[i]
  BY <1>2, ExpandFacts
<1> HIDE DEF e
<1>5. end <= Len(e.elems) BY <1>2, <1>4
<1> HIDE DEF end
<1>6. d \in Das /\ d.next_idx = end /\ d.elems = e.elems BY <1>1, <1>3, <1>4, <1>5 DEF Das
<1> HIDE DEF d
<1>7. Len(d.elems) >= n
  <2> DEFINE p == rounds * g
             l == Len(d.elems)
  <2>1. p \in Nat /\ n \in Nat /\ l = n + p BY <1>1, <1>2, <1>4, <1>6
  <2> HIDE DEF p, n, l
  <2>2. l >= n BY <2>1
  <2> QED BY <2>2 DEF l
<1> QED BY <1>4, <1>6, <1>7 DEF d, end

LEMMA ConcatFacts ==
  ASSUME NEW da1 \in Das, NEW da2 \in Das, NEW moves \in BOOLEAN
  PROVE  /\ DaConcat(da1, da2, moves) \in Das
         /\ Contents(DaConcat(da1, da2, moves)) = Contents(da1) \o Contents(da2)
<1> DEFINE n1 == da1.next_idx
           n2 == da2.next_idx
           c1 == Contents(da1)
           c2 == Contents(da2)
           d == DaAllocNr(da1, n2, moves)
           ptr == PointerTo(d, n1)
           w == [i \in DOMAIN d.elems |-> IF i - n1 \in DOMAIN c2 THEN c2[i - n1] ELSE d.elems[i]]
           r == DaConcat(da1, da2, moves)
           k == Len(d.elems)
<1>1. /\ n1 \in Nat /\ n1 <= Len(da1.elems) /\ Len(da1.elems) \in Nat /\ n2 \in Nat
  BY DaFacts
<1>2. c1 \in Seq(Elem) /\ Len(c1) = n1 /\ \A i \in 1..n1 : c1[i] = da1.elems[i] BY ContentsFacts
<1>3. c2 \in Seq(Elem) /\ Len(c2) = n2 /\ DOMAIN c2 = 1..n2 /\ \A i \in 1..n2 : c2[i] \in Elem
  <2>1. c2 \in Seq(Elem) /\ Len(c2) = n2 BY ContentsFacts
  <2> HIDE DEF c2
  <2> QED BY <2>1, LenProperties, ElementOfSeq
<1>4. CASE n2 = 0
  <2>1. r = da1 BY <1>4 DEF DaConcat
  <2>2. c2 = <<>> BY <1>3, <1>4, EmptySeq
  <2>3. c1 \o c2 = c1 BY <1>2, <2>2, ConcatEmptySeq
  <2> QED BY <2>1, <2>3
<1>5. CASE n2 # 0
  <2>1. r = Copy(d, ptr, c2) BY <1>5 DEF DaConcat
  <2>2. ptr.moved = d.moved /\ ptr.idx = n1 BY DEF PointerTo
  <2>3. r = [d EXCEPT !.elems = w] BY <2>1, <2>2 DEF Copy
  <2>4. /\ d \in Das /\ d.next_idx = n1 + n2 /\ \A i \in 1..Len(da1.elems) : d.elems[i] = da1.elems[i]
    BY <1>1, AllocNrFacts
  <2> HIDE DEF d, r, ptr, c2, n1
  <2>5. k \in Nat /\ DOMAIN d.elems = 1..k /\ \A i \in 1..k : d.elems[i] \in Elem BY <2>4, DaFacts
  <2>6. n1 + n2 <= k BY <2>4, DaFacts
  <2> HIDE DEF k, n2
  <2>7. w = [i \in 1..k |-> IF i - n1 \in 1..n2 THEN c2[i - n1] ELSE d.elems[i]] BY <1>3, <2>5
  <2>8. \A i \in 1..k : w[i] = IF i - n1 \in 1..n2 THEN c2[i - n1] ELSE d.elems[i] BY <2>7
  <2>9. \A i \in 1..k : (IF i - n1 \in 1..n2 THEN c2[i - n1] ELSE d.elems[i]) \in Elem BY <1>3, <2>5
  <2>10. w \in [1..k -> Elem] BY <2>7, <2>9
  <2> HIDE DEF w
  <2>11. w \in Seq(Elem) /\ Len(w) = k BY <2>5, <2>10
  <2>12. r \in Das /\ r.next_idx = n1 + n2 /\ r.elems = w
    BY <1>1, <2>3, <2>4, <2>6, <2>11 DEF Das
  <2> DEFINE e == Contents(r)
             f == c1 \o c2
  <2>13. /\ e \in Seq(Elem) /\ Len(e) = n1 + n2 /\ \A i \in 1..(n1 + n2) : e[i] = w[i]
    BY <2>12, ContentsFacts
  <2> HIDE DEF c1
  <2>14. /\ f \in Seq(Elem) /\ Len(f) = Len(c1) + Len(c2)
         /\ \A i \in 1..(Len(c1) + Len(c2)) : f[i] = IF i <= Len(c1) THEN c1[i] ELSE c2[i - Len(c1)]
    BY <1>2, <1>3, ConcatProperties
  <2> HIDE DEF e, f
  <2>15. ASSUME NEW i \in 1..(n1 + n2) PROVE e[i] = f[i]
    <3>1. i \in 1..k /\ e[i] = w[i] /\ f[i] = IF i <= n1 THEN c1[i] ELSE c2[i - n1]
      BY <1>1, <1>2, <1>3, <2>5, <2>6, <2>13, <2>14
    <3>2. CASE i <= n1
      <4>1. i \in 1..n1 /\ i \in 1..Len(da1.elems) /\ ~ (i - n1 \in 1..n2) BY <3>2, <1>1
      <4> QED BY <3>1, <3>2, <4>1, <1>2, <2>4, <2>8
    <3>3. CASE ~ (i <= n1)
      <4>1. i - n1 \in 1..n2 BY <3>3, <1>1
      <4> QED BY <3>1, <3>3, <4>1, <2>8
    <3> QED BY <3>2, <3>3
  <2>16. e = f BY <1>2, <1>3, <2>13, <2>14, <2>15, SeqEqual
  <2> QED BY <2>12, <2>16 DEF e, f, c1, c2, r
<1> QED BY <1>4, <1>5

(* An element of an array that is there.                                   *)
LEMMA GetFacts ==
  ASSUME NEW da \in Das, NEW i \in 0..(da.next_idx - 1)
  PROVE  DaGet(da, i) = Contents(da)[i + 1]
<1>1. i + 1 \in 1..da.next_idx BY DaFacts
<1> QED BY <1>1, ContentsFacts DEF DaGet

-----------------------------------------------------------------------------
(* The arrays with which a program may start                               *)

LEMMA ModNext ==
  ASSUME NEW a \in Nat, NEW n \in Nat \ {0, 1}
  PROVE  a % n # (a + 1) % n /\ a % n \in Nat
<1> DEFINE q == a \div n
           m == a % n
           p == (a + 1) \div n
           l == (a + 1) % n
<1>1. q \in Int /\ m \in Nat /\ a = n * q + m OBVIOUS
<1>2. p \in Int /\ l \in Nat /\ a + 1 = n * p + l
  <2> DEFINE b == a + 1
  <2>1. b \in Nat OBVIOUS
  <2> HIDE DEF b
  <2>2. b \div n \in Int /\ b % n \in Nat /\ b = n * (b \div n) + (b % n) BY <2>1
  <2> QED BY <2>2 DEF b
<1> HIDE DEF q, m, p, l
<1>3. ASSUME m = l PROVE FALSE
  <2> DEFINE z == p - q
  <2>1. n * z = n * p - n * q BY <1>1, <1>2
  <2>2. n * p \in Int /\ n * q \in Int BY <1>1, <1>2
  <2>3. n * z = 1 BY <1>1, <1>2, <1>3, <2>1, <2>2
  <2>4. z \in Int BY <1>1, <1>2
  <2> HIDE DEF z
  <2>5. CASE z <= 0
    <3>1. n * z <= 0 BY <2>4, <2>5
    <3> QED BY <2>3, <3>1
  <2>6. CASE z >= 1
    <3>1. n * z >= n BY <2>4, <2>6
    <3> QED BY <2>3, <3>1
  <2> QED BY <2>4, <2>5, <2>6
<1> QED BY <1>1, <1>3 DEF m, l

LEMMA SymbolsNotEmpty ==
  ASSUME NEW g \in Seq(RunElems), g # <<>>
  PROVE  Len(SymbolsOf(g)) \in Nat \ {0}
<1>1. PICK h \in Seq(RunElems), x \in RunElems : g = Append(h, x) BY SequenceEmptyOrAppend
<1> DEFINE s == SymbolsOf(h)
           t == Repeat(Symbol(x), Freq(x))
<1>2. SymbolsOf(g) = s \o t BY <1>1, SymbolsOfRules
<1>3. Symbol(x) \in Nat /\ Freq(x) \in Nat \ {0} BY RunFacts
<1>4. s \in Seq(One) /\ Len(s) \in Nat BY SymbolsOfRules, LenProperties
<1>5. t \in Seq(One) /\ Len(t) \in Nat \ {0} BY <1>3, RepeatFacts
<1> HIDE DEF s, t
<1>6. Len(s \o t) = Len(s) + Len(t) BY <1>4, <1>5, ConcatProperties
<1> QED BY <1>2, <1>4, <1>5, <1>6

LEMMA RandomRunsFacts ==
  ASSUME NEW vs \in RandomRuns
  PROVE  vs \in Seq(RunElems) /\ PlainRuns(vs) /\ Len(SymbolsOf(vs)) \in 1..MaxElems
<1>0. PICK k \in 1..MaxElems : \E f \in [1..k -> 1..MaxFreq] :
        vs = [i \in 1..k |-> Run((i - 1) % Symbols, f[i])]
  BY DEF RandomRuns
<1>1. PICK f \in [1..k -> 1..MaxFreq] : vs = [i \in 1..k |-> Run((i - 1) % Symbols, f[i])]
  BY <1>0
<1>2. Symbols \in Nat \ {0, 1} /\ MaxFreq \in Nat /\ MaxElems \in Nat BY ConstantsAssumption
<1>3. ASSUME NEW i \in 1..k
      PROVE  vs[i] \in RunElems /\ Symbol(vs[i]) = (i - 1) % Symbols
  <2>1. (i - 1) % Symbols \in Nat /\ f[i] \in Nat \ {0} BY <1>2, ModNext
  <2>2. vs[i] = Run((i - 1) % Symbols, f[i]) BY <1>1
  <2> QED BY <2>1, <2>2, RunMade
<1>4. vs \in Seq(RunElems) /\ Len(vs) = k
  <2>1. vs \in [1..k -> RunElems] BY <1>1, <1>3
  <2> QED BY <2>1
<1>5. PlainRuns(vs)
  <2> SUFFICES ASSUME NEW i \in 1..(k - 1) PROVE Symbol(vs[i]) # Symbol(vs[i + 1])
    BY <1>4 DEF PlainRuns
  <2> DEFINE a == i - 1
  <2>1. a \in Nat /\ i \in 1..k /\ i + 1 \in 1..k /\ (i + 1) - 1 = a + 1 OBVIOUS
  <2>2. Symbol(vs[i]) = a % Symbols /\ Symbol(vs[i + 1]) = (a + 1) % Symbols BY <1>3, <2>1
  <2> HIDE DEF a
  <2> QED BY <1>2, <2>1, <2>2, ModNext
<1>6. vs # <<>> BY <1>4
<1>7. Len(SymbolsOf(vs)) <= MaxElems BY DEF RandomRuns
<1>8. Len(SymbolsOf(vs)) \in Nat \ {0} BY <1>4, <1>6, SymbolsNotEmpty
<1> QED BY <1>2, <1>4, <1>5, <1>7, <1>8

LEMMA RandomIntsFacts ==
  ASSUME NEW vs \in RandomInts
  PROVE  vs \in Seq(One) /\ Len(vs) \in 1..MaxElems
<1>0. PICK k \in 1..MaxElems : \E f \in [1..k -> Ints] : vs = [i \in 1..k |-> <<f[i]>>]
  BY DEF RandomInts
<1>1. PICK f \in [1..k -> Ints] : vs = [i \in 1..k |-> <<f[i]>>] BY <1>0
<1>2. Ints \subseteq Nat /\ MaxElems \in Nat BY ConstantsAssumption
<1>3. ASSUME NEW i \in 1..k PROVE <<f[i]>> \in One
  <2>1. f[i] \in Nat BY <1>2
  <2> QED BY <2>1 DEF One
<1>4. vs \in [1..k -> One] BY <1>1, <1>3
<1> QED BY <1>2, <1>4

-----------------------------------------------------------------------------
(* Slices                                                                  *)

LEMMA SliceFacts ==
  ASSUME NEW S, NEW w \in Seq(S), NEW s \in Nat, NEW k \in Nat, s <= k, k <= Len(w)
  PROVE  /\ SubSeq(w, s + 1, k) \in Seq(S) /\ Len(SubSeq(w, s + 1, k)) = k - s
         /\ \A i \in 1..(k - s) : SubSeq(w, s + 1, k)[i] = w[s + i]
<1>1. Len(w) \in Nat /\ \A i \in 1..Len(w) : w[i] \in S BY LenProperties, ElementOfSeq
<1> DEFINE m == s + 1
<1>2. m \in Int /\ k \in Int /\ \A i \in m..k : w[i] \in S BY <1>1
<1>3. m <= k => k - m + 1 = k - s OBVIOUS
<1>4. ~ (m <= k) => k - s = 0 OBVIOUS
<1>5. k - m + 1 = k - s /\ \A i \in 1..(k - s) : m + i - 1 = s + i OBVIOUS
<1> HIDE DEF m
<1>6. /\ SubSeq(w, m, k) \in Seq(S) /\ Len(SubSeq(w, m, k)) = IF m <= k THEN k - m + 1 ELSE 0
      /\ \A i \in 1..(k - m + 1) : SubSeq(w, m, k)[i] = w[m + i - 1]
  BY <1>2, SubSeqProperties
<1> QED BY <1>3, <1>4, <1>5, <1>6 DEF m

LEMMA SliceNext ==
  ASSUME NEW S, NEW w \in Seq(S), NEW s \in Nat, NEW k \in Nat, s <= k, k < Len(w)
  PROVE  /\ SubSeq(w, s + 1, k + 1) = Append(SubSeq(w, s + 1, k), w[k + 1])
         /\ w[k + 1] \in S
<1> DEFINE m == s + 1
           n == k + 1
           t == SubSeq(w, m, k)
<1>1. Len(w) \in Nat BY LenProperties
<1>2. m \in 1..Len(w) /\ n \in m..Len(w) /\ n - 1 = k /\ n \in 1..Len(w) BY <1>1
<1>3. t \in Seq(S) BY <1>1, SliceFacts
<1> HIDE DEF m, n, t
<1>4. SubSeq(w, m, n) = SubSeq(w, m, n - 1) \o <<w[n]>> BY <1>2, SubSeqRecursiveSecond
<1>5. w[n] \in S BY <1>2, ElementOfSeq
<1>6. Append(t, w[n]) = t \o <<w[n]>> BY <1>3, <1>5, AppendIsConcat
<1>7. SubSeq(w, m, n - 1) = t BY <1>2 DEF t
<1>8. SubSeq(w, m, n) = Append(t, w[n]) BY <1>4, <1>6, <1>7
<1> QED BY <1>5, <1>8 DEF m, n, t

LEMMA SliceParts ==
  ASSUME NEW S, NEW w \in Seq(S), NEW s \in Nat, NEW k \in Nat, NEW e \in Nat,
         s <= k, k <= e, e <= Len(w)
  PROVE  SubSeq(w, s + 1, e) = SubSeq(w, s + 1, k) \o SubSeq(w, k + 1, e)
<1> DEFINE m == s + 1
<1>1. Len(w) \in Nat BY LenProperties
<1>2. m \in 1..(Len(w) + 1) /\ k \in (m - 1)..Len(w) /\ e \in k..Len(w) BY <1>1
<1> HIDE DEF m
<1>3. SubSeq(w, m, k) \o SubSeq(w, k + 1, e) = SubSeq(w, m, e) BY <1>2, ConcatAdjacentSubSeq
<1> QED BY <1>3 DEF m

LEMMA SliceNone ==
  ASSUME NEW w, NEW s \in Nat
  PROVE  SubSeq(w, s + 1, s) = <<>>
<1>1. s + 1 \in Int /\ s \in Int /\ s < s + 1 OBVIOUS
<1> QED BY <1>1, SubSeqEmpty

-----------------------------------------------------------------------------
(* The invariant                                                           *)

Pcs == {"none", "ready", "chunk", "eat", "finish", "wait", "pop", "concat", "done"}
Ptrs == [moved : Nat, idx : Nat]
Records ==
  [pc : Pcs, idx : Nat, len : Nat, at : Nat, left : Nat, prev : Nat, freq : Nat, ptr : Ptrs,
   cap : Nat, n : Nat, ret : Arrays, other : Arrays, sum : Nat]

(* What is worked through, w below; c is the record of the call r, a the   *)
(* arrays and p the program.                                               *)
Word == Contents(arr[Worked])

Start(r) == IF r = Serial THEN 0 ELSE r[1]
Size(r, w) == IF r = Serial THEN Len(w) ELSE r[2]
End(r, w) == Start(r) + Size(r, w)
Upto(r, w, k) == SubSeq(w, Start(r) + 1, k)
Part(r, w) == Upto(r, w, End(r, w))
Place(c) == IF c.pc = "eat" THEN c.at ELSE c.idx

(* The arrays of a call are its own: they were made by calls within its    *)
(* slice.                                                                  *)
Own(r, c, p) ==
  {x \in Arrays :
     /\ p = "rle"
     /\ \/ c.pc \in {"ready", "chunk", "eat", "finish"} /\ x = r
        \/ c.pc \in {"done", "pop", "concat"} /\ x = c.ret
        \/ c.pc \in {"pop", "concat"} /\ x = c.other}
Within(r) ==
  IF r = Serial THEN {Serial}
  ELSE {q \in Ranges : r[1] <= q[1] /\ q[1] + q[2] <= r[1] + r[2]}

(* Where a call is in its slice.                                           *)
Going(r, c, w) ==
  /\ Size(r, w) >= 1 /\ End(r, w) <= Len(w)
  /\ c.pc = "ready" => c.idx = Start(r) /\ c.len = Size(r, w) /\ c.sum = 0
  /\ c.pc \in {"chunk", "eat"} => c.idx + c.len = End(r, w) /\ Start(r) <= Place(c)
  /\ c.pc = "eat" => c.left >= 1 /\ c.at + c.left = c.idx
  /\ c.pc \in {"wait", "pop", "concat"} => r \in Ranges
  /\ c.pc = "wait" => r[2] >= 2

(* What an encoder has written, with the run it is in, are the runs of     *)
(* what it has read; what a merge still has to put together are the runs   *)
(* of its slice.                                                           *)
BufOf(r, c, a) == [da |-> a[r], ptr |-> c.ptr, cap |-> c.cap, n |-> c.n]
Reading(r, c, a, w) ==
  LET b == BufOf(r, c, a)
  IN  /\ b \in Bufs /\ c.freq >= 1 /\ Start(r) < Place(c)
      /\ Append(Written(b), Run(c.prev, c.freq)) = RunsOf(Upto(r, w, Place(c)))
Merging(r, c, a, w) ==
  LET f == Contents(a[c.ret])
      s == Contents(a[c.other])
  IN  /\ a[c.ret] \in Das /\ a[c.other] \in Das /\ c.ret # c.other /\ s # <<>>
      /\ c.pc = "pop" => f # <<>> /\ SubSeq(f, 1, Len(f) - 1) \o s = RunsOf(Part(r, w))
      /\ c.pc = "concat" => f \o s = RunsOf(Part(r, w))
Coding(r, c, a, w) ==
  /\ c.pc \in {"chunk", "eat"} => Reading(r, c, a, w)
  /\ c.pc = "finish" =>
       LET b == BufOf(r, c, a) IN b \in Bufs /\ b.n >= 1 /\ Written(b) = RunsOf(Part(r, w))
  /\ c.pc \in {"pop", "concat"} => Merging(r, c, a, w)
  /\ c.pc = "done" => a[c.ret] \in Das /\ Contents(a[c.ret]) = RunsOf(Part(r, w))

Summing(r, c, w) ==
  /\ c.pc \in {"chunk", "eat"} => c.sum = Total(Upto(r, w, Place(c)))
  /\ c.pc = "done" => c.sum = Total(Part(r, w))
  /\ c.pc \notin {"finish", "pop", "concat"}

CallOK(r, c, a, w, p) ==
  c.pc # "none" =>
    /\ Going(r, c, w)
    /\ Own(r, c, p) \subseteq Within(r)
    /\ p = "rle" => Coding(r, c, a, w)
    /\ p = "sum" => Summing(r, c, w)

TypeInv ==
  /\ prog \in {"rle", "sum"}
  /\ arr \in [Arrays -> Das \union {None}]
  /\ calls \in [Calls -> Records]

CallsInv == \A r \in Calls : CallOK(r, calls[r], arr, Word, prog)

(* Two calls work on slices that are apart, or one waits for the other.    *)
Apart(r, q) == r[1] + r[2] <= q[1] \/ q[1] + q[2] <= r[1]
Nested(r, q) ==
  \/ Apart(r, q)
  \/ r \in Within(q) /\ calls[q].pc = "wait"
  \/ q \in Within(r) /\ calls[r].pc = "wait"
NestInv ==
  \A r, q \in Ranges : r # q /\ calls[r].pc # "none" /\ calls[q].pc # "none" => Nested(r, q)

(* What main has made.                                                     *)
Early == {"create", "spare", "mkrand", "syms", "decode", "serial"}
Working == {"serial", "compare", "sync", "done"}
GivenOK ==
  LET g == Contents(arr[Given])
  IN  /\ arr[Given] \in Das /\ g \in Seq(RunElems) /\ PlainRuns(g)
      /\ Len(SymbolsOf(g)) \in 1..MaxElems
WordOK ==
  /\ arr[Worked] \in Das /\ Word \in Seq(One) /\ Len(Word) \in 1..MaxElems
  /\ prog = "rle" => Contents(arr[Given]) = RunsOf(Word)
  /\ prog = "sum" => sum1 = Total(Word)
MainInv ==
  /\ main \in Early \union Working
  /\ main \in Early => \A r \in Calls : calls[r].pc = "none"
  /\ main = "compare" => \A r \in Ranges : calls[r].pc = "none"
  /\ main \in {"sync", "done"} => calls[Serial].pc = "done"
  /\ main \in {"spare", "mkrand"} => arr[Given] \in Das /\ Contents(arr[Given]) = <<>>
  /\ main \in {"spare", "syms", "decode"} => prog = "rle"
  /\ main \in {"syms", "decode"} => GivenOK
  /\ main = "decode" => arr[Syms] \in Das /\ Contents(arr[Syms]) = <<>>
  /\ main \in Working => WordOK

IInv == TypeInv /\ CallsInv /\ NestInv /\ MainInv

-----------------------------------------------------------------------------
(* What the invariant says of calls                                        *)

LEMMA RangesFacts ==
  /\ \A r \in Ranges : /\ r[1] \in Nat /\ r[2] \in Nat \ {0} /\ r[1] + r[2] <= MaxElems
                       /\ r = <<r[1], r[2]>> /\ r # Serial /\ r # Given /\ r # Spare /\ r # Syms
                       /\ r \in Arrays /\ r \in Calls
  /\ \A a \in Nat, b \in Nat \ {0} : a + b <= MaxElems => <<a, b>> \in Ranges
<1>1. MaxElems \in Nat BY ConstantsAssumption
<1>2. ASSUME NEW r \in Ranges
      PROVE  /\ r[1] \in Nat /\ r[2] \in Nat \ {0} /\ r[1] + r[2] <= MaxElems
             /\ r = <<r[1], r[2]>>
  BY <1>1 DEF Ranges
<1>3. ASSUME NEW r \in Ranges PROVE r # Serial /\ r # Given /\ r # Spare /\ r # Syms
  BY <1>2 DEF Serial, Given, Spare, Syms
<1>4. ASSUME NEW r \in Ranges PROVE r \in Arrays /\ r \in Calls BY DEF Arrays, Calls
<1>5. ASSUME NEW a \in Nat, NEW b \in Nat \ {0}, a + b <= MaxElems PROVE <<a, b>> \in Ranges
  BY <1>1, <1>5 DEF Ranges
<1> QED BY <1>2, <1>3, <1>4, <1>5

LEMMA SerialFacts ==
  /\ Serial \in Calls /\ Serial \notin Ranges /\ Serial \in Arrays
  /\ Given \in Arrays /\ Spare \in Arrays /\ Syms \in Arrays
  /\ Given \notin Calls /\ Syms \notin Calls /\ Given # Syms /\ Given # Spare
  /\ \A r \in Calls : r \in Arrays /\ (r = Serial \/ r \in Ranges)
<1>1. Given # Serial /\ Syms # Serial /\ Given # Syms /\ Given # Spare
  BY DEF Given, Syms, Serial, Spare
<1> QED BY <1>1, RangesFacts DEF Calls, Arrays

LEMMA StartFacts ==
  ASSUME NEW r \in Calls, NEW w \in Seq(One), Size(r, w) >= 1, End(r, w) <= Len(w)
  PROVE  /\ Start(r) \in Nat /\ Size(r, w) \in Nat \ {0} /\ End(r, w) \in Nat
         /\ Start(r) < End(r, w) /\ Len(w) \in Nat /\ End(r, w) = Start(r) + Size(r, w)
<1>1. Len(w) \in Nat BY LenProperties
<1>2. CASE r = Serial BY <1>1, <1>2 DEF Start, Size, End
<1>3. CASE r \in Ranges
  <2>1. r[1] \in Nat /\ r[2] \in Nat \ {0} /\ r # Serial BY <1>3, RangesFacts
  <2> QED BY <1>1, <2>1 DEF Start, Size, End
<1> QED BY <1>2, <1>3, SerialFacts

(* The part of a call is a part of the word.                               *)
LEMMA UptoFacts ==
  ASSUME NEW r \in Calls, NEW w \in Seq(One), Size(r, w) >= 1, End(r, w) <= Len(w)
  PROVE  /\ Part(r, w) \in Seq(One) /\ Part(r, w) # <<>> /\ Part(r, w) = Upto(r, w, End(r, w))
         /\ Upto(r, w, Start(r)) = <<>>
         /\ \A k \in Nat : Start(r) <= k /\ k < End(r, w) =>
              /\ Upto(r, w, k) \in Seq(One) /\ w[k + 1] \in One
              /\ Upto(r, w, k + 1) = Append(Upto(r, w, k), w[k + 1])
<1> DEFINE s == Start(r)
           e == End(r, w)
<1>1. s \in Nat /\ e \in Nat /\ s < e /\ e <= Len(w) /\ Len(w) \in Nat BY StartFacts
<1> HIDE DEF s, e
<1>2. SubSeq(w, s + 1, e) \in Seq(One) /\ Len(SubSeq(w, s + 1, e)) = e - s BY <1>1, SliceFacts
<1>3. SubSeq(w, s + 1, e) # <<>> BY <1>1, <1>2, EmptySeq
<1>4. SubSeq(w, s + 1, s) = <<>> BY <1>1, SliceNone
<1>5. ASSUME NEW k \in Nat, s <= k, k < e
      PROVE  /\ SubSeq(w, s + 1, k) \in Seq(One) /\ w[k + 1] \in One
             /\ SubSeq(w, s + 1, k + 1) = Append(SubSeq(w, s + 1, k), w[k + 1])
  <2>1. k < Len(w) /\ k <= Len(w) BY <1>1, <1>5
  <2>2. SubSeq(w, s + 1, k) \in Seq(One) BY <1>1, <1>5, <2>1, SliceFacts
  <2>3. /\ SubSeq(w, s + 1, k + 1) = Append(SubSeq(w, s + 1, k), w[k + 1]) /\ w[k + 1] \in One
    BY <1>1, <1>5, <2>1, SliceNext
  <2> QED BY <2>2, <2>3
<1> QED BY <1>2, <1>3, <1>4, <1>5 DEF Part, Upto, s, e

LEMMA WordFacts ==
  ASSUME IInv, main \in Working
  PROVE  /\ arr[Worked] \in Das /\ Word \in Seq(One) /\ Len(Word) \in 1..MaxElems
         /\ arr[Worked].next_idx = Len(Word) /\ Root = <<0, Len(Word)>> /\ Root \in Ranges
         /\ \A i \in 0..(Len(Word) - 1) : Element(i) = Word[i + 1]
<1>1. arr[Worked] \in Das /\ Word \in Seq(One) /\ Len(Word) \in 1..MaxElems
  BY DEF IInv, MainInv, WordOK
<1>2. arr[Worked].next_idx = Len(Word) BY <1>1, ContentsFacts DEF Word
<1>3. Root = <<0, Len(Word)>> BY <1>2 DEF Root
<1>4. Len(Word) \in Nat \ {0} /\ 0 + Len(Word) <= MaxElems BY <1>1, ConstantsAssumption
<1>5. Root \in Ranges BY <1>3, <1>4, RangesFacts
<1>6. ASSUME NEW i \in 0..(Len(Word) - 1) PROVE Element(i) = Word[i + 1]
  <2> DEFINE da == arr[Worked]
  <2>1. da \in Das /\ i \in 0..(da.next_idx - 1) BY <1>1, <1>2
  <2>2. Word = Contents(da) /\ Element(i) = DaGet(da, i) BY DEF Word, Element
  <2> HIDE DEF da
  <2>3. DaGet(da, i) = Contents(da)[i + 1] BY <2>1, GetFacts
  <2> QED BY <2>2, <2>3
<1> QED BY <1>1, <1>2, <1>3, <1>5, <1>6

(* A call that runs.                                                       *)
LEMMA ActiveFacts ==
  ASSUME IInv, NEW r \in Calls, calls[r].pc # "none"
  PROVE  /\ main \in Working /\ main \notin Early /\ calls[r] \in Records
         /\ Going(r, calls[r], Word) /\ Own(r, calls[r], prog) \subseteq Within(r)
         /\ prog = "rle" => Coding(r, calls[r], arr, Word)
         /\ prog = "sum" => Summing(r, calls[r], Word)
<1>1. main \in Working /\ main \notin Early BY DEF IInv, MainInv
<1>2. CallOK(r, calls[r], arr, Word, prog) BY DEF IInv, CallsInv
<1>3. calls[r] \in Records BY DEF IInv, TypeInv
<1> QED BY <1>1, <1>2, <1>3 DEF CallOK

(* What a call says of itself does not depend on the arrays of others.     *)
LEMMA CallFrame ==
  ASSUME NEW r \in Calls, NEW c \in Records, NEW a, NEW b, NEW w, NEW p \in {"rle", "sum"},
         CallOK(r, c, a, w, p), \A x \in Own(r, c, p) : b[x] = a[x]
  PROVE  CallOK(r, c, b, w, p)
<1> SUFFICES ASSUME c.pc # "none", p = "rle" PROVE Coding(r, c, b, w) BY DEF CallOK
<1>1. Coding(r, c, a, w) BY DEF CallOK
<1>2. r \in Arrays /\ c.ret \in Arrays /\ c.other \in Arrays BY SerialFacts DEF Records
<1>3. CASE c.pc \in {"ready", "chunk", "eat", "finish"}
  <2>1. b[r] = a[r] BY <1>2, <1>3 DEF Own
  <2>2. BufOf(r, c, b) = BufOf(r, c, a) BY <2>1 DEF BufOf
  <2> QED BY <1>1, <1>3, <2>2 DEF Coding, Reading
<1>4. CASE c.pc \in {"pop", "concat"}
  <2>1. b[c.ret] = a[c.ret] /\ b[c.other] = a[c.other] BY <1>2, <1>4 DEF Own
  <2> QED BY <1>1, <1>4, <2>1 DEF Coding, Merging
<1>5. CASE c.pc = "done"
  <2>1. b[c.ret] = a[c.ret] BY <1>2, <1>5 DEF Own
  <2> QED BY <1>1, <1>5, <2>1 DEF Coding
<1>6. CASE c.pc = "wait" BY <1>6 DEF Coding
<1> QED BY <1>3, <1>4, <1>5, <1>6 DEF Records, Pcs

(* No two calls have an array.                                             *)
LEMMA OwnApart ==
  ASSUME IInv, NEW r \in Calls, NEW q \in Calls, r # q,
         calls[r].pc # "none", calls[q].pc # "none"
  PROVE  Own(r, calls[r], prog) \cap Own(q, calls[q], prog) = {}
<1>1. /\ Own(r, calls[r], prog) \subseteq Within(r)
      /\ Own(q, calls[q], prog) \subseteq Within(q)
  BY ActiveFacts
<1>2. CASE r = Serial \/ q = Serial
  <2>1. Within(r) \cap Within(q) = {} BY <1>2, SerialFacts DEF Within
  <2> QED BY <1>1, <2>1
<1>3. CASE r \in Ranges /\ q \in Ranges
  <2>1. Nested(r, q) BY <1>3 DEF IInv, NestInv
  <2>2. CASE calls[q].pc = "wait"
    <3>1. Own(q, calls[q], prog) = {} BY <2>2 DEF Own
    <3> QED BY <3>1
  <2>3. CASE calls[r].pc = "wait"
    <3>1. Own(r, calls[r], prog) = {} BY <2>3 DEF Own
    <3> QED BY <3>1
  <2>4. CASE Apart(r, q)
    <3> SUFFICES ASSUME NEW x \in Within(r), x \in Within(q) PROVE FALSE BY <1>1
    <3>1. r # Serial /\ q # Serial BY <1>3, SerialFacts
    <3>2. /\ x \in Ranges /\ r[1] <= x[1] /\ x[1] + x[2] <= r[1] + r[2]
          /\ q[1] <= x[1] /\ x[1] + x[2] <= q[1] + q[2]
      BY <3>1 DEF Within
    <3>3. /\ x[1] \in Nat /\ x[2] \in Nat \ {0} /\ r[1] \in Nat /\ r[2] \in Nat
          /\ q[1] \in Nat /\ q[2] \in Nat
      BY <1>3, <3>2, RangesFacts
    <3> QED BY <2>4, <3>2, <3>3 DEF Apart
  <2> QED BY <2>1, <2>2, <2>3, <2>4 DEF Nested
<1> QED BY <1>2, <1>3, SerialFacts

(* A step of one call.                                                     *)
Owned(r, c) ==
  /\ calls' = [calls EXCEPT ![r] = c]
  /\ arr' \in [Arrays -> Das \union {None}]
  /\ \A x \in Arrays : arr'[x] # arr[x] => x \in Own(r, calls[r], prog)
  /\ UNCHANGED <<prog, main, sum1>>

LEMMA OwnedFrame ==
  ASSUME IInv, NEW r \in Calls, calls[r].pc # "none", NEW c \in Records, Owned(r, c)
  PROVE  /\ calls' \in [Calls -> Records] /\ calls'[r] = c
         /\ \A q \in Calls : q # r => calls'[q] = calls[q]
         /\ arr'[Given] = arr[Given] /\ arr'[Syms] = arr[Syms]
         /\ Worked' = Worked /\ arr'[Worked] = arr[Worked] /\ Word' = Word
         /\ \A q \in Calls : q # r /\ calls[q].pc # "none" =>
              \A x \in Own(q, calls[q], prog) : arr'[x] = arr[x]
<1>1. calls \in [Calls -> Records] BY DEF IInv, TypeInv
<1>2. /\ calls' \in [Calls -> Records] /\ calls'[r] = c
      /\ \A q \in Calls : q # r => calls'[q] = calls[q]
  BY <1>1 DEF Owned
<1>3. Own(r, calls[r], prog) \subseteq Calls
  <2>1. Own(r, calls[r], prog) \subseteq Within(r) BY ActiveFacts
  <2>2. Within(r) \subseteq Calls BY DEF Within, Calls
  <2> QED BY <2>1, <2>2
<1>4. arr'[Given] = arr[Given] /\ arr'[Syms] = arr[Syms] BY <1>3, SerialFacts DEF Owned
<1>5. prog' = prog BY DEF Owned
<1>6. Worked' = Worked /\ arr'[Worked] = arr[Worked] BY <1>4, <1>5 DEF Worked
<1>7. Word' = Word BY <1>6 DEF Word
<1>8. ASSUME NEW q \in Calls, q # r, calls[q].pc # "none", NEW x \in Own(q, calls[q], prog)
      PROVE  arr'[x] = arr[x]
  <2>1. Own(r, calls[r], prog) \cap Own(q, calls[q], prog) = {} BY <1>8, OwnApart
  <2>2. x \in Arrays BY DEF Own
  <2> QED BY <2>1, <2>2 DEF Owned
<1> QED BY <1>2, <1>4, <1>6, <1>7, <1>8

(* What main has made is still there.                                      *)
LEMMA WordKept ==
  ASSUME WordOK, arr'[Given] = arr[Given], Worked' = Worked, arr'[Worked] = arr[Worked],
         Word' = Word, UNCHANGED <<prog, sum1>>
  PROVE  WordOK'
BY DEF WordOK

LEMMA OneCall ==
  ASSUME IInv, NEW r \in Calls, calls[r].pc \notin {"none", "wait", "done"},
         NEW c \in Records, c.pc \notin {"none", "wait"}, Owned(r, c),
         CallOK(r, c, arr', Word, prog)
  PROVE  IInv'
<1>1. /\ calls' \in [Calls -> Records] /\ calls'[r] = c
      /\ \A q \in Calls : q # r => calls'[q] = calls[q]
      /\ arr'[Given] = arr[Given] /\ arr'[Syms] = arr[Syms]
      /\ Worked' = Worked /\ arr'[Worked] = arr[Worked] /\ Word' = Word
      /\ \A q \in Calls : q # r /\ calls[q].pc # "none" =>
           \A x \in Own(q, calls[q], prog) : arr'[x] = arr[x]
  BY OwnedFrame
<1>2. UNCHANGED <<prog, main, sum1>> BY DEF Owned
<1>3. TypeInv' BY <1>1, <1>2 DEF IInv, TypeInv, Owned
<1>4. CallsInv'
  <2> SUFFICES ASSUME NEW q \in Calls PROVE CallOK(q, calls'[q], arr', Word, prog)
    BY <1>1, <1>2 DEF CallsInv
  <2>1. CASE q = r BY <2>1, <1>1
  <2>2. CASE q # r /\ calls[q].pc = "none" BY <2>2, <1>1 DEF CallOK
  <2>3. CASE q # r /\ calls[q].pc # "none"
    <3>1. calls'[q] = calls[q] /\ \A x \in Own(q, calls[q], prog) : arr'[x] = arr[x] BY <1>1, <2>3
    <3>2. CallOK(q, calls[q], arr, Word, prog) /\ calls[q] \in Records /\ prog \in {"rle", "sum"}
      BY DEF IInv, TypeInv, CallsInv
    <3> DEFINE w == Word
               b == arr'
               d == calls[q]
    <3> HIDE DEF w, b, d
    <3>3. CallOK(q, d, arr, w, prog) /\ d \in Records /\ \A x \in Own(q, d, prog) : b[x] = arr[x]
      BY <3>1, <3>2 DEF w, b, d
    <3>4. CallOK(q, d, b, w, prog) BY <3>2, <3>3, CallFrame
    <3> QED BY <3>1, <3>4 DEF w, b, d
  <2> QED BY <2>1, <2>2, <2>3
<1>5. NestInv'
  <2> SUFFICES ASSUME NEW x \in Ranges, NEW q \in Ranges, x # q,
                      calls'[x].pc # "none", calls'[q].pc # "none"
               PROVE  Nested(x, q)'
    BY DEF NestInv
  <2>1. \A t \in Ranges : calls'[t].pc # "none" => calls[t].pc # "none" BY <1>1, RangesFacts
  <2>2. \A t \in Ranges : calls[t].pc = "wait" => calls'[t].pc = "wait" BY <1>1, RangesFacts
  <2>3. Nested(x, q) BY <2>1 DEF IInv, NestInv
  <2> QED BY <2>2, <2>3 DEF Nested
<1>6. MainInv'
  <2>1. main \in Working /\ main \notin Early BY ActiveFacts
  <2>2. WordOK' BY <1>1, <1>2, <2>1, WordKept DEF IInv, MainInv
  <2>3. main = "compare" => \A q \in Ranges : calls'[q].pc = "none"
    BY <1>1, RangesFacts DEF IInv, MainInv
  <2>4. main \in {"sync", "done"} => calls'[Serial].pc = "done" BY <1>1, SerialFacts DEF IInv, MainInv
  <2> QED BY <1>2, <2>1, <2>2, <2>3, <2>4 DEF MainInv, Early, Working
<1> QED BY <1>3, <1>4, <1>5, <1>6 DEF IInv

-----------------------------------------------------------------------------
(* The steps of a call                                                     *)

LEMMA RecordFacts ==
  \A c \in Records :
    /\ c.pc \in Pcs /\ c.idx \in Nat /\ c.len \in Nat /\ c.at \in Nat /\ c.left \in Nat
    /\ c.prev \in Nat /\ c.freq \in Nat /\ c.ptr \in Ptrs /\ c.cap \in Nat /\ c.n \in Nat
    /\ c.ret \in Arrays /\ c.other \in Arrays /\ c.sum \in Nat
BY DEF Records

LEMMA NoCallFacts ==
  /\ NoCall \in Records /\ NoCall.pc = "none" /\ NoCall.sum = 0
  /\ NoCall.ret = Spare
BY SerialFacts DEF NoCall, Records, Pcs, Ptrs

LEMMA CalledFacts ==
  ASSUME NEW r, r[1] \in Nat, r[2] \in Nat
  PROVE  /\ Called(r) \in Records /\ Called(r).pc = "ready" /\ Called(r).idx = r[1]
         /\ Called(r).len = r[2] /\ Called(r).sum = 0
<1> DEFINE i == r[1]
           l == r[2]
           c == [NoCall EXCEPT !.pc = "ready", !.idx = i, !.len = l]
<1>1. "ready" \in Pcs BY DEF Pcs
<1>2. Called(r) = c BY DEF Called
<1> HIDE DEF i, l
<1>3. i \in Nat /\ l \in Nat BY DEF i, l
<1>4. c \in Records /\ c.pc = "ready" /\ c.idx = i /\ c.len = l /\ c.sum = 0
  BY <1>1, <1>3, NoCallFacts DEF Records
<1> HIDE DEF c
<1> QED BY <1>2, <1>4 DEF i, l

(* A call that returns a sum or an array.                                  *)
LEMMA DoneFacts ==
  ASSUME NEW a \in Arrays, NEW s \in Nat
  PROVE  LET c == [NoCall EXCEPT !.pc = "done", !.ret = a]
             d == [NoCall EXCEPT !.pc = "done", !.sum = s]
         IN  /\ c \in Records /\ c.pc = "done" /\ c.ret = a
             /\ d \in Records /\ d.pc = "done" /\ d.sum = s
<1>1. "done" \in Pcs BY DEF Pcs
<1> QED BY <1>1, NoCallFacts DEF Records

LEMMA ArraysKept ==
  ASSUME IInv, UNCHANGED <<prog, main, arr, sum1>>, NEW r \in Calls, NEW c \in Records,
         calls' = [calls EXCEPT ![r] = c]
  PROVE  Owned(r, c)
BY DEF Owned, IInv, TypeInv

LEMMA StepNextChunk ==
  ASSUME IInv, NEW r \in Calls, NextChunk(r)
  PROVE  IInv'
<1> DEFINE c == calls[r]
           w == Word
<1>1. c.pc = "chunk" /\ c.len > 0 /\ UNCHANGED <<prog, main, arr, sum1>> BY DEF NextChunk
<1>2. PICK nelems \in 1..c.len :
        calls' = [calls EXCEPT ![r].pc = "eat", ![r].at = c.idx, ![r].left = nelems,
                               ![r].idx = @ + nelems, ![r].len = @ - nelems]
  BY DEF NextChunk
<1>3. /\ c \in Records /\ Going(r, c, w) /\ Own(r, c, prog) \subseteq Within(r)
      /\ prog = "rle" => Coding(r, c, arr, w)
      /\ prog = "sum" => Summing(r, c, w)
  BY <1>1, ActiveFacts
<1> DEFINE at == c.idx
           i == c.idx + nelems
           l == c.len - nelems
           d == [c EXCEPT !.pc = "eat", !.at = at, !.left = nelems, !.idx = i, !.len = l]
<1>4. calls' = [calls EXCEPT ![r] = d] BY <1>2 DEF IInv, TypeInv
<1>5. c.idx \in Nat /\ c.len \in Nat BY <1>3, RecordFacts
<1>6. at \in Nat /\ i \in Nat /\ l \in Nat /\ nelems \in Nat \ {0} /\ "eat" \in Pcs
      /\ i + l = c.idx + c.len /\ at + nelems = i
  BY <1>5 DEF Pcs
<1> HIDE DEF i, l, at, c, w
<1>7. /\ d \in Records /\ d.pc = "eat" /\ d.at = at /\ d.left = nelems /\ d.idx = i /\ d.len = l
      /\ d.prev = c.prev /\ d.freq = c.freq /\ d.ptr = c.ptr /\ d.cap = c.cap /\ d.n = c.n
      /\ d.sum = c.sum
  BY <1>3, <1>6 DEF Records
<1> HIDE DEF d
<1>8. Place(d) = Place(c) BY <1>1, <1>7 DEF Place, at, c
<1>9. Going(r, d, w) BY <1>1, <1>3, <1>6, <1>7, <1>8 DEF Going, c
<1>10. Own(r, d, prog) = Own(r, c, prog) BY <1>1, <1>7 DEF Own, c
<1>11. prog = "rle" => Coding(r, d, arr, w)
  <2>1. BufOf(r, d, arr) = BufOf(r, c, arr) BY <1>7 DEF BufOf
  <2> QED BY <1>1, <1>3, <1>7, <1>8, <2>1 DEF Coding, Reading, c
<1>12. prog = "sum" => Summing(r, d, w) BY <1>1, <1>3, <1>7, <1>8 DEF Summing, c
<1>13. arr' = arr BY <1>1
<1>14. CallOK(r, d, arr', w, prog) BY <1>3, <1>7, <1>9, <1>10, <1>11, <1>12, <1>13 DEF CallOK
<1>15. Owned(r, d) BY <1>1, <1>4, <1>7, ArraysKept
<1> QED BY <1>1, <1>7, <1>14, <1>15, OneCall DEF c, w

LEMMA StepSumStart ==
  ASSUME IInv, NEW r \in Calls, SumStart(r)
  PROVE  IInv'
<1> DEFINE c == calls[r]
           w == Word
           d == [c EXCEPT !.pc = "chunk"]
<1>1. c.pc = "ready" /\ prog = "sum" /\ UNCHANGED <<prog, main, arr, sum1>> BY DEF SumStart
<1>2. calls' = [calls EXCEPT ![r] = d] BY DEF SumStart, IInv, TypeInv
<1>3. c \in Records /\ Going(r, c, w) /\ Own(r, c, prog) \subseteq Within(r) /\ w \in Seq(One)
  BY <1>1, ActiveFacts, WordFacts
<1> HIDE DEF c, w
<1>4. /\ d \in Records /\ d.pc = "chunk" /\ d.idx = c.idx /\ d.len = c.len /\ d.sum = c.sum
  BY <1>3 DEF Records, Pcs
<1> HIDE DEF d
<1>5. /\ c.idx = Start(r) /\ c.len = Size(r, w) /\ c.sum = 0
      /\ Size(r, w) >= 1 /\ End(r, w) <= Len(w)
  BY <1>1, <1>3 DEF Going, c
<1>6. Start(r) \in Nat /\ End(r, w) = Start(r) + Size(r, w) BY <1>3, <1>5, StartFacts
<1>7. Place(d) = Start(r) BY <1>4, <1>5 DEF Place
<1>8. Going(r, d, w) BY <1>4, <1>5, <1>6, <1>7 DEF Going
<1>9. Upto(r, w, Start(r)) = <<>> BY <1>3, <1>5, UptoFacts
<1>10. Summing(r, d, w) BY <1>4, <1>5, <1>7, <1>9, TotalRules DEF Summing
<1>11. Own(r, d, prog) = {} BY <1>1 DEF Own
<1>12. CallOK(r, d, arr', w, prog) BY <1>1, <1>8, <1>10, <1>11 DEF CallOK
<1>13. Owned(r, d) BY <1>1, <1>2, <1>4, ArraysKept
<1> QED BY <1>1, <1>4, <1>12, <1>13, OneCall DEF c, w

LEMMA StepEatInts ==
  ASSUME IInv, NEW r \in Calls, EatInts(r)
  PROVE  IInv'
<1> DEFINE c == calls[r]
           w == Word
           f == [i \in 1..c.left |-> Element(c.at + i - 1)]
           s == c.sum + Total(f)
           at == c.at + c.left
           d == [c EXCEPT !.pc = "chunk", !.at = at, !.left = 0, !.sum = s]
<1>1. c.pc = "eat" /\ prog = "sum" /\ UNCHANGED <<prog, main, arr, sum1>> BY DEF EatInts
<1>2. calls' = [calls EXCEPT ![r] = d] BY DEF EatInts, IInv, TypeInv
<1>3. /\ c \in Records /\ Going(r, c, w) /\ Own(r, c, prog) \subseteq Within(r) /\ w \in Seq(One)
      /\ Summing(r, c, w) /\ \A i \in 0..(Len(w) - 1) : Element(i) = w[i + 1]
  BY <1>1, ActiveFacts, WordFacts
<1> HIDE DEF w
<1>4. /\ c.idx + c.len = End(r, w) /\ Start(r) <= c.at /\ c.left >= 1 /\ c.at + c.left = c.idx
      /\ Size(r, w) >= 1 /\ End(r, w) <= Len(w) /\ Place(c) = c.at
  BY <1>1, <1>3 DEF Going, Place
<1>5. Start(r) \in Nat /\ End(r, w) \in Nat /\ Len(w) \in Nat BY <1>3, <1>4, StartFacts
<1>6. c.idx \in Nat /\ c.len \in Nat /\ c.at \in Nat /\ c.left \in Nat /\ c.sum \in Nat
  BY <1>3, RecordFacts
<1>7. c.at <= c.idx /\ c.idx <= Len(w) /\ c.at <= Len(w) /\ c.idx - c.at = c.left
  <2> DEFINE x == c.at
             y == c.idx
             z == c.left
             l == c.len
             e == End(r, w)
             n == Len(w)
  <2>1. /\ x \in Nat /\ y \in Nat /\ z \in Nat /\ l \in Nat /\ e \in Nat /\ n \in Nat
        /\ y + l = e /\ x + z = y /\ e <= n
    BY <1>4, <1>5, <1>6
  <2> HIDE DEF x, y, z, l, e, n
  <2>2. x <= y /\ y <= n /\ x <= n /\ y - x = z BY <2>1
  <2> QED BY <2>2 DEF x, y, z, n
<1> DEFINE t == SubSeq(w, c.at + 1, c.idx)
           u == SubSeq(w, Start(r) + 1, c.at)
<1>8. t \in Seq(One) /\ Len(t) = c.left /\ \A i \in 1..c.left : t[i] = w[c.at + i]
  <2> DEFINE k == c.at
             e == c.idx
  <2>1. k \in Nat /\ e \in Nat /\ k <= e /\ e <= Len(w) /\ e - k = c.left BY <1>6, <1>7
  <2> HIDE DEF k, e
  <2>2. /\ SubSeq(w, k + 1, e) \in Seq(One) /\ Len(SubSeq(w, k + 1, e)) = e - k
        /\ \A i \in 1..(e - k) : SubSeq(w, k + 1, e)[i] = w[k + i]
    BY <1>3, <2>1, SliceFacts
  <2> QED BY <2>1, <2>2 DEF k, e
<1>9. u \in Seq(One) BY <1>3, <1>4, <1>5, <1>6, <1>7, SliceFacts
<1>10. f = t
  <2>1. ASSUME NEW i \in 1..c.left PROVE f[i] = t[i] /\ f[i] \in One
    <3>1. c.at + i - 1 \in 0..(Len(w) - 1) /\ (c.at + i - 1) + 1 = c.at + i
      <4> DEFINE x == c.at
                 y == c.idx
                 z == c.left
                 n == Len(w)
      <4>1. x \in Nat /\ y \in Nat /\ z \in Nat /\ n \in Nat /\ i \in 1..z /\ y <= n /\ y - x = z
        BY <1>5, <1>6, <1>7
      <4> HIDE DEF x, y, z, n
      <4>2. x + i - 1 \in 0..(n - 1) /\ (x + i - 1) + 1 = x + i BY <4>1
      <4> QED BY <4>2 DEF x, n
    <3>2. f[i] = w[c.at + i] BY <1>3, <3>1
    <3>3. t[i] \in One BY <1>8, ElementOfSeq
    <3> QED BY <3>2, <3>3, <1>8
  <2>2. f \in [1..c.left -> One] BY <2>1
  <2>3. f \in Seq(One) /\ Len(f) = c.left
    <3> DEFINE n == c.left
    <3>1. n \in Nat /\ f \in [1..n -> One] BY <1>6, <2>2
    <3> HIDE DEF n, f
    <3>2. f \in Seq(One) /\ Len(f) = n BY <3>1
    <3> QED BY <3>2 DEF n
  <2> HIDE DEF f, t
  <2> QED BY <1>8, <2>1, <2>3, SeqEqual
<1>11. Upto(r, w, c.idx) = u \o t
  <2> DEFINE x == c.at
             y == c.idx
             m == Start(r)
  <2>1. m \in Nat /\ x \in Nat /\ y \in Nat /\ m <= x /\ x <= y /\ y <= Len(w)
    BY <1>4, <1>5, <1>6, <1>7
  <2> HIDE DEF x, y, m
  <2>2. SubSeq(w, m + 1, y) = SubSeq(w, m + 1, x) \o SubSeq(w, x + 1, y)
    BY <1>3, <2>1, SliceParts
  <2> QED BY <2>2 DEF x, y, m, Upto
<1>12. c.sum = Total(u) BY <1>1, <1>3, <1>4 DEF Summing, Upto
<1> HIDE DEF f, t, u
<1>13. s = Total(Upto(r, w, c.idx)) BY <1>8, <1>9, <1>10, <1>11, <1>12, TotalConcat
<1>14. s \in Nat BY <1>6, <1>8, <1>10, TotalRules
<1> HIDE DEF c, s, at
<1>15. at \in Nat BY <1>6 DEF at
<1>16. d \in Records /\ d.pc = "chunk" /\ d.idx = c.idx /\ d.len = c.len /\ d.sum = s
  BY <1>3, <1>14, <1>15 DEF Records, Pcs
<1> HIDE DEF d
<1>17. Place(d) = c.idx BY <1>16 DEF Place
<1>18. Going(r, d, w) BY <1>4, <1>5, <1>6, <1>16, <1>17 DEF Going
<1>19. Summing(r, d, w) BY <1>13, <1>16, <1>17 DEF Summing
<1>20. Own(r, d, prog) = {} BY <1>1 DEF Own
<1>21. CallOK(r, d, arr', w, prog) BY <1>1, <1>18, <1>19, <1>20 DEF CallOK
<1>22. Owned(r, d) BY <1>1, <1>2, <1>16, ArraysKept
<1> QED BY <1>1, <1>16, <1>21, <1>22, OneCall DEF c, w

LEMMA StepSumReturn ==
  ASSUME IInv, NEW r \in Calls, SumReturn(r)
  PROVE  IInv'
<1> DEFINE c == calls[r]
           w == Word
           s == c.sum
           d == [NoCall EXCEPT !.pc = "done", !.sum = s]
<1>1. c.pc = "chunk" /\ c.len = 0 /\ prog = "sum" /\ UNCHANGED <<prog, main, arr, sum1>>
  BY DEF SumReturn
<1>2. calls' = [calls EXCEPT ![r] = d] BY DEF SumReturn
<1>3. c \in Records /\ Going(r, c, w) /\ Summing(r, c, w) BY <1>1, ActiveFacts
<1>4. c.idx \in Nat /\ s \in Nat BY <1>3, RecordFacts
<1>5. d \in Records /\ d.pc = "done" /\ d.sum = s
  <2> HIDE DEF s
  <2> QED BY <1>4, SerialFacts, DoneFacts
<1> HIDE DEF d, w
<1>6. Place(c) = End(r, w) /\ Size(r, w) >= 1 /\ End(r, w) <= Len(w)
  BY <1>1, <1>3, <1>4 DEF Going, Place
<1>7. Going(r, d, w) BY <1>5, <1>6 DEF Going
<1>8. s = Total(Part(r, w)) BY <1>1, <1>3, <1>6 DEF Summing, Part
<1>9. Summing(r, d, w) BY <1>5, <1>8 DEF Summing
<1>10. Own(r, d, prog) = {} BY <1>1 DEF Own
<1>11. CallOK(r, d, arr', w, prog) BY <1>1, <1>7, <1>9, <1>10 DEF CallOK
<1>12. Owned(r, d) BY <1>1, <1>2, <1>5, ArraysKept
<1> QED BY <1>1, <1>5, <1>11, <1>12, OneCall DEF c, w

(* A symbol after a run.                                                   *)
LEMMA LongerLast ==
  ASSUME NEW u, NEW p \in Nat, NEW f \in Nat \ {0}, NEW c \in Nat,
         u \in Seq(Elem), Append(u, Run(p, f)) \in Seq(RunElems)
  PROVE  /\ c = p => Longer(Append(u, Run(p, f)), c) = Append(u, Run(p, f + 1))
         /\ c # p => Longer(Append(u, Run(p, f)), c) = Append(Append(u, Run(p, f)), Run(c, 1))
<1> DEFINE x == Run(p, f)
           y == Run(p, f + 1)
           s == Append(u, x)
           t == Append(u, y)
           n == Len(u)
           l == Longer(s, c)
<1>1. x \in Elem /\ y \in Elem /\ y \in RunElems /\ Symbol(x) = p /\ Freq(x) = f
  BY RunMade, RunFacts
<1> HIDE DEF x, y
<1>2. /\ s # <<>> /\ Len(s) = n + 1 /\ s[n + 1] = x /\ \A i \in 1..n : s[i] = u[i]
  BY <1>1, AppendProperties
<1>3. /\ t \in Seq(Elem) /\ Len(t) = n + 1 /\ t[n + 1] = y /\ \A i \in 1..n : t[i] = u[i]
  BY <1>1, AppendProperties
<1>4. s \in Seq(RunElems) BY DEF x
<1>5. n \in Nat BY LenProperties
<1> HIDE DEF s, t, n
<1>6. s[Len(s)] = x BY <1>2
<1>7. CASE c = p
  <2>1. Symbol(s[Len(s)]) = c BY <1>1, <1>6, <1>7
  <2>2. /\ Len(l) = Len(s) /\ l[Len(s)] = Run(c, Freq(s[Len(s)]) + 1)
        /\ \A i \in 1..Len(s) : i # Len(s) => l[i] = s[i]
    BY <1>2, <1>4, <2>1, LongerElems
  <2>3. l \in Seq(RunElems) BY <1>4, LongerFacts
  <2>4. l \in Seq(Elem) BY <2>3, RunSeqs
  <2>5. l[n + 1] = y BY <1>1, <1>2, <1>6, <1>7, <2>2 DEF y
  <2> HIDE DEF l
  <2>6. ASSUME NEW i \in 1..(n + 1) PROVE l[i] = t[i]
    <3>1. CASE i = n + 1 BY <3>1, <1>3, <2>5
    <3>2. CASE i # n + 1
      <4>1. i \in 1..n /\ i \in 1..Len(s) /\ i # Len(s) BY <3>2, <1>2, <1>5
      <4> QED BY <4>1, <1>2, <1>3, <2>2
    <3> QED BY <3>1, <3>2
  <2>7. Len(l) = n + 1 BY <1>2, <2>2
  <2>8. l = t BY <1>3, <2>4, <2>6, <2>7, SeqEqual
  <2> QED BY <1>7, <2>8 DEF l, s, t, x, y
<1>8. CASE c # p
  <2>1. Symbol(s[Len(s)]) # c BY <1>1, <1>6, <1>8
  <2>2. l = Append(s, Run(c, 1)) BY <2>1 DEF Longer
  <2> QED BY <1>8, <2>2 DEF s, x
<1> QED BY <1>7, <1>8

LEMMA LongerOther ==
  ASSUME NEW u \in Seq(Elem), NEW p \in Nat, NEW f \in Nat \ {0}, NEW c \in Nat, c # p,
         Append(u, Run(p, f)) \in Seq(RunElems)
  PROVE  Longer(Append(u, Run(p, f)), c) = Append(Append(u, Run(p, f)), Run(c, 1))
BY LongerLast

LEMMA BufMade ==
  ASSUME NEW b \in Bufs
  PROVE  /\ b = [da |-> b.da, ptr |-> b.ptr, cap |-> b.cap, n |-> b.n]
         /\ b.da \in Das /\ b.ptr \in Ptrs /\ b.cap \in Nat /\ b.n \in Nat
<1> DEFINE P == [moved : Nat, idx : Nat]
<1>1. b \in [da : Das, ptr : P, cap : Nat, n : Nat] BY DEF Bufs
<1> HIDE DEF P
<1>2. b = [da |-> b.da, ptr |-> b.ptr, cap |-> b.cap, n |-> b.n] BY <1>1
<1>3. b.da \in Das /\ b.ptr \in P /\ b.cap \in Nat /\ b.n \in Nat BY <1>1
<1> QED BY <1>2, <1>3 DEF P, Ptrs

(* A step that changes the array of an encoder.                            *)
LEMMA ArrayChanged ==
  ASSUME IInv, UNCHANGED <<prog, main, sum1>>, NEW r \in Calls, NEW c \in Records,
         calls' = [calls EXCEPT ![r] = c], NEW a \in Arrays, NEW da \in Das,
         arr' = [arr EXCEPT ![a] = da], a \in Own(r, calls[r], prog)
  PROVE  Owned(r, c) /\ arr'[a] = da
<1>1. arr \in [Arrays -> Das \union {None}] BY DEF IInv, TypeInv
<1>2. arr' \in [Arrays -> Das \union {None}] /\ \A x \in Arrays : x # a => arr'[x] = arr[x]
  BY <1>1
<1> QED BY <1>1, <1>2 DEF Owned

LEMMA StepEncodeStart ==
  ASSUME IInv, NEW r \in Calls, EncodeStart(r)
  PROVE  IInv'
<1> DEFINE c == calls[r]
           w == Word
           b == AppendPrepare(DaInit(Grain, Grain), FALSE)
           x == Element(c.idx)[1]
           i == c.idx + 1
           l == c.len - 1
           p == b.ptr
           q == b.cap
           n == b.n
           d == [c EXCEPT !.pc = "chunk", !.prev = x, !.freq = 1, !.idx = i, !.len = l,
                          !.ptr = p, !.cap = q, !.n = n, !.ret = r]
<1>1. c.pc = "ready" /\ prog = "rle" /\ UNCHANGED <<prog, main, sum1>>
      /\ arr' = [arr EXCEPT ![r] = b.da]
  BY DEF EncodeStart
<1>2. calls' = [calls EXCEPT ![r] = d] BY DEF EncodeStart, IInv, TypeInv
<1>3. /\ c \in Records /\ Going(r, c, w) /\ Own(r, c, prog) \subseteq Within(r) /\ w \in Seq(One)
      /\ \A k \in 0..(Len(w) - 1) : Element(k) = w[k + 1]
  BY <1>1, ActiveFacts, WordFacts
<1>4. b \in Bufs /\ Written(b) = <<>>
  <2> DEFINE da == DaInit(Grain, Grain)
  <2>1. da \in Das /\ Contents(da) = <<>> BY ConstantsAssumption, InitFacts
  <2> HIDE DEF da
  <2> DEFINE e == AppendPrepare(da, FALSE)
  <2>2. e \in Bufs /\ Written(e) = Contents(da) BY <2>1, PrepareFacts
  <2>3. b = e BY DEF da
  <2> HIDE DEF e, b
  <2> QED BY <2>1, <2>2, <2>3
<1> HIDE DEF b, w
<1>5. /\ b = [da |-> b.da, ptr |-> p, cap |-> q, n |-> n]
      /\ b.da \in Das /\ p \in Ptrs /\ q \in Nat /\ n \in Nat
  BY <1>4, BufMade
<1>6. /\ c.idx = Start(r) /\ c.len = Size(r, w) /\ Size(r, w) >= 1 /\ End(r, w) <= Len(w)
  BY <1>1, <1>3 DEF Going
<1>7. /\ Start(r) \in Nat /\ End(r, w) = Start(r) + Size(r, w) /\ Size(r, w) \in Nat \ {0}
      /\ Start(r) < End(r, w) /\ Len(w) \in Nat
  BY <1>3, <1>6, StartFacts
<1>8. /\ w[i] \in One /\ Upto(r, w, i) = Append(<<>>, w[i]) /\ Element(c.idx) = w[i]
  <2>1. /\ Upto(r, w, Start(r)) = <<>> /\ w[Start(r) + 1] \in One
        /\ Upto(r, w, Start(r) + 1) = Append(Upto(r, w, Start(r)), w[Start(r) + 1])
    BY <1>3, <1>6, <1>7, UptoFacts
  <2>2. c.idx \in 0..(Len(w) - 1) BY <1>6, <1>7
  <2> QED BY <1>3, <1>6, <2>1, <2>2
<1>9. x \in Nat /\ x = w[i][1] BY <1>8, OneFacts
<1>10. RunsOf(Upto(r, w, i)) = <<Run(x, 1)>> BY <1>8, <1>9, RunsOfOne
<1>11. i \in Nat /\ l \in Nat /\ i + l = End(r, w) /\ Start(r) < i BY <1>6, <1>7
<1>12. r \in Arrays /\ r \in Own(r, c, prog) BY <1>1, SerialFacts DEF Own
<1> HIDE DEF c, x, i, l, p, q, n
<1>13. /\ d \in Records /\ d.pc = "chunk" /\ d.prev = x /\ d.freq = 1 /\ d.idx = i /\ d.len = l
       /\ d.ptr = p /\ d.cap = q /\ d.n = n
  <2>1. "chunk" \in Pcs /\ 1 \in Nat BY DEF Pcs
  <2> QED BY <1>3, <1>5, <1>9, <1>11, <1>12, <2>1 DEF Records
<1> HIDE DEF d
<1>14. Owned(r, d) /\ arr'[r] = b.da BY <1>1, <1>2, <1>5, <1>12, <1>13, ArrayChanged DEF c
<1>15. BufOf(r, d, arr') = b BY <1>5, <1>13, <1>14 DEF BufOf
<1>16. Place(d) = i BY <1>13 DEF Place
<1>17. Going(r, d, w) BY <1>6, <1>11, <1>13, <1>16, <1>7 DEF Going
<1>18. Append(Written(b), Run(d.prev, d.freq)) = RunsOf(Upto(r, w, i)) BY <1>4, <1>10, <1>13
<1>19. Reading(r, d, arr', w) BY <1>4, <1>11, <1>13, <1>15, <1>16, <1>18 DEF Reading
<1>20. Coding(r, d, arr', w) BY <1>13, <1>19 DEF Coding
<1>21. Own(r, d, prog) = Own(r, c, prog) BY <1>1, <1>13 DEF Own, c
<1>22. CallOK(r, d, arr', w, prog) BY <1>1, <1>3, <1>17, <1>20, <1>21 DEF CallOK
<1> QED BY <1>1, <1>13, <1>14, <1>22, OneCall DEF c, w

(* An encoder in a chunk, and what the next symbol does to the runs.       *)
LEMMA EatFacts ==
  ASSUME IInv, NEW r \in Calls, calls[r].pc = "eat", prog = "rle"
  PROVE  LET c == calls[r]
             w == Word
             curr == Element(c.at)[1]
             k == c.at + 1
         IN  /\ c \in Records /\ Going(r, c, w) /\ Own(r, c, prog) \subseteq Within(r)
             /\ c.at \in Nat /\ c.left \in Nat \ {0} /\ c.prev \in Nat /\ c.freq \in Nat \ {0}
             /\ curr \in Nat /\ k \in Nat /\ Start(r) \in Nat /\ Start(r) < k
             /\ Buffer(r) \in Bufs /\ Buffer(r) = BufOf(r, c, arr)
             /\ Append(Written(Buffer(r)), Run(c.prev, c.freq)) \in Seq(RunElems)
             /\ RunsOf(Upto(r, w, k)) = Longer(Append(Written(Buffer(r)), Run(c.prev, c.freq)), curr)
<1> DEFINE c == calls[r]
           w == Word
           curr == Element(c.at)[1]
           k == c.at + 1
           at == c.at
           b == Buffer(r)
<1>1. c.pc = "eat" /\ prog = "rle" OBVIOUS
<1>2. /\ c \in Records /\ Going(r, c, w) /\ Own(r, c, prog) \subseteq Within(r) /\ w \in Seq(One)
      /\ Coding(r, c, arr, w) /\ \A i \in 0..(Len(w) - 1) : Element(i) = w[i + 1]
  BY <1>1, ActiveFacts, WordFacts
<1>3. b = BufOf(r, c, arr) BY DEF Buffer, BufOf
<1> HIDE DEF w, b, c
<1>4. /\ c.idx \in Nat /\ c.len \in Nat /\ c.at \in Nat /\ c.left \in Nat /\ c.freq \in Nat
      /\ c.prev \in Nat
  BY <1>2, RecordFacts
<1>5. /\ Size(r, w) >= 1 /\ End(r, w) <= Len(w) /\ c.idx + c.len = End(r, w)
      /\ c.left >= 1 /\ c.at + c.left = c.idx /\ Place(c) = at
  BY <1>1, <1>2 DEF Going, Place
<1>6. Start(r) \in Nat /\ End(r, w) \in Nat /\ Len(w) \in Nat BY <1>2, <1>5, StartFacts
<1>7. Reading(r, c, arr, w) BY <1>1, <1>2 DEF Coding
<1>8. /\ b \in Bufs /\ c.freq >= 1 /\ Start(r) < at
      /\ Append(Written(b), Run(c.prev, c.freq)) = RunsOf(Upto(r, w, at))
  BY <1>3, <1>5, <1>7 DEF Reading
<1>9. at \in Nat /\ Start(r) <= at /\ at < End(r, w) /\ at \in 0..(Len(w) - 1)
  <2> DEFINE x == c.idx
             y == c.len
             z == c.left
             e == End(r, w)
             n == Len(w)
             s == Start(r)
  <2>1. /\ x \in Nat /\ y \in Nat /\ z \in Nat /\ e \in Nat /\ n \in Nat /\ s \in Nat /\ at \in Nat
        /\ x + y = e /\ at + z = x /\ z >= 1 /\ e <= n /\ s < at
    BY <1>4, <1>5, <1>6, <1>8
  <2> HIDE DEF x, y, z, e, n, s, at
  <2>2. s <= at /\ at < e /\ at \in 0..(n - 1) BY <2>1
  <2> QED BY <2>1, <2>2 DEF e, n, s
<1>10. Element(at) = w[at + 1] BY <1>2, <1>9
<1> HIDE DEF at
<1>11. /\ Upto(r, w, at) \in Seq(One) /\ w[at + 1] \in One
       /\ Upto(r, w, at + 1) = Append(Upto(r, w, at), w[at + 1])
  BY <1>2, <1>5, <1>9, UptoFacts
<1>12. RunsOf(Upto(r, w, at + 1)) = Longer(RunsOf(Upto(r, w, at)), w[at + 1][1])
  BY <1>11, RunsOfRules
<1>13. RunsOf(Upto(r, w, at)) \in Seq(RunElems) BY <1>11, RunsOfRules
<1>14. w[at + 1][1] \in Nat BY <1>11, OneFacts
<1>15. curr = w[at + 1][1] /\ k = at + 1 /\ k \in Nat /\ Start(r) < k
  <2>1. at + 1 \in Nat /\ Start(r) < at + 1 BY <1>6, <1>8, <1>9
  <2> QED BY <1>10, <2>1 DEF at
<1>16. c.left \in Nat \ {0} /\ c.freq \in Nat \ {0} BY <1>4, <1>5, <1>8
<1> HIDE DEF curr, k
<1> DEFINE last == Append(Written(b), Run(c.prev, c.freq))
<1>17. last \in Seq(RunElems) BY <1>8, <1>13
<1>18. RunsOf(Upto(r, w, k)) = Longer(last, curr) BY <1>8, <1>12, <1>15
<1>19. curr \in Nat BY <1>14, <1>15
<1> QED BY <1>2, <1>3, <1>4, <1>6, <1>8, <1>15, <1>16, <1>17, <1>18, <1>19 DEF c, w, b, curr, k

LEMMA EatGoing ==
  ASSUME NEW r \in Calls, NEW w \in Seq(One), NEW c \in Records, NEW d \in Records,
         Going(r, c, w), c.pc = "eat", Start(r) \in Nat,
         d.pc = (IF c.left = 1 THEN "chunk" ELSE "eat"),
         d.at = c.at + 1, d.left = c.left - 1, d.idx = c.idx, d.len = c.len
  PROVE  Going(r, d, w) /\ Place(d) = c.at + 1 /\ d.pc \in {"chunk", "eat"}
<1>1. c.idx \in Nat /\ c.at \in Nat /\ c.left \in Nat BY RecordFacts
<1>2. /\ Size(r, w) >= 1 /\ End(r, w) <= Len(w) /\ c.idx + c.len = End(r, w)
      /\ c.left >= 1 /\ c.at + c.left = c.idx /\ Start(r) <= c.at
  BY DEF Going, Place
<1>3. Place(d) = c.at + 1 BY <1>1, <1>2 DEF Place
<1> QED BY <1>1, <1>2, <1>3 DEF Going

LEMMA StepEatSame ==
  ASSUME IInv, NEW r \in Calls, calls[r].pc = "eat", prog = "rle",
         UNCHANGED <<prog, main, arr, sum1>>,
         Element(calls[r].at)[1] = calls[r].prev,
         calls' = [calls EXCEPT ![r] =
                     [[calls[r] EXCEPT !.at = calls[r].at + 1, !.left = calls[r].left - 1,
                                       !.pc = IF calls[r].left = 1 THEN "chunk" ELSE "eat"]
                       EXCEPT !.freq = calls[r].freq + 1]]
  PROVE  IInv'
<1> DEFINE c == calls[r]
           w == Word
           b == Buffer(r)
           k == c.at + 1
           l == c.left - 1
           f == c.freq + 1
           pc == IF c.left = 1 THEN "chunk" ELSE "eat"
           d == [c EXCEPT !.at = k, !.left = l, !.pc = pc, !.freq = f]
<1>1. /\ c \in Records /\ Going(r, c, w) /\ Own(r, c, prog) \subseteq Within(r)
      /\ c.at \in Nat /\ c.left \in Nat \ {0} /\ c.prev \in Nat /\ c.freq \in Nat \ {0}
      /\ k \in Nat /\ Start(r) \in Nat /\ Start(r) < k
      /\ b \in Bufs /\ b = BufOf(r, c, arr)
      /\ Append(Written(b), Run(c.prev, c.freq)) \in Seq(RunElems)
      /\ RunsOf(Upto(r, w, k)) = Longer(Append(Written(b), Run(c.prev, c.freq)), c.prev)
  BY EatFacts
<1>2. c.pc = "eat" /\ w \in Seq(One) BY ActiveFacts, WordFacts
<1>3. calls' = [calls EXCEPT ![r] = d] BY DEF IInv, TypeInv
<1>4. l \in Nat /\ f \in Nat \ {0} /\ pc \in Pcs
  <2> DEFINE x == c.left
             y == c.freq
  <2>1. x \in Nat \ {0} /\ y \in Nat \ {0} BY <1>1
  <2>2. pc \in Pcs BY DEF Pcs
  <2> HIDE DEF x, y, pc
  <2>3. x - 1 \in Nat /\ y + 1 \in Nat \ {0} BY <2>1
  <2> QED BY <2>2, <2>3 DEF x, y
<1>5. Written(b) \in Seq(Elem) BY <1>1, WrittenFacts
<1>6. Longer(Append(Written(b), Run(c.prev, c.freq)), c.prev) = Append(Written(b), Run(c.prev, f))
  <2> DEFINE u == Written(b)
  <2> HIDE DEF u, c
  <2> QED BY <1>1, <1>5, LongerLast DEF u
<1> HIDE DEF c, w, b, k, l, f, pc
<1>7. /\ d \in Records /\ d.at = k /\ d.left = l /\ d.pc = pc /\ d.freq = f /\ d.idx = c.idx
      /\ d.len = c.len /\ d.prev = c.prev /\ d.ptr = c.ptr /\ d.cap = c.cap /\ d.n = c.n
  BY <1>1, <1>4 DEF Records
<1> HIDE DEF d
<1>8. Going(r, d, w) /\ Place(d) = k /\ d.pc \in {"chunk", "eat"}
  <2>1. d.at = c.at + 1 /\ d.left = c.left - 1 /\ d.pc = (IF c.left = 1 THEN "chunk" ELSE "eat")
    BY <1>7 DEF k, l, pc
  <2>2. Going(r, d, w) /\ Place(d) = c.at + 1 /\ d.pc \in {"chunk", "eat"}
    BY <1>1, <1>2, <1>7, <2>1, EatGoing
  <2> QED BY <2>2 DEF k
<1>9. BufOf(r, d, arr) = b BY <1>1, <1>7 DEF BufOf
<1>10. Reading(r, d, arr, w) BY <1>1, <1>4, <1>6, <1>7, <1>8, <1>9 DEF Reading
<1>11. Coding(r, d, arr, w) BY <1>8, <1>10 DEF Coding
<1>12. Own(r, d, prog) = Own(r, c, prog) BY <1>2, <1>8 DEF Own
<1>13. arr' = arr OBVIOUS
<1>14. CallOK(r, d, arr', w, prog) BY <1>1, <1>8, <1>11, <1>12, <1>13 DEF CallOK
<1>15. Owned(r, d) BY <1>3, <1>7, ArraysKept
<1> QED BY <1>2, <1>7, <1>8, <1>14, <1>15, OneCall DEF c, w

(* The record of an encoder that has come to the run of x.                 *)
Turned(c, x, e) ==
  [[c EXCEPT !.at = c.at + 1, !.left = c.left - 1, !.pc = IF c.left = 1 THEN "chunk" ELSE "eat"]
     EXCEPT !.prev = x, !.freq = 1, !.ptr = e.ptr, !.cap = e.cap, !.n = e.n]

LEMMA TurnedFacts ==
  ASSUME NEW c \in Records, c.left \in Nat \ {0}, NEW x \in Nat, NEW e,
         e.ptr \in Ptrs, e.cap \in Nat, e.n \in Nat
  PROVE  LET d == Turned(c, x, e)
         IN  /\ d \in Records /\ d.at = c.at + 1 /\ d.left = c.left - 1
             /\ d.pc = (IF c.left = 1 THEN "chunk" ELSE "eat")
             /\ d.idx = c.idx /\ d.len = c.len /\ d.prev = x /\ d.freq = 1
             /\ d.ptr = e.ptr /\ d.cap = e.cap /\ d.n = e.n
<1> DEFINE k == c.at + 1
           l == c.left - 1
           pc == IF c.left = 1 THEN "chunk" ELSE "eat"
           p == e.ptr
           q == e.cap
           n == e.n
           g == [c EXCEPT !.at = k, !.left = l, !.pc = pc]
           d == [g EXCEPT !.prev = x, !.freq = 1, !.ptr = p, !.cap = q, !.n = n]
<1>1. k \in Nat /\ l \in Nat /\ pc \in Pcs BY RecordFacts DEF Pcs
<1>2. p \in Ptrs /\ q \in Nat /\ n \in Nat OBVIOUS
<1>3. Turned(c, x, e) = d BY DEF Turned
<1> HIDE DEF k, l, pc, p, q, n
<1>4. g \in Records /\ g.at = k /\ g.left = l /\ g.pc = pc /\ g.idx = c.idx /\ g.len = c.len
  BY <1>1 DEF Records
<1> HIDE DEF g
<1>5. /\ d \in Records /\ d.at = k /\ d.left = l /\ d.pc = pc /\ d.idx = c.idx /\ d.len = c.len
      /\ d.prev = x /\ d.freq = 1 /\ d.ptr = p /\ d.cap = q /\ d.n = n
  BY <1>2, <1>4 DEF Records
<1> HIDE DEF d
<1> QED BY <1>3, <1>5 DEF k, l, pc, p, q, n

LEMMA StepEatOther ==
  ASSUME IInv, NEW r \in Calls, calls[r].pc = "eat", prog = "rle", UNCHANGED <<prog, main, sum1>>,
         Element(calls[r].at)[1] # calls[r].prev, NEW moves \in BOOLEAN, NEW e,
         e = Put(Buffer(r), Run(calls[r].prev, calls[r].freq), moves),
         arr' = [arr EXCEPT ![r] = e.da],
         calls' = [calls EXCEPT ![r] = Turned(calls[r], Element(calls[r].at)[1], e)]
  PROVE  IInv'
<1> DEFINE c == calls[r]
           w == Word
           b == Buffer(r)
           k == c.at + 1
           l == c.left - 1
           curr == Element(c.at)[1]
           pc == IF c.left = 1 THEN "chunk" ELSE "eat"
           p == e.ptr
           q == e.cap
           n == e.n
           d == Turned(c, curr, e)
<1>1. /\ c \in Records /\ Going(r, c, w) /\ Own(r, c, prog) \subseteq Within(r)
      /\ c.at \in Nat /\ c.left \in Nat \ {0} /\ c.prev \in Nat /\ c.freq \in Nat \ {0}
      /\ k \in Nat /\ Start(r) \in Nat /\ Start(r) < k /\ curr \in Nat
      /\ b \in Bufs /\ b = BufOf(r, c, arr)
      /\ Append(Written(b), Run(c.prev, c.freq)) \in Seq(RunElems)
      /\ RunsOf(Upto(r, w, k)) = Longer(Append(Written(b), Run(c.prev, c.freq)), curr)
  BY EatFacts
<1>2. c.pc = "eat" /\ w \in Seq(One) BY ActiveFacts, WordFacts
<1>3. calls' = [calls EXCEPT ![r] = d] OBVIOUS
<1>4. l \in Nat /\ 1 \in Nat /\ pc \in Pcs BY <1>1 DEF Pcs
<1>5. Written(b) \in Seq(Elem) BY <1>1, WrittenFacts
<1> DEFINE x == Run(c.prev, c.freq)
           u == Written(b)
<1>6. Longer(Append(u, x), curr) = Append(Append(u, x), Run(curr, 1))
  <2> DEFINE prev == c.prev
             freq == c.freq
  <2>1. curr # prev /\ x = Run(prev, freq) OBVIOUS
  <2>2. prev \in Nat /\ freq \in Nat \ {0} /\ Append(u, Run(prev, freq)) \in Seq(RunElems) BY <1>1
  <2>3. u \in Seq(Elem) /\ curr \in Nat BY <1>1, <1>5
  <2> HIDE DEF u, curr, prev, freq, x
  <2>4. Longer(Append(u, Run(prev, freq)), curr) = Append(Append(u, Run(prev, freq)), Run(curr, 1))
    BY <2>1, <2>2, <2>3, LongerOther
  <2> QED BY <2>1, <2>4
<1>7. x \in Elem /\ e = Put(b, x, moves)
  <2>1. x \in RunElems BY <1>1, RunMade
  <2> QED BY <2>1, RunFacts
<1> HIDE DEF d, c, w, b, k, l, curr, pc, x
<1>8. e \in Bufs /\ Written(e) = Append(u, x) BY <1>1, <1>7, PutFacts
<1>9. /\ e = [da |-> e.da, ptr |-> p, cap |-> q, n |-> n]
      /\ e.da \in Das /\ p \in Ptrs /\ q \in Nat /\ n \in Nat
  BY <1>8, BufMade
<1>10. /\ d \in Records /\ d.at = k /\ d.left = l /\ d.pc = pc /\ d.freq = 1 /\ d.idx = c.idx
       /\ d.len = c.len /\ d.prev = curr /\ d.ptr = p /\ d.cap = q /\ d.n = n
  <2>1. c \in Records /\ c.left \in Nat \ {0} /\ curr \in Nat /\ e.ptr \in Ptrs BY <1>1, <1>9
  <2>2. e.cap \in Nat /\ e.n \in Nat BY <1>9
  <2> QED BY <2>1, <2>2, TurnedFacts DEF d, k, l, pc
<1> HIDE DEF u, p, q, n
<1>11. Going(r, d, w) /\ Place(d) = k /\ d.pc \in {"chunk", "eat"}
  <2>1. d.at = c.at + 1 /\ d.left = c.left - 1 /\ d.pc = (IF c.left = 1 THEN "chunk" ELSE "eat")
    BY <1>10 DEF k, l, pc
  <2>2. Going(r, d, w) /\ Place(d) = c.at + 1 /\ d.pc \in {"chunk", "eat"}
    BY <1>1, <1>2, <1>10, <2>1, EatGoing
  <2> QED BY <2>2 DEF k
<1>12. r \in Arrays /\ r \in Own(r, c, prog) BY <1>2, SerialFacts DEF Own
<1>13. Owned(r, d) /\ arr'[r] = e.da
  <2> DEFINE da == e.da
  <2>1. /\ da \in Das /\ arr' = [arr EXCEPT ![r] = da] /\ r \in Own(r, calls[r], prog)
        /\ d \in Records /\ r \in Arrays
    BY <1>9, <1>10, <1>12 DEF c
  <2> HIDE DEF da
  <2>2. Owned(r, d) /\ arr'[r] = da BY <1>3, <2>1, ArrayChanged
  <2> QED BY <2>2 DEF da
<1>14. BufOf(r, d, arr') = e BY <1>9, <1>10, <1>13 DEF BufOf
<1>15. Append(Written(e), Run(d.prev, d.freq)) = RunsOf(Upto(r, w, k))
  <2>1. RunsOf(Upto(r, w, k)) = Longer(Append(u, x), curr) BY <1>1 DEF u, x
  <2>2. Run(d.prev, d.freq) = Run(curr, 1) BY <1>10
  <2> QED BY <2>1, <2>2, <1>6, <1>8
<1>16. Reading(r, d, arr', w)
  <2>1. BufOf(r, d, arr') \in Bufs /\ d.freq >= 1 /\ Start(r) < Place(d)
    BY <1>1, <1>8, <1>10, <1>11, <1>14
  <2>2. Append(Written(BufOf(r, d, arr')), Run(d.prev, d.freq)) = RunsOf(Upto(r, w, Place(d)))
    BY <1>11, <1>14, <1>15
  <2> QED BY <2>1, <2>2 DEF Reading
<1>17. Coding(r, d, arr', w) BY <1>11, <1>16 DEF Coding
<1>18. Own(r, d, prog) = Own(r, c, prog) BY <1>2, <1>11 DEF Own
<1>19. CallOK(r, d, arr', w, prog) BY <1>1, <1>11, <1>17, <1>18 DEF CallOK
<1> QED BY <1>2, <1>10, <1>11, <1>13, <1>19, OneCall DEF c, w

LEMMA StepEatSymbol ==
  ASSUME IInv, NEW r \in Calls, EatSymbol(r)
  PROVE  IInv'
<1> DEFINE c == calls[r]
           curr == Element(c.at)[1]
           eaten == [c EXCEPT !.at = c.at + 1, !.left = c.left - 1,
                              !.pc = IF c.left = 1 THEN "chunk" ELSE "eat"]
<1>1. c.pc = "eat" /\ prog = "rle" /\ UNCHANGED <<prog, main, sum1>> BY DEF EatSymbol
<1>2. CASE curr = c.prev
  <2>1. arr' = arr /\ calls' = [calls EXCEPT ![r] = [eaten EXCEPT !.freq = c.freq + 1]]
    BY <1>2 DEF EatSymbol
  <2>2. calls' = [calls EXCEPT ![r] =
                     [[calls[r] EXCEPT !.at = calls[r].at + 1, !.left = calls[r].left - 1,
                                       !.pc = IF calls[r].left = 1 THEN "chunk" ELSE "eat"]
                       EXCEPT !.freq = calls[r].freq + 1]]
    BY <2>1 DEF IInv, TypeInv
  <2> QED BY <1>1, <1>2, <2>1, <2>2, StepEatSame
<1>3. CASE curr # c.prev
  <2>1. PICK moves \in BOOLEAN :
          LET b == Put(Buffer(r), Run(c.prev, c.freq), moves)
          IN  /\ arr' = [arr EXCEPT ![r] = b.da]
              /\ calls' = [calls EXCEPT ![r] =
                    [eaten EXCEPT !.prev = curr, !.freq = 1,
                                  !.ptr = b.ptr, !.cap = b.cap, !.n = b.n]]
    BY <1>3 DEF EatSymbol
  <2> DEFINE e == Put(Buffer(r), Run(c.prev, c.freq), moves)
  <2>2. arr' = [arr EXCEPT ![r] = e.da] BY <2>1
  <2>3. calls' = [calls EXCEPT ![r] = Turned(calls[r], Element(calls[r].at)[1], e)]
    BY <2>1 DEF Turned
  <2>4. e = Put(Buffer(r), Run(calls[r].prev, calls[r].freq), moves) OBVIOUS
  <2> HIDE DEF e
  <2> QED BY <1>1, <1>3, <2>2, <2>3, <2>4, StepEatOther
<1> QED BY <1>2, <1>3

LEMMA StepEncodeLast ==
  ASSUME IInv, NEW r \in Calls, EncodeLast(r)
  PROVE  IInv'
<1> DEFINE c == calls[r]
           w == Word
           b == Buffer(r)
           x == Run(c.prev, c.freq)
<1>1. c.pc = "chunk" /\ c.len = 0 /\ prog = "rle" /\ UNCHANGED <<prog, main, sum1>> BY DEF EncodeLast
<1>2. PICK moves \in BOOLEAN :
        LET e == Put(Buffer(r), Run(calls[r].prev, calls[r].freq), moves)
        IN  /\ arr' = [arr EXCEPT ![r] = e.da]
            /\ calls' = [calls EXCEPT ![r].pc = "finish",
                                      ![r].ptr = e.ptr, ![r].cap = e.cap, ![r].n = e.n]
  BY DEF EncodeLast
<1> DEFINE e == Put(b, x, moves)
           p == e.ptr
           q == e.cap
           n == e.n
           d == [c EXCEPT !.pc = "finish", !.ptr = p, !.cap = q, !.n = n]
<1>3. arr' = [arr EXCEPT ![r] = e.da] /\ calls' = [calls EXCEPT ![r] = d]
  BY <1>2 DEF IInv, TypeInv
<1>4. /\ c \in Records /\ Going(r, c, w) /\ Own(r, c, prog) \subseteq Within(r)
      /\ Coding(r, c, arr, w)
  BY <1>1, ActiveFacts
<1>5. b = BufOf(r, c, arr) BY DEF Buffer, BufOf
<1>6. c.idx \in Nat /\ c.prev \in Nat /\ c.freq \in Nat BY <1>4, RecordFacts
<1>7. Place(c) = End(r, w) /\ Size(r, w) >= 1 /\ End(r, w) <= Len(w)
  BY <1>1, <1>4, <1>6 DEF Going, Place
<1>8. b \in Bufs /\ c.freq >= 1 /\ Append(Written(b), x) = RunsOf(Part(r, w))
  BY <1>1, <1>4, <1>5, <1>7 DEF Coding, Reading, Part
<1>9. x \in Elem
  <2>1. c.freq \in Nat \ {0} BY <1>6, <1>8
  <2>2. x \in RunElems BY <1>6, <2>1, RunMade
  <2> QED BY <2>2, RunFacts
<1> HIDE DEF c, w, b, x
<1>10. e \in Bufs /\ e.n >= 1 /\ Written(e) = Append(Written(b), x) BY <1>8, <1>9, PutFacts
<1> HIDE DEF e
<1>11. /\ e = [da |-> e.da, ptr |-> p, cap |-> q, n |-> n]
       /\ e.da \in Das /\ p \in Ptrs /\ q \in Nat /\ n \in Nat /\ n >= 1
  BY <1>10, BufMade
<1> HIDE DEF p, q, n
<1>12. d \in Records /\ d.pc = "finish" /\ d.ptr = p /\ d.cap = q /\ d.n = n
  <2>1. "finish" \in Pcs BY DEF Pcs
  <2> QED BY <1>4, <1>11, <2>1 DEF Records
<1> HIDE DEF d
<1>13. r \in Arrays /\ r \in Own(r, c, prog) BY <1>1, SerialFacts DEF Own
<1>14. Owned(r, d) /\ arr'[r] = e.da BY <1>1, <1>3, <1>11, <1>12, <1>13, ArrayChanged DEF c
<1>15. BufOf(r, d, arr') = e BY <1>11, <1>12, <1>14 DEF BufOf
<1>16. Going(r, d, w) BY <1>7, <1>12 DEF Going
<1>17. Coding(r, d, arr', w) BY <1>8, <1>10, <1>12, <1>15 DEF Coding
<1>18. Own(r, d, prog) = Own(r, c, prog) BY <1>1, <1>12 DEF Own
<1>19. CallOK(r, d, arr', w, prog) BY <1>1, <1>4, <1>16, <1>17, <1>18 DEF CallOK
<1> QED BY <1>1, <1>12, <1>14, <1>19, OneCall DEF c, w

(* These are steps of the encoder.                                         *)
LEMMA IsCoding ==
  ASSUME IInv, NEW r \in Calls, calls[r].pc \in {"finish", "pop", "concat"}
  PROVE  prog = "rle" /\ Coding(r, calls[r], arr, Word)
<1>1. prog = "sum" => Summing(r, calls[r], Word) BY ActiveFacts
<1>2. prog = "rle" BY <1>1 DEF Summing, IInv, TypeInv
<1> QED BY <1>2, ActiveFacts

LEMMA StepEncodeReturn ==
  ASSUME IInv, NEW r \in Calls, EncodeReturn(r)
  PROVE  IInv'
<1> DEFINE c == calls[r]
           w == Word
           b == BufOf(r, c, arr)
           da == AppendFinalize(arr[r], c.n)
           d == [NoCall EXCEPT !.pc = "done", !.ret = r]
<1>1. c.pc = "finish" /\ UNCHANGED <<prog, main, sum1>> /\ calls' = [calls EXCEPT ![r] = d]
  BY DEF EncodeReturn
<1>2. r \in Arrays BY SerialFacts
<1>3. arr' = [arr EXCEPT ![r] = da] BY <1>2 DEF EncodeReturn, IInv, TypeInv
<1>4. /\ c \in Records /\ Going(r, c, w) /\ Own(r, c, prog) \subseteq Within(r)
      /\ prog = "rle" /\ Coding(r, c, arr, w)
  BY <1>1, ActiveFacts, IsCoding
<1>5. b \in Bufs /\ Written(b) = RunsOf(Part(r, w)) BY <1>1, <1>4 DEF Coding
<1>6. da = AppendFinalize(b.da, b.n) BY DEF BufOf
<1> HIDE DEF b, da, c, w
<1>7. da \in Das /\ Contents(da) = RunsOf(Part(r, w)) BY <1>5, <1>6, FinalizeFacts
<1>8. d \in Records /\ d.pc = "done" /\ d.ret = r BY <1>2, DoneFacts
<1> HIDE DEF d
<1>9. r \in Own(r, c, prog) BY <1>1, <1>2, <1>4 DEF Own, c
<1>10. Owned(r, d) /\ arr'[r] = da BY <1>1, <1>2, <1>3, <1>7, <1>8, <1>9, ArrayChanged DEF c
<1>11. Going(r, d, w) BY <1>4, <1>8 DEF Going
<1>12. Coding(r, d, arr', w) BY <1>7, <1>8, <1>10 DEF Coding
<1>13. Own(r, d, prog) \subseteq Own(r, c, prog) BY <1>8, <1>9 DEF Own
<1>14. CallOK(r, d, arr', w, prog) BY <1>4, <1>11, <1>12, <1>13 DEF CallOK
<1> QED BY <1>1, <1>8, <1>10, <1>14, OneCall DEF c, w

LEMMA StepMergePop ==
  ASSUME IInv, NEW r \in Calls, MergePop(r)
  PROVE  IInv'
<1> DEFINE c == calls[r]
           w == Word
           a == arr[c.ret]
           da == DaPop(a, 1)
           d == [c EXCEPT !.pc = "concat"]
           f == Contents(a)
           s == Contents(arr[c.other])
<1>1. c.pc = "pop" /\ UNCHANGED <<prog, main, sum1>> /\ calls' = [calls EXCEPT ![r] = d]
  BY DEF MergePop, IInv, TypeInv
<1>2. /\ c \in Records /\ Going(r, c, w) /\ Own(r, c, prog) \subseteq Within(r)
      /\ prog = "rle" /\ Coding(r, c, arr, w)
  BY <1>1, ActiveFacts, IsCoding
<1>3. c.ret \in Arrays /\ c.other \in Arrays BY <1>2, RecordFacts
<1>4. arr' = [arr EXCEPT ![c.ret] = da] BY <1>3 DEF MergePop, IInv, TypeInv
<1>5. /\ a \in Das /\ arr[c.other] \in Das /\ c.ret # c.other /\ s # <<>> /\ f # <<>>
      /\ SubSeq(f, 1, Len(f) - 1) \o s = RunsOf(Part(r, w))
  BY <1>1, <1>2 DEF Coding, Merging
<1> HIDE DEF a
<1>6. a.next_idx >= 1
  <2>1. f \in Seq(Elem) /\ Len(f) = a.next_idx BY <1>5, ContentsFacts
  <2>2. Len(f) \in Nat \ {0} BY <1>5, <2>1, EmptySeq
  <2> QED BY <2>1, <2>2
<1>7. da \in Das /\ Contents(da) = SubSeq(f, 1, Len(f) - 1) BY <1>5, <1>6, PopFacts
<1> HIDE DEF da, f, c, w
<1>8. d \in Records /\ d.pc = "concat" /\ d.ret = c.ret /\ d.other = c.other
  BY <1>2 DEF Records, Pcs
<1> HIDE DEF d
<1>9. c.ret \in Own(r, c, prog) BY <1>1, <1>2, <1>3 DEF Own, c
<1>10. Owned(r, d) /\ arr'[c.ret] = da BY <1>1, <1>3, <1>4, <1>7, <1>8, <1>9, ArrayChanged DEF c
<1>11. arr'[c.other] = arr[c.other] BY <1>3, <1>4, <1>5 DEF IInv, TypeInv
<1>12. Going(r, d, w) BY <1>1, <1>2, <1>8 DEF Going, c
<1>13. Merging(r, d, arr', w) BY <1>5, <1>7, <1>8, <1>10, <1>11 DEF Merging
<1>14. Coding(r, d, arr', w) BY <1>8, <1>13 DEF Coding
<1>15. Own(r, d, prog) = Own(r, c, prog) BY <1>1, <1>8 DEF Own, c
<1>16. CallOK(r, d, arr', w, prog) BY <1>2, <1>12, <1>14, <1>15 DEF CallOK
<1> QED BY <1>1, <1>8, <1>10, <1>16, OneCall DEF c, w

LEMMA StepMergeConcat ==
  ASSUME IInv, NEW r \in Calls, MergeConcat(r)
  PROVE  IInv'
<1> DEFINE c == calls[r]
           w == Word
           a == arr[c.ret]
           o == arr[c.other]
           d == [NoCall EXCEPT !.pc = "done", !.ret = c.ret]
<1>1. c.pc = "concat" /\ UNCHANGED <<prog, main, sum1>> /\ calls' = [calls EXCEPT ![r] = d]
  BY DEF MergeConcat
<1>2. /\ c \in Records /\ Going(r, c, w) /\ Own(r, c, prog) \subseteq Within(r)
      /\ prog = "rle" /\ Coding(r, c, arr, w)
  BY <1>1, ActiveFacts, IsCoding
<1>3. c.ret \in Arrays /\ c.other \in Arrays BY <1>2, RecordFacts
<1>4. PICK moves \in BOOLEAN :
        arr' = [arr EXCEPT ![c.ret] = DaConcat(a, o, moves), ![c.other] = None]
  BY <1>3 DEF MergeConcat, IInv, TypeInv
<1>5. a \in Das /\ o \in Das /\ c.ret # c.other /\ Contents(a) \o Contents(o) = RunsOf(Part(r, w))
  BY <1>1, <1>2 DEF Coding, Merging
<1> DEFINE da == DaConcat(a, o, moves)
<1>6. arr' = [[arr EXCEPT ![c.ret] = da] EXCEPT ![c.other] = None] BY <1>4
<1> HIDE DEF a, o
<1>7. da \in Das /\ Contents(da) = Contents(a) \o Contents(o) BY <1>5, ConcatFacts
<1>8. d \in Records /\ d.pc = "done" /\ d.ret = c.ret
  <2> DEFINE t == c.ret
  <2>1. t \in Arrays BY <1>3
  <2> HIDE DEF t
  <2>2. LET e == [NoCall EXCEPT !.pc = "done", !.ret = t] IN e \in Records /\ e.pc = "done" /\ e.ret = t
    BY <2>1, DoneFacts, SerialFacts
  <2> QED BY <2>2 DEF t
<1> HIDE DEF da, d, w
<1>9. c.ret \in Own(r, c, prog) /\ c.other \in Own(r, c, prog) BY <1>1, <1>2, <1>3 DEF Own
<1>10. Owned(r, d) /\ arr'[c.ret] = da
  <2>1. arr \in [Arrays -> Das \union {None}] BY DEF IInv, TypeInv
  <2> HIDE DEF c
  <2>2. /\ arr' \in [Arrays -> Das \union {None}] /\ arr'[c.ret] = da
        /\ \A x \in Arrays : x # c.ret /\ x # c.other => arr'[x] = arr[x]
    BY <1>3, <1>5, <1>6, <1>7, <2>1
  <2> QED BY <2>2, <1>1, <1>9 DEF Owned, c
<1> HIDE DEF c
<1>11. Going(r, d, w) BY <1>2, <1>8 DEF Going
<1>12. Coding(r, d, arr', w) BY <1>5, <1>7, <1>8, <1>10 DEF Coding
<1>13. Own(r, d, prog) \subseteq Own(r, c, prog) BY <1>8, <1>9 DEF Own
<1>14. CallOK(r, d, arr', w, prog) BY <1>2, <1>11, <1>12, <1>13 DEF CallOK
<1> QED BY <1>1, <1>8, <1>10, <1>14, OneCall DEF c, w

-----------------------------------------------------------------------------
(* Forks and joins                                                         *)

LEMMA HalvesFacts ==
  ASSUME NEW r \in Ranges, r[2] >= 2
  PROVE  LET h == Half1(r)
             g == Half2(r)
         IN  /\ h \in Ranges /\ g \in Ranges /\ h # g /\ h # r /\ g # r
             /\ h[1] = r[1] /\ g[1] = r[1] + h[2] /\ g[2] = r[2] - h[2]
             /\ h[2] \in Nat \ {0} /\ g[2] \in Nat \ {0} /\ h[2] < r[2] /\ g[2] < r[2]
<1> DEFINE k == r[2] \div 2
           l == r[2] - k
<1>1. r[1] \in Nat /\ r[2] \in Nat \ {0} /\ r[1] + r[2] <= MaxElems /\ MaxElems \in Nat
  BY RangesFacts, ConstantsAssumption
<1>2. k \in Nat \ {0} /\ k < r[2] /\ l \in Nat \ {0} /\ l < r[2] BY <1>1
<1>3. Half1(r) = <<r[1], k>> /\ Half2(r) = <<r[1] + k, l>> BY DEF Half1, Half2
<1>4. l = r[2] - k OBVIOUS
<1> HIDE DEF k, l
<1>5. r[1] + k \in Nat /\ r[1] + k <= MaxElems /\ (r[1] + k) + l <= MaxElems BY <1>1, <1>2, <1>4
<1>6. <<r[1], k>> \in Ranges BY <1>1, <1>2, <1>5, RangesFacts
<1>7. <<r[1] + k, l>> \in Ranges BY <1>2, <1>5, RangesFacts
<1>8. r[1] + k # r[1] BY <1>1, <1>2
<1> QED BY <1>1, <1>2, <1>3, <1>4, <1>6, <1>7, <1>8

LEMMA WithinFacts ==
  ASSUME NEW r \in Ranges
  PROVE  /\ \A x \in Ranges : x \in Within(r) <=> r[1] <= x[1] /\ x[1] + x[2] <= r[1] + r[2]
         /\ \A x \in Within(r) : x \in Ranges
BY SerialFacts DEF Within

LEMMA HalvesWithin ==
  ASSUME NEW r \in Ranges, r[2] >= 2
  PROVE  /\ Half1(r) \in Within(r) /\ Half2(r) \in Within(r)
         /\ Within(Half1(r)) \subseteq Within(r) /\ Within(Half2(r)) \subseteq Within(r)
         /\ Apart(Half1(r), Half2(r))
<1> DEFINE h == Half1(r)
           g == Half2(r)
<1>1. /\ h \in Ranges /\ g \in Ranges /\ h[1] = r[1] /\ g[1] = r[1] + h[2] /\ g[2] = r[2] - h[2]
      /\ h[2] \in Nat \ {0} /\ g[2] \in Nat \ {0} /\ h[2] < r[2]
  BY HalvesFacts
<1>2. r[1] \in Nat /\ r[2] \in Nat BY RangesFacts
<1> HIDE DEF h, g
<1>3. h \in Within(r) /\ g \in Within(r) BY <1>1, <1>2, WithinFacts
<1>4. ASSUME NEW x \in Within(h) PROVE x \in Within(r)
  <2>1. x \in Ranges /\ h[1] <= x[1] /\ x[1] + x[2] <= h[1] + h[2] BY <1>1, WithinFacts
  <2>2. x[1] \in Nat /\ x[2] \in Nat BY <2>1, RangesFacts
  <2>3. r[1] <= x[1] /\ x[1] + x[2] <= r[1] + r[2] BY <1>1, <1>2, <2>1, <2>2
  <2> QED BY <2>1, <2>3, WithinFacts
<1>5. ASSUME NEW x \in Within(g) PROVE x \in Within(r)
  <2>1. x \in Ranges /\ g[1] <= x[1] /\ x[1] + x[2] <= g[1] + g[2] BY <1>1, WithinFacts
  <2>2. x[1] \in Nat /\ x[2] \in Nat BY <2>1, RangesFacts
  <2>3. r[1] <= x[1] /\ x[1] + x[2] <= r[1] + r[2] BY <1>1, <1>2, <2>1, <2>2
  <2> QED BY <2>1, <2>3, WithinFacts
<1>6. Apart(h, g) BY <1>1, <1>2 DEF Apart
<1> QED BY <1>3, <1>4, <1>5, <1>6 DEF h, g

(* A slice within another.                                                 *)
LEMMA WithinApart ==
  ASSUME NEW r \in Ranges, NEW x \in Within(r), NEW q \in Ranges
  PROVE  /\ Apart(q, r) => Apart(x, q) /\ Apart(q, x)
         /\ r \in Within(q) => x \in Within(q)
<1>1. x \in Ranges /\ r[1] <= x[1] /\ x[1] + x[2] <= r[1] + r[2] BY WithinFacts
<1>2. /\ x[1] \in Nat /\ x[2] \in Nat /\ r[1] \in Nat /\ r[2] \in Nat /\ q[1] \in Nat /\ q[2] \in Nat
  BY <1>1, RangesFacts
<1>3. Apart(q, r) => Apart(x, q) /\ Apart(q, x) BY <1>1, <1>2 DEF Apart
<1>4. ASSUME r \in Within(q) PROVE x \in Within(q)
  <2>1. q[1] <= r[1] /\ r[1] + r[2] <= q[1] + q[2] BY <1>4, WithinFacts
  <2>2. q[1] <= x[1] /\ x[1] + x[2] <= q[1] + q[2] BY <1>1, <1>2, <2>1
  <2> QED BY <1>1, <2>2, WithinFacts
<1> QED BY <1>3, <1>4

(* A slice within another, other than the other and its halves, has no     *)
(* place beside the halves.                                                *)
LEMMA NoOtherSlice ==
  ASSUME NEW r \in Ranges, r[2] >= 2, NEW q \in Within(r),
         Apart(q, Half1(r)) \/ Half1(r) \in Within(q),
         Apart(q, Half2(r)) \/ Half2(r) \in Within(q)
  PROVE  q \in {r, Half1(r), Half2(r)}
<1> DEFINE h == Half1(r)
           g == Half2(r)
<1>1. /\ h \in Ranges /\ g \in Ranges /\ h[1] = r[1] /\ g[1] = r[1] + h[2] /\ g[2] = r[2] - h[2]
      /\ h[2] \in Nat \ {0} /\ g[2] \in Nat \ {0} /\ h[2] < r[2]
  BY HalvesFacts
<1>2. q \in Ranges /\ r[1] <= q[1] /\ q[1] + q[2] <= r[1] + r[2] BY WithinFacts
<1>3. q[1] \in Nat /\ q[2] \in Nat \ {0} /\ r[1] \in Nat /\ r[2] \in Nat BY <1>2, RangesFacts
<1> HIDE DEF h, g
<1>4. \/ q[1] + q[2] <= h[1] \/ h[1] + h[2] <= q[1]
      \/ q[1] <= h[1] /\ h[1] + h[2] <= q[1] + q[2]
  BY <1>1, <1>2, WithinFacts DEF Apart, h
<1>5. \/ q[1] + q[2] <= g[1] \/ g[1] + g[2] <= q[1]
      \/ q[1] <= g[1] /\ g[1] + g[2] <= q[1] + q[2]
  BY <1>1, <1>2, WithinFacts DEF Apart, g
<1>6. \/ q[1] = r[1] /\ q[2] = r[2]
      \/ q[1] = h[1] /\ q[2] = h[2]
      \/ q[1] = g[1] /\ q[2] = g[2]
  <2> DEFINE a == q[1]
             b == q[2]
             c == r[1]
             d == r[2]
             e == h[2]
  <2>1. /\ a \in Nat /\ b \in Nat \ {0} /\ c \in Nat /\ d \in Nat /\ e \in Nat \ {0} /\ e < d
        /\ c <= a /\ a + b <= c + d
    BY <1>1, <1>2, <1>3
  <2>2. a + b <= c \/ c + e <= a \/ (a <= c /\ c + e <= a + b) BY <1>1, <1>4
  <2>3. a + b <= c + e \/ c + d <= a \/ (a <= c + e /\ c + d <= a + b)
    <3> DEFINE x == g[1]
               y == g[2]
    <3>1. a + b <= x \/ x + y <= a \/ (a <= x /\ x + y <= a + b) BY <1>5
    <3>2. x = c + e /\ y = d - e BY <1>1
    <3> HIDE DEF a, b, c, d, e, x, y
    <3>3. x + y = c + d BY <2>1, <3>2
    <3> QED BY <3>1, <3>2, <3>3
  <2> HIDE DEF a, b, c, d, e
  <2>4. (a = c /\ b = d) \/ (a = c /\ b = e) \/ (a = c + e /\ b = d - e) BY <2>1, <2>2, <2>3
  <2> QED BY <1>1, <2>4 DEF a, b, c, d, e
<1>7. q = <<q[1], q[2]>> /\ r = <<r[1], r[2]>> /\ h = <<h[1], h[2]>> /\ g = <<g[1], g[2]>>
  BY <1>1, <1>2, RangesFacts
<1> QED BY <1>6, <1>7 DEF h, g

LEMMA StepFork ==
  ASSUME IInv, NEW r \in Calls, Fork(r)
  PROVE  IInv'
<1> DEFINE c == calls[r]
           w == Word
           h == Half1(r)
           g == Half2(r)
           d == [c EXCEPT !.pc = "wait"]
<1>1. c.pc = "ready" /\ UNCHANGED <<prog, main, arr, sum1>> /\ ~ Leaf(r) BY DEF Fork
<1>2. /\ c \in Records /\ Going(r, c, w) /\ main \in Working /\ main \notin Early BY <1>1, ActiveFacts
<1>3. r \in Ranges /\ c.len > Limit
  <2>1. c.len \in Nat /\ Limit \in Nat BY <1>2, RecordFacts, ConstantsAssumption
  <2>2. r # Serial /\ ~ (c.len <= Limit) BY <1>1 DEF Leaf
  <2>3. r \in Ranges BY <2>2, SerialFacts
  <2> QED BY <2>1, <2>2, <2>3
<1>4. /\ r[1] \in Nat /\ r[2] \in Nat /\ Start(r) = r[1] /\ Size(r, w) = r[2] BY <1>3, RangesFacts DEF Start, Size
<1>5. c.len = r[2] /\ r[1] + r[2] <= Len(w) /\ Size(r, w) >= 1 /\ End(r, w) <= Len(w)
  BY <1>1, <1>2, <1>4 DEF Going, End
<1>6. r[2] >= 2 BY <1>3, <1>4, <1>5, ConstantsAssumption
<1>7. /\ h \in Ranges /\ g \in Ranges /\ h # g /\ h # r /\ g # r
      /\ h[1] = r[1] /\ g[1] = r[1] + h[2] /\ g[2] = r[2] - h[2]
      /\ h[2] \in Nat \ {0} /\ g[2] \in Nat \ {0} /\ h[2] < r[2]
  BY <1>3, <1>6, HalvesFacts
<1>8. h \in Within(r) /\ g \in Within(r) /\ Apart(h, g) BY <1>3, <1>6, HalvesWithin
<1>9. calls' = [[[calls EXCEPT ![r] = d] EXCEPT ![h] = Called(h)] EXCEPT ![g] = Called(g)]
  BY DEF Fork, IInv, TypeInv
<1>10. calls \in [Calls -> Records] /\ h \in Calls /\ g \in Calls BY <1>7, RangesFacts DEF IInv, TypeInv
<1>11. \A x \in {h, g} : /\ Called(x) \in Records /\ Called(x).pc = "ready" /\ Called(x).idx = x[1]
                         /\ Called(x).len = x[2] /\ Called(x).sum = 0
  <2> SUFFICES ASSUME NEW x \in {h, g}
               PROVE  /\ Called(x) \in Records /\ Called(x).pc = "ready" /\ Called(x).idx = x[1]
                      /\ Called(x).len = x[2] /\ Called(x).sum = 0
    OBVIOUS
  <2>1. x[1] \in Nat /\ x[2] \in Nat BY <1>7, RangesFacts
  <2> QED BY <2>1, CalledFacts
<1> HIDE DEF c, h, g, w
<1>12. d \in Records /\ d.pc = "wait" BY <1>2 DEF Records, Pcs
<1> HIDE DEF d
<1>13. /\ calls' \in [Calls -> Records] /\ calls'[r] = d /\ calls'[h] = Called(h)
       /\ calls'[g] = Called(g)
       /\ \A q \in Calls : q \notin {r, h, g} => calls'[q] = calls[q]
  BY <1>7, <1>9, <1>10, <1>11, <1>12
<1>14. Worked' = Worked /\ arr'[Worked] = arr[Worked] BY <1>1 DEF Worked
<1>15. Word' = w BY <1>14 DEF Word, w
<1>16. TypeInv' BY <1>1, <1>13 DEF IInv, TypeInv
<1>17. CallsInv'
  <2> SUFFICES ASSUME NEW q \in Calls PROVE CallOK(q, calls'[q], arr, w, prog)
    BY <1>1, <1>15 DEF CallsInv
  <2>1. CASE q = r
    <3>1. Going(r, d, w) BY <1>3, <1>5, <1>6, <1>12 DEF Going
    <3>2. Own(r, d, prog) = {} BY <1>12 DEF Own
    <3>3. Coding(r, d, arr, w) /\ Summing(r, d, w) BY <1>12 DEF Coding, Summing
    <3> QED BY <2>1, <1>13, <3>1, <3>2, <3>3 DEF CallOK
  <2>2. CASE q \in {h, g}
    <3> DEFINE e == Called(q)
    <3>1. /\ e.pc = "ready" /\ e.idx = q[1] /\ e.len = q[2] /\ e.sum = 0 /\ calls'[q] = e
      BY <1>11, <1>13, <2>2
    <3>2. q \in Ranges /\ q \in Within(r) BY <1>7, <1>8, <2>2
    <3>3. q[1] \in Nat /\ q[2] \in Nat \ {0} /\ q # Serial /\ q[1] + q[2] <= r[1] + r[2]
      BY <1>3, <3>2, RangesFacts, WithinFacts
    <3>4. Start(q) = q[1] /\ Size(q, w) = q[2] /\ End(q, w) = q[1] + q[2]
      BY <3>3 DEF Start, Size, End
    <3>5. Len(w) \in Nat BY <1>2, WordFacts DEF w
    <3>6. Size(q, w) >= 1 /\ End(q, w) <= Len(w) BY <1>4, <1>5, <3>3, <3>4, <3>5
    <3> HIDE DEF e
    <3>7. Going(q, e, w) BY <3>1, <3>4, <3>6 DEF Going
    <3>8. Own(q, e, prog) \subseteq {q} BY <3>1 DEF Own
    <3>9. q \in Within(q) BY <3>2, <3>3, WithinFacts
    <3>10. Coding(q, e, arr, w) /\ Summing(q, e, w) BY <3>1 DEF Coding, Summing
    <3> QED BY <3>1, <3>7, <3>8, <3>9, <3>10 DEF CallOK
  <2>3. CASE q \notin {r, h, g} BY <2>3, <1>13 DEF IInv, CallsInv, w
  <2> QED BY <2>1, <2>2, <2>3
<1>18. NestInv'
  <2> SUFFICES ASSUME NEW x \in Ranges, NEW q \in Ranges, x # q,
                      calls'[x].pc # "none", calls'[q].pc # "none"
               PROVE  Nested(x, q)'
    BY DEF NestInv
  <2>1. x \in Calls /\ q \in Calls BY RangesFacts
  <2>2. ASSUME NEW t \in Calls, calls[t].pc = "wait", t \notin {h, g} PROVE calls'[t].pc = "wait"
    BY <2>2, <1>12, <1>13
  <2>3. ASSUME NEW y \in {h, g}, NEW t \in Ranges, t \notin {h, g}, calls'[t].pc # "none"
        PROVE  \/ Apart(y, t) /\ Apart(t, y)
               \/ y \in Within(t) /\ calls'[t].pc = "wait"
    <3>1. y \in Within(r) /\ t \in Calls BY <1>8, RangesFacts
    <3>2. CASE t = r BY <3>1, <3>2, <1>12, <1>13
    <3>3. CASE t # r
      <4>1. calls[t].pc # "none" /\ calls'[t] = calls[t] BY <2>3, <3>1, <3>3, <1>13
      <4>2. Nested(t, r) BY <1>1, <1>3, <3>3, <4>1 DEF IInv, NestInv, c
      <4>3. Apart(t, r) \/ (r \in Within(t) /\ calls[t].pc = "wait") BY <1>1, <4>2 DEF Nested, c
      <4> QED BY <1>3, <3>1, <4>1, <4>3, WithinApart
    <3> QED BY <3>2, <3>3
  <2>4. CASE x \in {h, g} /\ q \in {h, g}
    <3>1. Apart(x, q) BY <2>4, <1>8 DEF Apart
    <3> QED BY <3>1 DEF Nested
  <2>5. CASE x \in {h, g} /\ q \notin {h, g} BY <2>3, <2>5 DEF Nested
  <2>6. CASE x \notin {h, g} /\ q \in {h, g} BY <2>3, <2>6 DEF Nested
  <2>7. CASE x \notin {h, g} /\ q \notin {h, g}
    <3>1. calls[x].pc # "none" /\ calls[q].pc # "none"
      <4>1. \A t \in {x, q} : t # r => calls'[t] = calls[t] BY <2>1, <2>7, <1>13
      <4>2. calls[r].pc # "none" BY <1>1 DEF c
      <4> QED BY <4>1, <4>2
    <3>2. Nested(x, q) BY <3>1 DEF IInv, NestInv
    <3> QED BY <2>1, <2>2, <2>7, <3>2 DEF Nested
  <2> QED BY <2>4, <2>5, <2>6, <2>7
<1>19. MainInv'
  <2>1. WordOK' BY <1>1, <1>2, <1>14, <1>15, WordKept DEF IInv, MainInv, w
  <2>2. main # "compare" BY <1>1, <1>3 DEF IInv, MainInv, c
  <2>3. calls'[Serial] = calls[Serial] BY <1>3, <1>7, <1>13, SerialFacts
  <2>4. main \in {"sync", "done"} => calls'[Serial].pc = "done" BY <2>3 DEF IInv, MainInv
  <2> QED BY <1>1, <1>2, <2>1, <2>2, <2>4 DEF MainInv, Early, Working
<1> QED BY <1>16, <1>17, <1>18, <1>19 DEF IInv

LEMMA SyncedFacts ==
  ASSUME IInv, NEW r \in Calls, Synced(r)
  PROVE  /\ r \in Ranges /\ r[2] >= 2 /\ calls[r].pc = "wait"
         /\ calls[Half1(r)].pc = "done" /\ calls[Half2(r)].pc = "done"
         /\ Half1(r) \in Ranges /\ Half2(r) \in Ranges
         /\ Half1(r) # Half2(r) /\ Half1(r) # r /\ Half2(r) # r
<1>1. calls[r].pc = "wait" /\ calls[Half1(r)].pc = "done" /\ calls[Half2(r)].pc = "done"
  BY DEF Synced
<1>2. Going(r, calls[r], Word) BY <1>1, ActiveFacts
<1>3. r \in Ranges /\ r[2] >= 2 BY <1>1, <1>2 DEF Going
<1> QED BY <1>1, <1>3, HalvesFacts

(* The parts of the halves make up the part of the call.                   *)
LEMMA JoinedParts ==
  ASSUME IInv, NEW r \in Calls, Synced(r)
  PROVE  LET w == Word
             h == Half1(r)
             g == Half2(r)
         IN  /\ Part(h, w) \in Seq(One) /\ Part(h, w) # <<>>
             /\ Part(g, w) \in Seq(One) /\ Part(g, w) # <<>>
             /\ Part(r, w) = Part(h, w) \o Part(g, w)
             /\ Size(r, w) >= 1 /\ End(r, w) <= Len(w)
<1> DEFINE w == Word
           h == Half1(r)
           g == Half2(r)
<1>1. /\ r \in Ranges /\ r[2] >= 2 /\ calls[r].pc = "wait" /\ calls[h].pc = "done"
      /\ calls[g].pc = "done" /\ h \in Ranges /\ g \in Ranges
  BY SyncedFacts
<1>2. /\ h[1] = r[1] /\ g[1] = r[1] + h[2] /\ g[2] = r[2] - h[2] BY <1>1, HalvesFacts
<1>3. h \in Calls /\ g \in Calls BY <1>1, RangesFacts
<1>4. /\ r # Serial /\ h # Serial /\ g # Serial /\ r[1] \in Nat /\ r[2] \in Nat
      /\ h[1] \in Nat /\ h[2] \in Nat /\ g[1] \in Nat /\ g[2] \in Nat
  BY <1>1, RangesFacts
<1>5. Going(r, calls[r], w) /\ Going(h, calls[h], w) /\ Going(g, calls[g], w) /\ w \in Seq(One)
  BY <1>1, <1>3, ActiveFacts, WordFacts
<1> HIDE DEF w, h, g
<1>6. /\ Size(r, w) >= 1 /\ End(r, w) <= Len(w) /\ Size(h, w) >= 1 /\ End(h, w) <= Len(w)
      /\ Size(g, w) >= 1 /\ End(g, w) <= Len(w)
  BY <1>5 DEF Going
<1>7. /\ Part(h, w) \in Seq(One) /\ Part(h, w) # <<>> /\ Part(g, w) \in Seq(One) /\ Part(g, w) # <<>>
  BY <1>3, <1>5, <1>6, UptoFacts
<1> DEFINE s == r[1]
           k == r[1] + h[2]
           e == r[1] + r[2]
<1>8. /\ Start(r) = s /\ End(r, w) = e /\ Start(h) = s /\ End(h, w) = k /\ Start(g) = k
      /\ End(g, w) = k + (r[2] - h[2])
  BY <1>2, <1>4 DEF Start, End, Size
<1>9. s \in Nat /\ k \in Nat /\ e \in Nat /\ End(g, w) = e /\ s <= k /\ k <= e
  <2> DEFINE x == r[1]
             y == r[2]
             z == h[2]
             v == g[2]
  <2>1. x \in Nat /\ y \in Nat /\ z \in Nat /\ v \in Nat /\ v = y - z BY <1>2, <1>4
  <2>2. s = x /\ k = x + z /\ e = x + y /\ End(g, w) = (x + z) + (y - z) BY <1>8
  <2> HIDE DEF x, y, z, v, s, k, e
  <2>3. (x + z) + (y - z) = x + y /\ z <= y BY <2>1
  <2> QED BY <2>1, <2>2, <2>3
<1>10. e <= Len(w) BY <1>6, <1>8
<1>11. Part(r, w) = SubSeq(w, s + 1, e) /\ Part(h, w) = SubSeq(w, s + 1, k)
       /\ Part(g, w) = SubSeq(w, k + 1, e)
  BY <1>8, <1>9 DEF Part, Upto
<1> HIDE DEF s, k, e
<1>12. SubSeq(w, s + 1, e) = SubSeq(w, s + 1, k) \o SubSeq(w, k + 1, e)
  BY <1>5, <1>9, <1>10, SliceParts
<1> QED BY <1>6, <1>7, <1>11, <1>12 DEF w, h, g

(* The step of a call whose halves have returned.                          *)
LEMMA JoinStep ==
  ASSUME IInv, NEW r \in Calls, Synced(r), NEW d \in Records, d.pc \notin {"none", "wait"},
         calls' = [calls EXCEPT ![Half1(r)] = NoCall, ![Half2(r)] = NoCall, ![r] = d],
         UNCHANGED <<prog, main, sum1>>,
         arr' \in [Arrays -> Das \union {None}],
         \A x \in Arrays : arr'[x] # arr[x] => x \in Own(Half2(r), calls[Half2(r)], prog),
         CallOK(r, d, arr', Word, prog)
  PROVE  IInv'
<1> DEFINE w == Word
           h == Half1(r)
           g == Half2(r)
<1>1. /\ r \in Ranges /\ r[2] >= 2 /\ calls[r].pc = "wait" /\ calls[h].pc = "done"
      /\ calls[g].pc = "done" /\ h \in Ranges /\ g \in Ranges /\ h # g /\ h # r /\ g # r
  BY SyncedFacts
<1>2. h \in Calls /\ g \in Calls /\ calls \in [Calls -> Records] BY <1>1, RangesFacts DEF IInv, TypeInv
<1>3. main \in Working /\ main \notin Early BY <1>1, ActiveFacts
<1>4. Own(g, calls[g], prog) \subseteq Calls
  <2>1. Own(g, calls[g], prog) \subseteq Within(g) BY <1>1, <1>2, ActiveFacts
  <2>2. Within(g) \subseteq Calls BY DEF Within, Calls
  <2> QED BY <2>1, <2>2
<1>5. calls' = [[[calls EXCEPT ![h] = NoCall] EXCEPT ![g] = NoCall] EXCEPT ![r] = d] OBVIOUS
<1>6. arr'[Given] = arr[Given] /\ Worked' = Worked /\ arr'[Worked] = arr[Worked]
  BY <1>4, SerialFacts DEF Worked
<1>7. Word' = w BY <1>6 DEF Word
<1>8. \A x \in Arrays : arr'[x] # arr[x] => x \in Own(g, calls[g], prog) OBVIOUS
<1> HIDE DEF w, h, g
<1>9. /\ calls' \in [Calls -> Records] /\ calls'[r] = d /\ calls'[h].pc = "none"
      /\ calls'[g].pc = "none"
      /\ \A q \in Calls : q \notin {r, h, g} => calls'[q] = calls[q]
  BY <1>1, <1>2, <1>5, NoCallFacts
<1>10. TypeInv' BY <1>9 DEF IInv, TypeInv
<1>11. CallsInv'
  <2> SUFFICES ASSUME NEW q \in Calls PROVE CallOK(q, calls'[q], arr', w, prog)
    BY <1>7 DEF CallsInv
  <2>1. CASE q = r BY <2>1, <1>9 DEF w
  <2>2. CASE q \in {h, g} BY <2>2, <1>9 DEF CallOK
  <2>3. CASE q \notin {r, h, g} /\ calls[q].pc = "none" BY <2>3, <1>9 DEF CallOK
  <2>4. CASE q \notin {r, h, g} /\ calls[q].pc # "none"
    <3>1. Own(g, calls[g], prog) \cap Own(q, calls[q], prog) = {} BY <1>1, <1>2, <2>4, OwnApart
    <3>2. \A x \in Own(q, calls[q], prog) : arr'[x] = arr[x]
      <4>1. Own(q, calls[q], prog) \subseteq Arrays BY DEF Own
      <4> QED BY <1>8, <3>1, <4>1
    <3>3. CallOK(q, calls[q], arr, w, prog) /\ calls[q] \in Records /\ prog \in {"rle", "sum"}
      BY DEF IInv, TypeInv, CallsInv, w
    <3> DEFINE b == arr'
               e == calls[q]
    <3>4. CallOK(q, e, arr, w, prog) /\ e \in Records /\ \A x \in Own(q, e, prog) : b[x] = arr[x]
      BY <3>2, <3>3
    <3> HIDE DEF b, e
    <3>5. CallOK(q, e, b, w, prog) BY <3>3, <3>4, CallFrame
    <3> QED BY <3>5, <1>9, <2>4 DEF b, e
  <2> QED BY <2>1, <2>2, <2>3, <2>4
<1>12. NestInv'
  <2> SUFFICES ASSUME NEW x \in Ranges, NEW q \in Ranges, x # q,
                      calls'[x].pc # "none", calls'[q].pc # "none"
               PROVE  Nested(x, q)'
    BY DEF NestInv
  <2>1. x \in Calls /\ q \in Calls /\ x \notin {h, g} /\ q \notin {h, g} BY <1>9, RangesFacts
  <2>2. ASSUME NEW t \in Ranges, t \notin {r, h, g}, calls'[t].pc # "none"
        PROVE  Apart(t, r) \/ (r \in Within(t) /\ calls'[t].pc = "wait")
    <3>1. t \in Calls /\ calls'[t] = calls[t] BY <1>9, <2>2, RangesFacts
    <3>2. Nested(t, r) /\ Nested(t, h) /\ Nested(t, g)
      BY <1>1, <2>2, <3>1 DEF IInv, NestInv
    <3>3. Apart(t, h) \/ h \in Within(t) BY <1>1, <3>2 DEF Nested
    <3>4. Apart(t, g) \/ g \in Within(t) BY <1>1, <3>2 DEF Nested
    <3>5. t \notin Within(r)
      <4> SUFFICES ASSUME t \in Within(r) PROVE FALSE OBVIOUS
      <4>1. t \in {r, h, g} BY <1>1, <3>3, <3>4, NoOtherSlice DEF h, g
      <4> QED BY <2>2, <4>1
    <3> QED BY <3>1, <3>2, <3>5 DEF Nested
  <2>3. CASE x = r
    <3>1. Apart(q, r) \/ (r \in Within(q) /\ calls'[q].pc = "wait") BY <2>1, <2>2, <2>3
    <3> QED BY <2>3, <3>1 DEF Nested, Apart
  <2>4. CASE q = r
    <3>1. Apart(x, r) \/ (r \in Within(x) /\ calls'[x].pc = "wait") BY <2>1, <2>2, <2>4
    <3> QED BY <2>4, <3>1 DEF Nested
  <2>5. CASE x # r /\ q # r
    <3>1. calls'[x] = calls[x] /\ calls'[q] = calls[q] BY <1>9, <2>1, <2>5
    <3>2. Nested(x, q) BY <3>1 DEF IInv, NestInv
    <3> QED BY <3>1, <3>2 DEF Nested
  <2> QED BY <2>3, <2>4, <2>5
<1>13. MainInv'
  <2>1. WordOK' BY <1>3, <1>6, <1>7, WordKept DEF IInv, MainInv, w
  <2>2. main # "compare" BY <1>1 DEF IInv, MainInv
  <2>3. calls'[Serial] = calls[Serial] BY <1>1, <1>9, SerialFacts
  <2>4. main \in {"sync", "done"} => calls'[Serial].pc = "done" BY <2>3 DEF IInv, MainInv
  <2> QED BY <1>3, <2>1, <2>2, <2>4 DEF MainInv, Early, Working
<1> QED BY <1>10, <1>11, <1>12, <1>13 DEF IInv

LEMMA StepSumJoin ==
  ASSUME IInv, NEW r \in Calls, SumJoin(r)
  PROVE  IInv'
<1> DEFINE w == Word
           h == Half1(r)
           g == Half2(r)
           s == calls[h].sum + calls[g].sum
           d == [NoCall EXCEPT !.pc = "done", !.sum = s]
<1>1. /\ Synced(r) /\ prog = "sum" /\ UNCHANGED <<prog, main, arr, sum1>>
      /\ calls' = [calls EXCEPT ![h] = NoCall, ![g] = NoCall, ![r] = d]
  BY DEF SumJoin
<1>2. calls[h].pc = "done" /\ calls[g].pc = "done" /\ h \in Calls /\ g \in Calls
  BY <1>1, SyncedFacts, RangesFacts
<1>3. /\ calls[h] \in Records /\ Summing(h, calls[h], w)
      /\ calls[g] \in Records /\ Summing(g, calls[g], w)
  BY <1>1, <1>2, ActiveFacts
<1>4. calls[h].sum \in Nat /\ calls[g].sum \in Nat BY <1>3, RecordFacts
<1>5. calls[h].sum = Total(Part(h, w)) /\ calls[g].sum = Total(Part(g, w))
  BY <1>2, <1>3 DEF Summing
<1>6. /\ Part(h, w) \in Seq(One) /\ Part(g, w) \in Seq(One)
      /\ Part(r, w) = Part(h, w) \o Part(g, w) /\ Size(r, w) >= 1 /\ End(r, w) <= Len(w)
  BY <1>1, JoinedParts
<1> HIDE DEF w
<1>7. s = Total(Part(r, w)) BY <1>5, <1>6, TotalConcat
<1>8. s \in Nat BY <1>4
<1> HIDE DEF s
<1>9. d \in Records /\ d.pc = "done" /\ d.sum = s BY <1>8, SerialFacts, DoneFacts
<1> HIDE DEF d
<1>10. Going(r, d, w) BY <1>6, <1>9 DEF Going
<1>11. Summing(r, d, w) BY <1>7, <1>9 DEF Summing
<1>12. Own(r, d, prog) = {} BY <1>1 DEF Own
<1>13. CallOK(r, d, arr', w, prog) BY <1>1, <1>10, <1>11, <1>12 DEF CallOK
<1>14. arr' \in [Arrays -> Das \union {None}] /\ arr' = arr BY <1>1 DEF IInv, TypeInv
<1> QED BY <1>1, <1>9, <1>13, <1>14, JoinStep DEF w, h, g

(* The arrays of two halves that have returned.                            *)
LEMMA HalfReturned ==
  ASSUME IInv, NEW h \in Calls, calls[h].pc = "done", prog = "rle",
         Part(h, Word) \in Seq(One), Part(h, Word) # <<>>
  PROVE  LET a == calls[h].ret
             b == Contents(arr[a])
         IN  /\ a \in Arrays /\ a \in Own(h, calls[h], prog) /\ a \in Within(h) /\ arr[a] \in Das
             /\ b = RunsOf(Part(h, Word)) /\ b \in Seq(RunElems) /\ b # <<>>
             /\ InBounds(arr[a], 0) /\ DaGet(arr[a], 0) = b[1]
             /\ DaGet(arr[a], arr[a].next_idx - 1) = b[Len(b)]
<1> DEFINE a == calls[h].ret
           da == arr[a]
           b == Contents(da)
<1>1. /\ calls[h] \in Records /\ Own(h, calls[h], prog) \subseteq Within(h)
      /\ Coding(h, calls[h], arr, Word)
  BY ActiveFacts
<1>2. a \in Arrays BY <1>1, RecordFacts
<1>3. a \in Own(h, calls[h], prog) BY <1>2 DEF Own
<1>4. da \in Das /\ b = RunsOf(Part(h, Word)) BY <1>1 DEF Coding
<1>5. b \in Seq(RunElems) /\ b # <<>> BY <1>4, RunsNotEmpty
<1> HIDE DEF a, da
<1>6. Len(b) = da.next_idx /\ Len(b) \in Nat \ {0}
  <2>1. Len(b) = da.next_idx BY <1>4, ContentsFacts
  <2> HIDE DEF b
  <2> QED BY <2>1, <1>5, Ends
<1> DEFINE n == da.next_idx
<1>7. 0 \in 0..(n - 1) /\ n - 1 \in 0..(n - 1) /\ (n - 1) + 1 = n /\ n = Len(b) BY <1>6
<1>8. InBounds(da, 0) BY <1>7 DEF InBounds
<1>9. DaGet(da, 0) = b[1]
  <2>1. DaGet(da, 0) = b[0 + 1] BY <1>4, <1>7, GetFacts
  <2> QED BY <2>1
<1>10. DaGet(da, n - 1) = b[Len(b)]
  <2> DEFINE i == n - 1
  <2>1. i \in 0..(n - 1) /\ i + 1 = Len(b) BY <1>7
  <2> HIDE DEF i
  <2>2. DaGet(da, i) = b[i + 1] BY <1>4, <2>1, GetFacts
  <2> QED BY <2>1, <2>2 DEF i
<1> QED BY <1>1, <1>2, <1>3, <1>4, <1>5, <1>8, <1>9, <1>10 DEF a, da

LEMMA MergeFacts ==
  ASSUME IInv, NEW r \in Calls, Synced(r), prog = "rle"
  PROVE  LET a == calls[Half1(r)].ret
             o == calls[Half2(r)].ret
             f == Contents(arr[a])
             s == Contents(arr[o])
         IN  /\ a \in Arrays /\ arr[a] \in Das /\ f \in Seq(RunElems) /\ f # <<>>
             /\ o \in Arrays /\ arr[o] \in Das /\ s \in Seq(RunElems) /\ s # <<>>
             /\ a # o /\ a \in Within(r) /\ o \in Within(r)
             /\ o \in Own(Half2(r), calls[Half2(r)], prog)
             /\ InBounds(arr[a], 0) /\ InBounds(arr[o], 0)
             /\ DaGet(arr[a], arr[a].next_idx - 1) = f[Len(f)] /\ DaGet(arr[o], 0) = s[1]
             /\ RunsOf(Part(r, Word)) = Joined(f, s)
<1> DEFINE h == Half1(r)
           g == Half2(r)
           a == calls[h].ret
           o == calls[g].ret
           f == Contents(arr[a])
           s == Contents(arr[o])
<1>1. /\ r \in Ranges /\ r[2] >= 2 /\ calls[h].pc = "done" /\ calls[g].pc = "done"
      /\ h \in Calls /\ g \in Calls /\ h # g
  BY SyncedFacts, RangesFacts
<1>2. /\ Part(h, Word) \in Seq(One) /\ Part(h, Word) # <<>>
      /\ Part(g, Word) \in Seq(One) /\ Part(g, Word) # <<>>
      /\ Part(r, Word) = Part(h, Word) \o Part(g, Word)
  BY JoinedParts
<1>3. /\ a \in Arrays /\ a \in Own(h, calls[h], prog) /\ a \in Within(h) /\ arr[a] \in Das
      /\ f = RunsOf(Part(h, Word)) /\ f \in Seq(RunElems) /\ f # <<>> /\ InBounds(arr[a], 0)
      /\ DaGet(arr[a], arr[a].next_idx - 1) = f[Len(f)]
  BY <1>1, <1>2, HalfReturned
<1>4. /\ o \in Arrays /\ o \in Own(g, calls[g], prog) /\ o \in Within(g) /\ arr[o] \in Das
      /\ s = RunsOf(Part(g, Word)) /\ s \in Seq(RunElems) /\ s # <<>> /\ InBounds(arr[o], 0)
      /\ DaGet(arr[o], 0) = s[1]
  BY <1>1, <1>2, HalfReturned
<1>5. Own(h, calls[h], prog) \cap Own(g, calls[g], prog) = {} BY <1>1, OwnApart
<1>6. a # o BY <1>3, <1>4, <1>5
<1>7. a \in Within(r) /\ o \in Within(r) BY <1>1, <1>3, <1>4, HalvesWithin
<1>8. RunsOf(Part(r, Word)) = Joined(f, s) BY <1>2, <1>3, <1>4, RunsConcat
<1> QED BY <1>3, <1>4, <1>6, <1>7, <1>8

(* What rle_merge leaves of a call whose halves have returned.             *)
LEMMA MergeRecord ==
  ASSUME IInv, NEW r \in Calls, Synced(r), prog = "rle", NEW pc \in {"pop", "concat"},
         calls' = [[calls EXCEPT ![Half1(r)] = NoCall, ![Half2(r)] = NoCall,
                                 ![r].ret = calls[Half1(r)].ret, ![r].other = calls[Half2(r)].ret]
                    EXCEPT ![r].pc = pc]
  PROVE  LET d == [calls[r] EXCEPT !.ret = calls[Half1(r)].ret, !.other = calls[Half2(r)].ret,
                                   !.pc = pc]
         IN  /\ calls' = [calls EXCEPT ![Half1(r)] = NoCall, ![Half2(r)] = NoCall, ![r] = d]
             /\ d \in Records /\ d.pc = pc /\ d.ret = calls[Half1(r)].ret
             /\ d.other = calls[Half2(r)].ret /\ Going(r, d, Word) /\ Own(r, d, prog) \subseteq Within(r)
<1> DEFINE h == Half1(r)
           g == Half2(r)
           a == calls[h].ret
           o == calls[g].ret
           d == [calls[r] EXCEPT !.ret = a, !.other = o, !.pc = pc]
<1>1. /\ r \in Ranges /\ h \in Calls /\ g \in Calls /\ h # g /\ h # r /\ g # r /\ calls[r].pc = "wait"
  BY SyncedFacts, RangesFacts
<1>2. calls \in [Calls -> Records] /\ calls[r] \in Records BY DEF IInv, TypeInv
<1>3. calls' = [[[[[calls EXCEPT ![h] = NoCall] EXCEPT ![g] = NoCall] EXCEPT ![r].ret = a]
                  EXCEPT ![r].other = o] EXCEPT ![r].pc = pc]
  OBVIOUS
<1>4. a \in Arrays /\ o \in Arrays /\ a \in Within(r) /\ o \in Within(r) BY MergeFacts
<1> HIDE DEF h, g, a, o
<1>5. calls' = [[[calls EXCEPT ![h] = NoCall] EXCEPT ![g] = NoCall] EXCEPT ![r] = d]
  BY <1>1, <1>2, <1>3
<1>6. calls' = [calls EXCEPT ![h] = NoCall, ![g] = NoCall, ![r] = d] BY <1>5
<1>7. d \in Records /\ d.pc = pc /\ d.ret = a /\ d.other = o
  <2>1. pc \in Pcs BY DEF Pcs
  <2> QED BY <1>2, <1>4, <2>1 DEF Records
<1> DEFINE w == Word
<1>8. Size(r, w) >= 1 /\ End(r, w) <= Len(w) BY JoinedParts
<1> HIDE DEF d, w
<1>9. Going(r, d, w) BY <1>1, <1>7, <1>8 DEF Going
<1>10. Own(r, d, prog) \subseteq Within(r) BY <1>4, <1>7 DEF Own
<1> QED BY <1>6, <1>7, <1>9, <1>10 DEF d, h, g, a, o, w

LEMMA StepMergeAdd ==
  ASSUME IInv, NEW r \in Calls, MergeAdd(r)
  PROVE  IInv'
<1> DEFINE w == Word
           h == Half1(r)
           g == Half2(r)
           a == calls[h].ret
           o == calls[g].ret
           f == Contents(arr[a])
           s == Contents(arr[o])
           lst == DaGet(arr[a], arr[a].next_idx - 1)
           fst == DaGet(arr[o], 0)
           da == Store(arr[o], PointerTo(arr[o], 0), Run(Symbol(fst), Freq(fst) + Freq(lst)))
           rec(pc) == [calls[r] EXCEPT !.ret = a, !.other = o, !.pc = pc]
           joined == [calls EXCEPT ![h] = NoCall, ![g] = NoCall, ![r].ret = a, ![r].other = o]
<1>1. Synced(r) /\ prog = "rle" /\ UNCHANGED <<prog, sum1>> BY DEF MergeAdd
<1>2. /\ a \in Arrays /\ arr[a] \in Das /\ f \in Seq(RunElems) /\ f # <<>>
      /\ o \in Arrays /\ arr[o] \in Das /\ s \in Seq(RunElems) /\ s # <<>>
      /\ a # o /\ o \in Own(g, calls[g], prog)
      /\ InBounds(arr[a], 0) /\ InBounds(arr[o], 0) /\ lst = f[Len(f)] /\ fst = s[1]
      /\ RunsOf(Part(r, w)) = Joined(f, s)
  BY <1>1, MergeFacts
<1>3. arr \in [Arrays -> Das \union {None}] BY DEF IInv, TypeInv
<1>4. CASE Symbol(lst) = Symbol(fst)
  <2> DEFINE d == rec("pop")
  <2>1. /\ main' = main /\ arr' = [arr EXCEPT ![o] = da]
        /\ calls' = [joined EXCEPT ![r].pc = "pop"]
    BY <1>2, <1>3, <1>4 DEF MergeAdd
  <2>2. /\ calls' = [calls EXCEPT ![h] = NoCall, ![g] = NoCall, ![r] = d]
        /\ d \in Records /\ d.pc = "pop" /\ d.ret = a /\ d.other = o
        /\ Going(r, d, w) /\ Own(r, d, prog) \subseteq Within(r)
    BY <1>1, <2>1, MergeRecord
  <2>3. Freq(lst) \in Nat
    <3>1. f[Len(f)] \in RunElems BY <1>2, Ends
    <3> QED BY <1>2, <3>1, RunFacts
  <2>4. da \in Das /\ Contents(da) = AddFirst(s, Freq(lst))
    <3> DEFINE b == arr[o]
               k == Freq(lst)
               e == Contents(b)
    <3>1. b \in Das /\ e \in Seq(RunElems) /\ e # <<>> /\ k \in Nat BY <1>2, <2>3
    <3>2. da = Store(b, PointerTo(b, 0), Run(Symbol(e[1]), Freq(e[1]) + k)) BY <1>2
    <3> HIDE DEF b, k, da
    <3>3. LET m == Store(b, PointerTo(b, 0), Run(Symbol(e[1]), Freq(e[1]) + k))
          IN  m \in Das /\ Contents(m) = AddFirst(e, k)
      BY <3>1, StoreFirst
    <3>4. da \in Das /\ Contents(da) = AddFirst(e, k) BY <3>2, <3>3
    <3> QED BY <3>4 DEF b, k
  <2>5. AddFirst(s, Freq(lst)) # <<>>
    <3> HIDE DEF s, lst
    <3> QED BY <1>2, <2>3, AddFirstFacts
  <2>6. Joined(f, s) = SubSeq(f, 1, Len(f) - 1) \o AddFirst(s, Freq(lst))
    BY <1>2, <1>4 DEF Joined
  <2> HIDE DEF da, d, w
  <2>7. arr' \in [Arrays -> Das \union {None}] /\ arr'[o] = da /\ arr'[a] = arr[a]
        /\ \A x \in Arrays : x # o => arr'[x] = arr[x]
    BY <1>2, <1>3, <2>1, <2>4
  <2>8. Merging(r, d, arr', w) BY <1>2, <2>2, <2>4, <2>5, <2>6, <2>7 DEF Merging
  <2>9. Coding(r, d, arr', w) BY <2>2, <2>8 DEF Coding
  <2>10. CallOK(r, d, arr', w, prog) BY <1>1, <2>2, <2>9 DEF CallOK
  <2>11. \A x \in Arrays : arr'[x] # arr[x] => x \in Own(g, calls[g], prog) BY <1>2, <2>7
  <2> QED BY <1>1, <2>1, <2>2, <2>7, <2>10, <2>11, JoinStep DEF w
<1>5. CASE Symbol(lst) # Symbol(fst)
  <2> DEFINE d == rec("concat")
  <2>1. main' = main /\ arr' = arr /\ calls' = [joined EXCEPT ![r].pc = "concat"]
    BY <1>2, <1>5 DEF MergeAdd
  <2>2. /\ calls' = [calls EXCEPT ![h] = NoCall, ![g] = NoCall, ![r] = d]
        /\ d \in Records /\ d.pc = "concat" /\ d.ret = a /\ d.other = o
        /\ Going(r, d, w) /\ Own(r, d, prog) \subseteq Within(r)
    BY <1>1, <2>1, MergeRecord
  <2>3. Joined(f, s) = f \o s BY <1>2, <1>5 DEF Joined
  <2> HIDE DEF d, w
  <2>4. Merging(r, d, arr', w) BY <1>2, <2>1, <2>2, <2>3 DEF Merging
  <2>5. Coding(r, d, arr', w) BY <2>2, <2>4 DEF Coding
  <2>6. CallOK(r, d, arr', w, prog) BY <1>1, <2>2, <2>5 DEF CallOK
  <2>7. arr' \in [Arrays -> Das \union {None}] BY <1>3, <2>1
  <2> QED BY <1>1, <2>1, <2>2, <2>6, <2>7, JoinStep DEF w
<1> QED BY <1>4, <1>5

-----------------------------------------------------------------------------
(* The steps of main                                                       *)

(* Before the serial call there are no calls.                              *)
LEMMA EarlyStep ==
  ASSUME IInv, main \in Early, UNCHANGED <<prog, calls>>,
         arr' \in [Arrays -> Das \union {None}], MainInv'
  PROVE  IInv'
<1>1. \A r \in Calls : calls[r].pc = "none" BY DEF IInv, MainInv
<1>2. calls' = calls /\ prog' = prog OBVIOUS
<1>3. TypeInv' BY <1>2 DEF IInv, TypeInv
<1>4. CallsInv'
  <2> SUFFICES ASSUME NEW r \in Calls PROVE CallOK(r, calls[r], arr, Word, prog)'
    BY <1>2 DEF CallsInv
  <2>1. calls'[r].pc = "none" BY <1>1, <1>2
  <2> QED BY <2>1 DEF CallOK
<1>5. NestInv'
  <2>1. \A r \in Ranges : calls'[r].pc = "none" BY <1>1, <1>2, RangesFacts
  <2> QED BY <2>1 DEF NestInv
<1> QED BY <1>3, <1>4, <1>5 DEF IInv

(* A step of main that changes an array.                                   *)
LEMMA MainArray ==
  ASSUME IInv, NEW a \in {Given, Spare, Syms}, NEW da \in Das, arr' = [arr EXCEPT ![a] = da]
  PROVE  /\ arr' \in [Arrays -> Das \union {None}] /\ arr'[a] = da
         /\ \A x \in {Given, Spare, Syms} : x # a => arr'[x] = arr[x]
         /\ Given # Syms /\ Given # Spare
<1>1. arr \in [Arrays -> Das \union {None}] BY DEF IInv, TypeInv
<1> QED BY <1>1, SerialFacts

LEMMA EmptyArray ==
  ASSUME NEW nr \in Nat
  PROVE  /\ DaInit(Grain, nr) \in Das /\ Contents(DaInit(Grain, nr)) = <<>>
         /\ DaInit(SymsGrain, nr) \in Das /\ Contents(DaInit(SymsGrain, nr)) = <<>>
BY ConstantsAssumption, InitFacts

LEMMA StepCreateGiven ==
  ASSUME IInv, CreateGiven
  PROVE  IInv'
<1> DEFINE da == DaInit(Grain, Grain)
<1>1. /\ main = "create" /\ arr' = [arr EXCEPT ![Given] = da] /\ UNCHANGED <<prog, sum1, calls>>
      /\ main' = IF prog = "rle" THEN "spare" ELSE "mkrand"
  BY DEF CreateGiven, CreateArray
<1>2. da \in Das /\ Contents(da) = <<>> BY ConstantsAssumption, EmptyArray
<1> HIDE DEF da
<1>3. arr' \in [Arrays -> Das \union {None}] /\ arr'[Given] = da BY <1>1, <1>2, MainArray
<1>4. main \in Early /\ \A r \in Calls : calls'[r].pc = "none" BY <1>1 DEF Early, IInv, MainInv
<1>5. MainInv' BY <1>1, <1>2, <1>3, <1>4 DEF MainInv, Early, Working
<1> QED BY <1>1, <1>3, <1>4, <1>5, EarlyStep

LEMMA StepCreateSpare ==
  ASSUME IInv, CreateSpare
  PROVE  IInv'
<1> DEFINE da == DaInit(Grain, Grain)
<1>1. /\ main = "spare" /\ arr' = [arr EXCEPT ![Spare] = da] /\ UNCHANGED <<prog, sum1, calls>>
      /\ main' = "mkrand"
  BY DEF CreateSpare, CreateArray
<1>2. da \in Das BY ConstantsAssumption, EmptyArray
<1> HIDE DEF da
<1>3. arr' \in [Arrays -> Das \union {None}] /\ arr'[Given] = arr[Given] BY <1>1, <1>2, MainArray
<1>4. /\ main \in Early /\ \A r \in Calls : calls'[r].pc = "none"
      /\ arr[Given] \in Das /\ Contents(arr[Given]) = <<>>
  BY <1>1 DEF Early, IInv, MainInv
<1>5. MainInv' BY <1>1, <1>3, <1>4 DEF MainInv, Early, Working
<1> QED BY <1>1, <1>3, <1>4, <1>5, EarlyStep

LEMMA StepMkRand ==
  ASSUME IInv, NEW vs \in IF prog = "rle" THEN RandomRuns ELSE RandomInts, NEW moves \in BOOLEAN,
         MkRand(vs, moves)
  PROVE  IInv'
<1> DEFINE da == FillWith(arr[Given], vs, moves)
<1>1. /\ main = "mkrand" /\ UNCHANGED <<prog, calls>>
      /\ sum1' = (IF prog = "sum" THEN Total(vs) ELSE 0)
      /\ main' = (IF prog = "rle" THEN "syms" ELSE "serial")
  BY DEF MkRand
<1>2. arr' = [arr EXCEPT ![Given] = da] BY SerialFacts DEF MkRand, IInv, TypeInv
<1>3. /\ main \in Early /\ \A r \in Calls : calls'[r].pc = "none"
      /\ arr[Given] \in Das /\ Contents(arr[Given]) = <<>> /\ prog \in {"rle", "sum"}
  BY <1>1 DEF Early, IInv, MainInv, TypeInv
<1>4. vs \in Seq(Elem)
  <2>1. CASE prog = "rle" BY <2>1, RandomRunsFacts, RunSeqs
  <2>2. CASE prog = "sum"
    <3>1. vs \in Seq(One) BY <2>2, RandomIntsFacts
    <3>2. One \subseteq Elem BY DEF Elem
    <3> QED BY <3>1, <3>2, SeqMonotonic
  <2> QED BY <1>3, <2>1, <2>2
<1>5. da \in Das /\ Contents(da) = vs
  <2> DEFINE b == arr[Given]
  <2>1. b \in Das /\ Contents(b) = <<>> BY <1>3
  <2> HIDE DEF b
  <2>2. FillWith(b, vs, moves) \in Das /\ Contents(FillWith(b, vs, moves)) = Contents(b) \o vs
    BY <1>4, <2>1, FillFacts
  <2>3. Contents(b) \o vs = vs BY <1>4, <2>1, ConcatEmptySeq
  <2> QED BY <2>2, <2>3 DEF b
<1> HIDE DEF da
<1>6. arr' \in [Arrays -> Das \union {None}] /\ arr'[Given] = da BY <1>2, <1>5, MainArray
<1>7. MainInv'
  <2>1. CASE prog = "rle"
    <3>1. vs \in Seq(RunElems) /\ PlainRuns(vs) /\ Len(SymbolsOf(vs)) \in 1..MaxElems
      BY <2>1, RandomRunsFacts
    <3>2. GivenOK' BY <1>5, <1>6, <3>1 DEF GivenOK
    <3> QED BY <1>1, <1>3, <2>1, <3>2 DEF MainInv, Early, Working
  <2>2. CASE prog = "sum"
    <3>1. vs \in Seq(One) /\ Len(vs) \in 1..MaxElems BY <2>2, RandomIntsFacts
    <3>2. Worked' = Given BY <1>1, <2>2 DEF Worked
    <3>3. Word' = vs BY <1>5, <1>6, <3>2 DEF Word
    <3>4. WordOK' BY <1>1, <1>5, <1>6, <2>2, <3>1, <3>2, <3>3 DEF WordOK
    <3> QED BY <1>1, <1>3, <2>2, <3>4 DEF MainInv, Early, Working
  <2> QED BY <1>3, <2>1, <2>2
<1> QED BY <1>1, <1>3, <1>6, <1>7, EarlyStep

LEMMA StepCreateSyms ==
  ASSUME IInv, CreateSyms
  PROVE  IInv'
<1> DEFINE da == DaInit(SymsGrain, SymsNr)
<1>1. /\ main = "syms" /\ arr' = [arr EXCEPT ![Syms] = da] /\ UNCHANGED <<prog, sum1, calls>>
      /\ main' = "decode"
  BY DEF CreateSyms, CreateArray
<1>2. /\ main \in Early /\ (\A r \in Calls : calls'[r].pc = "none") /\ prog = "rle" /\ GivenOK
  BY <1>1 DEF Early, IInv, MainInv
<1>3. SymsNr \in Nat BY <1>2 DEF SymsNr, GivenOK
<1>4. da \in Das /\ Contents(da) = <<>>
  <2> DEFINE n == SymsNr
  <2>1. n \in Nat BY <1>3
  <2> HIDE DEF n
  <2>2. DaInit(SymsGrain, n) \in Das /\ Contents(DaInit(SymsGrain, n)) = <<>> BY <2>1, EmptyArray
  <2> QED BY <2>2 DEF n
<1> HIDE DEF da
<1>5. arr' \in [Arrays -> Das \union {None}] /\ arr'[Given] = arr[Given] /\ arr'[Syms] = da
  BY <1>1, <1>4, MainArray
<1>6. GivenOK' BY <1>2, <1>5 DEF GivenOK
<1>7. MainInv' BY <1>1, <1>2, <1>4, <1>5, <1>6 DEF MainInv, Early, Working
<1> QED BY <1>1, <1>2, <1>5, <1>7, EarlyStep

LEMMA StepDecode ==
  ASSUME IInv, NEW moves \in BOOLEAN, Decode(moves)
  PROVE  IInv'
<1> DEFINE g == Contents(arr[Given])
           u == SymbolsOf(g)
           a == AppendPrepare(arr[Syms], moves)
           b == PutAll(a, u, moves)
           da == AppendFinalize(b.da, b.n)
<1>1. /\ main = "decode" /\ arr' = [arr EXCEPT ![Syms] = da] /\ UNCHANGED <<prog, sum1, calls>>
      /\ main' = IF da.next_idx = SymsNr THEN "serial" ELSE "abort"
  BY DEF Decode
<1>2. /\ main \in Early /\ (\A r \in Calls : calls'[r].pc = "none") /\ prog = "rle" /\ GivenOK
      /\ arr[Syms] \in Das /\ Contents(arr[Syms]) = <<>>
  BY <1>1 DEF Early, IInv, MainInv
<1>3. g \in Seq(RunElems) /\ PlainRuns(g) /\ Len(u) \in 1..MaxElems BY <1>2 DEF GivenOK
<1>4. SymsNr = Len(u) BY DEF SymsNr
<1> HIDE DEF g
<1>5. u \in Seq(One) /\ RunsOf(u) = g BY <1>3, SymbolsOfRules, RunsOfSymbols
<1> HIDE DEF u
<1>6. u \in Seq(Elem)
  <2>1. One \subseteq Elem BY DEF Elem
  <2> QED BY <1>5, <2>1, SeqMonotonic
<1>7. a \in Bufs /\ Written(a) = <<>>
  <2> DEFINE m == arr[Syms]
  <2>1. m \in Das /\ Contents(m) = <<>> BY <1>2
  <2> HIDE DEF m
  <2>2. LET e == AppendPrepare(m, moves) IN e \in Bufs /\ Written(e) = Contents(m)
    BY <2>1, PrepareFacts
  <2> QED BY <2>1, <2>2 DEF m
<1> HIDE DEF a
<1>8. b \in Bufs /\ Written(b) = u
  <2>1. b \in Bufs /\ Written(b) = Written(a) \o u BY <1>6, <1>7, PutAllFacts
  <2>2. Written(a) \o u = u BY <1>6, <1>7, ConcatEmptySeq
  <2> QED BY <2>1, <2>2
<1> HIDE DEF b
<1>9. da \in Das /\ Contents(da) = u /\ da.next_idx = Len(u) BY <1>8, FinalizeFacts
<1> HIDE DEF da
<1>10. main' = "serial" BY <1>1, <1>4, <1>9
<1>11. arr' \in [Arrays -> Das \union {None}] /\ arr'[Given] = arr[Given] /\ arr'[Syms] = da
  BY <1>1, <1>9, MainArray
<1>12. Worked' = Syms BY <1>1, <1>2 DEF Worked
<1>13. Word' = u BY <1>9, <1>11, <1>12 DEF Word
<1>14. WordOK' BY <1>1, <1>2, <1>3, <1>5, <1>9, <1>11, <1>12, <1>13 DEF WordOK, g
<1>15. MainInv' BY <1>1, <1>2, <1>10, <1>14 DEF MainInv, Early, Working
<1> QED BY <1>1, <1>2, <1>11, <1>15, EarlyStep

(* The serial call and the call of the root have the whole word.           *)
LEMMA WholeWord ==
  ASSUME IInv, main \in Working, NEW r \in {Serial, Root}
  PROVE  /\ r \in Calls /\ Start(r) = 0 /\ Size(r, Word) = Len(Word) /\ End(r, Word) = Len(Word)
         /\ Part(r, Word) = Word /\ Root \in Within(Root) /\ Root # Serial
<1> DEFINE w == Word
<1>1. /\ w \in Seq(One) /\ Len(w) \in 1..MaxElems /\ Root = <<0, Len(w)>> /\ Root \in Ranges
  BY WordFacts
<1>2. /\ r \in Calls /\ Root # Serial /\ Root[1] = 0 /\ Root[2] = Len(w)
      /\ Len(w) \in Nat
  BY <1>1, SerialFacts, RangesFacts
<1>3. Root \in Within(Root) BY <1>1, <1>2 DEF Within
<1> HIDE DEF w
<1>4. Start(r) = 0 /\ Size(r, w) = Len(w) BY <1>2 DEF Start, Size
<1>5. End(r, w) = Len(w) BY <1>2, <1>4 DEF End
<1>6. SubSeq(w, 1, Len(w)) = w BY <1>1, SubSeqFull
<1>7. Part(r, w) = w BY <1>4, <1>5, <1>6 DEF Part, Upto
<1> QED BY <1>2, <1>3, <1>4, <1>5, <1>7 DEF w

(* main calls with the whole word.                                         *)
LEMMA Begin ==
  ASSUME IInv, main \in Working, NEW r \in {Serial, Root},
         \A q \in Ranges : calls[q].pc = "none",
         calls' = [calls EXCEPT ![r] = Called(Root)], UNCHANGED <<prog, arr, sum1>>
  PROVE  /\ TypeInv' /\ CallsInv' /\ NestInv' /\ WordOK'
         /\ \A q \in Calls : q # r => calls'[q] = calls[q]
<1> DEFINE w == Word
           d == Called(Root)
<1>1. /\ r \in Calls /\ Start(r) = 0 /\ Size(r, w) = Len(w) /\ End(r, w) = Len(w)
      /\ Root \in Within(Root) /\ Root # Serial
  BY WholeWord
<1>2. w \in Seq(One) /\ Len(w) \in 1..MaxElems /\ Root = <<0, Len(w)>> BY WordFacts
<1>3. Len(w) \in Nat /\ Len(w) >= 1 BY <1>2, ConstantsAssumption
<1>4. Root[1] \in Nat /\ Root[2] \in Nat /\ Root[1] = 0 /\ Root[2] = Len(w) BY <1>2, <1>3
<1>5. d \in Records /\ d.pc = "ready" /\ d.idx = 0 /\ d.len = Len(w) /\ d.sum = 0
  BY <1>4, CalledFacts
<1>6. Worked' = Worked /\ arr'[Worked] = arr[Worked] BY DEF Worked
<1>7. Word' = w BY <1>6 DEF Word
<1>8. calls \in [Calls -> Records] BY DEF IInv, TypeInv
<1> HIDE DEF d
<1>9. /\ calls' \in [Calls -> Records] /\ calls'[r] = d
      /\ \A q \in Calls : q # r => calls'[q] = calls[q]
  BY <1>1, <1>5, <1>8 DEF d
<1>10. TypeInv' BY <1>9 DEF IInv, TypeInv
<1>11. WordOK' BY <1>6, <1>7, WordKept DEF IInv, MainInv, w
<1> HIDE DEF w
<1>12. CallsInv'
  <2> SUFFICES ASSUME NEW q \in Calls PROVE CallOK(q, calls'[q], arr, w, prog)
    BY <1>7 DEF CallsInv
  <2>1. CASE q = r
    <3>1. Going(r, d, w) BY <1>1, <1>3, <1>5 DEF Going
    <3>2. Own(r, d, prog) \subseteq {r} BY <1>5 DEF Own
    <3>3. r \in Within(r) BY <1>1 DEF Within
    <3>4. Coding(r, d, arr, w) /\ Summing(r, d, w) BY <1>5 DEF Coding, Summing
    <3> QED BY <2>1, <1>9, <3>1, <3>2, <3>3, <3>4 DEF CallOK
  <2>2. CASE q # r BY <2>2, <1>9 DEF IInv, CallsInv, w
  <2> QED BY <2>1, <2>2
<1>13. NestInv'
  <2> SUFFICES ASSUME NEW x \in Ranges, NEW q \in Ranges, x # q,
                      calls'[x].pc # "none", calls'[q].pc # "none"
               PROVE  FALSE
    BY DEF NestInv
  <2>1. x \in Calls /\ q \in Calls BY RangesFacts
  <2>2. x = r /\ q = r BY <1>9, <2>1
  <2> QED BY <2>2
<1> QED BY <1>9, <1>10, <1>11, <1>12, <1>13

LEMMA StepSerialCall ==
  ASSUME IInv, SerialCall
  PROVE  IInv'
<1>1. /\ main = "serial" /\ main' = "compare" /\ calls' = [calls EXCEPT ![Serial] = Called(Root)]
      /\ UNCHANGED <<prog, arr, sum1>>
  BY DEF SerialCall
<1>2. main \in Working BY <1>1 DEF Working
<1>3. \A q \in Ranges : calls[q].pc = "none" BY <1>1, RangesFacts DEF IInv, MainInv, Early
<1>4. /\ TypeInv' /\ CallsInv' /\ NestInv' /\ WordOK'
      /\ \A q \in Calls : q # Serial => calls'[q] = calls[q]
  BY <1>1, <1>2, <1>3, Begin
<1>5. \A q \in Ranges : calls'[q].pc = "none" BY <1>3, <1>4, RangesFacts
<1>6. MainInv' BY <1>1, <1>4, <1>5 DEF MainInv, Early, Working
<1> QED BY <1>4, <1>6 DEF IInv

(* The answers of the calls with the whole word.                           *)
LEMMA WholeAnswer ==
  ASSUME IInv, main \in Working, NEW r \in {Serial, Root}, calls[r].pc = "done"
  PROVE  /\ prog = "rle" => RleCmp(calls[r].ret)
         /\ prog = "sum" => calls[r].sum = sum1
<1>1. r \in Calls /\ Part(r, Word) = Word BY WholeWord
<1>2. /\ prog = "rle" => Coding(r, calls[r], arr, Word)
      /\ prog = "sum" => Summing(r, calls[r], Word)
  BY <1>1, ActiveFacts
<1>3. /\ prog = "rle" => Contents(arr[Given]) = RunsOf(Word)
      /\ prog = "sum" => sum1 = Total(Word)
  BY DEF IInv, MainInv, WordOK
<1> QED BY <1>1, <1>2, <1>3 DEF Coding, Summing, RleCmp

LEMMA StepRecCall ==
  ASSUME IInv, RecCall
  PROVE  IInv'
<1>1. main = "compare" /\ calls[Serial].pc = "done" /\ UNCHANGED <<prog, arr, sum1>>
  BY DEF RecCall
<1>2. main \in Working BY <1>1 DEF Working
<1>3. prog \in {"rle", "sum"} BY DEF IInv, TypeInv
<1>4. prog = "sum" \/ RleCmp(calls[Serial].ret) BY <1>1, <1>2, <1>3, WholeAnswer
<1>5. calls' = [calls EXCEPT ![Root] = Called(Root)] /\ main' = "sync" BY <1>4 DEF RecCall
<1>6. \A q \in Ranges : calls[q].pc = "none" BY <1>1 DEF IInv, MainInv
<1>7. /\ TypeInv' /\ CallsInv' /\ NestInv' /\ WordOK'
      /\ \A q \in Calls : q # Root => calls'[q] = calls[q]
  BY <1>1, <1>2, <1>5, <1>6, Begin
<1>8. calls'[Serial].pc = "done" BY <1>1, <1>2, <1>7, WholeWord, SerialFacts
<1>9. MainInv' BY <1>5, <1>7, <1>8 DEF MainInv, Early, Working
<1> QED BY <1>7, <1>9 DEF IInv

LEMMA StepRecReturn ==
  ASSUME IInv, RecReturn
  PROVE  IInv'
<1>1. main = "sync" /\ calls[Root].pc = "done" /\ UNCHANGED <<prog, arr, sum1, calls>>
  BY DEF RecReturn
<1>2. main \in Working /\ calls[Serial].pc = "done" BY <1>1 DEF Working, IInv, MainInv
<1>3. prog \in {"rle", "sum"} BY DEF IInv, TypeInv
<1>4. Answers BY <1>1, <1>2, <1>3, WholeAnswer DEF Answers
<1>5. main' = "done" BY <1>4 DEF RecReturn
<1>6. Worked' = Worked /\ arr'[Worked] = arr[Worked] BY <1>1 DEF Worked
<1>7. Word' = Word BY <1>6 DEF Word
<1>8. TypeInv' BY <1>1 DEF IInv, TypeInv
<1>9. CallsInv' BY <1>1, <1>7 DEF IInv, CallsInv
<1>10. NestInv' BY <1>1 DEF IInv, NestInv, Nested
<1>11. WordOK' BY <1>1, <1>2, <1>6, <1>7, WordKept DEF IInv, MainInv
<1>12. MainInv' BY <1>1, <1>2, <1>5, <1>11 DEF MainInv, Early, Working
<1> QED BY <1>8, <1>9, <1>10, <1>12 DEF IInv

LEMMA StepNothing ==
  ASSUME IInv, UNCHANGED vars
  PROVE  IInv'
<1>1. prog' = prog /\ main' = main /\ arr' = arr /\ sum1' = sum1 /\ calls' = calls BY DEF vars
<1>2. Worked' = Worked BY <1>1 DEF Worked
<1>3. Word' = Word BY <1>1, <1>2 DEF Word
<1>4. TypeInv' BY <1>1 DEF IInv, TypeInv
<1>5. CallsInv' BY <1>1, <1>3 DEF IInv, CallsInv
<1>6. NestInv' BY <1>1 DEF IInv, NestInv, Nested
<1>7. GivenOK' = GivenOK /\ WordOK' = WordOK BY <1>1, <1>2, <1>3 DEF GivenOK, WordOK
<1>8. MainInv' BY <1>1, <1>7 DEF IInv, MainInv
<1> QED BY <1>4, <1>5, <1>6, <1>8 DEF IInv

-----------------------------------------------------------------------------
(* The theorems                                                            *)

LEMMA InitInv == Init => IInv
<1> SUFFICES ASSUME Init PROVE IInv OBVIOUS
<1>1. prog \in {"rle", "sum"} /\ main = "create" BY DEF Init
<1>2. \A a \in Arrays : arr[a] = None BY DEF Init
<1>3. \A r \in Calls : calls[r] = NoCall BY DEF Init
<1>4. \A r \in Calls : calls[r].pc = "none" BY <1>3, NoCallFacts
<1>5. TypeInv BY NoCallFacts DEF Init, TypeInv
<1>6. CallsInv BY <1>4 DEF CallsInv, CallOK
<1>7. NestInv BY <1>4, RangesFacts DEF NestInv
<1>8. MainInv BY <1>1, <1>4 DEF MainInv, Early, Working
<1> QED BY <1>5, <1>6, <1>7, <1>8 DEF IInv

LEMMA NextInv == IInv /\ [Next]_vars => IInv'
<1> SUFFICES ASSUME IInv, [Next]_vars PROVE IInv' OBVIOUS
<1>1. CASE CreateGiven BY <1>1, StepCreateGiven
<1>2. CASE CreateSpare BY <1>2, StepCreateSpare
<1>3. CASE CreateSyms BY <1>3, StepCreateSyms
<1>4. CASE \E vs \in IF prog = "rle" THEN RandomRuns ELSE RandomInts, moves \in BOOLEAN :
             MkRand(vs, moves)
  BY <1>4, StepMkRand
<1>5. CASE \E moves \in BOOLEAN : Decode(moves) BY <1>5, StepDecode
<1>6. CASE SerialCall BY <1>6, StepSerialCall
<1>7. CASE RecCall BY <1>7, StepRecCall
<1>8. CASE RecReturn BY <1>8, StepRecReturn
<1>9. ASSUME NEW r \in Calls,
             \/ EncodeStart(r) \/ SumStart(r) \/ NextChunk(r) \/ EatSymbol(r) \/ EatInts(r)
             \/ EncodeLast(r) \/ EncodeReturn(r) \/ SumReturn(r) \/ Fork(r)
             \/ MergeAdd(r) \/ MergePop(r) \/ MergeConcat(r) \/ SumJoin(r)
      PROVE  IInv'
  <2>1. CASE EncodeStart(r) BY <2>1, StepEncodeStart
  <2>2. CASE SumStart(r) BY <2>2, StepSumStart
  <2>3. CASE NextChunk(r) BY <2>3, StepNextChunk
  <2>4. CASE EatSymbol(r) BY <2>4, StepEatSymbol
  <2>5. CASE EatInts(r) BY <2>5, StepEatInts
  <2>6. CASE EncodeLast(r) BY <2>6, StepEncodeLast
  <2>7. CASE EncodeReturn(r) BY <2>7, StepEncodeReturn
  <2>8. CASE SumReturn(r) BY <2>8, StepSumReturn
  <2>9. CASE Fork(r) BY <2>9, StepFork
  <2>10. CASE MergeAdd(r) BY <2>10, StepMergeAdd
  <2>11. CASE MergePop(r) BY <2>11, StepMergePop
  <2>12. CASE MergeConcat(r) BY <2>12, StepMergeConcat
  <2>13. CASE SumJoin(r) BY <2>13, StepSumJoin
  <2> QED BY <1>9, <2>1, <2>2, <2>3, <2>4, <2>5, <2>6, <2>7, <2>8, <2>9, <2>10, <2>11, <2>12, <2>13
<1>10. CASE Exited BY <1>10, StepNothing DEF Exited
<1>11. CASE UNCHANGED vars BY <1>11, StepNothing
<1> QED
  BY <1>1, <1>2, <1>3, <1>4, <1>5, <1>6, <1>7, <1>8, <1>9, <1>10, <1>11 DEF Next

LEMMA AlwaysInv == Spec => []IInv
<1>1. Init => IInv BY InitInv
<1>2. IInv /\ [Next]_vars => IInv' BY NextInv
<1> QED BY <1>1, <1>2, PTL DEF Spec

(* What skip-list arrays need and the interface does not say, the programs *)
(* keep: rle_encode finalizes a buffer with at least one run in it and no  *)
(* more than it has room for (rle_rec_xarray.c:301, sla-chunk.c:637), and  *)
(* rle_merge never appends an empty array (rle_rec_xarray.c:329,           *)
(* sla-chunk.c:485), although it may pop the only run of the first one.    *)
THEOREM RulesAreKept == Spec => []SlaRulesAreKept
<1>1. ASSUME IInv PROVE SlaRulesAreKept
  <2> SUFFICES ASSUME NEW r \in Calls
      PROVE  /\ calls[r].pc = "ready" => calls[r].len > 0
             /\ calls[r].pc = "finish" => calls[r].n \in 1..calls[r].cap
             /\ calls[r].pc \in {"chunk", "eat"} /\ prog = "rle" =>
                  calls[r].cap > 0 /\ calls[r].n <= calls[r].cap
             /\ calls[r].pc = "concat" => arr[calls[r].other].next_idx > 0
    BY DEF SlaRulesAreKept
  <2> DEFINE c == calls[r]
             w == Word
             b == BufOf(r, c, arr)
  <2>1. ASSUME c.pc # "none"
        PROVE  c \in Records /\ Going(r, c, w) /\ w \in Seq(One)
    BY <1>1, <2>1, ActiveFacts, WordFacts
  <2>2. CASE c.pc = "ready"
    <3>1. c.len = Size(r, w) /\ Size(r, w) >= 1 /\ End(r, w) <= Len(w) BY <2>1, <2>2 DEF Going
    <3>2. Size(r, w) \in Nat \ {0} BY <2>1, <2>2, <3>1, StartFacts
    <3> QED BY <2>2, <3>1, <3>2
  <2>3. CASE c.pc = "finish"
    <3>1. Coding(r, c, arr, w) BY <1>1, <2>3, IsCoding
    <3>2. b \in Bufs /\ b.n >= 1 /\ b.n = c.n /\ b.cap = c.cap BY <2>3, <3>1 DEF Coding, BufOf
    <3>3. b.n \in Nat /\ b.cap \in Nat \ {0} /\ b.n <= b.cap BY <3>2, BufFacts
    <3> QED BY <2>3, <3>2, <3>3
  <2>4. CASE c.pc \in {"chunk", "eat"}
    <3> SUFFICES ASSUME prog = "rle" PROVE c.cap > 0 /\ c.n <= c.cap BY <2>4
    <3>1. Coding(r, c, arr, w) BY <1>1, <2>4, ActiveFacts
    <3>2. b \in Bufs /\ b.n = c.n /\ b.cap = c.cap BY <2>4, <3>1 DEF Coding, Reading, BufOf
    <3>3. b.n \in Nat /\ b.cap \in Nat \ {0} /\ b.n <= b.cap BY <3>2, BufFacts
    <3> QED BY <3>2, <3>3
  <2>5. CASE c.pc = "concat"
    <3>1. Coding(r, c, arr, w) BY <1>1, <2>5, IsCoding
    <3> DEFINE o == arr[c.other]
    <3>2. o \in Das /\ Contents(o) # <<>> BY <2>5, <3>1 DEF Coding, Merging
    <3> HIDE DEF o
    <3>3. Contents(o) \in Seq(Elem) /\ Len(Contents(o)) = o.next_idx BY <3>2, ContentsFacts
    <3>4. o.next_idx \in Nat BY <3>2, DaFacts
    <3>5. o.next_idx > 0 BY <3>2, <3>3, <3>4, EmptySeq
    <3> QED BY <2>5, <3>5 DEF o
  <2> QED BY <2>2, <2>3, <2>4, <2>5
<1> QED BY <1>1, AlwaysInv, PTL

(* Whatever order the calls of rle_encode_rec and of sum_rec run in,       *)
(* wherever xslice_split and the chunks cut the array and whenever realloc *)
(* moves one, a call that has returned has the runs (rle_rec_xarray.c:309) *)
(* or the sum (sum_xarray.c:160) of its slice, and no assertion and no     *)
(* comparison of main fails: the recursion answers what the serial call    *)
(* answers.                                                                *)
THEOREM AnswersAreRight == Spec => []ResultsAreRight
<1>1. ASSUME IInv PROVE ResultsAreRight
  <2>1. main # "abort" BY <1>1 DEF IInv, MainInv, Early, Working
  <2>2. ASSUME NEW r \in Calls, calls[r].pc = "done"
        PROVE  IF prog = "rle" THEN Contents(arr[calls[r].ret]) = RunsOf(Slice(r))
               ELSE calls[r].sum = Total(Slice(r))
    <3>1. Slice(r) = Part(r, Word)
      <4>1. Root = <<0, Len(Word)>> BY <1>1, <2>2, ActiveFacts, WordFacts
      <4>2. CASE r = Serial
        <5>1. Slice(r) = SubSeq(Word, Root[1] + 1, Root[1] + Root[2]) BY <4>2 DEF Slice, Word
        <5>2. Start(r) = 0 /\ Size(r, Word) = Len(Word) BY <4>2 DEF Start, Size
        <5> QED BY <4>1, <5>1, <5>2 DEF Part, Upto, End
      <4>3. CASE r # Serial
        <5>1. Slice(r) = SubSeq(Word, r[1] + 1, r[1] + r[2]) BY <4>3 DEF Slice, Word
        <5>2. Start(r) = r[1] /\ Size(r, Word) = r[2] BY <4>3 DEF Start, Size
        <5> QED BY <5>1, <5>2 DEF Part, Upto, End
      <4> QED BY <4>2, <4>3
    <3>2. /\ prog = "rle" => Coding(r, calls[r], arr, Word)
          /\ prog = "sum" => Summing(r, calls[r], Word)
          /\ prog \in {"rle", "sum"}
      BY <1>1, <2>2, ActiveFacts DEF IInv, TypeInv
    <3> QED BY <2>2, <3>1, <3>2 DEF Coding, Summing
  <2> QED BY <2>1, <2>2 DEF ResultsAreRight
<1> QED BY <1>1, AlwaysInv, PTL

-----------------------------------------------------------------------------
(* The arrays as sequences                                                 *)

(* What Abstract sees of the arrays.                                       *)
Shows(a) == [x \in Arrays |-> IF a[x] = None THEN Gone ELSE Contents(a[x])]
Shown == Shows(arr)

(* A step of the abstract specification, or none.                          *)
Moves(old, new) ==
  \/ Abstract!Operation(old, new)
  \/ \E a \in Arrays : Abstract!Write(old, new, a)
  \/ new = old

(* An operation on an array that changes it is a step of XArraySpec.       *)
LEMMA IsOperation ==
  ASSUME NEW old, NEW new, NEW x \in Arrays, NEW y \in Arrays, new[x] # old[x],
         \/ Abstract!Create(old, new, x) \/ Abstract!Extend(old, new, x)
         \/ Abstract!Pop(old, new, x) \/ Abstract!Concat(old, new, x, y)
  PROVE  Moves(old, new)
<1>1. new # old OBVIOUS
<1>2. \E a \in Arrays :
        \/ Abstract!Create(old, new, a) \/ Abstract!Extend(old, new, a) \/ Abstract!Pop(old, new, a)
        \/ \E b \in Arrays : Abstract!Concat(old, new, a, b) \/ Abstract!Split(old, new, a, b)
  OBVIOUS
<1>3. Abstract!Operation(old, new) BY <1>1, <1>2 DEF Abstract!Operation
<1> QED BY <1>3 DEF Moves

(* No contents of an array are the value of an array that does not exist.  *)
LEMMA ElemSeqs ==
  /\ \A x \in Elem : x \in Seq(Nat)
  /\ \A s \in Seq(Elem) : s # Gone
<1>1. ASSUME NEW x \in Elem PROVE x \in Seq(Nat)
  <2>1. CASE x = Junk BY <2>1 DEF Junk
  <2>2. CASE x \in One
    <3>1. PICK c \in Nat : x = <<c>> BY <2>2 DEF One
    <3> QED BY <3>1
  <2>3. CASE x \in RunElems
    <3>1. PICK c \in Nat, f \in Nat : x = <<c, f>> BY <2>3 DEF RunElems
    <3> QED BY <3>1
  <2> QED BY <2>1, <2>2, <2>3 DEF Elem
<1>2. ASSUME NEW s \in Seq(Elem) PROVE s # Gone
  <2>1. Elem \subseteq Seq(Nat) BY <1>1
  <2>2. s \in Seq(Seq(Nat)) BY <2>1, SeqMonotonic
  <2> QED BY <2>2, GoneAssumption
<1> QED BY <1>1, <1>2

(* An array that exists is seen as its contents.                           *)
LEMMA ShownFacts ==
  ASSUME NEW b, NEW x \in Arrays, b[x] \in Das
  PROVE  /\ b[x] # None /\ Shows(b)[x] = Contents(b[x])
         /\ Shows(b)[x] \in Seq(Elem) /\ Shows(b)[x] # Gone
<1> DEFINE d == b[x]
<1>1. d.alloc_grain # 0 /\ d \in Das BY DaFacts
<1>2. None.alloc_grain = 0 BY DEF None
<1>3. d # None BY <1>1, <1>2
<1>4. Shows(b)[x] = Contents(d) BY <1>3 DEF Shows
<1>5. Contents(d) \in Seq(Elem) BY <1>1, ContentsFacts
<1> HIDE DEF d
<1> QED BY <1>3, <1>4, <1>5, ElemSeqs DEF d

(* Sequences whose first elements are the same.                            *)
LEMMA SameFirst ==
  ASSUME NEW S, NEW s \in Seq(S), NEW t \in Seq(S), Len(s) <= Len(t),
         \A i \in 1..Len(s) : t[i] = s[i]
  PROVE  SubSeq(s, 1, Len(s)) = SubSeq(t, 1, Len(s))
<1> DEFINE n == Len(s)
           a == SubSeq(s, 1, n)
           c == SubSeq(t, 1, n)
<1>1. n \in Nat /\ n <= Len(s) /\ n <= Len(t) /\ 0 \in Nat /\ 0 <= n BY LenProperties
<1> HIDE DEF n
<1>2. /\ SubSeq(s, 0 + 1, n) \in Seq(S) /\ Len(SubSeq(s, 0 + 1, n)) = n - 0
      /\ \A i \in 1..(n - 0) : SubSeq(s, 0 + 1, n)[i] = s[0 + i]
  BY <1>1, SliceFacts
<1>3. /\ SubSeq(t, 0 + 1, n) \in Seq(S) /\ Len(SubSeq(t, 0 + 1, n)) = n - 0
      /\ \A i \in 1..(n - 0) : SubSeq(t, 0 + 1, n)[i] = t[0 + i]
  BY <1>1, SliceFacts
<1>4. a \in Seq(S) /\ Len(a) = n /\ \A i \in 1..n : a[i] = s[i] BY <1>1, <1>2
<1>5. c \in Seq(S) /\ Len(c) = n /\ \A i \in 1..n : c[i] = t[i] BY <1>1, <1>3
<1> HIDE DEF a, c
<1>6. a = c BY <1>4, <1>5, SeqEqual DEF n
<1> QED BY <1>6 DEF a, c, n

(* An array that did not exist is created empty: xarray_create.            *)
LEMMA Creates ==
  ASSUME NEW b \in [Arrays -> Das \union {None}], NEW x \in Arrays, NEW d \in Das,
         NEW e, e = [b EXCEPT ![x] = d], b[x] = None, Contents(d) = <<>>
  PROVE  Moves(Shows(b), Shows(e))
<1> DEFINE old == Shows(b)
           new == Shows(e)
<1>1. e[x] = d /\ \A y \in Arrays \ {x} : new[y] = old[y] BY DEF Shows
<1>2. new[x] = <<>> /\ new[x] # Gone BY <1>1, ShownFacts
<1>3. old[x] = Gone BY DEF Shows
<1> HIDE DEF old, new
<1>4. Abstract!Create(old, new, x)
  BY <1>1, <1>2, <1>3 DEF Abstract!Create, Abstract!Live, Abstract!Same
<1>5. new[x] # old[x] BY <1>2, <1>3
<1>6. Moves(old, new) BY <1>4, <1>5, IsOperation
<1> QED BY <1>6 DEF old, new

(* An array keeps its elements and may get more at its end: append.        *)
LEMMA Grows ==
  ASSUME NEW b \in [Arrays -> Das \union {None}], NEW x \in Arrays, NEW d \in Das,
         NEW e, e = [b EXCEPT ![x] = d], b[x] \in Das,
         Len(Contents(b[x])) <= Len(Contents(d)),
         \A i \in 1..Len(Contents(b[x])) : Contents(d)[i] = Contents(b[x])[i]
  PROVE  Moves(Shows(b), Shows(e))
<1> DEFINE old == Shows(b)
           new == Shows(e)
           s == Contents(b[x])
           t == Contents(d)
<1>1. /\ new[x] = t /\ new[x] # Gone /\ t \in Seq(Elem)
      /\ \A y \in Arrays \ {x} : new[y] = old[y]
  <2>1. e[x] = d /\ \A y \in Arrays \ {x} : new[y] = old[y] BY DEF Shows
  <2>2. e[x] \in Das BY <2>1
  <2>3. new[x] = Contents(e[x]) /\ new[x] # Gone /\ new[x] \in Seq(Elem) BY <2>2, ShownFacts
  <2> QED BY <2>1, <2>3
<1>2. old[x] = s /\ old[x] # Gone /\ s \in Seq(Elem) BY ShownFacts
<1>3. Len(s) <= Len(t) /\ \A i \in 1..Len(s) : t[i] = s[i] OBVIOUS
<1>4. old = [y \in Arrays |-> old[y]] /\ new = [y \in Arrays |-> new[y]] BY DEF Shows
<1> HIDE DEF old, new, s, t
<1>5. CASE t = s
  <2>1. \A y \in Arrays : new[y] = old[y] BY <1>1, <1>2, <1>5
  <2>2. new = old BY <1>4, <2>1
  <2> QED BY <2>2 DEF Moves, old, new
<1>6. CASE t # s
  <2>1. SubSeq(s, 1, Len(s)) = SubSeq(t, 1, Len(s)) BY <1>2, <1>3, SameFirst
  <2>2. Abstract!IsStrictPrefix(s, t)
    BY <1>3, <1>6, <2>1 DEF Abstract!IsStrictPrefix, Abstract!IsPrefix
  <2>3. Abstract!Extend(old, new, x)
    BY <1>1, <1>2, <2>2 DEF Abstract!Extend, Abstract!Live, Abstract!Same
  <2>4. new[x] # old[x] BY <1>1, <1>2, <1>6
  <2>5. Moves(old, new) BY <2>3, <2>4, IsOperation
  <2> QED BY <2>5 DEF old, new
<1> QED BY <1>5, <1>6

(* An array loses its last element: xarray_pop.                            *)
LEMMA Pops ==
  ASSUME NEW b \in [Arrays -> Das \union {None}], NEW x \in Arrays, NEW d \in Das,
         NEW e, e = [b EXCEPT ![x] = d], b[x] \in Das, Contents(b[x]) # <<>>,
         Contents(d) = SubSeq(Contents(b[x]), 1, Len(Contents(b[x])) - 1)
  PROVE  Moves(Shows(b), Shows(e))
<1> DEFINE old == Shows(b)
           new == Shows(e)
           s == Contents(b[x])
           t == Contents(d)
<1>1. /\ new[x] = t /\ new[x] # Gone /\ t \in Seq(Elem)
      /\ \A y \in Arrays \ {x} : new[y] = old[y]
  <2>1. e[x] = d /\ \A y \in Arrays \ {x} : new[y] = old[y] BY DEF Shows
  <2>2. e[x] \in Das BY <2>1
  <2>3. new[x] = Contents(e[x]) /\ new[x] # Gone /\ new[x] \in Seq(Elem) BY <2>2, ShownFacts
  <2> QED BY <2>1, <2>3
<1>2. old[x] = s /\ old[x] # Gone /\ s \in Seq(Elem) BY ShownFacts
<1>3. t = SubSeq(s, 1, Len(s) - 1) /\ s # <<>> OBVIOUS
<1> HIDE DEF old, new, s, t
<1>4. /\ Len(s) \in Nat \ {0} /\ Len(t) = Len(s) - 1 /\ \A i \in 1..Len(t) : s[i] = t[i]
  BY <1>2, <1>3, Ends, Front
<1>5. t # s BY <1>4
<1>6. SubSeq(t, 1, Len(t)) = SubSeq(s, 1, Len(t)) BY <1>2, <1>4, SameFirst
<1>7. Abstract!IsStrictPrefix(t, s)
  BY <1>4, <1>5, <1>6 DEF Abstract!IsStrictPrefix, Abstract!IsPrefix
<1>8. Abstract!Pop(old, new, x)
  BY <1>1, <1>2, <1>7 DEF Abstract!Pop, Abstract!Live, Abstract!Same
<1>9. new[x] # old[x] BY <1>1, <1>2, <1>5
<1>10. Moves(old, new) BY <1>8, <1>9, IsOperation
<1> QED BY <1>10 DEF old, new

(* A run is written over the first: rle_merge through xarray_get.          *)
LEMMA Writes ==
  ASSUME NEW b \in [Arrays -> Das \union {None}], NEW x \in Arrays, NEW d \in Das,
         NEW e, e = [b EXCEPT ![x] = d], b[x] \in Das, Contents(b[x]) # <<>>, NEW v \in RunSet,
         Contents(d) = [Contents(b[x]) EXCEPT ![1] = v]
  PROVE  Moves(Shows(b), Shows(e))
<1> DEFINE old == Shows(b)
           new == Shows(e)
           s == Contents(b[x])
           t == Contents(d)
<1>1. e[x] = d /\ \A y \in Arrays \ {x} : new[y] = old[y] BY DEF Shows
<1>2. new[x] = t /\ new[x] # Gone
  <2>1. e[x] \in Das BY <1>1
  <2>2. new[x] = Contents(e[x]) /\ new[x] # Gone BY <2>1, ShownFacts
  <2> QED BY <1>1, <2>2
<1>3. old[x] = s /\ old[x] # Gone /\ s \in Seq(Elem) BY ShownFacts
<1>4. t = [s EXCEPT ![1] = v] /\ s # <<>> OBVIOUS
<1> HIDE DEF old, new, s, t
<1>5. 1 \in DOMAIN s BY <1>3, <1>4, Ends
<1>6. new[x] = [old[x] EXCEPT ![1] = v] /\ 1 \in DOMAIN old[x] BY <1>3, <1>2, <1>4, <1>5
<1>7. Abstract!Write(old, new, x)
  BY <1>3, <1>1, <1>2, <1>6 DEF Abstract!Write, Abstract!Live, Abstract!Same
<1> QED BY <1>7 DEF Moves, old, new

(* An array gets the elements of another, which is gone: xarray_concat.    *)
LEMMA Concats ==
  ASSUME NEW b \in [Arrays -> Das \union {None}], NEW x \in Arrays, NEW y \in Arrays, x # y,
         NEW d \in Das, NEW e, e = [b EXCEPT ![x] = d, ![y] = None],
         b[x] \in Das, b[y] \in Das, Contents(d) = Contents(b[x]) \o Contents(b[y])
  PROVE  Moves(Shows(b), Shows(e))
<1> DEFINE old == Shows(b)
           new == Shows(e)
           s == Contents(b[x])
           t == Contents(b[y])
           c == Contents(d)
<1>1. /\ e[x] = d /\ e[y] = None /\ \A z \in Arrays \ {x, y} : new[z] = old[z]
      BY DEF Shows
<1>2. /\ new[x] = c /\ new[x] # Gone /\ old[x] = s /\ old[x] # Gone
      /\ old[y] = t /\ old[y] # Gone
  BY <1>1, ShownFacts
<1>3. new[y] = Gone BY <1>1 DEF Shows
<1>4. c = s \o t OBVIOUS
<1> HIDE DEF old, new, s, t, c
<1>5. Abstract!Concat(old, new, x, y)
  BY <1>1, <1>2, <1>3, <1>4 DEF Abstract!Concat, Abstract!Live, Abstract!Same
<1>6. Abstract!Operation(old, new) BY <1>2, <1>3, <1>5 DEF Abstract!Operation
<1> QED BY <1>6 DEF Moves, old, new
-----------------------------------------------------------------------------
(* The runs of a word                                                      *)

(* The symbols that the program may draw, runs of them, and those of them  *)
(* that a word with k symbols may have.                                    *)
Letters == {<<c>> : c \in 0..(Symbols - 1)}
LetterRuns == {x \in RunElems : Symbol(x) \in 0..(Symbols - 1)}
ShortRuns(k) == {Run(c, f) : c \in 0..(Symbols - 1), f \in 1..k}

(* What these sets have in them.                                           *)
LEMMA LetterFacts ==
  /\ Letters \subseteq One /\ LetterRuns \subseteq RunElems
  /\ \A x \in Letters : x[1] \in 0..(Symbols - 1)
  /\ \A x \in LetterRuns : /\ Symbol(x) \in 0..(Symbols - 1) /\ Freq(x) \in Nat
                           /\ <<Symbol(x)>> \in Letters
  /\ \A k \in Nat : ShortRuns(k) \subseteq RunElems /\ ShortRuns(k) \subseteq ShortRuns(k + 1)
  /\ \A k \in Nat : \A x \in ShortRuns(k) :
       x = Run(Symbol(x), Freq(x)) /\ Symbol(x) \in 0..(Symbols - 1) /\ Freq(x) \in 1..k
  /\ \A k \in Nat : \A c \in 0..(Symbols - 1), f \in 1..k : Run(c, f) \in ShortRuns(k)
<1>1. 0..(Symbols - 1) \subseteq Nat BY ConstantsAssumption
<1>2. Letters \subseteq One BY <1>1 DEF Letters, One
<1>3. \A x \in Letters : x[1] \in 0..(Symbols - 1) BY DEF Letters
<1>4. ASSUME NEW x \in LetterRuns
      PROVE  Symbol(x) \in 0..(Symbols - 1) /\ Freq(x) \in Nat /\ <<Symbol(x)>> \in Letters
  BY RunFacts DEF LetterRuns, Letters
<1>5. ASSUME NEW k \in Nat, NEW x \in ShortRuns(k)
      PROVE  /\ x = Run(Symbol(x), Freq(x)) /\ Symbol(x) \in 0..(Symbols - 1) /\ Freq(x) \in 1..k
             /\ x \in RunElems /\ x \in ShortRuns(k + 1)
  <2>1. PICK c \in 0..(Symbols - 1), f \in 1..k : x = Run(c, f) BY DEF ShortRuns
  <2>2. Symbol(x) = c /\ Freq(x) = f BY <2>1 DEF Symbol, Freq, Run
  <2>3. f \in 1..(k + 1) /\ f \in Nat \ {0} /\ c \in Nat BY <1>1
  <2>4. x \in RunElems BY <2>1, <2>3 DEF RunElems, Run
  <2> QED BY <2>1, <2>2, <2>3, <2>4 DEF ShortRuns
<1>6. \A k \in Nat : \A c \in 0..(Symbols - 1), f \in 1..k : Run(c, f) \in ShortRuns(k)
  BY DEF ShortRuns
<1> QED BY <1>2, <1>3, <1>4, <1>5, <1>6 DEF LetterRuns

(* One more symbol makes no run longer than the word.                      *)
LEMMA LongerShort ==
  ASSUME NEW k \in Nat, NEW b \in Seq(ShortRuns(k)), NEW c \in 0..(Symbols - 1)
  PROVE  Longer(b, c) \in Seq(ShortRuns(k + 1))
<1> DEFINE V == ShortRuns(k)
           W == ShortRuns(k + 1)
           n == Len(b)
<1>1. V \subseteq W BY LetterFacts
<1>2. k + 1 \in Nat /\ 1 \in 1..(k + 1) OBVIOUS
<1>3. Run(c, 1) \in W BY <1>2, LetterFacts
<1>4. ASSUME b # <<>> PROVE n \in 1..n /\ Run(c, Freq(b[n]) + 1) \in W
  <2>1. n \in 1..n /\ b[n] \in V BY <1>4, Ends
  <2>2. Freq(b[n]) \in 1..k BY <2>1, LetterFacts
  <2>3. Freq(b[n]) + 1 \in 1..(k + 1) BY <2>2
  <2> QED BY <1>2, <2>1, <2>3, LetterFacts
<1>5. b \in Seq(V) OBVIOUS
<1> SUFFICES Longer(b, c) \in Seq(W) OBVIOUS
<1> HIDE DEF V, W
<1>6. b \in Seq(W) BY <1>1, <1>5, SeqMonotonic
<1>7. CASE b # <<>> /\ Symbol(b[n]) = c
  <2>1. Longer(b, c) = [b EXCEPT ![n] = Run(c, Freq(b[n]) + 1)] BY <1>4, <1>7 DEF Longer
  <2> QED BY <1>4, <1>6, <1>7, <2>1, ExceptSeq
<1>8. CASE ~ (b # <<>> /\ Symbol(b[n]) = c)
  <2>1. Longer(b, c) = Append(b, Run(c, 1)) BY <1>8 DEF Longer
  <2> QED BY <1>3, <1>6, <2>1, AppendProperties
<1> QED BY <1>7, <1>8

(* A run is no longer than the word it is in.                              *)
LEMMA RunsAreShort ==
  ASSUME NEW s \in Seq(Letters)
  PROVE  RunsOf(s) \in Seq(ShortRuns(Len(s)))
<1> DEFINE T == {t \in Seq(Letters) : RunsOf(t) \in Seq(ShortRuns(Len(t)))}
<1>1. \A t \in Seq(Letters) : t \in Seq(One) BY LetterFacts, SeqMonotonic
<1>2. <<>> \in T
  <2>1. RunsOf(<<>>) = <<>> BY RunsOfRules
  <2> QED BY <2>1, EmptySeq
<1>3. ASSUME NEW t \in Seq(Letters), NEW x \in Letters, t \in T PROVE Append(t, x) \in T
  <2> DEFINE u == Append(t, x)
  <2>1. u \in Seq(Letters) /\ Len(u) = Len(t) + 1 /\ Len(t) \in Nat
    BY AppendProperties, LenProperties
  <2>2. t \in Seq(One) /\ x \in One BY <1>1, LetterFacts
  <2>3. RunsOf(u) = Longer(RunsOf(t), x[1]) BY <2>2, RunsOfRules
  <2>4. x[1] \in 0..(Symbols - 1) BY LetterFacts
  <2>5. RunsOf(t) \in Seq(ShortRuns(Len(t))) BY <1>3
  <2>6. Longer(RunsOf(t), x[1]) \in Seq(ShortRuns(Len(t) + 1)) BY <2>1, <2>4, <2>5, LongerShort
  <2> QED BY <2>1, <2>3, <2>6
<1> HIDE DEF T
<1>4. Seq(Letters) \subseteq T BY <1>2, <1>3, SeqSets
<1> QED BY <1>4 DEF T

(* What main decodes are symbols that the program may draw.                *)
LEMMA SymbolsAreLetters ==
  ASSUME NEW g \in Seq(LetterRuns)
  PROVE  SymbolsOf(g) \in Seq(Letters)
<1> DEFINE T == {h \in Seq(LetterRuns) : SymbolsOf(h) \in Seq(Letters)}
<1>1. \A h \in Seq(LetterRuns) : h \in Seq(RunElems) BY LetterFacts, SeqMonotonic
<1>2. <<>> \in T BY SymbolsOfRules, EmptySeq
<1>3. ASSUME NEW h \in Seq(LetterRuns), NEW x \in LetterRuns, h \in T PROVE Append(h, x) \in T
  <2> DEFINE c == Symbol(x)
             f == Freq(x)
             s == SymbolsOf(h)
             r == Repeat(c, f)
  <2>1. <<c>> \in Letters /\ f \in Nat BY LetterFacts
  <2> HIDE DEF c, f
  <2>2. r \in Seq(Letters) BY <2>1 DEF Repeat
  <2>3. s \in Seq(Letters) BY <1>3
  <2>4. h \in Seq(RunElems) /\ x \in RunElems BY <1>1, LetterFacts
  <2>5. SymbolsOf(Append(h, x)) = s \o r BY <2>4, SymbolsOfRules DEF c, f
  <2> HIDE DEF s, r
  <2>6. s \o r \in Seq(Letters) BY <2>2, <2>3, ConcatProperties
  <2>7. Append(h, x) \in Seq(LetterRuns) BY AppendProperties
  <2> QED BY <2>5, <2>6, <2>7
<1> HIDE DEF T
<1>4. Seq(LetterRuns) \subseteq T BY <1>2, <1>3, SeqSets
<1> QED BY <1>4 DEF T

(* rle_mkrand draws them.                                                  *)
LEMMA DrawnRuns ==
  ASSUME NEW vs \in RandomRuns
  PROVE  vs \in Seq(LetterRuns)
<1>1. PICK k \in 1..MaxElems : \E f \in [1..k -> 1..MaxFreq] :
        vs = [i \in 1..k |-> Run((i - 1) % Symbols, f[i])]
  BY DEF RandomRuns
<1>2. PICK f \in [1..k -> 1..MaxFreq] : vs = [i \in 1..k |-> Run((i - 1) % Symbols, f[i])]
  BY <1>1
<1>3. MaxElems \in Nat /\ MaxFreq \in Nat /\ Symbols \in Nat \ {0} BY ConstantsAssumption
<1>4. ASSUME NEW i \in 1..k PROVE Run((i - 1) % Symbols, f[i]) \in LetterRuns
  <2> DEFINE c == (i - 1) % Symbols
             n == f[i]
  <2>1. i - 1 \in Nat BY <1>3
  <2>2. c \in 0..(Symbols - 1) BY <1>3, <2>1
  <2>3. n \in Nat \ {0} /\ c \in Nat BY <1>3, <2>2
  <2> HIDE DEF c, n
  <2>4. Run(c, n) \in RunElems /\ Symbol(Run(c, n)) = c BY <2>3 DEF RunElems, Run, Symbol
  <2> QED BY <2>2, <2>4 DEF LetterRuns, c, n
<1>5. k \in Nat BY <1>3
<1> QED BY <1>2, <1>4, <1>5

-----------------------------------------------------------------------------
(* What the refinement needs besides                                       *)

(* An array is not there before its call makes it: nobody has worked on    *)
(* the slice of a call that is about to start.                             *)
FreshInv ==
  /\ \A r \in Calls : calls[r].pc = "ready" => \A x \in Within(r) : arr[x] = None
  /\ main \in Early \union {"compare"} => \A x \in Ranges : arr[x] = None
  /\ main \in Early => arr[Serial] = None
  /\ main = "create" => arr[Given] = None
  /\ main \in {"create", "spare"} => arr[Spare] = None
  /\ main \in {"create", "spare", "mkrand", "syms"} => arr[Syms] = None

(* The symbols are those that the program draws.                           *)
SpellInv ==
  prog = "rle" =>
    /\ main \in {"syms", "decode"} => Contents(arr[Given]) \in Seq(LetterRuns)
    /\ main \in Working => Word \in Seq(Letters)

MoreInv == IInv /\ FreshInv /\ SpellInv

(* The arrays that a call may make are named by slices within its own.     *)
LEMMA OtherArrays ==
  /\ Spare \notin Calls /\ Spare # Syms
  /\ \A r \in Ranges : r # Serial
  /\ \A r \in Calls : Within(r) \subseteq Calls /\ (r # Serial => Within(r) \subseteq Ranges)
  /\ Within(Serial) = {Serial}
  /\ \A r \in Calls : r \in Within(r)
<1>1. Spare # Serial /\ Spare # Syms BY DEF Spare, Syms, Serial
<1>2. \A r \in Ranges : r # Spare /\ r # Serial BY RangesFacts
<1>3. ASSUME NEW r \in Calls PROVE r \in Within(r)
  <2>1. CASE r = Serial BY <2>1 DEF Within
  <2>2. CASE r \in Ranges BY <2>2, RangesFacts DEF Within
  <2> QED BY <2>1, <2>2, SerialFacts
<1> QED BY <1>1, <1>2, <1>3 DEF Within, Calls

(* Nobody works on the slice of a call that is about to start.             *)
LEMMA ReadyApart ==
  ASSUME IInv, NEW r \in Calls, calls[r].pc = "ready", NEW q \in Calls, q # r,
         calls[q].pc # "none"
  PROVE  Own(q, calls[q], prog) \cap Within(r) = {}
<1>1. Own(q, calls[q], prog) \subseteq Within(q) BY ActiveFacts
<1>2. CASE r = Serial \/ q = Serial
  <2>1. Within(r) \cap Within(q) = {} BY <1>2, SerialFacts DEF Within
  <2> QED BY <1>1, <2>1
<1>3. CASE r \in Ranges /\ q \in Ranges
  <2>1. Nested(r, q) BY <1>3 DEF IInv, NestInv
  <2>2. CASE calls[q].pc = "wait"
    <3>1. Own(q, calls[q], prog) = {} BY <2>2 DEF Own
    <3> QED BY <3>1
  <2>3. CASE Apart(r, q)
    <3> SUFFICES ASSUME NEW x \in Within(r), x \in Within(q) PROVE FALSE BY <1>1
    <3>1. r # Serial /\ q # Serial BY <1>3, SerialFacts
    <3>2. /\ x \in Ranges /\ r[1] <= x[1] /\ x[1] + x[2] <= r[1] + r[2]
          /\ q[1] <= x[1] /\ x[1] + x[2] <= q[1] + q[2]
      BY <3>1 DEF Within
    <3> DEFINE a == x[1]
               k == x[2]
               b == r[1]
               m == r[2]
               c == q[1]
               n == q[2]
    <3>3. a \in Nat /\ k \in Nat \ {0} /\ b \in Nat /\ m \in Nat /\ c \in Nat /\ n \in Nat
      BY <1>3, <3>2, RangesFacts
    <3>4. b <= a /\ a + k <= b + m /\ c <= a /\ a + k <= c + n BY <3>2
    <3>5. b + m <= c \/ c + n <= b BY <2>3 DEF Apart
    <3> HIDE DEF a, k, b, m, c, n
    <3> QED BY <3>3, <3>4, <3>5
  <2> QED BY <2>1, <2>2, <2>3 DEF Nested
<1> QED BY <1>2, <1>3, SerialFacts

(* A step of q that starts no call and writes to its own arrays.           *)
LEMMA CallKeeps ==
  ASSUME MoreInv, NEW q \in Calls, calls[q].pc # "none", UNCHANGED <<prog, main>>,
         \A x \in Arrays : arr'[x] # arr[x] => x \in Own(q, calls[q], prog),
         calls'[q].pc # "ready",
         \A r \in Calls : calls'[r].pc = "ready" => calls[r].pc = "ready"
  PROVE  (FreshInv /\ SpellInv)'
<1>1. main \in Working /\ main \notin Early /\ Own(q, calls[q], prog) \subseteq Within(q)
  BY ActiveFacts DEF MoreInv
<1>2. ASSUME NEW r \in Calls, calls'[r].pc = "ready", NEW x \in Within(r) PROVE arr'[x] = None
  <2>1. calls[r].pc = "ready" /\ r # q BY <1>2
  <2>2. arr[x] = None BY <1>2, <2>1 DEF MoreInv, FreshInv
  <2>3. Own(q, calls[q], prog) \cap Within(r) = {} BY <2>1, ReadyApart DEF MoreInv
  <2>4. x \in Arrays BY <1>2, OtherArrays, SerialFacts
  <2> QED BY <1>2, <2>2, <2>3, <2>4
<1>3. ASSUME main = "compare", NEW x \in Ranges PROVE arr'[x] = None
  <2>1. q = Serial BY <1>3, SerialFacts DEF MoreInv, IInv, MainInv
  <2>2. x \notin Own(q, calls[q], prog) BY <1>1, <2>1, OtherArrays
  <2>3. x \in Arrays BY RangesFacts
  <2> QED BY <1>3, <2>2, <2>3 DEF MoreInv, FreshInv
<1>4. FreshInv'
  <2>1. main \notin {"create", "spare", "mkrand", "syms"} BY <1>1 DEF Early
  <2> QED BY <1>1, <1>2, <1>3, <2>1 DEF FreshInv
<1>5. SpellInv'
  <2>1. \A x \in {Given, Syms} : x \in Arrays /\ x \notin Own(q, calls[q], prog)
    BY <1>1, OtherArrays, SerialFacts
  <2>2. arr'[Given] = arr[Given] /\ arr'[Syms] = arr[Syms] BY <2>1
  <2>3. Word' = Word BY <2>2 DEF Word, Worked
  <2> QED BY <2>2, <2>3 DEF MoreInv, SpellInv
<1> QED BY <1>4, <1>5

(* Another call is not touched by a step that replaces a record.           *)
LEMMA RecordKeeps ==
  ASSUME MoreInv, NEW q \in Calls, calls[q].pc # "none", UNCHANGED <<prog, main>>,
         \A x \in Arrays : arr'[x] # arr[x] => x \in Own(q, calls[q], prog),
         NEW d, calls' = [calls EXCEPT ![q] = d], d.pc # "ready"
  PROVE  (FreshInv /\ SpellInv)'
<1>1. calls \in [Calls -> Records] BY DEF MoreInv, IInv, TypeInv
<1>2. calls'[q] = d /\ \A r \in Calls : r # q => calls'[r] = calls[r] BY <1>1
<1>3. \A r \in Calls : calls'[r].pc = "ready" => calls[r].pc = "ready" BY <1>2
<1> QED BY <1>2, <1>3, CallKeeps

(* A step keeps what the refinement needs and is one of XArraySpec.        *)
Refines == (FreshInv /\ SpellInv)' /\ Moves(Shown, Shown')

(* A step that leaves the arrays alone.                                    *)
LEMMA ArraysStay ==
  ASSUME MoreInv, arr' = arr, (FreshInv /\ SpellInv)'
  PROVE  Refines
<1>1. Shown' = Shown BY DEF Shown, Shows
<1> QED BY <1>1 DEF Refines, Moves

(* A step of q that changes one of its arrays.                             *)
LEMMA OneArray ==
  ASSUME MoreInv, NEW x \in Arrays, NEW d, arr' = [arr EXCEPT ![x] = d]
  PROVE  /\ arr \in [Arrays -> Das \union {None}]
         /\ \A y \in Arrays : arr'[y] # arr[y] => y = x
         /\ Shown = Shows(arr) /\ Shown' = Shows(arr')
<1>1. arr \in [Arrays -> Das \union {None}] BY DEF MoreInv, IInv, TypeInv
<1> QED BY <1>1 DEF Shown, Shows

-----------------------------------------------------------------------------
(* Steps of calls and the arrays                                           *)

(* Steps of a call that leaves the arrays alone.                           *)
LEMMA PlainKeeps ==
  ASSUME MoreInv, NEW r \in Calls, calls[r].pc # "none", UNCHANGED <<prog, main, arr, sum1>>,
         NEW d, calls' = [calls EXCEPT ![r] = d], d.pc # "ready"
  PROVE  Refines
<1>1. \A x \in Arrays : arr'[x] # arr[x] => x \in Own(r, calls[r], prog) OBVIOUS
<1>2. (FreshInv /\ SpellInv)' BY <1>1, RecordKeeps
<1> QED BY <1>2, ArraysStay

(* The steps of sum_rec that are its own, and xslice_getnextchunk.         *)
LEMMA PlainSteps ==
  ASSUME MoreInv, NEW r \in Calls,
         SumStart(r) \/ NextChunk(r) \/ EatInts(r) \/ SumReturn(r)
  PROVE  Refines
<1> DEFINE c == calls[r]
<1>1. c \in Records /\ calls \in [Calls -> Records] BY DEF MoreInv, IInv, TypeInv
<1>2. CASE SumStart(r)
  <2> DEFINE d == [c EXCEPT !.pc = "chunk"]
  <2>1. c.pc = "ready" /\ UNCHANGED <<prog, main, arr, sum1>> BY <1>2 DEF SumStart
  <2>2. calls' = [calls EXCEPT ![r] = d] BY <1>1, <1>2 DEF SumStart
  <2>3. d.pc = "chunk" BY <1>1 DEF Records
  <2> HIDE DEF d
  <2> QED BY <2>1, <2>2, <2>3, PlainKeeps
<1>3. CASE NextChunk(r)
  <2>1. c.pc = "chunk" /\ UNCHANGED <<prog, main, arr, sum1>> BY <1>3 DEF NextChunk
  <2>2. PICK nelems \in 1..c.len :
          calls' = [calls EXCEPT ![r].pc = "eat", ![r].at = c.idx, ![r].left = nelems,
                                 ![r].idx = @ + nelems, ![r].len = @ - nelems]
    BY <1>3 DEF NextChunk
  <2> DEFINE d == [c EXCEPT !.pc = "eat", !.at = c.idx, !.left = nelems,
                            !.idx = c.idx + nelems, !.len = c.len - nelems]
  <2>3. calls' = [calls EXCEPT ![r] = d] BY <1>1, <2>2
  <2>4. d.pc = "eat" BY <1>1 DEF Records
  <2> HIDE DEF d
  <2> QED BY <2>1, <2>3, <2>4, PlainKeeps
<1>4. CASE EatInts(r)
  <2> DEFINE s == c.sum + Total([i \in 1..c.left |-> Element(c.at + i - 1)])
             d == [c EXCEPT !.pc = "chunk", !.at = c.at + c.left, !.left = 0, !.sum = s]
  <2>1. c.pc = "eat" /\ UNCHANGED <<prog, main, arr, sum1>> BY <1>4 DEF EatInts
  <2>2. calls' = [calls EXCEPT ![r] = d] BY <1>1, <1>4 DEF EatInts
  <2> HIDE DEF s
  <2>3. d.pc = "chunk" BY <1>1 DEF Records
  <2> HIDE DEF d
  <2> QED BY <2>1, <2>2, <2>3, PlainKeeps
<1>5. CASE SumReturn(r)
  <2> DEFINE d == [NoCall EXCEPT !.pc = "done", !.sum = c.sum]
  <2>1. /\ c.pc = "chunk" /\ UNCHANGED <<prog, main, arr, sum1>>
        /\ calls' = [calls EXCEPT ![r] = d]
    BY <1>5 DEF SumReturn
  <2>2. d.pc = "done" BY NoCallFacts DEF Records
  <2> HIDE DEF d
  <2> QED BY <2>1, <2>2, PlainKeeps
<1> QED BY <1>2, <1>3, <1>4, <1>5

(* What is put into a buffer shows only when the buffer is finalized, and  *)
(* then behind what the array had.                                         *)
LEMMA StoreKeeps ==
  ASSUME NEW da \in Das, NEW p, NEW v
  PROVE  Store(da, p, v).next_idx = da.next_idx
<1> DEFINE e == [da.elems EXCEPT ![p.idx + 1] = v]
<1>1. Store(da, p, v) = IF p.moved = da.moved THEN [da EXCEPT !.elems = e] ELSE da BY DEF Store
<1> HIDE DEF e
<1> QED BY <1>1 DEF Das

(* To put something into a buffer may finalize it first.                   *)
LEMMA PutKeeps ==
  ASSUME NEW b \in Bufs, NEW v \in Elem, NEW moves \in BOOLEAN
  PROVE  Put(b, v, moves).da.next_idx >= b.da.next_idx
<1> DEFINE f == AppendFinalize(b.da, b.n)
           g == AppendPrepare(f, moves)
           c == IF b.n >= b.cap THEN g ELSE b
           d == Store(c.da, [c.ptr EXCEPT !.idx = @ + c.n], v)
<1>1. b.da.next_idx \in Nat /\ b.n \in Nat BY BufFacts
<1>2. c \in Bufs /\ c.da.next_idx >= b.da.next_idx
  <2>1. CASE b.n >= b.cap
    <3>1. f \in Das /\ f.next_idx = Len(Written(b)) BY FinalizeFacts
    <3>2. Len(Written(b)) = b.da.next_idx + b.n BY WrittenFacts
    <3> HIDE DEF f
    <3>3. g \in Bufs /\ g.da.next_idx = f.next_idx BY <3>1, PrepareFacts
    <3> HIDE DEF g
    <3> QED BY <1>1, <2>1, <3>1, <3>2, <3>3
  <2>2. CASE ~ (b.n >= b.cap) BY <1>1, <2>2
  <2> QED BY <2>1, <2>2
<1>3. Put(b, v, moves) = [c EXCEPT !.da = d, !.n = @ + 1] BY DEF Put
<1>4. c.da \in Das BY <1>2, BufFacts
<1>5. c \in [da : Das, ptr : [moved : Nat, idx : Nat], cap : Nat, n : Nat] BY <1>2 DEF Bufs
<1> HIDE DEF c
<1>6. d.next_idx = c.da.next_idx BY <1>4, StoreKeeps
<1> HIDE DEF d
<1>7. Put(b, v, moves).da = d BY <1>3, <1>5
<1> QED BY <1>2, <1>6, <1>7

(* The array of a buffer keeps its elements.                               *)
LEMMA PutShows ==
  ASSUME NEW b \in Bufs, NEW v \in Elem, NEW moves \in BOOLEAN, NEW e, e = Put(b, v, moves)
  PROVE  /\ e.da \in Das /\ Len(Contents(b.da)) <= Len(Contents(e.da))
         /\ \A i \in 1..Len(Contents(b.da)) : Contents(e.da)[i] = Contents(b.da)[i]
<1> DEFINE m == b.da.next_idx
           k == e.da.next_idx
           s == Written(b)
           t == Written(e)
<1>1. e \in Bufs /\ t = Append(s, v) BY PutFacts
<1>2. /\ e.da \in Das /\ b.da \in Das /\ m \in Nat /\ k \in Nat /\ b.n \in Nat /\ e.n \in Nat
  BY <1>1, BufFacts
<1>3. m <= k BY <1>2, PutKeeps
<1>4. s \in Seq(Elem) /\ Len(s) = m + b.n /\ \A i \in 1..(m + b.n) : s[i] = b.da.elems[i]
  BY WrittenFacts
<1>5. \A i \in 1..(k + e.n) : t[i] = e.da.elems[i] BY <1>1, WrittenFacts
<1>6. \A i \in 1..Len(s) : t[i] = s[i] BY <1>1, <1>4, AppendProperties
<1>7. Len(Contents(b.da)) = m /\ \A i \in 1..m : Contents(b.da)[i] = b.da.elems[i]
  BY <1>2, ContentsFacts
<1>8. Len(Contents(e.da)) = k /\ \A i \in 1..k : Contents(e.da)[i] = e.da.elems[i]
  BY <1>2, ContentsFacts
<1>9. ASSUME NEW i \in 1..m PROVE Contents(e.da)[i] = Contents(b.da)[i]
  <2>1. i \in 1..k /\ i \in 1..(k + e.n) /\ i \in 1..(m + b.n) BY <1>2, <1>3
  <2> QED BY <1>4, <1>5, <1>6, <1>7, <1>8, <2>1
<1> QED BY <1>2, <1>3, <1>7, <1>8, <1>9

(* A step of an encoder that puts a run into its buffer.                   *)
LEMMA EncoderPuts ==
  ASSUME MoreInv, NEW r \in Calls, calls[r].pc \in {"chunk", "eat"}, prog = "rle",
         UNCHANGED <<prog, main, sum1>>, NEW moves \in BOOLEAN, NEW e,
         e = Put(Buffer(r), Run(calls[r].prev, calls[r].freq), moves),
         arr' = [arr EXCEPT ![r] = e.da],
         NEW d, calls' = [calls EXCEPT ![r] = d], d.pc # "ready"
  PROVE  Refines
<1> DEFINE c == calls[r]
           b == Buffer(r)
           x == Run(c.prev, c.freq)
<1>1. c \in Records /\ Coding(r, c, arr, Word) BY ActiveFacts DEF MoreInv
<1>2. b = BufOf(r, c, arr) BY DEF Buffer, BufOf
<1>3. b \in Bufs /\ c.freq >= 1 BY <1>1, <1>2 DEF Coding, Reading
<1>4. x \in Elem
  <2>1. c.prev \in Nat /\ c.freq \in Nat \ {0} BY <1>1, <1>3, RecordFacts
  <2>2. x \in RunElems BY <2>1, RunMade
  <2> QED BY <2>2, RunFacts
<1>5. b.da = arr[r] BY DEF Buffer
<1>6. b.da \in Das BY <1>3, BufFacts
<1>7. r \in Arrays /\ r \in Own(r, c, prog) BY SerialFacts DEF Own
<1>8. /\ arr \in [Arrays -> Das \union {None}] /\ \A y \in Arrays : arr'[y] # arr[y] => y = r
      /\ Shown = Shows(arr) /\ Shown' = Shows(arr')
  BY <1>7, OneArray
<1>9. (FreshInv /\ SpellInv)'
  <2>1. \A y \in Arrays : arr'[y] # arr[y] => y \in Own(r, calls[r], prog) BY <1>7, <1>8
  <2>2. calls[r].pc # "none" OBVIOUS
  <2> QED BY <2>1, <2>2, RecordKeeps
<1> HIDE DEF b, x
<1>10. /\ e.da \in Das /\ Len(Contents(b.da)) <= Len(Contents(e.da))
       /\ \A i \in 1..Len(Contents(b.da)) : Contents(e.da)[i] = Contents(b.da)[i]
  <2>1. e = Put(b, x, moves) BY DEF b, x
  <2> QED BY <1>3, <1>4, <2>1, PutShows
<1>11. Moves(Shows(arr), Shows(arr'))
  <2> DEFINE a == arr
             z == arr'
             g == e.da
  <2>1. /\ a \in [Arrays -> Das \union {None}] /\ g \in Das /\ z = [a EXCEPT ![r] = g]
        /\ a[r] \in Das
        /\ Len(Contents(a[r])) <= Len(Contents(g))
        /\ \A i \in 1..Len(Contents(a[r])) : Contents(g)[i] = Contents(a[r])[i]
    BY <1>5, <1>6, <1>8, <1>10
  <2> HIDE DEF a, z, g
  <2>2. Moves(Shows(a), Shows(z)) BY <1>7, <2>1, Grows
  <2> QED BY <2>2 DEF a, z
<1> QED BY <1>8, <1>9, <1>11 DEF Refines

(* A symbol other than the last one.                                       *)
LEMMA EatRefines ==
  ASSUME MoreInv, NEW r \in Calls, EatSymbol(r)
  PROVE  Refines
<1> DEFINE c == calls[r]
           curr == Element(c.at)[1]
           eaten == [c EXCEPT !.at = c.at + 1, !.left = c.left - 1,
                              !.pc = IF c.left = 1 THEN "chunk" ELSE "eat"]
<1>1. c.pc = "eat" /\ prog = "rle" /\ UNCHANGED <<prog, main, sum1>> BY DEF EatSymbol
<1>2. c \in Records BY DEF MoreInv, IInv, TypeInv
<1>3. CASE curr = c.prev
  <2> DEFINE d == [eaten EXCEPT !.freq = c.freq + 1]
  <2>1. arr' = arr /\ calls' = [calls EXCEPT ![r] = d] BY <1>3 DEF EatSymbol
  <2>2. d.pc # "ready" BY <1>2 DEF Records
  <2> HIDE DEF d
  <2> QED BY <1>1, <2>1, <2>2, PlainKeeps
<1>4. CASE curr # c.prev
  <2>1. PICK moves \in BOOLEAN :
          LET b == Put(Buffer(r), Run(c.prev, c.freq), moves)
          IN  /\ arr' = [arr EXCEPT ![r] = b.da]
              /\ calls' = [calls EXCEPT ![r] =
                    [eaten EXCEPT !.prev = curr, !.freq = 1,
                                  !.ptr = b.ptr, !.cap = b.cap, !.n = b.n]]
    BY <1>4 DEF EatSymbol
  <2> DEFINE e == Put(Buffer(r), Run(c.prev, c.freq), moves)
             d == [eaten EXCEPT !.prev = curr, !.freq = 1,
                                !.ptr = e.ptr, !.cap = e.cap, !.n = e.n]
  <2>2. arr' = [arr EXCEPT ![r] = e.da] /\ calls' = [calls EXCEPT ![r] = d] BY <2>1
  <2>3. e = Put(Buffer(r), Run(calls[r].prev, calls[r].freq), moves) OBVIOUS
  <2> HIDE DEF e, curr
  <2>4. d.pc # "ready" BY <1>2 DEF Records
  <2> HIDE DEF d
  <2> QED BY <1>1, <2>2, <2>3, <2>4, EncoderPuts
<1> QED BY <1>3, <1>4

(* The last run.                                                           *)
LEMMA LastRefines ==
  ASSUME MoreInv, NEW r \in Calls, EncodeLast(r)
  PROVE  Refines
<1> DEFINE c == calls[r]
<1>1. c.pc = "chunk" /\ c.len = 0 /\ prog = "rle" /\ UNCHANGED <<prog, main, sum1>>
  BY DEF EncodeLast
<1>2. PICK moves \in BOOLEAN :
        LET e == Put(Buffer(r), Run(calls[r].prev, calls[r].freq), moves)
        IN  /\ arr' = [arr EXCEPT ![r] = e.da]
            /\ calls' = [calls EXCEPT ![r].pc = "finish",
                                      ![r].ptr = e.ptr, ![r].cap = e.cap, ![r].n = e.n]
  BY DEF EncodeLast
<1> DEFINE e == Put(Buffer(r), Run(calls[r].prev, calls[r].freq), moves)
           d == [c EXCEPT !.pc = "finish", !.ptr = e.ptr, !.cap = e.cap, !.n = e.n]
<1>3. c \in Records /\ calls \in [Calls -> Records] BY DEF MoreInv, IInv, TypeInv
<1>4. arr' = [arr EXCEPT ![r] = e.da] /\ calls' = [calls EXCEPT ![r] = d] BY <1>2, <1>3
<1>5. e = Put(Buffer(r), Run(calls[r].prev, calls[r].freq), moves) OBVIOUS
<1> HIDE DEF e
<1>6. d.pc = "finish" BY <1>3 DEF Records
<1> HIDE DEF d
<1> QED BY <1>1, <1>4, <1>5, <1>6, EncoderPuts

(* rle_encode makes an array that nobody had.                              *)
LEMMA StartRefines ==
  ASSUME MoreInv, NEW r \in Calls, EncodeStart(r)
  PROVE  Refines
<1> DEFINE c == calls[r]
           b == AppendPrepare(DaInit(Grain, Grain), FALSE)
<1>1. /\ c.pc = "ready" /\ prog = "rle" /\ UNCHANGED <<prog, main, sum1>>
      /\ arr' = [arr EXCEPT ![r] = b.da]
  BY DEF EncodeStart
<1>2. calls \in [Calls -> Records] BY DEF MoreInv, IInv, TypeInv
<1> DEFINE d == [c EXCEPT !.pc = "chunk", !.prev = Element(c.idx)[1], !.freq = 1,
                          !.idx = c.idx + 1, !.len = c.len - 1,
                          !.ptr = b.ptr, !.cap = b.cap, !.n = b.n, !.ret = r]
<1>3. calls' = [calls EXCEPT ![r] = d] BY <1>2 DEF EncodeStart
<1>4. d.pc = "chunk" BY <1>2 DEF Records
<1> HIDE DEF d
<1>5. b \in Bufs /\ Written(b) = <<>> /\ b.n = 0
  <2> DEFINE da == DaInit(Grain, Grain)
  <2>1. da \in Das /\ Contents(da) = <<>> BY ConstantsAssumption, InitFacts
  <2> HIDE DEF da
  <2> DEFINE e == AppendPrepare(da, FALSE)
  <2>2. e \in Bufs /\ Written(e) = Contents(da) /\ e.n = 0 BY <2>1, PrepareFacts
  <2>3. b = e BY DEF da
  <2> HIDE DEF e, b
  <2> QED BY <2>1, <2>2, <2>3
<1> HIDE DEF b
<1>6. b.da \in Das /\ Contents(b.da) = <<>>
  <2>1. b.da \in Das /\ b.da.next_idx \in Nat BY <1>5, BufFacts
  <2>2. Written(b) = SubSeq(b.da.elems, 1, b.da.next_idx) BY <1>5, <2>1 DEF Written
  <2> QED BY <1>5, <2>1, <2>2 DEF Contents
<1>7. r \in Arrays /\ r \in Own(r, c, prog) BY <1>1, SerialFacts DEF Own
<1>8. arr[r] = None BY <1>1, OtherArrays DEF MoreInv, FreshInv
<1> DEFINE g == b.da
<1>9. arr' = [arr EXCEPT ![r] = g] BY <1>1
<1> HIDE DEF g
<1>10. /\ arr \in [Arrays -> Das \union {None}] /\ \A y \in Arrays : arr'[y] # arr[y] => y = r
       /\ Shown = Shows(arr) /\ Shown' = Shows(arr')
  BY <1>7, <1>9, OneArray
<1>11. (FreshInv /\ SpellInv)'
  <2>1. \A y \in Arrays : arr'[y] # arr[y] => y \in Own(r, calls[r], prog) BY <1>7, <1>10
  <2>2. calls[r].pc # "none" BY <1>1
  <2> QED BY <1>1, <1>3, <1>4, <2>1, <2>2, RecordKeeps
<1>12. g \in Das /\ Contents(g) = <<>> BY <1>6 DEF g
<1>13. Moves(Shows(arr), Shows(arr')) BY <1>7, <1>8, <1>9, <1>10, <1>12, Creates
<1> QED BY <1>10, <1>11, <1>13 DEF Refines

(* It returns what it wrote.                                               *)
LEMMA ReturnRefines ==
  ASSUME MoreInv, NEW r \in Calls, EncodeReturn(r)
  PROVE  Refines
<1> DEFINE c == calls[r]
           b == BufOf(r, c, arr)
           g == AppendFinalize(arr[r], c.n)
           d == [NoCall EXCEPT !.pc = "done", !.ret = r]
<1>1. c.pc = "finish" /\ UNCHANGED <<prog, main, sum1>> /\ calls' = [calls EXCEPT ![r] = d]
  BY DEF EncodeReturn
<1>2. r \in Arrays BY SerialFacts
<1>3. arr' = [arr EXCEPT ![r] = g] BY <1>2 DEF EncodeReturn, MoreInv, IInv, TypeInv
<1>4. c \in Records /\ prog = "rle" /\ Coding(r, c, arr, Word)
  BY <1>1, ActiveFacts, IsCoding DEF MoreInv
<1>5. b \in Bufs BY <1>1, <1>4 DEF Coding
<1>6. g = AppendFinalize(b.da, b.n) /\ b.da = arr[r] BY DEF BufOf
<1>7. d.pc = "done" BY NoCallFacts DEF Records
<1>8. r \in Own(r, c, prog) BY <1>1, <1>2, <1>4 DEF Own
<1> HIDE DEF b, g, d
<1>9. /\ g \in Das /\ b.da \in Das /\ Len(Contents(b.da)) <= Len(Contents(g))
      /\ \A i \in 1..Len(Contents(b.da)) : Contents(g)[i] = Contents(b.da)[i]
  <2>1. g \in Das /\ Contents(g) = Written(b) BY <1>5, <1>6, FinalizeFacts
  <2>2. b.da \in Das /\ b.da.next_idx \in Nat /\ b.n \in Nat BY <1>5, BufFacts
  <2>3. /\ Len(Written(b)) = b.da.next_idx + b.n
        /\ \A i \in 1..(b.da.next_idx + b.n) : Written(b)[i] = b.da.elems[i]
    BY <1>5, WrittenFacts
  <2>4. /\ Len(Contents(b.da)) = b.da.next_idx
        /\ \A i \in 1..b.da.next_idx : Contents(b.da)[i] = b.da.elems[i]
    BY <2>2, ContentsFacts
  <2> QED BY <2>1, <2>2, <2>3, <2>4
<1>10. /\ arr \in [Arrays -> Das \union {None}] /\ \A y \in Arrays : arr'[y] # arr[y] => y = r
       /\ Shown = Shows(arr) /\ Shown' = Shows(arr')
  BY <1>2, <1>3, OneArray
<1>11. (FreshInv /\ SpellInv)'
  <2>1. \A y \in Arrays : arr'[y] # arr[y] => y \in Own(r, calls[r], prog) BY <1>8, <1>10
  <2>2. calls[r].pc # "none" BY <1>1
  <2> QED BY <1>1, <1>7, <2>1, <2>2, RecordKeeps
<1>12. Moves(Shows(arr), Shows(arr'))
  <2> DEFINE a == arr
             z == arr'
  <2>1. /\ a \in [Arrays -> Das \union {None}] /\ z = [a EXCEPT ![r] = g] /\ a[r] \in Das
        /\ Len(Contents(a[r])) <= Len(Contents(g))
        /\ \A i \in 1..Len(Contents(a[r])) : Contents(g)[i] = Contents(a[r])[i]
    BY <1>3, <1>6, <1>9, <1>10
  <2> HIDE DEF a, z
  <2>2. Moves(Shows(a), Shows(z)) BY <1>2, <1>9, <2>1, Grows
  <2> QED BY <2>2 DEF a, z
<1> QED BY <1>10, <1>11, <1>12 DEF Refines

-----------------------------------------------------------------------------
(* Merges and the arrays                                                   *)

(* rle_merge takes the last run from the first array, ...                  *)
LEMMA PopRefines ==
  ASSUME MoreInv, NEW r \in Calls, MergePop(r)
  PROVE  Refines
<1> DEFINE c == calls[r]
           x == c.ret
           g == DaPop(arr[x], 1)
           d == [c EXCEPT !.pc = "concat"]
           f == Contents(arr[x])
<1>1. c.pc = "pop" /\ UNCHANGED <<prog, main, sum1>> /\ calls' = [calls EXCEPT ![r] = d]
  BY DEF MergePop, MoreInv, IInv, TypeInv
<1>2. c \in Records /\ prog = "rle" /\ Coding(r, c, arr, Word)
  BY <1>1, ActiveFacts, IsCoding DEF MoreInv
<1>3. x \in Arrays BY <1>2, RecordFacts
<1>4. arr' = [arr EXCEPT ![x] = g] BY <1>3 DEF MergePop, MoreInv, IInv, TypeInv
<1>5. arr[x] \in Das /\ f # <<>> BY <1>1, <1>2 DEF Coding, Merging
<1>6. d.pc = "concat" BY <1>2 DEF Records
<1>7. x \in Own(r, c, prog) BY <1>1, <1>2, <1>3 DEF Own
<1> HIDE DEF d, g, x
<1>8. g \in Das /\ Contents(g) = SubSeq(f, 1, Len(f) - 1)
  <2> DEFINE a == arr[x]
  <2>1. a \in Das /\ g = DaPop(a, 1) BY <1>5 DEF g
  <2> HIDE DEF a
  <2>2. Contents(a) \in Seq(Elem) /\ Len(Contents(a)) = a.next_idx BY <2>1, ContentsFacts
  <2>3. Contents(a) # <<>> BY <1>5 DEF a
  <2>4. Len(Contents(a)) \in Nat \ {0} BY <2>2, <2>3, Ends
  <2>5. a.next_idx >= 1 BY <2>2, <2>4
  <2>6. DaPop(a, 1) \in Das /\ Contents(DaPop(a, 1)) = SubSeq(Contents(a), 1, Len(Contents(a)) - 1)
    BY <2>1, <2>5, PopFacts
  <2> QED BY <2>1, <2>6 DEF a
<1>9. /\ arr \in [Arrays -> Das \union {None}] /\ \A y \in Arrays : arr'[y] # arr[y] => y = x
      /\ Shown = Shows(arr) /\ Shown' = Shows(arr')
  BY <1>3, <1>4, OneArray
<1>10. (FreshInv /\ SpellInv)'
  <2>1. \A y \in Arrays : arr'[y] # arr[y] => y \in Own(r, calls[r], prog) BY <1>7, <1>9
  <2>2. calls[r].pc # "none" BY <1>1
  <2> QED BY <1>1, <1>6, <2>1, <2>2, RecordKeeps
<1>11. Moves(Shows(arr), Shows(arr')) BY <1>3, <1>4, <1>5, <1>8, <1>9, Pops
<1> QED BY <1>9, <1>10, <1>11 DEF Refines

(* ... appends the second, ...                                             *)
LEMMA ConcatRefines ==
  ASSUME MoreInv, NEW r \in Calls, MergeConcat(r)
  PROVE  Refines
<1> DEFINE c == calls[r]
           x == c.ret
           y == c.other
           d == [NoCall EXCEPT !.pc = "done", !.ret = c.ret]
<1>1. c.pc = "concat" /\ UNCHANGED <<prog, main, sum1>> /\ calls' = [calls EXCEPT ![r] = d]
  BY DEF MergeConcat
<1>2. c \in Records /\ prog = "rle" /\ Coding(r, c, arr, Word)
  BY <1>1, ActiveFacts, IsCoding DEF MoreInv
<1>3. x \in Arrays /\ y \in Arrays BY <1>2, RecordFacts
<1>4. PICK moves \in BOOLEAN :
        arr' = [arr EXCEPT ![x] = DaConcat(arr[x], arr[y], moves), ![y] = None]
  BY <1>3 DEF MergeConcat, MoreInv, IInv, TypeInv
<1> DEFINE g == DaConcat(arr[x], arr[y], moves)
<1>5. arr[x] \in Das /\ arr[y] \in Das /\ x # y BY <1>1, <1>2 DEF Coding, Merging
<1>6. d.pc = "done" BY NoCallFacts DEF Records
<1>7. x \in Own(r, c, prog) /\ y \in Own(r, c, prog) BY <1>1, <1>2, <1>3 DEF Own
<1>8. arr' = [arr EXCEPT ![x] = g, ![y] = None] BY <1>4
<1>9. g \in Das /\ Contents(g) = Contents(arr[x]) \o Contents(arr[y])
  <2> DEFINE a == arr[x]
             o == arr[y]
  <2>1. a \in Das /\ o \in Das BY <1>5
  <2> HIDE DEF a, o
  <2>2. /\ DaConcat(a, o, moves) \in Das
        /\ Contents(DaConcat(a, o, moves)) = Contents(a) \o Contents(o)
    BY <2>1, ConcatFacts
  <2> QED BY <2>2 DEF a, o
<1>10. arr \in [Arrays -> Das \union {None}] BY DEF MoreInv, IInv, TypeInv
<1> HIDE DEF d, g, x, y
<1>11. \A z \in Arrays : arr'[z] # arr[z] => z \in {x, y} BY <1>8, <1>10
<1>12. (FreshInv /\ SpellInv)'
  <2>1. \A z \in Arrays : arr'[z] # arr[z] => z \in Own(r, calls[r], prog) BY <1>7, <1>11
  <2>2. calls[r].pc # "none" BY <1>1
  <2> QED BY <1>1, <1>6, <2>1, <2>2, RecordKeeps
<1>13. Moves(Shows(arr), Shows(arr')) BY <1>3, <1>5, <1>8, <1>9, <1>10, Concats
<1>14. Shown = Shows(arr) /\ Shown' = Shows(arr') BY DEF Shown, Shows
<1> QED BY <1>12, <1>13, <1>14 DEF Refines

(* The run that rle_merge writes is a run of the slice.                    *)
LEMMA MergedRun ==
  ASSUME MoreInv, NEW r \in Calls, Synced(r), prog = "rle",
         NEW f \in Seq(RunElems), f # <<>>, NEW s \in Seq(RunElems), s # <<>>, NEW k \in Nat,
         RunsOf(Part(r, Word)) = SubSeq(f, 1, Len(f) - 1) \o AddFirst(s, k)
  PROVE  Run(Symbol(s[1]), Freq(s[1]) + k) \in RunSet
<1> DEFINE w == Word
           p == Part(r, w)
           v == Run(Symbol(s[1]), Freq(s[1]) + k)
           h == SubSeq(f, 1, Len(f) - 1)
           t == AddFirst(s, k)
<1>1. r \in Ranges /\ r[2] >= 2 /\ calls[r].pc = "wait" /\ r \in Calls BY SyncedFacts DEF MoreInv
<1>2. /\ main \in Working /\ Going(r, calls[r], w) /\ w \in Seq(One) /\ Len(w) \in 1..MaxElems
  BY <1>1, ActiveFacts, WordFacts DEF MoreInv
<1>3. w \in Seq(Letters) BY <1>2 DEF MoreInv, SpellInv
<1>4. Size(r, w) >= 1 /\ End(r, w) <= Len(w) BY <1>2 DEF Going
<1>5. /\ Start(r) \in Nat /\ Start(r) < End(r, w) /\ End(r, w) \in Nat /\ Len(w) \in Nat
  BY <1>2, <1>4, StartFacts
<1>6. p \in Seq(Letters) /\ Len(p) = End(r, w) - Start(r)
  <2> DEFINE a == Start(r)
             e == End(r, w)
  <2>1. a \in Nat /\ e \in Nat /\ a <= e /\ e <= Len(w) BY <1>4, <1>5
  <2>2. p = SubSeq(w, a + 1, e) BY DEF Part, Upto
  <2> HIDE DEF a, e, w, p
  <2>3. SubSeq(w, a + 1, e) \in Seq(Letters) /\ Len(SubSeq(w, a + 1, e)) = e - a
    BY <1>3, <2>1, SliceFacts
  <2> QED BY <2>2, <2>3 DEF a, e
<1> DEFINE n == Len(p)
<1>7. n \in Nat /\ n <= MaxElems /\ MaxElems \in Nat BY <1>2, <1>4, <1>5, <1>6, ConstantsAssumption
<1> HIDE DEF p
<1>8. RunsOf(p) \in Seq(ShortRuns(n)) BY <1>6, RunsAreShort
<1>9. h \in Seq(RunElems) /\ Len(h) = Len(f) - 1 /\ Len(h) \in Nat BY Front, Ends
<1>10. t \in Seq(RunElems) /\ t[1] = v /\ 1 \in 1..Len(t) /\ Len(t) \in Nat
  <2>1. t \in Seq(RunElems) /\ t # <<>> BY AddFirstFacts
  <2>2. 1 \in DOMAIN s BY Ends
  <2>3. t[1] = v BY <2>2 DEF AddFirst
  <2> QED BY <2>1, <2>3, Ends
<1>11. RunsOf(p) = h \o t BY DEF p
<1> HIDE DEF h, t, v, n
<1>12. v \in ShortRuns(n)
  <2> DEFINE i == Len(h) + 1
             u == h \o t
  <2>1. u[i] = t[1] /\ i \in 1..Len(u)
    <3>1. /\ Len(u) = Len(h) + Len(t)
          /\ \A j \in 1..(Len(h) + Len(t)) : u[j] = IF j <= Len(h) THEN h[j] ELSE t[j - Len(h)]
      BY <1>9, <1>10, ConcatProperties
    <3>2. i \in 1..(Len(h) + Len(t)) /\ ~ (i <= Len(h)) /\ i - Len(h) = 1 BY <1>9, <1>10
    <3> HIDE DEF i, u
    <3> QED BY <3>1, <3>2
  <2>2. u \in Seq(ShortRuns(n)) BY <1>8, <1>11
  <2> HIDE DEF i, u
  <2>3. u[i] \in ShortRuns(n) BY <2>1, <2>2, ElementOfSeq
  <2> QED BY <1>10, <2>1, <2>3
<1>13. ShortRuns(n) \subseteq RunSet
  <2> SUFFICES ASSUME NEW z \in ShortRuns(n) PROVE z \in RunSet OBVIOUS
  <2>1. z = Run(Symbol(z), Freq(z)) /\ Symbol(z) \in 0..(Symbols - 1) /\ Freq(z) \in 1..n
    BY <1>7, LetterFacts DEF n
  <2>2. Freq(z) \in 1..MaxElems BY <1>7, <2>1 DEF n
  <2> QED BY <2>1, <2>2 DEF RunSet
<1> QED BY <1>12, <1>13 DEF v

(* ... to whose first run it has added the one it takes, if they have the  *)
(* same symbol.                                                            *)
LEMMA AddRefines ==
  ASSUME MoreInv, NEW r \in Calls, MergeAdd(r)
  PROVE  Refines
<1> DEFINE h == Half1(r)
           g == Half2(r)
           a == calls[h].ret
           o == calls[g].ret
           f == Contents(arr[a])
           s == Contents(arr[o])
           lst == DaGet(arr[a], arr[a].next_idx - 1)
           fst == DaGet(arr[o], 0)
           v == Run(Symbol(fst), Freq(fst) + Freq(lst))
           da == Store(arr[o], PointerTo(arr[o], 0), v)
           rec(pc) == [calls[r] EXCEPT !.ret = a, !.other = o, !.pc = pc]
           joined == [calls EXCEPT ![h] = NoCall, ![g] = NoCall, ![r].ret = a, ![r].other = o]
<1>1. Synced(r) /\ prog = "rle" /\ UNCHANGED <<prog, sum1>> /\ IInv BY DEF MergeAdd, MoreInv
<1>2. /\ a \in Arrays /\ arr[a] \in Das /\ f \in Seq(RunElems) /\ f # <<>>
      /\ o \in Arrays /\ arr[o] \in Das /\ s \in Seq(RunElems) /\ s # <<>>
      /\ o \in Own(g, calls[g], prog)
      /\ InBounds(arr[a], 0) /\ InBounds(arr[o], 0) /\ lst = f[Len(f)] /\ fst = s[1]
      /\ RunsOf(Part(r, Word)) = Joined(f, s)
  BY <1>1, MergeFacts
<1>3. arr \in [Arrays -> Das \union {None}] /\ calls \in [Calls -> Records]
  BY <1>1 DEF IInv, TypeInv
<1>4. /\ h \in Calls /\ g \in Calls /\ h # g /\ h # r /\ g # r /\ calls[r].pc = "wait"
      /\ calls[g].pc = "done" /\ r \in Calls
  BY <1>1, SyncedFacts, RangesFacts
<1>5. ASSUME NEW d, calls' = [calls EXCEPT ![h] = NoCall, ![g] = NoCall, ![r] = d],
             d.pc # "ready", main' = main, \A x \in Arrays : arr'[x] # arr[x] => x = o
      PROVE  (FreshInv /\ SpellInv)'
  <2> HIDE DEF h, g, o
  <2>1. /\ calls'[h] = NoCall /\ calls'[g] = NoCall /\ calls'[r] = d
        /\ \A q \in Calls : q \notin {h, g, r} => calls'[q] = calls[q]
    BY <1>3, <1>4, <1>5
  <2>2. NoCall.pc # "ready" BY NoCallFacts
  <2>3. calls'[g].pc # "ready" /\ \A q \in Calls : calls'[q].pc = "ready" => calls[q].pc = "ready"
    BY <1>5, <2>1, <2>2
  <2>4. \A x \in Arrays : arr'[x] # arr[x] => x \in Own(g, calls[g], prog) BY <1>2, <1>5
  <2>5. calls[g].pc # "none" BY <1>4
  <2> QED BY <1>1, <1>4, <1>5, <2>3, <2>4, <2>5, CallKeeps
<1>6. CASE Symbol(lst) = Symbol(fst)
  <2> DEFINE d == rec("pop")
  <2>1. /\ main' = main /\ arr' = [arr EXCEPT ![o] = da]
        /\ calls' = [joined EXCEPT ![r].pc = "pop"]
    BY <1>2, <1>3, <1>6 DEF MergeAdd
  <2>2. calls' = [calls EXCEPT ![h] = NoCall, ![g] = NoCall, ![r] = d] /\ d.pc = "pop"
    BY <1>1, <2>1, MergeRecord
  <2> HIDE DEF d
  <2>3. \A x \in Arrays : arr'[x] # arr[x] => x = o BY <1>3, <2>1
  <2>4. (FreshInv /\ SpellInv)' BY <1>5, <2>1, <2>2, <2>3
  <2> DEFINE k == Freq(lst)
  <2>5. k \in Nat
    <3>1. f[Len(f)] \in RunElems BY <1>2, Ends
    <3> QED BY <1>2, <3>1, RunFacts
  <2>6. v = Run(Symbol(s[1]), Freq(s[1]) + k) BY <1>2
  <2>7. Joined(f, s) = SubSeq(f, 1, Len(f) - 1) \o AddFirst(s, k) BY <1>2, <1>6 DEF Joined
  <2>8. v \in RunSet
    <3> HIDE DEF f, s, k, v
    <3>1. RunsOf(Part(r, Word)) = SubSeq(f, 1, Len(f) - 1) \o AddFirst(s, k) BY <1>2, <2>7
    <3> QED BY <1>1, <1>2, <2>5, <2>6, <3>1, MergedRun
  <2>9. da \in Das /\ Contents(da) = [s EXCEPT ![1] = v]
    <3> DEFINE b == arr[o]
               e == Contents(b)
    <3>1. b \in Das /\ e \in Seq(RunElems) /\ e # <<>> BY <1>2
    <3>2. da = Store(b, PointerTo(b, 0), Run(Symbol(e[1]), Freq(e[1]) + k)) BY <2>6
    <3>3. v = Run(Symbol(e[1]), Freq(e[1]) + k) BY <2>6
    <3> HIDE DEF b, k, da, v
    <3>4. LET m == Store(b, PointerTo(b, 0), Run(Symbol(e[1]), Freq(e[1]) + k))
          IN  m \in Das /\ Contents(m) = AddFirst(e, k)
      BY <2>5, <3>1, StoreFirst
    <3>5. AddFirst(e, k) = [e EXCEPT ![1] = v] BY <3>3 DEF AddFirst
    <3> QED BY <3>2, <3>4, <3>5 DEF b
  <2> HIDE DEF da, v, a, o, k
  <2>10. Moves(Shows(arr), Shows(arr'))
    <3> DEFINE y == arr
               z == arr'
    <3>1. /\ y \in [Arrays -> Das \union {None}] /\ z = [y EXCEPT ![o] = da] /\ y[o] \in Das
          /\ Contents(y[o]) # <<>> /\ Contents(da) = [Contents(y[o]) EXCEPT ![1] = v]
      BY <1>2, <1>3, <2>1, <2>9
    <3> HIDE DEF y, z
    <3>2. Moves(Shows(y), Shows(z)) BY <1>2, <2>8, <2>9, <3>1, Writes
    <3> QED BY <3>2 DEF y, z
  <2>11. Shown = Shows(arr) /\ Shown' = Shows(arr') BY DEF Shown, Shows
  <2> QED BY <2>4, <2>10, <2>11 DEF Refines
<1>7. CASE Symbol(lst) # Symbol(fst)
  <2> DEFINE d == rec("concat")
  <2>1. main' = main /\ arr' = arr /\ calls' = [joined EXCEPT ![r].pc = "concat"]
    BY <1>2, <1>7 DEF MergeAdd
  <2>2. calls' = [calls EXCEPT ![h] = NoCall, ![g] = NoCall, ![r] = d] /\ d.pc = "concat"
    BY <1>1, <2>1, MergeRecord
  <2> HIDE DEF d
  <2>3. (FreshInv /\ SpellInv)' BY <1>5, <2>1, <2>2
  <2> QED BY <2>1, <2>3, ArraysStay
<1> QED BY <1>6, <1>7

(* sum_rec adds the sums of its halves.                                    *)
LEMMA JoinRefines ==
  ASSUME MoreInv, NEW r \in Calls, SumJoin(r)
  PROVE  Refines
<1> DEFINE h == Half1(r)
           g == Half2(r)
           d == [NoCall EXCEPT !.pc = "done", !.sum = calls[h].sum + calls[g].sum]
<1>1. /\ Synced(r) /\ IInv /\ UNCHANGED <<prog, main, arr, sum1>>
      /\ calls' = [calls EXCEPT ![h] = NoCall, ![g] = NoCall, ![r] = d]
  BY DEF SumJoin, MoreInv
<1>2. /\ h \in Calls /\ g \in Calls /\ h # g /\ h # r /\ g # r /\ calls[r].pc = "wait"
  BY <1>1, SyncedFacts, RangesFacts
<1>3. calls \in [Calls -> Records] BY <1>1 DEF IInv, TypeInv
<1>4. d.pc = "done" /\ NoCall.pc = "none" BY NoCallFacts DEF Records
<1> HIDE DEF d, h, g
<1>5. /\ calls'[r] = d /\ calls'[h] = NoCall /\ calls'[g] = NoCall
      /\ \A q \in Calls : q \notin {h, g, r} => calls'[q] = calls[q]
  BY <1>1, <1>2, <1>3
<1>6. calls'[r].pc # "ready" /\ \A q \in Calls : calls'[q].pc = "ready" => calls[q].pc = "ready"
  BY <1>4, <1>5
<1>7. \A x \in Arrays : arr'[x] # arr[x] => x \in Own(r, calls[r], prog) BY <1>1
<1>8. calls[r].pc # "none" BY <1>2
<1>9. (FreshInv /\ SpellInv)' BY <1>1, <1>6, <1>7, <1>8, CallKeeps
<1> QED BY <1>1, <1>9, ArraysStay

(* The halves of a slice nobody has worked on are such slices.             *)
LEMMA ForkRefines ==
  ASSUME MoreInv, NEW r \in Calls, Fork(r)
  PROVE  Refines
<1> DEFINE c == calls[r]
           w == Word
           h == Half1(r)
           g == Half2(r)
           d == [c EXCEPT !.pc = "wait"]
<1>1. c.pc = "ready" /\ UNCHANGED <<prog, main, arr, sum1>> /\ ~ Leaf(r) /\ IInv
  BY DEF Fork, MoreInv
<1>2. c \in Records /\ Going(r, c, w) /\ main \in Working /\ main \notin Early BY <1>1, ActiveFacts
<1>3. r \in Ranges /\ c.len > Limit
  <2>1. c.len \in Nat /\ Limit \in Nat BY <1>2, RecordFacts, ConstantsAssumption
  <2>2. r # Serial /\ ~ (c.len <= Limit) BY <1>1 DEF Leaf
  <2>3. r \in Ranges BY <2>2, SerialFacts
  <2> QED BY <2>1, <2>2, <2>3
<1>4. r[2] \in Nat /\ Size(r, w) = r[2] BY <1>3, RangesFacts DEF Size
<1>5. c.len = r[2] BY <1>1, <1>2, <1>4 DEF Going
<1>6. r[2] >= 2 BY <1>3, <1>4, <1>5, ConstantsAssumption
<1>7. h \in Ranges /\ g \in Ranges /\ h # g /\ h # r /\ g # r BY <1>3, <1>6, HalvesFacts
<1>8. Within(h) \subseteq Within(r) /\ Within(g) \subseteq Within(r)
  BY <1>3, <1>6, HalvesWithin
<1>9. calls' = [[[calls EXCEPT ![r] = d] EXCEPT ![h] = Called(h)] EXCEPT ![g] = Called(g)]
  BY <1>1 DEF Fork, IInv, TypeInv
<1>10. d.pc = "wait" /\ calls \in [Calls -> Records] /\ h \in Calls /\ g \in Calls
  BY <1>1, <1>2, <1>7, RangesFacts DEF Records, IInv, TypeInv
<1> HIDE DEF d, h, g, w
<1>11. calls'[r] = d /\ \A q \in Calls : q \notin {r, h, g} => calls'[q] = calls[q]
  BY <1>7, <1>9, <1>10
<1>12. FreshInv'
  <2>1. ASSUME NEW q \in Calls, calls'[q].pc = "ready", NEW x \in Within(q) PROVE arr'[x] = None
    <3>1. q # r BY <1>10, <1>11, <2>1
    <3>2. CASE q \in {h, g}
      <4>1. x \in Within(r) BY <1>8, <2>1, <3>2
      <4> QED BY <1>1, <4>1 DEF MoreInv, FreshInv
    <3>3. CASE q \notin {h, g}
      <4>1. calls[q].pc = "ready" BY <1>11, <2>1, <3>1, <3>3
      <4> QED BY <1>1, <2>1, <4>1 DEF MoreInv, FreshInv
    <3> QED BY <3>2, <3>3
  <2> QED BY <1>1, <2>1 DEF MoreInv, FreshInv
<1>13. SpellInv'
  <2>1. Word' = Word BY <1>1 DEF Word, Worked
  <2> QED BY <1>1, <2>1 DEF MoreInv, SpellInv
<1> QED BY <1>1, <1>12, <1>13, ArraysStay

-----------------------------------------------------------------------------
(* Steps of main and the arrays                                            *)

(* Before the serial call, no call has made an array.                      *)
LEMMA EarlyArrays ==
  ASSUME MoreInv, main \in Early, UNCHANGED <<prog, calls>>, NEW a \in {Given, Spare, Syms},
         NEW da \in Das, arr' = [arr EXCEPT ![a] = da]
  PROVE  /\ IInv /\ a \in Arrays /\ arr \in [Arrays -> Das \union {None}]
         /\ Shown = Shows(arr) /\ Shown' = Shows(arr')
         /\ arr'[a] = da /\ \A x \in {Given, Spare, Syms} : x # a => arr'[x] = arr[x]
         /\ Given # Syms /\ Given # Spare /\ Spare # Syms
         /\ \A r \in Calls : calls'[r].pc # "ready" /\ arr'[r] = None
         /\ \A x \in Ranges : x \in Calls
<1>1. IInv BY DEF MoreInv
<1>2. a \in Arrays /\ a \notin Calls BY SerialFacts, OtherArrays
<1>3. arr \in [Arrays -> Das \union {None}] BY <1>1 DEF IInv, TypeInv
<1>4. /\ arr'[a] = da /\ \A x \in {Given, Spare, Syms} : x # a => arr'[x] = arr[x]
      /\ Given # Syms /\ Given # Spare
  BY <1>1, MainArray
<1>5. ASSUME NEW r \in Calls PROVE calls'[r].pc # "ready" /\ arr'[r] = None
  <2>1. calls[r].pc = "none" BY <1>1 DEF IInv, MainInv
  <2>2. arr[r] = None
    <3>1. r = Serial \/ r \in Ranges BY SerialFacts
    <3> QED BY <3>1 DEF MoreInv, FreshInv
  <2>3. r \in Arrays /\ r # a BY <1>2, SerialFacts
  <2>4. calls' = calls OBVIOUS
  <2> QED BY <1>3, <2>1, <2>2, <2>3, <2>4
<1>6. Shown = Shows(arr) /\ Shown' = Shows(arr') BY DEF Shown, Shows
<1> QED BY <1>1, <1>2, <1>3, <1>4, <1>5, <1>6, OtherArrays, RangesFacts

(* The three arrays that main creates.                                     *)
LEMMA GivenRefines ==
  ASSUME MoreInv, CreateGiven
  PROVE  Refines
<1> DEFINE da == DaInit(Grain, Grain)
<1>1. /\ main = "create" /\ arr' = [arr EXCEPT ![Given] = da] /\ UNCHANGED <<prog, sum1, calls>>
      /\ main' = IF prog = "rle" THEN "spare" ELSE "mkrand"
  BY DEF CreateGiven, CreateArray
<1>2. da \in Das /\ Contents(da) = <<>> BY ConstantsAssumption, EmptyArray
<1>3. main \in Early BY <1>1 DEF Early
<1>4. arr[Given] = None BY <1>1 DEF MoreInv, FreshInv
<1> HIDE DEF da
<1>5. /\ Given \in Arrays /\ arr \in [Arrays -> Das \union {None}]
      /\ Shown = Shows(arr) /\ Shown' = Shows(arr')
      /\ \A x \in {Given, Spare, Syms} : x # Given => arr'[x] = arr[x]
      /\ Given # Syms /\ Given # Spare
      /\ \A r \in Calls : calls'[r].pc # "ready" /\ arr'[r] = None
      /\ \A x \in Ranges : x \in Calls
  BY <1>1, <1>2, <1>3, EarlyArrays
<1>6. FreshInv' BY <1>1, <1>5, SerialFacts DEF MoreInv, FreshInv
<1>7. SpellInv' BY <1>1 DEF SpellInv, Working
<1>8. Moves(Shows(arr), Shows(arr')) BY <1>1, <1>2, <1>4, <1>5, Creates
<1> QED BY <1>5, <1>6, <1>7, <1>8 DEF Refines

LEMMA SpareRefines ==
  ASSUME MoreInv, CreateSpare
  PROVE  Refines
<1> DEFINE da == DaInit(Grain, Grain)
<1>1. /\ main = "spare" /\ arr' = [arr EXCEPT ![Spare] = da] /\ UNCHANGED <<prog, sum1, calls>>
      /\ main' = "mkrand"
  BY DEF CreateSpare, CreateArray
<1>2. da \in Das /\ Contents(da) = <<>> BY ConstantsAssumption, EmptyArray
<1>3. main \in Early BY <1>1 DEF Early
<1>4. arr[Spare] = None BY <1>1 DEF MoreInv, FreshInv
<1> HIDE DEF da
<1>5. /\ Spare \in Arrays /\ arr \in [Arrays -> Das \union {None}]
      /\ Shown = Shows(arr) /\ Shown' = Shows(arr')
      /\ \A x \in {Given, Spare, Syms} : x # Spare => arr'[x] = arr[x]
      /\ Given # Syms /\ Given # Spare /\ Spare # Syms
      /\ \A r \in Calls : calls'[r].pc # "ready" /\ arr'[r] = None
      /\ \A x \in Ranges : x \in Calls
  BY <1>1, <1>2, <1>3, EarlyArrays
<1>6. FreshInv' BY <1>1, <1>5, SerialFacts DEF MoreInv, FreshInv
<1>7. SpellInv' BY <1>1 DEF SpellInv, Working
<1>8. Moves(Shows(arr), Shows(arr')) BY <1>1, <1>2, <1>4, <1>5, Creates
<1> QED BY <1>5, <1>6, <1>7, <1>8 DEF Refines

LEMMA SymsRefines ==
  ASSUME MoreInv, CreateSyms
  PROVE  Refines
<1> DEFINE da == DaInit(SymsGrain, SymsNr)
<1>1. /\ main = "syms" /\ arr' = [arr EXCEPT ![Syms] = da] /\ UNCHANGED <<prog, sum1, calls>>
      /\ main' = "decode"
  BY DEF CreateSyms, CreateArray
<1>2. SymsNr \in Nat BY <1>1 DEF SymsNr, MoreInv, IInv, MainInv, GivenOK
<1>3. da \in Das /\ Contents(da) = <<>>
  <2> DEFINE n == SymsNr
  <2>1. n \in Nat BY <1>2
  <2> HIDE DEF n
  <2>2. DaInit(SymsGrain, n) \in Das /\ Contents(DaInit(SymsGrain, n)) = <<>> BY <2>1, EmptyArray
  <2> QED BY <2>2 DEF n
<1>4. main \in Early BY <1>1 DEF Early
<1>5. arr[Syms] = None BY <1>1 DEF MoreInv, FreshInv
<1> HIDE DEF da
<1>6. /\ Syms \in Arrays /\ arr \in [Arrays -> Das \union {None}]
      /\ Shown = Shows(arr) /\ Shown' = Shows(arr')
      /\ \A x \in {Given, Spare, Syms} : x # Syms => arr'[x] = arr[x]
      /\ Given # Syms /\ Given # Spare /\ Spare # Syms
      /\ \A r \in Calls : calls'[r].pc # "ready" /\ arr'[r] = None
      /\ \A x \in Ranges : x \in Calls
  BY <1>1, <1>3, <1>4, EarlyArrays
<1>7. FreshInv' BY <1>1, <1>6, SerialFacts DEF MoreInv, FreshInv
<1>8. SpellInv'
  <2>1. arr'[Given] = arr[Given] BY <1>6
  <2>2. Contents(arr'[Given]) = Contents(arr[Given]) BY <2>1
  <2> QED BY <1>1, <2>2 DEF MoreInv, SpellInv, Working
<1>9. Moves(Shows(arr), Shows(arr')) BY <1>1, <1>3, <1>5, <1>6, Creates
<1> QED BY <1>6, <1>7, <1>8, <1>9 DEF Refines

(* rle_mkrand and xarr_int_mkrand fill the array, ...                      *)
LEMMA RandRefines ==
  ASSUME MoreInv, NEW vs \in IF prog = "rle" THEN RandomRuns ELSE RandomInts, NEW moves \in BOOLEAN,
         MkRand(vs, moves)
  PROVE  Refines
<1> DEFINE da == FillWith(arr[Given], vs, moves)
<1>1. /\ main = "mkrand" /\ UNCHANGED <<prog, calls>>
      /\ main' = (IF prog = "rle" THEN "syms" ELSE "serial")
  BY DEF MkRand
<1>2. arr' = [arr EXCEPT ![Given] = da] BY SerialFacts DEF MkRand, MoreInv, IInv, TypeInv
<1>3. /\ main \in Early /\ arr[Given] \in Das /\ Contents(arr[Given]) = <<>>
      /\ prog \in {"rle", "sum"}
  BY <1>1 DEF Early, MoreInv, IInv, MainInv, TypeInv
<1>4. vs \in Seq(Elem)
  <2>1. CASE prog = "rle" BY <2>1, RandomRunsFacts, RunSeqs
  <2>2. CASE prog = "sum"
    <3>1. vs \in Seq(One) BY <2>2, RandomIntsFacts
    <3>2. One \subseteq Elem BY DEF Elem
    <3> QED BY <3>1, <3>2, SeqMonotonic
  <2> QED BY <1>3, <2>1, <2>2
<1>5. da \in Das /\ Contents(da) = vs
  <2> DEFINE b == arr[Given]
  <2>1. b \in Das /\ Contents(b) = <<>> BY <1>3
  <2> HIDE DEF b
  <2>2. FillWith(b, vs, moves) \in Das /\ Contents(FillWith(b, vs, moves)) = Contents(b) \o vs
    BY <1>4, <2>1, FillFacts
  <2>3. Contents(b) \o vs = vs BY <1>4, <2>1, ConcatEmptySeq
  <2> QED BY <2>2, <2>3 DEF b
<1> HIDE DEF da
<1>6. /\ Given \in Arrays /\ arr \in [Arrays -> Das \union {None}]
      /\ Shown = Shows(arr) /\ Shown' = Shows(arr') /\ arr'[Given] = da
      /\ \A x \in {Given, Spare, Syms} : x # Given => arr'[x] = arr[x]
      /\ Given # Syms /\ Given # Spare /\ Spare # Syms
      /\ \A r \in Calls : calls'[r].pc # "ready" /\ arr'[r] = None
      /\ \A x \in Ranges : x \in Calls
  BY <1>1, <1>2, <1>3, <1>5, EarlyArrays
<1>7. FreshInv' BY <1>1, <1>3, <1>6, SerialFacts DEF MoreInv, FreshInv
<1>8. SpellInv'
  <2>1. CASE prog = "rle"
    <3>1. vs \in Seq(LetterRuns) BY <2>1, DrawnRuns
    <3>2. Contents(arr'[Given]) = vs BY <1>5, <1>6
    <3> QED BY <1>1, <2>1, <3>1, <3>2 DEF SpellInv, Working
  <2>2. CASE prog = "sum" BY <1>1, <2>2 DEF SpellInv
  <2> QED BY <1>3, <2>1, <2>2
<1>9. /\ Len(Contents(arr[Given])) <= Len(Contents(da))
      /\ \A i \in 1..Len(Contents(arr[Given])) : Contents(da)[i] = Contents(arr[Given])[i]
  <2>1. Len(Contents(arr[Given])) = 0 BY <1>3, EmptySeq
  <2>2. Len(Contents(da)) \in Nat BY <1>4, <1>5, LenProperties
  <2> QED BY <2>1, <2>2
<1>10. Moves(Shows(arr), Shows(arr')) BY <1>2, <1>3, <1>5, <1>6, <1>9, Grows
<1> QED BY <1>6, <1>7, <1>8, <1>10 DEF Refines

(* ... and rle_decode that of the symbols.                                 *)
LEMMA DecodeRefines ==
  ASSUME MoreInv, NEW moves \in BOOLEAN, Decode(moves)
  PROVE  Refines
<1> DEFINE g == Contents(arr[Given])
           u == SymbolsOf(g)
           a == AppendPrepare(arr[Syms], moves)
           b == PutAll(a, u, moves)
           da == AppendFinalize(b.da, b.n)
<1>1. /\ main = "decode" /\ arr' = [arr EXCEPT ![Syms] = da] /\ UNCHANGED <<prog, sum1, calls>>
      /\ main' = IF da.next_idx = SymsNr THEN "serial" ELSE "abort"
  BY DEF Decode
<1>2. /\ main \in Early /\ prog = "rle" /\ arr[Syms] \in Das /\ Contents(arr[Syms]) = <<>>
      /\ g \in Seq(LetterRuns)
  BY <1>1 DEF Early, MoreInv, IInv, MainInv, SpellInv
<1>3. u \in Seq(Letters) BY <1>2, SymbolsAreLetters
<1>4. SymsNr = Len(u) BY DEF SymsNr
<1> HIDE DEF g, u
<1>5. u \in Seq(Elem)
  <2>1. Letters \subseteq Elem BY LetterFacts DEF Elem
  <2> QED BY <1>3, <2>1, SeqMonotonic
<1>6. a \in Bufs /\ Written(a) = <<>>
  <2> DEFINE m == arr[Syms]
  <2>1. m \in Das /\ Contents(m) = <<>> BY <1>2
  <2> HIDE DEF m
  <2>2. LET e == AppendPrepare(m, moves) IN e \in Bufs /\ Written(e) = Contents(m)
    BY <2>1, PrepareFacts
  <2> QED BY <2>1, <2>2 DEF m
<1> HIDE DEF a
<1>7. b \in Bufs /\ Written(b) = u
  <2>1. b \in Bufs /\ Written(b) = Written(a) \o u BY <1>5, <1>6, PutAllFacts
  <2>2. Written(a) \o u = u BY <1>5, <1>6, ConcatEmptySeq
  <2> QED BY <2>1, <2>2
<1> HIDE DEF b
<1>8. da \in Das /\ Contents(da) = u /\ da.next_idx = Len(u) BY <1>7, FinalizeFacts
<1> HIDE DEF da
<1>9. main' = "serial" BY <1>1, <1>4, <1>8
<1>10. /\ Syms \in Arrays /\ arr \in [Arrays -> Das \union {None}]
       /\ Shown = Shows(arr) /\ Shown' = Shows(arr') /\ arr'[Syms] = da
       /\ \A r \in Calls : calls'[r].pc # "ready" /\ arr'[r] = None
       /\ \A x \in Ranges : x \in Calls
  BY <1>1, <1>2, <1>8, EarlyArrays
<1>11. FreshInv' BY <1>9, <1>10, SerialFacts DEF FreshInv
<1>12. SpellInv'
  <2>1. Worked' = Syms BY <1>1, <1>2 DEF Worked
  <2>2. Word' = u BY <1>8, <1>10, <2>1 DEF Word
  <2> QED BY <1>3, <1>9, <2>2 DEF SpellInv
<1>13. /\ Len(Contents(arr[Syms])) <= Len(Contents(da))
       /\ \A i \in 1..Len(Contents(arr[Syms])) : Contents(da)[i] = Contents(arr[Syms])[i]
  <2>1. Len(Contents(arr[Syms])) = 0 BY <1>2, EmptySeq
  <2>2. Len(Contents(da)) \in Nat BY <1>5, <1>8, LenProperties
  <2> QED BY <2>1, <2>2
<1>14. Moves(Shows(arr), Shows(arr')) BY <1>1, <1>2, <1>8, <1>10, <1>13, Grows
<1> QED BY <1>10, <1>11, <1>12, <1>14 DEF Refines

(* The calls of main change no array.                                      *)
LEMMA SerialRefines ==
  ASSUME MoreInv, SerialCall
  PROVE  Refines
<1>1. /\ main = "serial" /\ main' = "compare" /\ calls' = [calls EXCEPT ![Serial] = Called(Root)]
      /\ UNCHANGED <<prog, arr, sum1>> /\ IInv
  BY DEF SerialCall, MoreInv
<1>2. main \in Early /\ main \in Working BY <1>1 DEF Early, Working
<1>3. \A q \in Calls : calls[q].pc = "none" BY <1>1, <1>2 DEF IInv, MainInv
<1>4. \A q \in Calls : q # Serial => calls'[q].pc = "none" BY <1>1, <1>3 DEF IInv, TypeInv
<1>5. arr'[Serial] = None /\ \A x \in Ranges : arr'[x] = None
  BY <1>1, <1>2 DEF MoreInv, FreshInv
<1>6. ASSUME NEW q \in Calls, calls'[q].pc = "ready", NEW x \in Within(q) PROVE arr'[x] = None
  <2>1. q = Serial BY <1>4, <1>6
  <2>2. x = Serial BY <1>6, <2>1, OtherArrays
  <2> QED BY <1>5, <2>2
<1>7. FreshInv' BY <1>1, <1>5, <1>6 DEF FreshInv, Early
<1>8. Word' = Word BY <1>1 DEF Word, Worked
<1>9. SpellInv' BY <1>1, <1>2, <1>8 DEF MoreInv, SpellInv
<1> QED BY <1>1, <1>7, <1>9, ArraysStay

(* All slices are still nobody's when the recursion starts.                *)
LEMMA RecRefines ==
  ASSUME MoreInv, RecCall
  PROVE  Refines
<1>1. main = "compare" /\ calls[Serial].pc = "done" /\ UNCHANGED <<prog, arr, sum1>> /\ IInv
  BY DEF RecCall, MoreInv
<1>2. main \in Working BY <1>1 DEF Working
<1>3. prog \in {"rle", "sum"} BY <1>1 DEF IInv, TypeInv
<1>4. prog = "sum" \/ RleCmp(calls[Serial].ret) BY <1>1, <1>2, <1>3, WholeAnswer
<1>5. calls' = [calls EXCEPT ![Root] = Called(Root)] /\ main' = "sync" BY <1>4 DEF RecCall
<1>6. \A q \in Ranges : calls[q].pc = "none" BY <1>1 DEF IInv, MainInv
<1>7. \A q \in Calls : q # Root => calls'[q] = calls[q] BY <1>1, <1>5 DEF IInv, TypeInv
<1>8. Root \in Ranges BY <1>1, <1>2, WordFacts
<1>9. ASSUME NEW q \in Calls, calls'[q].pc = "ready", NEW x \in Within(q) PROVE arr'[x] = None
  <2>1. q = Root
    <3> SUFFICES ASSUME q # Root PROVE FALSE OBVIOUS
    <3>1. calls[q].pc = "ready" BY <1>7, <1>9
    <3>2. q = Serial \/ q \in Ranges BY SerialFacts
    <3> QED BY <1>1, <1>6, <3>1, <3>2
  <2>2. x \in Ranges BY <1>8, <1>9, <2>1, WithinFacts
  <2> QED BY <1>1, <2>2 DEF MoreInv, FreshInv
<1>10. FreshInv' BY <1>5, <1>9 DEF FreshInv, Early
<1>11. Word' = Word BY <1>1 DEF Word, Worked
<1>12. SpellInv' BY <1>1, <1>2, <1>5, <1>11 DEF MoreInv, SpellInv
<1> QED BY <1>1, <1>10, <1>12, ArraysStay

(* When it has returned, nothing else happens.                             *)
LEMMA LastStepsRefine ==
  ASSUME MoreInv, RecReturn \/ UNCHANGED vars
  PROVE  Refines
<1>1. UNCHANGED <<prog, arr, sum1, calls>> BY DEF RecReturn, vars
<1>2. main' = main \/ (main = "sync" /\ main' \in {"done", "abort"}) BY DEF RecReturn, vars
<1>3. FreshInv' BY <1>1, <1>2 DEF MoreInv, FreshInv, Early
<1>4. Word' = Word BY <1>1 DEF Word, Worked
<1>5. SpellInv' BY <1>1, <1>2, <1>4 DEF MoreInv, SpellInv, Working
<1> QED BY <1>1, <1>3, <1>5, ArraysStay

-----------------------------------------------------------------------------
(* The theorem                                                             *)

LEMMA InitMore == Init => MoreInv /\ Abstract!Init
<1> SUFFICES ASSUME Init PROVE MoreInv /\ Abstract!Init OBVIOUS
<1>1. IInv BY InitInv
<1>2. main = "create" /\ arr = [a \in Arrays |-> None] BY DEF Init
<1>3. \A r \in Calls : calls[r].pc = "none" BY NoCallFacts DEF Init
<1>4. \A x \in Ranges : x \in Arrays BY RangesFacts
<1>5. FreshInv BY <1>2, <1>3, <1>4, SerialFacts DEF FreshInv
<1>6. SpellInv BY <1>2 DEF SpellInv, Working
<1>7. Abstract!Init BY <1>2 DEF Abstract!Init
<1> QED BY <1>1, <1>5, <1>6, <1>7 DEF MoreInv

LEMMA StepRefines == MoreInv /\ [Next]_vars => Refines
<1> SUFFICES ASSUME MoreInv, [Next]_vars PROVE Refines OBVIOUS
<1>1. CASE CreateGiven BY <1>1, GivenRefines
<1>2. CASE CreateSpare BY <1>2, SpareRefines
<1>3. CASE CreateSyms BY <1>3, SymsRefines
<1>4. CASE \E vs \in IF prog = "rle" THEN RandomRuns ELSE RandomInts, moves \in BOOLEAN :
             MkRand(vs, moves)
  BY <1>4, RandRefines
<1>5. CASE \E moves \in BOOLEAN : Decode(moves) BY <1>5, DecodeRefines
<1>6. CASE SerialCall BY <1>6, SerialRefines
<1>7. CASE RecCall BY <1>7, RecRefines
<1>8. CASE RecReturn BY <1>8, LastStepsRefine
<1>9. ASSUME NEW r \in Calls,
             \/ EncodeStart(r) \/ SumStart(r) \/ NextChunk(r) \/ EatSymbol(r) \/ EatInts(r)
             \/ EncodeLast(r) \/ EncodeReturn(r) \/ SumReturn(r) \/ Fork(r)
             \/ MergeAdd(r) \/ MergePop(r) \/ MergeConcat(r) \/ SumJoin(r)
      PROVE  Refines
  <2>1. CASE EncodeStart(r) BY <2>1, StartRefines
  <2>2. CASE SumStart(r) \/ NextChunk(r) \/ EatInts(r) \/ SumReturn(r) BY <2>2, PlainSteps
  <2>3. CASE EatSymbol(r) BY <2>3, EatRefines
  <2>4. CASE EncodeLast(r) BY <2>4, LastRefines
  <2>5. CASE EncodeReturn(r) BY <2>5, ReturnRefines
  <2>6. CASE Fork(r) BY <2>6, ForkRefines
  <2>7. CASE MergeAdd(r) BY <2>7, AddRefines
  <2>8. CASE MergePop(r) BY <2>8, PopRefines
  <2>9. CASE MergeConcat(r) BY <2>9, ConcatRefines
  <2>10. CASE SumJoin(r) BY <2>10, JoinRefines
  <2> QED BY <1>9, <2>1, <2>2, <2>3, <2>4, <2>5, <2>6, <2>7, <2>8, <2>9, <2>10
<1>10. CASE Exited BY <1>10, LastStepsRefine DEF Exited
<1>11. CASE UNCHANGED vars BY <1>11, LastStepsRefine
<1> QED
  BY <1>1, <1>2, <1>3, <1>4, <1>5, <1>6, <1>7, <1>8, <1>9, <1>10, <1>11 DEF Next

(* Through the xarray layer both programs see sequences, however the calls *)
(* interleave: an array that xarray_create returns is empty and nobody     *)
(* else has it (rle_rec_xarray.c:229); what is put into the room that      *)
(* append_prepare gave shows when it is finalized and behind what was      *)
(* there (rle_rec_xarray.c:301), although realloc may have moved the       *)
(* elements in between (dynarray.h:79); rle_merge writes to an element     *)
(* that is there (rle_rec_xarray.c:325); and concatenation takes the       *)
(* second array away (rle_rec_xarray.c:329).                               *)
THEOREM ArraysAreSequences == Spec => ImplementsArrays
<1>1. Init => MoreInv /\ Abstract!Init BY InitMore
<1>2. MoreInv /\ [Next]_vars => MoreInv'
  <2> SUFFICES ASSUME MoreInv, [Next]_vars PROVE MoreInv' OBVIOUS
  <2>1. IInv' BY NextInv DEF MoreInv
  <2>2. Refines BY StepRefines
  <2> QED BY <2>1, <2>2 DEF Refines, MoreInv
<1>3. MoreInv /\ [Next]_vars => [Abstract!UseNext]_Shown
  <2> SUFFICES ASSUME MoreInv, [Next]_vars PROVE [Abstract!UseNext]_Shown OBVIOUS
  <2>1. Moves(Shown, Shown') BY StepRefines DEF Refines
  <2> QED BY <2>1 DEF Moves, Abstract!UseNext, Abstract!Next, Shown, Shows
<1>4. MoreInv /\ [Next]_vars =>
        [Abstract!UseNext]_([a \in Arrays |-> IF arr[a] = None THEN Gone ELSE Contents(arr[a])])
  BY <1>3 DEF Shown, Shows
<1> QED BY <1>1, <1>2, <1>4, PTL DEF Spec, ImplementsArrays, Abstract!UseSpec
=============================================================================
