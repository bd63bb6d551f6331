----------------------------- MODULE Lists_proofs -----------------------------
(***************************************************************************)
(* Lemmas on recursion and on lists.  A recursive function over a           *)
(* well-founded dependency satisfies the equation that defines it;          *)
(* induction is done with the smallest counterexample: a set that is not    *)
(* empty has a member of smallest rank.                                     *)
(***************************************************************************)
EXTENDS Integers, Sequences, FiniteSets, SequencesExt, Functions, Lists,
        FiniteSetTheorems, WellFoundedInduction, TLAPS

\* B[d] are the arguments that d needs; every set has one that needs none of the set.
WellFounded(D, B) == \A T \in SUBSET D : T # {} => \E d \in T : B[d] \cap T = {}

\* The value of H[f] at d depends on the values of f that d needs.
DependsOn(D, S, B, H) ==
    \A f, g \in [D -> S] : \A d \in D :
        (\A e \in B[d] : f[e] = g[e]) => H[f][d] = H[g][d]

\* H is a recursive definition over a well-founded dependency, with values in S.
IsRecursion(D, S, B, H) ==
    /\ S # {}
    /\ B \in [D -> SUBSET D] /\ WellFounded(D, B)
    /\ H \in [[D -> S] -> [D -> S]] /\ DependsOn(D, S, B, H)

HasSolution(D, S, H) == \E f \in [D -> S] : f = H[f]

\* A function that satisfies the equation on a set of arguments that needs no others.
Attempt(D, S, B, H, A, g) ==
    /\ A \subseteq D /\ g \in [D -> S]
    /\ \A x \in A : B[x] \subseteq A /\ g[x] = H[g][x]

\* A set that is not empty has a member of smallest rank.
LEMMA MinRank ==
    ASSUME NEW D, NEW rank \in [D -> Nat], NEW T, T \subseteq D, T # {}
    PROVE  \E d \in T : \A e \in T : rank[d] <= rank[e]
<1> DEFINE R == {rank[d] : d \in T}
           L == OpToRel(<, Nat)
<1>1. R \subseteq Nat /\ R # {}
  OBVIOUS
<1>2. L = {ss \in Nat \X Nat : ss[1] < ss[2]}
  BY Zenon DEF OpToRel
<1>3. IsWellFoundedOn(L, Nat)
  BY NatLessThanWellFounded, Zenon
<1>4. \E x \in R : \A y \in R : ~ (<<y, x>> \in L)
  <2> HIDE DEF R, L
  <2> QED BY <1>1, <1>3, WFMin, Zenon
<1>5. PICK x \in R : \A y \in R : ~ (<<y, x>> \in L)
  BY <1>4
<1>6. ASSUME NEW y \in R PROVE x <= y
  <2> HIDE DEF R, L
  <2>1. x \in Nat /\ y \in Nat
    BY <1>1
  <2>2. ~ (<<y, x>> \in L)
    BY <1>5
  <2>3. ~ (y < x)
    BY <1>2, <2>1, <2>2
  <2> QED BY <2>1, <2>3
<1>7. PICK d \in T : rank[d] = x
  OBVIOUS
<1>8. \A e \in T : rank[e] \in R
  OBVIOUS
<1> QED
  <2> HIDE DEF R
  <2> QED BY <1>6, <1>7, <1>8

\* A dependency along which a rank decreases is well-founded.
LEMMA RankIsWellFounded ==
    ASSUME NEW D, NEW B, NEW rank \in [D -> Nat],
           \A d \in D : \A e \in B[d] : e \in D => rank[e] < rank[d]
    PROVE  WellFounded(D, B)
<1> SUFFICES ASSUME NEW T \in SUBSET D, T # {} PROVE \E d \in T : B[d] \cap T = {}
  BY DEF WellFounded
<1>1. PICK d \in T : \A e \in T : rank[d] <= rank[e]
  BY MinRank
<1>2. \A e \in B[d] : e \notin T
  <2> SUFFICES ASSUME NEW e \in B[d], e \in T PROVE FALSE
    OBVIOUS
  <2>1. rank[e] < rank[d]
    OBVIOUS
  <2>2. rank[d] <= rank[e] /\ rank[d] \in Nat /\ rank[e] \in Nat
    BY <1>1
  <2> QED BY <2>1, <2>2
<1> QED
  BY <1>2

\* Two functions that satisfy the equation agree where both do.
LEMMA AttemptsAgree ==
    ASSUME NEW D, NEW S, NEW B \in [D -> SUBSET D], WellFounded(D, B),
           NEW H, DependsOn(D, S, B, H),
           NEW A1, NEW g1, Attempt(D, S, B, H, A1, g1),
           NEW A2, NEW g2, Attempt(D, S, B, H, A2, g2)
    PROVE  \A x \in A1 \cap A2 : g1[x] = g2[x]
<1> DEFINE T == {x \in A1 \cap A2 : g1[x] # g2[x]}
<1>1. SUFFICES ASSUME T # {} PROVE FALSE
  OBVIOUS
<1>2. T \in SUBSET D
  BY DEF Attempt
<1>3. PICK d \in T : B[d] \cap T = {}
  <2> HIDE DEF T
  <2> QED BY <1>1, <1>2 DEF WellFounded
<1>4. \A e \in B[d] : g1[e] = g2[e]
  BY <1>3 DEF Attempt
<1>5. H[g1][d] = H[g2][d]
  BY <1>2, <1>4 DEF DependsOn, Attempt
<1> QED
  BY <1>5 DEF Attempt

\* A recursive definition over a well-founded dependency has a solution.
LEMMA RecursionExists ==
    ASSUME NEW D, NEW S, NEW B, NEW H, IsRecursion(D, S, B, H)
    PROVE  HasSolution(D, S, H)
<1> USE DEF IsRecursion
<1> DEFINE At(A, g) == Attempt(D, S, B, H, A, g)
           Covered == {d \in D : \E A \in SUBSET D, g \in [D -> S] : At(A, g) /\ d \in A}
           Value(d) == IF d \in Covered
                       THEN CHOOSE v \in S : \E A \in SUBSET D, g \in [D -> S] :
                                At(A, g) /\ d \in A /\ v = g[d]
                       ELSE CHOOSE v \in S : TRUE
           f == [d \in D |-> Value(d)]
<1>1. f \in [D -> S]
  <2>1. ASSUME NEW d \in D PROVE Value(d) \in S
    <3>1. CASE d \in Covered
      <4>1. PICK A \in SUBSET D, g \in [D -> S] : At(A, g) /\ d \in A
        BY <3>1
      <4>2. g[d] \in S
        OBVIOUS
      <4>3. \E v \in S : \E AA \in SUBSET D, gg \in [D -> S] :
                                At(AA, gg) /\ d \in AA /\ v = gg[d]
        <5> HIDE DEF At
        <5> QED BY <4>1, <4>2
      <4> QED
        <5> HIDE DEF At, Covered
        <5> QED BY <3>1, <4>3
    <3>2. CASE d \notin Covered
      <4> HIDE DEF Covered
      <4> QED BY <3>2
    <3> QED BY <3>1, <3>2
  <2> HIDE DEF Value
  <2> QED BY <2>1
<1>2. ASSUME NEW A \in SUBSET D, NEW g \in [D -> S], At(A, g), NEW x \in A
      PROVE  f[x] = g[x]
  <2>1. x \in D /\ x \in Covered
    BY <1>2
  <2>2. \E v \in S : \E AA \in SUBSET D, gg \in [D -> S] : At(AA, gg) /\ x \in AA /\ v = gg[x]
    <3>1. g[x] \in S
      BY <2>1
    <3> HIDE DEF At
    <3> QED BY <1>2, <3>1
  <2>3. \E AA \in SUBSET D, gg \in [D -> S] : At(AA, gg) /\ x \in AA /\ f[x] = gg[x]
    <3>1. f[x] = CHOOSE v \in S : \E AA \in SUBSET D, gg \in [D -> S] : At(AA, gg) /\ x \in AA /\ v = gg[x]
      <4> HIDE DEF At, Covered
      <4> QED BY <2>1
    <3> HIDE DEF At, f
    <3> QED BY <2>2, <3>1
  <2>4. PICK AA \in SUBSET D, gg \in [D -> S] : At(AA, gg) /\ x \in AA /\ f[x] = gg[x]
    BY <2>3
  <2> HIDE DEF f, Covered
  <2> QED
    BY <1>2, <2>4, AttemptsAgree
<1>3. At(Covered, f)
  <2> SUFFICES ASSUME NEW x \in Covered
               PROVE  B[x] \subseteq Covered /\ f[x] = H[f][x]
    <3> HIDE DEF f
    <3> QED BY <1>1 DEF Attempt
  <2>1. PICK A \in SUBSET D, g \in [D -> S] : At(A, g) /\ x \in A
    OBVIOUS
  <2>2. B[x] \subseteq A /\ g[x] = H[g][x]
    BY <2>1 DEF Attempt
  <2>3. A \subseteq Covered
    BY <2>1
  <2>4. \A e \in B[x] : f[e] = g[e]
    <3> HIDE DEF f, At
    <3> QED BY <1>2, <2>1, <2>2
  <2>5. H[f][x] = H[g][x]
    <3> HIDE DEF f, At
    <3> QED BY <1>1, <2>1, <2>4 DEF DependsOn
  <2>6. f[x] = g[x]
    <3> HIDE DEF f, At
    <3> QED BY <1>2, <2>1
  <2> HIDE DEF f, Covered
  <2> QED BY <2>2, <2>3, <2>5, <2>6
<1>4. Covered = D
  <2>1. SUFFICES ASSUME D \ Covered # {} PROVE FALSE
    OBVIOUS
  <2>2. PICK d \in D \ Covered : B[d] \cap (D \ Covered) = {}
    <3> HIDE DEF Covered
    <3> QED BY <2>1 DEF WellFounded
  <2> DEFINE h == [f EXCEPT ![d] = H[f][d]]
             A == Covered \cup {d}
  <2>3. h \in [D -> S] /\ A \in SUBSET D
    <3> HIDE DEF f
    <3> QED BY <1>1
  <2>4. \A e \in Covered : h[e] = f[e]
    <3> HIDE DEF f
    <3> QED BY <1>1, <2>2
  <2>5. h[d] = H[f][d]
    <3> HIDE DEF f
    <3> QED BY <1>1
  <2>6. B[d] \subseteq Covered
    <3> HIDE DEF Covered
    <3> QED BY <2>2
  <2>7. ASSUME NEW x \in A PROVE B[x] \subseteq Covered /\ h[x] = H[h][x]
    <3>1. B[x] \subseteq Covered
      <4> HIDE DEF f, Covered, h
      <4> QED BY <1>3, <2>6 DEF Attempt
    <3>2. \A e \in B[x] : h[e] = f[e]
      <4> HIDE DEF f, Covered, h
      <4> QED BY <2>4, <3>1
    <3>3. H[h][x] = H[f][x]
      <4> HIDE DEF f, Covered, h
      <4> QED BY <1>1, <2>3, <3>2 DEF DependsOn
    <3>4. h[x] = H[f][x]
      <4> HIDE DEF f, Covered, h
      <4> QED BY <1>3, <2>4, <2>5 DEF Attempt
    <3> QED BY <3>1, <3>3, <3>4
  <2>8. At(A, h)
    <3> HIDE DEF f, Covered, h
    <3> QED BY <2>3, <2>7 DEF Attempt
  <2>9. d \in Covered
    <3> HIDE DEF f, h, At
    <3> QED BY <2>3, <2>8
  <2> QED BY <2>9
<1>5. \A d \in D : f[d] = H[f][d]
  <2> HIDE DEF f, Covered
  <2> QED BY <1>3, <1>4 DEF Attempt
<1> HIDE DEF f
<1>6. H[f] \in [D -> S]
  BY <1>1
<1>7. f = H[f]
  BY <1>1, <1>5, <1>6
<1> QED
  BY <1>1, <1>7 DEF HasSolution

-----------------------------------------------------------------------------
(* Lists                                                                    *)

LEMMA FunctionIsSeq ==
    ASSUME NEW n \in Nat, NEW S, NEW f \in [1..n -> S]
    PROVE  f \in Seq(S) /\ Len(f) = n
  OBVIOUS

LEMMA LargerSeq ==
    ASSUME NEW S, NEW T, S \subseteq T, NEW s \in Seq(S)
    PROVE  s \in Seq(T)
<1>1. Len(s) \in Nat /\ s \in [1..Len(s) -> T]
  OBVIOUS
<1> QED BY <1>1, FunctionIsSeq

LEMMA ConcatFacts ==
    ASSUME NEW S, NEW s \in Seq(S), NEW r \in Seq(S)
    PROVE  /\ s \o r \in Seq(S)
           /\ Range(s \o r) = Range(s) \cup Range(r)
           /\ Len(s \o r) = Len(s) + Len(r)
           /\ r # <<>> => s \o r # <<>> /\ Last(s \o r) = Last(r)
<1>1. s \o r \in Seq(S) /\ Len(s \o r) = Len(s) + Len(r)
  OBVIOUS
<1>2. Range(s \o r) = Range(s) \cup Range(r)
  <2>1. ASSUME NEW x \in Range(s \o r) PROVE x \in Range(s) \cup Range(r)
    <3>1. PICK i \in DOMAIN (s \o r) : x = (s \o r)[i]
      BY Zenon DEF Range
    <3>2. i \in 1..(Len(s) + Len(r))
      BY <1>1, <3>1
    <3>3. CASE i \in 1..Len(s)
      BY <3>1, <3>3 DEF Range
    <3>4. CASE i - Len(s) \in 1..Len(r)
      <4>1. x = r[i - Len(s)]
        BY <3>1, <3>2, <3>4
      <4> QED BY <3>4, <4>1 DEF Range
    <3> QED BY <3>2, <3>3, <3>4
  <2>2. ASSUME NEW x \in Range(s) PROVE x \in Range(s \o r)
    <3>1. PICK i \in DOMAIN s : x = s[i]
      BY Zenon DEF Range
    <3>2. i \in DOMAIN (s \o r) /\ x = (s \o r)[i]
      BY <3>1
    <3> QED BY <3>2, Zenon DEF Range
  <2>3. ASSUME NEW x \in Range(r) PROVE x \in Range(s \o r)
    <3>1. PICK i \in DOMAIN r : x = r[i]
      BY Zenon DEF Range
    <3>2. Len(s) + i \in DOMAIN (s \o r) /\ x = (s \o r)[Len(s) + i]
      BY <3>1
    <3> QED BY <3>2, Zenon DEF Range
  <2> QED BY <2>1, <2>2, <2>3
<1>3. ASSUME r # <<>> PROVE s \o r # <<>> /\ Last(s \o r) = Last(r)
  <2>1. Len(r) \in Nat /\ Len(r) > 0
    BY <1>3
  <2>2. Len(s \o r) > 0
    BY <1>1, <2>1
  <2>3. (s \o r)[Len(s) + Len(r)] = r[Len(r)]
    BY <2>1
  <2> QED BY <1>1, <2>2, <2>3 DEF Last
<1> QED
  BY <1>1, <1>2, <1>3

\* The lists of the first elements, joined.
FlattenRun(f, ss, S) ==
    /\ FlattenSeq(ss) = IF Len(ss) = 0 THEN <<>> ELSE f[Len(ss)]
    /\ \A n \in 1..Len(ss) :
        /\ f[n] \in Seq(S) /\ Range(f[n]) = UNION {Range(ss[i]) : i \in 1..n}
        /\ n = 1 => f[n] = ss[n]
        /\ n # 1 => f[n] = f[n - 1] \o ss[n]

\* FlattenSeq is a list of the elements of the lists.
LEMMA FlattenRuns ==
    ASSUME NEW S, NEW ss \in Seq(Seq(S))
    PROVE  \E f : FlattenRun(f, ss, S)
<1> DEFINE D == 1..Len(ss)
           V == Seq(S)
           Step(f, n) == IF n = 1 THEN ss[n] ELSE f[n - 1] \o ss[n]
           flatten == CHOOSE f : f = [n \in D |-> Step(f, n)]
           B == [n \in D |-> IF n = 1 THEN {} ELSE {n - 1}]
           rank == [n \in D |-> n]
           H == [f \in [D -> V] |-> [n \in D |-> Step(f, n)]]
<1>1. Len(ss) \in Nat /\ DOMAIN ss = D
  OBVIOUS
<1>2. \A n \in D : ss[n] \in V /\ (n # 1 => n - 1 \in D)
  OBVIOUS
<1>3. B \in [D -> SUBSET D]
  <2> HIDE DEF D
  <2> QED BY <1>2
<1>4. WellFounded(D, B)
  <2>1. rank \in [D -> Nat]
    BY <1>1
  <2>2. \A d \in D : \A e \in B[d] : e \in D => rank[e] < rank[d]
    BY <1>1
  <2> HIDE DEF D, B, rank
  <2> QED BY <2>1, <2>2, RankIsWellFounded
<1>5. \A f \in [D -> V] : \A n \in D : Step(f, n) \in V
  <2> SUFFICES ASSUME NEW f \in [D -> V], NEW n \in D PROVE Step(f, n) \in V
    OBVIOUS
  <2>1. CASE n = 1
    BY <1>2, <2>1
  <2>2. CASE n # 1
    <3>1. f[n - 1] \in V /\ ss[n] \in V
      <4> HIDE DEF D, V
      <4> QED BY <1>2, <2>2
    <3> QED BY <2>2, <3>1
  <2> QED BY <2>1, <2>2
<1>6. H \in [[D -> V] -> [D -> V]]
  <2> HIDE DEF D, V, Step
  <2> QED BY <1>5
<1>7. DependsOn(D, V, B, H)
  <2> SUFFICES ASSUME NEW f \in [D -> V], NEW g \in [D -> V], NEW n \in D,
                      \A e \in B[n] : f[e] = g[e]
               PROVE  Step(f, n) = Step(g, n)
    <3> HIDE DEF D, V, Step, B
    <3> QED BY DEF DependsOn
  <2> QED OBVIOUS
<1>8. \E f : f = [n \in D |-> Step(f, n)]
  <2>1. V # {}
    OBVIOUS
  <2>2. PICK f \in [D -> V] : f = H[f]
    <3> HIDE DEF D, V, Step, B, H
    <3>1. IsRecursion(D, V, B, H)
      BY <1>3, <1>4, <1>6, <1>7, <2>1 DEF IsRecursion
    <3>2. HasSolution(D, V, H)
      BY <3>1, RecursionExists
    <3> QED BY <3>2 DEF HasSolution
  <2> HIDE DEF D, V, Step, B
  <2> QED BY <2>2
<1>9. flatten = [n \in D |-> Step(flatten, n)]
  <2> HIDE DEF Step, D
  <2> QED BY <1>8, Zenon
<1>10. \A n \in D : flatten[n] = Step(flatten, n)
  <2> HIDE DEF Step, flatten, D
  <2> QED BY <1>9, Zenon
<1>11. FlattenSeq(ss) = IF Len(ss) = 0 THEN ss ELSE flatten[Len(ss)]
  BY Zenon DEF FlattenSeq
<1> HIDE DEF flatten
<1> DEFINE Good(n) == /\ flatten[n] \in V
                      /\ Range(flatten[n]) = UNION {Range(ss[i]) : i \in 1..n}
           Bad == {n \in D : ~Good(n)}
<1>12. Bad = {}
  <2>1. SUFFICES ASSUME Bad # {} PROVE FALSE
    OBVIOUS
  <2>2. PICK n \in Bad : B[n] \cap Bad = {}
    <3>1. Bad \in SUBSET D
      OBVIOUS
    <3> HIDE DEF Bad, B, D
    <3> QED BY <1>4, <2>1, <3>1 DEF WellFounded
  <2>3. n \in D /\ ss[n] \in V
    BY <1>2
  <2>4. n # 1
    <3> SUFFICES ASSUME n = 1 PROVE FALSE
      OBVIOUS
    <3>1. flatten[1] = ss[1]
      BY <1>10, <2>3
    <3>2. 1..1 = {1}
      OBVIOUS
    <3>3. Good(1)
      <4> HIDE DEF V
      <4> QED BY <2>3, <3>1, <3>2
    <3> QED BY <3>3
  <2>5. Good(n - 1)
    <3>1. n - 1 \in B[n]
      BY <2>3, <2>4
    <3>2. n - 1 \in D
      BY <1>2, <2>3, <2>4
    <3> HIDE DEF Good, B, D
    <3> QED BY <2>2, <3>1, <3>2
  <2>6. flatten[n] = flatten[n - 1] \o ss[n]
    BY <1>10, <2>3, <2>4
  <2>7. flatten[n] \in V /\ Range(flatten[n]) = Range(flatten[n - 1]) \cup Range(ss[n])
    BY <2>3, <2>5, <2>6, ConcatFacts
  <2>8. 1..n = (1..(n - 1)) \cup {n}
    BY <1>1, <2>3, <2>4
  <2>9. Good(n)
    <3> HIDE DEF V, D
    <3> QED BY <2>5, <2>7, <2>8
  <2> QED BY <2>9
<1>13. FlattenSeq(ss) = IF Len(ss) = 0 THEN <<>> ELSE flatten[Len(ss)]
  BY <1>1, <1>11
<1>14. \A n \in D : n = 1 => flatten[n] = ss[n]
  BY <1>10
<1>15. \A n \in D : n # 1 => flatten[n] = flatten[n - 1] \o ss[n]
  BY <1>10
<1>16. \A n \in D : Good(n)
  BY <1>12
<1> HIDE DEF D, Bad
<1>17. FlattenRun(flatten, ss, S)
  BY <1>13, <1>14, <1>15, <1>16 DEF FlattenRun, D
<1> QED
  BY <1>17

LEMMA FlattenFacts ==
    ASSUME NEW S, NEW ss \in Seq(Seq(S))
    PROVE  /\ FlattenSeq(ss) \in Seq(S)
           /\ Range(FlattenSeq(ss)) = UNION {Range(ss[i]) : i \in DOMAIN ss}
<1>1. Len(ss) \in Nat /\ DOMAIN ss = 1..Len(ss)
  OBVIOUS
<1>2. PICK f : FlattenRun(f, ss, S)
  BY FlattenRuns
<1>3. CASE Len(ss) = 0
  <2>1. FlattenSeq(ss) = <<>> /\ DOMAIN ss = {}
    BY <1>1, <1>2, <1>3 DEF FlattenRun
  <2> QED BY <2>1 DEF Range
<1>4. CASE Len(ss) # 0
  <2>1. Len(ss) \in 1..Len(ss) /\ FlattenSeq(ss) = f[Len(ss)]
    BY <1>1, <1>2, <1>4 DEF FlattenRun
  <2> QED BY <1>1, <1>2, <2>1 DEF FlattenRun
<1> QED
  BY <1>3, <1>4

\* Keep is a list of the elements that are in the set.
LEMMA KeepFacts ==
    ASSUME NEW A, NEW s \in Seq(A), NEW S
    PROVE  Keep(s, S) \in Seq(A) /\ Range(Keep(s, S)) = Range(s) \cap S
<1> DEFINE ss == [i \in DOMAIN s |-> IF s[i] \in S THEN <<s[i]>> ELSE <<>>]
<1>1. Keep(s, S) = FlattenSeq(ss)
  BY Zenon DEF Keep, MapSeq
<1>2. DOMAIN ss = DOMAIN s /\ DOMAIN s = 1..Len(s) /\ Len(s) \in Nat
  OBVIOUS
<1>3. \A i \in DOMAIN s : s[i] \in A
  OBVIOUS
<1>4. \A i \in DOMAIN s : ss[i] \in Seq(A) /\ Range(ss[i]) = {s[i]} \cap S
  <2> SUFFICES ASSUME NEW i \in DOMAIN s
               PROVE  ss[i] \in Seq(A) /\ Range(ss[i]) = {s[i]} \cap S
    OBVIOUS
  <2>1. CASE s[i] \in S
    <3>1. ss[i] = <<s[i]>>
      BY <2>1
    <3>2. Range(<<s[i]>>) = {s[i]}
      BY DEF Range
    <3> QED BY <1>3, <2>1, <3>1, <3>2
  <2>2. CASE s[i] \notin S
    <3>1. ss[i] = <<>>
      BY <2>2
    <3>2. Range(<<>>) = {}
      BY DEF Range
    <3> HIDE DEF ss
    <3> QED BY <2>2, <3>1, <3>2
  <2> QED BY <2>1, <2>2
<1>5. ss \in Seq(Seq(A))
  <2> HIDE DEF ss
  <2>1. ss \in [1..Len(s) -> Seq(A)]
    <3>1. ss = [i \in DOMAIN s |-> ss[i]]
      BY DEF ss
    <3> QED BY <1>2, <1>4, <3>1
  <2> QED BY <1>2, <2>1
<1> HIDE DEF ss
<1>6. FlattenSeq(ss) \in Seq(A) /\ Range(FlattenSeq(ss)) = UNION {Range(ss[i]) : i \in DOMAIN ss}
  BY <1>5, FlattenFacts
<1>7. UNION {Range(ss[i]) : i \in DOMAIN ss} = Range(s) \cap S
  <2>1. \A x : x \in UNION {Range(ss[i]) : i \in DOMAIN s} <=> \E i \in DOMAIN s : x \in {s[i]} \cap S
    BY <1>4
  <2>2. \A x : x \in Range(s) <=> \E i \in DOMAIN s : x = s[i]
    BY Zenon DEF Range
  <2> QED BY <1>2, <2>1, <2>2
<1> QED
  BY <1>1, <1>6, <1>7

\* A list without elements is empty.
LEMMA EmptyRange ==
    ASSUME NEW A, NEW s \in Seq(A)
    PROVE  (s = <<>>) <=> (Range(s) = {})
<1>1. Len(s) \in Nat /\ DOMAIN s = 1..Len(s)
  OBVIOUS
<1>2. ASSUME s = <<>> PROVE Range(s) = {}
  BY <1>2 DEF Range
<1>3. ASSUME s # <<>> PROVE Range(s) # {}
  <2>1. Len(s) > 0
    BY <1>1, <1>3
  <2>2. s[1] \in Range(s)
    BY <1>1, <2>1 DEF Range
  <2> QED BY <2>2
<1> QED
  BY <1>2, <1>3

\* Min and Max of a set of positions.
LEMMA MinFacts ==
    ASSUME NEW S \in SUBSET Nat, S # {}
    PROVE  Min(S) \in S /\ \A x \in S : Min(S) <= x
<1> DEFINE rank == [x \in Nat |-> x]
<1>1. PICK d \in S : \A e \in S : rank[d] <= rank[e]
  <2>1. rank \in [Nat -> Nat]
    OBVIOUS
  <2> HIDE DEF rank
  <2> QED BY <2>1, MinRank
<1>2. \A e \in S : d <= e
  BY <1>1
<1> QED
  BY <1>2 DEF Min

LEMMA MaxFacts ==
    ASSUME NEW n \in Nat, NEW S \in SUBSET (1..n), S # {}
    PROVE  Max(S) \in S /\ \A x \in S : Max(S) >= x
<1> DEFINE rank == [x \in 1..n |-> n - x]
<1>1. PICK d \in S : \A e \in S : rank[d] <= rank[e]
  <2>1. rank \in [1..n -> Nat]
    OBVIOUS
  <2> HIDE DEF rank
  <2> QED BY <2>1, MinRank
<1>2. ASSUME NEW e \in S PROVE d >= e
  <2>1. rank[d] <= rank[e]
    BY <1>1
  <2>2. rank[d] = n - d /\ rank[e] = n - e /\ d \in Int /\ e \in Int
    OBVIOUS
  <2> HIDE DEF rank
  <2> QED BY <2>1, <2>2
<1> QED
  BY <1>2 DEF Max

\* The smallest number of a set.
LEMMA Smallest ==
    ASSUME NEW T \in SUBSET Nat, T # {}
    PROVE  \E d \in T : \A e \in T : d <= e
<1> DEFINE rank == [i \in Nat |-> i]
<1>1. rank \in [Nat -> Nat]
  OBVIOUS
<1>2. PICK d \in T : \A e \in T : rank[d] <= rank[e]
  <2> HIDE DEF rank
  <2> QED BY <1>1, MinRank
<1> QED
  BY <1>2

\* Where a list begins in the joined ones.
LEMMA FlattenPrefix ==
    ASSUME NEW S, NEW ss \in Seq(Seq(S)), NEW i \in 1..Len(ss)
    PROVE  /\ Len(FlattenSeq(SubSeq(ss, 1, i - 1))) \in Nat
           /\ Len(FlattenSeq(SubSeq(ss, 1, i - 1))) + Len(ss[i]) <= Len(FlattenSeq(ss))
<1> DEFINE tt == SubSeq(ss, 1, i - 1)
<1>1. i \in Nat /\ i >= 1 /\ Len(ss) \in Nat /\ i <= Len(ss) /\ ss[i] \in Seq(S)
  OBVIOUS
<1>2. tt \in Seq(Seq(S)) /\ Len(tt) = i - 1 /\ \A k \in 1..(i - 1) : tt[k] = ss[k]
  OBVIOUS
<1> HIDE DEF tt
<1>3. PICK f : FlattenRun(f, ss, S)
  BY FlattenRuns
<1>4. PICK g : FlattenRun(g, tt, S)
  BY <1>2, FlattenRuns
<1>6. \A k \in 1..(i - 1) : g[k] = f[k]
  <2> DEFINE Bad == {k \in Nat : k \in 1..(i - 1) /\ g[k] # f[k]}
  <2> SUFFICES ASSUME Bad # {} PROVE FALSE
    <3>1. ASSUME NEW k \in 1..(i - 1) PROVE k \in Nat
      BY <1>1
    <3> QED BY <3>1
  <2>1. PICK k \in Bad : \A e \in Bad : k <= e
    <3>1. Bad \in SUBSET Nat
      OBVIOUS
    <3> HIDE DEF Bad
    <3> QED BY <3>1, Smallest
  <2>2. k \in 1..(i - 1) /\ k \in 1..Len(ss) /\ k \in 1..Len(tt) /\ k \in Nat /\ g[k] # f[k]
    BY <1>1, <1>2
  <2>3. /\ k = 1 => f[k] = ss[k] /\ g[k] = tt[k]
        /\ k # 1 => f[k] = f[k - 1] \o ss[k] /\ g[k] = g[k - 1] \o tt[k]
    BY <1>3, <1>4, <2>2 DEF FlattenRun
  <2>4. k # 1 => k - 1 \in 1..(i - 1) /\ k - 1 \notin Bad /\ k - 1 \in Nat
    <3>1. k # 1 => k - 1 \in 1..(i - 1) /\ k - 1 \in Nat /\ ~(k <= k - 1)
      BY <1>1, <2>2
    <3> HIDE DEF Bad
    <3> QED BY <2>1, <3>1
  <2>5. k # 1 => g[k - 1] = f[k - 1]
    BY <2>4
  <2>6. tt[k] = ss[k]
    BY <1>2, <2>2
  <2>7. CASE k = 1
    BY <2>2, <2>3, <2>6, <2>7
  <2>8. CASE k # 1
    <3>1. f[k] = f[k - 1] \o ss[k] /\ g[k] = g[k - 1] \o tt[k] /\ g[k - 1] = f[k - 1]
      BY <2>3, <2>5, <2>8
    <3> QED BY <2>2, <2>6, <3>1, Zenon
  <2> QED BY <2>7, <2>8
<1>7. \A k \in 1..Len(ss) : Len(f[k]) \in Nat
  <2>1. \A k \in 1..Len(ss) : f[k] \in Seq(S)
    BY <1>3 DEF FlattenRun
  <2> QED BY <2>1
<1>8. /\ Len(FlattenSeq(tt)) \in Nat
      /\ Len(f[i]) = Len(FlattenSeq(tt)) + Len(ss[i])
  <2>1. CASE i = 1
    <3>1. FlattenSeq(tt) = <<>>
      BY <1>2, <1>4, <2>1 DEF FlattenRun
    <3>2. f[i] = ss[i]
      BY <1>1, <1>3, <2>1 DEF FlattenRun
    <3> QED BY <1>1, <3>1, <3>2
  <2>2. CASE i # 1
    <3>1. FlattenSeq(tt) = g[i - 1]
      BY <1>1, <1>2, <1>4, <2>2 DEF FlattenRun
    <3>2. f[i] = f[i - 1] \o ss[i] /\ f[i - 1] \in Seq(S) /\ g[i - 1] = f[i - 1]
      <4>1. i - 1 \in 1..(i - 1) /\ i - 1 \in 1..Len(ss)
        BY <1>1, <2>2
      <4> QED BY <1>1, <1>3, <1>6, <2>2, <4>1 DEF FlattenRun
    <3> QED BY <1>1, <3>1, <3>2
  <2> QED BY <2>1, <2>2
<1>9. \A k \in i..Len(ss) : Len(f[i]) <= Len(f[k])
  <2> DEFINE Bad == {k \in Nat : k \in i..Len(ss) /\ ~(Len(f[i]) <= Len(f[k]))}
  <2> SUFFICES ASSUME Bad # {} PROVE FALSE
    <3>1. ASSUME NEW k \in i..Len(ss) PROVE k \in Nat
      BY <1>1
    <3> QED BY <3>1
  <2>1. PICK k \in Bad : \A e \in Bad : k <= e
    <3>1. Bad \in SUBSET Nat
      OBVIOUS
    <3> HIDE DEF Bad
    <3> QED BY <3>1, Smallest
  <2>2. k \in i..Len(ss) /\ k \in 1..Len(ss) /\ k \in Nat /\ ~(Len(f[i]) <= Len(f[k]))
    BY <1>1
  <2>3. k # i
    BY <1>1, <1>7, <2>2
  <2>4. k - 1 \in i..Len(ss) /\ k - 1 \notin Bad /\ k - 1 \in Nat /\ k - 1 \in 1..Len(ss) /\ k # 1
    BY <1>1, <2>1, <2>2, <2>3
  <2>5. Len(f[i]) <= Len(f[k - 1])
    BY <2>4
  <2>6. f[k] = f[k - 1] \o ss[k] /\ f[k - 1] \in Seq(S)
    BY <1>3, <2>2, <2>4 DEF FlattenRun
  <2>7. Len(f[k]) = Len(f[k - 1]) + Len(ss[k]) /\ Len(ss[k]) \in Nat /\ Len(f[k - 1]) \in Nat
    BY <2>2, <2>6, SMTT(30)
  <2> DEFINE a == Len(f[i])
             b == Len(f[k])
             c == Len(f[k - 1])
             d == Len(ss[k])
  <2>8. a \in Nat /\ b = c + d /\ d \in Nat /\ c \in Nat /\ a <= c /\ ~(a <= b)
    BY <1>1, <1>7, <2>2, <2>5, <2>7
  <2> HIDE DEF a, b, c, d
  <2> QED BY <2>8
<1>10. FlattenSeq(ss) = f[Len(ss)] /\ Len(ss) \in i..Len(ss)
  BY <1>1, <1>3 DEF FlattenRun
<1> QED
  BY <1>8, <1>9, <1>10 DEF tt

\* A list backwards.
LEMMA ReverseFacts ==
    ASSUME NEW S, NEW s \in Seq(S)
    PROVE  Reverse(s) \in Seq(S)
<1>1. Len(s) \in Nat /\ \A j \in 1..Len(s) : (Len(s) - j) + 1 \in 1..Len(s)
  OBVIOUS
<1>2. Reverse(s) \in [1..Len(s) -> S]
  BY <1>1 DEF Reverse
<1> QED
  BY <1>1, <1>2, FunctionIsSeq

\* The elements of a finite set are a list.
LEMMA SetToSeqFacts ==
    ASSUME NEW S, IsFiniteSet(S)
    PROVE  SetToSeq(S) \in Seq(S)
<1>1. Cardinality(S) \in Nat /\ ExistsBijection(1..Cardinality(S), S)
  BY FS_CardinalityType
<1>2. PICK f \in [1..Cardinality(S) -> S] : IsInjective(f)
  BY <1>1 DEF ExistsBijection, Bijection, Injection, IsInjective
<1>3. SetToSeq(S) \in [1..Cardinality(S) -> S]
  <2>1. SetToSeq(S) = CHOOSE h \in [1..Cardinality(S) -> S] : IsInjective(h)
    BY DEF SetToSeq
  <2> QED BY <1>2, <2>1, Zenon
<1> QED
  BY <1>1, <1>3, FunctionIsSeq

\* Pairs, joined.
LEMMA FlattenPairs ==
    ASSUME NEW S, NEW ss \in Seq(Seq(S)), \A i \in 1..Len(ss) : Len(ss[i]) = 2
    PROVE  Len(FlattenSeq(ss)) = 2 * Len(ss)
<1>1. Len(ss) \in Nat
  OBVIOUS
<1>2. PICK f : FlattenRun(f, ss, S)
  BY FlattenRuns
<1> DEFINE Bad == {k \in Nat : k \in 1..Len(ss) /\ Len(f[k]) # 2 * k}
<1>3. Bad = {}
  <2> SUFFICES ASSUME Bad # {} PROVE FALSE
    OBVIOUS
  <2>1. PICK k \in Bad : \A e \in Bad : k <= e
    <3>1. Bad \in SUBSET Nat
      OBVIOUS
    <3> HIDE DEF Bad
    <3> QED BY <3>1, Smallest
  <2>2. k \in 1..Len(ss) /\ k \in Nat /\ Len(f[k]) # 2 * k
    OBVIOUS
  <2>3. CASE k = 1
    <3>1. f[k] = ss[k] /\ Len(ss[k]) = 2
      BY <1>2, <2>2, <2>3 DEF FlattenRun
    <3> QED BY <2>2, <2>3, <3>1
  <2>4. CASE k # 1
    <3>1. k - 1 \in Nat /\ k - 1 \in 1..Len(ss) /\ ~(k <= k - 1)
      BY <1>1, <2>2, <2>4
    <3>2. k - 1 \notin Bad
      <4> HIDE DEF Bad
      <4> QED BY <2>1, <3>1
    <3>3. Len(f[k - 1]) = 2 * (k - 1)
      BY <3>1, <3>2
    <3> HIDE DEF Bad
    <3>4. f[k] = f[k - 1] \o ss[k] /\ f[k - 1] \in Seq(S) /\ ss[k] \in Seq(S) /\ Len(ss[k]) = 2
      <4>1. f[k] = f[k - 1] \o ss[k] /\ f[k - 1] \in Seq(S)
        BY <1>2, <2>2, <2>4, <3>1 DEF FlattenRun
      <4>2. ss[k] \in Seq(S) /\ Len(ss[k]) = 2
        BY <2>2
      <4> QED BY <4>1, <4>2
    <3>5. Len(f[k]) = Len(f[k - 1]) + Len(ss[k])
      BY <3>4, ConcatFacts
    <3> DEFINE a == Len(f[k])
    <3>6. a = 2 * (k - 1) + 2 /\ a # 2 * k /\ k \in Nat
      BY <2>2, <3>3, <3>4, <3>5
    <3> HIDE DEF a
    <3> QED BY <3>6
  <2> QED BY <2>3, <2>4
<1>4. CASE Len(ss) = 0
  BY <1>2, <1>4 DEF FlattenRun
<1>5. CASE Len(ss) # 0
  <2>1. FlattenSeq(ss) = f[Len(ss)]
    BY <1>2, <1>5 DEF FlattenRun
  <2>2. Len(ss) \in 1..Len(ss)
    <3> DEFINE n == Len(ss)
    <3>1. n \in Nat /\ n # 0
      BY <1>1, <1>5
    <3> HIDE DEF n
    <3>2. n \in 1..n
      BY <3>1
    <3> QED BY <3>2 DEF n
  <2>3. Len(ss) \notin Bad
    <3> HIDE DEF Bad
    <3> QED BY <1>3, Zenon
  <2>4. Len(f[Len(ss)]) = 2 * Len(ss)
    BY <1>1, <2>2, <2>3
  <2> QED BY <2>1, <2>4
<1> QED
  BY <1>4, <1>5

=============================================================================
