---------------------------- MODULE Training_proofs ----------------------------
(***************************************************************************)
(* What Training promises, for every vocabulary, every model to start with, *)
(* every set of sentences and any number of overlapping trainings.          *)
(***************************************************************************)
EXTENDS Training, Lists_proofs

-----------------------------------------------------------------------------
(* The lookup of KBAnnotatorImpl                                            *)

\* The first answer is None or one of the answers.
LEMMA FirstFoundType ==
    ASSUME NEW A, NEW s \in Seq(A \cup {None})
    PROVE  FirstFound(s) \in A \cup {None}
<1> DEFINE found == {i \in DOMAIN s : s[i] # None}
<1>1. FirstFound(s) = IF found = {} THEN None ELSE s[Min(found)]
  BY Zenon DEF FirstFound
<1>2. CASE found = {}
  BY <1>1, <1>2
<1>3. CASE found # {}
  <2>1. found \in SUBSET Nat
    OBVIOUS
  <2>2. Min(found) \in found
    <3> HIDE DEF found
    <3> QED BY <1>3, <2>1, MinFacts
  <2>3. \A i \in found : s[i] \in A \cup {None}
    OBVIOUS
  <2> HIDE DEF found
  <2> QED BY <1>1, <1>3, <2>2, <2>3
<1> QED
  BY <1>2, <1>3

\* An answer stays the first when others are appended to the list.
LEMMA FirstFoundStays ==
    ASSUME NEW A, NEW s \in Seq(A), NEW r \in Seq(A), FirstFound(s) # None
    PROVE  FirstFound(s \o r) = FirstFound(s)
<1> DEFINE found(q) == {i \in DOMAIN q : q[i] # None}
<1>1. \A q : FirstFound(q) = IF found(q) = {} THEN None ELSE q[Min(found(q))]
  BY Zenon DEF FirstFound
<1>2. found(s) # {}
  <2> HIDE DEF found
  <2> QED BY <1>1
<1>3. found(s) \in SUBSET Nat /\ found(s \o r) \in SUBSET Nat
  OBVIOUS
<1>4. \A i \in DOMAIN s : i \in DOMAIN (s \o r) /\ (s \o r)[i] = s[i] /\ i \in 1..Len(s)
  OBVIOUS
<1>5. \A i \in found(s) : i \in found(s \o r) /\ i \in DOMAIN s
  BY <1>4
<1>6. \A i \in found(s \o r) : i <= Len(s) => i \in found(s)
  <2> SUFFICES ASSUME NEW i \in found(s \o r), i <= Len(s) PROVE i \in found(s)
    OBVIOUS
  <2>1. i \in DOMAIN (s \o r) /\ (s \o r)[i] # None
    OBVIOUS
  <2>2. i \in DOMAIN s
    BY <2>1
  <2> QED BY <1>4, <2>1, <2>2
<1> DEFINE a == Min(found(s))
           b == Min(found(s \o r))
<1>7. a \in found(s) /\ \A i \in found(s) : a <= i
  <2> HIDE DEF found
  <2> QED BY <1>2, <1>3, MinFacts
<1>8. found(s \o r) # {}
  <2> HIDE DEF found, a, b
  <2> QED BY <1>5, <1>7
<1>9. b \in found(s \o r) /\ \A i \in found(s \o r) : b <= i
  <2> HIDE DEF found, a
  <2> QED BY <1>3, <1>8, MinFacts
<1>10. a = b
  <2>1. b <= a /\ a \in 1..Len(s) /\ Len(s) \in Nat /\ b \in Nat
    <3> HIDE DEF found, a, b
    <3> QED BY <1>3, <1>4, <1>5, <1>7, <1>9
  <2>2. b \in found(s)
    <3> HIDE DEF found, a, b
    <3> QED BY <1>6, <1>9, <2>1
  <2> HIDE DEF found, a, b
  <2> QED BY <1>7, <2>1, <2>2
<1>11. (s \o r)[a] = s[a]
  <2> HIDE DEF found, a, b
  <2> QED BY <1>4, <1>5, <1>7
<1> HIDE DEF found
<1> QED
  BY <1>1, <1>2, <1>8, <1>10, <1>11

LEMMA ConceptFacts ==
    /\ \A w \in Words : Default(w) \in Concepts
    /\ \A t \in Trainers, w \in Words : Instance(t, w) \in Concepts
    /\ \A c \in Concepts : c.word \in Words
<1> QED BY DEF Concepts, Default, Instance

LEMMA ConceptsAreFinite == IsFiniteSet(Concepts)
<1> DEFINE By == Trainers \cup {"default"}
           f == [p \in Words \X By |-> [word |-> p[1], by |-> p[2]]]
<1>1. IsFiniteSet(Words) /\ IsFiniteSet(By)
  BY TrainingAssumption, FS_AddElement
<1>2. IsFiniteSet(Words \X By)
  <2> HIDE DEF By
  <2> QED BY <1>1, FS_Product
<1>3. f \in Surjection(Words \X By, Concepts)
  <2>1. ASSUME NEW c \in Concepts PROVE \E p \in Words \X By : f[p] = c
    <3>1. <<c.word, c.by>> \in Words \X By
      BY DEF Concepts
    <3>2. f[<<c.word, c.by>>] = c
      BY <3>1 DEF Concepts
    <3> QED BY <3>1, <3>2
  <2>2. f \in [Words \X By -> Concepts]
    BY DEF Concepts
  <2> HIDE DEF f, By
  <2> QED BY <2>1, <2>2 DEF Surjection
<1> HIDE DEF f
<1> QED
  BY <1>2, <1>3, FS_Surjection DEF ExistsSurjection

\* Specialisation is None or a concept.
LEMMA SpecialisationType ==
    ASSUME NEW v \in Words, NEW w
    PROVE  Specialisation(v, w) \in Concepts \cup {None}
<1> DEFINE D == Words
           V == Concepts \cup {None}
           Step(f, u) ==
               FirstFound([i \in DOMAIN Below[u] |->
                   IF Below[u][i] = w THEN Default(Below[u][i]) ELSE f[Below[u][i]]])
           check == CHOOSE f : f = [u \in D |-> Step(f, u)]
           B == [u \in D |-> Range(Below[u])]
           H == [f \in [D -> V] |-> [u \in D |-> Step(f, u)]]
<1>0. Below \in [Words -> Seq(Words)] /\ NoCycles(Words, Below)
  BY TrainingAssumption
<1>1. \A u \in D : /\ Below[u] \in Seq(Words)
                   /\ \A i \in DOMAIN Below[u] : Below[u][i] \in Words /\ Below[u][i] \in B[u]
  <2> SUFFICES ASSUME NEW u \in D
               PROVE /\ Below[u] \in Seq(Words)
                     /\ \A i \in DOMAIN Below[u] : Below[u][i] \in Words /\ Below[u][i] \in B[u]
    OBVIOUS
  <2>1. Below[u] \in Seq(Words)
    BY <1>0
  <2>2. \A i \in DOMAIN Below[u] : Below[u][i] \in Words
    BY <2>1
  <2>3. \A i \in DOMAIN Below[u] : Below[u][i] \in Range(Below[u])
    BY Zenon DEF Range
  <2> QED BY <2>1, <2>2, <2>3
<1>2. B \in [D -> SUBSET D]
  <2>1. \A u \in D : Range(Below[u]) \subseteq Words
    BY <1>1 DEF Range
  <2> QED BY <2>1
<1>3. WellFounded(D, B)
  BY <1>0 DEF WellFounded, NoCycles
<1>4. ASSUME NEW f, NEW u \in D, \A e \in B[u] : f[e] \in V
      PROVE  Step(f, u) \in V
  <2> DEFINE s == [i \in DOMAIN Below[u] |->
                   IF Below[u][i] = w THEN Default(Below[u][i]) ELSE f[Below[u][i]]]
  <2>1. \A i \in DOMAIN Below[u] : s[i] \in V
    <3> HIDE DEF B
    <3> QED BY <1>1, <1>4, ConceptFacts
  <2>2. s \in Seq(V)
    <3>1. DOMAIN Below[u] = 1..Len(Below[u]) /\ Len(Below[u]) \in Nat
      BY <1>1
    <3>2. s \in [1..Len(Below[u]) -> V]
      <4>1. s = [i \in DOMAIN Below[u] |-> s[i]]
        OBVIOUS
      <4> HIDE DEF s, V
      <4> QED BY <2>1, <3>1, <4>1
    <3> HIDE DEF s, V
    <3> QED BY <3>1, <3>2
  <2> HIDE DEF s
  <2>3. FirstFound(s) \in V
    BY <2>2, FirstFoundType
  <2> QED BY <2>3 DEF s
<1>5. H \in [[D -> V] -> [D -> V]]
  <2>1. \A f \in [D -> V] : \A u \in D : Step(f, u) \in V
    <3> HIDE DEF Step, V
    <3> QED BY <1>2, <1>4
  <2> HIDE DEF D, V, Step
  <2> QED BY <2>1
<1>6. DependsOn(D, V, B, H)
  <2> SUFFICES ASSUME NEW f \in [D -> V], NEW g \in [D -> V], NEW u \in D,
                      \A e \in B[u] : f[e] = g[e]
               PROVE  Step(f, u) = Step(g, u)
    <3> HIDE DEF D, V, Step, B
    <3> QED BY DEF DependsOn
  <2>1. \A i \in DOMAIN Below[u] : f[Below[u][i]] = g[Below[u][i]]
    <3> HIDE DEF B
    <3> QED BY <1>1
  <2> QED BY <2>1
<1>7. \E f : f = [u \in D |-> Step(f, u)]
  <2>1. PICK f \in [D -> V] : f = H[f]
    <3> HIDE DEF D, Step, B, H
    <3>1. IsRecursion(D, V, B, H)
      BY <1>2, <1>3, <1>5, <1>6 DEF IsRecursion
    <3>2. HasSolution(D, V, H)
      <4> HIDE DEF V
      <4> QED BY <3>1, RecursionExists
    <3> QED BY <3>2 DEF HasSolution
  <2> HIDE DEF D, V, Step, B
  <2> QED BY <2>1
<1>8. check = [u \in D |-> Step(check, u)]
  <2> HIDE DEF Step, D
  <2> QED BY <1>7, Zenon
<1>9. \A u \in D : check[u] = Step(check, u)
  <2> HIDE DEF Step, check, D
  <2> QED BY <1>8, Zenon
<1>10. Specialisation(v, w) = check[v]
  BY Zenon DEF Specialisation, check, MapSeq
<1> HIDE DEF check
<1> DEFINE Bad == {u \in D : check[u] \notin V}
<1>11. Bad = {}
  <2>1. SUFFICES ASSUME Bad # {} PROVE FALSE
    OBVIOUS
  <2>2. PICK u \in Bad : B[u] \cap Bad = {}
    <3>1. Bad \in SUBSET D
      OBVIOUS
    <3> HIDE DEF Bad, B, D
    <3> QED BY <1>3, <2>1, <3>1 DEF WellFounded
  <2>3. \A e \in B[u] : check[e] \in V
    <3>1. u \in D /\ B[u] \subseteq D
      <4> HIDE DEF B, V
      <4> QED BY <1>2
    <3> HIDE DEF B, V
    <3> QED BY <2>2, <3>1
  <2>4. Step(check, u) \in V
    <3> HIDE DEF Step, V, B
    <3> QED BY <1>4, <2>3
  <2> HIDE DEF Step, V
  <2> QED BY <1>9, <2>4
<1> HIDE DEF V
<1> QED
  BY <1>10, <1>11 DEF V

\* What checkList answers for a node.
Answer(n, w) ==
    IF n.word = w THEN n ELSE IF n.by = "default" THEN Specialisation(n.word, w) ELSE None
Answers(lst, w) == [i \in DOMAIN lst |-> Answer(lst[i], w)]

LEMMA AnswersType ==
    ASSUME NEW lst \in Seq(Concepts), NEW w
    PROVE  /\ Answers(lst, w) \in Seq(Concepts \cup {None})
           /\ Len(Answers(lst, w)) = Len(lst)
           /\ CheckList(lst, w) = FirstFound(Answers(lst, w))
<1> DEFINE V == Concepts \cup {None}
<1>1. \A n \in Concepts : Answer(n, w) \in V
  BY ConceptFacts, SpecialisationType DEF Answer
<1>2. Len(lst) \in Nat /\ DOMAIN lst = 1..Len(lst) /\ \A i \in DOMAIN lst : lst[i] \in Concepts
  OBVIOUS
<1>3. Answers(lst, w) \in [1..Len(lst) -> V]
  <2> HIDE DEF V
  <2> QED BY <1>1, <1>2 DEF Answers
<1>4. Answers(lst, w) \in Seq(V) /\ Len(Answers(lst, w)) = Len(lst)
  <2> HIDE DEF V
  <2> QED BY <1>2, <1>3
<1>5. CheckList(lst, w) = FirstFound(Answers(lst, w))
  BY Zenon DEF CheckList, Answers, Answer, MapSeq
<1> QED
  BY <1>4, <1>5

LEMMA CheckListType ==
    ASSUME NEW lst \in Seq(Concepts), NEW w
    PROVE  CheckList(lst, w) \in Concepts \cup {None}
  BY AnswersType, FirstFoundType

\* A word that is found is found at the same concept when nodes are appended.
LEMMA CheckListStays ==
    ASSUME NEW lst \in Seq(Concepts), NEW more \in Seq(Concepts), NEW w,
           CheckList(lst, w) # None
    PROVE  CheckList(lst \o more, w) = CheckList(lst, w)
<1> DEFINE V == Concepts \cup {None}
           a == Answers(lst, w)
           b == Answers(more, w)
<1>1. lst \o more \in Seq(Concepts)
  OBVIOUS
<1>2. /\ a \in Seq(V) /\ Len(a) = Len(lst) /\ CheckList(lst, w) = FirstFound(a)
      /\ b \in Seq(V) /\ Len(b) = Len(more)
  BY AnswersType
<1>3. Answers(lst \o more, w) = a \o b
  <2> DEFINE q == Answers(lst \o more, w)
  <2>1. q \in Seq(V) /\ Len(q) = Len(lst \o more)
    BY <1>1, AnswersType
  <2>2. Len(lst) \in Nat /\ Len(more) \in Nat /\ Len(lst \o more) = Len(lst) + Len(more)
    OBVIOUS
  <2>3. a \o b \in Seq(V) /\ Len(a \o b) = Len(lst) + Len(more)
    <3> HIDE DEF a, b, V
    <3> QED BY <1>2
  <2>4. ASSUME NEW i \in 1..(Len(lst) + Len(more)) PROVE q[i] = (a \o b)[i]
    <3>1. q[i] = Answer((lst \o more)[i], w)
      <4>1. i \in DOMAIN (lst \o more)
        BY <2>2
      <4> QED BY <4>1, Zenon DEF Answers
    <3>2. CASE i <= Len(lst)
      <4>1. (lst \o more)[i] = lst[i] /\ i \in DOMAIN lst
        BY <2>2, <3>2
      <4>2. a[i] = Answer(lst[i], w)
        BY <4>1, Zenon DEF Answers
      <4>3. (a \o b)[i] = a[i]
        <5> HIDE DEF a, b, V
        <5> QED BY <1>2, <2>2, <3>2
      <4> HIDE DEF a, b, q
      <4> QED BY <3>1, <4>1, <4>2, <4>3
    <3>3. CASE ~(i <= Len(lst))
      <4>1. (lst \o more)[i] = more[i - Len(lst)] /\ i - Len(lst) \in DOMAIN more
        BY <2>2, <3>3
      <4>2. b[i - Len(lst)] = Answer(more[i - Len(lst)], w)
        BY <4>1, Zenon DEF Answers
      <4>3. (a \o b)[i] = b[i - Len(lst)]
        <5> HIDE DEF a, b, V
        <5> QED BY <1>2, <2>2, <3>3
      <4> HIDE DEF a, b, q
      <4> QED BY <3>1, <4>1, <4>2, <4>3
    <3> QED BY <3>2, <3>3
  <2> HIDE DEF a, b, q, V
  <2>5. q = a \o b
    BY <2>1, <2>2, <2>3, <2>4
  <2> QED BY <2>5 DEF q
<1>4. FirstFound(a \o b) = FirstFound(a)
  <2> HIDE DEF a, b, V
  <2> QED BY <1>2, FirstFoundStays
<1>5. CheckList(lst \o more, w) = FirstFound(a \o b)
  <2> HIDE DEF a, b, V
  <2> QED BY <1>1, <1>3, AnswersType
<1> QED
  BY <1>2, <1>4, <1>5

LEMMA AnnotatePhraseType ==
    ASSUME model \in Seq(Concepts), NEW w \in Words, NEW reached
    PROVE  AnnotatePhrase(w, reached) \in Concepts \cup {None}
<1> DEFINE V == Concepts \cup {None}
           ws == <<w>> \o (IF w \in reached THEN Synonyms[w] ELSE <<>>)
           s == [i \in DOMAIN ws |-> CheckLocalKB(ws[i])]
<1>1. ws \in Seq(Words)
  <2>1. Synonyms[w] \in Seq(Words)
    BY TrainingAssumption
  <2> QED BY <2>1
<1>2. \A v : CheckLocalKB(v) \in V
  BY CheckListType DEF CheckLocalKB
<1>3. s \in Seq(V)
  <2>1. Len(ws) \in Nat /\ DOMAIN ws = 1..Len(ws)
    <3> HIDE DEF ws
    <3> QED BY <1>1
  <2>2. s \in [1..Len(ws) -> V]
    <3> HIDE DEF ws, V
    <3> QED BY <1>2, <2>1
  <2> HIDE DEF s, ws, V
  <2> QED BY <2>1, <2>2
<1>4. AnnotatePhrase(w, reached) = FirstFound(s)
  BY Zenon DEF AnnotatePhrase, MapSeq
<1> HIDE DEF s
<1> QED
  BY <1>3, <1>4, FirstFoundType

-----------------------------------------------------------------------------
(* The steps of LinkParser                                                  *)

Steps(s) == [word : Range(s.words), does : {"visit", "link"}]

\* A list of lists, made of the values of a function.
LEMMA FlattenMap ==
    ASSUME NEW D, NEW S, NEW f, NEW ws \in Seq(D), \A i \in DOMAIN ws : f[ws[i]] \in Seq(S)
    PROVE  /\ FlattenSeq([i \in DOMAIN ws |-> f[ws[i]]]) \in Seq(S)
           /\ Range(FlattenSeq([i \in DOMAIN ws |-> f[ws[i]]]))
                 = UNION {Range(f[ws[i]]) : i \in DOMAIN ws}
<1> DEFINE ss == [i \in DOMAIN ws |-> f[ws[i]]]
           V == Seq(S)
<1>1. Len(ws) \in Nat /\ DOMAIN ws = 1..Len(ws)
  OBVIOUS
<1>2. ss \in [1..Len(ws) -> V]
  <2> HIDE DEF V
  <2> QED BY <1>1 DEF V
<1>3. ss \in Seq(V) /\ DOMAIN ss = DOMAIN ws /\ \A i \in DOMAIN ws : ss[i] = f[ws[i]]
  <2>1. ss \in Seq(V)
    <3> HIDE DEF V, ss
    <3> QED BY <1>1, <1>2
  <2> QED BY <2>1
<1> HIDE DEF ss
<1>4. FlattenSeq(ss) \in Seq(S) /\ Range(FlattenSeq(ss)) = UNION {Range(ss[i]) : i \in DOMAIN ss}
  BY <1>3, FlattenFacts
<1>5. Range(FlattenSeq(ss)) = UNION {Range(f[ws[i]]) : i \in DOMAIN ws}
  BY <1>3, <1>4, SMTT(30)
<1> QED
  BY <1>4, <1>5 DEF ss

\* ProcessNode is a list of steps over the words of the sentence.
LEMMA ProcessNodeType ==
    ASSUME NEW s \in Sentences
    PROVE  ProcessNode(s) \in Seq(Steps(s))
<1> DEFINE D == Range(s.words)
           V == Seq(Steps(s))
           Through(f, ws) == FlattenSeq([i \in DOMAIN ws |-> f[ws[i]]])
           Step(f, w) ==
               <<[word |-> w, does |-> "visit"]>> \o Through(f, ProcessLink(s, w))
                  \o <<[word |-> w, does |-> "link"]>> \o Through(f, s.next[w])
           steps == CHOOSE f : f = [w \in D |-> Step(f, w)]
           B == [w \in D |-> Range(s.deps[w] \o s.next[w])]
           H == [f \in [D -> V] |-> [w \in D |-> Step(f, w)]]
<1>0. /\ s.head \in D
      /\ s.deps \in [D -> Seq(D)] /\ s.next \in [D -> Seq(D)]
      /\ NoCycles(D, [w \in D |-> s.deps[w] \o s.next[w]])
  BY TrainingAssumption
<1> HIDE DEF D
<1>1. ASSUME NEW w \in D
      PROVE  /\ s.deps[w] \in Seq(D) /\ s.next[w] \in Seq(D)
             /\ B[w] \subseteq D
             /\ \A i \in DOMAIN s.deps[w] : s.deps[w][i] \in B[w]
             /\ \A i \in DOMAIN s.next[w] : s.next[w][i] \in B[w]
  <2> DEFINE p == s.deps[w]
             q == s.next[w]
  <2>1. p \in Seq(D) /\ q \in Seq(D)
    BY <1>0
  <2>2. B[w] = Range(p \o q)
    OBVIOUS
  <2> HIDE DEF p, q, B
  <2>3. B[w] = Range(p) \cup Range(q)
    BY <2>1, <2>2, ConcatFacts
  <2>4. Range(p) \subseteq D /\ Range(q) \subseteq D
    BY <2>1 DEF Range
  <2>5. (\A i \in DOMAIN p : p[i] \in Range(p)) /\ (\A i \in DOMAIN q : q[i] \in Range(q))
    BY Zenon DEF Range
  <2>6. /\ p \in Seq(D) /\ q \in Seq(D)
        /\ B[w] \subseteq D
        /\ \A i \in DOMAIN p : p[i] \in B[w]
        /\ \A i \in DOMAIN q : q[i] \in B[w]
    BY <2>1, <2>3, <2>4, <2>5
  <2> QED BY <2>6 DEF p, q
<1>2. B \in [D -> SUBSET D]
  <2>1. \A w \in D : Range(s.deps[w] \o s.next[w]) \in SUBSET D
    BY <1>1
  <2> QED BY <2>1
<1>3. WellFounded(D, B)
  <2>1. \A w \in D : B[w] = Range([v \in D |-> s.deps[v] \o s.next[v]][w])
    OBVIOUS
  <2> HIDE DEF B
  <2> QED BY <1>0, <2>1 DEF WellFounded, NoCycles
<1>4. ASSUME NEW w \in D
      PROVE  /\ ProcessLink(s, w) \in Seq(D)
             /\ \A i \in DOMAIN ProcessLink(s, w) : ProcessLink(s, w)[i] \in B[w]
  <2> DEFINE p == s.deps[w]
  <2>1. p \in Seq(D) /\ \A i \in DOMAIN p : p[i] \in B[w]
    BY <1>1
  <2>2. ProcessLink(s, w) = p \o p
    BY DEF ProcessLink
  <2> HIDE DEF p, B
  <2>3. ASSUME NEW i \in DOMAIN (p \o p) PROVE (p \o p)[i] \in B[w]
    <3>1. CASE i <= Len(p)
      BY <2>1, <3>1
    <3>2. CASE ~(i <= Len(p))
      BY <2>1, <3>2
    <3> QED BY <3>1, <3>2
  <2> QED BY <2>1, <2>2, <2>3
<1>5. ASSUME NEW f, NEW w \in D, \A e \in B[w] : f[e] \in V
      PROVE  Step(f, w) \in V
  <2> HIDE DEF B
  <2>1. Through(f, ProcessLink(s, w)) \in V
    <3> DEFINE ws == ProcessLink(s, w)
    <3>1. ws \in Seq(D) /\ \A i \in DOMAIN ws : f[ws[i]] \in Seq(Steps(s))
      BY <1>4, <1>5
    <3> HIDE DEF ws
    <3>2. Through(f, ws) \in Seq(Steps(s))
      BY <3>1, FlattenMap
    <3> QED BY <3>2 DEF ws
  <2>2. Through(f, s.next[w]) \in V
    <3> DEFINE ws == s.next[w]
    <3>1. ws \in Seq(D) /\ \A i \in DOMAIN ws : f[ws[i]] \in Seq(Steps(s))
      BY <1>1, <1>5
    <3> HIDE DEF ws
    <3>2. Through(f, ws) \in Seq(Steps(s))
      BY <3>1, FlattenMap
    <3> QED BY <3>2 DEF ws
  <2>3. [word |-> w, does |-> "visit"] \in Steps(s) /\ [word |-> w, does |-> "link"] \in Steps(s)
    BY DEF Steps, D
  <2> HIDE DEF Through
  <2> QED BY <2>1, <2>2, <2>3
<1>6. H \in [[D -> V] -> [D -> V]]
  <2>1. \A f \in [D -> V] : \A w \in D : Step(f, w) \in V
    <3> HIDE DEF Step, V, B
    <3> QED BY <1>2, <1>5
  <2> HIDE DEF V, Step
  <2> QED BY <2>1
<1>7. DependsOn(D, V, B, H)
  <2> SUFFICES ASSUME NEW f \in [D -> V], NEW g \in [D -> V], NEW w \in D,
                      \A e \in B[w] : f[e] = g[e]
               PROVE  Step(f, w) = Step(g, w)
    <3> HIDE DEF V, Step, B
    <3> QED BY DEF DependsOn
  <2> HIDE DEF B
  <2>1. \A i \in DOMAIN ProcessLink(s, w) : f[ProcessLink(s, w)[i]] = g[ProcessLink(s, w)[i]]
    BY <1>4
  <2>2. \A i \in DOMAIN s.next[w] : f[s.next[w][i]] = g[s.next[w][i]]
    BY <1>1
  <2>3. Through(f, ProcessLink(s, w)) = Through(g, ProcessLink(s, w))
    BY <2>1
  <2>4. Through(f, s.next[w]) = Through(g, s.next[w])
    BY <2>2
  <2> HIDE DEF Through
  <2> QED BY <2>3, <2>4
<1>8. \E f : f = [w \in D |-> Step(f, w)]
  <2>1. PICK f \in [D -> V] : f = H[f]
    <3> HIDE DEF Step, B, H
    <3>1. <<>> \in V
      OBVIOUS
    <3>2. IsRecursion(D, V, B, H)
      <4> HIDE DEF V
      <4> QED BY <1>2, <1>3, <1>6, <1>7, <3>1 DEF IsRecursion
    <3>3. HasSolution(D, V, H)
      <4> HIDE DEF V
      <4> QED BY <3>2, RecursionExists
    <3> QED BY <3>3 DEF HasSolution
  <2> HIDE DEF V, Step, B
  <2> QED BY <2>1
<1>9. steps = [w \in D |-> Step(steps, w)]
  <2> HIDE DEF Step
  <2> QED BY <1>8, Zenon
<1>10. \A w \in D : steps[w] = Step(steps, w)
  <2> HIDE DEF Step, steps
  <2> QED BY <1>9, Zenon
<1>11. ProcessNode(s) = steps[s.head]
  BY Zenon DEF ProcessNode, steps, MapSeq, D
<1> HIDE DEF steps
<1> DEFINE Bad == {w \in D : steps[w] \notin V}
<1>12. Bad = {}
  <2>1. SUFFICES ASSUME Bad # {} PROVE FALSE
    OBVIOUS
  <2>2. PICK w \in Bad : B[w] \cap Bad = {}
    <3>1. Bad \in SUBSET D
      OBVIOUS
    <3> HIDE DEF Bad, B
    <3> QED BY <1>3, <2>1, <3>1 DEF WellFounded
  <2>3. \A e \in B[w] : steps[e] \in V
    <3>1. w \in D /\ B[w] \subseteq D
      <4> HIDE DEF B, V
      <4> QED BY <1>2
    <3> HIDE DEF B, V
    <3> QED BY <2>2, <3>1
  <2>4. Step(steps, w) \in V
    <3> HIDE DEF Step, V, B
    <3> QED BY <1>5, <2>3
  <2> HIDE DEF Step, V
  <2> QED BY <1>10, <2>4
<1> HIDE DEF V
<1> QED
  BY <1>0, <1>11, <1>12 DEF V

LEMMA BeforeType ==
    ASSUME NEW S, NEW steps \in Seq(S), NEW bad
    PROVE  Before(steps, bad) \in Seq(S)
<1> DEFINE visits == {i \in DOMAIN steps : steps[i] = [word |-> bad, does |-> "visit"]}
<1>1. Before(steps, bad) = IF visits = {} THEN steps ELSE SubSeq(steps, 1, Min(visits) - 1)
  BY Zenon DEF Before
<1>2. CASE visits = {}
  BY <1>1, <1>2
<1>3. CASE visits # {}
  <2>1. visits \in SUBSET Nat /\ visits \subseteq 1..Len(steps) /\ Len(steps) \in Nat
    OBVIOUS
  <2> HIDE DEF visits
  <2>2. Min(visits) \in visits
    BY <1>3, <2>1, MinFacts
  <2>3. Min(visits) \in 1..Len(steps)
    BY <2>1, <2>2
  <2>4. SubSeq(steps, 1, Min(visits) - 1) \in Seq(S)
    BY <2>1, <2>3
  <2> QED BY <1>1, <1>3, <2>4
<1> QED
  BY <1>2, <1>3

\* A training that knows its sentence has a concept for each of its words.
Annotated(t) ==
    /\ training[t].sentence \in Sentences
    /\ training[t].concept \in [Range(training[t].sentence.words) -> Concepts \cup {None}]

LEMMA GetConceptType ==
    ASSUME NEW t \in Trainers, Annotated(t), NEW w \in Range(training[t].sentence.words)
    PROVE  GetConcept(t, w) \in Concepts
<1>1. w \in Words
  <2>1. training[t].sentence.words \in Seq(Words)
    BY TrainingAssumption DEF Annotated
  <2> QED BY <2>1 DEF Range
<1>2. Instance(t, w) \in Concepts
  BY <1>1, ConceptFacts
<1>3. training[t].concept[w] \in Concepts \cup {None}
  BY DEF Annotated
<1> QED
  BY <1>2, <1>3 DEF GetConcept

\* The links that are added to a concept start there.
LEMMA AddLinksFacts ==
    ASSUME NEW t \in Trainers, Annotated(t),
           links \in [Concepts -> Seq(Concepts \X Concepts)],
           NEW steps \in Seq(Steps(training[t].sentence))
    PROVE  /\ AddLinks(t, steps) \in [Concepts -> Seq(Concepts \X Concepts)]
           /\ \A c \in Concepts : \E r \in Seq({c} \X Concepts) :
                 AddLinks(t, steps)[c] = links[c] \o r
<1> DEFINE s == training[t].sentence
           LinksTo(c, w) == [i \in DOMAIN s.deps[w] |-> <<c, GetConcept(t, s.deps[w][i])>>]
           Added(c, st) == IF st.does = "link" /\ GetConcept(t, st.word) = c
                           THEN LinksTo(c, st.word) ELSE <<>>
           New(c) == FlattenSeq([i \in DOMAIN steps |-> Added(c, steps[i])])
<1>1. AddLinks(t, steps) = [c \in Concepts |-> links[c] \o New(c)]
  BY Zenon DEF AddLinks, MapSeq
<1>2. /\ s.words \in Seq(Words)
      /\ s.deps \in [Range(s.words) -> Seq(Range(s.words))]
  BY TrainingAssumption DEF Annotated
<1>3. ASSUME NEW c \in Concepts, NEW w \in Range(s.words)
      PROVE  LinksTo(c, w) \in Seq({c} \X Concepts)
  <2> DEFINE ws == s.deps[w]
             P == {c} \X Concepts
  <2>1. ws \in Seq(Range(s.words))
    BY <1>2
  <2>2. \A i \in DOMAIN ws : ws[i] \in Range(s.words)
    <3> HIDE DEF ws, s
    <3> QED BY <2>1
  <2>3. \A i \in DOMAIN ws : GetConcept(t, ws[i]) \in Concepts
    BY <2>2, GetConceptType
  <2>4. \A i \in DOMAIN ws : <<c, GetConcept(t, ws[i])>> \in P
    <3> HIDE DEF ws
    <3> QED BY <2>3
  <2>5. Len(ws) \in Nat /\ DOMAIN ws = 1..Len(ws)
    <3> HIDE DEF ws, s
    <3> QED BY <2>1
  <2>6. [i \in DOMAIN ws |-> <<c, GetConcept(t, ws[i])>>] \in [1..Len(ws) -> P]
    <3> HIDE DEF ws, P
    <3> QED BY <2>4, <2>5
  <2>7. [i \in DOMAIN ws |-> <<c, GetConcept(t, ws[i])>>] \in Seq(P)
    <3> DEFINE q == [i \in DOMAIN ws |-> <<c, GetConcept(t, ws[i])>>]
    <3>1. q \in [1..Len(ws) -> P]
      BY <2>6
    <3> HIDE DEF ws, P, q
    <3>2. q \in Seq(P)
      BY <2>5, <3>1, FunctionIsSeq, Zenon
    <3> QED BY <3>2 DEF q
  <2> QED BY <2>7
<1>4. ASSUME NEW c \in Concepts PROVE New(c) \in Seq({c} \X Concepts)
  <2> DEFINE P == {c} \X Concepts
             V == Seq(P)
             ss == [i \in DOMAIN steps |-> Added(c, steps[i])]
  <2>1. Len(steps) \in Nat /\ DOMAIN steps = 1..Len(steps)
    OBVIOUS
  <2>2. ASSUME NEW i \in DOMAIN steps PROVE Added(c, steps[i]) \in V
    <3>1. steps[i] \in Steps(s)
      OBVIOUS
    <3>2. steps[i].word \in Range(s.words)
      BY <3>1 DEF Steps
    <3>3. LinksTo(c, steps[i].word) \in V
      BY <1>3, <3>2
    <3>4. <<>> \in V
      OBVIOUS
    <3> HIDE DEF LinksTo, V
    <3> QED BY <3>3, <3>4
  <2>3. ss \in [1..Len(steps) -> V]
    <3> HIDE DEF Added, V
    <3> QED BY <2>1, <2>2
  <2>4. ss \in Seq(V)
    <3> HIDE DEF ss, V
    <3> QED BY <2>1, <2>3, FunctionIsSeq, Zenon
  <2> HIDE DEF ss, P
  <2>5. FlattenSeq(ss) \in V
    BY <2>4, FlattenFacts
  <2> QED BY <2>5 DEF ss, P
<1> HIDE DEF New
<1>5. ASSUME NEW c \in Concepts
      PROVE  links[c] \o New(c) \in Seq(Concepts \X Concepts)
  <2> DEFINE Q == Concepts \X Concepts
  <2>1. {c} \X Concepts \subseteq Q
    OBVIOUS
  <2>2. New(c) \in Seq(Q)
    <3> HIDE DEF Q
    <3> QED BY <1>4, <2>1, LargerSeq, Zenon
  <2>3. links[c] \in Seq(Q)
    OBVIOUS
  <2> HIDE DEF Q
  <2>4. links[c] \o New(c) \in Seq(Q)
    BY <2>2, <2>3
  <2> QED BY <2>4 DEF Q
<1> QED
  BY <1>1, <1>4, <1>5

-----------------------------------------------------------------------------
(* The search of Correlation                                                *)

\* Shortest is one of the maps.
LEMMA ShortestFacts ==
    ASSUME NEW A, NEW maps \in Seq(Seq(A)), maps # <<>>
    PROVE  Shortest(maps) \in Range(maps)
<1> DEFINE shortest == {i \in DOMAIN maps :
                            \A j \in DOMAIN maps : Len(maps[i]) <= Len(maps[j])}
           rank == [i \in DOMAIN maps |-> Len(maps[i])]
<1>1. Len(maps) \in Nat /\ DOMAIN maps = 1..Len(maps) /\ DOMAIN maps # {}
  <2>1. Len(maps) > 0
    OBVIOUS
  <2>2. 1 \in DOMAIN maps
    BY <2>1
  <2> QED BY <2>2
<1>2. rank \in [DOMAIN maps -> Nat]
  OBVIOUS
<1>3. PICK d \in DOMAIN maps : \A e \in DOMAIN maps : rank[d] <= rank[e]
  <2> HIDE DEF rank
  <2> QED BY <1>1, <1>2, MinRank
<1>4. d \in shortest
  BY <1>3
<1>5. shortest \in SUBSET (1..Len(maps)) /\ shortest # {}
  BY <1>1, <1>4
<1>6. Max(shortest) \in shortest
  <2> HIDE DEF shortest
  <2> QED BY <1>1, <1>5, MaxFacts
<1>7. Shortest(maps) = maps[Max(shortest)]
  BY Zenon DEF Shortest
<1>8. Max(shortest) \in DOMAIN maps
  <2>1. \A i \in shortest : i \in DOMAIN maps
    OBVIOUS
  <2> HIDE DEF shortest
  <2> QED BY <1>6, <2>1
<1> QED
  BY <1>7, <1>8, Zenon DEF Range

\* The links of a concept start there.
LinksOK ==
    /\ links \in [Concepts -> Seq(Concepts \X Concepts)]
    /\ \A c \in Concepts : \A i \in DOMAIN links[c] : links[c][i][1] = c

\* What a concept is linked to.
NextTo(c) == {links[c][i][2] : i \in DOMAIN links[c]}

LEMMA NextToType ==
    ASSUME LinksOK, NEW c \in Concepts
    PROVE  NextTo(c) \subseteq Concepts
<1>1. links[c] \in Seq(Concepts \X Concepts)
  BY DEF LinksOK
<1>2. \A i \in DOMAIN links[c] : links[c][i][2] \in Concepts
  BY <1>1
<1> QED
  BY <1>2 DEF NextTo

LEMMA FilterFacts ==
    ASSUME LinksOK, NEW c \in Concepts, NEW P
    PROVE  /\ FilterLinksMapConcepts(c, P) \in Seq(Concepts)
           /\ Range(FilterLinksMapConcepts(c, P)) = NextTo(c) \ P
<1> DEFINE ls == links[c]
           others == [i \in DOMAIN ls |-> IF ls[i][1] = c THEN ls[i][2] ELSE ls[i][1]]
<1>1. FilterLinksMapConcepts(c, P) = Keep(others, Concepts \ P)
  BY Zenon DEF FilterLinksMapConcepts, MapSeq
<1>2. ls \in Seq(Concepts \X Concepts) /\ \A i \in DOMAIN ls : ls[i][1] = c
  BY DEF LinksOK
<1>3. Len(ls) \in Nat /\ DOMAIN ls = 1..Len(ls) /\ \A i \in DOMAIN ls : ls[i][2] \in Concepts
  <2> HIDE DEF ls
  <2> QED BY <1>2
<1>4. \A i \in DOMAIN ls : others[i] = ls[i][2]
  <2> HIDE DEF ls
  <2> QED BY <1>2
<1>5. others \in [1..Len(ls) -> Concepts] /\ DOMAIN others = DOMAIN ls
  <2> HIDE DEF ls
  <2> QED BY <1>2, <1>3
<1>6. others \in Seq(Concepts)
  <2> HIDE DEF ls, others
  <2> QED BY <1>3, <1>5, FunctionIsSeq
<1>7. Range(others) = NextTo(c)
  <2>1. Range(others) = {others[i] : i \in DOMAIN ls}
    <3> HIDE DEF ls, others
    <3> QED BY <1>5 DEF Range
  <2>2. {others[i] : i \in DOMAIN ls} = {ls[i][2] : i \in DOMAIN ls}
    <3> HIDE DEF ls, others
    <3> QED BY <1>4
  <2> QED BY <2>1, <2>2 DEF NextTo
<1> HIDE DEF others
<1>8. Keep(others, Concepts \ P) \in Seq(Concepts)
      /\ Range(Keep(others, Concepts \ P)) = Range(others) \cap (Concepts \ P)
  BY <1>6, KeepFacts
<1> QED
  BY <1>1, <1>7, <1>8, NextToType

\* The body of findPathToTarget: the path from at[1], given the paths of the others.
PathFrom(find, at) ==
    LET c == at[1]
        linked == FilterLinksMapConcepts(c, at[2])
        found == FoundMappings([i \in DOMAIN linked |-> find[<<linked[i], at[2] \cup {c}>>]])
        leaves == Keep(linked, Concepts \ UNION {Range(m) : m \in Range(found)})
    IN  IF FindInTarget(c) THEN <<c>>
        ELSE IF found = <<>> THEN DeadEnd(c)
        ELSE leaves \o <<c>> \o Shortest(found)

\* The mappings that were found.
FoundFrom(find, c, P) == {find[<<d, P \cup {c}>>] : d \in NextTo(c) \ P} \ {<<>>}

LEMMA PathFromFacts ==
    ASSUME LinksOK, NEW c \in Concepts, NEW P \in SUBSET Concepts, NEW find,
           \A d \in NextTo(c) \ P : find[<<d, P \cup {c}>>] \in Seq(Concepts)
    PROVE  LET path == PathFrom(find, <<c, P>>)
               R == FoundFrom(find, c, P)
           IN  /\ path \in Seq(Concepts)
               /\ FindInTarget(c) => path = <<c>>
               /\ ~FindInTarget(c) /\ R = {} => path = <<>>
               /\ ~FindInTarget(c) /\ R # {} =>
                     \E m \in R : /\ path # <<>>
                                  /\ Last(path) = Last(m)
                                  /\ c \in Range(path)
                                  /\ Range(path) \subseteq NextTo(c) \cup {c} \cup Range(m)
<1> DEFINE path == PathFrom(find, <<c, P>>)
           R == FoundFrom(find, c, P)
           Q == P \cup {c}
           linked == FilterLinksMapConcepts(c, P)
           res == [i \in DOMAIN linked |-> find[<<linked[i], Q>>]]
           found == FoundMappings(res)
           mapped == UNION {Range(m) : m \in Range(found)}
           leaves == Keep(linked, Concepts \ mapped)
           V == Seq(Concepts)
<1>1. path = IF FindInTarget(c) THEN <<c>>
             ELSE IF found = <<>> THEN <<>>
             ELSE leaves \o <<c>> \o Shortest(found)
  <2>1. (<<c, P>>)[1] = c /\ (<<c, P>>)[2] = P
    OBVIOUS
  <2> QED BY <2>1, Zenon DEF PathFrom, DeadEnd
<1> HIDE DEF path
<1>2. linked \in Seq(Concepts) /\ Range(linked) = NextTo(c) \ P
  BY FilterFacts
<1> HIDE DEF linked
<1>3. Len(linked) \in Nat /\ DOMAIN linked = 1..Len(linked)
      /\ \A i \in DOMAIN linked : linked[i] \in NextTo(c) \ P
  <2>1. \A i \in DOMAIN linked : linked[i] \in Range(linked)
    BY Zenon DEF Range
  <2> QED BY <1>2, <2>1
<1>4. res \in [1..Len(linked) -> V] /\ DOMAIN res = DOMAIN linked
  <2> HIDE DEF V, Q
  <2> QED BY <1>3 DEF V, Q
<1>5. res \in Seq(V)
  <2> HIDE DEF V, res
  <2> QED BY <1>3, <1>4, FunctionIsSeq
<1>6. Range(res) = {find[<<d, Q>>] : d \in NextTo(c) \ P}
  <2>1. Range(res) = {res[i] : i \in DOMAIN linked}
    <3> HIDE DEF res
    <3> QED BY <1>4 DEF Range
  <2>2. {res[i] : i \in DOMAIN linked} = {find[<<linked[i], Q>>] : i \in DOMAIN linked}
    <3> HIDE DEF Q
    <3> QED OBVIOUS
  <2>3. \A d : d \in NextTo(c) \ P <=> \E i \in DOMAIN linked : d = linked[i]
    <3>1. \A d : d \in Range(linked) <=> \E i \in DOMAIN linked : d = linked[i]
      BY Zenon DEF Range
    <3> QED BY <1>2, <3>1
  <2>4. {find[<<linked[i], Q>>] : i \in DOMAIN linked} = {find[<<d, Q>>] : d \in NextTo(c) \ P}
    <3> HIDE DEF Q
    <3> QED BY <2>3
  <2> HIDE DEF Q, res
  <2> QED BY <2>1, <2>2, <2>4
<1> HIDE DEF res
<1>7. found \in Seq(V) /\ Range(found) = Range(res) \cap (V \ {<<>>})
  <2> HIDE DEF V
  <2> QED BY <1>5, KeepFacts DEF FoundMappings, V
<1>8. Range(found) = R
  <2>1. \A d \in NextTo(c) \ P : find[<<d, Q>>] \in V
    OBVIOUS
  <2> HIDE DEF V, Q, found
  <2> QED BY <1>6, <1>7, <2>1 DEF FoundFrom, Q
<1> HIDE DEF found, R
<1>9. found = <<>> <=> R = {}
  <2> HIDE DEF V
  <2> QED BY <1>7, <1>8, EmptyRange
<1>10. leaves \in V /\ Range(leaves) \subseteq NextTo(c)
  <2>1. leaves \in V /\ Range(leaves) = Range(linked) \cap (Concepts \ mapped)
    <3> HIDE DEF mapped
    <3> QED BY <1>2, KeepFacts
  <2> HIDE DEF leaves, V
  <2> QED BY <1>2, <2>1
<1> HIDE DEF leaves
<1>11. ASSUME R # {}, ~FindInTarget(c)
       PROVE  /\ path \in V
              /\ \E m \in R : /\ path # <<>>
                              /\ Last(path) = Last(m)
                              /\ c \in Range(path)
                              /\ Range(path) \subseteq NextTo(c) \cup {c} \cup Range(m)
  <2> DEFINE m == Shortest(found)
             one == <<c>>
  <2>1. m \in R
    BY <1>7, <1>8, <1>9, <1>11, ShortestFacts
  <2>2. m \in V /\ m # <<>>
    <3> HIDE DEF m, V
    <3> QED BY <1>7, <1>8, <2>1
  <2>3. one \in V /\ Range(one) = {c}
    BY DEF Range
  <2>4. path = leaves \o one \o m
    BY <1>1, <1>9, <1>11
  <2> HIDE DEF m, one
  <2>5. leaves \o one \in V /\ Range(leaves \o one) = Range(leaves) \cup {c}
    BY <1>10, <2>3, ConcatFacts
  <2> DEFINE front == leaves \o one
  <2> HIDE DEF front
  <2>6. front \in V /\ Range(front) = Range(leaves) \cup {c} /\ path = front \o m
    BY <2>4, <2>5 DEF front
  <2>7. front \o m \in V /\ Range(front \o m) = Range(front) \cup Range(m)
        /\ front \o m # <<>> /\ Last(front \o m) = Last(m)
    BY <2>2, <2>6, ConcatFacts
  <2> HIDE DEF V
  <2> QED BY <1>10, <2>1, <2>6, <2>7
<1>12. FindInTarget(c) => path = <<c>> /\ path \in V
  BY <1>1
<1>13. ~FindInTarget(c) /\ R = {} => path = <<>> /\ path \in V
  BY <1>1, <1>9
<1>14. path \in V
  BY <1>11, <1>12, <1>13
<1> QED
  BY <1>11, <1>12, <1>13, <1>14 DEF path, R

\* The other paths that a path is made of.
Needed(at) == {<<d, at[2] \cup {at[1]}>> : d \in NextTo(at[1]) \ at[2]}
Searches == Concepts \X SUBSET Concepts

\* With every step of the search there is less left to visit.
LEMMA SearchEnds ==
    ASSUME LinksOK
    PROVE  /\ [at \in Searches |-> Needed(at)] \in [Searches -> SUBSET Searches]
           /\ WellFounded(Searches, [at \in Searches |-> Needed(at)])
<1> DEFINE D == Searches
           B == [at \in D |-> Needed(at)]
           Left(P) == Cardinality(Concepts \ P)
           rank == [at \in D |-> 2 * Left(at[2]) + (IF at[1] \in at[2] THEN 1 ELSE 0)]
<1>1. ASSUME NEW at \in D, NEW e \in Needed(at)
      PROVE  /\ e \in D
             /\ \E d \in Concepts \ at[2] : e = <<d, at[2] \cup {at[1]}>>
  <2>1. at[1] \in Concepts /\ at[2] \in SUBSET Concepts
    BY DEF Searches
  <2>2. PICK d \in NextTo(at[1]) \ at[2] : e = <<d, at[2] \cup {at[1]}>>
    BY DEF Needed
  <2>3. d \in Concepts
    BY <2>1, NextToType
  <2> QED BY <2>1, <2>2, <2>3 DEF Searches
<1>2. B \in [D -> SUBSET D]
  <2>1. \A at \in D : Needed(at) \in SUBSET D
    BY <1>1
  <2> HIDE DEF D
  <2> QED BY <2>1
<1>3. \A P \in SUBSET Concepts : Left(P) \in Nat
  <2>1. ASSUME NEW P \in SUBSET Concepts PROVE Left(P) \in Nat
    <3>1. IsFiniteSet(Concepts \ P)
      BY ConceptsAreFinite, FS_Difference
    <3> QED BY <3>1, FS_CardinalityType
  <2> QED BY <2>1
<1>4. ASSUME NEW P \in SUBSET Concepts, NEW c \in Concepts, c \notin P
      PROVE  Left(P \cup {c}) = Left(P) - 1
  <2> DEFINE S == Concepts \ P
  <2>1. IsFiniteSet(S)
    BY ConceptsAreFinite, FS_Difference
  <2>2. c \in S
    BY <1>4
  <2>3. Concepts \ (P \cup {c}) = S \ {c}
    OBVIOUS
  <2>4. Cardinality(S \ {c}) = Cardinality(S) - 1
    <3> HIDE DEF S
    <3> QED BY <2>1, <2>2, FS_RemoveElement
  <2> QED BY <2>3, <2>4
<1> HIDE DEF Left
<1>5. rank \in [D -> Nat]
  <2>1. ASSUME NEW at \in D
        PROVE  2 * Left(at[2]) + (IF at[1] \in at[2] THEN 1 ELSE 0) \in Nat
    <3>1. Left(at[2]) \in Nat
      BY <1>3 DEF Searches
    <3> QED BY <3>1
  <2> HIDE DEF D
  <2> QED BY <2>1
<1>6. \A at \in D : \A e \in B[at] : e \in D => rank[e] < rank[at]
  <2> SUFFICES ASSUME NEW at \in D, NEW e \in Needed(at), e \in D PROVE rank[e] < rank[at]
    <3> HIDE DEF D, rank
    <3> QED OBVIOUS
  <2> DEFINE c == at[1]
             P == at[2]
             Q == P \cup {c}
  <2>1. c \in Concepts /\ P \in SUBSET Concepts
    BY DEF Searches
  <2>2. PICK d \in Concepts \ P : e = <<d, Q>>
    BY <1>1
  <2>3. rank[at] = 2 * Left(P) + (IF c \in P THEN 1 ELSE 0)
    <3> HIDE DEF D
    <3> QED OBVIOUS
  <2>4. rank[e] = 2 * Left(Q) + (IF d \in Q THEN 1 ELSE 0)
    <3>1. rank[e] = 2 * Left(e[2]) + (IF e[1] \in e[2] THEN 1 ELSE 0)
      <4> HIDE DEF D, P, Q, c
      <4> QED OBVIOUS
    <3>2. e[1] = d /\ e[2] = Q
      <4> HIDE DEF Q
      <4> QED BY <2>2
    <3> HIDE DEF rank, Q
    <3> QED BY <3>1, <3>2
  <2> HIDE DEF c, P, rank
  <2>5. Left(P) \in Nat /\ Left(Q) \in Nat
    BY <1>3, <2>1
  <2>6. CASE c \in P
    <3>1. Q = P /\ d \notin Q
      BY <2>2, <2>6
    <3> HIDE DEF Q
    <3> QED BY <2>3, <2>4, <2>5, <2>6, <3>1
  <2>7. CASE c \notin P
    <3>1. Left(Q) = Left(P) - 1
      BY <1>4, <2>1, <2>7
    <3> HIDE DEF Q
    <3> QED BY <2>3, <2>4, <2>5, <2>7, <3>1
  <2> QED BY <2>6, <2>7
<1>7. WellFounded(D, B)
  <2> HIDE DEF D, B, rank
  <2> QED BY <1>5, <1>6, RankIsWellFounded
<1> QED
  BY <1>2, <1>7

\* A path depends only on the paths it needs.
LEMMA PathFromDepends ==
    ASSUME LinksOK, NEW at \in Searches, NEW f, NEW g,
           \A e \in Needed(at) : f[e] = g[e]
    PROVE  PathFrom(f, at) = PathFrom(g, at)
<1> DEFINE linked == FilterLinksMapConcepts(at[1], at[2])
           Res(h) == [i \in DOMAIN linked |-> h[<<linked[i], at[2] \cup {at[1]}>>]]
<1>1. at[1] \in Concepts
  BY DEF Searches
<1>2. linked \in Seq(Concepts) /\ Range(linked) = NextTo(at[1]) \ at[2]
  BY <1>1, FilterFacts
<1>3. \A i \in DOMAIN linked : linked[i] \in NextTo(at[1]) \ at[2]
  <2>1. \A i \in DOMAIN linked : linked[i] \in Range(linked)
    BY Zenon DEF Range
  <2> HIDE DEF linked
  <2> QED BY <1>2, <2>1
<1>4. \A i \in DOMAIN linked : <<linked[i], at[2] \cup {at[1]}>> \in Needed(at)
  <2> HIDE DEF linked
  <2> QED BY <1>3 DEF Needed
<1>5. Res(f) = Res(g)
  <2> HIDE DEF linked
  <2> QED BY <1>4
<1> QED
  BY <1>5, Zenon DEF PathFrom

\* A set that the links do not lead out of, but for some concepts.
ClosedBut(X, P) == \A x \in X : NextTo(x) \subseteq X \cup P

\* What a path is: it ends in the model, contains its start, and stays where the links
\* lead.  There is none only if the links, but for what was processed, stay among
\* concepts that are not found in the model.
PathOK(path, c, P) ==
    /\ path \in Seq(Concepts)
    /\ path # <<>> => /\ FindInTarget(Last(path))
                      /\ c \in Range(path)
                      /\ \A X \in SUBSET Concepts : c \in X /\ ClosedBut(X, {}) => Range(path) \subseteq X
    /\ path = <<>> => \E X \in SUBSET Concepts : /\ c \in X /\ ClosedBut(X, P)
                                                 /\ \A x \in X : ~FindInTarget(x)

\* If the paths that are needed are such, so is the one made of them.
LEMMA PathFromOK ==
    ASSUME LinksOK, NEW c \in Concepts, NEW P \in SUBSET Concepts, NEW find,
           \A d \in NextTo(c) \ P : PathOK(find[<<d, P \cup {c}>>], d, P \cup {c})
    PROVE  PathOK(PathFrom(find, <<c, P>>), c, P)
<1> DEFINE path == PathFrom(find, <<c, P>>)
           R == FoundFrom(find, c, P)
           V == Seq(Concepts)
<1>1. \A d \in NextTo(c) \ P : find[<<d, P \cup {c}>>] \in V
  BY DEF PathOK
<1>2. /\ path \in V
      /\ FindInTarget(c) => path = <<c>>
      /\ ~FindInTarget(c) /\ R = {} => path = <<>>
      /\ ~FindInTarget(c) /\ R # {} =>
            \E m \in R : /\ path # <<>>
                         /\ Last(path) = Last(m)
                         /\ c \in Range(path)
                         /\ Range(path) \subseteq NextTo(c) \cup {c} \cup Range(m)
  BY <1>1, PathFromFacts
<1> HIDE DEF path
<1>3. CASE FindInTarget(c)
  <2>1. path = <<c>> /\ Last(<<c>>) = c /\ Range(<<c>>) = {c} /\ <<c>> # <<>>
    BY <1>2, <1>3 DEF Last, Range
  <2>2. FindInTarget(Last(path)) /\ Range(path) = {c} /\ path # <<>>
    <3>1. Last(path) = c
      BY <2>1
    <3> QED BY <1>3, <2>1, <3>1
  <2> HIDE DEF V
  <2> QED BY <1>2, <2>2 DEF PathOK, path, V
<1>4. CASE ~FindInTarget(c) /\ R # {}
  <2>1. PICK m \in R : /\ path # <<>>
                       /\ Last(path) = Last(m)
                       /\ c \in Range(path)
                       /\ Range(path) \subseteq NextTo(c) \cup {c} \cup Range(m)
    <3> HIDE DEF R
    <3> QED BY <1>2, <1>4
  <2>2. PICK d \in NextTo(c) \ P : m = find[<<d, P \cup {c}>>] /\ m # <<>>
    BY DEF FoundFrom
  <2>3. PathOK(m, d, P \cup {c})
    BY <2>2
  <2>4. FindInTarget(Last(path))
    BY <2>1, <2>2, <2>3 DEF PathOK
  <2>5. ASSUME NEW X \in SUBSET Concepts, c \in X, ClosedBut(X, {})
        PROVE  Range(path) \subseteq X
    <3>1. NextTo(c) \subseteq X
      BY <2>5 DEF ClosedBut
    <3>2. d \in X
      BY <3>1
    <3>3. Range(m) \subseteq X
      BY <2>2, <2>3, <2>5, <3>2 DEF PathOK
    <3> QED BY <2>1, <2>5, <3>1, <3>3
  <2> HIDE DEF V, R
  <2> QED BY <1>2, <2>1, <2>4, <2>5 DEF PathOK, path, V
<1>5. CASE ~FindInTarget(c) /\ R = {}
  <2>1. path = <<>>
    BY <1>2, <1>5
  <2>2. ASSUME NEW d \in NextTo(c) \ P
        PROVE  \E X \in SUBSET Concepts : /\ d \in X /\ ClosedBut(X, P \cup {c})
                                          /\ \A x \in X : ~FindInTarget(x)
    <3>1. find[<<d, P \cup {c}>>] = <<>>
      BY <1>5 DEF FoundFrom
    <3> QED BY <3>1 DEF PathOK
  <2> DEFINE Blocks(d, X) == /\ d \in X /\ ClosedBut(X, P \cup {c})
                             /\ \A x \in X : ~FindInTarget(x)
             X == {c} \cup UNION {Y \in SUBSET Concepts : \E d \in NextTo(c) \ P : Blocks(d, Y)}
  <2>3. X \in SUBSET Concepts /\ c \in X
    OBVIOUS
  <2>4. \A x \in X : ~FindInTarget(x)
    <3>1. ASSUME NEW x \in X, x # c PROVE ~FindInTarget(x)
      <4>1. PICK Y \in SUBSET Concepts : x \in Y /\ \E d \in NextTo(c) \ P : Blocks(d, Y)
        <5> HIDE DEF Blocks
        <5> QED BY <3>1
      <4> QED BY <4>1
    <3> HIDE DEF X
    <3> QED BY <1>5, <3>1
  <2>5. ClosedBut(X, P)
    <3> SUFFICES ASSUME NEW x \in X, NEW y \in NextTo(x), y \notin P PROVE y \in X
      <4> HIDE DEF X
      <4> QED BY DEF ClosedBut
    <3>1. CASE x = c
      <4>1. y \in NextTo(c) \ P
        BY <3>1
      <4>2. PICK Y \in SUBSET Concepts : Blocks(y, Y)
        BY <2>2, <4>1
      <4>3. y \in Y
        BY <4>2
      <4> HIDE DEF Blocks
      <4> QED BY <4>1, <4>2, <4>3
    <3>2. CASE x # c
      <4>1. PICK Y \in SUBSET Concepts : x \in Y /\ \E d \in NextTo(c) \ P : Blocks(d, Y)
        <5> HIDE DEF Blocks
        <5> QED BY <3>2
      <4>2. NextTo(x) \subseteq Y \cup (P \cup {c})
        BY <4>1 DEF ClosedBut
      <4>3. Y \subseteq X
        <5> HIDE DEF Blocks
        <5> QED BY <4>1
      <4> HIDE DEF X
      <4> QED BY <2>3, <4>2, <4>3
    <3> QED BY <3>1, <3>2
  <2> HIDE DEF X, V, R
  <2> QED BY <1>2, <2>1, <2>3, <2>4, <2>5 DEF PathOK, path, V
<1> QED
  BY <1>3, <1>4, <1>5

\* What findPathToTarget finds.
LEMMA FindPathOK ==
    ASSUME LinksOK, NEW start \in Concepts
    PROVE  PathOK(FindPathToTarget(start), start, {})
<1> DEFINE D == Searches
           V == Seq(Concepts)
           find == CHOOSE f : f = [at \in D |-> PathFrom(f, at)]
           B == [at \in D |-> Needed(at)]
           H == [f \in [D -> V] |-> [at \in D |-> PathFrom(f, at)]]
<1>1. B \in [D -> SUBSET D] /\ WellFounded(D, B)
  BY SearchEnds
<1>2. ASSUME NEW at \in D
      PROVE  /\ at[1] \in Concepts /\ at[2] \in SUBSET Concepts /\ at = <<at[1], at[2]>>
             /\ \A d \in NextTo(at[1]) \ at[2] : <<d, at[2] \cup {at[1]}>> \in B[at]
  BY DEF Searches, Needed
<1>3. H \in [[D -> V] -> [D -> V]]
  <2>1. ASSUME NEW f \in [D -> V], NEW at \in D PROVE PathFrom(f, at) \in V
    <3>1. \A d \in NextTo(at[1]) \ at[2] : f[<<d, at[2] \cup {at[1]}>>] \in Seq(Concepts)
      <4>1. B[at] \subseteq D
        <5> HIDE DEF B, D
        <5> QED BY <1>1
      <4> HIDE DEF B, D
      <4> QED BY <1>2, <4>1
    <3>2. PathFrom(f, <<at[1], at[2]>>) \in Seq(Concepts)
      <4> HIDE DEF D, B
      <4> QED BY <1>2, <3>1, PathFromFacts
    <3> HIDE DEF D, B
    <3> QED BY <1>2, <3>2
  <2> HIDE DEF D, V
  <2> QED BY <2>1
<1>4. DependsOn(D, V, B, H)
  <2> SUFFICES ASSUME NEW f \in [D -> V], NEW g \in [D -> V], NEW at \in D,
                      \A e \in B[at] : f[e] = g[e]
               PROVE  PathFrom(f, at) = PathFrom(g, at)
    <3> HIDE DEF D, V, B
    <3> QED BY DEF DependsOn
  <2>1. \A e \in Needed(at) : f[e] = g[e]
    OBVIOUS
  <2> QED BY <2>1, PathFromDepends
<1>5. \E f : f = [at \in D |-> PathFrom(f, at)]
  <2>1. PICK f \in [D -> V] : f = H[f]
    <3>1. <<>> \in V
      OBVIOUS
    <3> HIDE DEF B, H, D
    <3>2. IsRecursion(D, V, B, H)
      <4> HIDE DEF V
      <4> QED BY <1>1, <1>3, <1>4, <3>1 DEF IsRecursion
    <3>3. HasSolution(D, V, H)
      <4> HIDE DEF V
      <4> QED BY <3>2, RecursionExists
    <3> QED BY <3>3 DEF HasSolution
  <2> HIDE DEF D, V, B
  <2> QED BY <2>1
<1>6. find = [at \in D |-> PathFrom(find, at)]
  <2> HIDE DEF D
  <2> QED BY <1>5, Zenon
<1>7. \A at \in D : find[at] = PathFrom(find, at)
  <2> HIDE DEF find, D
  <2> QED BY <1>6, Zenon
<1>8. FindPathToTarget(start) = find[<<start, {}>>]
  BY Zenon DEF FindPathToTarget, PathFrom, MapSeq, Searches
<1> HIDE DEF find
<1> DEFINE Bad == {at \in D : ~PathOK(find[at], at[1], at[2])}
<1>9. Bad = {}
  <2>1. SUFFICES ASSUME Bad # {} PROVE FALSE
    OBVIOUS
  <2>2. PICK at \in Bad : B[at] \cap Bad = {}
    <3>1. Bad \in SUBSET D
      OBVIOUS
    <3> HIDE DEF Bad, B, D
    <3> QED BY <1>1, <2>1, <3>1 DEF WellFounded
  <2>3. at \in D /\ B[at] \subseteq D
    <3>1. at \in D
      OBVIOUS
    <3> HIDE DEF B, D
    <3> QED BY <1>1, <3>1
  <2>4. \A e \in B[at] : PathOK(find[e], e[1], e[2])
    <3> HIDE DEF B, D
    <3> QED BY <2>2, <2>3
  <2>5. \A d \in NextTo(at[1]) \ at[2] :
            PathOK(find[<<d, at[2] \cup {at[1]}>>], d, at[2] \cup {at[1]})
    <3> SUFFICES ASSUME NEW d \in NextTo(at[1]) \ at[2]
                 PROVE  PathOK(find[<<d, at[2] \cup {at[1]}>>], d, at[2] \cup {at[1]})
      OBVIOUS
    <3> DEFINE e == <<d, at[2] \cup {at[1]}>>
    <3>1. e \in B[at] /\ e[1] = d /\ e[2] = at[2] \cup {at[1]}
      <4> HIDE DEF B, D
      <4> QED BY <1>2, <2>3
    <3> HIDE DEF e, B, D
    <3>2. PathOK(find[e], d, at[2] \cup {at[1]})
      BY <2>4, <3>1
    <3> QED BY <3>2 DEF e
  <2>6. PathOK(PathFrom(find, <<at[1], at[2]>>), at[1], at[2])
    <3> HIDE DEF B, D
    <3> QED BY <1>2, <2>3, <2>5, PathFromOK
  <2>7. PathOK(find[at], at[1], at[2])
    <3> HIDE DEF B, D
    <3> QED BY <1>2, <1>7, <2>3, <2>6
  <2> QED BY <2>7
<1>10. <<start, {}>> \in D /\ (<<start, {}>>)[1] = start /\ (<<start, {}>>)[2] = {}
  BY DEF Searches
<1>11. \A at \in D : PathOK(find[at], at[1], at[2])
  BY <1>9
<1> HIDE DEF D
<1> QED
  BY <1>8, <1>10, <1>11

-----------------------------------------------------------------------------
(* Reachability                                                             *)

Closed(E, X) == \A e \in E : e[1] \in X => e[2] \in X

\* The least closed set around S.
ReachOK(E, r, S) ==
    /\ r \in SUBSET Concepts /\ S \subseteq r /\ Closed(E, r)
    /\ \A X \in SUBSET Concepts : S \subseteq X /\ Closed(E, X) => r \subseteq X

\* Reached is the least set around a concept that the edges do not lead out of.
LEMMA ReachedOK ==
    ASSUME NEW E \in SUBSET (Concepts \X Concepts), NEW c \in Concepts
    PROVE  ReachOK(E, Reached(E, c), {c})
<1> DEFINE D == SUBSET Concepts
           Step(f, S) == IF Onward(E, S) = S THEN S ELSE f[Onward(E, S)]
           reach == CHOOSE f : f = [S \in D |-> Step(f, S)]
           B == [S \in D |-> {Onward(E, S)} \ {S}]
           rank == [S \in D |-> Cardinality(Concepts \ S)]
           H == [f \in [D -> D] |-> [S \in D |-> Step(f, S)]]
<1>1. ASSUME NEW S \in D PROVE Onward(E, S) \in D /\ S \subseteq Onward(E, S)
  <2>1. \A e \in E : e[2] \in Concepts
    OBVIOUS
  <2> QED BY <2>1 DEF Onward
<1>2. B \in [D -> SUBSET D]
  <2> HIDE DEF D
  <2> QED BY <1>1
<1>3. WellFounded(D, B)
  <2>1. rank \in [D -> Nat]
    <3>1. ASSUME NEW S \in D PROVE Cardinality(Concepts \ S) \in Nat
      <4>1. IsFiniteSet(Concepts \ S)
        BY ConceptsAreFinite, FS_Difference
      <4> QED BY <4>1, FS_CardinalityType
    <3> HIDE DEF D
    <3> QED BY <3>1
  <2>2. ASSUME NEW S \in D, NEW e \in B[S], e \in D PROVE rank[e] < rank[S]
    <3>1. e = Onward(E, S) /\ e # S /\ S \subseteq e
      BY <1>1, <2>2
    <3> DEFINE small == Concepts \ e
               large == Concepts \ S
    <3>2. IsFiniteSet(large) /\ small \subseteq large /\ small # large
      BY <2>2, <3>1, ConceptsAreFinite, FS_Difference
    <3>3. Cardinality(small) < Cardinality(large)
      <4> HIDE DEF small, large
      <4> QED BY <3>2, FS_Subset, FS_CardinalityType
    <3>4. rank[e] = Cardinality(small) /\ rank[S] = Cardinality(large)
      <4> HIDE DEF D
      <4> QED BY <2>2
    <3> HIDE DEF rank, small, large
    <3> QED BY <3>3, <3>4
  <2>3. \A S \in D : \A e \in B[S] : e \in D => rank[e] < rank[S]
    <3> HIDE DEF D, B, rank
    <3> QED BY <2>2
  <2> HIDE DEF D, B, rank
  <2> QED BY <2>1, <2>3, RankIsWellFounded
<1>4. H \in [[D -> D] -> [D -> D]]
  <2>1. ASSUME NEW f \in [D -> D], NEW S \in D PROVE Step(f, S) \in D
    <3>1. f[Onward(E, S)] \in D
      <4> HIDE DEF D
      <4> QED BY <1>1
    <3> HIDE DEF D
    <3> QED BY <3>1
  <2> HIDE DEF D, Step
  <2> QED BY <2>1
<1>5. DependsOn(D, D, B, H)
  <2> SUFFICES ASSUME NEW f \in [D -> D], NEW g \in [D -> D], NEW S \in D,
                      \A e \in B[S] : f[e] = g[e]
               PROVE  Step(f, S) = Step(g, S)
    <3> HIDE DEF D, Step, B
    <3> QED BY DEF DependsOn
  <2>1. Onward(E, S) # S => f[Onward(E, S)] = g[Onward(E, S)]
    <3> HIDE DEF D
    <3> QED OBVIOUS
  <2> HIDE DEF D, B
  <2> QED BY <2>1
<1>6. \E f : f = [S \in D |-> Step(f, S)]
  <2>1. PICK f \in [D -> D] : f = H[f]
    <3>1. {} \in D
      OBVIOUS
    <3> HIDE DEF B, H, D
    <3>2. IsRecursion(D, D, B, H)
      BY <1>2, <1>3, <1>4, <1>5, <3>1 DEF IsRecursion
    <3>3. HasSolution(D, D, H)
      BY <3>2, RecursionExists
    <3> QED BY <3>3 DEF HasSolution
  <2> HIDE DEF D, B, Step
  <2> QED BY <2>1
<1>7. reach = [S \in D |-> Step(reach, S)]
  <2> HIDE DEF D, Step
  <2> QED BY <1>6, Zenon
<1>8. \A S \in D : reach[S] = Step(reach, S)
  <2> HIDE DEF reach, D, Step
  <2> QED BY <1>7, Zenon
<1>9. Reached(E, c) = reach[{c}]
  BY Zenon DEF Reached
<1> HIDE DEF reach
<1> DEFINE Bad == {S \in D : ~ReachOK(E, reach[S], S)}
<1>10. Bad = {}
  <2>1. SUFFICES ASSUME Bad # {} PROVE FALSE
    OBVIOUS
  <2>2. PICK S \in Bad : B[S] \cap Bad = {}
    <3>1. Bad \in SUBSET D
      OBVIOUS
    <3> HIDE DEF Bad, B, D
    <3> QED BY <1>3, <2>1, <3>1 DEF WellFounded
  <2>3. S \in D /\ ~ReachOK(E, reach[S], S)
    OBVIOUS
  <2> DEFINE N == Onward(E, S)
  <2>4. CASE N = S
    <3>1. reach[S] = S
      BY <1>8, <2>3, <2>4
    <3>2. Closed(E, S)
      BY <2>4 DEF Closed, Onward
    <3>3. ReachOK(E, S, S)
      BY <2>3, <3>2 DEF ReachOK
    <3> QED BY <2>3, <3>1, <3>3
  <2>5. CASE N # S
    <3>1. reach[S] = reach[N]
      BY <1>8, <2>3, <2>5
    <3>2. N \in B[S] /\ N \in D
      <4> HIDE DEF D
      <4> QED BY <1>1, <2>3, <2>5
    <3>3. ReachOK(E, reach[N], N)
      <4> HIDE DEF D, B, N
      <4> QED BY <2>2, <3>2
    <3>4. \A X \in SUBSET Concepts : S \subseteq X /\ Closed(E, X) => N \subseteq X
      BY DEF Onward, Closed
    <3>5. S \subseteq N
      BY <1>1, <2>3
    <3>6. ReachOK(E, reach[N], S)
      <4> HIDE DEF N
      <4> QED BY <3>3, <3>4, <3>5 DEF ReachOK
    <3> QED BY <2>3, <3>1, <3>6
  <2> QED BY <2>4, <2>5
<1>11. {c} \in D
  OBVIOUS
<1> HIDE DEF D
<1> QED
  BY <1>9, <1>10, <1>11

\* More edges lead to more.
LEMMA ReachedGrows ==
    ASSUME NEW E \in SUBSET (Concepts \X Concepts), NEW F \in SUBSET (Concepts \X Concepts),
           E \subseteq F, NEW c \in Concepts
    PROVE  Reached(E, c) \subseteq Reached(F, c)
<1>1. ReachOK(E, Reached(E, c), {c}) /\ ReachOK(F, Reached(F, c), {c})
  BY ReachedOK
<1>2. Closed(E, Reached(F, c))
  BY <1>1 DEF ReachOK, Closed
<1> QED
  BY <1>1, <1>2 DEF ReachOK

LEMMA ReachedIsTransitive ==
    ASSUME NEW E \in SUBSET (Concepts \X Concepts), NEW a \in Concepts,
           NEW b \in Reached(E, a), NEW c \in Reached(E, b)
    PROVE  b \in Concepts /\ c \in Reached(E, a)
<1>1. ReachOK(E, Reached(E, a), {a})
  BY ReachedOK
<1>2. b \in Concepts
  BY <1>1 DEF ReachOK
<1>3. ReachOK(E, Reached(E, b), {b})
  BY <1>2, ReachedOK
<1> QED
  BY <1>1, <1>2, <1>3 DEF ReachOK

\* Along edges in both directions one comes back.
LEMMA ReachedIsSymmetric ==
    ASSUME NEW E \in SUBSET (Concepts \X Concepts), \A e \in E : <<e[2], e[1]>> \in E,
           NEW a \in Concepts, NEW b \in Reached(E, a)
    PROVE  a \in Reached(E, b)
<1> DEFINE X == {x \in Concepts : a \in Reached(E, x)}
<1>1. ReachOK(E, Reached(E, a), {a})
  BY ReachedOK
<1>2. a \in X
  BY <1>1 DEF ReachOK
<1>3. ASSUME NEW e \in E, e[1] \in X PROVE e[2] \in X
  <2>1. e[2] \in Concepts /\ <<e[2], e[1]>> \in E
    OBVIOUS
  <2> DEFINE x == e[1]
             y == e[2]
             back == <<y, x>>
  <2>2. ReachOK(E, Reached(E, y), {y})
    BY <2>1, ReachedOK
  <2>3. x \in Reached(E, y)
    <3>1. back \in E /\ back[1] = y /\ back[2] = x
      BY <2>1
    <3> HIDE DEF back, x, y
    <3> QED BY <2>2, <3>1 DEF ReachOK, Closed
  <2>4. a \in Reached(E, x)
    BY <1>3
  <2>5. a \in Reached(E, y)
    <3> HIDE DEF x
    <3> QED BY <2>1, <2>3, <2>4, ReachedIsTransitive
  <2> QED BY <2>1, <2>5
<1>4. Closed(E, X)
  BY <1>3 DEF Closed
<1>5. X \in SUBSET Concepts /\ {a} \subseteq X
  BY <1>2
<1>6. Reached(E, a) \subseteq X
  <2> HIDE DEF X
  <2> QED BY <1>1, <1>4, <1>5 DEF ReachOK
<1> QED
  BY <1>6

LEMMA EdgeFacts ==
    ASSUME LinksOK
    PROVE  /\ Edges \in SUBSET (Concepts \X Concepts)
           /\ Undirected \in SUBSET (Concepts \X Concepts)
           /\ Edges \subseteq Undirected
           /\ \A e \in Undirected : <<e[2], e[1]>> \in Undirected
           /\ \A X \in SUBSET Concepts : ClosedBut(X, {}) <=> Closed(Edges, X)
<1>1. \A e : e \in Edges <=> \E c \in Concepts : \E i \in DOMAIN links[c] : e = links[c][i]
  BY DEF Edges, Range
<1>2. ASSUME NEW c \in Concepts, NEW i \in DOMAIN links[c]
      PROVE  links[c][i] \in Concepts \X Concepts /\ links[c][i][1] = c
  <2>1. links[c] \in Seq(Concepts \X Concepts)
    BY DEF LinksOK
  <2> QED BY <2>1 DEF LinksOK
<1>3. Edges \in SUBSET (Concepts \X Concepts)
  BY <1>1, <1>2
<1>4. \A e \in Edges : <<e[2], e[1]>> \in Concepts \X Concepts
  BY <1>3
<1>5. Undirected \in SUBSET (Concepts \X Concepts) /\ Edges \subseteq Undirected
  BY <1>3, <1>4 DEF Undirected
<1>6. ASSUME NEW e \in Undirected PROVE <<e[2], e[1]>> \in Undirected
  <2>1. CASE e \in Edges
    BY <2>1 DEF Undirected
  <2>2. CASE e \notin Edges
    <3>1. PICK f \in Edges : e = <<f[2], f[1]>>
      BY <2>2 DEF Undirected
    <3>2. <<e[2], e[1]>> = f
      BY <1>3, <3>1
    <3> QED BY <3>2 DEF Undirected
  <2> QED BY <2>1, <2>2
<1>7. ASSUME NEW X \in SUBSET Concepts PROVE ClosedBut(X, {}) <=> Closed(Edges, X)
  <2>1. ASSUME ClosedBut(X, {}), NEW e \in Edges, e[1] \in X PROVE e[2] \in X
    <3>1. PICK c \in Concepts : \E i \in DOMAIN links[c] : e = links[c][i]
      BY <1>1
    <3>2. PICK i \in DOMAIN links[c] : e = links[c][i]
      BY <3>1
    <3>3. e[1] = c /\ e[2] \in NextTo(c)
      BY <1>2, <3>2 DEF NextTo
    <3> QED BY <2>1, <3>3 DEF ClosedBut
  <2>2. ASSUME Closed(Edges, X), NEW x \in X, NEW y \in NextTo(x) PROVE y \in X
    <3>1. PICK i \in DOMAIN links[x] : y = links[x][i][2]
      BY DEF NextTo
    <3>2. links[x][i] \in Edges /\ links[x][i][1] = x
      BY <1>1, <1>2
    <3> QED BY <2>2, <3>1, <3>2 DEF Closed
  <2> QED BY <2>1, <2>2 DEF ClosedBut, Closed
<1> QED
  BY <1>3, <1>5, <1>6, <1>7

\* findPathToTarget finds a path exactly if there is one, and what is on it is reached.
LEMMA FindPathFacts ==
    ASSUME LinksOK, NEW c \in Concepts
    PROVE  LET path == FindPathToTarget(c)
           IN  /\ path \in Seq(Concepts)
               /\ path # <<>> <=> \E d \in Reached(Edges, c) : FindInTarget(d)
               /\ path # <<>> => /\ FindInTarget(Last(path))
                                 /\ Last(path) \in Range(path)
                                 /\ c \in Range(path)
                                 /\ Range(path) \subseteq Reached(Edges, c)
<1> DEFINE path == FindPathToTarget(c)
           r == Reached(Edges, c)
<1>1. PathOK(path, c, {})
  BY FindPathOK
<1>2. Edges \in SUBSET (Concepts \X Concepts)
      /\ \A X \in SUBSET Concepts : ClosedBut(X, {}) <=> Closed(Edges, X)
  BY EdgeFacts
<1>3. ReachOK(Edges, r, {c})
  BY <1>2, ReachedOK
<1> HIDE DEF path, r
<1>4. path \in Seq(Concepts)
  BY <1>1 DEF PathOK
<1>5. ASSUME path # <<>>
      PROVE  /\ FindInTarget(Last(path)) /\ c \in Range(path)
             /\ Last(path) \in Range(path)
             /\ Range(path) \subseteq r
  <2>1. FindInTarget(Last(path)) /\ c \in Range(path)
    BY <1>1, <1>5 DEF PathOK
  <2>2. Range(path) \subseteq r
    BY <1>1, <1>2, <1>3, <1>5 DEF PathOK, ReachOK
  <2>3. Last(path) \in Range(path)
    <3>1. Len(path) \in DOMAIN path
      BY <1>4, <1>5
    <3> QED BY <3>1 DEF Last, Range
  <2> QED BY <2>1, <2>2, <2>3
<1>6. ASSUME path = <<>> PROVE \A d \in r : ~FindInTarget(d)
  <2>1. PICK X \in SUBSET Concepts : /\ c \in X /\ ClosedBut(X, {})
                                     /\ \A x \in X : ~FindInTarget(x)
    BY <1>1, <1>6 DEF PathOK
  <2>2. r \subseteq X
    BY <1>2, <1>3, <2>1 DEF ReachOK
  <2> QED BY <2>1, <2>2
<1>7. path # <<>> <=> \E d \in r : FindInTarget(d)
  BY <1>5, <1>6
<1> QED
  BY <1>4, <1>5, <1>7 DEF path, r

-----------------------------------------------------------------------------
(* The inductive invariant                                                  *)

PCs == {"idle", "annotated", "parsed", "correlated", "extended", "done", "failed"}
Tables == {<<>>} \cup UNION {[Range(s.words) -> Concepts \cup {None}] : s \in Sentences}
Records ==
    [pc : PCs, sentence : Sentences \cup {<<>>}, concept : Tables, new : Seq(Concepts),
     maps : Seq(Seq(Concepts)), nodes : Seq(Concepts)]

Shape ==
    /\ model \in Seq(Concepts) /\ LinksOK /\ overlap \in BOOLEAN
    /\ training \in [Trainers -> Records]
    /\ \A t \in Trainers : training[t].pc \in {"annotated", "parsed"} => Annotated(t)

\* Without overlap one training at a time has read the nodes and not assigned them, and
\* no other has changed the model that it read.
OneAtATime ==
    ~overlap =>
        /\ \A t, u \in Trainers :
              training[t].pc = "extended" /\ training[u].pc = "extended" => t = u
        /\ \A t \in Trainers : training[t].pc = "extended" =>
              \E r \in Seq(Concepts) : training[t].nodes = model \o r

\* The links lead from a concept to one that the model started with.
Anchored(c) == Reached(Undirected, c) \cap Range(InitialModel) # {}

\* So they do from the model, from what is about to be added to it, and from what is
\* about to replace it.
Anchors ==
    /\ \A c \in Range(model) : Anchored(c)
    /\ \A t \in Trainers :
          /\ training[t].pc = "correlated" => \A c \in Range(ResultNodes(t)) : Anchored(c)
          /\ training[t].pc = "extended" => \A c \in Range(training[t].nodes) : Anchored(c)

LEMMA InitialModelType == InitialModel \in Seq(Concepts)
<1>1. Nodes \in Seq(Words)
  BY TrainingAssumption
<1>2. \A i \in DOMAIN Nodes : Default(Nodes[i]) \in Concepts
  BY <1>1, ConceptFacts
<1>3. InitialModel = [i \in DOMAIN Nodes |-> Default(Nodes[i])]
  BY Zenon DEF InitialModel, MapSeq
<1>4. DOMAIN Nodes = 1..Len(Nodes) /\ Len(Nodes) \in Nat
  BY <1>1
<1>5. InitialModel \in [1..Len(Nodes) -> Concepts]
  BY <1>2, <1>3, <1>4
<1> QED
  BY <1>4, <1>5, FunctionIsSeq

\* A concept that the model started with is its own anchor.
LEMMA InitialIsAnchored ==
    ASSUME LinksOK, NEW c \in Range(InitialModel)
    PROVE  Anchored(c)
<1>1. c \in Concepts
  BY InitialModelType DEF Range
<1>2. ReachOK(Undirected, Reached(Undirected, c), {c})
  BY <1>1, EdgeFacts, ReachedOK
<1> QED
  BY <1>2 DEF ReachOK, Anchored

LEMMA InitOK == Init => Shape /\ OneAtATime /\ Anchors
<1> SUFFICES ASSUME Init PROVE Shape /\ OneAtATime /\ Anchors
  OBVIOUS
<1>1. model \in Seq(Concepts)
  BY InitialModelType DEF Init
<1>2. LinksOK
  BY DEF Init, LinksOK
<1>3. NoTraining \in Records
  BY DEF NoTraining, Records, PCs, Tables
<1>4. training \in [Trainers -> Records]
  BY <1>3 DEF Init
<1>5. \A t \in Trainers : training[t].pc = "idle"
  BY DEF Init, NoTraining
<1>6. Shape
  BY <1>1, <1>2, <1>4, <1>5 DEF Shape, Init
<1>7. OneAtATime
  BY <1>5 DEF OneAtATime
<1>8. Anchors
  BY <1>2, <1>5, InitialIsAnchored DEF Anchors, Init
<1> QED
  BY <1>6, <1>7, <1>8

\* Only the training that takes the step changes.
LEMMA UpdateFacts ==
    ASSUME training \in [Trainers -> Records], NEW t \in Trainers, NEW r \in Records,
           training' = [training EXCEPT ![t] = r]
    PROVE  /\ training' \in [Trainers -> Records]
           /\ training'[t] = r
           /\ \A u \in Trainers : u # t => training'[u] = training[u]
<1> HIDE DEF Records
<1> QED OBVIOUS

LEMMA AnnotateType ==
    ASSUME Shape, NEW t \in Trainers, NEW s \in Sentences, Annotate(t, s)
    PROVE  /\ training' \in [Trainers -> Records]
           /\ \A u \in Trainers : u # t => training'[u] = training[u]
           /\ training'[t].pc = "annotated"
           /\ Annotated(t)'
<1>1. PICK reached : training' = [training EXCEPT
            ![t].pc = "annotated", ![t].sentence = s,
            ![t].concept = [w \in Range(s.words) |-> AnnotatePhrase(w, reached)]]
  BY Zenon DEF Annotate
<1> DEFINE table == [w \in Range(s.words) |-> AnnotatePhrase(w, reached)]
           r == [training[t] EXCEPT !.pc = "annotated", !.sentence = s, !.concept = table]
<1>2. table \in [Range(s.words) -> Concepts \cup {None}]
  <2>1. Range(s.words) \subseteq Words
    <3>1. s.words \in Seq(Words)
      BY TrainingAssumption, Zenon
    <3> QED BY <3>1 DEF Range
  <2>2. \A w \in Range(s.words) : AnnotatePhrase(w, reached) \in Concepts \cup {None}
    BY <2>1, AnnotatePhraseType DEF Shape
  <2> QED BY <2>2
<1>3. training' = [training EXCEPT ![t] = r]
  BY <1>1
<1> HIDE DEF table
<1>4. table \in Tables
  BY <1>2, Zenon DEF Tables
<1>5. /\ r \in Records
      /\ r.pc = "annotated" /\ r.sentence = s /\ r.concept = table
  <2>1. training[t] \in Records
    BY DEF Shape
  <2> HIDE DEF Tables
  <2> QED BY <1>4, <2>1 DEF Records, PCs
<1> HIDE DEF r
<1>6. training \in [Trainers -> Records]
  BY DEF Shape
<1>7. /\ training' \in [Trainers -> Records]
      /\ training'[t] = r
      /\ \A u \in Trainers : u # t => training'[u] = training[u]
  BY <1>3, <1>5, <1>6, UpdateFacts
<1>8. Annotated(t)'
  BY <1>2, <1>5, <1>7 DEF Annotated
<1> QED
  BY <1>5, <1>7, <1>8

LEMMA ParseType ==
    ASSUME Shape, NEW t \in Trainers, NEW bad, Parse(t, bad)
    PROVE  /\ training' \in [Trainers -> Records]
           /\ \A u \in Trainers : u # t => training'[u] = training[u]
           /\ training'[t].pc \in {"parsed", "failed"}
           /\ Annotated(t)'
           /\ LinksOK'
           /\ Edges \subseteq Edges'
<1> DEFINE steps == ProcessNode(training[t].sentence)
           done == Before(steps, bad)
           pc == IF done = steps THEN "parsed" ELSE "failed"
           r == [training[t] EXCEPT !.pc = pc]
<1>1. Annotated(t) /\ training[t].sentence \in Sentences
  BY DEF Shape, Parse, Annotated
<1>2. done \in Seq(Steps(training[t].sentence))
  BY <1>1, ProcessNodeType, BeforeType
<1>3. links' = AddLinks(t, done) /\ training' = [training EXCEPT ![t].pc = pc]
  BY Zenon DEF Parse
<1>4. training' = [training EXCEPT ![t] = r]
  BY <1>3
<1>5. pc \in {"parsed", "failed"}
  OBVIOUS
<1> HIDE DEF done, steps, pc
<1>6. /\ r \in Records /\ r.pc = pc
      /\ r.sentence = training[t].sentence /\ r.concept = training[t].concept
  <2>1. training[t] \in Records
    BY DEF Shape
  <2> HIDE DEF Tables
  <2> QED BY <1>5, <2>1 DEF Records, PCs
<1> HIDE DEF r
<1>7. /\ training' \in [Trainers -> Records]
      /\ training'[t] = r
      /\ \A u \in Trainers : u # t => training'[u] = training[u]
  <2>1. training \in [Trainers -> Records]
    BY DEF Shape
  <2> QED BY <1>4, <1>6, <2>1, UpdateFacts
<1>8. Annotated(t)'
  BY <1>1, <1>6, <1>7 DEF Annotated
<1>9. LinksOK
  BY DEF Shape
<1>10. /\ links' \in [Concepts -> Seq(Concepts \X Concepts)]
       /\ \A c \in Concepts : \E q \in Seq({c} \X Concepts) : links'[c] = links[c] \o q
  BY <1>1, <1>2, <1>3, <1>9, AddLinksFacts, ZenonT(30) DEF LinksOK
<1>11. ASSUME NEW c \in Concepts
       PROVE  /\ \A i \in DOMAIN links'[c] : links'[c][i][1] = c
              /\ Range(links[c]) \subseteq Range(links'[c])
  <2>1. PICK q \in Seq({c} \X Concepts) : links'[c] = links[c] \o q
    BY <1>10
  <2>2. links[c] \in Seq({c} \X Concepts)
    <3>1. links[c] \in Seq(Concepts \X Concepts) /\ \A i \in DOMAIN links[c] : links[c][i][1] = c
      BY <1>9 DEF LinksOK
    <3>2. \A i \in DOMAIN links[c] : links[c][i] \in {c} \X Concepts
      BY <3>1
    <3>3. Len(links[c]) \in Nat /\ links[c] \in [1..Len(links[c]) -> {c} \X Concepts]
      BY <3>1, <3>2
    <3> QED BY <3>3, FunctionIsSeq
  <2>3. links'[c] \in Seq({c} \X Concepts) /\ Range(links'[c]) = Range(links[c]) \cup Range(q)
    BY <2>1, <2>2, ConcatFacts
  <2>4. \A i \in DOMAIN links'[c] : links'[c][i] \in {c} \X Concepts
    BY <2>3
  <2> QED BY <2>3, <2>4
<1>12. LinksOK'
  BY <1>10, <1>11 DEF LinksOK
<1>13. Edges \subseteq Edges'
  BY <1>11 DEF Edges
<1> QED
  BY <1>5, <1>6, <1>7, <1>8, <1>12, <1>13

\* The concepts of the sentence that are not in the model, and a path for each.
LEMMA CorrelateFacts ==
    ASSUME Shape, NEW t \in Trainers, Correlate(t)
    PROVE  /\ training' \in [Trainers -> Records]
           /\ \A u \in Trainers : u # t => training'[u] = training[u]
           /\ training'[t].pc = "correlated"
           /\ \A i \in DOMAIN training'[t].new :
                 /\ training'[t].new[i] \in Concepts
                 /\ training'[t].maps[i] = FindPathToTarget(training'[t].new[i])
           /\ DOMAIN training'[t].maps = DOMAIN training'[t].new
<1> DEFINE ws == training[t].sentence.words
           clarified == [i \in DOMAIN ws |-> GetConcept(t, ws[i])]
           new == Keep(clarified, {c \in Concepts : ~FindInTarget(c)})
           maps == [i \in DOMAIN new |-> FindPathToTarget(new[i])]
           r == [training[t] EXCEPT !.pc = "correlated", !.new = new, !.maps = maps]
<1>1. Annotated(t) /\ training[t].sentence \in Sentences
  BY DEF Shape, Correlate, Annotated
<1>2. training' = [training EXCEPT ![t].pc = "correlated", ![t].new = new, ![t].maps = maps]
  BY Zenon DEF Correlate, MapSeq
<1>3. training' = [training EXCEPT ![t] = r]
  BY <1>2
<1>4. ws \in Seq(Words)
  BY <1>1, TrainingAssumption, Zenon
<1>5. clarified \in Seq(Concepts)
  <2>1. \A i \in DOMAIN ws : GetConcept(t, ws[i]) \in Concepts
    BY <1>1, GetConceptType DEF Range
  <2>2. Len(ws) \in Nat /\ DOMAIN ws = 1..Len(ws)
    BY <1>4
  <2>3. clarified \in [1..Len(ws) -> Concepts]
    <3> HIDE DEF ws
    <3> QED BY <2>1, <2>2
  <2> HIDE DEF clarified, ws
  <2> QED BY <2>2, <2>3, FunctionIsSeq
<1>6. new \in Seq(Concepts)
  <2> HIDE DEF clarified
  <2> QED BY <1>5, KeepFacts
<1> HIDE DEF new
<1>7. \A i \in DOMAIN new : new[i] \in Concepts
  BY <1>6
<1>8. maps \in Seq(Seq(Concepts))
  <2>1. \A i \in DOMAIN new : FindPathToTarget(new[i]) \in Seq(Concepts)
    BY <1>7, FindPathFacts DEF Shape
  <2>2. Len(new) \in Nat /\ DOMAIN new = 1..Len(new)
    BY <1>6
  <2>3. maps \in [1..Len(new) -> Seq(Concepts)]
    BY <2>1, <2>2
  <2> HIDE DEF maps
  <2> QED BY <2>2, <2>3, FunctionIsSeq
<1>9. DOMAIN maps = DOMAIN new /\ \A i \in DOMAIN new : maps[i] = FindPathToTarget(new[i])
  OBVIOUS
<1> HIDE DEF maps
<1>10. r \in Records /\ r.pc = "correlated" /\ r.new = new /\ r.maps = maps
  <2>1. training[t] \in Records
    BY DEF Shape
  <2> HIDE DEF Tables
  <2> QED BY <1>6, <1>8, <2>1 DEF Records, PCs
<1> HIDE DEF r
<1>11. /\ training' \in [Trainers -> Records]
       /\ training'[t] = r
       /\ \A u \in Trainers : u # t => training'[u] = training[u]
  <2>1. training \in [Trainers -> Records]
    BY DEF Shape
  <2> QED BY <1>3, <1>10, <2>1, UpdateFacts
<1> QED
  BY <1>7, <1>9, <1>10, <1>11

LEMMA ReadNodesType ==
    ASSUME Shape, NEW t \in Trainers, ReadNodes(t)
    PROVE  /\ training' \in [Trainers -> Records]
           /\ \A u \in Trainers : u # t => training'[u] = training[u]
           /\ training'[t].pc = "extended"
           /\ training'[t].nodes = model \o ResultNodes(t)
           /\ ResultNodes(t) \in Seq(Concepts)
<1> DEFINE r == [training[t] EXCEPT !.pc = "extended", !.nodes = Extended(t)]
<1>1. training' = [training EXCEPT ![t] = r]
  BY DEF ReadNodes
<1>2. training[t] \in Records /\ training \in [Trainers -> Records] /\ model \in Seq(Concepts)
  BY DEF Shape
<1>3. training[t].maps \in Seq(Seq(Concepts))
  BY <1>2 DEF Records
<1>4. ResultNodes(t) \in Seq(Concepts)
  BY <1>3, FlattenFacts DEF ResultNodes
<1>5. Extended(t) = model \o ResultNodes(t) /\ Extended(t) \in Seq(Concepts)
  BY <1>2, <1>4, ConcatFacts DEF Extended
<1>6. r \in Records /\ r.pc = "extended" /\ r.nodes = Extended(t)
  <2> HIDE DEF Tables
  <2> QED BY <1>2, <1>5 DEF Records, PCs
<1> HIDE DEF r
<1>7. /\ training' \in [Trainers -> Records]
      /\ training'[t] = r
      /\ \A u \in Trainers : u # t => training'[u] = training[u]
  BY <1>1, <1>2, <1>6, UpdateFacts
<1> QED
  BY <1>4, <1>5, <1>6, <1>7

\* The last step of a training, and an exception: only the pc of the request changes.
LEMMA EndType ==
    ASSUME Shape, NEW t \in Trainers, NEW pc \in {"done", "failed"},
           training' = [training EXCEPT ![t].pc = pc]
    PROVE  /\ training' \in [Trainers -> Records]
           /\ \A u \in Trainers : u # t => training'[u] = training[u]
           /\ training'[t].pc = pc
<1> DEFINE r == [training[t] EXCEPT !.pc = pc]
<1>1. training' = [training EXCEPT ![t] = r]
  OBVIOUS
<1>2. training[t] \in Records /\ training \in [Trainers -> Records]
  BY DEF Shape
<1>3. r \in Records /\ r.pc = pc
  <2> HIDE DEF Tables
  <2> QED BY <1>2 DEF Records, PCs
<1> HIDE DEF r
<1> QED
  BY <1>1, <1>2, <1>3, UpdateFacts

\* A step of one request leaves the annotations of the others as they are.
LEMMA OthersStayAnnotated ==
    ASSUME NEW t \in Trainers, NEW u \in Trainers, training'[u] = training[u]
    PROVE  Annotated(u)' <=> Annotated(u)
  BY DEF Annotated

LEMMA StutterFacts ==
    ASSUME UNCHANGED vars, Shape, OneAtATime, Anchors
    PROVE  Shape' /\ OneAtATime' /\ Anchors'
<1>1. model' = model /\ links' = links /\ training' = training /\ overlap' = overlap
  BY DEF vars
<1>2. Shape'
  BY <1>1 DEF Shape, LinksOK, Annotated
<1>3. OneAtATime'
  BY <1>1 DEF OneAtATime
<1>4. Anchors'
  <2>1. Edges' = Edges
    BY <1>1 DEF Edges
  <2>2. Undirected' = Undirected
    BY <2>1 DEF Undirected
  <2>3. \A t \in Trainers : ResultNodes(t)' = ResultNodes(t)
    BY <1>1 DEF ResultNodes
  <2> QED BY <1>1, <2>2, <2>3 DEF Anchors, Anchored
<1> QED
  BY <1>2, <1>3, <1>4

\* Every step keeps the types.
LEMMA ShapeInv ==
    ASSUME Shape, Next
    PROVE  Shape'
<1>1. PICK t \in Trainers :
        \/ \E s \in Sentences : Annotate(t, s)
        \/ \E bad \in Words \cup {"none"} : Parse(t, bad)
        \/ Correlate(t)
        \/ ReadNodes(t)
        \/ AssignNodes(t)
        \/ Fail(t)
  BY Zenon DEF Next
<1>2. ASSUME links' = links, LinksOK PROVE LinksOK'
  BY <1>2 DEF LinksOK
<1>3. ASSUME training' \in [Trainers -> Records],
             \A u \in Trainers : u # t => training'[u] = training[u],
             training'[t].pc \in {"annotated", "parsed"} => Annotated(t)'
      PROVE  \A u \in Trainers : training'[u].pc \in {"annotated", "parsed"} => Annotated(u)'
  <2> SUFFICES ASSUME NEW u \in Trainers, training'[u].pc \in {"annotated", "parsed"}
               PROVE  Annotated(u)'
    OBVIOUS
  <2>1. CASE u = t
    BY <1>3, <2>1
  <2>2. CASE u # t
    BY <1>3, <2>2, OthersStayAnnotated DEF Shape
  <2> QED BY <2>1, <2>2
<1>4. ASSUME NEW s \in Sentences, Annotate(t, s) PROVE Shape'
  <2>1. model' = model /\ links' = links /\ overlap' \in BOOLEAN
    BY <1>4 DEF Annotate, Shape
  <2> QED BY <1>2, <1>3, <1>4, <2>1, AnnotateType DEF Shape
<1>5. ASSUME NEW bad, Parse(t, bad) PROVE Shape'
  <2>1. model' = model /\ overlap' = overlap
    BY <1>5 DEF Parse
  <2> QED BY <1>3, <1>5, <2>1, ParseType DEF Shape
<1>6. CASE Correlate(t)
  <2>1. model' = model /\ links' = links /\ overlap' = overlap
    BY <1>6 DEF Correlate
  <2> QED BY <1>2, <1>3, <1>6, <2>1, CorrelateFacts DEF Shape
<1>7. CASE ReadNodes(t)
  <2>1. model' = model /\ links' = links /\ overlap' \in BOOLEAN
    BY <1>7, Zenon DEF ReadNodes, Shape
  <2> QED BY <1>2, <1>3, <1>7, <2>1, ReadNodesType DEF Shape
<1>8. CASE AssignNodes(t)
  <2>1. /\ model' = training[t].nodes /\ links' = links /\ overlap' = overlap
        /\ training' = [training EXCEPT ![t].pc = "done"]
    BY <1>8 DEF AssignNodes
  <2>2. training[t].nodes \in Seq(Concepts)
    BY DEF Shape, Records
  <2> QED BY <1>2, <1>3, <2>1, <2>2, EndType DEF Shape
<1>9. CASE Fail(t)
  <2>1. /\ model' = model /\ links' = links /\ overlap' = overlap
        /\ training' = [training EXCEPT ![t].pc = "failed"]
    BY <1>9 DEF Fail
  <2> QED BY <1>2, <1>3, <2>1, EndType DEF Shape
<1> QED
  BY <1>1, <1>4, <1>5, <1>6, <1>7, <1>8, <1>9

\* Nobody else has read the nodes when a training reads them, so the model that it has
\* read is the model that it replaces.
LEMMA OneAtATimeInv ==
    ASSUME Shape, OneAtATime, Next
    PROVE  OneAtATime'
<1> DEFINE Alone == \A u, v \in Trainers :
                        training'[u].pc = "extended" /\ training'[v].pc = "extended" => u = v
           Read == \A u \in Trainers : training'[u].pc = "extended" =>
                       \E r \in Seq(Concepts) : training'[u].nodes = model' \o r
<1>1. PICK t \in Trainers :
        \/ \E s \in Sentences : Annotate(t, s)
        \/ \E bad \in Words \cup {"none"} : Parse(t, bad)
        \/ Correlate(t)
        \/ ReadNodes(t)
        \/ AssignNodes(t)
        \/ Fail(t)
  BY Zenon DEF Next
<1> SUFFICES ASSUME ~overlap' PROVE Alone /\ Read
  BY DEF OneAtATime
\* A step after which the training has not read the nodes, of a model that stays.
<1>2. ASSUME ~overlap, \A u \in Trainers : u # t => training'[u] = training[u],
             training'[t].pc # "extended", model' = model
      PROVE  Alone /\ Read
  BY <1>2 DEF OneAtATime
<1>3. CASE \E s \in Sentences : Annotate(t, s)
  <2>1. ~overlap /\ model' = model
    BY <1>3 DEF Annotate
  <2> QED BY <1>2, <1>3, <2>1, AnnotateType
<1>4. CASE \E bad \in Words \cup {"none"} : Parse(t, bad)
  <2>1. ~overlap /\ model' = model
    BY <1>4 DEF Parse
  <2>2. /\ \A u \in Trainers : u # t => training'[u] = training[u]
        /\ training'[t].pc \in {"parsed", "failed"}
    BY <1>4, ParseType
  <2> QED BY <1>2, <2>1, <2>2
<1>5. CASE Correlate(t)
  <2>1. ~overlap /\ model' = model
    BY <1>5 DEF Correlate
  <2> QED BY <1>2, <1>5, <2>1, CorrelateFacts
<1>6. CASE ReadNodes(t)
  <2>1. ~overlap /\ model' = model /\ \A u \in Trainers : u # t => training[u].pc # "extended"
    BY <1>6, Zenon DEF ReadNodes
  <2>2. /\ \A u \in Trainers : u # t => training'[u] = training[u]
        /\ \E r \in Seq(Concepts) : training'[t].nodes = model' \o r
    BY <1>6, <2>1, ReadNodesType
  <2> QED BY <2>1, <2>2
<1>7. CASE AssignNodes(t)
  <2>1. ~overlap /\ training[t].pc = "extended"
    BY <1>7 DEF AssignNodes
  <2>2. \A u \in Trainers : u # t => training[u].pc # "extended"
    BY <2>1 DEF OneAtATime
  <2>3. training' = [training EXCEPT ![t].pc = "done"]
    BY <1>7 DEF AssignNodes
  <2>4. /\ \A u \in Trainers : u # t => training'[u] = training[u]
        /\ training'[t].pc = "done"
    BY <2>3, EndType
  <2>5. \A u \in Trainers : training'[u].pc # "extended"
    BY <2>2, <2>4
  <2> QED BY <2>5
<1>8. CASE Fail(t)
  <2>1. ~overlap /\ model' = model /\ training' = [training EXCEPT ![t].pc = "failed"]
    BY <1>8 DEF Fail
  <2>2. /\ \A u \in Trainers : u # t => training'[u] = training[u]
        /\ training'[t].pc = "failed"
    BY <2>1, EndType
  <2> QED BY <1>2, <2>1, <2>2
<1> QED
  BY <1>1, <1>3, <1>4, <1>5, <1>6, <1>7, <1>8

\* What is linked stays linked: a concept that has an anchor keeps it.
LEMMA AnchoredStays ==
    ASSUME LinksOK, LinksOK', Edges \subseteq Edges', NEW c \in Concepts, Anchored(c)
    PROVE  Anchored(c)'
<1>1. /\ Undirected \in SUBSET (Concepts \X Concepts)
      /\ Undirected' \in SUBSET (Concepts \X Concepts)
  <2>1. Undirected \in SUBSET (Concepts \X Concepts)
    BY EdgeFacts
  <2>2. Undirected' \in SUBSET (Concepts \X Concepts)
    <3>1. \A d \in Concepts : Range(links'[d]) \subseteq Concepts \X Concepts
      BY DEF LinksOK, Range
    <3>2. Edges' \subseteq Concepts \X Concepts
      BY <3>1 DEF Edges
    <3>3. \A e \in Edges' : <<e[2], e[1]>> \in Concepts \X Concepts
      BY <3>2
    <3> QED BY <3>2, <3>3 DEF Undirected
  <2> QED BY <2>1, <2>2
<1>2. Undirected \subseteq Undirected'
  BY DEF Undirected
<1>3. Reached(Undirected, c) \subseteq Reached(Undirected', c)
  BY <1>1, <1>2, ReachedGrows
<1> QED
  BY <1>3 DEF Anchored

\* Everything on a map is anchored: it can be reached from the concept the map is for,
\* and from there the end of the map, which is in the model.
LEMMA MapsAreAnchored ==
    ASSUME LinksOK, model \in Seq(Concepts), \A c \in Range(model) : Anchored(c),
           NEW n \in Concepts, NEW c \in Range(FindPathToTarget(n))
    PROVE  Anchored(c)
<1> DEFINE path == FindPathToTarget(n)
           last == Last(path)
<1>1. path # <<>> /\ path \in Seq(Concepts)
  <2>1. path \in Seq(Concepts)
    BY FindPathFacts
  <2>2. Range(path) # {}
    OBVIOUS
  <2> HIDE DEF path
  <2> QED BY <2>1, <2>2, EmptyRange
<1>2. FindInTarget(last) /\ last \in Range(path) /\ Range(path) \subseteq Reached(Edges, n)
  BY <1>1, FindPathFacts
<1>3. /\ Edges \in SUBSET (Concepts \X Concepts) /\ Undirected \in SUBSET (Concepts \X Concepts)
      /\ Edges \subseteq Undirected /\ \A e \in Undirected : <<e[2], e[1]>> \in Undirected
  BY EdgeFacts
<1>4. Reached(Edges, n) \subseteq Reached(Undirected, n)
  BY <1>3, ReachedGrows
<1>5. c \in Reached(Undirected, n) /\ last \in Reached(Undirected, n)
  BY <1>2, <1>4
<1> HIDE DEF last, path
<1>6. n \in Reached(Undirected, c)
  BY <1>3, <1>5, ReachedIsSymmetric
<1>7. c \in Concepts
  BY <1>1, <1>5, <1>3, ReachedOK DEF ReachOK
<1>8. last \in Reached(Undirected, c)
  BY <1>3, <1>5, <1>6, <1>7, ReachedIsTransitive
<1>9. PICK a \in Reached(Undirected, last) : a \in Range(InitialModel)
  <2>1. last \in Range(model)
    BY <1>2 DEF FindInTarget
  <2> QED BY <2>1 DEF Anchored
<1>10. a \in Reached(Undirected, c)
  BY <1>3, <1>7, <1>8, ReachedIsTransitive
<1> QED
  BY <1>9, <1>10 DEF Anchored

\* The anchors after a step that adds no links.
LEMMA AnchoredUnchanged ==
    ASSUME links' = links, NEW c
    PROVE  Anchored(c)' <=> Anchored(c)
<1>1. Edges' = Edges
  BY DEF Edges
<1>2. Undirected' = Undirected
  BY <1>1 DEF Undirected
<1> QED
  BY <1>2 DEF Anchored

LEMMA AnchorsInv ==
    ASSUME Shape, Anchors, Shape', Next
    PROVE  Anchors'
<1>1. PICK t \in Trainers :
        \/ \E s \in Sentences : Annotate(t, s)
        \/ \E bad \in Words \cup {"none"} : Parse(t, bad)
        \/ Correlate(t)
        \/ ReadNodes(t)
        \/ AssignNodes(t)
        \/ Fail(t)
  BY Zenon DEF Next
<1>2. /\ model \in Seq(Concepts) /\ Range(model) \subseteq Concepts
      /\ \A u \in Trainers : /\ ResultNodes(u) \in Seq(Concepts)
                             /\ Range(ResultNodes(u)) \subseteq Concepts
                             /\ training[u].nodes \in Seq(Concepts)
                             /\ Range(training[u].nodes) \subseteq Concepts
  <2>1. model \in Seq(Concepts) /\ Range(model) \subseteq Concepts
    BY DEF Shape, Range
  <2>2. ASSUME NEW u \in Trainers
        PROVE  /\ ResultNodes(u) \in Seq(Concepts)
               /\ training[u].nodes \in Seq(Concepts)
    <3>1. training[u].maps \in Seq(Seq(Concepts)) /\ training[u].nodes \in Seq(Concepts)
      BY DEF Shape, Records
    <3> QED BY <3>1, FlattenFacts DEF ResultNodes
  <2>3. ASSUME NEW q \in Seq(Concepts) PROVE Range(q) \subseteq Concepts
    BY DEF Range
  <2> QED BY <2>1, <2>2, <2>3
\* Anchors stay anchors.
<1>3. ASSUME NEW c \in Concepts, Anchored(c) PROVE Anchored(c)'
  <2>1. CASE links' = links
    BY <1>3, <2>1, AnchoredUnchanged
  <2>2. ASSUME NEW bad, Parse(t, bad) PROVE Edges \subseteq Edges'
    BY <2>2, ParseType
  <2>3. CASE Edges \subseteq Edges'
    BY <1>3, <2>3, AnchoredStays DEF Shape
  <2>4. links' = links \/ \E bad : Parse(t, bad)
    BY <1>1, Zenon DEF Annotate, Correlate, ReadNodes, AssignNodes, Fail
  <2> QED BY <2>1, <2>2, <2>3, <2>4
\* A step of one request, as seen from the others.
<1>4. ASSUME \A u \in Trainers : u # t => training'[u] = training[u],
             \A c \in Range(model') : Anchored(c)',
             training'[t].pc = "correlated" => \A c \in Range(ResultNodes(t)') : Anchored(c)',
             training'[t].pc = "extended" => \A c \in Range(training'[t].nodes) : Anchored(c)'
      PROVE  Anchors'
  <2>1. ASSUME NEW u \in Trainers, u # t
        PROVE  /\ training'[u].pc = "correlated" => \A c \in Range(ResultNodes(u)') : Anchored(c)'
               /\ training'[u].pc = "extended" => \A c \in Range(training'[u].nodes) : Anchored(c)'
    <3>1. training'[u] = training[u] /\ ResultNodes(u)' = ResultNodes(u)
      BY <1>4, <2>1 DEF ResultNodes
    <3>2. /\ training[u].pc = "correlated" => \A c \in Range(ResultNodes(u)) : Anchored(c)
          /\ training[u].pc = "extended" => \A c \in Range(training[u].nodes) : Anchored(c)
      BY DEF Anchors
    <3>3. /\ training[u].pc = "correlated" => \A c \in Range(ResultNodes(u)) : Anchored(c)'
          /\ training[u].pc = "extended" => \A c \in Range(training[u].nodes) : Anchored(c)'
      BY <1>2, <1>3, <3>2
    <3> QED BY <3>1, <3>3
  <2> QED BY <1>4, <2>1 DEF Anchors
<1>5. ASSUME model' = model PROVE \A c \in Range(model') : Anchored(c)'
  BY <1>2, <1>3, <1>5 DEF Anchors
<1>6. ASSUME NEW s \in Sentences, Annotate(t, s) PROVE Anchors'
  <2>1. model' = model
    BY <1>6 DEF Annotate
  <2>2. /\ \A u \in Trainers : u # t => training'[u] = training[u]
        /\ training'[t].pc = "annotated"
    BY <1>6, AnnotateType
  <2> QED BY <1>4, <1>5, <2>1, <2>2
<1>7. ASSUME NEW bad, Parse(t, bad) PROVE Anchors'
  <2>1. model' = model
    BY <1>7 DEF Parse
  <2>2. /\ \A u \in Trainers : u # t => training'[u] = training[u]
        /\ training'[t].pc \in {"parsed", "failed"}
    BY <1>7, ParseType
  <2> QED BY <1>4, <1>5, <2>1, <2>2
<1>8. CASE Correlate(t)
  <2>1. model' = model /\ links' = links
    BY <1>8 DEF Correlate
  <2>2. /\ \A u \in Trainers : u # t => training'[u] = training[u]
        /\ training'[t].pc = "correlated"
        /\ \A i \in DOMAIN training'[t].new :
              /\ training'[t].new[i] \in Concepts
              /\ training'[t].maps[i] = FindPathToTarget(training'[t].new[i])
        /\ DOMAIN training'[t].maps = DOMAIN training'[t].new
    BY <1>8, CorrelateFacts
  <2>3. ASSUME NEW c \in Range(ResultNodes(t)') PROVE Anchored(c)'
    <3> DEFINE maps == training'[t].maps
               new == training'[t].new
    <3>1. maps \in Seq(Seq(Concepts))
      BY DEF Shape, Records
    <3>2. ResultNodes(t)' = FlattenSeq(maps)
      BY DEF ResultNodes
    <3>3. Range(FlattenSeq(maps)) = UNION {Range(maps[i]) : i \in DOMAIN maps}
      <4> HIDE DEF maps
      <4> QED BY <3>1, FlattenFacts
    <3>4. c \in Range(FlattenSeq(maps))
      BY <3>2
    <3>5. PICK i \in DOMAIN maps : c \in Range(maps[i])
      <4> HIDE DEF maps
      <4> QED BY <3>3, <3>4
    <3>6. new[i] \in Concepts /\ c \in Range(FindPathToTarget(new[i]))
      BY <2>2, <3>5
    <3>7. Anchored(c)
      <4>1. LinksOK /\ model \in Seq(Concepts) /\ \A d \in Range(model) : Anchored(d)
        BY DEF Shape, Anchors
      <4> HIDE DEF new
      <4> QED BY <3>6, <4>1, MapsAreAnchored
    <3> QED BY <2>1, <3>7, AnchoredUnchanged
  <2> QED BY <1>4, <1>5, <2>1, <2>2, <2>3
<1>9. CASE ReadNodes(t)
  <2>1. model' = model /\ training[t].pc = "correlated"
    BY <1>9 DEF ReadNodes
  <2>2. /\ \A u \in Trainers : u # t => training'[u] = training[u]
        /\ training'[t].pc = "extended"
        /\ training'[t].nodes = model \o ResultNodes(t)
    BY <1>9, ReadNodesType
  <2>3. Range(training'[t].nodes) = Range(model) \cup Range(ResultNodes(t))
    BY <1>2, <2>2, ConcatFacts
  <2>4. \A c \in Range(training'[t].nodes) : c \in Concepts /\ Anchored(c)
    BY <1>2, <2>1, <2>3 DEF Anchors
  <2>5. \A c \in Range(training'[t].nodes) : Anchored(c)'
    BY <1>3, <2>4
  <2> QED BY <1>4, <1>5, <2>1, <2>2, <2>5
<1>10. CASE AssignNodes(t)
  <2>1. /\ model' = training[t].nodes /\ training[t].pc = "extended"
        /\ training' = [training EXCEPT ![t].pc = "done"]
    BY <1>10 DEF AssignNodes
  <2>2. /\ \A u \in Trainers : u # t => training'[u] = training[u]
        /\ training'[t].pc = "done"
    BY <2>1, EndType
  <2>3. \A c \in Range(model') : Anchored(c)'
    BY <1>2, <1>3, <2>1 DEF Anchors
  <2> QED BY <1>4, <2>2, <2>3
<1>11. CASE Fail(t)
  <2>1. model' = model /\ training' = [training EXCEPT ![t].pc = "failed"]
    BY <1>11 DEF Fail
  <2>2. /\ \A u \in Trainers : u # t => training'[u] = training[u]
        /\ training'[t].pc = "failed"
    BY <2>1, EndType
  <2> QED BY <1>4, <1>5, <2>1, <2>2
<1> QED
  BY <1>1, <1>6, <1>7, <1>8, <1>9, <1>10, <1>11

-----------------------------------------------------------------------------
(* The theorems                                                             *)

LEMMA Invariance == Spec => [](Shape /\ OneAtATime /\ Anchors)
<1>1. Init => Shape /\ OneAtATime /\ Anchors
  BY InitOK
<1>2. Shape /\ OneAtATime /\ Anchors /\ [Next]_vars => (Shape /\ OneAtATime /\ Anchors)'
  <2> SUFFICES ASSUME Shape, OneAtATime, Anchors, [Next]_vars
               PROVE  Shape' /\ OneAtATime' /\ Anchors'
    OBVIOUS
  <2>1. CASE Next
    BY <2>1, ShapeInv, OneAtATimeInv, AnchorsInv
  <2>2. CASE UNCHANGED vars
    BY <2>2, StutterFacts
  <2> QED BY <2>1, <2>2
<1> QED
  BY <1>1, <1>2, PTL DEF Spec

\* Types: a training keeps to the concepts that exist, whatever its parse, its search
\* and the requests beside it do.
THEOREM TypeCorrect == Spec => []TypeOK
<1>1. Shape => TypeOK
  BY DEF Shape, TypeOK, LinksOK, Records, PCs
<1> QED
  BY <1>1, Invariance, PTL

\* Whatever trainings ran, failed and overlapped, what the model was taught is linked to
\* what it started with.
THEOREM TaughtStaysConnected == Spec => []TaughtIsConnected
<1>1. Anchors => TaughtIsConnected
  BY DEF Anchors, Anchored, TaughtIsConnected
<1> QED
  BY <1>1, Invariance, PTL

\* A step that ends a search: its maps are what findPathToTarget finds in the links and
\* the model of that moment.
LEMMA SearchStep ==
    ASSUME Shape, [Next]_vars, NEW t \in Trainers,
           training[t].pc = "parsed", training'[t].pc = "correlated",
           NEW i \in DOMAIN training'[t].new
    PROVE  /\ training'[t].new[i] \in Concepts
           /\ training'[t].maps[i] = FindPathToTarget(training'[t].new[i])
<1>1. Next
  BY DEF vars
<1>2. PICK u \in Trainers :
        \/ \E s \in Sentences : Annotate(u, s)
        \/ \E bad \in Words \cup {"none"} : Parse(u, bad)
        \/ Correlate(u)
        \/ ReadNodes(u)
        \/ AssignNodes(u)
        \/ Fail(u)
  BY <1>1, Zenon DEF Next
<1>3. ASSUME NEW s \in Sentences, Annotate(u, s) PROVE FALSE
  BY <1>3, AnnotateType
<1>4. ASSUME NEW bad, Parse(u, bad) PROVE FALSE
  BY <1>4, ParseType
<1>5. ASSUME ReadNodes(u) PROVE FALSE
  BY <1>5, ReadNodesType
<1>6. ASSUME AssignNodes(u) \/ Fail(u) PROVE FALSE
  <2>1. PICK pc \in {"done", "failed"} : training' = [training EXCEPT ![u].pc = pc]
    BY <1>6 DEF AssignNodes, Fail
  <2> QED BY <2>1, EndType
<1>7. Correlate(u)
  BY <1>2, <1>3, <1>4, <1>5, <1>6
<1>8. u = t
  BY <1>7, CorrelateFacts
<1> QED
  BY <1>7, <1>8, CorrelateFacts

\* The search of Correlation is complete: it cuts its way short at every concept it has
\* been at and still finds a map exactly if the links lead to the model.
THEOREM SearchIsComplete == Spec => MapsAreComplete
<1> DEFINE Complete ==
        \A t \in Trainers : training[t].pc = "parsed" /\ training'[t].pc = "correlated" =>
          LET r == training'[t]
          IN  \A i \in DOMAIN r.new :
                 r.maps[i] # <<>> <=> \E c \in Reached(Edges, r.new[i]) : FindInTarget(c)
<1>1. ASSUME Shape, [Next]_vars PROVE Complete
  <2> SUFFICES ASSUME NEW t \in Trainers,
                      training[t].pc = "parsed", training'[t].pc = "correlated",
                      NEW i \in DOMAIN training'[t].new
               PROVE  training'[t].maps[i] # <<>>
                        <=> \E c \in Reached(Edges, training'[t].new[i]) : FindInTarget(c)
    OBVIOUS
  <2>1. /\ training'[t].new[i] \in Concepts
        /\ training'[t].maps[i] = FindPathToTarget(training'[t].new[i])
    BY <1>1, SearchStep
  <2>2. LinksOK
    BY <1>1 DEF Shape
  <2> QED BY <2>1, <2>2, FindPathFacts
<1>2. Shape /\ [Next]_vars => [Complete]_vars
  BY <1>1
<1>3. [][Complete]_vars => MapsAreComplete
  BY DEF MapsAreComplete
<1> HIDE DEF Complete
<1> QED
  BY <1>2, <1>3, Invariance, PTL DEF Spec

\* And it is sound: a map ends in the model, contains the concept it is for, and nothing
\* that the links do not lead to.
THEOREM SearchIsSound == Spec => MapsAreSound
<1> DEFINE Sound ==
        \A t \in Trainers : training[t].pc = "parsed" /\ training'[t].pc = "correlated" =>
          LET r == training'[t]
          IN  \A i \in DOMAIN r.new :
                 r.maps[i] # <<>> =>
                    /\ FindInTarget(Last(r.maps[i]))
                    /\ r.new[i] \in Range(r.maps[i])
                    /\ Range(r.maps[i]) \subseteq Reached(Edges, r.new[i])
<1>1. ASSUME Shape, [Next]_vars PROVE Sound
  <2> SUFFICES ASSUME NEW t \in Trainers,
                      training[t].pc = "parsed", training'[t].pc = "correlated",
                      NEW i \in DOMAIN training'[t].new, training'[t].maps[i] # <<>>
               PROVE  /\ FindInTarget(Last(training'[t].maps[i]))
                      /\ training'[t].new[i] \in Range(training'[t].maps[i])
                      /\ Range(training'[t].maps[i]) \subseteq Reached(Edges, training'[t].new[i])
    OBVIOUS
  <2>1. /\ training'[t].new[i] \in Concepts
        /\ training'[t].maps[i] = FindPathToTarget(training'[t].new[i])
    BY <1>1, SearchStep
  <2>2. LinksOK
    BY <1>1 DEF Shape
  <2> QED BY <2>1, <2>2, FindPathFacts
<1>2. Shape /\ [Next]_vars => [Sound]_vars
  BY <1>1
<1>3. [][Sound]_vars => MapsAreSound
  BY DEF MapsAreSound
<1> HIDE DEF Sound
<1> QED
  BY <1>2, <1>3, Invariance, PTL DEF Spec

\* However trainings overlap before they change the model: while no two are between
\* reading its nodes and assigning them, a word that is recognised keeps its concept.
THEOREM RecognisedWordsStay == Spec => RecognisedStays
<1> DEFINE Stays ==
        \A w \in Words :
          LET before == CheckLocalKB(w)
          IN  before # None /\ ~overlap => CheckLocalKB(w)' = before
<1>1. ASSUME Shape, OneAtATime, [Next]_vars PROVE Stays
  <2> SUFFICES ASSUME NEW w \in Words, CheckLocalKB(w) # None, ~overlap
               PROVE  CheckLocalKB(w)' = CheckLocalKB(w)
    OBVIOUS
  <2>1. CASE model' = model
    BY <2>1 DEF CheckLocalKB
  <2>2. ASSUME NEW t \in Trainers, AssignNodes(t)
        PROVE  CheckLocalKB(w)' = CheckLocalKB(w)
    <3>1. model' = training[t].nodes /\ training[t].pc = "extended"
      BY <2>2 DEF AssignNodes
    <3>2. PICK r \in Seq(Concepts) : model' = model \o r
      BY <1>1, <3>1 DEF OneAtATime
    <3>3. model \in Seq(Concepts) /\ CheckList(model, w) # None
      BY <1>1 DEF Shape, CheckLocalKB
    <3>4. CheckList(model \o r, w) = CheckList(model, w)
      BY <3>3, CheckListStays
    <3> QED BY <3>2, <3>4 DEF CheckLocalKB
  <2>3. model' = model \/ \E t \in Trainers : AssignNodes(t)
    BY <1>1, Zenon DEF Next, vars, Annotate, Parse, Correlate, ReadNodes, Fail
  <2> QED BY <2>1, <2>2, <2>3
<1>2. Shape /\ OneAtATime /\ [Next]_vars => [Stays]_vars
  BY <1>1
<1>3. [][Stays]_vars => RecognisedStays
  BY DEF RecognisedStays
<1> HIDE DEF Stays
<1> QED
  BY <1>2, <1>3, Invariance, PTL DEF Spec

=============================================================================
