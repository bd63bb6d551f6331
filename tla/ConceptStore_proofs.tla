-------------------------- MODULE ConceptStore_proofs --------------------------
(***************************************************************************)
(* What ConceptStore promises, for all words, any numbers that the random   *)
(* generator may answer, and any number of trainings and restarts.          *)
(***************************************************************************)
EXTENDS ConceptStore, Lists_proofs

-----------------------------------------------------------------------------
(* Objects                                                                  *)

Kinds == {"network", "concept", "phrase"}

LinksOK(s, N) ==
    /\ s \in Seq(Range(s))
    /\ \A l \in Range(s) : l.source \in 1..N /\ l.destination \in 1..N

\* An object whose references are numbers of objects up to N.
ObjOK(x, N) ==
    /\ x \in [kind : Kinds, name : {x.name}, uid : Nat \cup {NoUid}, key : {x.key},
              nodes : Seq(1..N), generalisations : Seq(1..N), specialisations : Seq(1..N),
              phrases : Seq(1..N), concepts : Seq(1..N), links : {x.links}]
    /\ LinksOK(x.links, N)

ObjsOK(s, N) == s \in Seq(Range(s)) /\ \A i \in 1..Len(s) : ObjOK(s[i], N)

\* A list is a list of its elements.
LEMMA IsList ==
    ASSUME NEW S, NEW s \in Seq(S)
    PROVE  /\ s \in Seq(Range(s)) /\ Len(s) \in Nat /\ DOMAIN s = 1..Len(s)
           /\ Range(s) \subseteq S
<1>1. Len(s) \in Nat /\ DOMAIN s = 1..Len(s) /\ s \in [1..Len(s) -> S]
  OBVIOUS
<1>2. \A i \in 1..Len(s) : s[i] \in Range(s) /\ s[i] \in S
  BY <1>1 DEF Range
<1>3. s \in [1..Len(s) -> Range(s)]
  BY <1>1, <1>2
<1>4. s \in Seq(Range(s))
  BY <1>1, <1>3, FunctionIsSeq
<1> QED
  BY <1>1, <1>2, <1>4 DEF Range

\* Two lists of different things, one after the other.
LEMMA ConcatList ==
    ASSUME NEW s, NEW r, s \in Seq(Range(s)), r \in Seq(Range(r))
    PROVE  /\ s \o r \in Seq(Range(s \o r))
           /\ Len(s \o r) = Len(s) + Len(r) /\ Len(s) \in Nat /\ Len(r) \in Nat
           /\ Range(s \o r) = Range(s) \cup Range(r)
           /\ \A i \in 1..Len(s) : (s \o r)[i] = s[i]
           /\ \A i \in 1..Len(r) : (s \o r)[Len(s) + i] = r[i]
<1> DEFINE S == Range(s) \cup Range(r)
<1>1. s \in Seq(S) /\ r \in Seq(S)
  <2>1. Range(s) \subseteq S /\ Range(r) \subseteq S
    OBVIOUS
  <2> HIDE DEF S
  <2> QED BY <2>1, LargerSeq
<1> HIDE DEF S
<1>2. /\ s \o r \in Seq(S) /\ Range(s \o r) = Range(s) \cup Range(r)
      /\ Len(s \o r) = Len(s) + Len(r)
  BY <1>1, ConcatFacts
<1>3. s \o r \in Seq(Range(s \o r))
  BY <1>2, IsList
<1>4. /\ \A i \in 1..Len(s) : (s \o r)[i] = s[i]
      /\ \A i \in 1..Len(r) : (s \o r)[Len(s) + i] = r[i]
      /\ Len(s) \in Nat /\ Len(r) \in Nat
  BY <1>1
<1> QED
  BY <1>2, <1>3, <1>4

LEMMA SeqGrows ==
    ASSUME NEW N \in Nat, NEW M \in Nat, N <= M, NEW s \in Seq(1..N)
    PROVE  s \in Seq(1..M)
<1>1. 1..N \subseteq 1..M
  OBVIOUS
<1> QED
  BY <1>1, LargerSeq

LEMMA LinksGrow ==
    ASSUME NEW N \in Nat, NEW M \in Nat, N <= M, NEW s, LinksOK(s, N)
    PROVE  LinksOK(s, M)
  BY DEF LinksOK

LEMMA ObjGrows ==
    ASSUME NEW N \in Nat, NEW M \in Nat, N <= M, NEW x, ObjOK(x, N)
    PROVE  ObjOK(x, M)
<1>1. /\ x.nodes \in Seq(1..N) /\ x.generalisations \in Seq(1..N)
      /\ x.specialisations \in Seq(1..N) /\ x.phrases \in Seq(1..N)
      /\ x.concepts \in Seq(1..N)
  BY DEF ObjOK
<1>2. /\ x.nodes \in Seq(1..M) /\ x.generalisations \in Seq(1..M)
      /\ x.specialisations \in Seq(1..M) /\ x.phrases \in Seq(1..M)
      /\ x.concepts \in Seq(1..M)
  BY <1>1, SeqGrows
<1>3. LinksOK(x.links, M)
  BY LinksGrow DEF ObjOK
<1> QED
  BY <1>2, <1>3 DEF ObjOK

LEMMA ObjsGrow ==
    ASSUME NEW N \in Nat, NEW M \in Nat, N <= M, NEW s, ObjsOK(s, N)
    PROVE  ObjsOK(s, M)
  BY ObjGrows DEF ObjsOK

\* More objects.
LEMMA ObjsConcat ==
    ASSUME NEW N \in Nat, NEW s, NEW r, ObjsOK(s, N), ObjsOK(r, N)
    PROVE  ObjsOK(s \o r, N) /\ Len(s \o r) = Len(s) + Len(r)
<1>1. s \in Seq(Range(s)) /\ r \in Seq(Range(r))
  BY DEF ObjsOK
<1>2. /\ s \o r \in Seq(Range(s \o r))
      /\ Len(s \o r) = Len(s) + Len(r) /\ Len(s) \in Nat /\ Len(r) \in Nat
      /\ \A i \in 1..Len(s) : (s \o r)[i] = s[i]
      /\ \A i \in 1..Len(r) : (s \o r)[Len(s) + i] = r[i]
  BY <1>1, ConcatList
<1>3. ASSUME NEW i \in 1..Len(s \o r) PROVE ObjOK((s \o r)[i], N)
  <2>1. CASE i <= Len(s)
    BY <1>2, <2>1 DEF ObjsOK
  <2>2. CASE i > Len(s)
    <3>1. i - Len(s) \in 1..Len(r) /\ i = Len(s) + (i - Len(s))
      BY <1>2, <2>2
    <3>2. (s \o r)[i] = r[i - Len(s)]
      BY <1>2, <3>1
    <3> QED BY <3>1, <3>2 DEF ObjsOK
  <2> QED BY <1>2, <2>1, <2>2
<1> QED
  BY <1>2, <1>3 DEF ObjsOK

\* Another object in the place of one.
LEMMA ObjsExcept ==
    ASSUME NEW N \in Nat, NEW s, ObjsOK(s, N), NEW o \in 1..Len(s), NEW x, ObjOK(x, N)
    PROVE  /\ ObjsOK([s EXCEPT ![o] = x], N) /\ Len([s EXCEPT ![o] = x]) = Len(s)
           /\ [s EXCEPT ![o] = x][o] = x
           /\ \A p \in 1..Len(s) : p # o => [s EXCEPT ![o] = x][p] = s[p]
<1> DEFINE S == Range(s) \cup {x}
           t == [s EXCEPT ![o] = x]
<1>1. Len(s) \in Nat /\ DOMAIN s = 1..Len(s) /\ s \in [1..Len(s) -> Range(s)]
  BY DEF ObjsOK
<1>2. /\ t \in [1..Len(s) -> S] /\ t[o] = x
      /\ \A p \in 1..Len(s) : p # o => t[p] = s[p]
  BY <1>1
<1> HIDE DEF t, S
<1>3. t \in Seq(S) /\ Len(t) = Len(s)
  BY <1>1, <1>2, FunctionIsSeq
<1>4. t \in Seq(Range(t))
  BY <1>3, IsList
<1>5. \A p \in 1..Len(t) : ObjOK(t[p], N)
  BY <1>2, <1>3 DEF ObjsOK
<1> QED
  BY <1>2, <1>3, <1>4, <1>5 DEF ObjsOK, t

LEMMA ObjectType ==
    ASSUME NEW N \in Nat, NEW kind \in Kinds, NEW name, NEW uid \in Nat \cup {NoUid}
    PROVE  /\ ObjOK(Object(kind, name, uid), N)
           /\ Object(kind, name, uid).uid = uid /\ Object(kind, name, uid).name = name
           /\ Object(kind, name, uid).kind = kind
<1>1. LinksOK(<<>>, N)
  BY DEF LinksOK, Range
<1> QED
  BY <1>1 DEF ObjOK, Object

\* The changes that are made to an object.
LEMMA FieldsOK ==
    ASSUME NEW N \in Nat, NEW x, ObjOK(x, N), NEW s \in Seq(1..N)
    PROVE  /\ ObjOK([x EXCEPT !.nodes = s], N) /\ ObjOK([x EXCEPT !.phrases = s], N)
           /\ ObjOK([x EXCEPT !.generalisations = s], N)
           /\ ObjOK([x EXCEPT !.specialisations = s], N)
           /\ ObjOK([x EXCEPT !.concepts = s], N)
  BY DEF ObjOK

LEMMA LinksFieldOK ==
    ASSUME NEW N \in Nat, NEW x, ObjOK(x, N), NEW s, LinksOK(s, N)
    PROVE  ObjOK([x EXCEPT !.links = s], N)
  BY DEF ObjOK

LEMMA UidFieldOK ==
    ASSUME NEW N \in Nat, NEW x, ObjOK(x, N), NEW u \in Nat \cup {NoUid}
    PROVE  ObjOK([x EXCEPT !.uid = u], N) /\ [x EXCEPT !.uid = u].uid = u
  BY DEF ObjOK

LEMMA AskedOK ==
    ASSUME NEW N \in Nat, NEW x, ObjOK(x, N)
    PROVE  ObjOK(Asked(x), N) /\ Asked(x).uid = x.uid
  BY DEF ObjOK, Asked

-----------------------------------------------------------------------------
(* save                                                                     *)

\* Calls for objects up to N, from nodes up to L; only the first call of a save is one
\* of type default.
CallOK(e, N, L) == e.to \in 1..N /\ e.from \in 0..L /\ e.type # "default"
CallsOK(s, N, L) == s \in Seq(Range(s)) /\ \A e \in Range(s) : CallOK(e, N, L)

LEMMA CallsConcat ==
    ASSUME NEW N, NEW L, NEW s, NEW r, CallsOK(s, N, L), CallsOK(r, N, L)
    PROVE  CallsOK(s \o r, N, L)
<1>1. s \in Seq(Range(s)) /\ r \in Seq(Range(r))
  BY DEF CallsOK
<1>2. s \o r \in Seq(Range(s \o r)) /\ Range(s \o r) = Range(s) \cup Range(r)
  BY <1>1, ConcatList
<1> QED
  BY <1>2 DEF CallsOK

LEMMA CallsGrow ==
    ASSUME NEW N, NEW L \in Nat, NEW M \in Nat, L <= M, NEW s, CallsOK(s, N, L)
    PROVE  CallsOK(s, N, M)
  BY DEF CallsOK, CallOK

Part(n, type, s) == [i \in DOMAIN s |-> [from |-> n, type |-> type, key |-> NoKey, to |-> s[i]]]

LEMMA PartOK ==
    ASSUME NEW N \in Nat, NEW L \in Nat, NEW n \in 0..L, NEW type, type # "default",
           NEW s \in Seq(1..N)
    PROVE  CallsOK(Part(n, type, s), N, L)
<1> DEFINE C == [from : {n}, type : {type}, key : {NoKey}, to : 1..N]
<1>1. Len(s) \in Nat /\ DOMAIN s = 1..Len(s) /\ \A i \in 1..Len(s) : s[i] \in 1..N
  OBVIOUS
<1>2. Part(n, type, s) \in [1..Len(s) -> C]
  BY <1>1 DEF Part
<1>3. \A e \in C : CallOK(e, N, L)
  BY DEF CallOK
<1> HIDE DEF C
<1>4. Part(n, type, s) \in Seq(C)
  BY <1>1, <1>2, FunctionIsSeq
<1>5. Part(n, type, s) \in Seq(Range(Part(n, type, s))) /\ Range(Part(n, type, s)) \subseteq C
  BY <1>4, IsList
<1> QED
  BY <1>3, <1>5 DEF CallsOK

Ends(n, l) ==
    <<[from |-> n, type |-> "source", key |-> NameKey(l.name), to |-> l.source],
      [from |-> n, type |-> "destination", key |-> NameKey(l.name), to |-> l.destination]>>

LEMMA EndsOK ==
    ASSUME NEW N \in Nat, NEW L \in Nat, NEW n \in 0..L, NEW s, LinksOK(s, N)
    PROVE  CallsOK(FlattenSeq([i \in DOMAIN s |-> Ends(n, s[i])]), N, L)
<1> DEFINE Keys == {NameKey(l.name) : l \in Range(s)}
           C == [from : {n}, type : {"source", "destination"}, key : Keys, to : 1..N]
           ss == [i \in DOMAIN s |-> Ends(n, s[i])]
<1>1. s \in Seq(Range(s)) /\ Len(s) \in Nat /\ DOMAIN s = 1..Len(s)
  BY DEF LinksOK
<1>2. ASSUME NEW i \in 1..Len(s) PROVE Ends(n, s[i]) \in Seq(C)
  <2>1. s[i] \in Range(s)
    BY <1>1 DEF Range
  <2>2. s[i].source \in 1..N /\ s[i].destination \in 1..N /\ NameKey(s[i].name) \in Keys
    BY <2>1 DEF LinksOK
  <2> HIDE DEF Keys
  <2> QED BY <2>2 DEF Ends
<1>3. \A e \in C : CallOK(e, N, L)
  BY DEF CallOK
<1> HIDE DEF C
<1>4. ss \in [1..Len(s) -> Seq(C)]
  BY <1>1, <1>2
<1> HIDE DEF ss
<1>5. ss \in Seq(Seq(C))
  BY <1>1, <1>4, FunctionIsSeq
<1>6. FlattenSeq(ss) \in Seq(C)
  BY <1>5, FlattenFacts
<1>7. FlattenSeq(ss) \in Seq(Range(FlattenSeq(ss))) /\ Range(FlattenSeq(ss)) \subseteq C
  BY <1>6, IsList
<1> QED
  BY <1>3, <1>7 DEF CallsOK, ss

LEMMA ChildrenOK ==
    ASSUME NEW N \in Nat, NEW L \in Nat, NEW n \in 0..L, NEW x, ObjOK(x, N)
    PROVE  CallsOK(Children(x, n), N, L)
<1>1. Children(x, n) =
        Part(n, "nodes", x.nodes) \o Part(n, "rootNodes", x.nodes)
          \o Part(n, "generalisations", x.generalisations)
          \o Part(n, "specialisations", x.specialisations)
          \o Part(n, "phrases", x.phrases)
          \o Part(n, "concepts", x.concepts)
          \o FlattenSeq([i \in DOMAIN x.links |-> Ends(n, x.links[i])])
  BY Zenon DEF Children, Part, Ends, MapSeq
<1>2. /\ x.nodes \in Seq(1..N) /\ x.generalisations \in Seq(1..N)
      /\ x.specialisations \in Seq(1..N) /\ x.phrases \in Seq(1..N)
      /\ x.concepts \in Seq(1..N) /\ LinksOK(x.links, N)
  BY DEF ObjOK
<1>3. /\ CallsOK(Part(n, "nodes", x.nodes), N, L)
      /\ CallsOK(Part(n, "rootNodes", x.nodes), N, L)
      /\ CallsOK(Part(n, "generalisations", x.generalisations), N, L)
      /\ CallsOK(Part(n, "specialisations", x.specialisations), N, L)
      /\ CallsOK(Part(n, "phrases", x.phrases), N, L)
      /\ CallsOK(Part(n, "concepts", x.concepts), N, L)
  BY <1>2, PartOK
<1>4. CallsOK(FlattenSeq([i \in DOMAIN x.links |-> Ends(n, x.links[i])]), N, L)
  BY <1>2, EndsOK
<1> QED
  BY <1>1, <1>3, <1>4, CallsConcat

LEMMA TailType ==
    ASSUME NEW S, NEW s \in Seq(S), s # <<>>
    PROVE  Tail(s) \in Seq(S)
  OBVIOUS

LEMMA ShortTail ==
    ASSUME NEW S, NEW s \in Seq(S), Len(s) = 1
    PROVE  Tail(s) = <<>>
<1>1. s # <<>>
  OBVIOUS
<1>2. Tail(s) \in Seq(S) /\ Len(Tail(s)) = 0
  BY <1>1
<1> DEFINE t == Tail(s)
<1>3. t \in Seq(S) /\ Len(t) = 0
  BY <1>2
<1> HIDE DEF t
<1>4. t = <<>>
  BY <1>3
<1> QED
  BY <1>4 DEF t

RelsOK(rels, L) == IsFiniteSet(rels) /\ \A r \in rels : r.from \in 0..L /\ r.to \in 0..L

\* A save of N objects.
StOK(st, N) ==
    /\ st \in [obj : {st.obj}, cache : {st.cache}, node : {st.node}, rel : {st.rel},
               saved : {st.saved}, done : SUBSET (1..N), misled : SUBSET (1..N),
               ok : BOOLEAN, todo : {st.todo}]
    /\ ObjsOK(st.obj, N) /\ Len(st.obj) = N
    /\ st.node \in Seq(Range(st.node))
    /\ st.cache \in [DOMAIN st.cache -> 1..N] /\ DOMAIN st.cache \subseteq 1..Len(st.node)
    /\ RelsOK(st.rel, Len(st.node))
    /\ st.todo \in Seq(Range(st.todo))
    /\ \A e \in Range(st.todo) : /\ e.to \in 1..N /\ e.from \in 0..Len(st.node)
                                 /\ e.type # "default" \/ (st.saved = {} /\ Len(st.todo) = 1)

\* The object that a call is for, asked for its key.
AskedFor(st) ==
    LET o == Head(st.todo).to
    IN  IF Head(st.todo).key = NoKey THEN Asked(st.obj[o]) ELSE st.obj[o]
KeyFor(st) == IF Head(st.todo).key = NoKey THEN AskedFor(st).key ELSE Head(st.todo).key
Called(st) == [st EXCEPT !.obj[Head(st.todo).to] = AskedFor(st), !.todo = Tail(@)]

LEMMA CalledOK ==
    ASSUME NEW N \in Nat, NEW st, StOK(st, N), st.todo # <<>>
    PROVE  /\ StOK(Called(st), N)
           /\ \A p \in 1..N : Called(st).obj[p].uid = st.obj[p].uid
           /\ Called(st).obj[Head(st.todo).to] = AskedFor(st)
           /\ Called(st).cache = st.cache /\ Called(st).node = st.node
           /\ Called(st).rel = st.rel /\ Called(st).saved = st.saved
           /\ Called(st).done = st.done /\ Called(st).misled = st.misled
           /\ Called(st).ok = st.ok /\ Called(st).todo = Tail(st.todo)
           /\ Head(st.todo).to \in 1..N /\ Head(st.todo).from \in 0..Len(st.node)
           /\ Head(st.todo).type # "default" \/ st.saved = {}
           /\ \A e \in Range(Tail(st.todo)) : e.type # "default"
           /\ ObjOK(AskedFor(st), N)
<1> DEFINE e == Head(st.todo)
           o == e.to
           x == AskedFor(st)
           objs == [st.obj EXCEPT ![o] = x]
<1>1. st.todo \in Seq(Range(st.todo)) /\ st.todo # <<>>
  BY DEF StOK
<1>2. e \in Range(st.todo)
  <2>1. 1 \in DOMAIN st.todo /\ e = st.todo[1]
    BY <1>1
  <2> QED BY <2>1 DEF Range
<1>3. Tail(st.todo) \in Seq(Range(st.todo))
  BY <1>1, TailType
<1>4. Tail(st.todo) \in Seq(Range(Tail(st.todo))) /\ Range(Tail(st.todo)) \subseteq Range(st.todo)
  BY <1>3, IsList
<1>5. o \in 1..N /\ e.from \in 0..Len(st.node) /\ (e.type # "default" \/ st.saved = {})
  BY <1>2 DEF StOK
<1>6. ObjOK(st.obj[o], N) /\ ObjsOK(st.obj, N) /\ Len(st.obj) = N
  BY <1>5 DEF StOK, ObjsOK
<1>7. ObjOK(x, N) /\ x.uid = st.obj[o].uid
  BY <1>6, AskedOK DEF AskedFor
<1>8. Called(st) = [st EXCEPT !.obj = objs, !.todo = Tail(st.todo)]
  <2>1. st = [st EXCEPT !.obj = st.obj]
    BY DEF StOK
  <2> QED BY DEF Called, StOK
<1> HIDE DEF x, e
<1>9. /\ ObjsOK(objs, N) /\ Len(objs) = N /\ objs[o] = x
      /\ \A p \in 1..N : p # o => objs[p] = st.obj[p]
  BY <1>5, <1>6, <1>7, ObjsExcept
<1> HIDE DEF objs
<1>10. /\ Called(st).obj = objs
       /\ Called(st).cache = st.cache /\ Called(st).node = st.node
       /\ Called(st).rel = st.rel /\ Called(st).saved = st.saved
       /\ Called(st).done = st.done /\ Called(st).misled = st.misled
       /\ Called(st).ok = st.ok /\ Called(st).todo = Tail(st.todo)
       /\ Called(st) \in [obj : {objs}, cache : {st.cache}, node : {st.node}, rel : {st.rel},
               saved : {st.saved}, done : SUBSET (1..N), misled : SUBSET (1..N),
               ok : BOOLEAN, todo : {Tail(st.todo)}]
  BY <1>8 DEF StOK
<1>11. \A c \in Range(Tail(st.todo)) : c.type # "default"
  <2>1. Len(st.todo) = 1 => Tail(st.todo) = <<>>
    BY <1>1, ShortTail
  <2>2. Range(<<>>) = {}
    BY DEF Range
  <2> QED BY <1>4, <2>1, <2>2 DEF StOK
<1>12. StOK(Called(st), N)
  BY <1>4, <1>9, <1>10, <1>11 DEF StOK
<1>13. \A p \in 1..N : Called(st).obj[p].uid = st.obj[p].uid
  BY <1>7, <1>9, <1>10
<1> QED
  BY <1>5, <1>7, <1>9, <1>10, <1>11, <1>12, <1>13 DEF e, x

LEMMA RelationshipIs ==
    ASSUME NEW e, NEW key, NEW n
    PROVE  /\ Relationship(e, key, n).from = e.from /\ Relationship(e, key, n).to = n
           /\ Relationship(e, key, n).type = e.type
  BY DEF Relationship

LEMMA RelsGrow ==
    ASSUME NEW L \in Nat, NEW M \in Nat, L <= M, NEW rels, RelsOK(rels, L),
           NEW e, e.from \in 0..M, NEW key, NEW n \in 0..M
    PROVE  RelsOK(rels \cup {Relationship(e, key, n)}, M)
<1>1. IsFiniteSet(rels \cup {Relationship(e, key, n)})
  BY FS_AddElement DEF RelsOK
<1> QED
  BY <1>1, RelationshipIs DEF RelsOK

\* An object that is taken for saved.
LEMMA CreateLinkFacts ==
    ASSUME NEW N \in Nat, NEW st, StOK(st, N), NEW e, e.to \in 1..N,
           e.from \in 0..Len(st.node), NEW key
    PROVE  LET r == CreateLink(st, e, key)
           IN  /\ StOK(r, N)
               /\ r.obj = st.obj /\ r.cache = st.cache /\ r.node = st.node
               /\ r.saved = st.saved /\ r.done = st.done /\ r.todo = st.todo
               /\ r.misled = st.misled \/ Misled(st, e)
               /\ \A q \in r.rel : q \in st.rel \/ q.type = e.type
<1> DEFINE n == st.obj[e.to].uid
           exists == n \in 0 .. Len(st.node)
           rels == IF exists THEN st.rel \cup {Relationship(e, key, n)} ELSE st.rel
           ms == IF Misled(st, e) THEN st.misled \cup {e.to} ELSE st.misled
           r == CreateLink(st, e, key)
<1>1. r = [st EXCEPT !.ok = exists, !.rel = rels, !.misled = ms]
  BY DEF CreateLink
<1>2. ms \subseteq 1..N
  BY DEF StOK
<1>3. RelsOK(rels, Len(st.node))
  <2>1. Len(st.node) \in Nat /\ RelsOK(st.rel, Len(st.node))
    BY DEF StOK
  <2>2. ASSUME exists PROVE RelsOK(st.rel \cup {Relationship(e, key, n)}, Len(st.node))
    <3> DEFINE L == Len(st.node)
    <3>1. n \in 0..L /\ L \in Nat /\ L <= L /\ RelsOK(st.rel, L) /\ e.from \in 0..L
      BY <2>1, <2>2
    <3> HIDE DEF n, L
    <3>2. RelsOK(st.rel \cup {Relationship(e, key, n)}, L)
      BY <3>1, RelsGrow
    <3> QED BY <3>2 DEF L
  <2> HIDE DEF n
  <2> QED BY <2>1, <2>2
<1>4. exists \in BOOLEAN
  OBVIOUS
<1>5. (\A q \in rels : q \in st.rel \/ q.type = e.type) /\ (ms = st.misled \/ Misled(st, e))
  <2>1. Relationship(e, key, n).type = e.type
    BY RelationshipIs
  <2> HIDE DEF n
  <2> QED BY <2>1
<1> HIDE DEF exists, rels, ms, r
<1>6. /\ r.obj = st.obj /\ r.cache = st.cache /\ r.node = st.node
      /\ r.saved = st.saved /\ r.done = st.done /\ r.todo = st.todo
      /\ r.misled = ms /\ r.rel = rels
      /\ r \in [obj : {st.obj}, cache : {st.cache}, node : {st.node}, rel : {rels},
                saved : {st.saved}, done : SUBSET (1..N), misled : SUBSET (1..N),
                ok : BOOLEAN, todo : {st.todo}]
  BY <1>1, <1>2, <1>4 DEF StOK
<1>7. StOK(r, N)
  BY <1>3, <1>6 DEF StOK
<1> QED
  BY <1>5, <1>6, <1>7 DEF r, ms

\* An object that is saved gets a node of its own.
LEMMA SaveResourceFacts ==
    ASSUME NEW N \in Nat, NEW st, StOK(st, N), NEW e, e.to \in 1..N,
           e.from \in 0..Len(st.node), NEW key,
           \A c \in Range(st.todo) : c.type # "default"
    PROVE  LET r == SaveResource(st, e, key)
               n == Len(st.node) + 1
           IN  /\ StOK(r, N)
               /\ r.obj[e.to].uid = n
               /\ \A p \in 1..N : p # e.to => r.obj[p] = st.obj[p]
               /\ DOMAIN r.cache = DOMAIN st.cache \cup {n}
               /\ r.node = Append(st.node, st.obj[e.to].name)
               /\ Len(r.node) = n
               /\ r.saved = st.saved \cup {st.obj[e.to].uid, n}
               /\ r.done = st.done \cup {e.to} /\ r.misled = st.misled
               /\ r.rel = st.rel \cup {Relationship(e, key, n)}
<1> DEFINE n == Len(st.node) + 1
           o == e.to
           nodes == Append(st.node, st.obj[o].name)
           x == [st.obj[o] EXCEPT !.uid = n]
           objs == [st.obj EXCEPT ![o] = x]
           cached == Register(st.cache, n, o)
           rels == st.rel \cup {Relationship(e, key, n)}
           uids == st.saved \cup {st.obj[o].uid, n}
           calls == Children(st.obj[o], n) \o st.todo
           r == SaveResource(st, e, key)
<1>1. Len(st.node) \in Nat /\ n \in Nat /\ n \notin DOMAIN st.node /\ st.node \in Seq(Range(st.node))
  BY DEF StOK
<1>2. r = [st EXCEPT !.node = nodes, !.rel = rels, !.obj = objs, !.cache = cached,
                     !.saved = uids, !.done = st.done \cup {o}, !.todo = calls]
  <2>1. NodeFor(st, o) = n
    BY DEF NodeFor
  <2> QED BY <1>1, <2>1 DEF SaveResource, StOK
<1>3. ObjOK(st.obj[o], N) /\ ObjsOK(st.obj, N) /\ Len(st.obj) = N
  BY DEF StOK, ObjsOK
<1>4. /\ ObjsOK(objs, N) /\ Len(objs) = N /\ objs[o].uid = n
      /\ \A p \in 1..N : p # o => objs[p] = st.obj[p]
  <2>1. ObjOK(x, N) /\ x.uid = n
    BY <1>1, <1>3, UidFieldOK
  <2> HIDE DEF x
  <2>2. /\ ObjsOK(objs, N) /\ Len(objs) = N /\ objs[o] = x
        /\ \A p \in 1..N : p # o => objs[p] = st.obj[p]
    BY <1>3, <2>1, ObjsExcept
  <2> HIDE DEF objs
  <2> QED BY <2>1, <2>2
<1>5. nodes \in Seq(Range(nodes)) /\ Len(nodes) = n
  <2> DEFINE S == Range(st.node) \cup {st.obj[o].name}
  <2>1. st.node \in Seq(S) /\ st.obj[o].name \in S
    <3>1. Range(st.node) \subseteq S
      OBVIOUS
    <3> QED BY <1>1, <3>1, LargerSeq
  <2> HIDE DEF S
  <2>2. nodes \in Seq(S) /\ Len(nodes) = n
    BY <2>1
  <2> QED BY <2>2, IsList
<1>6. cached \in [DOMAIN st.cache \cup {n} -> 1..N]
  <2>1. st.cache \in [DOMAIN st.cache -> 1..N]
    BY DEF StOK
  <2>2. cached = [m \in DOMAIN st.cache \cup {n} |-> IF m = n THEN o ELSE st.cache[m]]
    BY DEF Register
  <2> HIDE DEF cached, n, o
  <2>3. o \in 1..N
    BY DEF o
  <2> QED BY <2>1, <2>2, <2>3
<1>7. RelsOK(rels, n)
  <2>1. RelsOK(st.rel, Len(st.node))
    BY DEF StOK
  <2>2. n \in 0..n /\ e.from \in 0..n /\ Len(st.node) <= n
    BY <1>1
  <2> HIDE DEF n
  <2> QED BY <1>1, <2>1, <2>2, RelsGrow
<1>8. /\ calls \in Seq(Range(calls))
      /\ \A c \in Range(calls) : c.to \in 1..N /\ c.from \in 0..n /\ c.type # "default"
  <2> DEFINE cs == Children(st.obj[o], n)
  <2>1. CallsOK(cs, N, n)
    BY <1>1, <1>3, ChildrenOK
  <2>2. cs \in Seq(Range(cs)) /\ st.todo \in Seq(Range(st.todo))
    BY <2>1 DEF CallsOK, StOK
  <2> HIDE DEF cs
  <2>3. calls \in Seq(Range(calls)) /\ Range(calls) = Range(cs) \cup Range(st.todo)
    BY <2>2, ConcatList DEF cs
  <2>4. \A c \in Range(st.todo) : c.to \in 1..N /\ c.from \in 0..n
    BY <1>1 DEF StOK
  <2>5. \A c \in Range(cs) : c.to \in 1..N /\ c.from \in 0..n /\ c.type # "default"
    BY <2>1 DEF CallsOK, CallOK
  <2> HIDE DEF calls
  <2> QED BY <2>3, <2>4, <2>5
<1> HIDE DEF n, nodes, objs, cached, rels, uids, calls, r, x
<1>9. /\ r.obj = objs /\ r.cache = cached /\ r.node = nodes /\ r.rel = rels
      /\ r.saved = uids /\ r.done = st.done \cup {o} /\ r.todo = calls /\ r.misled = st.misled
      /\ r \in [obj : {objs}, cache : {cached}, node : {nodes}, rel : {rels},
                saved : {uids}, done : SUBSET (1..N), misled : SUBSET (1..N),
                ok : BOOLEAN, todo : {calls}]
  BY <1>2 DEF StOK
<1>10. DOMAIN cached \subseteq 1..n /\ DOMAIN cached = DOMAIN st.cache \cup {n}
  <2>1. DOMAIN st.cache \subseteq 1..Len(st.node)
    BY DEF StOK
  <2> QED BY <1>1, <1>6, <2>1 DEF n
<1>11. StOK(r, N)
  BY <1>4, <1>5, <1>6, <1>7, <1>8, <1>9, <1>10 DEF StOK
<1> QED
  BY <1>4, <1>5, <1>9, <1>10, <1>11 DEF r, n, nodes, rels, uids

\* What a call does to uids, as seen from the objects 1..N: the object is linked, or it is
\* stored.
Linked(st, r, N) ==
    LET o == Head(st.todo).to
    IN  /\ o \in 1..N /\ st.obj[o].uid # NoUid /\ st.obj[o].uid \in st.saved
        /\ \A p \in 1..N : r.obj[p].uid = st.obj[p].uid
        /\ r.cache = st.cache /\ r.node = st.node /\ r.saved = st.saved /\ r.done = st.done
        /\ r.misled = st.misled \/ o \notin st.done
        /\ \A q \in r.rel : q \in st.rel \/ q.type # "default"
Stored(st, r, N) ==
    LET o == Head(st.todo).to
        n == Len(st.node) + 1
    IN  /\ o \in 1..N /\ r.obj[o].uid = n
        /\ \A p \in 1..N : p # o => r.obj[p].uid = st.obj[p].uid
        /\ DOMAIN r.cache = DOMAIN st.cache \cup {n} /\ Len(r.node) = n
        /\ r.saved = st.saved \cup {st.obj[o].uid, n}
        /\ r.done = st.done \cup {o} /\ r.misled = st.misled
        /\ \A q \in r.rel : q \in st.rel \/ q.to = n

LEMMA SaveCallFacts ==
    ASSUME NEW N \in Nat, NEW st, StOK(st, N)
    PROVE  /\ StOK(SaveCall(st), N)
           /\ \/ SaveCall(st) = st
              \/ Linked(st, SaveCall(st), N)
              \/ Stored(st, SaveCall(st), N)
<1> DEFINE e == Head(st.todo)
           o == e.to
           key == KeyFor(st)
           c == Called(st)
           r == SaveCall(st)
<1>1. r = IF ~st.ok \/ st.todo = <<>> THEN st
          ELSE IF CheckIfSaved(c, o) THEN CreateLink(c, e, key)
          ELSE SaveResource(c, e, key)
  BY Zenon DEF SaveCall, KeyFor, Called, AskedFor
<1>2. CASE ~st.ok \/ st.todo = <<>>
  BY <1>1, <1>2
<1>3. CASE st.ok /\ st.todo # <<>>
  <2>1. /\ StOK(c, N) /\ o \in 1..N /\ e.from \in 0..Len(st.node)
        /\ \A p \in 1..N : c.obj[p].uid = st.obj[p].uid
        /\ c.cache = st.cache /\ c.node = st.node /\ c.rel = st.rel /\ c.saved = st.saved
        /\ c.done = st.done /\ c.misled = st.misled /\ c.todo = Tail(st.todo)
        /\ e.type # "default" \/ st.saved = {}
        /\ \A d \in Range(Tail(st.todo)) : d.type # "default"
    BY <1>3, CalledOK
  <2> HIDE DEF c, e, key
  <2>2. CASE CheckIfSaved(c, o)
    <3>1. r = CreateLink(c, e, key)
      BY <1>1, <1>3, <2>2
    <3> DEFINE cl == CreateLink(c, e, key)
    <3>2. /\ StOK(cl, N)
          /\ cl.obj = c.obj /\ cl.cache = c.cache /\ cl.node = c.node
          /\ cl.saved = c.saved /\ cl.done = c.done /\ cl.todo = c.todo
          /\ cl.misled = c.misled \/ Misled(c, e)
          /\ \A q \in cl.rel : q \in c.rel \/ q.type = e.type
      <4>1. StOK(c, N) /\ e.to \in 1..N /\ e.from \in 0..Len(c.node)
        BY <2>1
      <4> QED BY <4>1, CreateLinkFacts
    <3>3. c.obj[o].uid # NoUid /\ c.obj[o].uid \in c.saved
      BY <2>2 DEF CheckIfSaved
    <3>4. cl.misled = st.misled \/ o \notin st.done
      BY <2>1, <3>2 DEF Misled
    <3>5. e.type # "default"
      BY <2>1, <3>3
    <3>6. \A q \in cl.rel : q \in st.rel \/ q.type # "default"
      BY <2>1, <3>2, <3>5
    <3> HIDE DEF cl
    <3>7. Linked(st, cl, N)
      BY <2>1, <3>2, <3>3, <3>4, <3>6 DEF Linked, e
    <3> QED BY <3>1, <3>2, <3>7 DEF cl
  <2>3. CASE ~CheckIfSaved(c, o)
    <3>1. r = SaveResource(c, e, key)
      BY <1>1, <1>3, <2>3
    <3> DEFINE cl == SaveResource(c, e, key)
               n == Len(c.node) + 1
    <3>2. /\ StOK(cl, N) /\ cl.obj[o].uid = n
          /\ \A p \in 1..N : p # o => cl.obj[p] = c.obj[p]
          /\ DOMAIN cl.cache = DOMAIN c.cache \cup {n}
          /\ Len(cl.node) = n
          /\ cl.saved = c.saved \cup {c.obj[o].uid, n}
          /\ cl.done = c.done \cup {o} /\ cl.misled = c.misled
          /\ cl.rel = c.rel \cup {Relationship(e, key, n)}
      BY <2>1, SaveResourceFacts, SMTT(30)
    <3>3. \A q \in cl.rel : q \in st.rel \/ q.to = n
      BY <2>1, <3>2, RelationshipIs
    <3> HIDE DEF cl
    <3>4. Stored(st, cl, N)
      BY <2>1, <3>2, <3>3 DEF Stored, e
    <3> QED BY <3>1, <3>2, <3>4 DEF cl
  <2> QED BY <2>2, <2>3
<1>4. st.ok \in BOOLEAN
  BY DEF StOK
<1> QED
  BY <1>2, <1>3, <1>4

\* The states of a save, one after each call.
Run(g, k, st) == g = [n \in 0..k |-> IF n = 0 THEN st ELSE SaveCall(g[n - 1])]

LEMMA RunIs ==
    ASSUME NEW st, NEW k \in Nat, NEW g, Run(g, k, st)
    PROVE  g[0] = st /\ \A n \in 1..k : g[n] = SaveCall(g[n - 1])
<1>1. \A n \in 0..k : g[n] = IF n = 0 THEN st ELSE SaveCall(g[n - 1])
  BY Zenon DEF Run
<1> QED
  BY <1>1

LEMMA RunExists ==
    ASSUME NEW st, NEW k \in Nat
    PROVE  \E g : Run(g, k, st)
<1> DEFINE Bad == {i \in Nat : ~\E g : Run(g, i, st)}
           rank == [i \in Nat |-> i]
<1>1. SUFFICES ASSUME Bad # {} PROVE FALSE
  OBVIOUS
<1>2. PICK i \in Bad : \A j \in Bad : i <= j
  <2>1. Bad \subseteq Nat /\ rank \in [Nat -> Nat]
    OBVIOUS
  <2>2. PICK d \in Bad : \A e \in Bad : rank[d] <= rank[e]
    <3> HIDE DEF Bad, rank
    <3> QED BY <1>1, <2>1, MinRank
  <2> QED BY <2>2
<1>3. i # 0
  <2> SUFFICES ASSUME i = 0 PROVE FALSE
    OBVIOUS
  <2> DEFINE g == [n \in 0..0 |-> st]
  <2>1. Run(g, 0, st)
    BY DEF Run
  <2> QED BY <2>1
<1>4. PICK g : Run(g, i - 1, st)
  <2>1. i - 1 \in Nat /\ i - 1 \notin Bad
    BY <1>2, <1>3
  <2> QED BY <2>1
<1> DEFINE h == [n \in 0..i |-> IF n = i THEN SaveCall(g[i - 1]) ELSE g[n]]
<1>5. i \in Nat /\ i - 1 \in Nat
  BY <1>3
<1>6. g[0] = st /\ \A n \in 1..(i - 1) : g[n] = SaveCall(g[n - 1])
  BY <1>4, <1>5, RunIs
<1>7. \A n \in 0..i : h[n] = IF n = 0 THEN st ELSE SaveCall(h[n - 1])
  <2> SUFFICES ASSUME NEW n \in 0..i
               PROVE  h[n] = IF n = 0 THEN st ELSE SaveCall(h[n - 1])
    OBVIOUS
  <2>1. CASE n = 0
    BY <1>3, <1>5, <1>6, <2>1
  <2>2. CASE n = i
    <3>1. h[i] = SaveCall(g[i - 1]) /\ h[i - 1] = g[i - 1]
      BY <1>3, <1>5
    <3> QED BY <1>3, <2>2, <3>1
  <2>3. CASE n # 0 /\ n # i
    <3>1. h[n] = g[n] /\ h[n - 1] = g[n - 1] /\ n \in 1..(i - 1)
      BY <1>5, <2>3
    <3> QED BY <1>6, <2>3, <3>1
  <2> QED BY <2>1, <2>2, <2>3
<1>8. Run(h, i, st)
  <2>1. h = [n \in 0..i |-> h[n]]
    OBVIOUS
  <2> HIDE DEF h
  <2> QED BY <1>7, <2>1 DEF Run
<1> QED
  BY <1>8

LEMMA RunsAgree ==
    ASSUME NEW st, NEW k \in Nat, NEW g, Run(g, k, st), NEW m \in Nat, NEW h, Run(h, m, st)
    PROVE  \A n \in Nat : n <= k /\ n <= m => g[n] = h[n]
<1> DEFINE Bad == {n \in Nat : n <= k /\ n <= m /\ g[n] # h[n]}
           rank == [i \in Nat |-> i]
<1>1. SUFFICES ASSUME Bad # {} PROVE FALSE
  OBVIOUS
<1>2. PICK i \in Bad : \A j \in Bad : i <= j
  <2>1. Bad \subseteq Nat /\ rank \in [Nat -> Nat]
    OBVIOUS
  <2>2. PICK d \in Bad : \A e \in Bad : rank[d] <= rank[e]
    <3> HIDE DEF Bad, rank
    <3> QED BY <1>1, <2>1, MinRank
  <2> QED BY <2>2
<1>3. /\ g[0] = st /\ \A n \in 1..k : g[n] = SaveCall(g[n - 1])
      /\ h[0] = st /\ \A n \in 1..m : h[n] = SaveCall(h[n - 1])
  BY RunIs
<1>4. i \in Nat /\ i # 0 /\ i <= k /\ i <= m /\ g[i] # h[i]
  BY <1>3
<1>5. i - 1 \in Nat /\ i - 1 \notin Bad /\ i \in 1..k /\ i \in 1..m
  BY <1>2, <1>4
<1>6. g[i - 1] = h[i - 1]
  BY <1>4, <1>5
<1> QED
  BY <1>3, <1>4, <1>5, <1>6

\* A save is a sequence of calls.
LEMMA SaveAllRuns ==
    ASSUME NEW st
    PROVE  \E after : /\ after[0] = st
                      /\ \A n \in Nat : n # 0 => after[n] = SaveCall(after[n - 1])
                      /\ SaveAll(st) = after[MaxCalls]
<1> DEFINE Step(f, n) == IF n = 0 THEN st ELSE SaveCall(f[n - 1])
           after == CHOOSE f : f = [n \in Nat |-> Step(f, n)]
           G(n) == CHOOSE g : Run(g, n, st)
           F == [n \in Nat |-> G(n)[n]]
<1>1. ASSUME NEW n \in Nat PROVE Run(G(n), n, st)
  <2>1. \E g : Run(g, n, st)
    BY RunExists
  <2> QED BY <2>1, Zenon
<1> HIDE DEF G
<1>2. \A n \in Nat : F[n] = Step(F, n)
  <2> SUFFICES ASSUME NEW n \in Nat PROVE F[n] = Step(F, n)
    OBVIOUS
  <2>1. F[n] = G(n)[n] /\ Run(G(n), n, st)
    BY <1>1
  <2>2. G(n)[0] = st /\ \A i \in 1..n : G(n)[i] = SaveCall(G(n)[i - 1])
    <3> DEFINE g == G(n)
    <3>1. Run(g, n, st)
      BY <2>1
    <3> HIDE DEF g
    <3>2. g[0] = st /\ \A i \in 1..n : g[i] = SaveCall(g[i - 1])
      BY <3>1, RunIs
    <3> QED BY <3>2 DEF g
  <2>3. CASE n = 0
    BY <2>1, <2>2, <2>3
  <2>4. CASE n # 0
    <3>1. n - 1 \in Nat /\ n \in 1..n /\ n - 1 <= n /\ n - 1 <= n - 1
      BY <2>4
    <3>2. F[n - 1] = G(n - 1)[n - 1] /\ Run(G(n - 1), n - 1, st)
      BY <1>1, <3>1
    <3>3. G(n)[n - 1] = G(n - 1)[n - 1]
      BY <2>1, <3>1, <3>2, RunsAgree
    <3>4. G(n)[n] = SaveCall(G(n)[n - 1])
      BY <2>2, <3>1
    <3> HIDE DEF F
    <3> QED BY <2>1, <2>4, <3>2, <3>3, <3>4
  <2> QED BY <2>3, <2>4
<1>3. F = [n \in Nat |-> Step(F, n)]
  <2>1. F = [n \in Nat |-> F[n]]
    OBVIOUS
  <2> HIDE DEF F, Step
  <2> QED BY <1>2, <2>1
<1>4. after = [n \in Nat |-> Step(after, n)]
  <2> HIDE DEF F, Step
  <2> QED BY <1>3, Zenon
<1>5. \A n \in Nat : after[n] = Step(after, n)
  <2> HIDE DEF after, Step
  <2> QED BY <1>4, Zenon
<1>6. SaveAll(st) = after[MaxCalls]
  BY Zenon DEF SaveAll
<1> HIDE DEF after
<1>7. after[0] = st /\ \A n \in Nat : n # 0 => after[n] = SaveCall(after[n - 1])
  BY <1>5
<1> QED
  BY <1>6, <1>7

\* In the JVM that made the store: uids are given once, unless random numbers clash, and
\* the list of saved uids has those of the objects that were saved; the versions are in
\* the cache.
Clashed(nums, L) == Range(nums) \cap (1..L) # {} \/ ~IsInjective(nums)
UidsApart(objs, N) ==
    \A p, q \in 1..N : p # q /\ objs[p].uid = objs[q].uid => objs[p].uid = NoUid
UidsFrom(objs, N, L, nums) ==
    \A p \in 1..N : objs[p].uid = NoUid \/ objs[p].uid \in 1..L \/ objs[p].uid \in Range(nums)
VersionsCached(rels, cached) == \A r \in rels : r.type = "default" => r.to \in DOMAIN cached
FirstSave(st, N, nums) ==
    /\ VersionsCached(st.rel, st.cache)
    /\ \/ Clashed(nums, Len(st.node))
       \/ /\ UidsApart(st.obj, N)
          /\ UidsFrom(st.obj, N, Len(st.node), nums)
          /\ st.misled = {}
          /\ \A p \in 1..N : p \in st.done \/ st.obj[p].uid = NoUid \/ st.obj[p].uid \notin st.saved

LEMMA ClashStays ==
    ASSUME NEW nums, NEW L \in Nat, NEW M \in Nat, L <= M, Clashed(nums, L)
    PROVE  Clashed(nums, M)
  BY DEF Clashed

LEMMA LinkedFirst ==
    ASSUME NEW N \in Nat, NEW nums, NEW st, NEW r, FirstSave(st, N, nums), Linked(st, r, N)
    PROVE  FirstSave(r, N, nums)
<1> DEFINE o == Head(st.todo).to
<1>1. /\ o \in 1..N /\ st.obj[o].uid # NoUid /\ st.obj[o].uid \in st.saved
      /\ \A p \in 1..N : r.obj[p].uid = st.obj[p].uid
      /\ r.cache = st.cache /\ r.node = st.node /\ r.saved = st.saved /\ r.done = st.done
      /\ r.misled = st.misled \/ o \notin st.done
      /\ \A q \in r.rel : q \in st.rel \/ q.type # "default"
  BY DEF Linked
<1>2. VersionsCached(r.rel, r.cache)
  BY <1>1 DEF FirstSave, VersionsCached
<1>3. CASE Clashed(nums, Len(st.node))
  BY <1>1, <1>2, <1>3 DEF FirstSave
<1>4. CASE ~Clashed(nums, Len(st.node))
  <2>1. /\ UidsApart(st.obj, N) /\ UidsFrom(st.obj, N, Len(st.node), nums)
        /\ st.misled = {}
        /\ \A p \in 1..N : p \in st.done \/ st.obj[p].uid = NoUid \/ st.obj[p].uid \notin st.saved
    BY <1>4 DEF FirstSave
  <2> HIDE DEF o
  <2>2. r.misled = {}
    BY <1>1, <2>1
  <2>3. UidsApart(r.obj, N) /\ UidsFrom(r.obj, N, Len(r.node), nums)
    BY <1>1, <2>1 DEF UidsApart, UidsFrom
  <2>4. \A p \in 1..N : p \in r.done \/ r.obj[p].uid = NoUid \/ r.obj[p].uid \notin r.saved
    BY <1>1, <2>1
  <2> QED BY <1>2, <2>2, <2>3, <2>4 DEF FirstSave
<1> QED
  BY <1>3, <1>4

LEMMA StoredFirst ==
    ASSUME NEW N \in Nat, NEW nums, NEW st, Len(st.node) \in Nat, NEW r,
           FirstSave(st, N, nums), Stored(st, r, N)
    PROVE  FirstSave(r, N, nums)
<1> DEFINE o == Head(st.todo).to
           L == Len(st.node)
           n == L + 1
<1>1. /\ o \in 1..N /\ r.obj[o].uid = n
      /\ \A p \in 1..N : p # o => r.obj[p].uid = st.obj[p].uid
      /\ DOMAIN r.cache = DOMAIN st.cache \cup {n} /\ Len(r.node) = n
      /\ r.saved = st.saved \cup {st.obj[o].uid, n}
      /\ r.done = st.done \cup {o} /\ r.misled = st.misled
      /\ \A q \in r.rel : q \in st.rel \/ q.to = n
  BY DEF Stored
<1> HIDE DEF o
<1>2. VersionsCached(r.rel, r.cache)
  BY <1>1 DEF FirstSave, VersionsCached
<1>3. L \in Nat /\ n \in Nat /\ L <= n
  OBVIOUS
<1>4. CASE Clashed(nums, L)
  <2> HIDE DEF L
  <2>1. Clashed(nums, n)
    BY <1>3, <1>4, ClashStays
  <2> HIDE DEF n
  <2> QED BY <1>1, <1>2, <2>1 DEF FirstSave
<1>5. CASE n \in Range(nums)
  <2>1. Clashed(nums, n)
    BY <1>3, <1>5 DEF Clashed
  <2> HIDE DEF n
  <2> QED BY <1>1, <1>2, <2>1 DEF FirstSave
<1>6. CASE ~Clashed(nums, L) /\ n \notin Range(nums)
  <2>1. /\ UidsApart(st.obj, N) /\ UidsFrom(st.obj, N, L, nums)
        /\ st.misled = {}
        /\ \A p \in 1..N : p \in st.done \/ st.obj[p].uid = NoUid \/ st.obj[p].uid \notin st.saved
    BY <1>6 DEF FirstSave
  <2>2. \A p \in 1..N : st.obj[p].uid # n
    BY <1>3, <1>6, <2>1 DEF UidsFrom, NoUid
  <2> HIDE DEF L
  <2>3. UidsFrom(r.obj, N, n, nums)
    <3>1. \A p \in 1..N : st.obj[p].uid \in 1..L => st.obj[p].uid \in 1..n
      BY <1>3
    <3>2. n \in 1..n
      BY <1>3
    <3> HIDE DEF n
    <3> QED BY <1>1, <2>1, <3>1, <3>2 DEF UidsFrom
  <2> HIDE DEF n
  <2>4. UidsApart(r.obj, N)
    BY <1>1, <2>1, <2>2 DEF UidsApart
  <2>5. \A p \in 1..N : p \in r.done \/ r.obj[p].uid = NoUid \/ r.obj[p].uid \notin r.saved
    BY <1>1, <2>1, <2>2 DEF UidsApart
  <2> QED BY <1>1, <1>2, <2>1, <2>3, <2>4, <2>5 DEF FirstSave
<1> QED
  BY <1>4, <1>5, <1>6

\* All calls of a save.
LEMMA SaveAllFacts ==
    ASSUME NEW N \in Nat, NEW nums, NEW first, NEW st, StOK(st, N), MaxCalls \in Nat,
           first => FirstSave(st, N, nums)
    PROVE  /\ StOK(SaveAll(st), N)
           /\ first => FirstSave(SaveAll(st), N, nums)
<1> DEFINE Good(s) == StOK(s, N) /\ (first => FirstSave(s, N, nums))
<1>1. ASSUME NEW s, Good(s) PROVE Good(SaveCall(s))
  <2>1. /\ StOK(SaveCall(s), N)
        /\ \/ SaveCall(s) = s
           \/ Linked(s, SaveCall(s), N)
           \/ Stored(s, SaveCall(s), N)
    BY <1>1, SaveCallFacts
  <2>2. Len(s.node) \in Nat
    BY <1>1 DEF StOK
  <2>3. ASSUME first PROVE FirstSave(SaveCall(s), N, nums)
    <3>1. FirstSave(s, N, nums)
      BY <1>1, <2>3
    <3> DEFINE r == SaveCall(s)
    <3>2. r = s \/ Linked(s, r, N) \/ Stored(s, r, N)
      BY <2>1
    <3> HIDE DEF r
    <3>3. FirstSave(r, N, nums)
      BY <2>2, <3>1, <3>2, LinkedFirst, StoredFirst
    <3> QED BY <3>3 DEF r
  <2> QED BY <2>1, <2>3
<1>2. Good(st)
  OBVIOUS
<1> HIDE DEF Good
<1>3. PICK after : /\ after[0] = st
                   /\ \A n \in Nat : n # 0 => after[n] = SaveCall(after[n - 1])
                   /\ SaveAll(st) = after[MaxCalls]
  BY SaveAllRuns
<1> DEFINE Bad == {i \in Nat : ~Good(after[i])}
           rank == [i \in Nat |-> i]
<1>4. Bad = {}
  <2> SUFFICES ASSUME Bad # {} PROVE FALSE
    OBVIOUS
  <2>1. Bad \subseteq Nat /\ rank \in [Nat -> Nat]
    OBVIOUS
  <2>2. PICK d \in Bad : \A e \in Bad : rank[d] <= rank[e]
    <3> HIDE DEF Bad, rank
    <3> QED BY <2>1, MinRank
  <2>3. d # 0
    BY <1>2, <1>3
  <2>4. d - 1 \in Nat /\ d - 1 \notin Bad /\ d \in Nat
    BY <2>2, <2>3
  <2>5. Good(after[d - 1])
    BY <2>4
  <2>6. after[d] = SaveCall(after[d - 1])
    BY <1>3, <2>3, <2>4
  <2>7. Good(after[d])
    BY <1>1, <2>5, <2>6
  <2> QED BY <2>2, <2>7
<1>5. Good(after[MaxCalls])
  BY <1>4
<1> QED
  BY <1>3, <1>5 DEF Good

-----------------------------------------------------------------------------
(* The inductive invariant                                                  *)

StoreOK ==
    /\ ObjsOK(obj, Len(obj)) /\ Len(obj) >= 1
    /\ node \in Seq(Range(node))
    /\ cache \in [DOMAIN cache -> 1..Len(obj)] /\ DOMAIN cache \subseteq 1..Len(node)
    /\ RelsOK(rel, Len(node))
    /\ misled \subseteq 1..Len(obj)
    /\ drawn \in Seq(Uids)

ControlOK ==
    /\ pc \in {"idle", "loaded", "trained", "saved", "failed", "broken"}
    /\ model \in 0..Len(obj)
    /\ pc \in {"loaded", "trained"} => model # None
    /\ trainings \in 0..MaxTrainings
    /\ restarts \in 0..MaxRestarts

\* In the JVM that made the store.
FirstJVM ==
    restarts = 0 =>
        /\ VersionsCached(rel, cache)
        /\ \/ Clashed(drawn, Len(node))
           \/ /\ UidsApart(obj, Len(obj))
              /\ UidsFrom(obj, Len(obj), Len(node), drawn)
              /\ misled = {}

Inv == StoreOK /\ ControlOK /\ FirstJVM

LEMMA MaxCallsIsNat ==
    ASSUME ObjsOK(obj, Len(obj))
    PROVE  MaxCalls \in Nat
<1> DEFINE C == UNION {Range(Children(obj[i], Root)) : i \in DOMAIN obj}
           ss == [i \in DOMAIN obj |-> Children(obj[i], Root)]
<1>1. Len(obj) \in Nat /\ DOMAIN obj = 1..Len(obj)
  BY DEF ObjsOK
<1>2. ASSUME NEW i \in 1..Len(obj) PROVE Children(obj[i], Root) \in Seq(C)
  <2> DEFINE c == Children(obj[i], Root)
             N == Len(obj)
  <2>1. ObjOK(obj[i], N) /\ N \in Nat /\ Root \in 0..N
    BY <1>1 DEF ObjsOK, Root
  <2> HIDE DEF N
  <2>2. CallsOK(c, N, N)
    BY <2>1, ChildrenOK
  <2> HIDE DEF c
  <2>3. c \in Seq(Range(c))
    BY <2>2 DEF CallsOK
  <2>4. Range(c) \subseteq C
    BY <1>1 DEF c
  <2> HIDE DEF C
  <2>5. c \in Seq(C)
    BY <2>3, <2>4, LargerSeq
  <2> QED BY <2>5 DEF c
<1> HIDE DEF C
<1>3. ss \in [1..Len(obj) -> Seq(C)]
  BY <1>1, <1>2
<1>4. MaxCalls = 1 + Len(FlattenSeq(ss))
  BY Zenon DEF MaxCalls, MapSeq
<1> HIDE DEF ss
<1>5. ss \in Seq(Seq(C))
  BY <1>1, <1>3, FunctionIsSeq
<1>6. FlattenSeq(ss) \in Seq(C)
  BY <1>5, FlattenFacts
<1>7. Len(FlattenSeq(ss)) \in Nat
  BY <1>6
<1> QED
  BY <1>4, <1>7

LEMMA SaveFacts ==
    ASSUME StoreOK, FirstJVM, NEW m \in 1..Len(obj)
    PROVE  /\ StOK(Save(m), Len(obj))
           /\ restarts = 0 => FirstSave(Save(m), Len(obj), drawn)
<1> DEFINE e == [from |-> Root, type |-> "default", key |-> NameKey("domain"), to |-> m]
           st == [obj |-> obj, cache |-> cache, node |-> node, rel |-> rel, saved |-> {},
                  done |-> {}, misled |-> {}, ok |-> TRUE, todo |-> <<e>>]
           N == Len(obj)
           first == (restarts = 0)
<1>1. Save(m) = SaveAll(st)
  BY Zenon DEF Save
<1>2. N \in Nat /\ Len(node) \in Nat /\ ObjsOK(obj, N)
  BY DEF StoreOK, ObjsOK
<1>3. <<e>> \in Seq({e}) /\ Range(<<e>>) = {e} /\ Len(<<e>>) = 1
  BY DEF Range
<1>4. e.to = m /\ e.from = 0 /\ e.type = "default"
  BY DEF Root
<1>5. StOK(st, N)
  <2> HIDE DEF e
  <2>1. /\ st.obj = obj /\ st.cache = cache /\ st.node = node /\ st.rel = rel
        /\ st.saved = {} /\ st.done = {} /\ st.misled = {} /\ st.ok = TRUE /\ st.todo = <<e>>
    OBVIOUS
  <2>2. st \in [obj : {st.obj}, cache : {st.cache}, node : {st.node}, rel : {st.rel},
               saved : {st.saved}, done : SUBSET (1..N), misled : SUBSET (1..N),
               ok : BOOLEAN, todo : {st.todo}]
    OBVIOUS
  <2> HIDE DEF st
  <2>3. \A c \in Range(st.todo) : /\ c.to \in 1..N /\ c.from \in 0..Len(st.node)
                                  /\ c.type # "default" \/ (st.saved = {} /\ Len(st.todo) = 1)
    BY <1>2, <1>3, <1>4, <2>1
  <2>4. st.todo \in Seq(Range(st.todo))
    BY <1>3, <2>1
  <2> QED BY <1>2, <2>1, <2>2, <2>3, <2>4 DEF StOK, StoreOK
<1>6. first => FirstSave(st, N, drawn)
  <2> HIDE DEF e
  <2>1. /\ st.obj = obj /\ st.cache = cache /\ st.node = node /\ st.rel = rel
        /\ st.saved = {} /\ st.misled = {}
    OBVIOUS
  <2> HIDE DEF st
  <2> QED BY <2>1 DEF FirstJVM, FirstSave
<1>7. MaxCalls \in Nat
  BY <1>2, MaxCallsIsNat
<1> HIDE DEF N, st, first
<1>8. StOK(SaveAll(st), N) /\ (first => FirstSave(SaveAll(st), N, drawn))
  BY <1>2, <1>5, <1>6, <1>7, SaveAllFacts
<1> QED
  BY <1>1, <1>8 DEF N, first

-----------------------------------------------------------------------------
(* load                                                                     *)

LEMMA ReadsKinds ==
    DOMAIN Reads = Kinds /\ IsFiniteSet(Kinds) /\ \A type : KindOf(type) \in Kinds
<1>1. DOMAIN Reads = Kinds /\ \A type : KindOf(type) \in Kinds
  BY DEF Reads, Kinds, KindOf
<1>2. IsFiniteSet({"network", "concept"} \cup {"phrase"})
  <2>1. IsFiniteSet({"network"})
    BY FS_Singleton
  <2>2. IsFiniteSet({"network"} \cup {"concept"})
    BY <2>1, FS_AddElement
  <2>3. {"network"} \cup {"concept"} = {"network", "concept"}
    OBVIOUS
  <2> QED BY <2>2, <2>3, FS_AddElement
<1>3. Kinds = {"network", "concept"} \cup {"phrase"}
  BY DEF Kinds
<1> QED
  BY <1>1, <1>2, <1>3

\* Where loads go: pairs of a node and a class.
Universe == (DOMAIN node) \X (DOMAIN Reads)

LEMMA UniverseIsFinite ==
    ASSUME node \in Seq(Range(node))
    PROVE  IsFiniteSet(Universe)
<1>1. IsFiniteSet(DOMAIN node)
  <2>1. DOMAIN node = 1..Len(node) /\ Len(node) \in Nat
    OBVIOUS
  <2> QED BY <2>1, FS_Interval
<1>2. IsFiniteSet(DOMAIN Reads)
  BY ReadsKinds
<1> QED
  BY <1>1, <1>2, FS_Product DEF Universe

LEMMA ReadFromFacts ==
    ASSUME NEW cached, NEW found \in SUBSET Universe
    PROVE  /\ ReadFrom(cached, found) \in SUBSET Universe
           /\ found \subseteq ReadFrom(cached, found)
           /\ (\A p \in found : p[1] \in cached) => ReadFrom(cached, found) = found
           /\ \A p \in found : p[1] \notin cached =>
                \A type \in Range(Reads[p[2]]) : \A c \in LoadedNodes(p[1], type) :
                    <<c, KindOf(type)>> \in ReadFrom(cached, found)
<1> DEFINE children(n, type) == {<<c, KindOf(type)>> : c \in LoadedNodes(n, type)}
           read(n, kind) == UNION {children(n, type) : type \in Range(Reads[kind])}
           apart == {p \in found : p[1] \notin cached}
<1>1. ReadFrom(cached, found) = found \cup UNION {read(p[1], p[2]) : p \in apart}
  BY Zenon DEF ReadFrom
<1>2. \A n, type : children(n, type) \subseteq Universe
  <2> SUFFICES ASSUME NEW n, NEW type, NEW c \in LoadedNodes(n, type)
               PROVE  <<c, KindOf(type)>> \in Universe
    BY Zenon
  <2>1. c \in DOMAIN node
    BY DEF LoadedNodes
  <2> QED BY <2>1, ReadsKinds DEF Universe
<1>3. \A n, kind : read(n, kind) \subseteq Universe
  <2> HIDE DEF children
  <2> QED BY <1>2
<1>4. \A p \in apart : \A type \in Range(Reads[p[2]]) : \A c \in LoadedNodes(p[1], type) :
        <<c, KindOf(type)>> \in read(p[1], p[2])
  OBVIOUS
<1> HIDE DEF read
<1>5. ReadFrom(cached, found) \in SUBSET Universe /\ found \subseteq ReadFrom(cached, found)
  BY <1>1, <1>3
<1>6. (\A p \in found : p[1] \in cached) => ReadFrom(cached, found) = found
  BY <1>1
<1>7. \A p \in apart : read(p[1], p[2]) \subseteq ReadFrom(cached, found)
  BY <1>1
<1> QED
  BY <1>4, <1>5, <1>6, <1>7

\* What a load comes to: it reads nothing more from there.
ReachedOK(cached, r, found) ==
    /\ r \in SUBSET Universe /\ found \subseteq r /\ ReadFrom(cached, r) = r
    /\ (\A p \in found : p[1] \in cached) => r = found

LEMMA ReachedFacts ==
    ASSUME node \in Seq(Range(node)), NEW cached, NEW n \in DOMAIN node
    PROVE  ReachedOK(cached, Reached(cached, n), {<<n, "network">>})
<1> DEFINE D == SUBSET Universe
           R(S) == ReadFrom(cached, S)
           Step(f, S) == IF R(S) = S THEN S ELSE f[R(S)]
           reach == CHOOSE f : f = [S \in D |-> Step(f, S)]
           B == [S \in D |-> {R(S)} \ {S}]
           rank == [S \in D |-> Cardinality(Universe \ S)]
           H == [f \in [D -> D] |-> [S \in D |-> Step(f, S)]]
<1>1. ASSUME NEW S \in D PROVE R(S) \in D /\ S \subseteq R(S)
  BY ReadFromFacts
<1> HIDE DEF R
<1>2. B \in [D -> SUBSET D]
  <2> HIDE DEF D
  <2> QED BY <1>1
<1>3. WellFounded(D, B)
  <2>1. rank \in [D -> Nat]
    <3>1. ASSUME NEW S \in D PROVE Cardinality(Universe \ S) \in Nat
      <4>1. IsFiniteSet(Universe \ S)
        BY UniverseIsFinite, FS_Difference
      <4> QED BY <4>1, FS_CardinalityType
    <3> HIDE DEF D
    <3> QED BY <3>1
  <2>2. ASSUME NEW S \in D, NEW e \in B[S], e \in D PROVE rank[e] < rank[S]
    <3>1. e = R(S) /\ e # S /\ S \subseteq e
      BY <1>1, <2>2
    <3> DEFINE small == Universe \ e
               large == Universe \ S
    <3>2. IsFiniteSet(large) /\ small \subseteq large /\ small # large
      BY <2>2, <3>1, UniverseIsFinite, FS_Difference
    <3>3. Cardinality(small) < Cardinality(large)
      <4> HIDE DEF small, large
      <4> QED BY <3>2, FS_Subset, FS_CardinalityType
    <3>4. rank[e] = Cardinality(small) /\ rank[S] = Cardinality(large)
      <4> HIDE DEF D
      <4> QED BY <2>2
    <3> HIDE DEF rank, small, large
    <3> QED BY <3>3, <3>4
  <2>3. \A S \in D : \A e \in B[S] : e \in D => rank[e] < rank[S]
    <3> HIDE DEF D, B, rank
    <3> QED BY <2>2
  <2> HIDE DEF D, B, rank
  <2> QED BY <2>1, <2>3, RankIsWellFounded
<1>4. H \in [[D -> D] -> [D -> D]]
  <2>1. ASSUME NEW f \in [D -> D], NEW S \in D PROVE Step(f, S) \in D
    <3>1. f[R(S)] \in D
      <4> HIDE DEF D
      <4> QED BY <1>1
    <3> HIDE DEF D
    <3> QED BY <3>1
  <2> HIDE DEF D, Step
  <2> QED BY <2>1
<1>5. DependsOn(D, D, B, H)
  <2> SUFFICES ASSUME NEW f \in [D -> D], NEW g \in [D -> D], NEW S \in D,
                      \A e \in B[S] : f[e] = g[e]
               PROVE  Step(f, S) = Step(g, S)
    <3> HIDE DEF D, Step, B
    <3> QED BY DEF DependsOn
  <2>1. R(S) # S => f[R(S)] = g[R(S)]
    <3> HIDE DEF D
    <3> QED OBVIOUS
  <2> HIDE DEF D, B
  <2> QED BY <2>1
<1>6. \E f : f = [S \in D |-> Step(f, S)]
  <2>1. PICK f \in [D -> D] : f = H[f]
    <3>1. {} \in D
      OBVIOUS
    <3> HIDE DEF B, H, D
    <3>2. IsRecursion(D, D, B, H)
      BY <1>2, <1>3, <1>4, <1>5, <3>1 DEF IsRecursion
    <3>3. HasSolution(D, D, H)
      BY <3>2, RecursionExists
    <3> QED BY <3>3 DEF HasSolution
  <2> HIDE DEF D, B, Step
  <2> QED BY <2>1
<1>7. reach = [S \in D |-> Step(reach, S)]
  <2> HIDE DEF D, Step
  <2> QED BY <1>6, Zenon
<1>8. \A S \in D : reach[S] = Step(reach, S)
  <2> HIDE DEF reach, D, Step
  <2> QED BY <1>7, Zenon
<1>9. Reached(cached, n) = reach[{<<n, "network">>}]
  BY Zenon DEF Reached, Universe, R
<1> HIDE DEF reach
<1> DEFINE Bad == {S \in D : ~ReachedOK(cached, reach[S], S)}
<1>10. Bad = {}
  <2>1. SUFFICES ASSUME Bad # {} PROVE FALSE
    OBVIOUS
  <2>2. PICK S \in Bad : B[S] \cap Bad = {}
    <3>1. Bad \in SUBSET D
      OBVIOUS
    <3> HIDE DEF Bad, B, D
    <3> QED BY <1>3, <2>1, <3>1 DEF WellFounded
  <2>3. S \in D /\ ~ReachedOK(cached, reach[S], S)
    OBVIOUS
  <2> DEFINE N == R(S)
  <2>4. CASE N = S
    <3>1. reach[S] = S
      BY <1>8, <2>3, <2>4
    <3>2. ReachedOK(cached, S, S)
      BY <2>3, <2>4 DEF ReachedOK, R
    <3> QED BY <2>3, <3>1, <3>2
  <2>5. CASE N # S
    <3>1. reach[S] = reach[N]
      BY <1>8, <2>3, <2>5
    <3>2. N \in B[S] /\ N \in D
      <4> HIDE DEF D
      <4> QED BY <1>1, <2>3, <2>5
    <3>3. ReachedOK(cached, reach[N], N)
      <4> HIDE DEF D, B, N
      <4> QED BY <2>2, <3>2
    <3>4. ~(\A p \in S : p[1] \in cached)
      BY <2>3, <2>5, ReadFromFacts DEF R
    <3>5. S \subseteq N
      BY <1>1, <2>3
    <3>6. ReachedOK(cached, reach[N], S)
      <4> HIDE DEF N
      <4> QED BY <3>3, <3>4, <3>5 DEF ReachedOK
    <3> QED BY <2>3, <3>1, <3>6
  <2> QED BY <2>4, <2>5
<1>11. {<<n, "network">>} \in D
  <2>1. "network" \in DOMAIN Reads
    BY ReadsKinds DEF Kinds
  <2>2. <<n, "network">> \in Universe
    BY <2>1 DEF Universe
  <2> QED BY <2>2
<1> HIDE DEF D
<1> QED
  BY <1>9, <1>10, <1>11

\* The relationships that are read are some of the store.
LEMMA ChildrenMapFacts ==
    ASSUME RelsOK(rel, Len(node)), NEW n, NEW type
    PROVE  /\ LoadChildrenMap(n, type) \subseteq rel
           /\ SetToSeq(LoadChildrenMap(n, type)) \in Seq(rel)
<1> DEFINE rs == {r \in Related(n, type) : r.to # n}
           map == LoadChildrenMap(n, type)
<1>1. rs \subseteq rel
  BY DEF Related
<1>2. map = {CHOOSE r \in rs : r.key = k : k \in {r.key : r \in rs}}
  BY Zenon DEF LoadChildrenMap
<1> HIDE DEF rs
<1>3. ASSUME NEW k \in {r.key : r \in rs} PROVE (CHOOSE r \in rs : r.key = k) \in rs
  <2>1. \E r \in rs : r.key = k
    OBVIOUS
  <2> QED BY <2>1, Zenon
<1>4. map \subseteq rel
  BY <1>1, <1>2, <1>3
<1> HIDE DEF map
<1>5. IsFiniteSet(map)
  BY <1>4, FS_Subset DEF RelsOK
<1>6. SetToSeq(map) \in Seq(map)
  BY <1>5, SetToSeqFacts
<1>7. SetToSeq(map) \in Seq(rel)
  BY <1>4, <1>6, LargerSeq
<1> QED
  BY <1>4, <1>7 DEF map

LEMMA SourcesOK ==
    ASSUME RelsOK(rel, Len(node)), NEW n, NEW kind
    PROVE  Sources(n, kind) \in Seq(rel) /\ Concepts(n, kind) \in Seq(rel)
  BY ChildrenMapFacts DEF Sources, Concepts

LEMMA InOrderFacts ==
    ASSUME node \in Seq(Range(node)), NEW ns, ns \subseteq DOMAIN node, NEW order
    PROVE  /\ InOrder(ns, order) \in Seq(ns)
           /\ order = "up" => Range(InOrder(ns, order)) = ns
<1> DEFINE all == [i \in DOMAIN node |-> i]
           up == Keep(all, ns)
<1>1. Len(node) \in Nat /\ DOMAIN node = 1..Len(node)
  OBVIOUS
<1>2. all \in Seq(DOMAIN node) /\ Range(all) = DOMAIN node
  <2>1. all \in [1..Len(node) -> DOMAIN node]
    BY <1>1
  <2>2. Range(all) = DOMAIN node
    BY DEF Range
  <2> HIDE DEF all
  <2> QED BY <1>1, <2>1, <2>2, FunctionIsSeq
<1>3. InOrder(ns, order) = IF order = "up" THEN up ELSE Reverse(up)
  BY Zenon DEF InOrder
<1> HIDE DEF all
<1>4. up \in Seq(DOMAIN node) /\ Range(up) = ns
  <2>1. up \in Seq(DOMAIN node) /\ Range(up) = Range(all) \cap ns
    BY <1>2, KeepFacts
  <2> HIDE DEF up
  <2> QED BY <1>2, <2>1
<1> HIDE DEF up
<1>5. up \in Seq(ns)
  BY <1>4, IsList
<1>6. Reverse(up) \in Seq(ns)
  BY <1>5, ReverseFacts
<1> QED
  BY <1>3, <1>4, <1>5, <1>6

LEMMA CopyOK ==
    ASSUME NEW N \in Nat, NEW n \in Nat
    PROVE  ObjOK(Copy(n), N)
  BY ObjectType DEF Copy, Kinds

\* Copies are objects that refer to none; a source has two.
LEMMA CopiesOK ==
    ASSUME node \in Seq(Range(node)), RelsOK(rel, Len(node)), NEW n, NEW kind, NEW N \in Nat
    PROVE  /\ ObjsOK(Copies(n, kind), N)
           /\ Len(Copies(n, kind)) = 2 * Len(Sources(n, kind)) + Len(Concepts(n, kind))
<1> DEFINE S == Sources(n, kind)
           C == Concepts(n, kind)
           O == {Copy(r.to) : r \in rel}
           pairs == [i \in DOMAIN S |-> <<Copy(S[i].to), Copy(S[i].to)>>]
           singles == [i \in DOMAIN C |-> Copy(C[i].to)]
<1>1. Copies(n, kind) = FlattenSeq(pairs) \o singles
  BY Zenon DEF Copies, MapSeq
<1>2. S \in Seq(rel) /\ C \in Seq(rel)
  BY SourcesOK
<1> HIDE DEF S, C
<1>3. /\ Len(S) \in Nat /\ DOMAIN S = 1..Len(S) /\ Len(C) \in Nat /\ DOMAIN C = 1..Len(C)
      /\ \A i \in 1..Len(S) : S[i] \in rel
      /\ \A i \in 1..Len(C) : C[i] \in rel
  BY <1>2
<1>4. \A r \in rel : Copy(r.to) \in O
  OBVIOUS
<1>5. \A x \in O : ObjOK(x, N)
  <2>1. \A r \in rel : r.to \in Nat
    BY DEF RelsOK
  <2> QED BY <2>1, CopyOK
<1> HIDE DEF O
<1>6. pairs \in [1..Len(S) -> Seq(O)] /\ \A i \in 1..Len(S) : Len(pairs[i]) = 2
  <2>1. \A i \in 1..Len(S) : Copy(S[i].to) \in O
    BY <1>3, <1>4
  <2>2. \A i \in 1..Len(S) : <<Copy(S[i].to), Copy(S[i].to)>> \in Seq(O)
    BY <2>1
  <2> QED BY <1>3, <2>2
<1>7. singles \in [1..Len(C) -> O]
  BY <1>3, <1>4
<1> HIDE DEF pairs, singles
<1>8. pairs \in Seq(Seq(O)) /\ Len(pairs) = Len(S) /\ singles \in Seq(O) /\ Len(singles) = Len(C)
  BY <1>3, <1>6, <1>7, FunctionIsSeq
<1> DEFINE flat == FlattenSeq(pairs)
<1>9. flat \in Seq(O) /\ Len(flat) = 2 * Len(S)
  BY <1>6, <1>8, FlattenFacts, FlattenPairs
<1> HIDE DEF flat
<1> DEFINE all == flat \o singles
<1>10. all \in Seq(O) /\ Len(all) = 2 * Len(S) + Len(C)
  <2>1. flat \in Seq(O) /\ singles \in Seq(O)
    BY <1>8, <1>9
  <2>2. all \in Seq(O) /\ Len(all) = Len(flat) + Len(singles)
    BY <2>1, ConcatFacts
  <2> HIDE DEF all
  <2> QED BY <1>8, <1>9, <2>2
<1> HIDE DEF all
<1>11. all \in Seq(Range(all)) /\ Range(all) \subseteq O /\ \A i \in 1..Len(all) : all[i] \in O
  BY <1>10, IsList
<1>12. ObjsOK(all, N)
  BY <1>5, <1>11 DEF ObjsOK
<1> QED
  BY <1>1, <1>10, <1>12 DEF all, flat, S, C

\* Where the ends of a link lie among a copies in pairs and b others.
LEMMA PlaceOfPair ==
    ASSUME NEW a \in Nat, NEW b \in Nat, NEW at \in Nat, NEW N \in Nat, NEW j \in 1..a,
           at + (2 * a + b) <= N
    PROVE  at + 2 * j - 1 \in 1..N /\ at + 2 * j \in 1..N
<1>1. j \in Nat /\ 1 <= j /\ j <= a
  OBVIOUS
<1>2. 2 * j <= 2 * a
  BY <1>1
<1> QED
  BY <1>1, <1>2

\* The object of a node.
LEMMA LoadedOK ==
    ASSUME node \in Seq(Range(node)), RelsOK(rel, Len(node)), NEW N \in Nat,
           NEW n \in Nat, NEW kind \in Kinds, NEW order,
           NEW inCache, inCache \in [DOMAIN inCache -> 1..N],
           \A type \in Range(Reads[kind]) : LoadedNodes(n, type) \subseteq DOMAIN inCache,
           NEW at \in Nat, at + Len(Copies(n, kind)) <= N
    PROVE  ObjOK(Loaded(n, kind, inCache, at, order), N)
<1> DEFINE kids(type) == LoadedChildren(n, type, order)
           part(type) == IF type \in Range(Reads[kind])
                         THEN [i \in DOMAIN kids(type) |-> inCache[kids(type)[i]]] ELSE <<>>
           S == Sources(n, kind)
           C == Concepts(n, kind)
           links == [j \in DOMAIN S |->
                        ConceptLink(S[j].key[1][1], at + 2 * j - 1, at + 2 * j)]
           concepts == [j \in DOMAIN C |-> at + j]
           x0 == Object(kind, node[n], n)
           nodes == part("nodes")
           gens == part("generalisations")
           specs == part("specialisations")
           phrs == part("phrases")
<1>1. Loaded(n, kind, inCache, at, order) =
        [x0 EXCEPT !.nodes = nodes, !.generalisations = gens, !.specialisations = specs,
                   !.phrases = phrs, !.links = links, !.concepts = concepts]
  BY Zenon DEF Loaded, MapSeq
<1>2. ASSUME NEW type PROVE part(type) \in Seq(1..N)
  <2>1. CASE type \notin Range(Reads[kind])
    BY <2>1
  <2>2. CASE type \in Range(Reads[kind])
    <3> DEFINE ks == kids(type)
               ns == LoadedNodes(n, type)
    <3>1. ns \subseteq DOMAIN node
      BY DEF LoadedNodes
    <3>2. ks \in Seq(ns)
      BY <3>1, InOrderFacts DEF LoadedChildren
    <3>3. ns \subseteq DOMAIN inCache
      BY <2>2
    <3>4. part(type) = [i \in DOMAIN ks |-> inCache[ks[i]]]
      BY <2>2
    <3> HIDE DEF ks, ns
    <3>5. Len(ks) \in Nat /\ DOMAIN ks = 1..Len(ks) /\ \A i \in 1..Len(ks) : ks[i] \in ns
      BY <3>2
    <3> DEFINE p == [i \in DOMAIN ks |-> inCache[ks[i]]]
    <3>6. p \in [1..Len(ks) -> 1..N]
      BY <3>3, <3>5
    <3> HIDE DEF p
    <3>7. p \in Seq(1..N)
      BY <3>5, <3>6, FunctionIsSeq
    <3> QED BY <3>4, <3>7 DEF p
  <2> QED BY <2>1, <2>2
<1>3. nodes \in Seq(1..N) /\ gens \in Seq(1..N) /\ specs \in Seq(1..N) /\ phrs \in Seq(1..N)
  <2> HIDE DEF part
  <2> QED BY <1>2
<1> HIDE DEF nodes, gens, specs, phrs
<1>4. S \in Seq(rel) /\ C \in Seq(rel) /\ at + (2 * Len(S) + Len(C)) <= N
  BY SourcesOK, CopiesOK
<1> HIDE DEF S, C
<1>5. Len(S) \in Nat /\ DOMAIN S = 1..Len(S) /\ Len(C) \in Nat /\ DOMAIN C = 1..Len(C)
  BY <1>4
<1>6. concepts \in Seq(1..N)
  <2>1. concepts \in [1..Len(C) -> 1..N]
    BY <1>4, <1>5
  <2> HIDE DEF concepts
  <2> QED BY <1>5, <2>1, FunctionIsSeq
<1>7. LinksOK(links, N)
  <2> DEFINE Names == {S[j].key[1][1] : j \in DOMAIN S}
             L == [name : Names, source : 1..N, destination : 1..N]
  <2>1. ASSUME NEW j \in 1..Len(S)
        PROVE  ConceptLink(S[j].key[1][1], at + 2 * j - 1, at + 2 * j) \in L
    <3>1. S[j].key[1][1] \in Names
      BY <1>5
    <3>2. at + 2 * j - 1 \in 1..N /\ at + 2 * j \in 1..N
      <4> DEFINE a == Len(S)
                 b == Len(C)
      <4>1. a \in Nat /\ b \in Nat /\ j \in 1..a /\ at + (2 * a + b) <= N
        BY <1>4, <1>5
      <4> HIDE DEF a, b
      <4> QED BY <4>1, PlaceOfPair
    <3> HIDE DEF Names
    <3> DEFINE k == S[j].key[1][1]
               from == at + 2 * j - 1
               to == at + 2 * j
    <3> HIDE DEF k, from, to
    <3>3. ConceptLink(k, from, to) \in L
      BY <3>1, <3>2 DEF ConceptLink, k, from, to
    <3> QED BY <3>3 DEF k, from, to
  <2>2. \A l \in L : l.source \in 1..N /\ l.destination \in 1..N
    OBVIOUS
  <2> HIDE DEF L
  <2>3. links \in [1..Len(S) -> L]
    BY <1>5, <2>1
  <2> HIDE DEF links
  <2>4. links \in Seq(L)
    BY <1>5, <2>3, FunctionIsSeq
  <2>5. links \in Seq(Range(links)) /\ Range(links) \subseteq L
    BY <2>4, IsList
  <2> QED BY <2>2, <2>5 DEF LinksOK
<1> HIDE DEF concepts, links
<1>8. ObjOK(x0, N)
  BY ObjectType
<1> HIDE DEF x0
<1>9. ObjOK([x0 EXCEPT !.nodes = nodes, !.generalisations = gens, !.specialisations = specs,
                   !.phrases = phrs, !.links = links, !.concepts = concepts], N)
  BY <1>3, <1>6, <1>7, <1>8 DEF ObjOK
<1> QED
  BY <1>1, <1>9

\* The parts of a load.
ReachedBy(st, n) == Reached(DOMAIN st.cache, n)
NewNodes(st, n) == {p[1] : p \in ReachedBy(st, n)} \ DOMAIN st.cache
NewOnes(st, n) == InOrder(NewNodes(st, n), "up")
KindBy(st, n) ==
    [m \in Range(NewOnes(st, n)) |-> (CHOOSE p \in ReachedBy(st, n) : p[1] = m)[2]]
CacheBy(st, n) ==
    [m \in Range(NewOnes(st, n)) \cup DOMAIN st.cache |->
        IF m \in Range(NewOnes(st, n))
        THEN Len(st.obj) + CHOOSE i \in DOMAIN NewOnes(st, n) : NewOnes(st, n)[i] = m
        ELSE st.cache[m]]
CopiesBy(st, n) ==
    [i \in DOMAIN NewOnes(st, n) |-> Copies(NewOnes(st, n)[i], KindBy(st, n)[NewOnes(st, n)[i]])]
AtBy(st, n, i) ==
    Len(st.obj) + Len(NewOnes(st, n)) + Len(FlattenSeq(SubSeq(CopiesBy(st, n), 1, i - 1)))
ObjectsBy(st, n, order) ==
    [i \in DOMAIN NewOnes(st, n) |->
        Loaded(NewOnes(st, n)[i], KindBy(st, n)[NewOnes(st, n)[i]], CacheBy(st, n),
               AtBy(st, n, i), order)]

LEMMA LoadIs ==
    ASSUME NEW st, NEW n, NEW order
    PROVE  /\ Load(st, n, order).obj =
                st.obj \o ObjectsBy(st, n, order) \o FlattenSeq(CopiesBy(st, n))
           /\ Load(st, n, order).cache = CacheBy(st, n)
<1> DEFINE fine == \A p \in ReachedBy(st, n) :
                p[2] = IF p[1] \in DOMAIN KindBy(st, n) THEN KindBy(st, n)[p[1]]
                       ELSE st.obj[st.cache[p[1]]].kind
<1>1. Load(st, n, order) =
        [obj |-> st.obj \o ObjectsBy(st, n, order) \o FlattenSeq(CopiesBy(st, n)),
         cache |-> CacheBy(st, n), ok |-> fine]
  BY Zenon DEF Load, MapSeq, ObjectsBy, AtBy, CopiesBy, CacheBy, KindBy, NewOnes, NewNodes,
               ReachedBy
<1> HIDE DEF fine
<1> QED
  BY <1>1

\* Objects and a cache that a load may start with.
LoadFrom(st) ==
    /\ ObjsOK(st.obj, Len(st.obj))
    /\ st.cache \in [DOMAIN st.cache -> 1..Len(st.obj)] /\ DOMAIN st.cache \subseteq DOMAIN node
StoreTypes == node \in Seq(Range(node)) /\ RelsOK(rel, Len(node))

\* The nodes that are new, each with a class it was wanted as.
LEMMA NewOnesFacts ==
    ASSUME StoreTypes, NEW st, LoadFrom(st), NEW n \in DOMAIN node
    PROVE  LET new == NewOnes(st, n)
               ns == NewNodes(st, n)
               kind == KindBy(st, n)
           IN  /\ ns \subseteq DOMAIN node /\ new \in Seq(ns) /\ Range(new) = ns
               /\ \A m \in ns : kind[m] \in Kinds /\ <<m, kind[m]>> \in ReachedBy(st, n)
               /\ \A p \in ReachedBy(st, n) : p[1] \in ns \cup DOMAIN st.cache
               /\ n \in ns \cup DOMAIN st.cache
               /\ n \in DOMAIN st.cache => ns = {}
<1> DEFINE reached == ReachedBy(st, n)
           cached == DOMAIN st.cache
           ns == NewNodes(st, n)
           new == NewOnes(st, n)
           kind == KindBy(st, n)
<1>1. ReachedOK(cached, reached, {<<n, "network">>})
  BY ReachedFacts DEF ReachedBy, StoreTypes
<1> HIDE DEF reached, cached
<1>2. reached \in SUBSET Universe /\ <<n, "network">> \in reached
  BY <1>1 DEF ReachedOK
<1>3. ns = {p[1] : p \in reached} \ cached
  BY DEF NewNodes, reached, cached
<1>4. \A p \in reached : p[1] \in DOMAIN node /\ p[2] \in Kinds /\ p = <<p[1], p[2]>>
  BY <1>2, ReadsKinds DEF Universe
<1> HIDE DEF ns
<1>5. ns \subseteq DOMAIN node /\ \A p \in reached : p[1] \in ns \cup cached
  BY <1>3, <1>4
<1>6. new \in Seq(ns) /\ Range(new) = ns
  BY <1>5, InOrderFacts DEF NewOnes, StoreTypes, ns
<1>7. n \in ns \cup cached
  BY <1>2, <1>5
<1>8. n \in cached => ns = {}
  <2> SUFFICES ASSUME n \in cached PROVE ns = {}
    OBVIOUS
  <2>1. reached = {<<n, "network">>}
    BY <1>1 DEF ReachedOK
  <2> QED BY <1>3, <2>1
<1> HIDE DEF new
<1>9. ASSUME NEW m \in ns PROVE kind[m] \in Kinds /\ <<m, kind[m]>> \in reached
  <2> DEFINE q == CHOOSE p \in reached : p[1] = m
  <2>1. \E p \in reached : p[1] = m
    BY <1>3
  <2>2. q \in reached /\ q[1] = m
    BY <2>1, Zenon
  <2>3. kind[m] = q[2]
    BY <1>6 DEF KindBy, new, reached
  <2> HIDE DEF q
  <2>4. q[2] \in Kinds /\ q = <<m, q[2]>>
    BY <1>4, <2>2
  <2> QED BY <2>2, <2>3, <2>4
<1> QED
  BY <1>5, <1>6, <1>7, <1>8, <1>9 DEF reached, cached, ns, new

LEMMA ObjsFunction ==
    ASSUME NEW k \in Nat, NEW N \in Nat, NEW f, f = [i \in 1..k |-> f[i]],
           \A i \in 1..k : ObjOK(f[i], N)
    PROVE  ObjsOK(f, N) /\ Len(f) = k
<1>1. f \in [1..k -> Range(f)]
  BY DEF Range
<1>2. f \in Seq(Range(f)) /\ Len(f) = k
  BY <1>1, FunctionIsSeq
<1> QED
  BY <1>2 DEF ObjsOK

\* The cache after a load.
LEMMA CacheByFacts ==
    ASSUME StoreTypes, NEW st, LoadFrom(st), NEW n \in DOMAIN node
    PROVE  /\ DOMAIN CacheBy(st, n) = NewNodes(st, n) \cup DOMAIN st.cache
           /\ CacheBy(st, n) \in [DOMAIN CacheBy(st, n) -> 1..(Len(st.obj) + Len(NewOnes(st, n)))]
<1> DEFINE new == NewOnes(st, n)
           ns == NewNodes(st, n)
           Lo == Len(st.obj)
           Ln == Len(new)
           D == ns \cup DOMAIN st.cache
           place(m) == CHOOSE i \in DOMAIN new : new[i] = m
           c == CacheBy(st, n)
<1>1. new \in Seq(ns) /\ Range(new) = ns
  BY NewOnesFacts
<1>2. c = [m \in Range(new) \cup DOMAIN st.cache |->
            IF m \in Range(new) THEN Lo + place(m) ELSE st.cache[m]]
  BY Zenon DEF CacheBy
<1> HIDE DEF new, ns, c
<1>3. Ln \in Nat /\ DOMAIN new = 1..Ln
  BY <1>1
<1>4. Lo \in Nat /\ st.cache \in [DOMAIN st.cache -> 1..Lo]
  BY DEF LoadFrom, ObjsOK
<1>5. ASSUME NEW m \in ns PROVE place(m) \in 1..Ln
  <2>1. \E i \in DOMAIN new : new[i] = m
    BY <1>1 DEF Range
  <2>2. place(m) \in DOMAIN new
    BY <2>1, Zenon
  <2> QED BY <1>3, <2>2
<1> HIDE DEF place, Lo, Ln
<1>6. ASSUME NEW m \in D
      PROVE  (IF m \in ns THEN Lo + place(m) ELSE st.cache[m]) \in 1..(Lo + Ln)
  <2>1. CASE m \in ns
    <3>1. place(m) \in 1..Ln
      BY <1>5, <2>1
    <3>2. Lo + place(m) \in 1..(Lo + Ln)
      BY <1>3, <1>4, <3>1
    <3> QED BY <2>1, <3>2
  <2>2. CASE m \notin ns
    <3>1. st.cache[m] \in 1..Lo
      BY <1>4, <2>2
    <3>2. st.cache[m] \in 1..(Lo + Ln)
      BY <1>3, <1>4, <3>1
    <3> QED BY <2>2, <3>2
  <2> QED BY <2>1, <2>2
<1>7. c = [m \in D |-> IF m \in ns THEN Lo + place(m) ELSE st.cache[m]]
  BY <1>1, <1>2
<1> HIDE DEF D
<1>8. c \in [D -> 1..(Lo + Ln)] /\ DOMAIN c = D
  BY <1>6, <1>7
<1> QED
  BY <1>8 DEF c, D, Lo, Ln, new, ns

\* What is loaded refers to what is there.
LEMMA LoadTypes ==
    ASSUME StoreTypes, NEW st, LoadFrom(st), NEW n \in DOMAIN node, NEW order
    PROVE  LET r == Load(st, n, order)
           IN  /\ ObjsOK(r.obj, Len(r.obj)) /\ Len(st.obj) <= Len(r.obj)
               /\ r.cache \in [DOMAIN r.cache -> 1..Len(r.obj)]
               /\ DOMAIN r.cache \subseteq DOMAIN node /\ n \in DOMAIN r.cache
<1> DEFINE new == NewOnes(st, n)
           ns == NewNodes(st, n)
           kind == KindBy(st, n)
           copies == CopiesBy(st, n)
           inCache == CacheBy(st, n)
           objs == ObjectsBy(st, n, order)
           Lo == Len(st.obj)
           Ln == Len(new)
           CO == UNION {Range(copies[i]) : i \in DOMAIN copies}
           flat == FlattenSeq(copies)
           Lc == Len(flat)
           N == Lo + Ln + Lc
           r == Load(st, n, order)
<1>1. /\ ns \subseteq DOMAIN node /\ new \in Seq(ns) /\ Range(new) = ns
      /\ \A m \in ns : kind[m] \in Kinds /\ <<m, kind[m]>> \in ReachedBy(st, n)
      /\ \A p \in ReachedBy(st, n) : p[1] \in ns \cup DOMAIN st.cache
      /\ n \in ns \cup DOMAIN st.cache
  BY NewOnesFacts
<1>2. DOMAIN inCache = ns \cup DOMAIN st.cache /\ inCache \in [DOMAIN inCache -> 1..(Lo + Ln)]
  BY CacheByFacts
<1>3. r.obj = st.obj \o objs \o flat /\ r.cache = inCache
  BY LoadIs
<1>4. copies = [i \in DOMAIN new |-> Copies(new[i], kind[new[i]])]
  BY Zenon DEF CopiesBy
<1>5. \A i \in DOMAIN new : AtBy(st, n, i) = Lo + Ln + Len(FlattenSeq(SubSeq(copies, 1, i - 1)))
  BY Zenon DEF AtBy
<1>6. objs = [i \in DOMAIN new |-> Loaded(new[i], kind[new[i]], inCache, AtBy(st, n, i), order)]
  BY Zenon DEF ObjectsBy
<1> HIDE DEF new, ns, kind, copies, inCache, objs, r
<1>7. /\ Lo \in Nat /\ Ln \in Nat /\ DOMAIN new = 1..Ln
      /\ \A i \in 1..Ln : new[i] \in ns
  BY <1>1 DEF LoadFrom, ObjsOK
<1>8. \A m \in ns : m \in Nat /\ m \in DOMAIN node
  <2>1. DOMAIN node = 1..Len(node) /\ Len(node) \in Nat
    BY DEF StoreTypes
  <2> QED BY <1>1, <2>1
<1> HIDE DEF Lo, Ln
<1>9. ASSUME NEW i \in 1..Ln, NEW M \in Nat PROVE ObjsOK(copies[i], M)
  <2>1. copies[i] = Copies(new[i], kind[new[i]])
    BY <1>4, <1>7
  <2> QED BY <2>1, CopiesOK DEF StoreTypes
<1>10. copies \in Seq(Seq(CO)) /\ Len(copies) = Ln
  <2>1. DOMAIN copies = 1..Ln /\ copies = [i \in 1..Ln |-> copies[i]]
    BY <1>4, <1>7
  <2>2. ASSUME NEW i \in 1..Ln PROVE copies[i] \in Seq(CO)
    <3>1. copies[i] \in Seq(Range(copies[i]))
      BY <1>9 DEF ObjsOK
    <3>2. Range(copies[i]) \subseteq CO
      BY <2>1
    <3> HIDE DEF CO
    <3> QED BY <3>1, <3>2, LargerSeq
  <2> HIDE DEF CO
  <2>3. copies \in [1..Ln -> Seq(CO)]
    BY <2>1, <2>2
  <2> QED BY <1>7, <2>3, FunctionIsSeq
<1>11. flat \in Seq(CO) /\ Range(flat) = UNION {Range(copies[i]) : i \in DOMAIN copies}
  <2> HIDE DEF CO
  <2> QED BY <1>10, FlattenFacts
<1>12. Lc \in Nat /\ N \in Nat
  <2> HIDE DEF CO, flat
  <2>1. Len(flat) \in Nat
    BY <1>11
  <2> QED BY <1>7, <2>1
<1>13. ObjsOK(flat, N)
  <2>1. flat \in Seq(Range(flat)) /\ Len(flat) \in Nat /\ DOMAIN flat = 1..Len(flat)
    <3> HIDE DEF CO, flat
    <3> QED BY <1>11, IsList
  <2>2. ASSUME NEW j \in 1..Len(flat) PROVE ObjOK(flat[j], N)
    <3>1. flat[j] \in Range(flat)
      <4> HIDE DEF flat
      <4> QED BY <2>1 DEF Range
    <3>2. DOMAIN copies = 1..Ln
      BY <1>4, <1>7
    <3>3. PICK i \in 1..Ln : flat[j] \in Range(copies[i])
      <4> HIDE DEF flat
      <4> QED BY <1>11, <3>1, <3>2
    <3>4. ObjsOK(copies[i], N)
      <4> HIDE DEF N
      <4> QED BY <1>9, <1>12
    <3> HIDE DEF flat, N
    <3>5. \A y \in Range(copies[i]) : ObjOK(y, N)
      BY <3>4 DEF ObjsOK, Range
    <3> QED BY <3>3, <3>5
  <2> HIDE DEF flat, N
  <2> QED BY <2>1, <2>2 DEF ObjsOK
<1>14. ASSUME NEW i \in 1..Ln
       PROVE  /\ AtBy(st, n, i) \in Nat
              /\ AtBy(st, n, i) + Len(Copies(new[i], kind[new[i]])) <= N
  <2> DEFINE pre == Len(FlattenSeq(SubSeq(copies, 1, i - 1)))
             own == Len(copies[i])
  <2>1. i \in 1..Len(copies)
    BY <1>10
  <2>2. pre \in Nat /\ pre + own <= Lc
    <3> HIDE DEF CO
    <3> QED BY <1>10, <2>1, FlattenPrefix
  <2>3. AtBy(st, n, i) = Lo + Ln + pre
    BY <1>5, <1>7
  <2>4. own = Len(Copies(new[i], kind[new[i]]))
    BY <1>4, <1>7
  <2>5. own \in Nat
    <3> HIDE DEF CO
    <3>1. copies[i] \in Seq(CO)
      BY <1>10, <2>1
    <3> QED BY <3>1
  <2> HIDE DEF pre, own, Lc
  <2> QED BY <1>7, <1>12, <2>2, <2>3, <2>4, <2>5
<1>15. inCache \in [DOMAIN inCache -> 1..N]
  <2>1. 1..(Lo + Ln) \subseteq 1..N
    <3> HIDE DEF Lc
    <3> QED BY <1>7, <1>12
  <2> HIDE DEF N
  <2> QED BY <1>2, <2>1
<1> HIDE DEF N
<1>16. ASSUME NEW i \in 1..Ln PROVE ObjOK(objs[i], N)
  <2> DEFINE m == new[i]
             k == kind[m]
             at == AtBy(st, n, i)
  <2>1. objs[i] = Loaded(m, k, inCache, at, order)
    BY <1>6, <1>7
  <2>2. m \in ns /\ m \in Nat /\ k \in Kinds /\ <<m, k>> \in ReachedBy(st, n)
    BY <1>1, <1>7, <1>8
  <2>3. at \in Nat /\ at + Len(Copies(m, k)) <= N
    BY <1>14
  <2> HIDE DEF m, k, at
  <2>4. \A type \in Range(Reads[k]) : LoadedNodes(m, type) \subseteq DOMAIN inCache
    <3> SUFFICES ASSUME NEW type \in Range(Reads[k]), NEW c \in LoadedNodes(m, type)
                 PROVE  c \in DOMAIN inCache
      OBVIOUS
    <3> DEFINE reached == ReachedBy(st, n)
               p == <<m, k>>
    <3>1. reached \in SUBSET Universe /\ ReadFrom(DOMAIN st.cache, reached) = reached
      BY ReachedFacts DEF ReachedBy, ReachedOK, StoreTypes
    <3>2. m \notin DOMAIN st.cache
      BY <2>2 DEF ns, NewNodes
    <3>3. p \in reached /\ p[1] = m /\ p[2] = k
      BY <2>2
    <3> HIDE DEF reached, p
    <3>4. <<c, KindOf(type)>> \in ReadFrom(DOMAIN st.cache, reached)
      BY <3>1, <3>2, <3>3, ReadFromFacts
    <3>5. <<c, KindOf(type)>> \in reached
      BY <3>1, <3>4
    <3>6. <<c, KindOf(type)>>[1] = c
      OBVIOUS
    <3> QED BY <1>1, <1>2, <3>5, <3>6 DEF reached
  <2>5. ObjOK(Loaded(m, k, inCache, at, order), N)
    BY <1>12, <1>15, <2>2, <2>3, <2>4, LoadedOK DEF StoreTypes
  <2> QED BY <2>1, <2>5
<1>17. ObjsOK(objs, N) /\ Len(objs) = Ln
  <2>1. objs = [i \in 1..Ln |-> objs[i]]
    BY <1>6, <1>7
  <2> QED BY <1>7, <1>12, <1>16, <2>1, ObjsFunction
<1>18. ObjsOK(st.obj, N)
  <2>1. Lo <= N
    <3> HIDE DEF Lc
    <3> QED BY <1>7, <1>12 DEF N
  <2>2. ObjsOK(st.obj, Lo)
    BY DEF LoadFrom, Lo
  <2> QED BY <1>7, <1>12, <2>1, <2>2, ObjsGrow
<1>19. ObjsOK(r.obj, N) /\ Len(r.obj) = N
  <2> HIDE DEF flat
  <2> DEFINE both == st.obj \o objs
  <2>1. ObjsOK(both, N) /\ Len(both) = Lo + Ln
    BY <1>12, <1>17, <1>18, ObjsConcat DEF Lo
  <2> HIDE DEF both
  <2>2. ObjsOK(both \o flat, N) /\ Len(both \o flat) = Lo + Ln + Lc
    BY <1>12, <1>13, <2>1, ObjsConcat
  <2> QED BY <1>3, <2>2 DEF both, N
<1>20. Lo <= N
  <2> HIDE DEF Lc
  <2> QED BY <1>7, <1>12 DEF N
<1>21. DOMAIN st.cache \subseteq DOMAIN node
  BY DEF LoadFrom
<1> QED
  BY <1>1, <1>2, <1>3, <1>15, <1>19, <1>20, <1>21 DEF r, Lo

\* A version that is in the cache is not loaded again.
LEMMA LoadCached ==
    ASSUME StoreTypes, NEW st, LoadFrom(st), NEW n \in DOMAIN node, n \in DOMAIN st.cache,
           NEW order
    PROVE  Load(st, n, order).obj = st.obj /\ Load(st, n, order).cache = st.cache
<1> DEFINE new == NewOnes(st, n)
           c == CacheBy(st, n)
           copies == CopiesBy(st, n)
           objs == ObjectsBy(st, n, order)
           r == Load(st, n, order)
<1>1. new \in Seq({}) /\ Range(new) = {}
  BY NewOnesFacts
<1>2. new = <<>> /\ DOMAIN new = {}
  <2> HIDE DEF new
  <2> QED BY <1>1, EmptyRange
<1>3. copies = [i \in DOMAIN new |-> Copies(new[i], KindBy(st, n)[new[i]])]
  BY Zenon DEF CopiesBy
<1>4. objs = [i \in DOMAIN new |->
                Loaded(new[i], KindBy(st, n)[new[i]], CacheBy(st, n), AtBy(st, n, i), order)]
  BY Zenon DEF ObjectsBy
<1>5. c = [m \in Range(new) \cup DOMAIN st.cache |->
            IF m \in Range(new) THEN Len(st.obj) + CHOOSE i \in DOMAIN new : new[i] = m
            ELSE st.cache[m]]
  BY Zenon DEF CacheBy
<1>6. r.obj = st.obj \o objs \o FlattenSeq(copies) /\ r.cache = c
  BY LoadIs
<1> HIDE DEF new, c, copies, objs, r
<1>7. copies = <<>> /\ objs = <<>>
  BY <1>2, <1>3, <1>4
<1>8. FlattenSeq(<<>>) = <<>>
  BY DEF FlattenSeq
<1>9. st.cache = [m \in DOMAIN st.cache |-> st.cache[m]]
  BY DEF LoadFrom
<1>10. c = st.cache
  BY <1>1, <1>5, <1>9
<1>11. st.obj \in Seq(Range(st.obj))
  BY DEF LoadFrom, ObjsOK
<1>12. st.obj \o <<>> = st.obj
  BY <1>11
<1> QED
  BY <1>6, <1>7, <1>8, <1>10, <1>12 DEF r

-----------------------------------------------------------------------------
(* A training                                                               *)

LEMMA LinksConcat ==
    ASSUME NEW N \in Nat, NEW s, NEW r, LinksOK(s, N), LinksOK(r, N)
    PROVE  LinksOK(s \o r, N)
<1>1. s \in Seq(Range(s)) /\ r \in Seq(Range(r))
  BY DEF LinksOK
<1>2. s \o r \in Seq(Range(s \o r)) /\ Range(s \o r) = Range(s) \cup Range(r)
  BY <1>1, ConcatList
<1> QED
  BY <1>2 DEF LinksOK

LEMMA TwoLinks ==
    ASSUME NEW N \in Nat, NEW a, NEW b, NEW s \in 1..N, NEW d \in 1..N, NEW t \in 1..N, NEW e \in 1..N
    PROVE  LinksOK(<<ConceptLink(a, s, d), ConceptLink(b, t, e)>>, N)
<1> DEFINE L == {ConceptLink(a, s, d), ConceptLink(b, t, e)}
           two == <<ConceptLink(a, s, d), ConceptLink(b, t, e)>>
<1>1. \A l \in L : l.source \in 1..N /\ l.destination \in 1..N
  BY DEF ConceptLink
<1>2. two \in Seq(L)
  OBVIOUS
<1> HIDE DEF L, two
<1>3. two \in Seq(Range(two)) /\ Range(two) \subseteq L
  BY <1>2, IsList
<1>4. LinksOK(two, N)
  BY <1>1, <1>3 DEF LinksOK
<1> QED
  BY <1>4 DEF two

\* Two more objects.
LEMMA TwoMore ==
    ASSUME NEW N \in Nat, NEW s, ObjsOK(s, N), NEW a, ObjOK(a, N), NEW b, ObjOK(b, N)
    PROVE  LET t == s \o <<a, b>>
           IN  /\ ObjsOK(t, N) /\ Len(t) = Len(s) + 2 /\ Len(s) \in Nat
               /\ \A i \in 1..Len(s) : t[i] = s[i]
               /\ t[Len(s) + 1] = a /\ t[Len(s) + 2] = b
<1> DEFINE two == <<a, b>>
           t == s \o two
<1>1. two \in Seq({a, b}) /\ Len(two) = 2 /\ two[1] = a /\ two[2] = b
  OBVIOUS
<1> HIDE DEF two
<1>2. two \in Seq(Range(two))
  BY <1>1, IsList
<1>3. \A i \in 1..Len(two) : ObjOK(two[i], N)
  BY <1>1
<1>4. ObjsOK(two, N)
  BY <1>2, <1>3 DEF ObjsOK
<1>5. s \in Seq(Range(s))
  BY DEF ObjsOK
<1>6. /\ Len(t) = Len(s) + Len(two) /\ Len(s) \in Nat
      /\ \A i \in 1..Len(s) : t[i] = s[i]
      /\ \A i \in 1..Len(two) : t[Len(s) + i] = two[i]
  BY <1>2, <1>5, ConcatList
<1>7. ObjsOK(t, N)
  BY <1>4, ObjsConcat
<1> HIDE DEF t
<1>8. 1 \in 1..Len(two) /\ 2 \in 1..Len(two)
  BY <1>1
<1> QED
  BY <1>1, <1>6, <1>7, <1>8 DEF t, two

LEMMA ObjectWithoutUid ==
    ASSUME NEW N \in Nat, NEW kind \in Kinds, NEW name
    PROVE  ObjOK(Object(kind, name, NoUid), N) /\ Object(kind, name, NoUid).uid = NoUid
<1>1. \A u \in Nat \cup {NoUid} : ObjOK(Object(kind, name, u), N) /\ Object(kind, name, u).uid = u
  BY ObjectType
<1>2. NoUid \in Nat \cup {NoUid}
  OBVIOUS
<1> QED
  BY <1>1, <1>2, Zenon

LEMMA HeadIn ==
    ASSUME NEW S, NEW s \in Seq(S), s # <<>>
    PROVE  Head(s) \in S
  OBVIOUS

LEMMA NamedFacts ==
    ASSUME StoreOK, model \in 1..Len(obj), NEW name
    PROVE  /\ Named(name) \in Seq(1..Len(obj))
           /\ Named(name) # <<>> => Head(Named(name)) \in 1..Len(obj)
<1> DEFINE N == Len(obj)
           s == obj[model].nodes
           S == {o \in DOMAIN obj : obj[o].name = <<name>>}
           ks == Keep(s, S)
<1>1. s \in Seq(1..N)
  BY DEF StoreOK, ObjsOK, ObjOK
<1>2. Named(name) = ks
  BY Zenon DEF Named
<1> HIDE DEF s, S, N
<1>3. ks \in Seq(1..N)
  BY <1>1, KeepFacts
<1> HIDE DEF ks
<1>4. ks # <<>> => Head(ks) \in 1..N
  BY <1>3, HeadIn
<1> QED
  BY <1>2, <1>3, <1>4 DEF N

Trainable == StoreOK /\ model \in 1..Len(obj) /\ Named("be") # <<>> /\ Named("object") # <<>>

LEMMA ParsedFacts ==
    ASSUME Trainable, NEW w, NEW uid \in Nat
    PROVE  LET N == Len(obj)
               p == Parsed(w, uid)
           IN  /\ N \in Nat /\ Be \in 1..N /\ Head(Named("object")) \in 1..N
               /\ ObjsOK(p, N + 2) /\ Len(p) = N + 2
               /\ \A i \in 1..N : p[i].uid = obj[i].uid
               /\ p[N + 1].uid = uid /\ p[N + 2].uid = NoUid
<1> DEFINE N == Len(obj)
           M == N + 2
           b == Be
           o == Head(Named("object"))
           two == <<ConceptLink("subj", b, N + 1), ConceptLink("obj", b, o)>>
           x == [obj[b] EXCEPT !.links = obj[b].links \o two]
           s == [obj EXCEPT ![b] = x]
           c0 == Object("concept", <<w>>, uid)
           c == [c0 EXCEPT !.phrases = <<N + 2>>]
           h0 == Object("phrase", <<w>>, NoUid)
           h == [h0 EXCEPT !.concepts = <<N + 1>>]
           p == Parsed(w, uid)
<1>1. N \in Nat /\ b \in 1..N /\ o \in 1..N /\ ObjsOK(obj, N)
  BY NamedFacts DEF Be, Trainable, StoreOK, ObjsOK
<1>2. p = s \o <<c, h>>
  BY DEF Parsed
<1> HIDE DEF p, b, o, N
<1>3. M \in Nat /\ N + 1 \in 1..M /\ N + 2 \in 1..M /\ b \in 1..M /\ o \in 1..M /\ N <= M
  BY <1>1
<1> HIDE DEF M
<1>4. ObjsOK(obj, M)
  BY <1>1, <1>3, ObjsGrow
<1>5. ObjOK(obj[b], M)
  BY <1>1, <1>4 DEF ObjsOK, N
<1>6. LinksOK(two, M)
  BY <1>3, TwoLinks
<1> HIDE DEF two
<1>7. ObjOK(x, M) /\ x.uid = obj[b].uid
  <2>1. LinksOK(obj[b].links \o two, M)
    BY <1>3, <1>5, <1>6, LinksConcat DEF ObjOK
  <2>2. x.uid = obj[b].uid
    BY <1>5 DEF ObjOK
  <2> QED BY <1>3, <1>5, <2>1, <2>2, LinksFieldOK
<1> HIDE DEF x
<1>8. /\ ObjsOK(s, M) /\ Len(s) = N /\ s[b] = x
      /\ \A q \in 1..N : q # b => s[q] = obj[q]
  BY <1>1, <1>3, <1>4, <1>7, ObjsExcept DEF N
<1> HIDE DEF s
<1>9. \A q \in 1..N : s[q].uid = obj[q].uid
  BY <1>7, <1>8
<1>10. ObjOK(c, M) /\ c.uid = uid
  <2>1. ObjOK(c0, M) /\ c0.uid = uid
    BY <1>3, ObjectType DEF Kinds
  <2> HIDE DEF c0
  <2>2. <<N + 2>> \in Seq(1..M)
    BY <1>3
  <2>3. c.uid = uid
    BY <2>1 DEF ObjOK
  <2> QED BY <1>3, <2>1, <2>2, <2>3, FieldsOK
<1>11. ObjOK(h, M) /\ h.uid = NoUid
  <2>1. ObjOK(h0, M) /\ h0.uid = NoUid
    <3>1. "phrase" \in Kinds
      BY DEF Kinds
    <3> QED BY <1>3, <3>1, ObjectWithoutUid
  <2> HIDE DEF h0
  <2>2. <<N + 1>> \in Seq(1..M)
    BY <1>3
  <2>3. h.uid = NoUid
    BY <2>1 DEF ObjOK
  <2> QED BY <1>3, <2>1, <2>2, <2>3, FieldsOK
<1> HIDE DEF c, h
<1>12. /\ ObjsOK(p, M) /\ Len(p) = N + 2
       /\ \A i \in 1..N : p[i] = s[i]
       /\ p[N + 1] = c /\ p[N + 2] = h
  <2> DEFINE t == s \o <<c, h>>
  <2>1. /\ ObjsOK(t, M) /\ Len(t) = Len(s) + 2
        /\ \A i \in 1..Len(s) : t[i] = s[i]
        /\ t[Len(s) + 1] = c /\ t[Len(s) + 2] = h
    BY <1>3, <1>8, <1>10, <1>11, TwoMore, SMTT(30)
  <2> HIDE DEF t
  <2>2. p = t
    BY <1>2 DEF t
  <2> QED BY <1>8, <2>1, <2>2
<1>13. \A i \in 1..N : p[i].uid = obj[i].uid
  BY <1>9, <1>12
<1> QED
  BY <1>1, <1>10, <1>11, <1>12, <1>13 DEF p, b, o, N, M

\* An object that has changed, and two more.
Changed(s, o, x, t) == t = [s EXCEPT ![o] = x]
Joined(s, a, b, t) == t = s \o <<a, b>>

LEMMA ObjsSet ==
    ASSUME NEW N \in Nat, NEW s, ObjsOK(s, N), NEW K \in Nat, Len(s) = K, NEW o \in 1..K,
           NEW x, ObjOK(x, N), NEW t, Changed(s, o, x, t)
    PROVE  /\ ObjsOK(t, N) /\ Len(t) = K /\ t[o] = x
           /\ \A p \in 1..K : p # o => t[p] = s[p]
<1> DEFINE S == Range(s) \cup {x}
<1>1. DOMAIN s = 1..K /\ s \in [1..K -> Range(s)]
  BY DEF ObjsOK
<1>2. t \in [1..K -> S] /\ t[o] = x /\ \A p \in 1..K : p # o => t[p] = s[p]
  BY <1>1 DEF Changed
<1> HIDE DEF S
<1>3. t \in Seq(S) /\ Len(t) = K
  BY <1>2, FunctionIsSeq
<1>4. t \in Seq(Range(t))
  BY <1>3, IsList
<1>5. \A p \in 1..Len(t) : ObjOK(t[p], N)
  BY <1>2, <1>3 DEF ObjsOK
<1> QED
  BY <1>2, <1>3, <1>4, <1>5 DEF ObjsOK

LEMMA ObjsJoined ==
    ASSUME NEW N \in Nat, NEW s, ObjsOK(s, N), NEW K \in Nat, Len(s) = K, NEW a, ObjOK(a, N),
           NEW b, ObjOK(b, N), NEW t, Joined(s, a, b, t)
    PROVE  /\ ObjsOK(t, N) /\ Len(t) = K + 2
           /\ \A i \in 1..K : t[i] = s[i]
           /\ t[K + 1] = a /\ t[K + 2] = b
<1> DEFINE u == s \o <<a, b>>
<1>1. /\ ObjsOK(u, N) /\ Len(u) = Len(s) + 2
      /\ \A i \in 1..Len(s) : u[i] = s[i]
      /\ u[Len(s) + 1] = a /\ u[Len(s) + 2] = b
  BY TwoMore
<1>2. t = u
  BY DEF Joined
<1> HIDE DEF u
<1> QED
  BY <1>1, <1>2

LEMMA AppendIn ==
    ASSUME NEW S, NEW s \in Seq(S), NEW e \in S
    PROVE  Append(s, e) \in Seq(S)
  OBVIOUS

\* What the links with some name lead to.
LEMMA DestinationsOK ==
    ASSUME NEW N \in Nat, NEW s, LinksOK(s, N), NEW S
    PROVE  MapSeq(LAMBDA l : l.destination, Keep(s, S)) \in Seq(1..N)
<1> DEFINE ks == Keep(s, S)
           ds == [i \in DOMAIN ks |-> ks[i].destination]
<1>1. s \in Seq(Range(s))
  BY DEF LinksOK
<1>2. ks \in Seq(Range(s))
  BY <1>1, KeepFacts
<1>3. MapSeq(LAMBDA l : l.destination, Keep(s, S)) = ds
  BY Zenon DEF MapSeq
<1> HIDE DEF ks
<1>4. Len(ks) \in Nat /\ DOMAIN ks = 1..Len(ks) /\ \A i \in 1..Len(ks) : ks[i] \in Range(s)
  BY <1>2
<1>5. ds \in [1..Len(ks) -> 1..N]
  BY <1>4 DEF LinksOK
<1> HIDE DEF ds
<1>6. ds \in Seq(1..N)
  BY <1>4, <1>5, FunctionIsSeq
<1> QED
  BY <1>3, <1>6

LEMMA WithParentsFacts ==
    ASSUME NEW N \in Nat, NEW parsed, ObjsOK(parsed, N), Len(parsed) = N, N >= 2, Be \in 1..(N - 2)
    PROVE  LET t == WithParents(parsed)
           IN  /\ ObjsOK(t, N + 2) /\ Len(t) = N + 2
               /\ \A i \in 1..N : t[i].uid = parsed[i].uid
               /\ t[N + 1].uid = NoUid /\ t[N + 2].uid = NoUid
<1> DEFINE M == N + 2
           b == Be
           a == N - 1
           x == [parsed[a] EXCEPT !.generalisations = <<N + 1>>]
           t1 == [parsed EXCEPT ![a] = x]
           y == [parsed[b] EXCEPT !.generalisations = Append(parsed[b].generalisations, N + 2)]
           t2 == [t1 EXCEPT ![b] = y]
           both == [parsed EXCEPT ![a].generalisations = <<N + 1>>,
                                  ![b].generalisations = Append(@, N + 2)]
           all == parsed[b].links
           S == {l \in Range(all) : l.name = "obj"}
           ds == MapSeq(LAMBDA l : l.destination, Keep(all, S))
           c == Object("concept", parsed[a].name \o <<"Concept">>, NoUid)
           d0 == Object("concept", parsed[b].name \o <<"Concept">>, NoUid)
           d == [d0 EXCEPT !.links = all, !.generalisations = ds]
           t == WithParents(parsed)
<1>1. t = both \o <<c, d>>
  BY DEF WithParents
<1> HIDE DEF t, b
<1>2. /\ M \in Nat /\ N <= M /\ a \in 1..N /\ b \in 1..N /\ a # b
      /\ N + 1 \in 1..M /\ N + 2 \in 1..M
  BY DEF b
<1> HIDE DEF a, M
<1>16. both = t2
  <2>1. DOMAIN parsed = 1..N
    BY DEF ObjsOK
  <2> QED BY <1>2, <2>1
<1> HIDE DEF both
<1>3. ObjsOK(parsed, M)
  BY <1>2, ObjsGrow
<1>4. ObjOK(x, M) /\ x.uid = parsed[a].uid
  <2>1. ObjOK(parsed[a], M)
    BY <1>2, <1>3 DEF ObjsOK
  <2>2. <<N + 1>> \in Seq(1..M)
    BY <1>2
  <2>3. x.uid = parsed[a].uid
    BY <2>1 DEF ObjOK
  <2> QED BY <1>2, <2>1, <2>2, <2>3, FieldsOK
<1> HIDE DEF x
<1>5. /\ ObjsOK(t1, M) /\ Len(t1) = N /\ t1[a] = x
      /\ \A p \in 1..N : p # a => t1[p] = parsed[p]
  <2>1. Changed(parsed, a, x, t1)
    BY DEF Changed
  <2> HIDE DEF t1
  <2> QED BY <1>2, <1>3, <1>4, <2>1, ObjsSet
<1>6. ObjOK(y, M) /\ y.uid = parsed[b].uid
  <2>1. ObjOK(parsed[b], M)
    BY <1>2, <1>3 DEF ObjsOK
  <2>2. parsed[b].generalisations \in Seq(1..M)
    BY <2>1 DEF ObjOK
  <2>3. Append(parsed[b].generalisations, N + 2) \in Seq(1..M)
    BY <1>2, <2>2, AppendIn
  <2>4. y.uid = parsed[b].uid
    BY <2>1 DEF ObjOK
  <2> QED BY <1>2, <2>1, <2>3, <2>4, FieldsOK
<1> HIDE DEF y
<1>7. /\ ObjsOK(t2, M) /\ Len(t2) = N /\ t2[b] = y
      /\ \A p \in 1..N : p # b => t2[p] = t1[p]
  <2>1. Changed(t1, b, y, t2)
    BY DEF Changed
  <2> HIDE DEF t2, t1
  <2> QED BY <1>2, <1>5, <1>6, <2>1, ObjsSet
<1> HIDE DEF t2, t1
<1>8. \A p \in 1..N : t2[p].uid = parsed[p].uid
  BY <1>4, <1>5, <1>6, <1>7
<1>9. "concept" \in Kinds
  BY DEF Kinds
<1>10. ObjOK(c, M) /\ c.uid = NoUid /\ ObjOK(d0, M) /\ d0.uid = NoUid
  BY <1>2, <1>9, ObjectWithoutUid
<1> HIDE DEF c, d0
<1>11. LinksOK(all, M)
  <2>1. ObjOK(parsed[b], M)
    BY <1>2, <1>3 DEF ObjsOK
  <2> QED BY <2>1 DEF ObjOK
<1> HIDE DEF all, S
<1>12. ds \in Seq(1..M)
  BY <1>2, <1>11, DestinationsOK
<1> HIDE DEF ds
<1>13. ObjOK(d, M) /\ d.uid = NoUid
  BY <1>10, <1>11, <1>12 DEF ObjOK
<1> HIDE DEF d
<1>14. /\ ObjsOK(t, M) /\ Len(t) = N + 2
       /\ \A i \in 1..N : t[i] = t2[i]
       /\ t[N + 1] = c /\ t[N + 2] = d
  <2>1. Joined(t2, c, d, t)
    BY <1>1, <1>16 DEF Joined
  <2> QED BY <1>2, <1>7, <1>10, <1>13, <2>1, ObjsJoined
<1>15. \A i \in 1..N : t[i].uid = parsed[i].uid
  BY <1>8, <1>14
<1> QED
  BY <1>10, <1>13, <1>14, <1>15 DEF t, M

\* The path of a training goes over objects.
LEMMA PathOK ==
    ASSUME NEW M \in Nat, NEW objs, ObjsOK(objs, M), Len(objs) = M,
           Be \in 1..M, Head(Named("object")) \in 1..M
    PROVE  PathToTarget(objs) \in Seq(1..M)
<1> DEFINE b == Be
           o == Head(Named("object"))
           ls == objs[b].links
           es == [i \in DOMAIN ls |->
                    IF ls[i].source = b THEN ls[i].destination ELSE ls[i].source]
           S == DOMAIN objs \ InTarget(objs)
           leaves == Keep(es, S)
           two == <<b, o>>
<1>1. PathToTarget(objs) = leaves \o two
  BY Zenon DEF PathToTarget, MapSeq
<1>2. b \in 1..M /\ o \in 1..M
  OBVIOUS
<1>3. LinksOK(ls, M)
  BY <1>2 DEF ObjsOK, ObjOK
<1> HIDE DEF ls, S, b, o
<1>4. ls \in Seq(Range(ls)) /\ \A l \in Range(ls) : l.source \in 1..M /\ l.destination \in 1..M
  BY <1>3 DEF LinksOK
<1>5. Len(ls) \in Nat /\ DOMAIN ls = 1..Len(ls) /\ \A i \in 1..Len(ls) : ls[i] \in Range(ls)
  BY <1>4
<1>6. es \in [1..Len(ls) -> 1..M]
  BY <1>4, <1>5
<1> HIDE DEF es
<1>7. es \in Seq(1..M)
  BY <1>5, <1>6, FunctionIsSeq
<1>8. leaves \in Seq(1..M)
  BY <1>7, KeepFacts
<1> HIDE DEF leaves
<1>9. two \in Seq(1..M)
  BY <1>2
<1> HIDE DEF two
<1> QED
  BY <1>1, <1>8, <1>9, ConcatFacts

\* The objects after a training.
Trained(w, uid) ==
    [WithParents(Parsed(w, uid)) EXCEPT ![model].nodes = @ \o PathToTarget(Parsed(w, uid))]

LEMMA TrainedFacts ==
    ASSUME Trainable, NEW w, NEW uid \in Nat
    PROVE  LET N == Len(obj)
               t == Trained(w, uid)
           IN  /\ N \in Nat /\ ObjsOK(t, N + 4) /\ Len(t) = N + 4
               /\ \A i \in 1..N : t[i].uid = obj[i].uid
               /\ t[N + 1].uid = uid
               /\ t[N + 2].uid = NoUid /\ t[N + 3].uid = NoUid /\ t[N + 4].uid = NoUid
<1> DEFINE N == Len(obj)
           p == Parsed(w, uid)
           q == WithParents(p)
           path == PathToTarget(p)
           x == [q[model] EXCEPT !.nodes = q[model].nodes \o path]
           t == Trained(w, uid)
<1>1. t = [q EXCEPT ![model] = x]
  BY DEF Trained
<1>2. /\ N \in Nat /\ Be \in 1..N /\ Head(Named("object")) \in 1..N
      /\ ObjsOK(p, N + 2) /\ Len(p) = N + 2
      /\ \A i \in 1..N : p[i].uid = obj[i].uid
      /\ p[N + 1].uid = uid /\ p[N + 2].uid = NoUid
  BY ParsedFacts
<1>3. N \in Nat /\ model \in 1..N
  BY <1>2 DEF Trainable
<1>11. path \in Seq(1..(N + 2))
  BY <1>2, PathOK
<1> HIDE DEF N, p, t, path
<1> DEFINE M == N + 2
<1>4. M \in Nat /\ M >= 2 /\ Be \in 1..(M - 2) /\ M + 2 = N + 4 /\ M + 1 = N + 3 /\ model \in 1..(M + 2)
  BY <1>2, <1>3
<1>5. ObjsOK(p, M) /\ Len(p) = M
  BY <1>2
<1> HIDE DEF M
<1>6. /\ ObjsOK(q, M + 2) /\ Len(q) = M + 2
      /\ \A i \in 1..M : q[i].uid = p[i].uid
      /\ q[M + 1].uid = NoUid /\ q[M + 2].uid = NoUid
  BY <1>4, <1>5, WithParentsFacts
<1> HIDE DEF q
<1> DEFINE K == N + 4
<1>7. /\ K \in Nat /\ ObjsOK(q, K) /\ Len(q) = K /\ model \in 1..K
      /\ q[N + 3].uid = NoUid /\ q[K].uid = NoUid
      /\ path \in Seq(1..K)
  <2>1. K \in Nat /\ path \in Seq(1..K)
    BY <1>2, <1>11
  <2>2. M + 2 = K /\ M + 1 = N + 3
    BY <1>4
  <2>3. model \in 1..K
    BY <1>4, <2>2, Zenon
  <2>4. /\ ObjsOK(q, K) /\ Len(q) = K
        /\ q[N + 3].uid = NoUid /\ q[K].uid = NoUid
    BY <1>6, <2>2, Zenon
  <2> QED BY <2>1, <2>3, <2>4, Zenon
<1>8. \A i \in 1..(N + 2) : q[i].uid = p[i].uid
  BY <1>6 DEF M
<1> HIDE DEF K
<1>9. ObjOK(x, K) /\ x.uid = q[model].uid
  <2>1. ObjOK(q[model], K)
    BY <1>7 DEF ObjsOK
  <2> DEFINE s == q[model].nodes
  <2>2. s \in Seq(1..K)
    BY <2>1 DEF ObjOK
  <2> HIDE DEF s
  <2>4. s \o path \in Seq(1..K)
    BY <1>7, <2>2, ConcatFacts
  <2>5. x = [q[model] EXCEPT !.nodes = s \o path]
    BY DEF s
  <2>6. x.uid = q[model].uid
    BY <2>1, <2>5 DEF ObjOK
  <2> QED BY <1>7, <2>1, <2>4, <2>5, <2>6, FieldsOK
<1> HIDE DEF x
<1>10. /\ ObjsOK(t, K) /\ Len(t) = K /\ t[model] = x
       /\ \A i \in 1..K : i # model => t[i] = q[i]
  <2>1. Changed(q, model, x, t)
    BY <1>1 DEF Changed
  <2> QED BY <1>7, <1>9, <2>1, ObjsSet
<1>12. \A i \in 1..K : t[i].uid = q[i].uid
  BY <1>9, <1>10
<1>13. /\ \A i \in 1..N : i \in 1..K /\ i \in 1..(N + 2)
       /\ N + 1 \in 1..K /\ N + 1 \in 1..(N + 2) /\ N + 2 \in 1..K /\ N + 2 \in 1..(N + 2)
       /\ N + 3 \in 1..K /\ N + 4 \in 1..K /\ K = N + 4
  BY <1>3 DEF K
<1>14. /\ \A i \in 1..N : t[i].uid = obj[i].uid
       /\ t[N + 1].uid = uid /\ t[N + 2].uid = NoUid
       /\ t[N + 3].uid = NoUid /\ t[N + 4].uid = NoUid
  BY <1>2, <1>7, <1>8, <1>12, <1>13
<1> QED
  BY <1>3, <1>10, <1>14 DEF t, N, K

\* One more random uid.
LEMMA DrawnFacts ==
    ASSUME NEW nums \in Seq(Uids), NEW uid \in Uids
    PROVE  LET more == Append(nums, uid)
           IN  /\ more \in Seq(Uids) /\ Range(more) = Range(nums) \cup {uid}
               /\ IsInjective(more) => IsInjective(nums) /\ uid \notin Range(nums)
<1> DEFINE more == Append(nums, uid)
           L == Len(nums)
<1>1. /\ L \in Nat /\ DOMAIN nums = 1..L /\ DOMAIN more = 1..(L + 1) /\ more \in Seq(Uids)
      /\ \A i \in 1..L : more[i] = nums[i]
      /\ more[L + 1] = uid
  OBVIOUS
<1> HIDE DEF more, L
<1>2. 1..(L + 1) = (1..L) \cup {L + 1} /\ L + 1 \notin 1..L
  BY <1>1
<1>3. Range(more) = Range(nums) \cup {uid}
  BY <1>1, <1>2 DEF Range
<1>4. ASSUME IsInjective(more) PROVE IsInjective(nums) /\ uid \notin Range(nums)
  <2>1. \A i, j \in 1..(L + 1) : more[i] = more[j] => i = j
    BY <1>1, <1>4 DEF IsInjective
  <2>2. IsInjective(nums)
    BY <1>1, <1>2, <2>1 DEF IsInjective
  <2>3. uid \notin Range(nums)
    BY <1>1, <1>2, <2>1 DEF Range
  <2> QED BY <2>2, <2>3
<1> QED
  BY <1>1, <1>3, <1>4 DEF more

UidsFine(objs, N, L, nums) ==
    Clashed(nums, L) \/ (UidsApart(objs, N) /\ UidsFrom(objs, N, L, nums))

\* Objects that a training made: one has the random uid, the others have none.
LEMMA UidsAdded ==
    ASSUME NEW N \in Nat, NEW K \in Nat, N + 1 <= K, NEW L \in Nat,
           NEW nums \in Seq(Uids), NEW uid \in Uids, NEW objs, NEW t,
           \A i \in 1..N : t[i].uid = objs[i].uid,
           t[N + 1].uid = uid,
           \A i \in (N + 2)..K : t[i].uid = NoUid,
           UidsFine(objs, N, L, nums)
    PROVE  UidsFine(t, K, L, Append(nums, uid))
<1> DEFINE more == Append(nums, uid)
<1>1. /\ Range(more) = Range(nums) \cup {uid}
      /\ IsInjective(more) => IsInjective(nums) /\ uid \notin Range(nums)
  BY DrawnFacts
<1> HIDE DEF more
<1>2. SUFFICES ASSUME ~Clashed(more, L)
               PROVE  UidsApart(t, K) /\ UidsFrom(t, K, L, more)
  BY DEF UidsFine, more
<1>3. /\ Range(nums) \cap (1..L) = {} /\ IsInjective(nums)
      /\ uid \notin Range(nums) /\ uid \notin 1..L
  BY <1>1, <1>2 DEF Clashed
<1>4. UidsApart(objs, N) /\ UidsFrom(objs, N, L, nums)
  BY <1>3 DEF UidsFine, Clashed
<1>5. uid # NoUid
  BY StoreAssumption DEF NoUid
<1>6. ASSUME NEW i \in 1..K PROVE i \in 1..N \/ i = N + 1 \/ i \in (N + 2)..K
  OBVIOUS
<1>7. \A i \in 1..N : t[i].uid # uid
  BY <1>3, <1>4, <1>5 DEF UidsFrom
<1>8. UidsFrom(t, K, L, more)
  BY <1>1, <1>4, <1>6 DEF UidsFrom
<1>9. UidsApart(t, K)
  <2> SUFFICES ASSUME NEW i \in 1..K, NEW j \in 1..K, i # j, t[i].uid = t[j].uid,
                      t[i].uid # NoUid
               PROVE  FALSE
    BY DEF UidsApart
  <2>1. i \in 1..N \/ i = N + 1
    BY <1>6
  <2>2. j \in 1..N \/ j = N + 1
    BY <1>6
  <2>3. ~(i \in 1..N /\ j \in 1..N)
    BY <1>4 DEF UidsApart
  <2> QED BY <1>7, <2>1, <2>2, <2>3
<1> QED
  BY <1>8, <1>9

\* The default objects have no uids.
LEMMA DefaultFacts ==
    /\ ObjsOK(DefaultObjects, 8) /\ Len(DefaultObjects) = 8
    /\ \A i \in 1..8 : DefaultObjects[i].uid = NoUid
<1> DEFINE has == ConceptLink("has", 3, 4)
           concept(n) == Object("concept", <<n>>, NoUid)
           phrase(n, c) == [Object("phrase", <<n>>, NoUid) EXCEPT !.concepts = <<c>>]
           d1 == [Object("network", <<"domainModel">>, NoUid) EXCEPT !.nodes = <<2, 3, 4, 5>>]
           d2 == [concept("concept") EXCEPT !.specialisations = <<3, 4, 5>>]
           d3 == [concept("subject") EXCEPT !.generalisations = <<2>>, !.phrases = <<6>>,
                                      !.links = <<has>>]
           d4 == [concept("object") EXCEPT !.generalisations = <<2>>, !.phrases = <<7>>,
                                     !.links = <<has>>]
           d5 == [concept("be") EXCEPT !.generalisations = <<2>>]
           d6 == [phrase("subject", 3) EXCEPT !.phrases = <<8>>]
           d7 == phrase("object", 4)
           d8 == Object("phrase", <<"subject", "EmptyPhrase">>, NoUid)
           Fine(x) == ObjOK(x, 8) /\ x.uid = NoUid
<1>1. DefaultObjects = <<d1, d2, d3, d4, d5, d6, d7, d8>>
  BY DEF DefaultObjects
<1>2. 8 \in Nat
  OBVIOUS
<1>3. \A name : Fine(Object("network", name, NoUid)) /\ Fine(Object("concept", name, NoUid))
                /\ Fine(Object("phrase", name, NoUid))
  <2>1. "network" \in Kinds /\ "concept" \in Kinds /\ "phrase" \in Kinds
    BY DEF Kinds
  <2> QED BY <1>2, <2>1, ObjectWithoutUid
<1>4. ASSUME NEW x, Fine(x), NEW s \in Seq(1..8)
      PROVE  /\ Fine([x EXCEPT !.nodes = s]) /\ Fine([x EXCEPT !.phrases = s])
             /\ Fine([x EXCEPT !.generalisations = s]) /\ Fine([x EXCEPT !.specialisations = s])
             /\ Fine([x EXCEPT !.concepts = s])
  <2>1. /\ ObjOK([x EXCEPT !.nodes = s], 8) /\ ObjOK([x EXCEPT !.phrases = s], 8)
        /\ ObjOK([x EXCEPT !.generalisations = s], 8)
        /\ ObjOK([x EXCEPT !.specialisations = s], 8)
        /\ ObjOK([x EXCEPT !.concepts = s], 8)
    BY <1>2, <1>4, FieldsOK
  <2>2. /\ [x EXCEPT !.nodes = s].uid = NoUid /\ [x EXCEPT !.phrases = s].uid = NoUid
        /\ [x EXCEPT !.generalisations = s].uid = NoUid
        /\ [x EXCEPT !.specialisations = s].uid = NoUid
        /\ [x EXCEPT !.concepts = s].uid = NoUid
    BY <1>4 DEF ObjOK
  <2> QED BY <2>1, <2>2
<1>5. LinksOK(<<has>>, 8)
  <2>1. has.source \in 1..8 /\ has.destination \in 1..8
    BY DEF ConceptLink
  <2> HIDE DEF has
  <2>2. <<has>> \in Seq({has}) /\ Range(<<has>>) = {has}
    BY DEF Range
  <2> QED BY <2>1, <2>2 DEF LinksOK
<1>6. /\ <<2, 3, 4, 5>> \in Seq(1..8) /\ <<3, 4, 5>> \in Seq(1..8) /\ <<2>> \in Seq(1..8)
      /\ <<6>> \in Seq(1..8) /\ <<7>> \in Seq(1..8) /\ <<8>> \in Seq(1..8)
      /\ <<3>> \in Seq(1..8) /\ <<4>> \in Seq(1..8)
  OBVIOUS
<1> HIDE DEF has
<1>7. ASSUME NEW x, Fine(x), NEW s \in Seq(1..8), NEW r \in Seq(1..8)
      PROVE  Fine([x EXCEPT !.generalisations = s, !.phrases = r, !.links = <<has>>])
  <2> DEFINE ls == <<has>>
  <2>1. LinksOK(ls, 8)
    BY <1>5
  <2> HIDE DEF ls
  <2>2. Fine([x EXCEPT !.generalisations = s, !.phrases = r, !.links = ls])
    BY <1>7, <2>1 DEF ObjOK
  <2> QED BY <2>2 DEF ls
<1>8. /\ Fine(d1) /\ Fine(d2) /\ Fine(d3) /\ Fine(d4)
      /\ Fine(d5) /\ Fine(d6) /\ Fine(d7) /\ Fine(d8)
  <2> HIDE DEF Fine
  <2>1. Fine(d1)
    BY <1>3, <1>4, <1>6
  <2>2. Fine(d2)
    BY <1>3, <1>4, <1>6
  <2>3. Fine(d3)
    BY <1>3, <1>6, <1>7
  <2>4. Fine(d4)
    BY <1>3, <1>6, <1>7
  <2>5. Fine(d5)
    BY <1>3, <1>4, <1>6
  <2>6. Fine(phrase("subject", 3)) /\ Fine(d7)
    BY <1>3, <1>4, <1>6
  <2> HIDE DEF phrase
  <2>7. Fine(d6)
    BY <1>4, <1>6, <2>6
  <2>8. Fine(d8)
    BY <1>3
  <2> QED BY <2>1, <2>2, <2>3, <2>4, <2>5, <2>6, <2>7, <2>8
<1> HIDE DEF d1, d2, d3, d4, d5, d6, d7, d8
<1> DEFINE ds == <<d1, d2, d3, d4, d5, d6, d7, d8>>
<1>9. /\ ds = [i \in 1..8 |-> ds[i]] /\ Len(ds) = 8
      /\ ds[1] = d1 /\ ds[2] = d2 /\ ds[3] = d3 /\ ds[4] = d4
      /\ ds[5] = d5 /\ ds[6] = d6 /\ ds[7] = d7 /\ ds[8] = d8
  OBVIOUS
<1> HIDE DEF ds, Fine
<1>10. \A i \in 1..8 : Fine(ds[i])
  BY <1>8, <1>9
<1>11. \A i \in 1..8 : ObjOK(ds[i], 8) /\ ds[i].uid = NoUid
  BY <1>10 DEF Fine
<1>12. ObjsOK(ds, 8)
  BY <1>2, <1>9, <1>11, ObjsFunction
<1> QED
  BY <1>1, <1>9, <1>11, <1>12 DEF ds

-----------------------------------------------------------------------------
(* The steps                                                                *)

LEMMA InitInv ==
    Init => Inv
<1> SUFFICES ASSUME Init PROVE Inv
  OBVIOUS
<1>1. /\ obj = DefaultObjects /\ cache = <<>> /\ node = <<>> /\ rel = {} /\ model = 0
      /\ pc = "idle" /\ misled = {} /\ drawn = <<>> /\ trainings = 0 /\ restarts = 0
  BY DEF Init, None
<1>2. ObjsOK(obj, 8) /\ Len(obj) = 8 /\ \A i \in 1..8 : obj[i].uid = NoUid
  BY <1>1, DefaultFacts
<1>3. node \in Seq(Range(node)) /\ Len(node) = 0
  BY <1>1
<1>4. cache \in [DOMAIN cache -> 1..Len(obj)] /\ DOMAIN cache = {}
  BY <1>1
<1>5. RelsOK(rel, Len(node))
  BY <1>1, FS_EmptySet DEF RelsOK
<1>6. drawn \in Seq(Uids)
  BY <1>1
<1>7. StoreOK
  BY <1>1, <1>2, <1>3, <1>4, <1>5, <1>6 DEF StoreOK
<1>8. ControlOK
  BY <1>1, <1>2, StoreAssumption DEF ControlOK, None
<1>9. UidsApart(obj, Len(obj)) /\ UidsFrom(obj, Len(obj), Len(node), drawn)
  BY <1>2 DEF UidsApart, UidsFrom
<1>10. VersionsCached(rel, cache)
  BY <1>1 DEF VersionsCached
<1>11. FirstJVM
  BY <1>1, <1>9, <1>10 DEF FirstJVM
<1> QED
  BY <1>7, <1>8, <1>11 DEF Inv

\* A save.
LEMMA SavedStep ==
    ASSUME Inv, NEW m \in 1..Len(obj), Saved(Save(m)), UNCHANGED <<drawn, restarts>>
    PROVE  StoreOK' /\ FirstJVM' /\ Len(obj') = Len(obj)
<1> DEFINE st == Save(m)
           N == Len(obj)
<1>1. /\ obj' = st.obj /\ cache' = st.cache /\ node' = st.node /\ rel' = st.rel
      /\ misled' = st.misled /\ drawn' = drawn /\ restarts' = restarts
  BY DEF Saved
<1>2. StOK(st, N) /\ (restarts = 0 => FirstSave(st, N, drawn))
  BY SaveFacts DEF Inv
<1> HIDE DEF st, N
<1>3. /\ ObjsOK(obj', N) /\ Len(obj') = N
      /\ node' \in Seq(Range(node'))
      /\ cache' \in [DOMAIN cache' -> 1..N] /\ DOMAIN cache' \subseteq 1..Len(node')
      /\ RelsOK(rel', Len(node')) /\ misled' \subseteq 1..N
  BY <1>1, <1>2 DEF StOK
<1>4. drawn' \in Seq(Uids) /\ N >= 1
  BY <1>1 DEF Inv, StoreOK, N
<1>5. StoreOK'
  BY <1>3, <1>4 DEF StoreOK
<1>6. FirstJVM'
  <2> SUFFICES ASSUME restarts' = 0
               PROVE  /\ VersionsCached(rel', cache')
                      /\ \/ Clashed(drawn', Len(node'))
                         \/ /\ UidsApart(obj', Len(obj'))
                            /\ UidsFrom(obj', Len(obj'), Len(node'), drawn')
                            /\ misled' = {}
    BY DEF FirstJVM
  <2>1. FirstSave(st, N, drawn)
    BY <1>1, <1>2
  <2> QED BY <1>1, <1>3, <2>1 DEF FirstSave
<1> QED
  BY <1>3, <1>5, <1>6 DEF N

LEMMA NoModelStep ==
    ASSUME Inv, NoModel
    PROVE  Inv'
<1>1. 1 \in 1..Len(obj) /\ Len(obj) \in Nat
  BY DEF Inv, StoreOK, ObjsOK
<1>2. /\ Saved(Save(1)) /\ pc' \in {"loaded", "failed"} /\ model' = 1
      /\ drawn' = drawn /\ trainings' = trainings /\ restarts' = restarts
  BY DEF NoModel, Default
<1>3. StoreOK' /\ FirstJVM' /\ Len(obj') = Len(obj)
  BY <1>1, <1>2, SavedStep
<1>4. ControlOK'
  BY <1>1, <1>2, <1>3 DEF Inv, ControlOK, None
<1> QED
  BY <1>3, <1>4 DEF Inv

LEMMA SaveModelStep ==
    ASSUME Inv, SaveModel
    PROVE  Inv'
<1>1. Len(obj) \in Nat /\ pc = "trained"
  BY DEF Inv, StoreOK, ObjsOK, SaveModel
<1>2. model \in 1..Len(obj)
  BY <1>1 DEF Inv, ControlOK, None
<1>3. /\ Saved(Save(model)) /\ pc' \in {"saved", "failed"} /\ model' = model
      /\ drawn' = drawn /\ trainings' = trainings /\ restarts' = restarts
  BY DEF SaveModel
<1>4. StoreOK' /\ FirstJVM' /\ Len(obj') = Len(obj)
  BY <1>2, <1>3, SavedStep
<1>5. ControlOK'
  BY <1>1, <1>2, <1>3, <1>4 DEF Inv, ControlOK, None
<1> QED
  BY <1>4, <1>5 DEF Inv

LEMMA LoadModelStep ==
    ASSUME Inv, NEW n \in DOMAIN node, NEW order, LoadModel(n, order)
    PROVE  Inv'
<1> DEFINE st == [obj |-> obj, cache |-> cache]
           r == Load(st, n, order)
<1>1. /\ n \in Versions
      /\ obj' = r.obj /\ cache' = r.cache
      /\ pc' \in {"loaded", "broken"}
      /\ pc' = "loaded" => model' = r.cache[n]
      /\ pc' = "broken" => model' = 0
      /\ node' = node /\ rel' = rel /\ misled' = misled /\ drawn' = drawn
      /\ trainings' = trainings /\ restarts' = restarts
  BY DEF LoadModel, None
<1>2. st.obj = obj /\ st.cache = cache
  OBVIOUS
<1> HIDE DEF st
<1>3. StoreTypes /\ LoadFrom(st)
  <2>1. DOMAIN node = 1..Len(node)
    BY DEF Inv, StoreOK
  <2> QED BY <1>2, <2>1 DEF Inv, StoreOK, StoreTypes, LoadFrom
<1>4. /\ ObjsOK(r.obj, Len(r.obj)) /\ Len(st.obj) <= Len(r.obj)
      /\ r.cache \in [DOMAIN r.cache -> 1..Len(r.obj)]
      /\ DOMAIN r.cache \subseteq DOMAIN node /\ n \in DOMAIN r.cache
  BY <1>3, LoadTypes
<1>5. n \in DOMAIN cache => r.obj = obj /\ r.cache = cache
  BY <1>2, <1>3, LoadCached
<1> HIDE DEF r
<1>6. /\ ObjsOK(obj', Len(obj')) /\ Len(obj) <= Len(obj')
      /\ cache' \in [DOMAIN cache' -> 1..Len(obj')]
      /\ DOMAIN cache' \subseteq 1..Len(node') /\ n \in DOMAIN cache'
  <2>1. DOMAIN node = 1..Len(node)
    BY DEF Inv, StoreOK
  <2> QED BY <1>1, <1>2, <1>4, <2>1
<1>7. Len(obj) \in Nat /\ Len(obj') \in Nat
  BY <1>6 DEF Inv, StoreOK, ObjsOK
<1>8. StoreOK'
  <2>1. misled' \subseteq 1..Len(obj')
    BY <1>1, <1>6, <1>7 DEF Inv, StoreOK
  <2>2. Len(obj') >= 1
    BY <1>6, <1>7 DEF Inv, StoreOK
  <2> QED BY <1>1, <1>6, <2>1, <2>2 DEF Inv, StoreOK
<1>9. ControlOK'
  <2>1. cache'[n] \in 1..Len(obj')
    BY <1>6
  <2>2. /\ model' \in 0..Len(obj') /\ (pc' = "loaded" => model' # 0)
    BY <1>1, <1>7, <2>1
  <2> QED BY <1>1, <2>2 DEF Inv, ControlOK, None
<1>10. FirstJVM'
  <2> SUFFICES ASSUME restarts = 0 PROVE FirstJVM'
    BY <1>1 DEF FirstJVM
  <2>1. VersionsCached(rel, cache)
    BY DEF Inv, FirstJVM
  <2>2. n \in DOMAIN cache
    BY <1>1, <2>1 DEF Versions, Related, VersionsCached
  <2>3. obj' = obj /\ cache' = cache
    BY <1>1, <1>5, <2>2
  <2> QED BY <1>1, <2>3 DEF Inv, FirstJVM
<1> QED
  BY <1>8, <1>9, <1>10 DEF Inv

\* More objects, one of which has the random uid.
LEMMA AddedStep ==
    ASSUME Inv, NEW uid \in Uids, NEW K \in Nat, Len(obj) + 1 <= K,
           ObjsOK(obj', K), Len(obj') = K,
           \A i \in 1..Len(obj) : obj'[i].uid = obj[i].uid,
           obj'[Len(obj) + 1].uid = uid,
           \A i \in (Len(obj) + 2)..K : obj'[i].uid = NoUid,
           drawn' = Append(drawn, uid),
           UNCHANGED <<cache, node, rel, misled, restarts>>
    PROVE  StoreOK' /\ FirstJVM'
<1> DEFINE N == Len(obj)
           L == Len(node)
<1>1. N \in Nat /\ L \in Nat /\ drawn \in Seq(Uids) /\ N <= K
  BY DEF Inv, StoreOK, ObjsOK
<1>2. drawn' \in Seq(Uids)
  BY <1>1, DrawnFacts
<1>3. cache' \in [DOMAIN cache' -> 1..K]
  <2>1. cache \in [DOMAIN cache -> 1..N] /\ 1..N \subseteq 1..K
    BY <1>1 DEF Inv, StoreOK
  <2> HIDE DEF N
  <2> QED BY <2>1
<1>4. misled' \subseteq 1..K
  BY <1>1 DEF Inv, StoreOK
<1>5. StoreOK'
  BY <1>1, <1>2, <1>3, <1>4 DEF Inv, StoreOK
<1>6. FirstJVM'
  <2> SUFFICES ASSUME restarts = 0
               PROVE  /\ VersionsCached(rel', cache')
                      /\ \/ Clashed(drawn', Len(node'))
                         \/ /\ UidsApart(obj', Len(obj'))
                            /\ UidsFrom(obj', Len(obj'), Len(node'), drawn')
                            /\ misled' = {}
    BY DEF FirstJVM
  <2>1. /\ VersionsCached(rel, cache)
        /\ \/ Clashed(drawn, L)
           \/ /\ UidsApart(obj, N)
              /\ UidsFrom(obj, N, L, drawn)
              /\ misled = {}
    BY DEF Inv, FirstJVM
  <2>2. UidsFine(obj, N, L, drawn)
    BY <2>1 DEF UidsFine
  <2>3. /\ \A i \in 1..N : obj'[i].uid = obj[i].uid
        /\ obj'[N + 1].uid = uid
        /\ \A i \in (N + 2)..K : obj'[i].uid = NoUid
        /\ N + 1 <= K
    OBVIOUS
  <2> HIDE DEF N, L
  <2>4. UidsFine(obj', K, L, Append(drawn, uid))
    BY <1>1, <2>2, <2>3, UidsAdded
  <2>5. Clashed(drawn, L) => Clashed(drawn', L)
    <3>1. /\ Range(drawn') = Range(drawn) \cup {uid}
          /\ IsInjective(drawn') => IsInjective(drawn)
      BY <1>1, DrawnFacts
    <3> QED BY <3>1 DEF Clashed
  <2>6. Len(node') = L
    BY DEF L
  <2>7. Clashed(drawn', L) \/ (UidsApart(obj', K) /\ UidsFrom(obj', K, L, drawn'))
    BY <2>4 DEF UidsFine
  <2> QED BY <2>1, <2>5, <2>6, <2>7
<1> QED
  BY <1>5, <1>6

LEMMA CanTrainFacts ==
    ASSUME Inv, NEW w, CanTrain(w)
    PROVE  Trainable /\ trainings + 1 \in 0..MaxTrainings /\ model \in 1..Len(obj)
<1>1. /\ pc = "loaded" /\ trainings < MaxTrainings
      /\ Named("be") # <<>> /\ Named("object") # <<>>
  BY DEF CanTrain
<1>2. Len(obj) \in Nat
  BY DEF Inv, StoreOK, ObjsOK
<1>3. model \in 1..Len(obj)
  BY <1>1, <1>2 DEF Inv, ControlOK, None
<1>4. trainings + 1 \in 0..MaxTrainings
  BY <1>1, StoreAssumption DEF Inv, ControlOK
<1> QED
  BY <1>1, <1>3, <1>4 DEF Inv, Trainable

LEMMA TrainStep ==
    ASSUME Inv, NEW w, NEW uid \in Uids, Train(w, uid)
    PROVE  Inv'
<1> DEFINE N == Len(obj)
           K == N + 4
<1>1. Trainable /\ trainings + 1 \in 0..MaxTrainings /\ model \in 1..N
  BY CanTrainFacts DEF Train
<1>2. uid \in Nat
  BY StoreAssumption
<1>3. obj' = Trained(w, uid)
  BY DEF Train, Trained
<1>4. /\ drawn' = Append(drawn, uid) /\ trainings' = trainings + 1 /\ pc' = "trained"
      /\ model' = model
      /\ UNCHANGED <<cache, node, rel, misled, restarts>>
  BY DEF Train
<1>5. /\ N \in Nat /\ ObjsOK(obj', N + 4) /\ Len(obj') = N + 4
      /\ \A i \in 1..N : obj'[i].uid = obj[i].uid
      /\ obj'[N + 1].uid = uid
      /\ obj'[N + 2].uid = NoUid /\ obj'[N + 3].uid = NoUid /\ obj'[N + 4].uid = NoUid
  BY <1>1, <1>2, <1>3, TrainedFacts, SMTT(30)
<1>6. /\ K \in Nat /\ N + 1 <= K /\ ObjsOK(obj', K) /\ Len(obj') = K
      /\ \A i \in (N + 2)..K : obj'[i].uid = NoUid
  <2>1. \A i \in (N + 2)..K : i = N + 2 \/ i = N + 3 \/ i = N + 4
    BY <1>5
  <2> QED BY <1>5, <2>1
<1> HIDE DEF K
<1>7. StoreOK' /\ FirstJVM'
  BY <1>4, <1>5, <1>6, AddedStep
<1>8. ControlOK'
  <2>1. model' \in 1..K /\ Len(obj') = K
    BY <1>1, <1>4, <1>5, <1>6
  <2> QED BY <1>1, <1>4, <1>6, <2>1 DEF Inv, ControlOK, None
<1> QED
  BY <1>7, <1>8 DEF Inv

LEMMA FailedTrainingStep ==
    ASSUME Inv, NEW w, NEW uid \in Uids, FailedTraining(w, uid)
    PROVE  Inv'
<1> DEFINE N == Len(obj)
           K == N + 2
<1>1. Trainable /\ trainings + 1 \in 0..MaxTrainings /\ model \in 1..N
  BY CanTrainFacts DEF FailedTraining
<1>2. uid \in Nat
  BY StoreAssumption
<1>3. obj' = Parsed(w, uid)
  BY DEF FailedTraining
<1>4. /\ drawn' = Append(drawn, uid) /\ trainings' = trainings + 1 /\ pc' = "failed"
      /\ model' = model
      /\ UNCHANGED <<cache, node, rel, misled, restarts>>
  BY DEF FailedTraining
<1>5. /\ N \in Nat /\ ObjsOK(obj', N + 2) /\ Len(obj') = N + 2
      /\ \A i \in 1..N : obj'[i].uid = obj[i].uid
      /\ obj'[N + 1].uid = uid /\ obj'[N + 2].uid = NoUid
  BY <1>1, <1>2, <1>3, ParsedFacts
<1>6. /\ K \in Nat /\ N + 1 <= K /\ ObjsOK(obj', K) /\ Len(obj') = K
      /\ \A i \in (N + 2)..K : obj'[i].uid = NoUid
  <2>1. \A i \in (N + 2)..K : i = N + 2
    BY <1>5
  <2> QED BY <1>5, <2>1
<1> HIDE DEF K
<1>7. StoreOK' /\ FirstJVM'
  BY <1>4, <1>5, <1>6, AddedStep
<1>8. ControlOK'
  <2>1. model' \in 1..K /\ Len(obj') = K
    BY <1>1, <1>4, <1>5, <1>6
  <2> QED BY <1>1, <1>4, <1>6, <2>1 DEF Inv, ControlOK, None
<1> QED
  BY <1>7, <1>8 DEF Inv

LEMMA RestartJVMStep ==
    ASSUME Inv, RestartJVM
    PROVE  Inv'
<1>1. /\ restarts' = restarts + 1 /\ restarts < MaxRestarts /\ obj' = DefaultObjects
      /\ cache' = <<>> /\ model' = 0 /\ pc' = "idle" /\ misled' = {} /\ drawn' = <<>>
      /\ node' = node /\ rel' = rel /\ trainings' = trainings
  BY DEF RestartJVM, None
<1>2. ObjsOK(obj', 8) /\ Len(obj') = 8
  BY <1>1, DefaultFacts
<1>3. cache' \in [DOMAIN cache' -> 1..Len(obj')] /\ DOMAIN cache' = {}
  BY <1>1
<1>4. drawn' \in Seq(Uids)
  BY <1>1
<1>5. StoreOK'
  BY <1>1, <1>2, <1>3, <1>4 DEF Inv, StoreOK
<1>6. restarts' \in 0..MaxRestarts /\ restarts' # 0
  BY <1>1, StoreAssumption DEF Inv, ControlOK
<1>7. ControlOK'
  BY <1>1, <1>2, <1>6 DEF Inv, ControlOK, None
<1>8. FirstJVM'
  BY <1>6 DEF FirstJVM
<1> QED
  BY <1>5, <1>7, <1>8 DEF Inv

LEMMA NextRequestStep ==
    ASSUME Inv, NextRequest
    PROVE  Inv'
<1>1. /\ pc' = "idle" /\ model' = 0
      /\ UNCHANGED <<obj, cache, node, rel, misled, drawn, trainings, restarts>>
  BY DEF NextRequest, None
<1>2. StoreOK' /\ FirstJVM'
  BY <1>1 DEF Inv, StoreOK, FirstJVM
<1>3. Len(obj') \in Nat
  BY <1>1 DEF Inv, StoreOK, ObjsOK
<1>4. ControlOK'
  BY <1>1, <1>3 DEF Inv, ControlOK, None
<1> QED
  BY <1>2, <1>4 DEF Inv

LEMMA StepInv ==
    Inv /\ [Next]_vars => Inv'
<1> SUFFICES ASSUME Inv, [Next]_vars PROVE Inv'
  OBVIOUS
<1>1. CASE UNCHANGED vars
  BY <1>1 DEF vars, Inv, StoreOK, ControlOK, FirstJVM
<1>2. CASE NoModel
  BY <1>2, NoModelStep
<1>3. ASSUME NEW n \in DOMAIN node, NEW order \in Orders, LoadModel(n, order) PROVE Inv'
  BY <1>3, LoadModelStep
<1>4. ASSUME NEW w \in Words, NEW uid \in Uids, Train(w, uid) PROVE Inv'
  BY <1>4, TrainStep
<1>5. ASSUME NEW w \in Words, NEW uid \in Uids, FailedTraining(w, uid) PROVE Inv'
  BY <1>5, FailedTrainingStep
<1>6. CASE SaveModel
  BY <1>6, SaveModelStep
<1>7. CASE NextRequest
  BY <1>7, NextRequestStep
<1>8. CASE RestartJVM
  BY <1>8, RestartJVMStep
<1> QED
  BY <1>1, <1>2, <1>3, <1>4, <1>5, <1>6, <1>7, <1>8 DEF Next

LEMMA InvHolds ==
    Spec => []Inv
<1> QED
  BY InitInv, StepInv, PTL DEF Spec

LEMMA ObjOKIsObjectOK ==
    ASSUME Len(obj) \in Nat, DOMAIN obj = 1..Len(obj), NEW x, ObjOK(x, Len(obj))
    PROVE  ObjectOK(x)
<1> DEFINE N == Len(obj)
<1>1. /\ x.kind \in {"network", "concept", "phrase"} /\ x.uid \in Nat \cup {NoUid}
      /\ x.nodes \in Seq(1..N) /\ x.generalisations \in Seq(1..N)
      /\ x.specialisations \in Seq(1..N) /\ x.phrases \in Seq(1..N)
      /\ x.concepts \in Seq(1..N) /\ LinksOK(x.links, N)
  BY DEF ObjOK, Kinds
<1> HIDE DEF N
<1>2. /\ Range(x.nodes) \subseteq 1..N /\ Range(x.generalisations) \subseteq 1..N
      /\ Range(x.specialisations) \subseteq 1..N /\ Range(x.phrases) \subseteq 1..N
      /\ Range(x.concepts) \subseteq 1..N
  BY <1>1, IsList
<1>3. ASSUME NEW type \in Structure \cup {"concepts"} PROVE Range(x[type]) \subseteq DOMAIN obj
  <2>1. type \in {"nodes", "generalisations", "specialisations", "phrases", "concepts"}
    BY DEF Structure
  <2> QED BY <1>2, <2>1 DEF N
<1>4. \A l \in Range(x.links) : {l.source, l.destination} \subseteq DOMAIN obj
  BY <1>1 DEF LinksOK, N
<1> QED
  BY <1>1, <1>3, <1>4 DEF ObjectOK

\* Objects refer to objects of this JVM, the cache to nodes and objects that exist, and
\* relationships to nodes of the store, in every JVM and for any uids: no load makes a
\* reference to an object that it does not create, and createLink checks for the node.
THEOREM TypeCorrect == Spec => []TypeOK
<1>1. Inv => TypeOK
  <2> SUFFICES ASSUME Inv PROVE TypeOK
    OBVIOUS
  <2>1. /\ Len(obj) \in Nat /\ DOMAIN obj = 1..Len(obj) /\ DOMAIN node = 1..Len(node)
        /\ ObjsOK(obj, Len(obj))
    BY DEF Inv, StoreOK, ObjsOK
  <2>2. \A o \in DOMAIN obj : ObjectOK(obj[o])
    BY <2>1, ObjOKIsObjectOK DEF ObjsOK
  <2>3. \A n \in DOMAIN cache : n \in DOMAIN node /\ cache[n] \in DOMAIN obj
    BY <2>1 DEF Inv, StoreOK
  <2>4. \A r \in rel : r.from \in 0 .. Len(node) /\ r.to \in 0 .. Len(node)
    BY DEF Inv, StoreOK, RelsOK
  <2>5. misled \subseteq DOMAIN obj
    BY <2>1 DEF Inv, StoreOK
  <2> QED BY <2>2, <2>3, <2>4, <2>5 DEF Inv, ControlOK, TypeOK
<1> QED
  BY <1>1, InvHolds, PTL

\* In the JVM that made the store, checkIfSaved is right about every object as long as no
\* random uid is the number of a node or was drawn twice, whatever is taught and how
\* often it is saved.
THEOREM MisledByClashes == Spec => []OnlyClashesMislead
<1>1. Inv => OnlyClashesMislead
  <2> SUFFICES ASSUME Inv, restarts = 0, misled # {}
               PROVE  Range(drawn) \cap DOMAIN node # {} \/ ~IsInjective(drawn)
    BY DEF OnlyClashesMislead
  <2>1. DOMAIN node = 1..Len(node)
    BY DEF Inv, StoreOK
  <2>2. Clashed(drawn, Len(node))
    BY DEF Inv, FirstJVM
  <2> QED BY <2>1, <2>2 DEF Clashed
<1> QED
  BY <1>1, InvHolds, PTL

=============================================================================
