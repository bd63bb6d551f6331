------------------------ MODULE KnowledgeBase_proofs ------------------------
(***************************************************************************)
(* What the runs check of the long term memory, proved for every number of *)
(* requests, trainings, concepts, store nodes and restarts.                *)
(*                                                                         *)
(*   TypeInv    the types, and which fields of a request are set where     *)
(*   OpenInv    the life of the database, and that requests are alone      *)
(*   CacheInv   cached and loaded objects, while nothing was cleaned       *)
(*   ChildInv   where saves that overlap have put the concepts             *)
(*   TaughtInv  the one object of the first JVM, and what it was taught    *)
(***************************************************************************)
EXTENDS KnowledgeBase, SequenceTheorems, WellFoundedInduction, TLAPS

PCs == {"idle", "open", "load", "cache", "create", "fill", "loaded", "store", "save",
        "children", "done", "failed"}
ThreadRecords == [pc : PCs, id : Ids \cup {None}, o : Nat, nodes : SUBSET Concepts,
                  todo : SUBSET Concepts, then : {"none", "load", "done"}]
Objects == [nodes : SUBSET Concepts, filled : BOOLEAN, uid : Ids \cup {None}]

\* What a request relies on: it knows the node it reads, the object it loaded, changes
\* or saves, and what to do after a save, and an object whose concepts are being saved
\* has a node.
RequestInv(r, objects) ==
    /\ r.o <= Len(objects)
    /\ r.pc \in {"cache", "create", "fill"} => r.id \in Ids
    /\ r.pc \in {"fill", "loaded", "store", "save", "children"} => r.o >= 1
    /\ r.pc \in {"save", "children"} => r.then \in {"load", "done"}
    /\ r.pc = "children" => objects[r.o].uid \in Ids

SharedTypes ==
    /\ db \in {"none", "up", "down"}
    /\ inited \in BOOLEAN
    /\ graph \in [Ids -> [exists : BOOLEAN, nodes : SUBSET Concepts]]
    /\ cache \in [Ids -> 0 .. Len(obj)]
    /\ obj \in Seq(Objects)
    /\ Len(obj) >= 1
    /\ restarts \in 0 .. MaxRestarts
    /\ taught \subseteq Threads
    /\ overlap \in BOOLEAN
    /\ cleaned \in BOOLEAN
    /\ clash \in BOOLEAN

TypeInv ==
    /\ SharedTypes
    /\ th \in [Threads -> ThreadRecords]
    /\ \A t \in Threads : RequestInv(th[t], obj)

\* The life of the database: it is shut down by a clean only, inited is never set
\* back, and as long as nothing overlaps one request at a time is active, it opens a
\* database that is not open, and a cleaned database stays down.
OpenInv ==
    /\ db # "none" => inited
    /\ db = "down" => cleaned
    /\ cleaned => inited
    /\ ~overlap =>
           /\ \A s, t \in Threads : Active(s) /\ Active(t) => s = t
           /\ \A t \in Threads : th[t].pc = "open" => ~inited
           /\ cleaned => db = "down" /\ \A t \in Threads : Active(t) => th[t].pc = "load"

\* Objects, while nothing was cleaned: a cached object, and one about to be cached,
\* has a node in the store, and an object that is not filled is being filled, unless
\* a uid clashed.
CacheInv ==
    ~cleaned =>
        /\ \A i \in Ids : cache[i] # None => graph[i].exists
        /\ \A t \in Threads :
               th[t].pc \in {"cache", "create", "fill"} => graph[th[t].id].exists
        /\ ~clash =>
               \A o \in 1 .. Len(obj) :
                   \/ obj[o].filled
                   \/ \E t \in Threads : th[t].pc = "fill" /\ th[t].o = o

\* A node whose object no request is about to replace in the cache.
Firm(i, cached, requests) ==
    /\ cached[i] # None
    /\ \A s \in Threads : ~(requests[s].pc = "create" /\ requests[s].id = i)

\* A save, while nothing was cleaned: the object that is saved has a firm node, and all
\* that the save has written is below firm nodes of that object.
ChildInv ==
    ~cleaned =>
        \A t \in Threads :
            th[t].pc = "children" =>
                /\ Firm(obj[th[t].o].uid, cache, th) /\ cache[obj[th[t].o].uid] = th[t].o
                /\ \A x \in th[t].nodes \ th[t].todo :
                       \E i \in Ids : /\ Firm(i, cache, th) /\ cache[i] = th[t].o
                                      /\ x \in graph[i].nodes

\* The first JVM, while nothing overlaps: every node of the store leads to the default
\* object, no request ever makes another one, and the default object holds what the
\* trainings taught, the one that is about to be saved too.
TaughtInv ==
    ~overlap /\ restarts = 0 =>
        /\ ~cleaned => \A i \in Saved : cache[i] = Defaults
        /\ taught \subseteq obj[Defaults].nodes
        /\ \A t \in Threads :
               /\ th[t].pc \notin {"create", "fill"}
               /\ th[t].pc \in {"loaded", "store", "save", "children"} =>
                      th[t].o = Defaults
               /\ th[t].pc = "store" => obj[Defaults].nodes \cup {t} \subseteq th[t].nodes
               /\ th[t].pc \in {"save", "children"} /\ th[t].then = "done" =>
                      t \in obj[Defaults].nodes

-----------------------------------------------------------------------------
(* Nodes and objects.                                                       *)

\* createNode finds a node that is not used, as long as there is one.
LEMMA FirstFreeIsFree == Free # {} => FirstFree \in Free
<1> SUFFICES ASSUME Free # {} PROVE FirstFree \in Free
  OBVIOUS
<1>1. Free \subseteq Nat
  BY DEF Free, Ids
<1>2. PICK i \in Free : \A j \in Free : ~(<<j, i>> \in OpToRel(<, Nat))
  BY <1>1, NatLessThanWellFounded, WFMin
<1>3. \A j \in Free : i <= j
  <2>1. ASSUME NEW j \in Nat, NEW k \in Nat, j < k
        PROVE  <<j, k>> \in OpToRel(<, Nat)
    BY <2>1, Zenon DEF OpToRel
  <2>2. \A j \in Free : ~(j < i)
    BY <1>1, <1>2, <2>1, Zenon
  <2>3. QED
    BY <1>1, <2>2
<1>4. QED
  BY <1>3 DEF FirstFree

\* A change of one object leaves the others, and the number of objects, alone.
LEMMA ObjectChange ==
    ASSUME NEW s \in Seq(Objects), NEW o \in 1 .. Len(s), NEW e \in Objects
    PROVE  /\ [s EXCEPT ![o] = e] \in Seq(Objects)
           /\ Len([s EXCEPT ![o] = e]) = Len(s)
           /\ [s EXCEPT ![o] = e][o] = e
           /\ \A p \in 1 .. Len(s) : p # o => [s EXCEPT ![o] = e][p] = s[p]
BY ExceptSeq

-----------------------------------------------------------------------------
(* Types.                                                                   *)

LEMMA TypeInvIsStrong == TypeInv => TypeOK
<1> SUFFICES ASSUME TypeInv PROVE TypeOK
  OBVIOUS
<1>1. \A o \in DOMAIN obj : obj[o] \in Objects
  BY DEF TypeInv, SharedTypes
<1>2. ASSUME NEW t \in Threads PROVE ThreadOK(th[t])
  <2>1. th[t] \in ThreadRecords /\ RequestInv(th[t], obj)
    BY DEF TypeInv
  <2>2. th[t].o \in 0 .. Len(obj)
    BY <2>1 DEF ThreadRecords, RequestInv, TypeInv, SharedTypes
  <2>3. QED
    BY <2>1, <2>2 DEF ThreadOK, ThreadRecords, PCs
<1>3. QED
  BY <1>1, <1>2, Zenon DEF TypeOK, TypeInv, SharedTypes, Objects

\* A step of one request, with what it leaves true of the others: objects are never
\* forgotten, and an object that has a node keeps one.
LEMMA RequestStep ==
    ASSUME TypeInv, SharedTypes', NEW t \in Threads,
           NEW r \in ThreadRecords, th' = [th EXCEPT ![t] = r],
           RequestInv(r, obj'),
           Len(obj) <= Len(obj'),
           \A o \in 1 .. Len(obj) : obj[o].uid \in Ids => obj'[o].uid \in Ids
    PROVE  TypeInv'
<1>1. th' \in [Threads -> ThreadRecords]
  BY DEF TypeInv
<1>2. ASSUME NEW s \in Threads PROVE RequestInv(th'[s], obj')
  <2>1. CASE s = t
    BY <2>1 DEF TypeInv
  <2>2. CASE s # t
    <3>1. th'[s] = th[s] /\ RequestInv(th[s], obj) /\ th[s] \in ThreadRecords
      BY <2>2 DEF TypeInv
    <3>2. th[s].o <= Len(obj') /\ Len(obj) \in Nat /\ Len(obj') \in Nat /\ th[s].o \in Nat
      BY <3>1 DEF RequestInv, ThreadRecords, TypeInv, SharedTypes
    <3>3. th[s].pc = "children" => obj'[th[s].o].uid \in Ids
      <4>1. th[s].pc = "children" => th[s].o \in 1 .. Len(obj) /\ obj[th[s].o].uid \in Ids
        BY <3>1, <3>2 DEF RequestInv
      <4>2. QED
        BY <4>1
    <3>4. QED
      BY <3>1, <3>2, <3>3 DEF RequestInv
  <2>3. QED
    BY <2>1, <2>2
<1>3. QED
  BY <1>1, <1>2 DEF TypeInv

\* The same for a step that changes nothing but the record of the request.
LEMMA LocalStep ==
    ASSUME TypeInv, UNCHANGED <<db, inited, graph, cache, obj, history>>,
           NEW t \in Threads, NEW r \in ThreadRecords, th' = [th EXCEPT ![t] = r],
           RequestInv(r, obj)
    PROVE  TypeInv'
<1>1. SharedTypes'
  BY Zenon DEF TypeInv, SharedTypes, history
<1>2. Len(obj) <= Len(obj') /\ \A o \in 1 .. Len(obj) : obj'[o] = obj[o]
  BY DEF TypeInv, SharedTypes
<1>3. RequestInv(r, obj')
  BY Zenon
<1>4. QED
  BY <1>1, <1>2, <1>3, RequestStep

LEMMA TypeInit == Init => TypeInv
<1> SUFFICES ASSUME Init PROVE TypeInv
  OBVIOUS
<1> USE KBAssumption
<1>1. DefaultObject \in Objects
  BY Zenon DEF DefaultObject, Objects, Concepts
<1>2. obj \in Seq(Objects) /\ Len(obj) = 1
  BY <1>1 DEF Init
<1>3. /\ graph \in [Ids -> [exists : BOOLEAN, nodes : SUBSET Concepts]]
      /\ cache \in [Ids -> 0 .. Len(obj)]
  BY <1>2 DEF Init, None
<1>4. SharedTypes
  <2>1. /\ Len(obj) >= 1
        /\ restarts \in 0 .. MaxRestarts
        /\ taught \subseteq Threads
        /\ db \in {"none", "up", "down"}
    BY <1>2 DEF Init
  <2>2. inited \in BOOLEAN /\ overlap \in BOOLEAN /\ cleaned \in BOOLEAN
    BY DEF Init
  <2>3. clash \in BOOLEAN
    BY DEF Init
  <2>4. QED
    BY <1>2, <1>3, <2>1, <2>2, <2>3, Zenon DEF SharedTypes
<1>5. IdleThread \in ThreadRecords /\ RequestInv(IdleThread, obj)
  BY <1>2 DEF IdleThread, ThreadRecords, PCs, RequestInv, None
<1>6. QED
  BY <1>4, <1>5 DEF Init, TypeInv

LEMMA TypeStep == TypeInv /\ [Next]_vars => TypeInv'
<1> SUFFICES ASSUME TypeInv, [Next]_vars PROVE TypeInv'
  OBVIOUS
<1> USE KBAssumption
<1>0. ASSUME NEW t \in Threads
      PROVE  th[t] \in ThreadRecords /\ RequestInv(th[t], obj)
  BY DEF TypeInv
<1>1. ASSUME NEW t \in Threads, Goto(t, th'[t].pc), UNCHANGED obj, SharedTypes',
             \/ th'[t].pc \in {"open", "load"}
             \/ th'[t].pc = "create" /\ th[t].pc = "cache"
      PROVE  TypeInv'
  <2> DEFINE r == [th[t] EXCEPT !.pc = th'[t].pc]
  <2>1. r \in ThreadRecords
    BY <1>0, <1>1 DEF ThreadRecords, PCs
  <2>2. RequestInv(r, obj)
    BY <1>0, <1>1 DEF RequestInv, ThreadRecords
  <2>3. th' = [th EXCEPT ![t] = r]
    BY <1>1, Zenon DEF Goto
  <2>4. RequestInv(r, obj')
    BY <1>1, <2>2, Zenon
  <2>5. Len(obj) <= Len(obj') /\ \A o \in 1 .. Len(obj) : obj'[o] = obj[o]
    BY <1>1 DEF TypeInv, SharedTypes
  <2> HIDE DEF r
  <2>6. QED
    BY <1>1, <2>1, <2>3, <2>4, <2>5, RequestStep
<1>2. ASSUME NEW t \in Threads, NEW x \in PCs, Goto(t, x)
      PROVE  th'[t].pc = x
  BY <1>0, <1>2 DEF Goto, TypeInv, ThreadRecords
<1>e. ASSUME NEW t \in Threads, NEW x \in {"load", "done", "failed"}, End(t, x),
             UNCHANGED obj, SharedTypes'
      PROVE  TypeInv'
  <2> DEFINE r == [IdleThread EXCEPT !.pc = x]
  <2>1. r \in ThreadRecords
    BY DEF IdleThread, ThreadRecords, PCs, None
  <2>2. RequestInv(r, obj')
    BY <1>e DEF IdleThread, RequestInv, None, TypeInv, SharedTypes
  <2>3. th' = [th EXCEPT ![t] = r]
    BY <1>e, Zenon DEF End
  <2>4. Len(obj) <= Len(obj') /\ \A o \in 1 .. Len(obj) : obj'[o] = obj[o]
    BY <1>e DEF TypeInv, SharedTypes
  <2> HIDE DEF r
  <2>5. QED
    BY <1>e, <2>1, <2>2, <2>3, <2>4, RequestStep
<1>3. ASSUME NEW t \in Threads, Begin(t) PROVE TypeInv'
  <2>1. SharedTypes'
    <3>1. overlap' \in BOOLEAN
      BY <1>3, Zenon DEF Begin
    <3>2. QED
      BY <1>3, <3>1, Zenon DEF Begin, TypeInv, SharedTypes
  <2>2. CASE inited
    BY <1>1, <1>2, <1>3, <2>1, <2>2 DEF Begin, PCs
  <2>3. CASE ~inited
    BY <1>1, <1>2, <1>3, <2>1, <2>3 DEF Begin, PCs
  <2>4. QED
    BY <2>2, <2>3
<1>4. ASSUME NEW t \in Threads, Open(t) PROVE TypeInv'
  <2>1. SharedTypes'
    <3>1. db' \in {"none", "up", "down"} /\ inited' \in BOOLEAN
      BY <1>4 DEF Open, Opened, TypeInv, SharedTypes
    <3>2. QED
      BY <1>4, <3>1, Zenon DEF Open, history, TypeInv, SharedTypes
  <2>2. CASE db # "up"
    BY <1>1, <1>2, <1>4, <2>1, <2>2 DEF Open, PCs
  <2>3. CASE db = "up"
    BY <1>e, <1>4, <2>1, <2>3 DEF Open
  <2>4. QED
    BY <2>2, <2>3
<1>5. ASSUME NEW t \in Threads,
             AccessThrows(t) \/ Answer(t) \/ FillObjectThrows(t) \/ CacheMiss(t)
      PROVE  TypeInv'
  <2>1. SharedTypes'
    BY <1>5, Zenon DEF AccessThrows, Answer, FillObjectThrows, CacheMiss, history, TypeInv,
       SharedTypes
  <2>2. CASE CacheMiss(t)
    BY <1>1, <1>2, <2>1, <2>2 DEF CacheMiss, PCs
  <2>3. CASE AccessThrows(t) \/ Answer(t) \/ FillObjectThrows(t)
    BY <1>e, <2>1, <2>3 DEF AccessThrows, Answer, FillObjectThrows
  <2>4. QED
    BY <1>5, <2>2, <2>3
<1>6. ASSUME NEW t \in Threads, NEW i \in Ids, LoadChild(t, i) PROVE TypeInv'
  <2> DEFINE r == [th[t] EXCEPT !.pc = "cache", !.id = i]
  <2>1. th' = [th EXCEPT ![t] = r]
    BY <1>6, Zenon DEF LoadChild
  <2>2. r \in ThreadRecords /\ RequestInv(r, obj)
    BY <1>0 DEF ThreadRecords, PCs, RequestInv
  <2> HIDE DEF r
  <2>3. QED
    BY <1>6, <2>1, <2>2, LocalStep DEF LoadChild
<1>7. ASSUME NEW t \in Threads, NoModel(t) PROVE TypeInv'
  <2> DEFINE r == [th[t] EXCEPT !.pc = "save", !.o = Defaults, !.then = "load"]
  <2>1. th' = [th EXCEPT ![t] = r]
    BY <1>7, Zenon DEF NoModel
  <2>2. r \in ThreadRecords /\ RequestInv(r, obj)
    <3>1. r \in ThreadRecords
      BY <1>0 DEF ThreadRecords, PCs, Defaults
    <3>2. r.pc = "save" /\ r.o = 1 /\ r.then = "load" /\ 1 <= Len(obj)
      BY <1>0 DEF ThreadRecords, Defaults, TypeInv, SharedTypes
    <3>3. QED
      BY <3>1, <3>2 DEF RequestInv
  <2> HIDE DEF r
  <2>3. QED
    BY <1>7, <2>1, <2>2, LocalStep DEF NoModel
<1>8. ASSUME NEW t \in Threads, FromCache(t) PROVE TypeInv'
  <2> DEFINE c == cache[th[t].id]
             r == [th[t] EXCEPT !.pc = "loaded", !.id = None, !.o = c]
  <2>1. th' = [th EXCEPT ![t] = r]
    BY <1>8, Zenon DEF FromCache, Loaded
  <2>2. c \in 1 .. Len(obj) /\ Len(obj) \in Nat
    BY <1>0, <1>8 DEF FromCache, CacheHit, None, RequestInv, TypeInv, SharedTypes
  <2>3. r \in ThreadRecords /\ RequestInv(r, obj)
    <3>1. r \in ThreadRecords
      <4>1. c \in Nat
        BY <2>2
      <4>2. QED
        BY <1>0, <4>1 DEF ThreadRecords, PCs
    <3>2. r.pc = "loaded" /\ r.o = c
      BY <1>0 DEF ThreadRecords
    <3>3. QED
      BY <2>2, <3>1, <3>2 DEF RequestInv
  <2> HIDE DEF r
  <2>4. QED
    BY <1>8, <2>1, <2>3, LocalStep DEF FromCache
<1>9. ASSUME NEW t \in Threads, NewObject(t) PROVE TypeInv'
  <2> DEFINE e == [nodes |-> {}, filled |-> FALSE, uid |-> th[t].id]
             r == [th[t] EXCEPT !.pc = "fill", !.o = Len(obj) + 1]
  <2>1. th' = [th EXCEPT ![t] = r] /\ obj' = Append(obj, e)
    BY <1>9, Zenon DEF NewObject
  <2>2. th[t].id \in Ids /\ obj \in Seq(Objects) /\ Len(obj) \in Nat
    BY <1>0, <1>9 DEF NewObject, RequestInv, TypeInv, SharedTypes
  <2>3. e \in Objects
    BY <2>2 DEF Objects
  <2> HIDE DEF e
  <2>4. /\ obj' \in Seq(Objects) /\ Len(obj') = Len(obj) + 1
        /\ \A o \in 1 .. Len(obj) : obj'[o] = obj[o]
    BY <2>1, <2>2, <2>3
  <2>5. cache' \in [Ids -> 0 .. Len(obj')]
    BY <1>9, <2>2, <2>4 DEF NewObject, TypeInv, SharedTypes
  <2>6. SharedTypes'
    <3>1. Len(obj') >= 1
      BY <2>2, <2>4
    <3>2. QED
      BY <1>9, <2>4, <2>5, <3>1, Zenon DEF NewObject, history, TypeInv, SharedTypes
  <2>7. r \in ThreadRecords /\ RequestInv(r, obj')
    <3>1. r \in ThreadRecords
      <4>1. Len(obj) + 1 \in Nat
        BY <2>2
      <4>2. QED
        BY <1>0, <4>1 DEF ThreadRecords, PCs
    <3>2. r.pc = "fill" /\ r.o = Len(obj) + 1 /\ r.id = th[t].id
      BY <1>0 DEF ThreadRecords
    <3>3. QED
      BY <2>2, <2>4, <3>1, <3>2 DEF RequestInv
  <2> HIDE DEF r
  <2>8. /\ Len(obj) <= Len(obj')
        /\ \A o \in 1 .. Len(obj) : obj[o].uid \in Ids => obj'[o].uid \in Ids
    BY <2>2, <2>4
  <2>9. QED
    BY <2>1, <2>6, <2>7, <2>8, RequestStep
<1>10. ASSUME NEW t \in Threads, NEW o \in 1 .. Len(obj), NEW e \in Objects,
              obj' = [obj EXCEPT ![o] = e], obj[o].uid \in Ids => e.uid \in Ids
       PROVE  /\ obj' \in Seq(Objects) /\ Len(obj') = Len(obj) /\ Len(obj') >= 1
              /\ \A p \in 1 .. Len(obj) : obj[p].uid \in Ids => obj'[p].uid \in Ids
              /\ UNCHANGED <<db, inited, graph, cache, history>> => SharedTypes'
  <2>1. obj \in Seq(Objects) /\ Len(obj) >= 1
    BY DEF TypeInv, SharedTypes
  <2>2. /\ obj' \in Seq(Objects) /\ Len(obj') = Len(obj)
        /\ obj'[o] = e /\ \A p \in 1 .. Len(obj) : p # o => obj'[p] = obj[p]
    <3>1. \A s \in Seq(Objects) : s = obj =>
              /\ [s EXCEPT ![o] = e] \in Seq(Objects)
              /\ Len([s EXCEPT ![o] = e]) = Len(s)
              /\ [s EXCEPT ![o] = e][o] = e
              /\ \A p \in 1 .. Len(s) : p # o => [s EXCEPT ![o] = e][p] = s[p]
      BY ObjectChange
    <3>2. QED
      BY <1>10, <2>1, <3>1
  <2>3. \A p \in 1 .. Len(obj) : obj[p].uid \in Ids => obj'[p].uid \in Ids
    BY <1>10, <2>2, Zenon
  <2>4. ASSUME UNCHANGED <<db, inited, graph, cache, history>> PROVE SharedTypes'
    <3>1. Len(obj') >= 1 /\ cache' \in [Ids -> 0 .. Len(obj')]
      BY <2>1, <2>2, <2>4, Zenon DEF TypeInv, SharedTypes
    <3>2. QED
      BY <2>2, <2>4, <3>1, Zenon DEF history, TypeInv, SharedTypes
  <2>5. QED
    BY <2>1, <2>2, <2>3, <2>4
<1>11. ASSUME NEW t \in Threads, FillObject(t) PROVE TypeInv'
  <2> DEFINE o == th[t].o
             e == [obj[o] EXCEPT !.nodes = graph[th[t].id].nodes, !.filled = TRUE]
  <2>1. o \in 1 .. Len(obj) /\ th[t].id \in Ids /\ obj[o] \in Objects
    BY <1>0, <1>11 DEF FillObject, RequestInv, ThreadRecords, TypeInv, SharedTypes
  <2>2. e \in Objects /\ e.uid = obj[o].uid
    BY <2>1 DEF Objects, TypeInv, SharedTypes
  <2>3. obj' = [obj EXCEPT ![o] = e]
    BY <1>11, Zenon DEF FillObject
  <2> HIDE DEF e
  <2>4. /\ Len(obj') = Len(obj) /\ SharedTypes'
        /\ \A p \in 1 .. Len(obj) : obj[p].uid \in Ids => obj'[p].uid \in Ids
    BY <1>10, <1>11, <2>1, <2>2, <2>3 DEF FillObject
  <2> DEFINE r == [th[t] EXCEPT !.pc = "loaded", !.id = None, !.o = o]
  <2>5. th' = [th EXCEPT ![t] = r]
    BY <1>11, Zenon DEF FillObject, Loaded
  <2>6. r \in ThreadRecords /\ RequestInv(r, obj')
    <3>1. r \in ThreadRecords
      BY <1>0 DEF ThreadRecords, PCs
    <3>2. r.pc = "loaded" /\ r.o = o
      BY <1>0 DEF ThreadRecords
    <3>3. o <= Len(obj') /\ o >= 1
      BY <2>1, <2>4 DEF TypeInv, SharedTypes
    <3> HIDE DEF r
    <3>4. QED
      BY <3>1, <3>2, <3>3 DEF RequestInv
  <2> HIDE DEF r
  <2>7. Len(obj) <= Len(obj')
    BY <2>4 DEF TypeInv, SharedTypes
  <2>8. QED
    BY <2>4, <2>5, <2>6, <2>7, RequestStep
<1>12. ASSUME NEW t \in Threads, Learn(t) PROVE TypeInv'
  <2>0. SharedTypes'
    <3>1. clash' \in BOOLEAN
      BY <1>12 DEF Learn, TypeInv, SharedTypes
    <3>2. QED
      BY <1>12, <3>1, Zenon DEF Learn, TypeInv, SharedTypes
  <2>1. CASE obj[th[t].o].filled
    <3> DEFINE r == [th[t] EXCEPT !.pc = "store", !.nodes = Extended(t)]
    <3>1. th' = [th EXCEPT ![t] = r]
      BY <1>12, <2>1, Zenon DEF Learn
    <3>2. obj[th[t].o] \in Objects
      BY <1>0, <1>12 DEF Learn, RequestInv, ThreadRecords, TypeInv, SharedTypes
    <3>3. Extended(t) \subseteq Concepts
      BY <1>12, <3>2 DEF Learn, Extended, Objects, Concepts
    <3>4. r \in ThreadRecords /\ RequestInv(r, obj)
      BY <1>0, <1>12, <3>3 DEF Learn, ThreadRecords, PCs, RequestInv
    <3> HIDE DEF r
    <3>5. obj' = obj /\ Len(obj) <= Len(obj')
      BY <1>12 DEF Learn, TypeInv, SharedTypes
    <3>6. RequestInv(r, obj')
      BY <3>4, <3>5, Zenon
    <3>7. QED
      BY <2>0, <3>1, <3>4, <3>5, <3>6, RequestStep
  <2>2. CASE ~obj[th[t].o].filled
    BY <1>e, <1>12, <2>0, <2>2 DEF Learn
  <2>3. QED
    BY <2>1, <2>2
<1>13. ASSUME NEW t \in Threads, StoreNodes(t) PROVE TypeInv'
  <2> DEFINE o == th[t].o
             e == [obj[o] EXCEPT !.nodes = th[t].nodes]
             r == [th[t] EXCEPT !.pc = "save", !.then = "done"]
  <2>1. o \in 1 .. Len(obj) /\ obj[o] \in Objects
    BY <1>0, <1>13 DEF StoreNodes, RequestInv, ThreadRecords, TypeInv, SharedTypes
  <2>2. e \in Objects /\ e.uid = obj[o].uid
    BY <1>0, <2>1 DEF Objects, ThreadRecords
  <2>3. obj' = [obj EXCEPT ![o] = e] /\ th' = [th EXCEPT ![t] = r]
    BY <1>13, Zenon DEF StoreNodes
  <2> HIDE DEF e
  <2>4. /\ Len(obj') = Len(obj) /\ SharedTypes'
        /\ \A p \in 1 .. Len(obj) : obj[p].uid \in Ids => obj'[p].uid \in Ids
    BY <1>10, <1>13, <2>1, <2>2, <2>3 DEF StoreNodes
  <2>5. r \in ThreadRecords /\ RequestInv(r, obj')
    <3>1. r \in ThreadRecords
      BY <1>0 DEF ThreadRecords, PCs
    <3>2. r.pc = "save" /\ r.o = o /\ r.then = "done"
      BY <1>0 DEF ThreadRecords
    <3>3. QED
      BY <2>1, <2>4, <3>1, <3>2 DEF RequestInv
  <2> HIDE DEF r
  <2>6. Len(obj) <= Len(obj')
    BY <2>4 DEF TypeInv, SharedTypes
  <2>7. QED
    BY <2>3, <2>4, <2>5, <2>6, RequestStep
<1>14. ASSUME NEW t \in Threads, SaveNetwork(t) PROVE TypeInv'
  <2> DEFINE o == th[t].o
             i == NodeFor(o)
             e == [obj[o] EXCEPT !.uid = i]
             r == [th[t] EXCEPT !.pc = "children", !.nodes = obj[o].nodes,
                                !.todo = obj[o].nodes]
  <2>1. o \in 1 .. Len(obj) /\ obj[o] \in Objects
    BY <1>0, <1>14 DEF SaveNetwork, RequestInv, ThreadRecords, TypeInv, SharedTypes
  <2>2. i \in Ids
    BY <1>14, FirstFreeIsFree DEF SaveNetwork, NodeFor, Free
  <2>3. /\ obj' = [obj EXCEPT ![o] = e] /\ th' = [th EXCEPT ![t] = r]
        /\ graph' = [graph EXCEPT ![i] = [exists |-> TRUE, nodes |-> {}]]
        /\ cache' = [cache EXCEPT ![i] = o]
    BY <1>14, Zenon DEF SaveNetwork
  <2> HIDE DEF i
  <2>4. e \in Objects /\ e.uid = i
    BY <2>1, <2>2 DEF Objects
  <2> HIDE DEF e
  <2>5. /\ obj' \in Seq(Objects) /\ Len(obj') = Len(obj) /\ Len(obj') >= 1
        /\ \A p \in 1 .. Len(obj) : obj[p].uid \in Ids => obj'[p].uid \in Ids
        /\ obj'[o] = e
    BY <1>10, <2>1, <2>2, <2>3, <2>4 DEF TypeInv, SharedTypes
  <2>6. /\ graph' \in [Ids -> [exists : BOOLEAN, nodes : SUBSET Concepts]]
        /\ cache' \in [Ids -> 0 .. Len(obj')]
    BY <2>1, <2>2, <2>3, <2>5 DEF TypeInv, SharedTypes
  <2>7. SharedTypes'
    BY <1>14, <2>5, <2>6, Zenon DEF SaveNetwork, history, TypeInv, SharedTypes
  <2>8. r \in ThreadRecords /\ RequestInv(r, obj')
    <3>1. obj[o].nodes \subseteq Concepts
      BY <2>1 DEF Objects
    <3>2. r \in ThreadRecords
      BY <1>0, <3>1 DEF ThreadRecords, PCs
    <3>3. r.pc = "children" /\ r.o = o /\ r.then = th[t].then
      BY <1>0 DEF ThreadRecords
    <3>4. th[t].then \in {"load", "done"}
      BY <1>0, <1>14 DEF SaveNetwork, RequestInv
    <3>5. QED
      BY <2>1, <2>2, <2>4, <2>5, <3>2, <3>3, <3>4 DEF RequestInv
  <2> HIDE DEF r
  <2>9. Len(obj) <= Len(obj')
    BY <2>5 DEF TypeInv, SharedTypes
  <2>10. QED
    BY <2>3, <2>5, <2>7, <2>8, <2>9, RequestStep
<1>c. ASSUME NEW t \in Threads, NEW x \in Concepts, th[t].pc = "children",
             graph' \in {graph, WithChild(obj[th[t].o].uid, x)},
             UNCHANGED <<db, inited, cache, obj, history>>
      PROVE  SharedTypes'
  <2> DEFINE i == obj[th[t].o].uid
  <2>1. i \in Ids
    BY <1>0, <1>c DEF RequestInv
  <2>2. graph' \in [Ids -> [exists : BOOLEAN, nodes : SUBSET Concepts]]
    <3>1. [graph[i] EXCEPT !.nodes = @ \cup {x}] \in [exists : BOOLEAN, nodes : SUBSET Concepts]
      BY <2>1 DEF TypeInv, SharedTypes
    <3>2. graph' = graph \/ graph' = [graph EXCEPT ![i] = [graph[i] EXCEPT !.nodes = @ \cup {x}]]
      BY <1>c DEF WithChild
    <3>3. graph \in [Ids -> [exists : BOOLEAN, nodes : SUBSET Concepts]]
      BY DEF TypeInv, SharedTypes
    <3>4. QED
      BY <2>1, <3>1, <3>2, <3>3
  <2>3. QED
    BY <1>c, <2>2, Zenon DEF history, TypeInv, SharedTypes
<1>15. ASSUME NEW t \in Threads, NEW x \in Concepts,
              SaveChild(t, x) \/ SaveChildThrows(t, x)
       PROVE  TypeInv'
  <2>1. SharedTypes' /\ obj' = obj
    BY <1>c, <1>15 DEF SaveChild, SaveChildThrows
  <2>2. CASE SaveChildThrows(t, x)
    BY <1>e, <2>1, <2>2 DEF SaveChildThrows
  <2>3. CASE SaveChild(t, x)
    <3> DEFINE r == [th[t] EXCEPT !.todo = @ \ {x}]
    <3>1. th' = [th EXCEPT ![t] = r]
      BY <2>3, Zenon DEF SaveChild
    <3>2. r \in ThreadRecords /\ RequestInv(r, obj')
      BY <1>0, <2>1 DEF ThreadRecords, RequestInv
    <3> HIDE DEF r
    <3>3. Len(obj) <= Len(obj')
      BY <2>1 DEF TypeInv, SharedTypes
    <3>4. QED
      BY <2>1, <3>1, <3>2, <3>3, RequestStep
  <2>4. QED
    BY <1>15, <2>2, <2>3
<1>16. ASSUME NEW t \in Threads, EndSave(t) PROVE TypeInv'
  <2>1. taught' \subseteq Threads
    BY <1>16 DEF EndSave, TypeInv, SharedTypes
  <2>2. SharedTypes'
    BY <1>16, <2>1, Zenon DEF EndSave, TypeInv, SharedTypes
  <2>3. th[t].then \in {"load", "done"}
    BY <1>0, <1>16 DEF EndSave, RequestInv
  <2>4. QED
    BY <1>e, <1>16, <2>2, <2>3 DEF EndSave
<1>17. CASE CleanDatabase
  <2>1. graph' \in [Ids -> [exists : BOOLEAN, nodes : SUBSET Concepts]]
    BY <1>17 DEF CleanDatabase
  <2>2. overlap' \in BOOLEAN
    BY <1>17, Zenon DEF CleanDatabase
  <2>3. db' \in {"none", "up", "down"} /\ inited' \in BOOLEAN /\ cleaned' \in BOOLEAN
    BY <1>17 DEF CleanDatabase, Reopen
  <2>4. UNCHANGED <<cache, obj, th, restarts, taught, clash>>
    BY <1>17 DEF CleanDatabase
  <2>5. QED
    BY <2>1, <2>2, <2>3, <2>4, Zenon DEF TypeInv, SharedTypes
<1>18. CASE RestartJVM
  <2>1. DefaultObject \in Objects
    BY Zenon DEF DefaultObject, Objects, Concepts
  <2>2. obj' \in Seq(Objects) /\ Len(obj') = 1 /\ Len(obj') >= 1
    BY <1>18, <2>1 DEF RestartJVM
  <2>3. cache' \in [Ids -> 0 .. Len(obj')]
    BY <1>18, <2>2 DEF RestartJVM, None
  <2>4. restarts' \in 0 .. MaxRestarts /\ taught' \subseteq Threads /\ db' \in {"none", "up", "down"}
    BY <1>18 DEF RestartJVM, TypeInv, SharedTypes
  <2>5. inited' \in BOOLEAN /\ overlap' \in BOOLEAN /\ cleaned' \in BOOLEAN
    BY <1>18 DEF RestartJVM
  <2>6. graph' = graph /\ clash' = clash
    BY <1>18 DEF RestartJVM
  <2>7. SharedTypes'
    BY <2>2, <2>3, <2>4, <2>5, <2>6, Zenon DEF TypeInv, SharedTypes
  <2>8. ASSUME NEW t \in Threads
        PROVE  th'[t] \in ThreadRecords /\ RequestInv(th'[t], obj')
    <3>1. \E x \in {"idle", "done", "failed"} : th'[t] = [IdleThread EXCEPT !.pc = x]
      BY <1>0, <1>18 DEF RestartJVM, Active
    <3>2. QED
      BY <2>2, <3>1 DEF IdleThread, ThreadRecords, PCs, RequestInv, None
  <2>9. th' \in [Threads -> ThreadRecords]
    <3>1. th' = [t \in Threads |-> th'[t]]
      BY <1>18 DEF RestartJVM
    <3>2. QED
      BY <2>8, <3>1
  <2>10. QED
    BY <2>7, <2>8, <2>9 DEF TypeInv
<1>19. CASE UNCHANGED vars
  BY <1>19, Zenon DEF vars, history, TypeInv, SharedTypes
<1>20. QED
  BY <1>3, <1>4, <1>5, <1>6, <1>7, <1>8, <1>9, <1>11, <1>12, <1>13, <1>14, <1>15,
     <1>16, <1>17, <1>18, <1>19 DEF Next, Load, Train, Save

\* The state always has its types; in particular a request never saves below a node
\* that has no id and never touches an object that is not there.
THEOREM TypeCorrect == Spec => []TypeOK
BY TypeInit, TypeStep, TypeInvIsStrong, PTL DEF Spec

-----------------------------------------------------------------------------
(* What a step of a request does.                                           *)

Step(t) ==
    \/ Begin(t)
    \/ Open(t)
    \/ AccessThrows(t)
    \/ Load(t)
    \/ Train(t)
    \/ Save(t)

\* A step is one of a request, a clean, a restart or nothing.
LEMMA NextCases ==
    ASSUME [Next]_vars
    PROVE  (\E t \in Threads : Step(t)) \/ CleanDatabase \/ RestartJVM \/ UNCHANGED vars
BY DEF Next, Step

\* A training that adds its nodes goes on with the same object, another one ends.
LEMMA LearnMoves ==
    ASSUME TypeInv, NEW t \in Threads, Learn(t)
    PROVE  /\ \A s \in Threads : s # t => th'[s] = th[s]
           /\ obj[th[t].o].filled =>
                  th'[t] = [th[t] EXCEPT !.pc = "store", !.nodes = Extended(t)]
           /\ ~obj[th[t].o].filled => th'[t] = [IdleThread EXCEPT !.pc = "failed"]
           /\ th'[t].pc \in {"store", "failed"}
<1>1. th[t] \in ThreadRecords /\ th \in [Threads -> ThreadRecords]
  BY DEF TypeInv
<1>2. CASE obj[th[t].o].filled
  <2> DEFINE r == [th[t] EXCEPT !.pc = "store", !.nodes = Extended(t)]
  <2>1. th' = [th EXCEPT ![t] = r]
    BY <1>2, Zenon DEF Learn
  <2>2. r.pc = "store"
    BY <1>1 DEF ThreadRecords
  <2> HIDE DEF r
  <2>3. th'[t] = r /\ \A s \in Threads : s # t => th'[s] = th[s]
    BY <1>1, <2>1
  <2>4. QED
    BY <1>2, <2>2, <2>3 DEF r
<1>3. CASE ~obj[th[t].o].filled
  <2> DEFINE r == [IdleThread EXCEPT !.pc = "failed"]
  <2>1. th' = [th EXCEPT ![t] = r]
    BY <1>3, Zenon DEF Learn, End
  <2>2. r.pc = "failed"
    BY DEF IdleThread
  <2> HIDE DEF r
  <2>3. th'[t] = r /\ \A s \in Threads : s # t => th'[s] = th[s]
    BY <1>1, <2>1
  <2>4. QED
    BY <1>3, <2>2, <2>3 DEF r
<1>4. QED
  BY <1>2, <1>3

\* A step of a request leaves the others where they are.
LEMMA OthersStay ==
    ASSUME TypeInv, NEW t \in Threads, Step(t)
    PROVE  /\ \A s \in Threads : s # t => th'[s] = th[s]
           /\ restarts' = restarts /\ cleaned' = cleaned
           /\ clash => clash'
<1> USE DEF TypeInv
<1>1. CASE Begin(t)
  BY <1>1 DEF Begin, Goto
<1>2. CASE Open(t)
  BY <1>2 DEF Open, Goto, End, IdleThread, history
<1>3. CASE AccessThrows(t)
  BY <1>3 DEF AccessThrows, End, IdleThread, history
<1>4. CASE Load(t)
  BY <1>4 DEF Load, LoadChild, NoModel, FromCache, CacheMiss, NewObject, FillObject,
     FillObjectThrows, Goto, End, Loaded, IdleThread, history
<1>5. CASE Train(t)
  <2>1. CASE StoreNodes(t) \/ Answer(t)
    BY <2>1 DEF StoreNodes, Answer, End, IdleThread, history
  <2>2. CASE Learn(t)
    <3>1. (clash => clash') /\ restarts' = restarts /\ cleaned' = cleaned
      BY <2>2 DEF Learn
    <3>2. \A s \in Threads : s # t => th'[s] = th[s]
      BY <2>2, LearnMoves
    <3>3. QED
      BY <3>1, <3>2
  <2>3. QED
    BY <1>5, <2>1, <2>2 DEF Train
<1>6. CASE Save(t)
  BY <1>6 DEF Save, SaveNetwork, SaveChild, SaveChildThrows, EndSave, End, IdleThread,
     history
<1>7. QED
  BY <1>1, <1>2, <1>3, <1>4, <1>5, <1>6 DEF Step

\* Every step but the first is one of an active request, and only the first step can
\* notice that requests overlap.
LEMMA ActiveSteps ==
    ASSUME TypeInv, NEW t \in Threads, Step(t), ~Begin(t)
    PROVE  /\ Active(t)
           /\ overlap' = overlap
           /\ th'[t].pc # "open"
           /\ ~Open(t) => db' = db /\ inited' = inited
           /\ th[t].pc = "load" /\ db = "down" => th'[t].pc = "failed"
<1> USE DEF TypeInv, ThreadRecords
<1>1. CASE Open(t)
  BY <1>1 DEF Open, Goto, End, IdleThread, history, Active
<1>2. CASE AccessThrows(t)
  BY <1>2 DEF AccessThrows, End, IdleThread, history, Active
<1>3. CASE Load(t)
  BY <1>3 DEF Load, LoadChild, NoModel, FromCache, CacheMiss, NewObject, FillObject,
     FillObjectThrows, Goto, End, Loaded, IdleThread, history, Active
<1>4. CASE Train(t)
  <2>1. CASE StoreNodes(t) \/ Answer(t)
    BY <2>1 DEF StoreNodes, Answer, End, IdleThread, history, Active
  <2>2. CASE Learn(t)
    <3>1. th[t].pc = "loaded" /\ overlap' = overlap /\ db' = db /\ inited' = inited
      BY <2>2 DEF Learn
    <3>2. QED
      BY <2>2, <3>1, LearnMoves DEF Active
  <2>3. QED
    BY <1>4, <2>1, <2>2 DEF Train
<1>5. CASE Save(t)
  <2>1. /\ th[t].pc \in {"save", "children"} /\ overlap' = overlap
        /\ db' = db /\ inited' = inited
    BY <1>5 DEF Save, SaveNetwork, SaveChild, SaveChildThrows, EndSave, history
  <2>2. th'[t].pc # "open"
    <3>1. CASE EndSave(t)
      <4>1. th[t].then \in {"load", "done"}
        BY <3>1 DEF EndSave, RequestInv
      <4>2. QED
        BY <3>1, <4>1 DEF EndSave, End, IdleThread
    <3>2. CASE SaveNetwork(t)
      BY <3>2 DEF SaveNetwork
    <3>3. CASE \E x \in Concepts : SaveChild(t, x) \/ SaveChildThrows(t, x)
      BY <3>3 DEF SaveChild, SaveChildThrows, End, IdleThread
    <3>4. QED
      BY <1>5, <3>1, <3>2, <3>3 DEF Save
  <2>3. QED
    BY <2>1, <2>2 DEF Active
<1>6. QED
  BY <1>1, <1>2, <1>3, <1>4, <1>5 DEF Step

\* The steps that lead to a load, to a save and to a failure.
LEMMA Leads ==
    ASSUME TypeInv, NEW t \in Threads, Step(t)
    PROVE  /\ th'[t].pc = "cache" => \E i \in Ids : LoadChild(t, i)
           /\ th'[t].pc = "create" => CacheMiss(t)
           /\ th'[t].pc = "fill" => NewObject(t)
           /\ th'[t].pc = "children" =>
                  SaveNetwork(t) \/ \E x \in Concepts : SaveChild(t, x)
           /\ th'[t].pc = "failed" =>
                  \/ Open(t) \/ AccessThrows(t) \/ FillObjectThrows(t) \/ Learn(t)
                  \/ \E x \in Concepts : SaveChildThrows(t, x)
<1>0. th[t] \in ThreadRecords /\ RequestInv(th[t], obj)
  BY DEF TypeInv
<1> USE DEF TypeInv, ThreadRecords
<1>1. CASE Begin(t)
  <2>1. th'[t].pc \in {"load", "open"}
    BY <1>0, <1>1 DEF Begin, Goto
  <2>2. QED
    BY <2>1
<1>2. CASE Open(t) \/ AccessThrows(t) \/ FillObjectThrows(t)
  <2>1. th'[t].pc \in {"load", "failed"}
    BY <1>0, <1>2 DEF Open, AccessThrows, FillObjectThrows, Goto, End, IdleThread
  <2>2. QED
    BY <1>2, <2>1
<1>3. CASE NoModel(t) \/ FromCache(t) \/ FillObject(t) \/ StoreNodes(t) \/ Answer(t)
  <2>1. th'[t].pc \in {"save", "loaded", "done"}
    BY <1>0, <1>3 DEF NoModel, FromCache, FillObject, StoreNodes, Answer, Loaded, End,
       IdleThread
  <2>2. QED
    BY <2>1
<1>4. ASSUME NEW i \in Ids, LoadChild(t, i) PROVE th'[t].pc = "cache"
  BY <1>0, <1>4 DEF LoadChild
<1>5. CASE CacheMiss(t)
  <2>1. th'[t].pc = "create"
    BY <1>0, <1>5 DEF CacheMiss, Goto
  <2>2. QED
    BY <1>5, <2>1
<1>6. CASE NewObject(t)
  <2>1. th'[t].pc = "fill"
    BY <1>0, <1>6 DEF NewObject
  <2>2. QED
    BY <1>6, <2>1
<1>7. CASE Learn(t)
  BY <1>7, LearnMoves
<1>8. CASE SaveNetwork(t)
  <2>1. th'[t].pc = "children"
    BY <1>0, <1>8 DEF SaveNetwork
  <2>2. QED
    BY <1>8, <2>1
<1>9. ASSUME NEW x \in Concepts, SaveChild(t, x) PROVE th'[t].pc = "children"
  BY <1>0, <1>9 DEF SaveChild
<1>10. ASSUME NEW x \in Concepts, SaveChildThrows(t, x) PROVE th'[t].pc = "failed"
  BY <1>0, <1>10 DEF SaveChildThrows, End, IdleThread
<1>11. CASE EndSave(t)
  <2>1. th'[t].pc \in {"load", "done"}
    BY <1>0, <1>11 DEF EndSave, End, IdleThread, RequestInv
  <2>2. QED
    BY <2>1
<1>12. QED
  BY <1>1, <1>2, <1>3, <1>4, <1>5, <1>6, <1>7, <1>8, <1>9, <1>10, <1>11
     DEF Step, Load, Train, Save

\* The first step.
LEMMA BeginStep ==
    ASSUME TypeInv, NEW t \in Threads, Begin(t)
    PROVE  /\ ~Active(t)
           /\ th'[t].pc = IF inited THEN "load" ELSE "open"
           /\ overlap' = (overlap \/ \E s \in Threads : Active(s))
           /\ UNCHANGED <<db, inited, graph, cache, obj, restarts, taught, cleaned>>
BY DEF Begin, Goto, Active, TypeInv, ThreadRecords

\* Requests only add to the store.
LEMMA StoreGrows ==
    ASSUME TypeInv, NEW t \in Threads, Step(t), NEW i \in Ids, graph[i].exists
    PROVE  graph'[i].exists /\ graph[i].nodes \subseteq graph'[i].nodes
<1>1. CASE graph' = graph
  BY <1>1
<1>2. CASE SaveNetwork(t)
  <2>1. FirstFree \in Ids /\ ~graph[FirstFree].exists
    BY <1>2, FirstFreeIsFree DEF SaveNetwork, Free, Saved
  <2>2. graph'[i] = graph[i]
    BY <1>2, <2>1 DEF SaveNetwork, NodeFor, TypeInv, SharedTypes
  <2>3. QED
    BY <2>2
<1>3. ASSUME NEW x \in Concepts, SaveChild(t, x) \/ SaveChildThrows(t, x)
      PROVE  graph'[i].exists /\ graph[i].nodes \subseteq graph'[i].nodes
  <2> DEFINE j == obj[th[t].o].uid
  <2>1. CASE graph' = [graph EXCEPT ![j].nodes = @ \cup {x}]
    <3>1. CASE i = j
      <4>1. graph[i] \in [exists : BOOLEAN, nodes : SUBSET Concepts]
        BY DEF TypeInv, SharedTypes
      <4>2. graph'[i] = [graph[i] EXCEPT !.nodes = @ \cup {x}]
        BY <2>1, <3>1 DEF TypeInv, SharedTypes
      <4>3. QED
        BY <4>1, <4>2
    <3>2. CASE i # j
      <4>1. graph'[i] = graph[i]
        BY <2>1, <3>2 DEF TypeInv, SharedTypes
      <4>2. QED
        BY <4>1
    <3>3. QED
      BY <3>1, <3>2
  <2>2. QED
    BY <1>1, <1>3, <2>1 DEF SaveChild, SaveChildThrows, WithChild
<1>4. CASE Begin(t) \/ Open(t) \/ AccessThrows(t) \/ Load(t) \/ Train(t) \/ EndSave(t)
  BY <1>1, <1>4 DEF Begin, Open, AccessThrows, Load, LoadChild, NoModel, FromCache,
     CacheMiss, NewObject, FillObject, FillObjectThrows, Train, Learn, StoreNodes, Answer,
     EndSave
<1>5. QED
  BY <1>2, <1>3, <1>4 DEF Step, Save

\* What is in the store stays there, however many trainings save at the same time and
\* wherever a JVM ends: only cleanDatabase removes it (saveResource).
THEOREM StoreIsKept == Spec => StoreOnlyGrows
<1> DEFINE Grows == \A i \in Ids :
                        graph[i].exists /\ cleaned' = cleaned =>
                            graph'[i].exists /\ graph[i].nodes \subseteq graph'[i].nodes
<1>1. TypeInv /\ [Next]_vars => Grows
  <2> SUFFICES ASSUME TypeInv, [Next]_vars, NEW i \in Ids, graph[i].exists,
                      cleaned' = cleaned
               PROVE  graph'[i].exists /\ graph[i].nodes \subseteq graph'[i].nodes
    OBVIOUS
  <2>1. CASE \E t \in Threads : Step(t)
    BY <2>1, StoreGrows
  <2>2. CASE CleanDatabase
    <3>1. ~cleaned /\ cleaned'
      BY <2>2 DEF CleanDatabase
    <3>2. QED
      BY <3>1
  <2>3. CASE RestartJVM
    BY <2>3 DEF RestartJVM
  <2>4. CASE UNCHANGED vars
    BY <2>4 DEF vars, history
  <2>5. QED
    BY <2>1, <2>2, <2>3, <2>4, NextCases
<1>2. QED
  BY <1>1, TypeInit, TypeStep, PTL DEF Spec, StoreOnlyGrows

-----------------------------------------------------------------------------
(* The database, and requests that are alone.                               *)

LEMMA OpenInit == Init => OpenInv
BY DEF Init, OpenInv, IdleThread, Active

\* After a restart no request is active.
LEMMA RestartEndsAll ==
    ASSUME RestartJVM, NEW t \in Threads
    PROVE  th'[t].pc \in {"idle", "done", "failed"} /\ ~Active(t)'
<1>1. th'[t].pc \in {"idle", "done", "failed"}
  <2>1. CASE Active(t)
    <3>1. th'[t] = [IdleThread EXCEPT !.pc = "failed"]
      BY <2>1 DEF RestartJVM
    <3>2. QED
      BY <3>1 DEF IdleThread
  <2>2. CASE ~Active(t)
    <3>1. th'[t] = [IdleThread EXCEPT !.pc = th[t].pc]
      BY <2>2 DEF RestartJVM
    <3>2. QED
      BY <2>2, <3>1 DEF IdleThread, Active
  <2>3. QED
    BY <2>1, <2>2
<1>2. QED
  BY <1>1 DEF Active

LEMMA OpenStep == TypeInv /\ OpenInv /\ [Next]_vars => OpenInv'
<1> SUFFICES ASSUME TypeInv, OpenInv, [Next]_vars PROVE OpenInv'
  OBVIOUS
<1>1. ASSUME NEW t \in Threads, Begin(t) PROVE OpenInv'
  <2>1. /\ ~Active(t)
        /\ th'[t].pc = IF inited THEN "load" ELSE "open"
        /\ overlap' = (overlap \/ \E s \in Threads : Active(s))
        /\ UNCHANGED <<db, inited, cleaned>>
        /\ \A s \in Threads : s # t => th'[s] = th[s]
    BY <1>1, BeginStep, OthersStay DEF Step
  <2>2. ASSUME ~overlap'
        PROVE  /\ \A s \in Threads : s # t => ~Active(s)'
               /\ cleaned' => db' = "down" /\ th'[t].pc = "load"
    <3>1. ~overlap /\ \A s \in Threads : ~Active(s)
      BY <2>1, <2>2
    <3>2. ASSUME NEW s \in Threads, s # t PROVE ~Active(s)'
      <4>1. th'[s] = th[s] /\ ~Active(s)
        BY <2>1, <3>1, <3>2
      <4>2. QED
        BY <4>1 DEF Active
    <3>3. QED
      BY <2>1, <3>1, <3>2 DEF OpenInv
  <2>3. \A s \in Threads : th'[s].pc = "open" => Active(s)'
    BY DEF Active
  <2>4. QED
    BY <2>1, <2>2, <2>3 DEF OpenInv
<1>2. ASSUME NEW t \in Threads, Step(t), ~Begin(t) PROVE OpenInv'
  <2>1. /\ Active(t) /\ overlap' = overlap /\ cleaned' = cleaned
        /\ th'[t].pc # "open"
        /\ ~Open(t) => db' = db /\ inited' = inited
        /\ th[t].pc = "load" /\ db = "down" => th'[t].pc = "failed"
        /\ \A s \in Threads : s # t => th'[s] = th[s]
    BY <1>2, ActiveSteps, OthersStay
  <2>2. /\ db' # "none" => inited'
        /\ db' = "down" => db = "down"
        /\ inited => inited'
    <3>1. CASE Open(t)
      BY <3>1 DEF Open, Opened, OpenInv
    <3>2. CASE ~Open(t)
      BY <2>1, <3>2 DEF OpenInv
    <3>3. QED
      BY <3>1, <3>2
  <2>3. ASSUME ~overlap
        PROVE  /\ \A s \in Threads : Active(s)' => s = t
               /\ \A s \in Threads : th'[s].pc # "open"
               /\ cleaned => db' = "down" /\ ~Active(t)'
    <3>1. ASSUME NEW s \in Threads, s # t PROVE ~Active(s)' /\ th'[s].pc # "open"
      <4>1. ~Active(s) /\ th'[s] = th[s]
        BY <2>1, <2>3, <3>1 DEF OpenInv
      <4>2. QED
        BY <4>1 DEF Active
    <3>2. ASSUME cleaned PROVE db' = "down" /\ ~Active(t)'
      <4>1. th[t].pc = "load" /\ db = "down"
        BY <2>1, <2>3, <3>2 DEF OpenInv
      <4>2. ~Open(t)
        BY <4>1 DEF Open
      <4>3. QED
        BY <2>1, <4>1, <4>2 DEF Active
    <3>3. QED
      BY <2>1, <3>1, <3>2
  <2>4. QED
    BY <2>1, <2>2, <2>3 DEF OpenInv
<1>3. CASE CleanDatabase
  <2>1. /\ db' = "down" /\ inited' /\ cleaned' /\ th' = th
        /\ overlap' = (overlap \/ \E s \in Threads : Active(s))
    BY <1>3 DEF CleanDatabase, Reopen
  <2>2. ~overlap' => \A s \in Threads : ~Active(s)'
    BY <2>1 DEF Active
  <2>3. \A s \in Threads : th'[s].pc = "open" => Active(s)'
    BY DEF Active
  <2>4. QED
    BY <2>1, <2>2, <2>3 DEF OpenInv
<1>4. CASE RestartJVM
  <2>1. db' = "none" /\ ~cleaned'
    BY <1>4 DEF RestartJVM
  <2>2. \A s \in Threads : ~Active(s)' /\ th'[s].pc # "open"
    BY <1>4, RestartEndsAll
  <2>3. QED
    BY <2>1, <2>2 DEF OpenInv
<1>5. CASE UNCHANGED vars
  BY <1>5 DEF vars, history, OpenInv, Active
<1>6. QED
  BY <1>1, <1>2, <1>3, <1>4, <1>5, NextCases

-----------------------------------------------------------------------------
(* Cached objects.                                                          *)

LEMMA CacheInit == Init => CacheInv
<1> SUFFICES ASSUME Init PROVE CacheInv
  OBVIOUS
<1>1. Len(obj) = 1 /\ obj[1].filled
  BY DEF Init, DefaultObject
<1>2. QED
  BY <1>1 DEF Init, CacheInv, IdleThread, None

\* Objects that a step leaves as they are, and requests that go on filling one.
LEMMA FillingStays ==
    ASSUME TypeInv, CacheInv, ~cleaned, ~clash, NEW t \in Threads, Step(t),
           th[t].pc # "fill", NEW o \in 1 .. Len(obj), obj'[o].filled = obj[o].filled
    PROVE  \/ obj'[o].filled
           \/ \E s \in Threads : th'[s].pc = "fill" /\ th'[s].o = o
<1>1. CASE obj[o].filled
  BY <1>1
<1>2. CASE ~obj[o].filled
  <2>1. PICK s \in Threads : th[s].pc = "fill" /\ th[s].o = o
    BY <1>2 DEF CacheInv
  <2>2. th'[s] = th[s]
    BY <2>1, OthersStay
  <2>3. QED
    BY <2>1, <2>2
<1>3. QED
  BY <1>1, <1>2

LEMMA CacheStep == TypeInv /\ OpenInv /\ CacheInv /\ [Next]_vars => CacheInv'
<1> SUFFICES ASSUME TypeInv, OpenInv, CacheInv, [Next]_vars, ~cleaned' PROVE CacheInv'
  BY DEF CacheInv
<1>1. ASSUME NEW t \in Threads, Step(t) PROVE CacheInv'
  <2>0. /\ ~cleaned /\ db # "down" /\ Len(obj) \in Nat
        /\ \A s \in Threads : s # t => th'[s] = th[s]
        /\ th[t] \in ThreadRecords /\ RequestInv(th[t], obj)
    BY <1>1, OthersStay DEF OpenInv, TypeInv, SharedTypes
  <2>1. ASSUME NEW i \in Ids, cache'[i] # None PROVE graph'[i].exists
    <3>1. CASE cache'[i] = cache[i]
      BY <1>1, <2>0, <2>1, <3>1, StoreGrows DEF CacheInv
    <3>2. CASE SaveNetwork(t)
      <4>1. FirstFree \in Ids
        BY <3>2, FirstFreeIsFree DEF SaveNetwork, Free
      <4>2. CASE i = FirstFree
        <5>1. graph'[i] = [exists |-> TRUE, nodes |-> {}]
          BY <3>2, <4>1, <4>2 DEF SaveNetwork, NodeFor, TypeInv, SharedTypes
        <5>2. QED
          BY <5>1
      <4>3. CASE i # FirstFree
        <5>1. cache'[i] = cache[i]
          BY <3>2, <4>1, <4>3 DEF SaveNetwork, NodeFor, TypeInv, SharedTypes
        <5>2. QED
          BY <3>1, <5>1
      <4>4. QED
        BY <4>2, <4>3
    <3>3. CASE NewObject(t)
      <4>1. graph' = graph /\ graph[th[t].id].exists
        BY <2>0, <3>3 DEF NewObject, CacheInv
      <4>2. CASE i = th[t].id
        BY <4>1, <4>2
      <4>3. CASE i # th[t].id
        <5>1. cache'[i] = cache[i]
          BY <3>3, <4>3 DEF NewObject, TypeInv, SharedTypes
        <5>2. QED
          BY <3>1, <5>1
      <4>4. QED
        BY <4>2, <4>3
    <3>4. CASE ~SaveNetwork(t) /\ ~NewObject(t)
      <4>1. cache' = cache
        BY <1>1, <3>4 DEF Step, Begin, Open, AccessThrows, Load, LoadChild, NoModel,
           FromCache, CacheMiss, FillObject, FillObjectThrows, Train, Learn, StoreNodes,
           Answer, Save, SaveChild, SaveChildThrows, EndSave
      <4>2. QED
        BY <3>1, <4>1
    <3>5. QED
      BY <3>2, <3>3, <3>4
  <2>2. ASSUME NEW s \in Threads, th'[s].pc \in {"cache", "create", "fill"}
        PROVE  graph'[th'[s].id].exists
    <3>1. CASE th'[s].id = th[s].id /\ th[s].pc \in {"cache", "create", "fill"}
      <4>1. th[s].id \in Ids
        BY <3>1 DEF TypeInv, RequestInv
      <4>2. QED
        BY <1>1, <2>0, <3>1, <4>1, StoreGrows DEF CacheInv
    <3>2. CASE s = t
      <4>1. CASE \E i \in Ids : LoadChild(t, i)
        <5>1. PICK i \in Ids : LoadChild(t, i)
          BY <4>1
        <5>2. th'[t].id = i /\ graph' = graph /\ graph[i].exists
          BY <2>0, <5>1 DEF LoadChild, Saved, TypeInv, ThreadRecords
        <5>3. QED
          BY <3>2, <5>2
      <4>2. CASE CacheMiss(t) \/ NewObject(t)
        <5>1. th'[t].id = th[t].id /\ th[t].pc \in {"cache", "create"}
          BY <2>0, <4>2 DEF CacheMiss, NewObject, Goto, TypeInv, ThreadRecords
        <5>2. QED
          BY <3>1, <3>2, <5>1
      <4>3. CASE ~CacheMiss(t) /\ ~NewObject(t) /\ ~\E i \in Ids : LoadChild(t, i)
        <5>1. th'[t].pc \notin {"cache", "create", "fill"}
          BY <1>1, <4>3, Leads
        <5>2. QED
          BY <2>2, <3>2, <5>1
      <4>4. QED
        BY <4>1, <4>2, <4>3
    <3>3. CASE s # t
      BY <2>0, <2>2, <3>1, <3>3
    <3>4. QED
      BY <3>2, <3>3
  <2>3. ASSUME ~clash', NEW o \in 1 .. Len(obj')
        PROVE  \/ obj'[o].filled
               \/ \E s \in Threads : th'[s].pc = "fill" /\ th'[s].o = o
    <3>0. ~clash
      BY <1>1, <2>3, OthersStay
    <3>1. CASE NewObject(t)
      <4>1. Len(obj') = Len(obj) + 1 /\ \A p \in 1 .. Len(obj) : obj'[p] = obj[p]
        BY <3>1 DEF NewObject, TypeInv, SharedTypes
      <4>2. th'[t].pc = "fill" /\ th'[t].o = Len(obj) + 1 /\ th[t].pc # "fill"
        BY <2>0, <3>1 DEF NewObject, TypeInv, ThreadRecords
      <4>3. CASE o = Len(obj) + 1
        BY <4>2, <4>3
      <4>4. CASE o # Len(obj) + 1
        <5>1. o \in 1 .. Len(obj) /\ obj'[o].filled = obj[o].filled
          BY <2>0, <4>1, <4>4
        <5>2. QED
          BY <1>1, <2>0, <3>0, <4>2, <5>1, FillingStays
      <4>5. QED
        BY <4>3, <4>4
    <3>2. CASE FillObject(t)
      <4> DEFINE p == th[t].o
                 e == [obj[p] EXCEPT !.nodes = graph[th[t].id].nodes, !.filled = TRUE]
      <4>1. p \in 1 .. Len(obj) /\ obj \in Seq(Objects) /\ obj[p] \in Objects
            /\ graph[th[t].id].nodes \in SUBSET Concepts
        BY <2>0, <3>2 DEF FillObject, RequestInv, ThreadRecords, TypeInv, SharedTypes
      <4>2. e \in Objects /\ e.filled
        BY <4>1 DEF Objects
      <4>3. obj' = [obj EXCEPT ![p] = e]
        BY <3>2, Zenon DEF FillObject
      <4> HIDE DEF e
      <4>4. Len(obj') = Len(obj) /\ obj'[p] = e
            /\ \A q \in 1 .. Len(obj) : q # p => obj'[q] = obj[q]
        BY <4>1, <4>2, <4>3, ObjectChange
      <4>5. CASE o = p
        BY <4>2, <4>4, <4>5
      <4>6. CASE o # p
        <5>1. obj'[o] = obj[o] /\ o \in 1 .. Len(obj)
          BY <2>3, <4>4, <4>6
        <5>2. CASE obj[o].filled
          BY <5>1, <5>2
        <5>3. CASE ~obj[o].filled
          <6>1. PICK s \in Threads : th[s].pc = "fill" /\ th[s].o = o
            BY <2>0, <3>0, <5>1, <5>3 DEF CacheInv
          <6>2. th'[s] = th[s]
            BY <2>0, <4>6, <6>1
          <6>3. QED
            BY <6>1, <6>2
        <5>4. QED
          BY <5>2, <5>3
      <4>7. QED
        BY <4>5, <4>6
    <3>3. CASE StoreNodes(t) \/ SaveNetwork(t)
      <4>1. PICK p \in 1 .. Len(obj), e \in Objects :
               obj' = [obj EXCEPT ![p] = e] /\ e.filled = obj[p].filled
        <5>1. th[t].o \in 1 .. Len(obj) /\ obj[th[t].o] \in Objects
          BY <2>0, <3>3 DEF StoreNodes, SaveNetwork, RequestInv, ThreadRecords,
             TypeInv, SharedTypes
        <5>2. CASE StoreNodes(t)
          <6> DEFINE e == [obj[th[t].o] EXCEPT !.nodes = th[t].nodes]
          <6>1. e \in Objects /\ e.filled = obj[th[t].o].filled
            BY <2>0, <5>1 DEF Objects, ThreadRecords
          <6>2. obj' = [obj EXCEPT ![th[t].o] = e]
            BY <5>2, Zenon DEF StoreNodes
          <6>3. QED
            BY <5>1, <6>1, <6>2
        <5>3. CASE SaveNetwork(t)
          <6> DEFINE e == [obj[th[t].o] EXCEPT !.uid = NodeFor(th[t].o)]
          <6>1. NodeFor(th[t].o) \in Ids
            BY <5>3, FirstFreeIsFree DEF SaveNetwork, NodeFor, Free
          <6>2. e \in Objects /\ e.filled = obj[th[t].o].filled
            BY <5>1, <6>1 DEF Objects
          <6>3. obj' = [obj EXCEPT ![th[t].o] = e]
            BY <5>3, Zenon DEF SaveNetwork
          <6>4. QED
            BY <5>1, <6>2, <6>3
        <5>4. QED
          BY <3>3, <5>2, <5>3
      <4>2. obj \in Seq(Objects) /\ th[t].pc # "fill"
        BY <3>3 DEF StoreNodes, SaveNetwork, TypeInv, SharedTypes
      <4>3. Len(obj') = Len(obj) /\ obj'[p] = e
            /\ \A q \in 1 .. Len(obj) : q # p => obj'[q] = obj[q]
        BY <4>1, <4>2, ObjectChange
      <4>4. o \in 1 .. Len(obj) /\ obj'[o].filled = obj[o].filled
        BY <2>3, <4>1, <4>3
      <4>5. QED
        BY <1>1, <2>0, <3>0, <4>2, <4>4, FillingStays
    <3>4. CASE ~NewObject(t) /\ ~FillObject(t) /\ ~StoreNodes(t) /\ ~SaveNetwork(t)
      <4>1. obj' = obj
        BY <1>1, <3>4 DEF Step, Begin, Open, AccessThrows, Load, LoadChild, NoModel,
           FromCache, CacheMiss, FillObjectThrows, Train, Learn, Answer, Save, SaveChild,
           SaveChildThrows, EndSave
      <4>2. th[t].pc # "fill"
        BY <1>1, <2>0, <3>0, <3>4 DEF Step, Begin, Open, AccessThrows, Load, LoadChild,
           NoModel, FromCache, CacheMiss, FillObjectThrows, Train, Learn, Answer, Save,
           SaveChild, SaveChildThrows, EndSave
      <4>3. o \in 1 .. Len(obj) /\ obj'[o].filled = obj[o].filled
        BY <2>3, <4>1
      <4>4. QED
        BY <1>1, <2>0, <3>0, <4>2, <4>3, FillingStays
    <3>5. QED
      BY <3>1, <3>2, <3>3, <3>4
  <2>4. QED
    BY <2>1, <2>2, <2>3 DEF CacheInv
<1>2. CASE CleanDatabase
  BY <1>2 DEF CleanDatabase
<1>3. CASE RestartJVM
  <2>1. \A i \in Ids : cache'[i] = None
    BY <1>3 DEF RestartJVM
  <2>2. \A s \in Threads : th'[s].pc \notin {"cache", "create", "fill"}
    BY <1>3, RestartEndsAll
  <2>3. Len(obj') = 1 /\ obj'[1].filled
    BY <1>3 DEF RestartJVM, DefaultObject
  <2>4. \A o \in 1 .. Len(obj') : obj'[o].filled
    BY <2>3
  <2>5. QED
    BY <2>1, <2>2, <2>4 DEF CacheInv
<1>4. CASE UNCHANGED vars
  BY <1>4 DEF vars, history, CacheInv
<1>5. QED
  BY <1>1, <1>2, <1>3, <1>4, NextCases

\* No request of a database that is open gets an object from the cache that survived
\* the database it came from, as long as nothing overlaps (KBMap, N4JKB.clean).
THEOREM CacheFollowsStore == Spec => []CacheIsBacked
<1>1. OpenInv /\ CacheInv => CacheIsBacked
  BY DEF OpenInv, CacheInv, CacheIsBacked
<1>2. QED
  BY <1>1, TypeInit, TypeStep, OpenInit, OpenStep, CacheInit, CacheStep, PTL DEF Spec

\* An object without nodes is one that a request is filling, however requests overlap
\* and whatever the JVM before them left in the store (ConceptNetwork.load).
THEOREM NullsAreTransient == Spec => []NullIsTransient
<1>1. TypeInv /\ CacheInv => NullIsTransient
  BY DEF TypeInv, SharedTypes, CacheInv, NullIsTransient
<1>2. QED
  BY <1>1, TypeInit, TypeStep, OpenInit, OpenStep, CacheInit, CacheStep, PTL DEF Spec

\* A request that is alone in its JVM does not fail, unless the database was cleaned, the
\* JVM ends, or a training saved a concept with a random uid that was taken: not when it
\* opens the store, not when it reads a network, not when it saves one, whatever the JVM
\* before it left in the store (N4JKB.apply, LongTermMemory.someModel and saveModel).
THEOREM AloneSucceeds == Spec => AloneNeverFails
<1> DEFINE NoFailure == \A t \in Threads :
                            th[t].pc # "failed" /\ th'[t].pc = "failed" =>
                                overlap' \/ cleaned' \/ clash \/ restarts' # restarts
<1>1. TypeInv /\ OpenInv /\ CacheInv /\ [Next]_vars => NoFailure
  <2> SUFFICES ASSUME TypeInv, OpenInv, CacheInv, [Next]_vars, NEW t \in Threads,
                      th[t].pc # "failed", th'[t].pc = "failed", ~overlap', ~cleaned',
                      ~clash
               PROVE  restarts' # restarts
    OBVIOUS
  <2>1. ASSUME NEW s \in Threads, Step(s) PROVE FALSE
    <3>1. s = t /\ ~cleaned /\ th[t] \in ThreadRecords /\ RequestInv(th[t], obj)
      BY <2>1, OthersStay DEF TypeInv
    <3>2. \/ Open(t) \/ AccessThrows(t) \/ FillObjectThrows(t) \/ Learn(t)
          \/ \E x \in Concepts : SaveChildThrows(t, x)
      BY <2>1, <3>1, Leads
    <3>3. ~Begin(t)
      BY BeginStep
    <3>4. ~overlap /\ Active(t)
      BY <2>1, <3>1, <3>3, ActiveSteps
    <3>5. CASE Open(t)
      <4>1. db = "up" /\ th[t].pc = "open"
        BY <3>1, <3>5 DEF Open, Goto, TypeInv, ThreadRecords
      <4>2. QED
        BY <3>4, <4>1 DEF OpenInv
    <3>6. CASE AccessThrows(t)
      BY <3>1, <3>6 DEF AccessThrows, OpenInv
    <3>7. CASE FillObjectThrows(t) \/ \E x \in Concepts : SaveChildThrows(t, x)
      BY <3>7 DEF FillObjectThrows, SaveChildThrows
    <3>8. CASE Learn(t)
      <4>1. th[t].pc = "loaded" /\ th[t].o \in 1 .. Len(obj)
        BY <3>1, <3>8 DEF Learn, RequestInv, ThreadRecords, TypeInv, SharedTypes
      <4>2. ~obj[th[t].o].filled
        <5>1. obj[th[t].o].filled => th'[t].pc = "store"
          BY <3>1, <3>8, LearnMoves DEF ThreadRecords
        <5>2. QED
          BY <5>1
      <4>3. PICK u \in Threads : th[u].pc = "fill"
        BY <3>1, <4>1, <4>2 DEF CacheInv
      <4>4. Active(u) /\ u # t
        BY <4>1, <4>3 DEF Active
      <4>5. QED
        BY <3>4, <4>4 DEF OpenInv
    <3>9. QED
      BY <3>2, <3>5, <3>6, <3>7, <3>8
  <2>2. CASE CleanDatabase
    BY <2>2 DEF CleanDatabase
  <2>3. CASE RestartJVM
    BY <2>3 DEF RestartJVM, TypeInv, SharedTypes
  <2>4. CASE UNCHANGED vars
    BY <2>4 DEF vars
  <2>5. QED
    BY <2>1, <2>2, <2>3, <2>4, NextCases
<1>2. QED
  BY <1>1, TypeInit, TypeStep, OpenInit, OpenStep, CacheInit, CacheStep, PTL
     DEF Spec, AloneNeverFails

-----------------------------------------------------------------------------
(* Saves that overlap.                                                      *)

LEMMA ChildInit == Init => ChildInv
BY DEF Init, ChildInv, IdleThread

\* A firm node stays firm and keeps its object: no request is about to put another one
\* into the cache for it, and one that looks for it there finds it.
LEMMA FirmStays ==
    ASSUME TypeInv, CacheInv, ~cleaned, NEW t \in Threads, Step(t),
           NEW i \in Ids, Firm(i, cache, th)
    PROVE  Firm(i, cache', th') /\ cache'[i] = cache[i]
<1>1. cache'[i] = cache[i]
  <2>1. CASE SaveNetwork(t)
    <3>1. FirstFree \in Ids /\ ~graph[FirstFree].exists
      BY <2>1, FirstFreeIsFree DEF SaveNetwork, Free, Saved
    <3>2. FirstFree # i
      BY <3>1 DEF CacheInv, Firm
    <3>3. QED
      BY <2>1, <3>1, <3>2 DEF SaveNetwork, NodeFor, TypeInv, SharedTypes
  <2>2. CASE NewObject(t)
    <3>1. th[t].id # i
      BY <2>2 DEF NewObject, Firm
    <3>2. QED
      BY <2>2, <3>1 DEF NewObject, TypeInv, SharedTypes
  <2>3. CASE ~SaveNetwork(t) /\ ~NewObject(t)
    BY <2>3 DEF Step, Begin, Open, AccessThrows, Load, LoadChild, NoModel, FromCache,
       CacheMiss, FillObject, FillObjectThrows, Train, Learn, StoreNodes, Answer, Save,
       SaveChild, SaveChildThrows, EndSave
  <2>4. QED
    BY <2>1, <2>2, <2>3
<1>2. ASSUME NEW s \in Threads, th'[s].pc = "create", th'[s].id = i PROVE FALSE
  <2>1. CASE s = t
    <3>1. CacheMiss(t)
      BY <1>2, <2>1, Leads
    <3>2. th'[t].id = th[t].id
      BY <3>1 DEF CacheMiss, Goto, TypeInv, ThreadRecords
    <3>3. QED
      BY <1>2, <2>1, <3>1, <3>2 DEF CacheMiss, CacheHit, Firm
  <2>2. CASE s # t
    <3>1. th'[s] = th[s]
      BY <2>2, OthersStay
    <3>2. QED
      BY <1>2, <3>1 DEF Firm
  <2>3. QED
    BY <2>1, <2>2
<1>3. QED
  BY <1>1, <1>2 DEF Firm

\* An object gets another node only when it is saved.
LEMMA UidStays ==
    ASSUME TypeInv, NEW t \in Threads, Step(t), NEW o \in 1 .. Len(obj),
           ~(SaveNetwork(t) /\ th[t].o = o)
    PROVE  obj'[o].uid = obj[o].uid
<1>1. /\ obj \in Seq(Objects) /\ obj[o] \in Objects
      /\ th[t] \in ThreadRecords /\ RequestInv(th[t], obj)
  BY DEF TypeInv, SharedTypes
<1>2. CASE NewObject(t)
  BY <1>1, <1>2 DEF NewObject
<1>3. CASE FillObject(t) \/ StoreNodes(t) \/ SaveNetwork(t)
  <2> DEFINE a == th[t].o
  <2>1. a \in Nat /\ o \in DOMAIN obj
    BY <1>1 DEF ThreadRecords
  <2>2. \E y : obj' = [obj EXCEPT ![a] = y] /\ (a = o => y.uid = obj[o].uid)
    <3>1. CASE FillObject(t)
      <4> DEFINE y == [obj[a] EXCEPT !.nodes = graph[th[t].id].nodes, !.filled = TRUE]
      <4>1. obj' = [obj EXCEPT ![a] = y]
        BY <3>1 DEF FillObject
      <4>2. a = o => y.uid = obj[o].uid
        BY <1>1 DEF Objects
      <4>3. QED
        BY <4>1, <4>2
    <3>2. CASE StoreNodes(t)
      <4> DEFINE y == [obj[a] EXCEPT !.nodes = th[t].nodes]
      <4>1. obj' = [obj EXCEPT ![a] = y]
        BY <3>2 DEF StoreNodes
      <4>2. a = o => y.uid = obj[o].uid
        BY <1>1 DEF Objects
      <4>3. QED
        BY <4>1, <4>2
    <3>3. CASE SaveNetwork(t)
      BY <3>3 DEF SaveNetwork
    <3>4. QED
      BY <1>3, <3>1, <3>2, <3>3
  <2> HIDE DEF a
  <2>3. QED
    BY <2>1, <2>2
<1>4. CASE ~NewObject(t) /\ ~FillObject(t) /\ ~StoreNodes(t) /\ ~SaveNetwork(t)
  <2>1. obj' = obj
    BY <1>4 DEF Step, Begin, Open, AccessThrows, Load, LoadChild, NoModel, FromCache,
       CacheMiss, FillObjectThrows, Train, Learn, Answer, Save, SaveChild,
       SaveChildThrows, EndSave
  <2>2. QED
    BY <2>1
<1>5. QED
  BY <1>2, <1>3, <1>4

\* The node that a save makes is firm.
LEMMA NewNodeIsFirm ==
    ASSUME TypeInv, CacheInv, ~cleaned, NEW t \in Threads, SaveNetwork(t), Step(t)
    PROVE  /\ obj'[th[t].o].uid \in Ids
           /\ Firm(obj'[th[t].o].uid, cache', th') /\ cache'[obj'[th[t].o].uid] = th[t].o
<1> DEFINE o == th[t].o
           i == FirstFree
<1>1. /\ o \in 1 .. Len(obj) /\ obj \in Seq(Objects) /\ obj[o] \in Objects
      /\ i \in Ids /\ ~graph[i].exists
  <2>1. th[t] \in ThreadRecords /\ RequestInv(th[t], obj)
    BY DEF TypeInv
  <2>2. QED
    BY <2>1, FirstFreeIsFree DEF SaveNetwork, RequestInv, ThreadRecords, TypeInv,
       SharedTypes, Free, Saved
<1>2. obj'[o].uid = i /\ cache'[i] = o
  BY <1>1 DEF SaveNetwork, NodeFor, Objects, TypeInv, SharedTypes
<1>3. ASSUME NEW s \in Threads, th'[s].pc = "create", th'[s].id = i PROVE FALSE
  <2>1. th'[t].pc = "children"
    BY DEF SaveNetwork, TypeInv, ThreadRecords
  <2>2. th'[s] = th[s]
    BY <1>3, <2>1, OthersStay
  <2>3. QED
    BY <1>1, <1>3, <2>2 DEF CacheInv
<1> HIDE DEF i
<1>4. Firm(i, cache', th')
  BY <1>1, <1>2, <1>3 DEF Firm, None
<1>5. QED
  BY <1>1, <1>2, <1>4

LEMMA ChildStep == TypeInv /\ OpenInv /\ CacheInv /\ ChildInv /\ [Next]_vars => ChildInv'
<1> SUFFICES ASSUME TypeInv, OpenInv, CacheInv, ChildInv, [Next]_vars, ~cleaned'
             PROVE  ChildInv'
  BY DEF ChildInv
<1>1. ASSUME NEW t \in Threads, Step(t), NEW s \in Threads, th'[s].pc = "children"
      PROVE  /\ Firm(obj'[th'[s].o].uid, cache', th')
             /\ cache'[obj'[th'[s].o].uid] = th'[s].o
             /\ \A x \in th'[s].nodes \ th'[s].todo :
                    \E i \in Ids : /\ Firm(i, cache', th') /\ cache'[i] = th'[s].o
                                   /\ x \in graph'[i].nodes
  <2>0. /\ ~cleaned /\ th[s] \in ThreadRecords /\ RequestInv(th[s], obj)
        /\ th[t] \in ThreadRecords
    BY <1>1, OthersStay DEF TypeInv
  <2>1. CASE s = t /\ SaveNetwork(t)
    <3>1. th'[t].o = th[t].o /\ th'[t].nodes = th'[t].todo
      BY <2>0, <2>1 DEF SaveNetwork, TypeInv, ThreadRecords
    <3>2. QED
      BY <1>1, <2>0, <2>1, <3>1, NewNodeIsFirm
  <2>2. CASE ~(s = t /\ SaveNetwork(t))
    <3> DEFINE o == th[s].o
               u == obj[o].uid
    <3>1. /\ th[s].pc = "children" /\ th'[s].o = o /\ th'[s].nodes = th[s].nodes
          /\ \A x \in th'[s].nodes \ th'[s].todo :
                 x \in th[s].todo => s = t /\ SaveChild(t, x)
      <4>1. CASE s = t
        <5>1. PICK x \in Concepts : SaveChild(t, x)
          BY <1>1, <2>2, <4>1, Leads
        <5>2. th[t].pc = "children" /\ th' = [th EXCEPT ![t].todo = @ \ {x}]
          BY <5>1 DEF SaveChild
        <5>3. /\ th'[t].o = th[t].o /\ th'[t].nodes = th[t].nodes
              /\ th'[t].todo = th[t].todo \ {x}
          BY <2>0, <5>2 DEF TypeInv, ThreadRecords
        <5>4. QED
          BY <4>1, <5>1, <5>2, <5>3
      <4>2. CASE s # t
        <5>1. th'[s] = th[s]
          BY <1>1, <4>2, OthersStay
        <5>2. QED
          BY <1>1, <5>1
      <4>3. QED
        BY <4>1, <4>2
    <3>2. /\ o \in 1 .. Len(obj) /\ u \in Ids /\ Firm(u, cache, th) /\ cache[u] = o
          /\ \A x \in th[s].nodes \ th[s].todo :
                 \E i \in Ids : Firm(i, cache, th) /\ cache[i] = o /\ x \in graph[i].nodes
      <4>1. o \in 1 .. Len(obj) /\ u \in Ids
        BY <2>0, <3>1 DEF RequestInv, ThreadRecords, TypeInv, SharedTypes
      <4>2. QED
        BY <2>0, <3>1, <4>1 DEF ChildInv
    <3>3. ASSUME NEW i \in Ids, Firm(i, cache, th), cache[i] = o
          PROVE  /\ Firm(i, cache', th') /\ cache'[i] = o
                 /\ graph[i].exists /\ graph[i].nodes \subseteq graph'[i].nodes
      <4>1. Firm(i, cache', th') /\ cache'[i] = cache[i]
        BY <1>1, <2>0, <3>3, FirmStays
      <4>2. graph[i].exists
        BY <2>0, <3>3 DEF Firm, CacheInv
      <4>3. QED
        BY <1>1, <3>3, <4>1, <4>2, StoreGrows
    <3>4. Firm(obj'[o].uid, cache', th') /\ cache'[obj'[o].uid] = o
      <4>1. CASE SaveNetwork(t) /\ th[t].o = o
        BY <1>1, <2>0, <4>1, NewNodeIsFirm
      <4>2. CASE ~(SaveNetwork(t) /\ th[t].o = o)
        <5>1. obj'[o].uid = u
          BY <1>1, <3>2, <4>2, UidStays
        <5> HIDE DEF u
        <5>2. Firm(u, cache', th') /\ cache'[u] = o
          BY <3>2, <3>3
        <5>3. QED
          BY <5>1, <5>2
      <4>3. QED
        BY <4>1, <4>2
    <3>5. ASSUME NEW x \in th'[s].nodes \ th'[s].todo
          PROVE  \E i \in Ids :
                     Firm(i, cache', th') /\ cache'[i] = o /\ x \in graph'[i].nodes
      <4>1. CASE x \in th[s].todo
        <5>1. s = t /\ SaveChild(t, x)
          BY <3>1, <4>1
        <5>2. graph' = [graph EXCEPT ![u].nodes = @ \cup {x}]
          BY <3>2, <3>3, <5>1 DEF SaveChild, WithChild
        <5>3. x \in graph'[u].nodes
          BY <3>2, <5>2 DEF TypeInv, SharedTypes
        <5>4. QED
          BY <3>2, <3>3, <5>3
      <4>2. CASE x \notin th[s].todo
        <5>1. PICK i \in Ids : Firm(i, cache, th) /\ cache[i] = o /\ x \in graph[i].nodes
          BY <3>1, <3>2, <4>2
        <5>2. QED
          BY <3>3, <5>1
      <4>3. QED
        BY <4>1, <4>2
    <3>6. QED
      BY <3>1, <3>4, <3>5
  <2>3. QED
    BY <2>1, <2>2
<1>2. CASE CleanDatabase
  BY <1>2 DEF CleanDatabase
<1>3. CASE RestartJVM
  <2>1. \A s \in Threads : th'[s].pc # "children"
    BY <1>3, RestartEndsAll
  <2>2. QED
    BY <2>1 DEF ChildInv
<1>4. CASE UNCHANGED vars
  BY <1>4 DEF vars, history, ChildInv, Firm
<1>5. QED
  <2>1. CASE \E t \in Threads : Step(t)
    BY <1>1, <2>1 DEF ChildInv
  <2>2. QED
    BY <1>2, <1>3, <1>4, <2>1, NextCases

\* However saves overlap, what each of them has written is below nodes that lead to the
\* object it saves, although every concept is put below the node that the object is
\* registered with at that moment (ConceptNetwork.save, KBMap.register).
THEOREM ChildrenAreTogether == Spec => []ChildrenStayTogether
<1>1. ChildInv => ChildrenStayTogether
  BY DEF ChildInv, ChildrenStayTogether
<1>2. QED
  BY <1>1, TypeInit, TypeStep, OpenInit, OpenStep, CacheInit, CacheStep, ChildInit,
     ChildStep, PTL DEF Spec

-----------------------------------------------------------------------------
(* What trainings taught.                                                   *)

LEMMA TaughtInit == Init => TaughtInv
BY DEF Init, TaughtInv, IdleThread, Saved

\* The parts of TaughtInv for one request.
TaughtRequest(r, t, nodes) ==
    /\ r.pc \notin {"create", "fill"}
    /\ r.pc \in {"loaded", "store", "save", "children"} => r.o = Defaults
    /\ r.pc = "store" => nodes \cup {t} \subseteq r.nodes
    /\ r.pc \in {"save", "children"} /\ r.then = "done" => t \in nodes

\* A step of a request that is alone keeps TaughtInv when it keeps it for that request.
LEMMA TaughtFrame ==
    ASSUME TypeInv, OpenInv, TaughtInv, ~overlap, restarts = 0, ~cleaned,
           NEW t \in Threads, Active(t), Step(t),
           TaughtRequest(th'[t], t, obj'[Defaults].nodes),
           taught' \subseteq obj'[Defaults].nodes,
           \A i \in Saved' : cache'[i] = Defaults
    PROVE  TaughtInv'
<1>1. ASSUME NEW s \in Threads PROVE TaughtRequest(th'[s], s, obj'[Defaults].nodes)
  <2>1. CASE s = t
    BY <2>1
  <2>2. CASE s # t
    <3>1. th'[s] = th[s] /\ ~Active(s)
      BY <2>2, OthersStay DEF OpenInv
    <3>2. QED
      BY <3>1 DEF Active, TaughtRequest
  <2>3. QED
    BY <2>1, <2>2
<1>2. QED
  BY <1>1 DEF TaughtInv, TaughtRequest

LEMMA TaughtStep == TypeInv /\ OpenInv /\ CacheInv /\ TaughtInv /\ [Next]_vars => TaughtInv'
<1> SUFFICES ASSUME TypeInv, OpenInv, CacheInv, TaughtInv, [Next]_vars,
                    ~overlap', restarts' = 0
             PROVE  TaughtInv'
  BY DEF TaughtInv
<1>1. ASSUME NEW t \in Threads, Begin(t) PROVE TaughtInv'
  <2>1. /\ th'[t].pc = IF inited THEN "load" ELSE "open"
        /\ ~overlap /\ UNCHANGED <<graph, cache, obj, restarts, taught, cleaned>>
        /\ \A s \in Threads : s # t => th'[s] = th[s]
    BY <1>1, BeginStep, OthersStay DEF Step
  <2>2. Saved' = Saved
    BY <2>1 DEF Saved
  <2>3. QED
    BY <2>1, <2>2 DEF TaughtInv
<1>2. ASSUME NEW t \in Threads, Step(t), ~Begin(t) PROVE TaughtInv'
  <2>1. /\ Active(t) /\ ~overlap /\ restarts = 0 /\ cleaned' = cleaned
        /\ th[t] \in ThreadRecords /\ RequestInv(th[t], obj)
    BY <1>2, ActiveSteps, OthersStay DEF TypeInv
  <2>2. CASE cleaned
    <3>1. th[t].pc = "load" /\ db = "down"
      BY <2>1, <2>2 DEF OpenInv
    <3>2. AccessThrows(t)
      BY <1>2, <3>1 DEF Step, Open, Load, LoadChild, NoModel, FromCache, CacheMiss,
         NewObject, FillObject, FillObjectThrows, Train, Learn, StoreNodes, Answer, Save,
         SaveNetwork, SaveChild, SaveChildThrows, EndSave
    <3>3. th'[t].pc = "failed" /\ UNCHANGED <<obj, taught>>
      BY <1>2, <3>1, <3>2, ActiveSteps DEF AccessThrows, history
    <3>4. \A s \in Threads : s # t => th'[s] = th[s]
      BY <1>2, OthersStay
    <3>5. QED
      BY <2>1, <2>2, <3>3, <3>4 DEF TaughtInv
  <2>3. CASE ~cleaned
    <3>0. /\ TaughtRequest(th[t], t, obj[Defaults].nodes)
          /\ taught \subseteq obj[Defaults].nodes
          /\ \A i \in Saved : cache[i] = Defaults
      BY <2>1, <2>3 DEF TaughtInv, TaughtRequest
    <3>1. ASSUME UNCHANGED <<graph, cache, obj, taught>>,
                 TaughtRequest(th'[t], t, obj[Defaults].nodes)
          PROVE  TaughtInv'
      <4>1. Saved' = Saved
        BY <3>1 DEF Saved
      <4>2. TaughtRequest(th'[t], t, obj'[Defaults].nodes)
        BY <3>1, Zenon
      <4>3. QED
        BY <1>2, <2>1, <2>3, <3>0, <3>1, <4>1, <4>2, TaughtFrame
    <3>2. CASE Open(t) \/ AccessThrows(t) \/ Answer(t) \/ \E i \in Ids : LoadChild(t, i)
      <4>1. UNCHANGED <<graph, cache, obj, taught>>
        BY <3>2 DEF Open, AccessThrows, Answer, LoadChild, history
      <4>2. th'[t].pc \in {"load", "failed", "done", "cache"}
        BY <2>1, <3>2 DEF Open, AccessThrows, Answer, LoadChild, Goto, End, IdleThread,
           TypeInv, ThreadRecords
      <4>3. QED
        BY <3>1, <4>1, <4>2 DEF TaughtRequest
    <3>3. CASE NoModel(t)
      <4>1. UNCHANGED <<graph, cache, obj, taught>>
        BY <3>3 DEF NoModel, history
      <4>2. th'[t].pc = "save" /\ th'[t].o = Defaults /\ th'[t].then = "load"
        BY <2>1, <3>3 DEF NoModel, TypeInv, ThreadRecords
      <4>3. QED
        BY <3>1, <4>1, <4>2 DEF TaughtRequest
    <3>4. CASE th[t].pc = "cache"
      <4>1. th[t].id \in Saved
        BY <2>1, <2>3, <3>4 DEF RequestInv, CacheInv, Saved
      <4>2. cache[th[t].id] = Defaults
        BY <3>0, <4>1
      <4>3. FromCache(t)
        BY <1>2, <3>4, <4>2 DEF Step, Open, AccessThrows, Load, LoadChild, NoModel,
           CacheMiss, NewObject, CacheHit, None, Defaults, FillObject, FillObjectThrows,
           Train, Learn, StoreNodes, Answer, Save, SaveNetwork, SaveChild, SaveChildThrows,
           EndSave
      <4>4. th'[t].pc = "loaded" /\ th'[t].o = Defaults
        BY <2>1, <4>2, <4>3 DEF FromCache, Loaded, TypeInv, ThreadRecords
      <4>5. UNCHANGED <<graph, cache, obj, taught>>
        BY <4>3 DEF FromCache, history
      <4>6. QED
        BY <3>1, <4>4, <4>5 DEF TaughtRequest
    <3>5. CASE NewObject(t) \/ FillObject(t) \/ FillObjectThrows(t)
      BY <3>0, <3>5 DEF NewObject, FillObject, FillObjectThrows, TaughtRequest
    <3>6. CASE Learn(t)
      <4>1. /\ UNCHANGED <<graph, cache, obj, taught>> /\ th[t].o = Defaults
            /\ th[t].pc = "loaded"
        BY <3>0, <3>6 DEF Learn, TaughtRequest
      <4>2. CASE obj[th[t].o].filled
        <5>1. /\ th'[t].pc = "store" /\ th'[t].nodes = Extended(t) /\ th'[t].o = th[t].o
          <6>1. th'[t] = [th[t] EXCEPT !.pc = "store", !.nodes = Extended(t)]
            BY <3>6, <4>2, LearnMoves
          <6>2. QED
            BY <2>1, <6>1 DEF ThreadRecords
        <5>2. Extended(t) = obj[Defaults].nodes \cup {t}
          BY <4>1 DEF Extended
        <5>3. QED
          BY <3>1, <4>1, <5>1, <5>2 DEF TaughtRequest
      <4>3. CASE ~obj[th[t].o].filled
        <5>1. th'[t].pc = "failed"
          BY <3>6, <4>3, LearnMoves DEF IdleThread
        <5>2. QED
          BY <3>1, <4>1, <5>1 DEF TaughtRequest
      <4>4. QED
        BY <4>2, <4>3
    <3>7. CASE StoreNodes(t)
      <4>1. /\ th[t].o = Defaults /\ UNCHANGED <<graph, cache, taught>>
            /\ obj[Defaults].nodes \cup {t} \subseteq th[t].nodes
        BY <3>0, <3>7 DEF StoreNodes, history, TaughtRequest
      <4>2. obj'[Defaults].nodes = th[t].nodes
        <5>1. Defaults \in DOMAIN obj /\ obj[Defaults] \in Objects
          BY DEF Defaults, TypeInv, SharedTypes
        <5>2. obj'[Defaults] = [obj[Defaults] EXCEPT !.nodes = th[t].nodes]
          BY <3>7, <4>1, <5>1 DEF StoreNodes
        <5>3. QED
          BY <5>1, <5>2 DEF Objects
      <4>3. th'[t].pc = "save" /\ th'[t].o = Defaults
        BY <2>1, <3>7, <4>1 DEF StoreNodes, TypeInv, ThreadRecords
      <4>4. Saved' = Saved
        BY <4>1 DEF Saved
      <4>5. TaughtRequest(th'[t], t, obj'[Defaults].nodes)
        BY <4>1, <4>2, <4>3 DEF TaughtRequest
      <4>6. taught' \subseteq obj'[Defaults].nodes
        BY <3>0, <4>1, <4>2
      <4>7. QED
        BY <1>2, <2>1, <2>3, <3>0, <4>1, <4>4, <4>5, <4>6, TaughtFrame
    <3>8. CASE SaveNetwork(t)
      <4> DEFINE i == FirstFree
      <4>1. i \in Ids /\ th[t].o = Defaults /\ th[t].pc = "save" /\ taught' = taught
        BY <3>0, <3>8, FirstFreeIsFree DEF SaveNetwork, Free, history, TaughtRequest
      <4>2. /\ cache'[i] = Defaults
            /\ \A j \in Ids : j # i => cache'[j] = cache[j] /\ graph'[j] = graph[j]
        BY <3>8, <4>1 DEF SaveNetwork, NodeFor, TypeInv, SharedTypes
      <4>3. \A j \in Saved' : cache'[j] = Defaults
        BY <3>0, <4>2 DEF Saved
      <4>4. obj'[Defaults].nodes = obj[Defaults].nodes
        <5>1. Defaults \in DOMAIN obj /\ obj[Defaults] \in Objects
          BY DEF Defaults, TypeInv, SharedTypes
        <5>2. obj'[Defaults] = [obj[Defaults] EXCEPT !.uid = i]
          BY <3>8, <4>1, <5>1 DEF SaveNetwork, NodeFor
        <5>3. QED
          BY <5>1, <5>2 DEF Objects
      <4>5. th'[t].pc = "children" /\ th'[t].o = Defaults /\ th'[t].then = th[t].then
        BY <2>1, <3>8, <4>1 DEF SaveNetwork, TypeInv, ThreadRecords
      <4>6. TaughtRequest(th'[t], t, obj'[Defaults].nodes)
        BY <3>0, <4>1, <4>4, <4>5 DEF TaughtRequest
      <4>7. QED
        BY <1>2, <2>1, <2>3, <3>0, <4>1, <4>3, <4>4, <4>6, TaughtFrame
    <3>9. ASSUME NEW x \in Concepts, SaveChild(t, x) \/ SaveChildThrows(t, x)
          PROVE  TaughtInv'
      <4> DEFINE j == obj[th[t].o].uid
      <4>1. UNCHANGED <<cache, obj, taught>> /\ th[t].pc = "children"
        BY <3>9 DEF SaveChild, SaveChildThrows, history
      <4>2. \A i \in Ids : graph'[i].exists = graph[i].exists
        <5>1. CASE graph' = [graph EXCEPT ![j].nodes = @ \cup {x}]
          BY <5>1 DEF TypeInv, SharedTypes
        <5>2. CASE graph' = graph
          BY <5>2
        <5>3. QED
          BY <3>9, <5>1, <5>2 DEF SaveChild, SaveChildThrows, WithChild
      <4>3. Saved' = Saved
        BY <4>2 DEF Saved
      <4>4. TaughtRequest(th'[t], t, obj'[Defaults].nodes)
        <5>1. CASE SaveChild(t, x)
          <6>1. /\ th'[t].pc = th[t].pc /\ th'[t].o = th[t].o
                /\ th'[t].then = th[t].then
            BY <2>1, <5>1 DEF SaveChild, TypeInv, ThreadRecords
          <6>2. QED
            BY <3>0, <4>1, <6>1 DEF TaughtRequest
        <5>2. CASE SaveChildThrows(t, x)
          <6>1. th'[t].pc = "failed"
            BY <5>2 DEF SaveChildThrows, End, IdleThread, TypeInv
          <6>2. QED
            BY <6>1 DEF TaughtRequest
        <5>3. QED
          BY <3>9, <5>1, <5>2
      <4>5. QED
        BY <1>2, <2>1, <2>3, <3>0, <4>1, <4>3, <4>4, TaughtFrame
    <3>10. CASE EndSave(t)
      <4>1. UNCHANGED <<graph, cache, obj>> /\ th[t].pc = "children"
        BY <3>10 DEF EndSave
      <4>2. th'[t].pc \in {"load", "done"}
        BY <2>1, <3>10 DEF EndSave, End, IdleThread, TypeInv, ThreadRecords, RequestInv
      <4>3. taught' \subseteq obj'[Defaults].nodes
        BY <3>0, <3>10, <4>1 DEF EndSave, TaughtRequest
      <4>4. Saved' = Saved
        BY <4>1 DEF Saved
      <4>5. TaughtRequest(th'[t], t, obj'[Defaults].nodes)
        BY <4>2 DEF TaughtRequest
      <4>6. QED
        BY <1>2, <2>1, <2>3, <3>0, <4>1, <4>3, <4>4, <4>5, TaughtFrame
    <3>11. QED
      BY <1>2, <3>2, <3>3, <3>4, <3>5, <3>6, <3>7, <3>8, <3>9, <3>10
         DEF Step, Load, Train, Save, FromCache, CacheMiss
  <2>4. QED
    BY <2>2, <2>3
<1>3. CASE CleanDatabase
  <2>1. UNCHANGED <<obj, th, taught, restarts>> /\ cleaned' /\ ~overlap
    BY <1>3 DEF CleanDatabase
  <2>2. QED
    BY <2>1 DEF TaughtInv
<1>4. CASE RestartJVM
  BY <1>4 DEF RestartJVM, TypeInv, SharedTypes
<1>5. CASE UNCHANGED vars
  <2>1. Saved' = Saved
    BY <1>5 DEF vars, history, Saved
  <2>2. QED
    BY <1>5, <2>1 DEF vars, history, TaughtInv
<1>6. QED
  BY <1>1, <1>2, <1>3, <1>4, <1>5, NextCases

\* In the JVM that made the store, and as long as requests come one after the other, a
\* request sees all that the trainings before it taught, however many networks the
\* store holds and whichever of them is read (KBMap.loadFromCache).
THEOREM TrainingsAreSeen == Spec => []TaughtIsLoaded
<1>1. TaughtInv => TaughtIsLoaded
  BY DEF TaughtInv, TaughtIsLoaded
<1>2. QED
  BY <1>1, TypeInit, TypeStep, OpenInit, OpenStep, CacheInit, CacheStep,
     TaughtInit, TaughtStep, PTL DEF Spec

=============================================================================
