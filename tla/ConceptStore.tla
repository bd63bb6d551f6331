----------------------------- MODULE ConceptStore -----------------------------
(***************************************************************************)
(* How the concepts of the domain model get into the Neo4j store and back:  *)
(* ConceptNetwork, Concept and AnnotatedPhrase with their save and load,    *)
(* ModelHelper.checkIfSaved, N4JKB and KBMap, for one request at a time     *)
(* (module KnowledgeBase has the requests that overlap and the crashes).    *)
(*                                                                          *)
(* Objects refer to each other in cycles.  Saving walks over them and keeps *)
(* a list of the uids it has saved; an object whose uid is in the list is   *)
(* only linked.  The uid of a saved object is the number of its node, and   *)
(* the uid of a new concept is a random number: both are in one list.       *)
(*                                                                          *)
(* The ends of links, and the concepts of a phrase, are not loaded but      *)
(* copied: the copy has the uid of the original and nothing else.           *)
(*                                                                          *)
(* Left out: the links of the network itself.  They are saved without the   *)
(* list and have no children, and what a load makes of them is not saved.   *)
(***************************************************************************)
EXTENDS Integers, Sequences, SequencesExt, Functions, FiniteSets, Lists

CONSTANTS
    Words,          \* words that are taught
    Uids,           \* what Random.nextInt may answer (a bound; 0 is left out)
    MaxTrainings,   \* a bound
    MaxRestarts     \* a bound

ASSUME StoreAssumption ==
    /\ Uids \subseteq Nat \ {0}
    /\ MaxTrainings \in Nat
    /\ MaxRestarts \in Nat

VARIABLES
    obj,            \* the objects of this JVM
    cache,          \* KBMap.id2object
    node,           \* the store: names of its nodes; node 0 is the reference node
    rel,            \* the store: relationships
    model,          \* the network that the request has loaded
    pc,             \* idle, loaded, trained, saved, failed or broken
    misled,         \* history: objects that the last save took for saved, and were not
    before,         \* history: the versions as they were before the last save
    drawn,          \* history: the random uids of this JVM
    trainings,
    restarts

vars == <<obj, cache, node, rel, model, pc, misled, before, drawn, trainings, restarts>>

NoUid == -1
None == 0
Root == 0
Orders == {"up", "down"}

-----------------------------------------------------------------------------
(* Objects                                                                  *)

\* A key is a name and a uid.
NoKey == <<>>
NameKey(name) == <<<<name>>, NoUid>>

Object(kind, name, uid) ==
    [kind |-> kind, name |-> name, uid |-> uid, key |-> NoKey, nodes |-> <<>>,
     generalisations |-> <<>>, specialisations |-> <<>>, phrases |-> <<>>,
     concepts |-> <<>>, links |-> <<>>]

\* KnowledgeURI.uri() is kept when it is first asked for, with the uid of that time.
Asked(x) == [x EXCEPT !.key = IF @ = NoKey THEN <<x.name, x.uid>> ELSE @]

ConceptLink(name, s, d) == [name |-> name, source |-> s, destination |-> d]

\* Defaults, reduced to one concept of each sort.
DefaultObjects ==
    LET has == ConceptLink("has", 3, 4)
        concept(n) == Object("concept", <<n>>, NoUid)
        phrase(n, c) == [Object("phrase", <<n>>, NoUid) EXCEPT !.concepts = <<c>>]
    IN  << [Object("network", <<"domainModel">>, NoUid) EXCEPT !.nodes = <<2, 3, 4, 5>>],
           [concept("concept") EXCEPT !.specialisations = <<3, 4, 5>>],
           [concept("subject") EXCEPT !.generalisations = <<2>>, !.phrases = <<6>>,
                                      !.links = <<has>>],
           [concept("object") EXCEPT !.generalisations = <<2>>, !.phrases = <<7>>,
                                     !.links = <<has>>],
           [concept("be") EXCEPT !.generalisations = <<2>>],
           [phrase("subject", 3) EXCEPT !.phrases = <<8>>],
           phrase("object", 4),
           Object("phrase", <<"subject", "EmptyPhrase">>, NoUid) >>
Default == 1

Init ==
    /\ obj = DefaultObjects
    /\ cache = <<>>
    /\ node = <<>>
    /\ rel = {}
    /\ model = None
    /\ pc = "idle"
    /\ misled = {}
    /\ before = <<>>
    /\ drawn = <<>>
    /\ trainings = 0
    /\ restarts = 0

-----------------------------------------------------------------------------
(* save                                                                     *)

\* The relationships that a load follows.
Structure == {"nodes", "generalisations", "specialisations", "phrases"}

\* What the save of an object saves after it, in order: the ends of links under the name
\* of the link, the others under their uri.
Children(x, n) ==
    LET call(type, o, key) == [from |-> n, type |-> type, key |-> key, to |-> o]
        part(type, s) == MapSeq(LAMBDA o : call(type, o, NoKey), s)
        ends(l) == <<call("source", l.source, NameKey(l.name)),
                     call("destination", l.destination, NameKey(l.name))>>
    IN  part("nodes", x.nodes)
            \o part("rootNodes", x.nodes)
            \o part("generalisations", x.generalisations)
            \o part("specialisations", x.specialisations)
            \o part("phrases", x.phrases)
            \o part("concepts", x.concepts)
            \o FlattenSeq(MapSeq(ends, x.links))

\* Mutant: an object without uid is not let through.
CheckIfSaved_Empty(st, o) == st.obj[o].uid \in st.saved

\* ModelHelper.checkIfSaved
CheckIfSaved(st, o) == st.obj[o].uid # NoUid /\ st.obj[o].uid \in st.saved

Relationship(e, key, n) == [from |-> e.from, type |-> e.type, key |-> key, to |-> n]

\* Neither the object nor, at the end of a link, another one of its name was saved.
Misled(st, e) ==
    /\ e.to \notin st.done
    /\ \/ e.type \in Structure
       \/ \A o \in st.done : st.obj[o].name # st.obj[e.to].name

\* Mutant: a relationship to a node that is not there.
CreateLink_Unchecked(st, e, key) ==
    [st EXCEPT !.rel = @ \cup {Relationship(e, key, st.obj[e.to].uid)},
               !.misled = IF Misled(st, e) THEN @ \cup {e.to} ELSE @]

\* createLink: an exception if there is no node with the uid.
CreateLink(st, e, key) ==
    LET n == st.obj[e.to].uid
        exists == n \in 0 .. Len(st.node)
    IN  [st EXCEPT
            !.ok = exists,
            !.rel = IF exists THEN @ \cup {Relationship(e, key, n)} ELSE @,
            !.misled = IF Misled(st, e) THEN @ \cup {e.to} ELSE @]

\* Mutant: the node of an object that has one is used again.
NodeFor_Same(st, o) ==
    IF st.obj[o].uid \in DOMAIN st.node THEN st.obj[o].uid ELSE Len(st.node) + 1

\* createNode
NodeFor(st, o) == Len(st.node) + 1

\* KBMap.register
Register(cached, n, o) ==
    [m \in DOMAIN cached \cup {n} |-> IF m = n THEN o ELSE cached[m]]

\* saveResource, and the uids that checkIfSaved and appendToSave add to
\* the list; what the object refers to is next.
SaveResource(st, e, key) ==
    LET n == NodeFor(st, e.to)
    IN  [st EXCEPT
            !.node = IF n \in DOMAIN @ THEN @ ELSE Append(@, st.obj[e.to].name),
            !.rel = @ \cup {Relationship(e, key, n)},
            !.obj[e.to].uid = n,
            !.cache = Register(st.cache, n, e.to),
            !.saved = @ \cup {st.obj[e.to].uid, n},
            !.done = @ \cup {e.to},
            !.todo = Children(st.obj[e.to], n) \o @]

\* ConceptNetwork.save, Concept.save, AnnotatedPhrase.save.  The calls that are still to
\* be made are todo, with the innermost ones first; all calls share one list.  This is
\* one call.
SaveCall(st) ==
    LET e == Head(st.todo)
        x == IF e.key = NoKey THEN Asked(st.obj[e.to]) ELSE st.obj[e.to]
        key == IF e.key = NoKey THEN x.key ELSE e.key
        called == [st EXCEPT !.obj[e.to] = x, !.todo = Tail(@)]
    IN  IF ~st.ok \/ st.todo = <<>> THEN st
        ELSE IF CheckIfSaved(called, e.to) THEN CreateLink(called, e, key)
        ELSE SaveResource(called, e, key)

\* An object is saved once, with one call for everything it refers to.
MaxCalls == 1 + Len(FlattenSeq(MapSeq(LAMBDA x : Children(x, Root), obj)))

\* All the calls.
SaveAll(st) ==
    LET after[n \in Nat] == IF n = 0 THEN st ELSE SaveCall(after[n - 1])
    IN  after[MaxCalls]

\* LongTermMemory.saveModel
Save(m) ==
    SaveAll([obj |-> obj, cache |-> cache, node |-> node, rel |-> rel, saved |-> {},
             done |-> {}, misled |-> {}, ok |-> TRUE,
             todo |-> <<[from |-> Root, type |-> "default", key |-> NameKey("domain"),
                         to |-> m]>>])

-----------------------------------------------------------------------------
(* load                                                                     *)

\* getRelationships: those that leave the node and those that enter it.
Related(n, type) == {r \in rel : r.type = type /\ n \in {r.from, r.to}}

\* Mutant: the relationships that enter the node are not told from its own.
LoadChildrenMap_Self(n, type) ==
    LET rs == Related(n, type)
    IN  {CHOOSE r \in rs : r.key = k : k \in {r.key : r \in rs}}

\* loadChildrenMap: for each key a child; a node is not its own child.
LoadChildrenMap(n, type) ==
    LET rs == {r \in Related(n, type) : r.to # n}
    IN  {CHOOSE r \in rs : r.key = k : k \in {r.key : r \in rs}}

\* loadChild: the first relationship with the key.
LoadChild(n, type, key) == (CHOOSE r \in Related(n, type) : r.key = key).to

\* The order of a HashMap is any order; here it is that of the nodes, up or down.
InOrder(ns, order) ==
    LET up == Keep([i \in DOMAIN node |-> i], ns)
    IN  IF order = "up" THEN up ELSE Reverse(up)

LoadedNodes(n, type) ==
    {LoadChild(n, type, r.key) : r \in LoadChildrenMap(n, type)} \cap DOMAIN node
LoadedChildren(n, type, order) == InOrder(LoadedNodes(n, type), order)

\* What each load reads, and as what.
Reads ==
    [network |-> <<"nodes">>,
     concept |-> <<"generalisations", "specialisations", "phrases">>,
     phrase |-> <<"phrases">>]
KindOf(type) == IF type = "phrases" THEN "phrase" ELSE "concept"

\* new Concept(map)
Copy(n) == Object("concept", node[n], n)

\* The links of a concept: the map of the sources is read for the destinations, too.
Sources(n, kind) == IF kind = "concept" THEN SetToSeq(LoadChildrenMap(n, "source")) ELSE <<>>
\* The concepts of a phrase.
Concepts(n, kind) == IF kind = "phrase" THEN SetToSeq(LoadChildrenMap(n, "concepts")) ELSE <<>>
Copies(n, kind) ==
    FlattenSeq(MapSeq(LAMBDA r : <<Copy(r.to), Copy(r.to)>>, Sources(n, kind)))
        \o MapSeq(LAMBDA r : Copy(r.to), Concepts(n, kind))

\* What is read of some nodes.  An object that is in the cache is taken from there
\* (KBMap.loadFromCache), with all that it refers to.
ReadFrom(cached, found) ==
    LET children(n, type) == {<<c, KindOf(type)>> : c \in LoadedNodes(n, type)}
        read(n, kind) == UNION {children(n, type) : type \in Range(Reads[kind])}
    IN  found \cup UNION {read(p[1], p[2]) : p \in {p \in found : p[1] \notin cached}}

\* The nodes that a load of a network comes to, each with the class it is loaded as.
Reached(cached, n) ==
    LET reach[found \in SUBSET ((DOMAIN node) \X (DOMAIN Reads))] ==
            IF ReadFrom(cached, found) = found THEN found ELSE reach[ReadFrom(cached, found)]
    IN  reach[{<<n, "network">>}]

\* The object of a node.  Its parts are in the cache by now, at is where its copies begin.
Loaded(n, kind, inCache, at, order) ==
    LET part(type) ==
            IF type \in Range(Reads[kind])
            THEN MapSeq(LAMBDA c : inCache[c], LoadedChildren(n, type, order)) ELSE <<>>
        sources == Sources(n, kind)
    IN  [Object(kind, node[n], n) EXCEPT
            !.nodes = part("nodes"),
            !.generalisations = part("generalisations"),
            !.specialisations = part("specialisations"),
            !.phrases = part("phrases"),
            !.links = [j \in DOMAIN sources |->
                        ConceptLink(sources[j].key[1][1], at + 2 * j - 1, at + 2 * j)],
            !.concepts = [j \in DOMAIN Concepts(n, kind) |-> at + j]]

\* ConceptNetwork.load, Concept.load and AnnotatedPhrase.load: an object for every node.
\* A node that is wanted as two classes, or is in the cache as another one, is a
\* ClassCastException.
Load(st, n, order) ==
    LET reached == Reached(DOMAIN st.cache, n)
        new == InOrder({p[1] : p \in reached} \ DOMAIN st.cache, "up")
        kind == [m \in Range(new) |-> (CHOOSE p \in reached : p[1] = m)[2]]
        inCache == [m \in Range(new) \cup DOMAIN st.cache |->
                        IF m \in Range(new) THEN Len(st.obj) + CHOOSE i \in DOMAIN new : new[i] = m
                        ELSE st.cache[m]]
        copies == MapSeq(LAMBDA m : Copies(m, kind[m]), new)
        at(i) == Len(st.obj) + Len(new) + Len(FlattenSeq(SubSeq(copies, 1, i - 1)))
        class(m) == IF m \in DOMAIN kind THEN kind[m] ELSE st.obj[st.cache[m]].kind
    IN  [obj |-> st.obj \o [i \in DOMAIN new |->
                                Loaded(new[i], kind[new[i]], inCache, at(i), order)]
                        \o FlattenSeq(copies),
         cache |-> inCache,
         ok |-> \A p \in reached : p[2] = class(p[1])]

Versions == {r.to : r \in Related(Root, "default")}

\* What a new JVM would load.
NewJVM(n, order) == Load([obj |-> <<>>, cache |-> <<>>], n, order)

-----------------------------------------------------------------------------
(* LongTermMemory.someModel, and a training                                 *)

Saved(st) ==
    /\ obj' = st.obj
    /\ cache' = st.cache
    /\ node' = st.node
    /\ rel' = st.rel
    /\ misled' = st.misled
    /\ before' = [n \in Versions |-> NewJVM(n, "up")]

\* There is no model: save the default one and load it, from the cache.
NoModel ==
    /\ pc = "idle"
    /\ Versions = {}
    /\ LET st == Save(Default)
       IN  /\ Saved(st)
           /\ pc' = IF st.ok THEN "loaded" ELSE "failed"
           /\ model' = Default
    /\ UNCHANGED <<drawn, trainings, restarts>>

\* loadChild takes the first of the versions that were saved, whichever that is.  After a
\* load that failed the cache has objects without parts: this JVM is not followed further.
LoadModel(n, order) ==
    /\ pc = "idle"
    /\ n \in Versions
    /\ LET st == Load([obj |-> obj, cache |-> cache], n, order)
       IN  /\ obj' = st.obj
           /\ cache' = st.cache
           /\ pc' = IF st.ok THEN "loaded" ELSE "broken"
           /\ model' = IF st.ok THEN st.cache[n] ELSE None
    /\ UNCHANGED <<node, rel, misled, before, drawn, trainings, restarts>>

\* The first concept of the model with a name (checkLocalKB).
Named(name) == Keep(obj[model].nodes, {o \in DOMAIN obj : obj[o].name = <<name>>})

Be == Head(Named("be"))
CanTrain(w) ==
    /\ pc = "loaded"
    /\ trainings < MaxTrainings
    /\ Named(w) = <<>> /\ Named("be") # <<>> /\ Named("object") # <<>>

\* LinkParser on "w is an object": a concept of w with its phrase, and links from the
\* concept of the verb, which is shared.
Parsed(w, uid) ==
    [obj EXCEPT ![Be].links = @ \o <<ConceptLink("subj", Be, Len(obj) + 1),
                                     ConceptLink("obj", Be, Head(Named("object")))>>]
        \o << [Object("concept", <<w>>, uid) EXCEPT !.phrases = <<Len(obj) + 2>>],
              [Object("phrase", <<w>>, NoUid) EXCEPT !.concepts = <<Len(obj) + 1>>] >>

\* createDomainConcepts: a parent for both; the one of the verb has its links, and what
\* they call its objects as generalisations.
WithParents(parsed) ==
    LET n == Len(parsed)
        parent(o) == Object("concept", parsed[o].name \o <<"Concept">>, NoUid)
        all == parsed[Be].links
        objects == Keep(all, {l \in Range(all) : l.name = "obj"})
    IN  [parsed EXCEPT ![n - 1].generalisations = <<n + 1>>,
                       ![Be].generalisations = Append(@, n + 2)]
            \o << parent(n - 1),
                  [parent(Be) EXCEPT
                      !.links = all,
                      !.generalisations = MapSeq(LAMBDA l : l.destination, objects)] >>

\* findInTarget: concepts without a phrase are not looked for.
InTarget(objs) == {o \in Range(objs[model].nodes) : objs[o].phrases # <<>>}

\* findPathToTarget from the concept of the verb: the other ends of its links that lead to
\* no concept of the model come first: w, and words of trainings that failed.
PathToTarget(objs) ==
    LET end(l) == IF l.source = Be THEN l.destination ELSE l.source
        leaves == Keep(MapSeq(end, objs[Be].links), DOMAIN objs \ InTarget(objs))
    IN  leaves \o <<Be, Head(Named("object"))>>

\* A training that ends well: the path to the concept of object is added to the nodes of
\* the model.
Train(w, uid) ==
    /\ CanTrain(w)
    /\ LET parsed == Parsed(w, uid)
       IN  obj' = [WithParents(parsed) EXCEPT ![model].nodes = @ \o PathToTarget(parsed)]
    /\ drawn' = Append(drawn, uid)
    /\ trainings' = trainings + 1
    /\ pc' = "trained"
    /\ UNCHANGED <<cache, node, rel, model, misled, before, restarts>>

\* One that fails after LinkParser: the links stay.
FailedTraining(w, uid) ==
    /\ CanTrain(w)
    /\ obj' = Parsed(w, uid)
    /\ drawn' = Append(drawn, uid)
    /\ trainings' = trainings + 1
    /\ pc' = "failed"
    /\ UNCHANGED <<cache, node, rel, model, misled, before, restarts>>

SaveModel ==
    /\ pc = "trained"
    /\ LET st == Save(model)
       IN  /\ Saved(st)
           /\ pc' = IF st.ok THEN "saved" ELSE "failed"
    /\ UNCHANGED <<model, drawn, trainings, restarts>>

\* The next request.
NextRequest ==
    /\ pc \in {"loaded", "saved", "failed"}
    /\ trainings < MaxTrainings
    /\ pc' = "idle"
    /\ model' = None
    /\ before' = <<>>
    /\ UNCHANGED <<obj, cache, node, rel, misled, drawn, trainings, restarts>>

\* A new JVM: the store is what is left.
RestartJVM ==
    /\ restarts < MaxRestarts
    /\ restarts' = restarts + 1
    /\ obj' = DefaultObjects
    /\ cache' = <<>>
    /\ model' = None
    /\ pc' = "idle"
    /\ misled' = {}
    /\ before' = <<>>
    /\ drawn' = <<>>
    /\ UNCHANGED <<node, rel, trainings>>

Next ==
    \/ NoModel
    \/ \E n \in DOMAIN node, order \in Orders : LoadModel(n, order)
    \/ \E w \in Words, uid \in Uids : Train(w, uid)
    \/ \E w \in Words, uid \in Uids : FailedTraining(w, uid)
    \/ SaveModel
    \/ NextRequest
    \/ RestartJVM

Spec == Init /\ [][Next]_vars

-----------------------------------------------------------------------------
(* Properties                                                               *)

ObjectOK(x) ==
    /\ x.kind \in {"network", "concept", "phrase"}
    /\ x.uid \in Nat \cup {NoUid}
    /\ \A type \in Structure \cup {"concepts"} : Range(x[type]) \subseteq DOMAIN obj
    /\ \A l \in Range(x.links) : {l.source, l.destination} \subseteq DOMAIN obj

\* Objects refer to objects of this JVM, the cache and the relationships to nodes of the
\* store (KBMap.id2object, createLink).
TypeOK ==
    /\ \A o \in DOMAIN obj : ObjectOK(obj[o])
    /\ \A n \in DOMAIN cache : n \in DOMAIN node /\ cache[n] \in DOMAIN obj
    /\ \A r \in rel : r.from \in 0 .. Len(node) /\ r.to \in 0 .. Len(node)
    /\ model \in 0 .. Len(obj)
    /\ pc \in {"idle", "loaded", "trained", "saved", "failed", "broken"}
    /\ misled \subseteq DOMAIN obj
    /\ trainings \in 0 .. MaxTrainings
    /\ restarts \in 0 .. MaxRestarts

\* A network that was saved is there after a restart: every load succeeds, whatever
\* the order, gives one object for one object, of its class and name, with children that
\* are its children, one at least for every key.  (Parents that createDomainConcepts made
\* for one concept in two trainings have one key, and links of a concept are not loaded.)
\* This is so in the first JVM and in later ones, unless checkIfSaved was misled.
RoundTrip ==
    pc = "saved" /\ misled = {} =>
        \A order \in Orders :
            LET root == obj[model].uid
                new == NewJVM(root, order)
            IN  /\ new.ok
                /\ \A n \in DOMAIN new.cache :
                    LET l == new.obj[new.cache[n]]
                        o == obj[cache[n]]
                    IN  /\ n \in DOMAIN cache /\ o.uid = n
                        /\ l.kind = o.kind /\ l.name = o.name
                        /\ \A type \in Range(Reads[o.kind]) :
                            LET loaded == {new.obj[c].uid : c \in Range(l[type])}
                                of(k) == {obj[c].uid : c \in {c \in Range(o[type]) : obj[c].key = k}}
                                keys == {obj[c].key : c \in Range(o[type])}
                            IN  /\ loaded \subseteq UNION {of(k) : k \in keys}
                                /\ \A k \in keys : of(k) \cap loaded # {}

\* A later save leaves every version that was saved before as it was: any of them may be
\* the one that the next JVM loads, and none is a mixture of two (saveResource creates
\* nodes, and relationships leave new nodes only).
VersionsAreStable == \A n \in DOMAIN before : NewJVM(n, "up") = before[n]

\* In the JVM that made the store, a save takes an object for saved that is not only if a
\* random uid is the number of a node, or of another new concept (checkIfSaved).
OnlyClashesMislead ==
    restarts = 0 /\ misled # {} =>
        \/ Range(drawn) \cap DOMAIN node # {}
        \/ ~IsInjective(drawn)

\* A save throws only if two of the random uids of this JVM are the same number: the second
\* one is taken for saved, and no node has its number (checkIfSaved, createLink).  What a
\* restart left, or what trainings that failed left, does not make it throw.
OnlyTwinsThrow ==
    [][pc' = "failed" /\ trainings' = trainings => ~IsInjective(drawn)]_vars

\* ModelHelper.checkIfSaved: "check if resource already saved, if yes just create link".
AlreadySaved == misled = {}
===============================================================================
