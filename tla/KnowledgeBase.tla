---------------------------- MODULE KnowledgeBase ----------------------------
(***************************************************************************)
(* The long term memory of the domain model: the Neo4j store (N4JKB), the   *)
(* cache of loaded objects (KBMap), LongTermMemory.someModel and saveModel, *)
(* and ConceptNetwork.load and save.                                        *)
(*                                                                          *)
(* A request loads the model of its domain; the first one ever finds none   *)
(* and saves the default model, one object for the whole JVM.  A training   *)
(* adds nodes to the object it loaded and saves it.  Saving makes a new     *)
(* node for the network and then one per concept, each in a transaction of  *)
(* its own, under the node the network is registered with at that moment.   *)
(* Nothing in these classes is synchronised, and the web application runs   *)
(* requests in parallel.                                                    *)
(*                                                                          *)
(* initializeGlobalContext loads the model three times, by the same steps;  *)
(* the model follows the first load, the one whose object a training        *)
(* changes and saves.                                                       *)
(***************************************************************************)
EXTENDS Integers, Sequences, FiniteSets

CONSTANTS
    Threads,        \* requests, one per thread
    Trainers,       \* the requests that train
    DefaultNodes,   \* concepts of Defaults.domainModelConceptNetwork
    MaxNodes,       \* nodes of the store (a bound)
    MaxRestarts     \* starts of a new JVM (a bound)

ASSUME KBAssumption ==
    /\ Trainers \subseteq Threads
    /\ DefaultNodes # {}
    /\ DefaultNodes \cap Threads = {}
    /\ MaxNodes \in Nat \ {0}
    /\ MaxRestarts \in Nat

VARIABLES
    db,             \* _GraphDb: not opened, open, or shut down
    inited,         \* N4JKB.inited
    graph,          \* node -> the concepts below it, if it is a saved network
    cache,          \* KBMap.id2object: node -> object
    obj,            \* the ConceptNetwork objects of this JVM; the first is the default
    th,             \* thread -> where its request is
    restarts,       \* JVMs started so far
    taught,         \* history: what trainings that ended taught, in this JVM
    overlap,        \* history: requests, or a request and a clean, overlapped
    cleaned,        \* history: cleanDatabase has returned, in this JVM
    clash           \* history: a training saved a concept with a random uid that was taken

history == <<restarts, taught, overlap, cleaned, clash>>
vars == <<db, inited, graph, cache, obj, th, history>>

Ids == 1 .. MaxNodes
None == 0
Concepts == DefaultNodes \cup Trainers   \* a training teaches a concept of its own
Defaults == 1
Saved == {i \in Ids : graph[i].exists}
Free == Ids \ Saved
FirstFree == CHOOSE i \in Free : \A j \in Free : i <= j

DefaultObject == [nodes |-> DefaultNodes, filled |-> TRUE, uid |-> None]
IdleThread == [pc |-> "idle", id |-> None, o |-> None, nodes |-> {}, todo |-> {},
               then |-> "none"]
Active(t) == th[t].pc \notin {"idle", "done", "failed"}

Init ==
    /\ db = "none"
    /\ inited = FALSE
    /\ graph = [i \in Ids |-> [exists |-> FALSE, nodes |-> {}]]
    /\ cache = [i \in Ids |-> None]
    /\ obj = <<DefaultObject>>
    /\ th = [t \in Threads |-> IdleThread]
    /\ restarts = 0
    /\ taught = {}
    /\ overlap = FALSE
    /\ cleaned = FALSE
    /\ clash = FALSE

Goto(t, pc) == th' = [th EXCEPT ![t].pc = pc]
End(t, pc) == th' = [th EXCEPT ![t] = [IdleThread EXCEPT !.pc = pc]]

-----------------------------------------------------------------------------
(* N4JKB.apply                                                              *)

Begin(t) ==
    /\ th[t].pc = "idle"
    /\ Goto(t, IF inited THEN "load" ELSE "open")
    /\ overlap' = (overlap \/ \E s \in Threads : Active(s))
    /\ UNCHANGED <<db, inited, graph, cache, obj, restarts, taught, cleaned, clash>>

\* Mutant: inited is not set.
Opened_NotInited == db' = "up" /\ UNCHANGED inited

Opened == db' = "up" /\ inited' = TRUE

\* new EmbeddedGraphDatabase.  The store is locked by the database that has it open:
\* of two threads that both found inited false, the second gets an exception.
Open(t) ==
    /\ th[t].pc = "open"
    /\ IF db # "up"
       THEN Opened /\ Goto(t, "load")
       ELSE UNCHANGED <<db, inited>> /\ End(t, "failed")
    /\ UNCHANGED <<graph, cache, obj, history>>

\* Every access to a database that is shut down throws.
AccessThrows(t) ==
    /\ db = "down"
    /\ th[t].pc \in {"load", "fill", "save", "children"}
    /\ End(t, "failed")
    /\ UNCHANGED <<db, inited, graph, cache, obj, history>>

-----------------------------------------------------------------------------
(* LongTermMemory.someModel and ConceptNetwork.load                         *)

\* loadChild: the first relationship with the key.  Saving never replaces a node,
\* so there may be several, and Neo4j promises no order.
LoadChild(t, i) ==
    /\ th[t].pc = "load"
    /\ db = "up"
    /\ i \in Saved
    /\ th' = [th EXCEPT ![t].pc = "cache", ![t].id = i]
    /\ UNCHANGED <<db, inited, graph, cache, obj, history>>

\* There is no model: save the default one, and load it again.
NoModel(t) ==
    /\ th[t].pc = "load"
    /\ db = "up"
    /\ Saved = {}
    /\ th' = [th EXCEPT ![t].pc = "save", ![t].o = Defaults, ![t].then = "load"]
    /\ UNCHANGED <<db, inited, graph, cache, obj, history>>

\* ConceptNetwork.load returns.
Loaded(t, o) == th' = [th EXCEPT ![t].pc = "loaded", ![t].id = None, ![t].o = o]

\* Mutant: objects are not looked up in the cache.
CacheHit_Never(i) == FALSE

\* KBMap.loadFromCache
CacheHit(i) == cache[i] # None

FromCache(t) ==
    /\ th[t].pc = "cache"
    /\ CacheHit(th[t].id)
    /\ Loaded(t, cache[th[t].id])
    /\ UNCHANGED <<db, inited, graph, cache, obj, history>>

\* It is not cached.  Another request may find the same before this one registers
\* its object.
CacheMiss(t) ==
    /\ th[t].pc = "cache"
    /\ ~CacheHit(th[t].id)
    /\ Goto(t, "create")
    /\ UNCHANGED <<db, inited, graph, cache, obj, history>>

\* A network without nodes is registered, and filled afterwards.
NewObject(t) ==
    /\ th[t].pc = "create"
    /\ obj' = Append(obj, [nodes |-> {}, filled |-> FALSE, uid |-> th[t].id])
    /\ cache' = [cache EXCEPT ![th[t].id] = Len(obj) + 1]
    /\ th' = [th EXCEPT ![t].pc = "fill", ![t].o = Len(obj) + 1]
    /\ UNCHANGED <<db, inited, graph, history>>

\* Mutant: the nodes are loaded and not assigned.
FillObject_Null(t) ==
    /\ th[t].pc = "fill"
    /\ db = "up"
    /\ Loaded(t, th[t].o)
    /\ UNCHANGED <<db, inited, graph, cache, obj, history>>

FillObject(t) ==
    /\ th[t].pc = "fill"
    /\ db = "up"
    /\ obj' = [obj EXCEPT ![th[t].o].nodes = graph[th[t].id].nodes, ![th[t].o].filled = TRUE]
    /\ Loaded(t, th[t].o)
    /\ UNCHANGED <<db, inited, graph, cache, history>>

\* A node below the network is not a concept: a save took a new concept for one that
\* is saved, and linked what its uid names (module ConceptStore).  The object stays in
\* the cache, without nodes.
FillObjectThrows(t) ==
    /\ th[t].pc = "fill"
    /\ db = "up"
    /\ clash
    /\ End(t, "failed")
    /\ UNCHANGED <<db, inited, graph, cache, obj, history>>

-----------------------------------------------------------------------------
(* ThinkingLifeCycleMinimal.apply(TrainingRequest), after runGoals.         *)

\* Mutant: model.nodes :: r.nodes, the list becomes an element.
Extended_Nested(t) == {obj[th[t].o].nodes} \cup {t}

\* model.nodes ::: r.nodes
Extended(t) == obj[th[t].o].nodes \cup {t}

\* The nodes are null while another thread fills the object.  The new concepts, and
\* those that failed trainings left linked to the old ones, have random uids, and one
\* of them may be the uid of another concept or the number of a node
\* (createInstanceConcept).
Learn(t) ==
    /\ t \in Trainers
    /\ th[t].pc = "loaded"
    /\ IF obj[th[t].o].filled
       THEN /\ th' = [th EXCEPT ![t].pc = "store", ![t].nodes = Extended(t)]
            /\ clash' \in {clash, TRUE}
       ELSE /\ End(t, "failed")
            /\ UNCHANGED clash
    /\ UNCHANGED <<db, inited, graph, cache, obj, restarts, taught, overlap, cleaned>>

\* A request that trains nothing ends with the goals.
Answer(t) ==
    /\ t \notin Trainers
    /\ th[t].pc = "loaded"
    /\ End(t, "done")
    /\ UNCHANGED <<db, inited, graph, cache, obj, history>>

StoreNodes(t) ==
    /\ th[t].pc = "store"
    /\ obj' = [obj EXCEPT ![th[t].o].nodes = th[t].nodes]
    /\ th' = [th EXCEPT ![t].pc = "save", ![t].then = "done"]
    /\ UNCHANGED <<db, inited, graph, cache, history>>

-----------------------------------------------------------------------------
(* ConceptNetwork.save                                                      *)

\* Mutant: the new node is the one the object was loaded from, emptied.
NodeFor_Same(o) == IF obj[o].uid = None THEN FirstFree ELSE obj[o].uid

\* createNode: a new node at every save.
NodeFor(o) == FirstFree

\* saveResource: a node for the network, and KBMap.register.
SaveNetwork(t) ==
    /\ th[t].pc = "save"
    /\ db = "up"
    /\ Free # {}
    /\ LET o == th[t].o
           i == NodeFor(o)
       IN  /\ graph' = [graph EXCEPT ![i] = [exists |-> TRUE, nodes |-> {}]]
           /\ cache' = [cache EXCEPT ![i] = o]
           /\ obj' = [obj EXCEPT ![o].uid = i]
           /\ th' = [th EXCEPT ![t].pc = "children", ![t].nodes = obj[o].nodes,
                               ![t].todo = obj[o].nodes]
    /\ UNCHANGED <<db, inited, history>>

\* The node of a network, with concept x below it; the reference node, which is not
\* in graph, is taken when there is no such node (getNodeById).
WithChild(i, x) ==
    IF graph[i].exists THEN [graph EXCEPT ![i].nodes = @ \cup {x}] ELSE graph

\* x.save(kb, KBNodeId(this), ...), with all that x leads to: below the node that the
\* network's URI names now.
SaveChild(t, x) ==
    /\ th[t].pc = "children"
    /\ db = "up"
    /\ x \in th[t].todo
    /\ graph' = WithChild(obj[th[t].o].uid, x)
    /\ th' = [th EXCEPT ![t].todo = @ \ {x}]
    /\ UNCHANGED <<db, inited, cache, obj, history>>

\* checkIfSaved finds the uid of a concept that is not saved yet, and there is no node
\* of that number to link: createLink throws, for x itself or for a concept that x
\* leads to and that comes after it.
SaveChildThrows(t, x) ==
    /\ th[t].pc = "children"
    /\ db = "up"
    /\ x \in th[t].todo
    /\ clash
    /\ graph' \in {graph, WithChild(obj[th[t].o].uid, x)}
    /\ End(t, "failed")
    /\ UNCHANGED <<db, inited, cache, obj, history>>

EndSave(t) ==
    /\ th[t].pc = "children"
    /\ th[t].todo = {}
    /\ End(t, th[t].then)
    /\ taught' = IF th[t].then = "done" THEN taught \cup {t} ELSE taught
    /\ UNCHANGED <<db, inited, graph, cache, obj, restarts, overlap, cleaned, clash>>

-----------------------------------------------------------------------------
\* Mutant: the database is opened again, and the cache keeps its objects.
Reopen_StaleCache == db' = "up"

\* N4JKB.apply() at the end of clean: inited is still true, so nothing is opened.
Reopen == db' = IF inited' THEN "down" ELSE "up"

\* KBAdapter.cleanDatabase, N4JKB.clean: open if need be, shut down, delete, reinit.
CleanDatabase ==
    /\ ~cleaned
    /\ graph' = [i \in Ids |-> [exists |-> FALSE, nodes |-> {}]]
    /\ inited' = TRUE
    /\ Reopen
    /\ cleaned' = TRUE
    /\ overlap' = (overlap \/ \E s \in Threads : Active(s))
    /\ UNCHANGED <<cache, obj, th, restarts, taught, clash>>

\* The JVM ends at any moment and a new one starts; the store is what is left.
RestartJVM ==
    /\ restarts < MaxRestarts
    /\ restarts' = restarts + 1
    /\ db' = "none"
    /\ inited' = FALSE
    /\ cache' = [i \in Ids |-> None]
    /\ obj' = <<DefaultObject>>
    /\ th' = [t \in Threads |-> IF Active(t) THEN [IdleThread EXCEPT !.pc = "failed"]
                                ELSE [IdleThread EXCEPT !.pc = th[t].pc]]
    /\ taught' = {}
    /\ overlap' = FALSE
    /\ cleaned' = FALSE
    /\ UNCHANGED <<graph, clash>>

-----------------------------------------------------------------------------
Load(t) == (\E i \in Ids : LoadChild(t, i)) \/ NoModel(t)
                \/ FromCache(t) \/ CacheMiss(t) \/ NewObject(t)
                \/ FillObject(t) \/ FillObjectThrows(t)
Train(t) == Learn(t) \/ StoreNodes(t) \/ Answer(t)
Save(t) == SaveNetwork(t) \/ (\E x \in Concepts : SaveChild(t, x) \/ SaveChildThrows(t, x))
                \/ EndSave(t)

Next ==
    \/ \E t \in Threads :
          \/ Begin(t)
          \/ Open(t)
          \/ AccessThrows(t)
          \/ Load(t)
          \/ Train(t)
          \/ Save(t)
    \/ CleanDatabase
    \/ RestartJVM

Spec == Init /\ [][Next]_vars

-----------------------------------------------------------------------------
ThreadOK(r) ==
    /\ r.pc \in {"idle", "open", "load", "cache", "create", "fill", "loaded", "store",
                 "save", "children", "done", "failed"}
    /\ r.id \in Ids \cup {None}
    /\ r.o \in 0 .. Len(obj)
    /\ r.nodes \subseteq Concepts
    /\ r.todo \subseteq Concepts
    /\ r.then \in {"none", "load", "done"}

TypeOK ==
    /\ db \in {"none", "up", "down"}
    /\ inited \in BOOLEAN
    /\ graph \in [Ids -> [exists : BOOLEAN, nodes : SUBSET Concepts]]
    /\ cache \in [Ids -> 0 .. Len(obj)]
    /\ \A o \in DOMAIN obj : obj[o] \in [nodes : SUBSET Concepts, filled : BOOLEAN,
                                         uid : Ids \cup {None}]
    /\ \A t \in Threads : ThreadOK(th[t])
    /\ restarts \in 0 .. MaxRestarts
    /\ taught \subseteq Threads
    /\ overlap \in BOOLEAN
    /\ cleaned \in BOOLEAN
    /\ clash \in BOOLEAN

\* As long as nothing overlaps, every cached object belongs to a node of the store
\* that is open: no request gets an object that survived the database it came from.
\* KBMap has no eviction and clean does not touch it, so this hangs on clean leaving
\* the database closed.
CacheIsBacked ==
    db = "up" /\ ~overlap => \A i \in Ids : cache[i] # None => graph[i].exists

\* What is in the store stays there: concurrent saves of the model never remove a
\* network or a concept, only cleanDatabase does (saveResource creates nodes only).
StoreOnlyGrows ==
    [][\A i \in Ids :
          graph[i].exists /\ cleaned' = cleaned =>
              graph'[i].exists /\ graph[i].nodes \subseteq graph'[i].nodes]_vars

\* As long as requests come one after the other, in the JVM that made the store, a
\* request sees all that the trainings before it taught, although each training makes
\* another node under the same key and any of them may be the one that is read: the
\* cache leads them all to one object (KBMap.loadFromCache).
TaughtIsLoaded ==
    \A t \in Threads :
        ~overlap /\ restarts = 0 /\ th[t].pc = "loaded" =>
            taught \subseteq obj[th[t].o].nodes

\* A request fails in the store only if another request of its JVM overlapped (two
\* that open the store, or one that reads a network another is still filling), if the
\* database was cleaned, because its JVM ended, or if a training, of this or of an
\* earlier JVM, saved a concept whose random uid was taken.  After a crash at any
\* moment, in the middle of any save, the requests of the next JVM still succeed one
\* after the other (N4JKB.apply, LongTermMemory.someModel, ConceptNetwork.load).
AloneNeverFails ==
    [][\A t \in Threads :
          th[t].pc # "failed" /\ th'[t].pc = "failed" =>
              overlap' \/ cleaned' \/ clash \/ restarts' # restarts]_vars

\* However requests overlap, an object without nodes is one that a request is filling:
\* also when two requests load one node at a time and register an object each, nobody
\* is left with nodes that stay null (ConceptNetwork.load).
NullIsTransient ==
    ~cleaned /\ ~clash =>
        \A o \in DOMAIN obj :
            obj[o].filled \/ \E t \in Threads : th[t].pc = "fill" /\ th[t].o = o

\* However saves overlap, what a save has written so far is below nodes that lead to
\* the object it saves: a concept may land below the node that another save of the
\* same object has just made, since KBNodeId(this) is read anew for every concept, but
\* never below another object or nowhere (ConceptNetwork.save, KBMap.register).
ChildrenStayTogether ==
    \A t \in Threads :
        th[t].pc = "children" /\ ~cleaned =>
            \A x \in th[t].nodes \ th[t].todo :
                \E i \in Ids : cache[i] = th[t].o /\ x \in graph[i].nodes

\* LongTermMemoryTest: a model that was loaded has nodes (assert(dm.nodes.size > 1)),
\* also when the JVM that saved it ended in the middle.
LoadedAfterCrash ==
    \A t \in Threads :
        ~overlap /\ ~clash /\ th[t].pc = "loaded" => obj[th[t].o].nodes # {}
=============================================================================
