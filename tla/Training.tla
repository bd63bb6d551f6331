------------------------------- MODULE Training -------------------------------
(***************************************************************************)
(* What a training does to the domain model: KBAnnotatorImpl finds concepts *)
(* for the words of a sentence, LinkParser makes a concept for every other  *)
(* word and links the concepts along the parse, Correlation searches paths  *)
(* from the new concepts to the model, and the life cycle appends the paths *)
(* to the nodes of the model.                                               *)
(*                                                                          *)
(* The model and its concepts are objects that all requests share: the      *)
(* links that LinkParser adds to a concept of the model are there at once   *)
(* and for everyone, and they stay when the request fails afterwards.       *)
(*                                                                          *)
(* A concept stands for one object: getNodeByURI compares references, since *)
(* KnowledgeURI overloads equals and does not override it.  A word is the   *)
(* content of the concept and the text of its phrase.  The parser and the   *)
(* dictionary of synonyms are external: a sentence comes with its parse,    *)
(* and a word may be missing from the phrases the splitter made of it.      *)
(***************************************************************************)
EXTENDS Integers, Sequences, FiniteSets, SequencesExt, Functions, Lists

CONSTANTS
    Trainers,       \* training requests
    Words,
    Nodes,          \* words of the concepts the model starts with, in order
    Below,          \* word -> words of the specialisations of its default concept
    Plain,          \* words whose default concept has no phrase
    Synonyms,       \* word -> what the dictionary answers
    Sentences       \* what is taught: words in order, and the parse

VARIABLES
    model,          \* nodes of the cached model, a list
    links,          \* concept -> its links, a list
    training,       \* request -> where it is and what it has found
    overlap         \* history: two trainings had read the nodes and not assigned them

vars == <<model, links, training, overlap>>

None == [word |-> "none", by |-> "nobody"]
Default(w) == [word |-> w, by |-> "default"]
\* Concept.createInstanceConcept(phrase)
Instance(t, w) == [word |-> w, by |-> t]
Concepts == [word : Words, by : Trainers \cup {"default"}]

InitialModel == MapSeq(Default, Nodes)

\* LinkParser gives every concept it makes a phrase.
HasPhrases(c) == c.by # "default" \/ c.word \notin Plain

\* Every set of words has one that is followed by none of the set.
NoCycles(S, follows) ==
    \A T \in SUBSET S : T # {} => \E w \in T : Range(follows[w]) \cap T = {}

\* Specialisations have no cycles.  A parse: the word it starts with; for each word
\* the words it is linked to and the word after it, if the parse has one.  It stays in
\* the sentence and has no cycles: processNode would not end in one.
ASSUME TrainingAssumption ==
    /\ IsFiniteSet(Trainers) /\ IsFiniteSet(Words)
    /\ Plain \subseteq Words
    /\ Nodes \in Seq(Words)
    /\ Below \in [Words -> Seq(Words)] /\ NoCycles(Words, Below)
    /\ Synonyms \in [Words -> Seq(Words)]
    /\ \A s \in Sentences :
          /\ s.words \in Seq(Words)
          /\ s.head \in Range(s.words)
          /\ s.deps \in [Range(s.words) -> Seq(Range(s.words))]
          /\ s.next \in [Range(s.words) -> Seq(Range(s.words))]
          /\ NoCycles(Range(s.words), [w \in Range(s.words) |-> s.deps[w] \o s.next[w]])

NoTraining == [pc |-> "idle", sentence |-> <<>>, concept |-> <<>>, new |-> <<>>,
               maps |-> <<>>, nodes |-> <<>>]

Init ==
    /\ model = InitialModel
    /\ links = [c \in Concepts |-> <<>>]
    /\ training = [t \in Trainers |-> NoTraining]
    /\ overlap = FALSE

-----------------------------------------------------------------------------
(* KBAnnotatorImpl                                                          *)

\* The first answer that is not None.
FirstFound(s) ==
    LET found == {i \in DOMAIN s : s[i] # None}
    IN  IF found = {} THEN None ELSE s[Min(found)]

\* checkList, below a default concept.
Specialisation(v, w) ==
    LET check[u \in Words] ==
            FirstFound(MapSeq(LAMBDA b : IF b = w THEN Default(b) ELSE check[b], Below[u]))
    IN  check[v]

\* checkList: the first node with the word, specialisations before the next node.
CheckList(lst, w) ==
    FirstFound(MapSeq(LAMBDA n : IF n.word = w THEN n
                                 ELSE IF n.by = "default" THEN Specialisation(n.word, w)
                                 ELSE None, lst))

\* checkLocalKB
CheckLocalKB(w) == CheckList(model, w)

\* annotatePhrase: the concept of the word, or of its first synonym that has one.
\* A dictionary that cannot be reached answers with no synonyms.
AnnotatePhrase(w, reached) ==
    FirstFound(MapSeq(CheckLocalKB, <<w>> \o (IF w \in reached THEN Synonyms[w] ELSE <<>>)))

Annotate(t, s) ==
    /\ training[t].pc = "idle"
    /\ \E reached \in SUBSET {w \in Range(s.words) : Synonyms[w] # <<>>} :
          training' = [training EXCEPT
            ![t].pc = "annotated", ![t].sentence = s,
            ![t].concept = [w \in Range(s.words) |-> AnnotatePhrase(w, reached)]]
    /\ UNCHANGED <<model, links, overlap>>

-----------------------------------------------------------------------------
(* LinkParser                                                               *)

\* Mutant: no concept is made for a word that the annotator does not know.
GetConcept_Known(t, w) == training[t].concept[w]

\* getConcept: the concept the annotator found, or a new one.
GetConcept(t, w) ==
    IF training[t].concept[w] # None THEN training[t].concept[w] ELSE Instance(t, w)

\* processLink visits the words it links to twice, once to filter and once to make the
\* links.
ProcessLink(s, w) == s.deps[w] \o s.deps[w]

\* processNode and addLinks, step by step: a word is visited, then the words it links
\* to; then it gets its links, and the word after it is visited.
ProcessNode(s) ==
    LET steps[w \in Range(s.words)] ==
            LET through(ws) == FlattenSeq(MapSeq(LAMBDA d : steps[d], ws))
            IN  <<[word |-> w, does |-> "visit"]>> \o through(ProcessLink(s, w))
                  \o <<[word |-> w, does |-> "link"]>> \o through(s.next[w])
    IN  steps[s.head]

\* The links of every concept after some steps.
AddLinks(t, steps) ==
    LET linksTo(c, w) ==
            MapSeq(LAMBDA d : <<c, GetConcept(t, d)>>, training[t].sentence.deps[w])
        added(c, st) == IF st.does = "link" /\ GetConcept(t, st.word) = c
                        THEN linksTo(c, st.word) ELSE <<>>
    IN  [c \in Concepts |-> links[c] \o FlattenSeq(MapSeq(LAMBDA st : added(c, st), steps))]

\* The steps before the first visit of a word, or all of them.
Before(steps, bad) ==
    LET visits == {i \in DOMAIN steps : steps[i] = [word |-> bad, does |-> "visit"]}
    IN  IF visits = {} THEN steps ELSE SubSeq(steps, 1, Min(visits) - 1)

\* processSentences.  A word whose phrase is not in the sentence, or is there twice, is
\* an exception when it is visited.  What was linked before it stays linked.
Parse(t, bad) ==
    /\ training[t].pc = "annotated"
    /\ bad \in Range(training[t].sentence.words) \cup {"none"}
    /\ LET steps == ProcessNode(training[t].sentence)
           done == Before(steps, bad)
       IN  /\ links' = AddLinks(t, done)
           /\ training' = [training EXCEPT ![t].pc = IF done = steps THEN "parsed" ELSE "failed"]
    /\ UNCHANGED <<model, overlap>>

-----------------------------------------------------------------------------
(* Correlation                                                              *)

\* findInTarget
FindInTarget(c) == HasPhrases(c) /\ c \in Range(model)

\* filterLinksMapConcepts: the other ends of the links that are not processed yet.
FilterLinksMapConcepts(c, processed) ==
    LET other(l) == IF l[1] = c THEN l[2] ELSE l[1]
    IN  Keep(MapSeq(other, links[c]), Concepts \ processed)

\* reduceLeft: the last of the shortest.
Shortest(maps) ==
    LET shortest == {i \in DOMAIN maps : \A j \in DOMAIN maps : Len(maps[i]) <= Len(maps[j])}
    IN  maps[Max(shortest)]

\* Mutant: a concept is mapped only if all that it is linked to is.
FoundMappings_All(res) == IF \E i \in DOMAIN res : res[i] = <<>> THEN <<>> ELSE res

\* The mappings that were found.
FoundMappings(res) == Keep(res, Seq(Concepts) \ {<<>>})

\* Mutant: findMapToTarget, which returns the concept itself at a dead end.
DeadEnd_Map(c) == <<c>>

\* No link leads to the model.
DeadEnd(c) == <<>>

\* findPathToTarget: the leaves of the concept, the concept, and the shortest of the
\* mappings of what it is linked to.
FindPathToTarget(start) ==
    LET find[at \in Concepts \X SUBSET Concepts] ==
            LET c == at[1]
                linked == FilterLinksMapConcepts(c, at[2])
                found == FoundMappings(MapSeq(LAMBDA d : find[<<d, at[2] \cup {c}>>], linked))
                leaves == Keep(linked, Concepts \ UNION {Range(m) : m \in Range(found)})
            IN  IF FindInTarget(c) THEN <<c>>
                ELSE IF found = <<>> THEN DeadEnd(c)
                ELSE leaves \o <<c>> \o Shortest(found)
    IN  find[<<start, {}>>]

\* processClarifiedConcepts: a map for each concept of the narrative that is not found
\* in the model.  checkShortestMaps never returns anything: a map that is not empty
\* ends in the model, and no concept is equal to a list.
Correlate(t) ==
    /\ training[t].pc = "parsed"
    /\ LET clarified == MapSeq(LAMBDA w : GetConcept(t, w), training[t].sentence.words)
           new == Keep(clarified, {c \in Concepts : ~FindInTarget(c)})
       IN  training' = [training EXCEPT
                ![t].pc = "correlated", ![t].new = new,
                ![t].maps = MapSeq(FindPathToTarget, new)]
    /\ UNCHANGED <<model, links, overlap>>

-----------------------------------------------------------------------------
(* ThinkingLifeCycleMinimal.apply(TrainingRequest)                          *)

\* Mutant: the domain concepts are appended, not the maps.
ResultNodes_Domain(t) == training[t].new

\* lastResult: the network of the flattened maps.
ResultNodes(t) == FlattenSeq(training[t].maps)

\* Mutant: model.nodes = r.nodes.
Extended_Replaced(t) == ResultNodes(t)

\* model.nodes ::: r.nodes
Extended(t) == model \o ResultNodes(t)

\* The nodes are read and, some time later, assigned.
ReadNodes(t) ==
    /\ training[t].pc = "correlated"
    /\ training' = [training EXCEPT ![t].pc = "extended", ![t].nodes = Extended(t)]
    /\ overlap' = (overlap \/ \E u \in Trainers \ {t} : training[u].pc = "extended")
    /\ UNCHANGED <<model, links>>

AssignNodes(t) ==
    /\ training[t].pc = "extended"
    /\ model' = training[t].nodes
    /\ training' = [training EXCEPT ![t].pc = "done"]
    /\ UNCHANGED <<links, overlap>>

\* An exception of another action, or a timeout, ends the request.
Fail(t) ==
    /\ training[t].pc \in {"annotated", "parsed", "correlated"}
    /\ training' = [training EXCEPT ![t].pc = "failed"]
    /\ UNCHANGED <<model, links, overlap>>

Next ==
    \E t \in Trainers :
        \/ \E s \in Sentences : Annotate(t, s)
        \/ \E bad \in Words \cup {"none"} : Parse(t, bad)
        \/ Correlate(t)
        \/ ReadNodes(t)
        \/ AssignNodes(t)
        \/ Fail(t)

Spec == Init /\ [][Next]_vars

-----------------------------------------------------------------------------
TypeOK ==
    /\ model \in Seq(Concepts)
    /\ links \in [Concepts -> Seq(Concepts \X Concepts)]
    /\ \A t \in Trainers :
          /\ training[t].pc \in {"idle", "annotated", "parsed", "correlated", "extended",
                                 "done", "failed"}
          /\ training[t].new \in Seq(Concepts)
          /\ training[t].maps \in Seq(Seq(Concepts))
          /\ training[t].nodes \in Seq(Concepts)
    /\ overlap \in BOOLEAN

\* The links as a graph, and what can be reached from a concept in it.
Edges == UNION {Range(links[c]) : c \in Concepts}
Undirected == Edges \cup {<<e[2], e[1]>> : e \in Edges}
Onward(E, S) == S \cup {e[2] : e \in {e \in E : e[1] \in S}}
Reached(E, c) ==
    LET reach[S \in SUBSET Concepts] ==
            IF Onward(E, S) = S THEN S ELSE reach[Onward(E, S)]
    IN  reach[{c}]

\* findPathToTarget against a plain definition: a new concept has a map exactly if its
\* links lead to a concept of the model that has a phrase.  The search cuts its way
\* short at every concept it has been at, in networks with cycles, duplicate links and
\* what failed trainings left behind.
MapsAreComplete ==
    [][\A t \in Trainers : training[t].pc = "parsed" /\ training'[t].pc = "correlated" =>
          LET r == training'[t]
          IN  \A i \in DOMAIN r.new :
                 r.maps[i] # <<>> <=> \E c \in Reached(Edges, r.new[i]) : FindInTarget(c)]_vars

\* A map ends in the model, contains the concept it is for, and nothing that cannot be
\* reached from that concept.
MapsAreSound ==
    [][\A t \in Trainers : training[t].pc = "parsed" /\ training'[t].pc = "correlated" =>
          LET r == training'[t]
          IN  \A i \in DOMAIN r.new :
                 r.maps[i] # <<>> =>
                    /\ FindInTarget(Last(r.maps[i]))
                    /\ r.new[i] \in Range(r.maps[i])
                    /\ Range(r.maps[i]) \subseteq Reached(Edges, r.new[i])]_vars

\* Whatever trainings ran, failed and overlapped: a concept of the model that it did
\* not start with is linked, directly or over other concepts, to one that it did.
TaughtIsConnected ==
    \A c \in Range(model) \ Range(InitialModel) :
        Reached(Undirected, c) \cap Range(InitialModel) # {}

\* However trainings overlap up to the point where they change the model: as long as no
\* two are between reading its nodes and assigning them, a word that is recognised
\* keeps its concept.  Trainings that annotated one sentence before either of them
\* taught it add two concepts of one word, but the annotator goes on finding the first
\* (KBAnnotatorImpl.checkLocalKB, and the end of apply).
RecognisedStays ==
    [][\A w \in Words :
          LET before == CheckLocalKB(w)
          IN  before # None /\ ~overlap => CheckLocalKB(w)' = before]_vars
=============================================================================
