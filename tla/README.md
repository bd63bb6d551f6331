# TLA+ models of the thinking life cycle

The repository is a Scala system that "thinks" about requests: text, training
text and data of a robot. A request runs a workflow of goals; each goal is a
list of resources (critics and ways2think), each of which is an action run by
an Akka actor; the actions exchange a context (the short term memory) and share
a domain model kept in a Neo4j store (the long term memory). Paths below are
relative to `src/`.

## 1. Inventory

| part | source | state | operations | modelled in |
|---|---|---|---|---|
| actor registry | `coreservice.thinkinglifecycle/.../AkkaProvider.scala`, `coreservice.action/.../AkkaAction.scala` | `actorMap` of the supervisor, the action actors and their mailboxes | `find`, `getOrCreateActor`, `Terminated`, restart by Akka, `receive` of an action | `AkkaProvider`, `ActionService` |
| thinking life cycle | `ThinkingLifeCycleMinimal.scala`, `Selector.scala`, `GoalManager.scala` | global context, index of the goal, the recursion over resources | `apply` of each kind of request, `runGoals`, `processResources`, `processReflectiveCritics`, `translate` | `ThinkingLifeCycle` |
| short term memory | `model.knowledge/.../ShortTermMemory.scala` | one context | `ContextHelper.apply`, `merge`, `mergeLast`, `mergeWithBaseContext`, `createReflectiveContext` | `ShortTermMemory` |
| actions | `coreservice.action.critic`, `coreservice.action.way2think`, `coreservice.splitter` | none, except the spike generator | `apply(context)` | `Actions` |
| annotator, link parser, correlation | `coreservice.annotator/.../KBAnnotatorImpl.scala`, `coreservice.linkparser/.../LinkParser.scala`, `way2think/correlation/Correlation.scala`, `model.knowledge/.../domain` | none of their own; the concepts of the shared model, their links and phrases | `annotatePhrase`, `checkLocalKB`, `processNode`, `addLinks`, `processLink`, `findPathToTarget`, `processClarifiedConcepts` | `Training`; what they do to the context: `Actions` |
| spike generator | `SpikeGeneratorWay2Think.scala` | open JSON generator, its buffer, `creationDate`, files on disk | `apply`, `validateFile`, `closeFile`, `stop` | `SpikeGenerator` |
| knowledge base | `N4JKB.scala`, `KBMap.scala`, `LongTermMemory.scala`, `ConceptNetwork.scala` | store, cache of loaded objects, `inited` | open, `loadChild`, `load`, `saveResource`, `save`, `saveModel`, `clean` | `KnowledgeBase` |
| objects of the domain model | `Concept.scala`, `AnnotatedPhrase.scala`, `ConceptLink.scala`, `KnowledgeURI.scala`, `ModelHelper.scala` | generalisations, specialisations, phrases, links, a uid, a key | `save`, `load`, `checkIfSaved`, `createInstanceConcept` | `ConceptStore` (in the store), `Training` (in memory) |
| resource catalogue | `KBAdapter.scala` | constant tables | goal -> resources, URI -> resource, `cleanDatabase` | `Actions`, `KnowledgeBase` |
| incident analysis | `coreservice.action.critic/.../analyser`, `way2think/simulation`, `reformulation`, `FindMostProbableAction`, `SearchSolution`, `Solutions` | none | `apply` | not modelled, see section 5 |
| web application | `playwebapp` | none of its own | a request per HTTP call, in parallel; clean | as the environment |
| console host, language processors, web service, client agent, user interfaces | `host.console`, `relex`, `nlp.server`, `clientagent`, `web.ui`, ... | - | - | not modelled: transport, vendored code, presentation |

**Interaction.** The web application starts a `ThinkingLifeCycleMinimal` per
request, in a thread of its own. The life cycle asks the supervisor for the
actor of a class (10 s), then asks that actor to handle the global context
(20 s). It merges the answer into the global context. All life cycles share the
actors, the one cached domain model object and the store. Nothing outside the
actors is synchronised.

**What is hard.** Two nested asks with timeouts, late replies and dead letters;
restarts of the supervisor that stop every action; an actor registered before
its constructor has run; merges that copy some fields and drop others, run many
times per request; nested passes started by results; a file writer that
buffers, rotates and fails between two steps; a cache filled before its objects
are complete; saves made of many transactions; crashes between them; a clean of
the database under running requests; a recursive save over objects that refer to
each other in cycles, told apart by uids that change under it; concepts that a training changes in place
before it has succeeded, and a search that walks over what is left of the failed
ones. `PROJECT.json` lists each at its line
under `hazards`, with the properties that watch it.

**What makes each part correct.** Registry: one actor per class, none
forgotten, dead ones dropped, answers never mixed up, every call ends. Life
cycle: data handled once, new concepts reported to the user, models stay shared,
trainings that fail before they save add no nodes, every request ends. Training: a path to the model is
found exactly when there is one, what enters the model is connected to it, a word
keeps its concept. Spike files: ended files
complete, requests not split, files not overwritten. Knowledge base: nothing
removed but by clean, cache consistent with the store, trainings visible to
later requests, null nodes transient, children of a save with their object, no
failure without an overlap, a clean, a crash or a random uid that is taken. Objects in the
store: what was saved is what a new JVM loads, and no save changes what an earlier
one stored.

Some things worth knowing about the code that no run is spent on:

* `KBAdapter.cleanDatabase` ("Clean the whole database and reinit",
  `KBAdapter.scala:142`) leaves the database shut down: the `N4JKB.apply()` that
  ends `clean` finds `inited` still true and opens nothing, so every later access
  of this JVM throws. `Reopen` and `AccessThrows` of `KnowledgeBase` have it, and
  `CacheIsBacked` holds only because of it: a `clean` that did open the store again
  would serve objects of the old store from the cache (its mutant).
* `Correlation.checkShortestMaps` never reports anything. A map that
  `findPathToTarget` returns is empty or ends in the model, so its first filter
  keeps nothing, and its second asks whether a list of lists contains a concept.
  `notUnderstoodConcepts` is therefore always empty in the training workflow, and
  the user is asked only because there are new domain concepts (`resultToReport`).
* `ConceptNetwork.load` registers the network in the cache before it has read its
  nodes (`ConceptNetwork.scala:278`): a request that loads the model while another
  loads it for the first time gets a network whose nodes are null (`filled` of
  `KnowledgeBase`). `AloneNeverFails` says that this takes an overlap, and
  `NullIsTransient` that it passes.
* A file of spikes is named by the millisecond in which it is opened. When the action
  is stopped and the next request creates a new instance in that same millisecond, the
  new instance takes the same name and truncates the file. `NoFileOverwritten` says
  that this is the only case, as long as the clock is not set back.
* When `LongTermMemory.saveModel` throws, the request has failed, but its nodes were
  assigned to the shared model one line before (`ThinkingLifeCycleMinimal.scala:60`)
  and are saved with the next training (`SaveModelThrows` of `ThinkingLifeCycle`).
  `FailedTeachesNothing` is about the trainings that fail before.
* The links a training adds to shared concepts stay when it fails
  (`LinkParser.scala:184`). A later training that comes along them adds concepts of
  the failed sentence to the model, which its own narrative never mentions.
* The links of a concept do not survive a save and a load. The source of its own
  links is the concept itself, which `loadChildrenMap` leaves out, and
  `Concept.scala:487` reads the destinations under the name of the sources. What is
  loaded of a link is, at the other end, a link from a copy of the source to another
  copy of it.
* `createDomainConcepts` makes a new parent of `be` in every training, all with one
  uri; they are stored under one key, and a load finds one of them.
* After a restart the ends of links and the concepts of phrases are copies with the
  uid of the original. When the network is saved again a copy may be visited before
  its original, which then counts as saved: its phrases and generalisations are
  missing from the new version. TLC reaches this in `concept_store` with no clash of
  random uids at all, which is why `OnlyClashesMislead` speaks of the first JVM.

## 2. Modules

```
ActionService  <--- refined by ---  AkkaProvider  <- MCAkkaProvider
      ^                                   ^
      | INSTANCE                          +-- AkkaProvider_proofs <- AkkaProvider_refinement
ThinkingLifeCycle <- MCThinkingLifeCycle
      | EXTENDS     <- ThinkingLifeCycle_proofs
   Actions -> ShortTermMemory
SpikeGenerator <- SpikeGenerator_proofs
KnowledgeBase  <- MCKnowledgeBase, KnowledgeBase_proofs
Training       <- MCTraining, Training_proofs
ConceptStore   <- ConceptStore_proofs
Lists          <- Training, ConceptStore, Lists_proofs
```

The arrows `<-` are EXTENDS: a module `X_proofs` holds the theorems about `X`.
`Lists` has the two list operators that both modules need (map and filter);
`Lists_proofs` holds lemmas only, on lists and on recursion, and `Training_proofs` and
`ConceptStore_proofs` extend it.

**`AkkaProvider`** - the supervisor (`actorMap`, mailbox `inbox`, flag
`restarting`), the actors (`status`, `class`, `mailbox`, `busy`) and the callers
(`client`). `Find`, `FindTimeout`, `Ask`, `AskTimeout`, `Return` are the two
asks of `translate`; `FindRegistered`, `FindCreates`, `FindThrows`,
`Terminated` are the cases of `receive`; `Started`, `StartFails`, `Begin`, `End`
are the life of an `AkkaAction`. Akka's part (promises, dead letters, restart
after the last child has terminated, `Terminated` to the watcher) is external
and modelled from what the code relies on. When an action throws, `receive`
catches every `Throwable`, so actors fail only in their constructors.

**`ActionService`** - what `translate` may rely on, without actors: a call ends
with a reply to its own context or an exception; the context of a call that
timed out may still be handled, once, or never. `AkkaProvider` implements it
(`ImplementsActionService`: `call` is the caller's state with the phases of the
asks hidden, `work` the messages in mailboxes and hands of actors), and
`ThinkingLifeCycle` is built on it.

**`ShortTermMemory`**, **`Actions`** - the context with the fields the training
and robotic workflows read, the merges of `ContextHelper`, and for each action
the set of replies its `apply` may give for a context. Language processing is a
choice over its outcomes, and so is here what the correlation finds; which input
they need, which fields they set and when they throw is as in the code.

**`ThinkingLifeCycle`** - a life cycle `lc[c]` per request. The recursion of
`processResources` is a stack of passes. `Translate`/`Result`/`Throw` are one
call; `EndNestedPass`, `StartReflection`, `EndGoal` are the returns of the
recursion and the merges made there; `Learn`, `StoreNodes`, `SaveModel` are
lines 57-63 of `ThinkingLifeCycleMinimal`, cut where another thread can come in
between; `SaveModelThrows` is a `saveModel` that throws with a part of the nodes saved
or none, and leaves the request `unsaved`, its nodes assigned.

**`SpikeGenerator`** - `apply` cut at reads of the clock and at file system
calls. Jackson's generator is external and has the states the code can notice:
in its array, or in a state where `writeEndArray` throws. `creationDate +
interval` is an addition of `Long`s that wraps (`LongAdd`). `StopActor` ends an
instance and leaves the clock alone, so a new one may start in the same millisecond;
`stopped` remembers when it was.

**`KnowledgeBase`** - the steps of loading, training and saving per thread;
every transaction of Neo4j is one step, as are reads and writes of the shared
object; looking into the cache (`CacheMiss`) and registering an object (`NewObject`)
are two, so two requests may register one each. `RestartJVM` ends the JVM at any
moment; the store remains. A concept is saved with all it leads to in one step
(`SaveChild`), which may throw (`SaveChildThrows`) once a training has drawn a random
uid that is taken (`clash`, any training may): what `checkIfSaved` and `createLink` do
then is in `ConceptStore`, where `OnlyTwinsThrow` says that nothing else makes a save
throw. A store with such a save in it may also make a later load throw
(`FillObjectThrows`). Neo4j itself is taken to work while it is open, and a training
that fails in one of its actions is not followed here: it saves nothing.

**`Training`** - what the four actions of the training workflow do to the concepts,
for several trainings in one JVM. `model` is the list of nodes of the cached model,
`links` the links of every concept, `training[t]` where a request is and what it
carries. `Annotate` is `KBAnnotatorImpl` (the concept of a word, else of its first
synonym that has one; the dictionary may be out of reach), `Parse` is `LinkParser`
(new concepts, and links added in place to new and shared concepts alike, up to the
word at which it throws), `Correlate` is `Correlation` (the concepts that are not
found in the model, and `findPathToTarget` for each), `ReadNodes` and `AssignNodes`
are line 60 of `ThinkingLifeCycleMinimal`, `Fail` every exception and timeout in
between. Concepts are told apart by identity, as in the code: `getNodeByURI` compares
`KnowledgeURI`s with `==`, and that class overloads `equals` without overriding it.
Each of the three actions is one step because each is run by one actor, which
handles one request at a time. The parse of a sentence is an input. Annotating reads
the model once, where the code reads it per word, and correlating reads the links
once; a training that ends, or a sentence that is parsed, in the middle of another
training's action is seen wholly or not at all.

**`ConceptStore`** - the objects of a JVM (`obj`), the cache (`KBMap.id2object`), the
nodes and relationships of the store, and a request that loads the model, trains and
saves it. `SaveCall` is one call of the three `save` methods, with the calls still
to be made as a list, and `SaveAll` makes them all (`MaxCalls` is how many there are
at most, since an object is stored once): an object is asked for its key (which keeps the uid of the first
time), `checkIfSaved` compares its uid with the list, and it is linked
(`CreateLink`, an exception if there is no such node) or stored (`SaveResource`, which
gives it the number of its node as uid) with its parts to follow. `Load` finds the
nodes that the three `load` methods come to (`Reached`), makes an object of each that
is not cached, and the copies that stand for ends of links and concepts of phrases.
`Train` and `FailedTraining` are a sentence "w is an object", as `LinkParser`,
`createDomainConcepts` and the life cycle leave the objects. What enters the nodes of
the model is the path of `findPathToTarget` from `be` (`PathToTarget`): the new concept
and the words of earlier sentences that failed in this JVM, whose links `be` still has,
then `be` and `object`. The search does not go further: no concept at the other end of
these links has links that lead elsewhere, unless it is in the model and ends the
search. Requests come one at a
time here, a restart comes between any two steps of a request but not within a save
(that is `KnowledgeBase`'s part). A log that prints an object also asks for its key;
only `save` does here, which decides at most which uid a key carries.

The properties of the search of `Training` are stated against a plain definition,
`Reached`: a concept, and again and again what the links lead on to, until nothing is
added. Recursion in these two modules is by recursive functions (`find`, `steps`,
`check`, `after`, `reach`), so that it can be proved about.

## 3. Runs

| run | instance | shows |
|---|---|---|
| `registry` | 2 callers, 2 asks each, 3 classes (sound, constructor may fail, not loadable), 3 actors | `OneActorPerClass`, `NoOrphan`, `StaleIsTransient`, `AnswerIsOwn` |
| `registry_service` | 1 caller, 3 asks, 2 contexts, 3 actors | `ImplementsActionService`, `EveryCallReturns`, `DeadIsForgotten` |
| `spikes` | 3 requests of up to 2 values, buffer of 2, 6 clock ticks, 2 faults or restarts, in any millisecond | `EndedIsComplete`, `RequestInOneFile`, `NoFileOverwritten` |
| `spikes_stored` | no faults, buffer of 4 | violated: a spike of a successful activation stays in the buffer |
| `spikes_rotation` | as `spikes` | violated: after one failed rotation every later one fails |
| `lifecycle` | 2 concurrent requests of all 6 kinds | `SpikedOnce`, `AskedForHelp`, `ModelsAreShared`, `FailedTeachesNothing`, `EveryRequestEnds` |
| `lifecycle_training` | 2 trainings | violated: one training is lost |
| `knowledge_base` | 3 requests, 2 train, 1 restart, 1 clean, 3 nodes | `CacheIsBacked`, `TaughtIsLoaded`, `NullIsTransient`, `ChildrenStayTogether`, `StoreOnlyGrows`, `AloneNeverFails` |
| `knowledge_base_crash` | 2 requests, 1 crash | violated: a model without nodes is loaded after a crash |
| `training` | 3 trainings, 5 sentences, 7 words, 3 nodes and a specialisation | `MapsAreComplete`, `MapsAreSound`, `TaughtIsConnected`, `RecognisedStays` |
| `concept_store` | 2 trainings, 2 words, 4 random uids, 2 restarts, 7 default objects in a network | `RoundTrip`, `OnlyClashesMislead`, `OnlyTwinsThrow`, `VersionsAreStable` |
| `concept_store_uid` | the same, 2 random uids | violated: a concept is taken for saved and lost, for its uid is the number of a node of an earlier save |

What the properties excuse, they excuse because the code does it: `overlap` of
`KnowledgeBase` is that two requests, or a request and a clean, were active together
in this JVM, and `overlap` of `Training` that two trainings had read the nodes of the
model and not assigned them (`RecognisedStays` holds however else trainings overlap).
`NullIsTransient`, `ChildrenStayTogether` and `StoreOnlyGrows` excuse no overlap: they
are what is left of the knowledge base when requests do overlap.

Every passing run also checks the `TypeOK` of its module, except
`registry_service`, which repeats the module of `registry`. The violated runs
are described, with the lines of code and of the comments or tests they
disagree with, under `findings` in `PROJECT.json`.

**Bounds.** `MaxRefs`, `MaxAsks`: an ask that times out and its successor are
enough for a late reply, and three actors for a class to be created, to die and
to be created again next to another. The supervisor stops when `MaxRefs` is used
up; liveness is checked where it is not (one creation per ask). `MaxTime`,
`MaxRequests`, `MaxValues`, `BufferSize`: two rotations, and a buffer that fills
inside a request and between two. `MaxFaults = 2` lets a fault come and go, or
come together with a restart. `LongHalf` only has to exceed the clock.
`MaxCalls = 8` is more than the longest request needs (four resources, the
reflective critic, `Cry4HelpWay2Think` and a nested pass). `MaxNodes = 3`: the
default network and one per training; a save beyond it waits. `MaxRestarts = 1`:
one crash, in every state. `MCTraining`: three trainings let one be lost or fail,
a second build on what it left and a third on both; among the sentences are one that
reaches the model directly, one that reaches it only over what another taught, one
that never reaches it, two that together make a cycle of links, and one with a word
after its head; a word in the middle may have no phrase, and every training may fail
at every step. Two of the model's concepts have no phrase, as `be` and `has` of
`Defaults`, so that they are in the model and yet not found in it. `ConceptStore`: of the four
uids that the random generator may answer two are numbers of nodes and two are not,
and both trainings may draw the same one; a failed training and one that ends well put
two new concepts into one save; two restarts let a network that was loaded be saved,
loaded and saved again. The order of a `HashMap` is any order: the runs take that of
the node numbers and its reverse. Callers, and trainings, are interchangeable, which the
`Symmetry` of the MC modules uses, in runs of safety properties only.

**Deadlock** is not checked: requests are finitely many, and a system whose
requests are done, or in which everyone waits for an action that does not
return, has nothing to do. That callers get away all the same is the subject of
`EveryCallReturns` and `EveryRequestEnds`.

**Size.** The largest instances have 1.4 million (`knowledge_base`), 620 thousand
(`spikes`), 170 thousand (`training`), 73 thousand (`lifecycle`) and 13 thousand
(`concept_store`, with the dearest properties) distinct states.

**Fairness.** `AkkaProvider`: timeouts fire (they are Akka's scheduler's and
`Await`'s), a caller that holds an `ActorRef` goes on, the supervisor is
scheduled; nothing is assumed of the action actors, since
`Cry4HelpWay2Think` waits for a human. `ThinkingLifeCycle`: threads go on and
timeouts fire; again nothing of actions. `SpikeGenerator`: `apply` runs to its
end and time passes; no request has to come. `KnowledgeBase` has no liveness.

## 4. Proofs

Twenty-nine theorems, in seven modules. Each holds for every value of the constants that the
named assumptions of the module allow: any number of callers, requests, actors, asks,
files, nodes, faults and restarts. Every inductive invariant was model-checked on the
instance of its run before it was proved. A proof that a step keeps an invariant has
one case per action; what an action leaves alone is a frame lemma. Every safety
invariant and every action property that the runs check is stated by a theorem, except
`RoundTrip`, `VersionsAreStable` and `OnlyTwinsThrow` of `ConceptStore`.

| module | theorem | property |
|---|---|---|
| `AkkaProvider_proofs` | `TypeCorrect`, `OneActor`, `NoActorIsLost`, `StaleHasNews`, `AnswersAreOwn` | `TypeOK`, `OneActorPerClass`, `NoOrphan`, `StaleIsTransient`, `AnswerIsOwn` |
| `AkkaProvider_refinement` | `ServiceIsImplemented` | `ImplementsActionService` |
| `SpikeGenerator_proofs` | `TypeCorrect`, `FilesAreKept`, `EndedFilesAreComplete`, `RequestsAreWhole` | `TypeOK`, `NoFileOverwritten`, `EndedIsComplete`, `RequestInOneFile` |
| `KnowledgeBase_proofs` | `TypeCorrect`, `StoreIsKept`, `CacheFollowsStore`, `AloneSucceeds`, `NullsAreTransient`, `ChildrenAreTogether`, `TrainingsAreSeen` | `TypeOK`, `StoreOnlyGrows`, `CacheIsBacked`, `AloneNeverFails`, `NullIsTransient`, `ChildrenStayTogether`, `TaughtIsLoaded` |
| `ThinkingLifeCycle_proofs` | `TypeCorrect`, `ModelsStayShared`, `FailuresTeachNothing`, `ReportsAreAsked`, `SpikesRunOnce` | `TypeOK`, `ModelsAreShared`, `FailedTeachesNothing`, `AskedForHelp`, `SpikedOnce` |
| `Training_proofs` | `TypeCorrect`, `SearchIsComplete`, `SearchIsSound`, `TaughtStaysConnected`, `RecognisedWordsStay` | `TypeOK`, `MapsAreComplete`, `MapsAreSound`, `TaughtIsConnected`, `RecognisedStays` |
| `ConceptStore_proofs` | `TypeCorrect`, `MisledByClashes` | `TypeOK`, `OnlyClashesMislead` |

**Registry** (assumptions: `Unloadable` and `Fragile` are classes, there is a class and
a context, an action answers with a reply, `NoReply` is none, the bounds are numbers).

* The three statements on the registry. None is inductive. `RegistryInv` adds that a
  registration is of an actor of its own class (`RegisteredIsOwn`: otherwise
  `Terminated` or a new registration could drop a live actor), that the map is empty
  and every live actor is stopping while the supervisor restarts (`RestartIsClean`:
  this is why the new instance cannot start a second actor), and that a `Terminated`
  message names a dead actor (`TerminatedIsDead`: this is why handling it forgets no
  live one).
* `AnswersAreOwn`: `AskInv` says of every message on the way that it carries what its
  ask asked for: a `Find` the class of the caller's current ask if the ask is current
  (`FindIsOwn`), a context in the hands of an actor that of the actor the caller was
  given (`MessageIsOwn`), and an `ActorRef` a caller holds the class it asked for
  (`RefIsOwn`).
* `ServiceIsImplemented`: initial states map to initial states, and each of the steps
  of callers, supervisor and actors to a step of `ActionService` or to none. It needs
  `AskInv` (the reply that ends a call is one of the class and the context of the call)
  and `PlaceInv`: a context that was sent is in one place only, in one mailbox once or
  in the hands of one actor (`AskIsUnique`, `NoRepeat`), and an actor that does not
  exist has none (`UnbornIsIdle`). Without it an `End` would take away work that is
  still waiting elsewhere, and the abstract `Execute` could happen twice.

**Spike generator** (assumptions: bounds are numbers, the clock starts before
`MaxTime`, and time plus interval stays within a `Long`; that `Long.MinValue` plus an
interval does not wrap is a lemma. The clock of the model is never set back, and a stop
and a new instance may come in one millisecond.)

* `FilesAreKept` rests on `NameInv`: no file on disk is younger than `creationDate`, or
  as young as the clock while there is none, and from the moment `validateFile` finds a
  new file due until it is opened its name is not taken; the exception, everywhere, is
  the file that was opened in the millisecond in which the last instance was stopped,
  as long as the new one has no generator (`MayClash`). The comparison of the clock with
  `creationDate` and the read of the clock for the new name are different steps, so the
  invariant has to bridge them.
* `EndedFilesAreComplete` rests on `FileInv`: an open generator's file is there and not
  ended, and file and buffer together are what the generator was given.
* `RequestsAreWhole` rests on `LoopInv`: until the loop begins all values are still to be
  written, and in it those that are done are in the file of the open generator.

**Knowledge base** (assumption `KBAssumption`: trainings are requests, the default
model has nodes of its own, there is room for a node).

* `StoreIsKept` needs only types. `AloneSucceeds`, `CacheFollowsStore` and
  `NullsAreTransient` need `OpenInv` (who may find the database closed: as long as
  nothing overlaps at most one request is active, and a database that was cleaned stays
  down) and `CacheInv` (a cached object has a node, and one that is not filled is being
  filled by somebody, unless a load threw over a uid that was taken).
* `ChildrenAreTogether` needs `ChildInv`. That a concept was written below a node of its
  object is not enough, for another request that found the node missing from the cache
  may be about to register an object of its own for it. The nodes in question are `Firm`:
  cached, and no request is about to do this. A node that a save makes is firm, for it is
  in the cache before anybody can load it, and a firm node stays firm.
* `TrainingsAreSeen` needs `TaughtInv`: in the first JVM every node of the store leads
  the cache to the one default object, no load ever makes another, and a training that
  is between reading and storing the nodes carries all that is in that object.

**Life cycle** (assumption `ClientsAssumption`: `""`, which stands for the owner of a
resource that is derived from no request, is no request). Nothing is assumed of the
set of requests.

* `Shape`: whatever is in the context of a request, in its call and in the work an actor
  has of it is derived from this request's data (`ResourcesOf`, `ContextsOf`); proved
  from what each action replies (`ActionsAre`) and each merge keeps (`MergeWithBaseIs`,
  `MergeContextsIs`). A step of one request leaves the others `Untouched` (`StepIs`);
  this is what carries every invariant below to any number of concurrent requests.
* `ClientInv`: a call is of the first resource of the current pass with the global
  context (`PassInv`), a reply is one of the action that was called to the context that
  was sent and late work is of earlier calls (`CallInv`), all that the contexts of the
  passes report is in the global context already (`ReportsInv`: without it the merge at
  the end of a pass could bring back a report), and the models are the cached ones
  (`ModelInv`, which is `ModelsStayShared`).
* `FailuresTeachNothing` rests on `TeachInv`: the owner of nodes that are in the model,
  saved, or in the hands of any training that is about to write them has got beyond the
  point where it can fail, except in `saveModel` (`unsaved`). The last part is needed since one training reads nodes and
  another's are among them.
* `ReportsAreAsked` rests on `HelpInv`: the reflective pass is at the critic, at the
  user or over, and when it is over with something to report, the user was asked.
* `SpikesRunOnce` rests on `SpikeInv`: the main pass of data of a channel is at the
  parser, at the critics, at the spike generator or past it; the container the parser
  made stays in the frames until the critic of its channel looks for it; and work of the
  spike generator is always of the last call, so that what a timeout leaves behind is
  one piece of work of a request that makes no other call.

**Training** (assumption `TrainingAssumption`: words and trainings are finitely many,
specialisations and parses have no cycles, a parse stays in its sentence. A cycle of
either would keep `checkList` or `processNode` from ending). Nothing is assumed of the
sentences, and links may have cycles.

* `SearchIsComplete` and `SearchIsSound` compare two recursions, the search, which goes
  on from a concept with the set of those it has been at, and `Reached`, which is the
  least set that has the concept and that no link leaves (`ReachOK`). Of every call of
  the search `PathOK` says: a path that is found ends in the model and lies in every
  set that has its start and that no link leaves; and if none is found, there is a set
  around the start without a concept of the model, whose links leave it only for
  concepts the search has been at. Such sets of the calls made for the linked concepts
  make up one for the concept itself, which is why cutting the way short at visited
  concepts loses nothing.
* `TaughtStaysConnected` rests on `Shape` (types, and that what the annotator found is
  in the records of the trainings) and `Anchors`: not only the nodes of the model, but
  the maps of every training that has searched and the list of nodes that it is about
  to assign lead to a concept the model started with. Without the last two parts a
  training could put back nodes that nothing is known of. Links are only ever added, so
  what is reached once is reached later.
* `RecognisedWordsStay` rests on `OneAtATime`: without overlap at most one training is
  between `ReadNodes` and `AssignNodes`, however many are annotating, parsing and
  searching, and the nodes it is about to assign begin with the nodes of the model. The
  rest is that the first match in a list stays the first match when the list grows at
  its end.

**Concepts in the store** (assumption `StoreAssumption`: random uids are positive
numbers, the bounds are numbers).

* The inductive invariant is `StoreOK` (types of objects, nodes, relationships and
  cache), `ControlOK` (a model is there whenever the request is beyond loading it) and
  `FirstJVM`: before the first restart every version of the network is cached, and
  either a uid clashed, or all uids of objects are different, each the number of a node
  or drawn at random, and nothing misled a save.
* A save is a sequence of calls, and a call leaves everything as it is, links an object
  or stores one (`Linked`, `Stored`). For `MisledByClashes` the invariant of the
  sequence is that the list of saved uids has uids of objects that are done, that
  are numbers of nodes or drawn, and that no object that is still to be saved has a uid
  in it. A node number that `createNode` gives is new to all of them, unless a random
  uid has it, and this is the clash the theorem speaks of.
* A load of a version that is cached changes nothing; this is why `FirstJVM` survives
  loads. For `TypeCorrect` it has to be shown of the others that the nodes reached are
  closed under what is read (so that every part of an object has an object) and that
  the copies of each object lie where its links and concepts point to.

**Recursion.** The operators of these two modules are recursive, and the provers at hand
cannot use the induction theorems of the library. `Lists_proofs` shows once that a
recursive definition over a set with a rank (the size of what is left to visit, the
height in a graph without cycles) has a function that satisfies its equation
(`RecursionExists`), so that a `LET f[x \in S] == ...` may be unfolded. Induction is
replaced by the smallest counterexample: if a property failed somewhere, take a place
of least rank where it fails.

**Only model-checked.**

* The liveness properties (`EveryCallReturns`, `DeadIsForgotten`, `EveryRequestEnds`):
  fairness and ENABLED are beyond the prover.
* `RoundTrip`: it says of the load of a new JVM that it gives back what the save wrote,
  for all keys and names of the objects at once, and takes the whole sequence of calls
  of a save together, where the proofs above go call by call.
* `OnlyTwinsThrow`: it is about the JVMs after the first one too, where the uids of
  copies are those of other objects, so that `FirstJVM` says nothing of them.
* `VersionsAreStable`: relationships leave new nodes only, but they may enter old ones,
  and `loadChild` looks at both ends. That it still finds the same child depends on the
  keys of copies and of objects of several JVMs, for which no invariant was found that
  is both simple and inductive.

## 5. Not modelled, and abstractions

* The incident workflow (`KBAdapter.workflow`), `JoinWay2Think`, simulation, reformulation and
  the analysers: no entry point's workflow runs them (the one mention of
  `KBAdapter.workflow`, `Selector.scala:61`, is commented out), so there are no states
  of the running program to check them in. They keep no state of their own.
* `nextGoal(goal)` and `resetIndex` of the goal manager: called by nobody.
* Of `Correlation`: `findMapToTarget` and the `apply` with a simulation result, which
  no workflow that runs uses; and `reduceLinks`, which acts only on descendants of the
  concepts `be`, `has` and `consistOf`, which the sentences of the runs do not teach.
* The scripts of `web.ui`. They are the repository's only JavaScript, and all but
  `SiteScripts.js`, which lays out a page, are vendored libraries (jQuery, jQuery UI
  and Mobile, Knockout, Sammy, Modernizr). The program's own logic is in Scala, and
  that is what the modules model.
* Of the store: solutions, and the links of a network itself (they are leaves of a
  save, and nothing that a load makes of them is saved again). In `ConceptStore` a JVM
  whose load failed is not followed further. Loads two and three of
  `initializeGlobalContext` repeat the first.
* Which relationship Neo4j returns first when several carry one key is open; the
  model takes a fixed one (CHOOSE), and nothing is proved that depends on which.
* The clock of the spike generator is not set back, and nobody but the action opens or
  removes a file in the directory.
* The spikes that a failed flush takes from the buffer are lost; no property says so of
  itself. Such files are `torn`, and `EndedIsComplete` leaves them out.
* `AkkaProvider` and `KnowledgeBase` are not composed with the life cycle: the
  first is replaced by its abstraction, the second by the shared set `model`.
  `Training` refines that set to concepts and links and leaves the contexts out;
  `ConceptStore` has the store below it for one request at a time.
* Logging, formatting, HTTP, JSON details.

## 6. Plan

Done: registry and its abstraction, life cycle on top of it, spike generator,
knowledge base, annotator with link parser and correlation, concepts in the store;
proofs of all of them, of the refinement, and of the recursion they use.

Next, in this order:

1. An abstract specification of the long term memory (what a load may return, given the
   trainings that were saved), the part of `KnowledgeBase` that implements it, as a
   property of `knowledge_base` and then as a theorem.
2. An invariant on keys and copies from which `VersionsAreStable` follows, and with it
   the part of `RoundTrip` that says that every key has a child.
