-------------------------- MODULE ThinkingLifeCycle --------------------------
(***************************************************************************)
(* ThinkingLifeCycleMinimal: requests run their workflow of goals, each in  *)
(* a thread and a life cycle of its own, over shared actions and one shared *)
(* domain model.                                                            *)
(*                                                                          *)
(* A goal is a list of resources.  Each is translated into a call of an     *)
(* action with the global context, and its result is merged into the global *)
(* context before the next one runs.  A result that asks for more resources *)
(* (a SelectorRequest) runs them first, in a nested pass.  Then the         *)
(* reflective critics run in the same way.  An exception of an action, or a *)
(* timeout, ends the request.                                               *)
(*                                                                          *)
(* The recursion of processResources is the stack of a life cycle: a pass   *)
(* has the resources to do, the flag that says which result to look at and  *)
(* the contexts it has collected.                                           *)
(***************************************************************************)
EXTENDS Actions

CONSTANTS
    Clients,        \* requests, each in its own life cycle
    Requests,       \* what a request may be
    MaxCalls        \* calls of actions in one request (a bound)

\* "" stands for the owner of what is derived from no request.
ASSUME ClientsAssumption == "" \notin Clients

VARIABLES
    call, work,     \* the action service
    lc,             \* client -> its life cycle
    model,          \* nodes of the domain model, one object shared by all
    saved,          \* nodes of the model as the knowledge base has them
    spikes,         \* history: client -> runs of the spike generator on its data
    helped          \* history: clients for which the user was asked

service == <<call, work>>
vars == <<service, lc, model, saved, spikes, helped>>

NoReply == [ok |-> FALSE, ctx |-> EmptyContext]
AS == INSTANCE ActionService
        WITH Payloads <- {}, Replies <- {}, MaxAsks <- MaxCalls, Handle <- ActionReplies

Workflow(type) ==
    IF type = "TrainingRequest" THEN <<"Train">> ELSE <<"ProcessRoboticDataRequest">>

Pass(todo, reflective) == [todo |-> todo, reflective |-> reflective, contexts |-> <<>>]

Init ==
    /\ call = [c \in Clients |-> [pc |-> "idle", ask |-> 0, class |-> "none",
                                  payload |-> EmptyContext, reply |-> NoReply]]
    /\ work = {}
    /\ lc \in [Clients -> [pc : {"new"}, request : Requests, goal : {1}, main : {TRUE},
                           stack : {<<>>}, global : {EmptyContext}, nodes : {{}}]]
    /\ model = {}
    /\ saved = {}
    /\ spikes = [c \in Clients |-> 0]
    /\ helped = {}

-----------------------------------------------------------------------------
\* initializeGlobalContext: the input is frame and last result, the models are
\* loaded: domain, simulation and reformulation model are one cached object.
Start(c) ==
    /\ lc[c].pc = "new"
    /\ LET r == lc[c].request
           input == Resource("KnowledgeString", r.name, r.body, c)
       IN  lc' = [lc EXCEPT ![c].pc = "goal",
                            ![c].global = [ContextWith({input}, input) EXCEPT
                                              !.domainModel = "cached",
                                              !.simulationModel = "cached"]]
    /\ UNCHANGED <<service, model, saved, spikes, helped>>

\* runGoals: the selector gives the resources of the current goal.
StartGoal(c) ==
    /\ lc[c].pc = "goal"
    /\ lc[c].goal <= Len(Workflow(lc[c].request.type))
    /\ LET goal == Workflow(lc[c].request.type)[lc[c].goal]
       IN  lc' = [lc EXCEPT ![c].pc = "resources", ![c].main = TRUE,
                            ![c].stack = <<Pass(GoalResources[goal], FALSE)>>]
    /\ UNCHANGED <<service, model, saved, spikes, helped>>

\* translate: call the action of the next resource with the global context.
Translate(c) ==
    /\ lc[c].pc = "resources"
    /\ LET pass == Last(lc[c].stack)
       IN  /\ pass.todo # <<>>
           /\ AS!Call(c, Head(pass.todo), lc[c].global)
    /\ lc' = [lc EXCEPT ![c].pc = "translating"]
    /\ UNCHANGED <<model, saved, spikes, helped>>

\* The result that may be a SelectorRequest: the last reflective result in a
\* reflective pass, the last result otherwise.
Asks(pass, ctx) == IF pass.reflective THEN ctx.lastReflectiveResult ELSE ctx.lastResult

\* Selector.apply(SelectorRequest): URIs that name no known resource are dropped.
Select(request) == IF request.body \in Selectable THEN <<request.body>> ELSE <<>>

\* processResources, with the context an action returned.
Result(c) ==
    /\ lc[c].pc = "translating"
    /\ call[c].pc = "answered"
    /\ call[c].reply.ok
    /\ AS!Return(c)
    /\ LET ctx == call[c].reply.ctx
           depth == Len(lc[c].stack)
           pass == lc[c].stack[depth]
           asks == Asks(pass, ctx)
           rest == [lc[c].stack EXCEPT ![depth].todo = Tail(@)]
       IN  lc' = [lc EXCEPT
                    ![c].pc = "resources",
                    ![c].global = MergeWithBase(@, ctx),
                    ![c].stack =
                        IF asks.kind = "SelectorRequest"
                        THEN Append(rest, Pass(Select(asks), TRUE))
                        ELSE [rest EXCEPT ![depth].contexts = Append(@, ctx)]]
    /\ UNCHANGED <<model, saved, spikes, helped>>

\* translate throws: Failure(e), or one of the timeouts.  Nothing catches it.
Throw(c) ==
    /\ lc[c].pc = "translating"
    /\ call[c].pc = "failed" \/ (call[c].pc = "answered" /\ ~call[c].reply.ok)
    /\ AS!Return(c)
    /\ lc' = [lc EXCEPT ![c].pc = "failed"]
    /\ UNCHANGED <<model, saved, spikes, helped>>

\* A nested pass is done: its contexts take the place of the one that asked for it.
EndNestedPass(c) ==
    /\ lc[c].pc = "resources"
    /\ LET depth == Len(lc[c].stack)
           pass == lc[c].stack[depth]
       IN  /\ depth > 1
           /\ pass.todo = <<>>
           /\ lc' = [lc EXCEPT ![c].stack =
                        [SubSeq(lc[c].stack, 1, depth - 1) EXCEPT
                            ![depth - 1].contexts = @ \o pass.contexts]]
    /\ UNCHANGED <<service, model, saved, spikes, helped>>

\* mergeContexts
MergeContexts(global, contexts) == MergeWithBase(global, MergeLast(contexts))

\* Mutant: what a training found is stored before the reflective critics run.
StartReflection_Learns(c) ==
    /\ lc[c].pc = "resources"
    /\ lc[c].main
    /\ Len(lc[c].stack) = 1
    /\ lc[c].stack[1].todo = <<>>
    /\ lc' = [lc EXCEPT ![c].main = FALSE,
                        ![c].global = MergeContexts(@, lc[c].stack[1].contexts),
                        ![c].stack = <<Pass(ReflectiveCritics, TRUE)>>]
    /\ model' = model \cup {lc[c].global.lastResult.of}
    /\ UNCHANGED <<service, saved, spikes, helped>>

\* The pass over the goal's resources is done: the reflective critics run.
StartReflection(c) ==
    /\ lc[c].pc = "resources"
    /\ lc[c].main
    /\ Len(lc[c].stack) = 1
    /\ lc[c].stack[1].todo = <<>>
    /\ lc' = [lc EXCEPT ![c].main = FALSE,
                        ![c].global = MergeContexts(@, lc[c].stack[1].contexts),
                        ![c].stack = <<Pass(ReflectiveCritics, TRUE)>>]
    /\ UNCHANGED <<service, model, saved, spikes, helped>>

\* Mutants: the index of the goal manager is not moved, or moved twice.
NextGoal_Same(i) == i
NextGoal_Twice(i) == i + 2

\* GoalManager.nextGoal(context): contexts never name a next goal.
NextGoal(i) == i + 1

\* The reflective pass is done: on to the next goal.
EndGoal(c) ==
    /\ lc[c].pc = "resources"
    /\ ~lc[c].main
    /\ Len(lc[c].stack) = 1
    /\ lc[c].stack[1].todo = <<>>
    /\ lc' = [lc EXCEPT ![c].pc = "goal", ![c].goal = NextGoal(@), ![c].stack = <<>>,
                        ![c].global = MergeContexts(@, lc[c].stack[1].contexts)]
    /\ UNCHANGED <<service, model, saved, spikes, helped>>

\* runGoals returns.  A training goes on to store its result, if it is a concept
\* network; a result of another kind is a MatchError.
EndRun(c) ==
    /\ lc[c].pc = "goal"
    /\ lc[c].goal > Len(Workflow(lc[c].request.type))
    /\ LET r == lc[c].global.lastResult
       IN  lc' = [lc EXCEPT ![c].pc =
                    CASE lc[c].request.type # "TrainingRequest" -> "done"
                      [] lc[c].request.type = "TrainingRequest" ->
                            IF r.kind = "ConceptNetwork" THEN "learn"
                            ELSE IF r = None THEN "done" ELSE "failed"]
    /\ UNCHANGED <<service, model, saved, spikes, helped>>

\* model.nodes ::: r.nodes
Learn(c) ==
    /\ lc[c].pc = "learn"
    /\ lc' = [lc EXCEPT ![c].pc = "store",
                        ![c].nodes = model \cup {lc[c].global.lastResult.of}]
    /\ UNCHANGED <<service, model, saved, spikes, helped>>

\* model.nodes = ...
StoreNodes(c) ==
    /\ lc[c].pc = "store"
    /\ model' = lc[c].nodes
    /\ lc' = [lc EXCEPT ![c].pc = "save"]
    /\ UNCHANGED <<service, saved, spikes, helped>>

\* LongTermMemory.saveModel
SaveModel(c) ==
    /\ lc[c].pc = "save"
    /\ saved' = model
    /\ lc' = [lc EXCEPT ![c].pc = "done"]
    /\ UNCHANGED <<service, model, spikes, helped>>

\* saveModel throws, with nothing or a part of the model saved: the database is shut
\* down, or a node it links to is not there (module ConceptStore).  Nothing catches
\* it, and nothing takes back the nodes that were assigned before.
SaveModelThrows(c) ==
    /\ lc[c].pc = "save"
    /\ saved' \in {saved} \cup SUBSET model
    /\ lc' = [lc EXCEPT ![c].pc = "unsaved"]
    /\ UNCHANGED <<service, model, spikes, helped>>

-----------------------------------------------------------------------------
(* The action service.  Work that is lost is work that is never executed.   *)

Submit(c) ==
    /\ AS!Submit(c)
    /\ \A w \in work : w.id # [client |-> c, ask |-> call[c].ask]
    /\ UNCHANGED <<lc, model, saved, spikes, helped>>

Timeout(c) ==
    /\ AS!Fail(c)
    /\ UNCHANGED <<lc, model, saved, spikes, helped>>

Execute(w, reply) ==
    /\ AS!Execute(w, reply)
    /\ spikes' = [c \in Clients |->
                    IF /\ w.class = "SpikeGeneratorWay2Think"
                       /\ \E r \in SpikesOf(w.payload) : r.of = c
                    THEN spikes[c] + 1 ELSE spikes[c]]
    /\ helped' = IF w.class = "Cry4HelpWay2Think" THEN helped \cup {w.id.client} ELSE helped
    /\ UNCHANGED <<lc, model, saved>>

-----------------------------------------------------------------------------
LifeCycle(c) ==
    \/ Start(c)
    \/ StartGoal(c)
    \/ Translate(c)
    \/ Result(c)
    \/ Throw(c)
    \/ EndNestedPass(c)
    \/ StartReflection(c)
    \/ EndGoal(c)
    \/ EndRun(c)
    \/ Learn(c)
    \/ StoreNodes(c)
    \/ SaveModel(c)
    \/ SaveModelThrows(c)

Next ==
    \/ \E c \in Clients : LifeCycle(c) \/ Submit(c) \/ Timeout(c)
    \/ \E w \in work : \E reply \in ActionReplies(w.class, w.payload) : Execute(w, reply)

Spec == Init /\ [][Next]_vars

\* A thread goes on and its timeouts fire.  Nothing is assumed of the actions.
FairSpec == Spec /\ \A c \in Clients : WF_vars(LifeCycle(c)) /\ WF_vars(Timeout(c))

-----------------------------------------------------------------------------
PassOK(pass) ==
    /\ pass.reflective \in BOOLEAN
    /\ \A i \in DOMAIN pass.todo : pass.todo[i] \in Classes

TypeOK ==
    /\ \A w \in work : w.class \in Classes /\ w.id.client \in Clients
    /\ \A c \in Clients :
        /\ call[c].pc \in {"idle", "waiting", "answered", "failed"}
        /\ lc[c].pc \in {"new", "goal", "resources", "translating", "learn", "store",
                         "save", "done", "failed", "unsaved"}
        /\ lc[c].goal \in 1 .. 2
        /\ \A i \in DOMAIN lc[c].stack : PassOK(lc[c].stack[i])
        /\ (lc[c].pc = "translating") = (call[c].pc # "idle")
        /\ spikes[c] \in Nat
    /\ model \subseteq Clients
    /\ saved \subseteq Clients

\* The spike generator runs on the data of a request at most once, whatever times
\* out; exactly once if the request ends well and its channel has a critic, and
\* never for another channel or for text (processResources, classify).
SpikedOnce ==
    \A c \in Clients :
        /\ spikes[c] <= 1
        /\ lc[c].pc = "done" =>
            (spikes[c] = 1 <=> /\ lc[c].request.type # "TrainingRequest"
                               /\ lc[c].request.body \in {"hand", "distance"})

\* A request that ends well and has new domain concepts to report, found by an action
\* in the middle of a goal and merged from context to context since, has asked the
\* user about them (DoNotUnderstandManager, processReflectiveCritics).
AskedForHelp ==
    \A c \in Clients :
        lc[c].pc = "done" /\ lc[c].global.resultToReport # {} => c \in helped

\* The models of a life cycle stay the cached object that all requests share, also
\* when an action returns a model of its own: what a training teaches is visible
\* to later requests only because of this (mergeWithBaseContext).
ModelsAreShared ==
    \A c \in Clients :
        lc[c].pc # "new" =>
            /\ lc[c].global.domainModel = "cached"
            /\ lc[c].global.simulationModel = "cached"

\* A training that failed before it came to saveModel, for instance because nobody
\* answered its question in time, has added no nodes to the model, neither in memory
\* nor to the saved one, although other trainings assign and save the same model
\* meanwhile, and some of them fail in saveModel ("unsaved"): those have taught what
\* they learned.  (The links a failed training may have left are in module Training.)
FailedTeachesNothing ==
    \A c \in Clients : lc[c].pc = "failed" => c \notin model /\ c \notin saved

\* Every request ends, with a context or with an exception.
EveryRequestEnds ==
    \A c \in Clients : lc[c].pc # "new" ~> lc[c].pc \in {"done", "failed", "unsaved"}

\* ThinkingLifeCycleTest: after a training the model holds what it taught
\* (assert of simulationModel.nodes).
TrainingIsKept ==
    \A c \in Clients :
        lc[c].pc = "done" /\ lc[c].request.type = "TrainingRequest" => c \in model
=============================================================================
