------------------------------- MODULE Actions -------------------------------
(***************************************************************************)
(* The actions of the training and of the robotic data workflow: for each,  *)
(* the replies its apply may produce from a context.  Natural language      *)
(* processing, the spell checker and the search for concept paths are       *)
(* choices over their outcomes; what they need of the context, what they    *)
(* put into the result and when they throw is the code's.                   *)
(***************************************************************************)
EXTENDS ShortTermMemory

Success(ctx) == [ok |-> TRUE, ctx |-> ctx]
Failure == [ok |-> FALSE, ctx |-> EmptyContext]

\* The channel of a body that is JSON with channel and data.
Channels == {"hand", "distance", "other"}
\* The bodies of a KnowledgeString: JSON of a channel, JSON whose data lack a
\* field, and everything else.
Bodies == Channels \cup {"incomplete", "text"}

SpikeGeneratorRequest(of) ==
    Resource("SelectorRequest", "SpikeGenerator", "SpikeGeneratorWay2Think", of)
Cry4HelpRequest(of) ==
    Resource("SelectorRequest", "Cry4Help", "Cry4HelpWay2Think", of)

-----------------------------------------------------------------------------
\* UnderstandRequestCritic parses the last result.  A missing field of an item is
\* a NullPointerException, a result of another kind a MatchError.
UnderstandRequestCritic(ctx) ==
    LET in == ctx.lastResult
        container == Resource("RoboticDataContainer", "spike-resource", in.body, in.of)
    IN  CASE in = None -> {Success(EmptyContext)}
          [] in.kind = "KnowledgeString" /\ in.body \in Channels ->
                {Success(ContextWith({container}, container))}
          [] in.kind = "KnowledgeString" /\ in.body = "incomplete" -> {Failure}
          [] in.kind = "KnowledgeString" /\ in.body = "text" -> {Success(EmptyContext)}
          [] OTHER -> {Failure}

\* SpikeClassifierCritic.classify: a request for the spike generator if the data
\* are of the critic's channel.
Classify(ctx, channel) ==
    LET data == {r \in FindByName(ctx, "spike-resource") :
                    r.kind = "RoboticDataContainer" /\ r.body = channel}
    IN  IF data = {}
        THEN {Success(EmptyContext)}
        ELSE {Success(ContextWith({}, SpikeGeneratorRequest(r.of))) : r \in data}

\* SpikeGeneratorWay2Think: writes the spikes (module SpikeGenerator) or throws.
SpikeGeneratorWay2Think(ctx) == {Success(EmptyContext), Failure}

\* The data a run of the spike generator writes.
SpikesOf(ctx) ==
    {r \in FindByName(ctx, "spike-resource") :
        r.kind = "RoboticDataContainer" /\ r.body \in {"hand", "distance"}}

\* Mutant: help is asked for only when something was not understood.
DoNotUnderstandManager_OnlyNotUnderstood(ctx) ==
    {Success(IF ctx.notUnderstoodConcepts # {}
             THEN ReflectiveContext(Cry4HelpRequest("")) ELSE EmptyContext)}

\* DoNotUnderstandManager: a request for help if something was not understood or
\* is to be reported.  No merge keeps lastError, so that branch never runs.
DoNotUnderstandManager(ctx) ==
    {Success(IF ctx.notUnderstoodConcepts # {} \/ ctx.resultToReport # {}
             THEN ReflectiveContext(Cry4HelpRequest("")) ELSE EmptyContext)}

\* Cry4HelpWay2Think: shows what there is and returns the user's answer.
Cry4HelpWay2Think(ctx) == {Success([EmptyContext EXCEPT !.userResponse = "answer"])}

-----------------------------------------------------------------------------
\* PreliminarySplitter: splits the frame named inputtext; without one the result
\* holds no narrative.  The language processor may throw.
PreliminarySplitter(ctx) ==
    LET texts == FindByName(ctx, "inputtext")
    IN  IF texts = {}
        THEN {Success([EmptyContext EXCEPT
                !.frames = {Resource("Cry4Help", "Could_not_find", "", "")}])}
        ELSE {Failure} \cup
             {Success(ContextWith({}, Resource("AnnotatedNarrative", "PreliminarySplitter",
                                               t.body, t.of))) : t \in texts}

\* KBAnnotatorImpl: annotates the splitter's narratives; the first is the result.
KBAnnotatorImpl(ctx) ==
    LET narratives == FindByName(ctx, "PreliminarySplitter")
    IN  {Failure} \cup {Success(ContextWith(narratives, n)) : n \in narratives}

\* LinkParser: the last result has to be a narrative.
LinkParser(ctx) ==
    LET in == ctx.lastResult
        linked == Resource("AnnotatedNarrative", "LinkedNarrative", in.body, in.of)
    IN  IF in.kind = "AnnotatedNarrative"
        THEN {Failure, Success(ContextWith({linked}, linked))}
        ELSE {Failure}

\* Correlation.apply(narrative, model): the concepts on the paths to the model and the
\* domain concepts that are new (module Training has the search).  checkShortestMaps
\* finds nothing that was not understood, whatever the paths.
Correlation(n) ==
    [paths : {Resource("ConceptNetwork", "Training", n.body, n.of)},
     domainConcepts : SUBSET {n.of}, notUnderstood : {{}}]

\* CorrelationWay2Think: the paths are the result; new domain concepts make a model of
\* their own and are reported.  No context has a simulationResult here.
CorrelationWay2Think(ctx) ==
    LET narratives == FindByName(ctx, "LinkedNarrative")
        result(t) ==
            [ContextWith({}, t.paths) EXCEPT
                !.simulationModel = IF t.domainConcepts # {} THEN "updated" ELSE "none",
                !.resultToReport = t.domainConcepts,
                !.notUnderstoodConcepts = t.notUnderstood]
    IN  IF ctx.simulationModel = "none"
        THEN {Failure}
        ELSE {Failure} \cup UNION {{Success(result(t)) : t \in Correlation(n)} : n \in narratives}

-----------------------------------------------------------------------------
Classes ==
    {"UnderstandRequestCritic", "HandSpikeClassifierCritic", "DistanceSpikeClassifierCritic",
     "SpikeGeneratorWay2Think", "DoNotUnderstandManager", "Cry4HelpWay2Think",
     "PreliminarySplitter", "KBAnnotatorImpl", "LinkParser", "CorrelationWay2Think"}

\* AkkaAction.receive: apply's result as Success, every Throwable as Failure.
ActionReplies(k, ctx) ==
    CASE k = "UnderstandRequestCritic" -> UnderstandRequestCritic(ctx)
      [] k = "HandSpikeClassifierCritic" -> Classify(ctx, "hand")
      [] k = "DistanceSpikeClassifierCritic" -> Classify(ctx, "distance")
      [] k = "SpikeGeneratorWay2Think" -> SpikeGeneratorWay2Think(ctx)
      [] k = "DoNotUnderstandManager" -> DoNotUnderstandManager(ctx)
      [] k = "Cry4HelpWay2Think" -> Cry4HelpWay2Think(ctx)
      [] k = "PreliminarySplitter" -> PreliminarySplitter(ctx)
      [] k = "KBAnnotatorImpl" -> KBAnnotatorImpl(ctx)
      [] k = "LinkParser" -> LinkParser(ctx)
      [] k = "CorrelationWay2Think" -> CorrelationWay2Think(ctx)

\* KBAdapter.getByGoalName
GoalResources ==
    [Train |-> <<"PreliminarySplitter", "KBAnnotatorImpl", "LinkParser",
                 "CorrelationWay2Think">>,
     ProcessRoboticDataRequest |->
        <<"UnderstandRequestCritic", "HandSpikeClassifierCritic",
          "DistanceSpikeClassifierCritic">>]

\* KBAdapter.stringResourcesMap: the classes that a SelectorRequest can name.
Selectable == Classes \ {"DoNotUnderstandManager"}

\* KBAdapter.getReflectiveCritics, without critics in the knowledge base.
ReflectiveCritics == <<"DoNotUnderstandManager">>
=============================================================================
