----------------------- MODULE ThinkingLifeCycle_proofs -----------------------
(***************************************************************************)
(* What holds of the thinking life cycle for every number of requests that  *)
(* run at the same time.                                                    *)
(***************************************************************************)
EXTENDS ThinkingLifeCycle, TLAPS

-----------------------------------------------------------------------------
(* Contexts.                                                                *)

Kinds ==
    {"None", "KnowledgeString", "RoboticDataContainer", "SelectorRequest", "Cry4Help",
     "AnnotatedNarrative", "ConceptNetwork"}
Names ==
    {q.name : q \in Requests} \cup
    {"", "spike-resource", "SpikeGenerator", "Cry4Help", "Could_not_find",
     "PreliminarySplitter", "LinkedNarrative", "Training"}
Texts == {q.body : q \in Requests} \cup Classes \cup {""}
Models == {"none", "cached", "updated"}

\* What a context of the request of client c, with body b, may hold: resources derived
\* from this request, and a few that are derived from none.
ResourcesOf(c, b) ==
    {r \in [kind : Kinds, name : Names, body : Texts, of : {c, ""}] :
        /\ r.of = "" => /\ r.kind \in {"None", "SelectorRequest", "Cry4Help"}
                        /\ r.name \in {"", "Cry4Help", "Could_not_find"}
        /\ r.kind \in {"KnowledgeString", "RoboticDataContainer"} => r.body = b
        /\ r.kind = "SelectorRequest" => r.name \in {"SpikeGenerator", "Cry4Help"}}

ContextsOf(c, b) ==
    [frames : SUBSET ResourcesOf(c, b), lastResult : ResourcesOf(c, b),
     lastReflectiveResult : ResourcesOf(c, b),
     classificationResults : SUBSET ResourcesOf(c, b),
     notUnderstoodConcepts : SUBSET {c}, resultToReport : SUBSET {c},
     domainModel : Models, simulationModel : Models, userResponse : {"none", "answer"}]

RepliesOf(c, b) == [ok : BOOLEAN, ctx : ContextsOf(c, b)]

\* An Option without value is of no other kind.
LEMMA NoneIs == None.kind = "None" /\ None.name = "" /\ None.body = "" /\ None.of = ""
BY DEF None

\* An empty context belongs to every request.
LEMMA EmptyContextType ==
    ASSUME NEW c, NEW b
    PROVE  None \in ResourcesOf(c, b) /\ EmptyContext \in ContextsOf(c, b)
<1>1. None \in ResourcesOf(c, b)
  BY DEF None, ResourcesOf, Kinds, Names, Texts
<1>2. QED
  BY <1>1 DEF EmptyContext, ContextsOf, Models

\* lastResult_= : a new result is also a frame; it leaves reports and models alone.
LEMMA WithLastResultIs ==
    ASSUME NEW c, NEW b, NEW ctx \in ContextsOf(c, b), NEW r \in ResourcesOf(c, b)
    PROVE  /\ WithLastResult(ctx, r) \in ContextsOf(c, b)
           /\ WithLastResult(ctx, r).lastResult = r
           /\ WithLastResult(ctx, r).lastReflectiveResult = ctx.lastReflectiveResult
           /\ ctx.frames \subseteq WithLastResult(ctx, r).frames
           /\ r # None => r \in WithLastResult(ctx, r).frames
           /\ WithLastResult(ctx, r).resultToReport = ctx.resultToReport
           /\ WithLastResult(ctx, r).notUnderstoodConcepts = ctx.notUnderstoodConcepts
           /\ WithLastResult(ctx, r).domainModel = ctx.domainModel
           /\ WithLastResult(ctx, r).simulationModel = ctx.simulationModel
           /\ WithLastResult(ctx, r).userResponse = ctx.userResponse
<1> DEFINE classes == IF r.kind = "SelectorRequest" THEN ctx.classificationResults \cup {r}
                      ELSE ctx.classificationResults
           frames == IF r = None THEN ctx.frames ELSE ctx.frames \cup {r}
<1>1. /\ classes \in SUBSET ResourcesOf(c, b)
      /\ frames \in SUBSET ResourcesOf(c, b)
      /\ ctx.frames \subseteq frames /\ (r # None => r \in frames)
  BY DEF ContextsOf
<1>2. WithLastResult(ctx, r) = [ctx EXCEPT !.lastResult = r,
                                           !.classificationResults = classes,
                                           !.frames = frames]
  BY DEF WithLastResult
<1> HIDE DEF classes, frames
<1>3. QED
  BY <1>1, <1>2, ZenonT(30) DEF ContextsOf

\* ContextHelper(resources, lastResult, name)
LEMMA ContextWithIs ==
    ASSUME NEW c, NEW b, NEW r \in ResourcesOf(c, b), NEW rs,
           \A t \in rs : t \in ResourcesOf(c, b)
    PROVE  /\ ContextWith(rs, r) \in ContextsOf(c, b)
           /\ ContextWith(rs, r).lastResult = r
           /\ ContextWith(rs, r).lastReflectiveResult = None
           /\ r # None => r \in ContextWith(rs, r).frames
           /\ ContextWith(rs, r).resultToReport = {}
           /\ ContextWith(rs, r).notUnderstoodConcepts = {}
<1> DEFINE e == [EmptyContext EXCEPT !.frames = rs]
<1>1. /\ e \in ContextsOf(c, b) /\ e.resultToReport = {} /\ e.notUnderstoodConcepts = {}
      /\ e.lastReflectiveResult = None
  BY EmptyContextType DEF EmptyContext, ContextsOf
<1>2. ContextWith(rs, r) = WithLastResult(e, r)
  BY DEF ContextWith
<1> HIDE DEF e
<1>3. QED
  BY <1>1, <1>2, WithLastResultIs

\* The same without resources: the result is the only frame.
LEMMA ResultContextIs ==
    ASSUME NEW c, NEW b, NEW r \in ResourcesOf(c, b)
    PROVE  /\ ContextWith({}, r) \in ContextsOf(c, b)
           /\ ContextWith({}, r).lastResult = r
           /\ ContextWith({}, r).lastReflectiveResult = None
           /\ ContextWith({}, r).resultToReport = {}
BY ContextWithIs

\* merge of two contexts or more: frames and classification results of all.
LEMMA MergeIs ==
    ASSUME NEW c, NEW b, NEW cs \in Seq(ContextsOf(c, b)), Len(cs) # 1
    PROVE  /\ Merge(cs) \in ContextsOf(c, b)
           /\ \A i \in DOMAIN cs : cs[i].frames \subseteq Merge(cs).frames
           /\ Merge(cs).resultToReport = {}
<1> DEFINE frames == UNION {cs[i].frames : i \in DOMAIN cs}
           classes == UNION {cs[i].classificationResults : i \in DOMAIN cs}
<1>1. \A i \in DOMAIN cs : /\ cs[i].frames \in SUBSET ResourcesOf(c, b)
                           /\ cs[i].classificationResults \in SUBSET ResourcesOf(c, b)
  <2>1. \A i \in DOMAIN cs : cs[i] \in ContextsOf(c, b)
    OBVIOUS
  <2>2. QED
    BY <2>1 DEF ContextsOf
<1>2. frames \in SUBSET ResourcesOf(c, b) /\ classes \in SUBSET ResourcesOf(c, b)
  BY <1>1
<1>3. \A i \in DOMAIN cs : cs[i].frames \subseteq frames
  OBVIOUS
<1>4. Merge(cs) = [EmptyContext EXCEPT !.frames = frames, !.classificationResults = classes]
  BY DEF Merge, All
<1> HIDE DEF frames, classes
<1>5. EmptyContext \in ContextsOf(c, b) /\ EmptyContext.resultToReport = {}
  BY EmptyContextType DEF EmptyContext
<1>6. QED
  BY <1>2, <1>3, <1>4, <1>5 DEF ContextsOf

\* mergeWithBaseContext: frames and reports of both, the result of the context if it
\* has one, the models of the base.
LEMMA MergeWithBaseIs ==
    ASSUME NEW c, NEW b, NEW base \in ContextsOf(c, b), NEW ctx \in ContextsOf(c, b)
    PROVE  /\ MergeWithBase(base, ctx) \in ContextsOf(c, b)
           /\ base.frames \cup ctx.frames \subseteq MergeWithBase(base, ctx).frames
           /\ MergeWithBase(base, ctx).lastResult = OrElse(ctx.lastResult, base.lastResult)
           /\ MergeWithBase(base, ctx).resultToReport
                  = base.resultToReport \cup ctx.resultToReport
           /\ MergeWithBase(base, ctx).domainModel = base.domainModel
           /\ MergeWithBase(base, ctx).simulationModel = base.simulationModel
<1> DEFINE cs == <<base, base, ctx>>
           r == OrElse(ctx.lastResult, base.lastResult)
           s == OrElse(ctx.lastReflectiveResult, base.lastReflectiveResult)
           m == WithLastResult(Merge(cs), r)
<1>1. cs \in Seq(ContextsOf(c, b)) /\ Len(cs) = 3 /\ DOMAIN cs = 1 .. 3
      /\ cs[1] = base /\ cs[3] = ctx
  OBVIOUS
<1>2. r \in ResourcesOf(c, b) /\ s \in ResourcesOf(c, b)
  BY DEF ContextsOf, OrElse
<1> HIDE DEF cs
<1>3. /\ Merge(cs) \in ContextsOf(c, b)
      /\ base.frames \subseteq Merge(cs).frames /\ ctx.frames \subseteq Merge(cs).frames
  <2>1. /\ Merge(cs) \in ContextsOf(c, b)
        /\ \A i \in DOMAIN cs : cs[i].frames \subseteq Merge(cs).frames
    <3>1. Len(cs) # 1
      BY <1>1
    <3>2. QED
      BY <1>1, <3>1, MergeIs, Zenon
  <2>2. 1 \in DOMAIN cs /\ 3 \in DOMAIN cs
    BY <1>1
  <2>3. QED
    BY <1>1, <2>1, <2>2, Zenon
<1>4. /\ m \in ContextsOf(c, b) /\ m.lastResult = r
      /\ base.frames \subseteq m.frames /\ ctx.frames \subseteq m.frames
  BY <1>2, <1>3, WithLastResultIs
<1>5. MergeWithBase(base, ctx) =
          [m EXCEPT !.lastReflectiveResult = s,
                    !.domainModel = base.domainModel,
                    !.simulationModel = base.simulationModel,
                    !.userResponse = base.userResponse,
                    !.notUnderstoodConcepts =
                        base.notUnderstoodConcepts \cup ctx.notUnderstoodConcepts,
                    !.resultToReport = base.resultToReport \cup ctx.resultToReport]
  BY DEF MergeWithBase, cs
<1> HIDE DEF m, r, s
<1>6. MergeWithBase(base, ctx) \in ContextsOf(c, b)
  <2> DEFINE nu == base.notUnderstoodConcepts \cup ctx.notUnderstoodConcepts
             rr == base.resultToReport \cup ctx.resultToReport
  <2>1. /\ nu \in SUBSET {c} /\ rr \in SUBSET {c}
        /\ base.domainModel \in Models /\ base.simulationModel \in Models
        /\ base.userResponse \in {"none", "answer"}
    BY DEF ContextsOf
  <2> HIDE DEF nu, rr
  <2>2. [m EXCEPT !.lastReflectiveResult = s, !.domainModel = base.domainModel,
                  !.simulationModel = base.simulationModel,
                  !.userResponse = base.userResponse, !.notUnderstoodConcepts = nu,
                  !.resultToReport = rr] \in ContextsOf(c, b)
    BY <1>2, <1>4, <2>1 DEF ContextsOf
  <2>3. QED
    BY <1>5, <2>2 DEF nu, rr
<1>7. QED
  BY <1>4, <1>5, <1>6 DEF ContextsOf, r

\* mergeLast: what a pass has collected, with the last result.
LEMMA MergeLastIs ==
    ASSUME NEW c, NEW b, NEW cs \in Seq(ContextsOf(c, b)),
           NEW R, \A i \in DOMAIN cs : cs[i].resultToReport \subseteq R
    PROVE  /\ MergeLast(cs) \in ContextsOf(c, b)
           /\ MergeLast(cs).resultToReport \subseteq R
<1>1. CASE cs = <<>>
  <2>1. MergeLast(cs) = EmptyContext /\ EmptyContext.resultToReport = {}
    BY <1>1 DEF MergeLast, EmptyContext
  <2>2. QED
    BY <2>1, EmptyContextType
<1>2. CASE cs # <<>>
  <2> DEFINE l == Last(cs)
             m == WithLastResult(Merge(cs), l.lastResult)
  <2>1. l \in ContextsOf(c, b) /\ Len(cs) \in Nat \ {0}
    BY <1>2 DEF Last
  <2>2. /\ l.lastResult \in ResourcesOf(c, b)
        /\ l.domainModel \in Models /\ l.simulationModel \in Models
    BY <2>1 DEF ContextsOf
  <2>3. Merge(cs) \in ContextsOf(c, b) /\ Merge(cs).resultToReport \subseteq R
    <3>1. CASE Len(cs) = 1
      <4>1. Merge(cs) = cs[1] /\ 1 \in DOMAIN cs /\ cs[1] \in ContextsOf(c, b)
        BY <3>1 DEF Merge
      <4>2. QED
        BY <4>1
    <3>2. CASE Len(cs) # 1
      BY <3>2, MergeIs
    <3>3. QED
      BY <3>1, <3>2
  <2>4. m \in ContextsOf(c, b) /\ m.resultToReport \subseteq R
    BY <2>2, <2>3, WithLastResultIs
  <2>5. MergeLast(cs) = [m EXCEPT !.domainModel = l.domainModel,
                                  !.simulationModel = l.simulationModel]
    BY <1>2 DEF MergeLast
  <2> HIDE DEF l, m
  <2>6. QED
    BY <2>2, <2>4, <2>5 DEF ContextsOf
<1>3. QED
  BY <1>1, <1>2

\* mergeContexts, of contexts whose reports the global context has already.
LEMMA MergeContextsIs ==
    ASSUME NEW c, NEW b, NEW g \in ContextsOf(c, b), NEW cs \in Seq(ContextsOf(c, b)),
           \A i \in DOMAIN cs : cs[i].resultToReport \subseteq g.resultToReport
    PROVE  /\ MergeContexts(g, cs) \in ContextsOf(c, b)
           /\ g.frames \subseteq MergeContexts(g, cs).frames
           /\ MergeContexts(g, cs).resultToReport = g.resultToReport
           /\ MergeContexts(g, cs).domainModel = g.domainModel
           /\ MergeContexts(g, cs).simulationModel = g.simulationModel
<1> DEFINE m == MergeLast(cs)
<1>1. m \in ContextsOf(c, b) /\ m.resultToReport \subseteq g.resultToReport
  BY MergeLastIs
<1>2. MergeContexts(g, cs) = MergeWithBase(g, m)
  BY DEF MergeContexts
<1> HIDE DEF m
<1>3. /\ MergeWithBase(g, m) \in ContextsOf(c, b)
      /\ g.frames \cup m.frames \subseteq MergeWithBase(g, m).frames
      /\ MergeWithBase(g, m).resultToReport = g.resultToReport \cup m.resultToReport
      /\ MergeWithBase(g, m).domainModel = g.domainModel
      /\ MergeWithBase(g, m).simulationModel = g.simulationModel
  BY <1>1, MergeWithBaseIs
<1>4. g.resultToReport \cup m.resultToReport = g.resultToReport
  BY <1>1
<1>5. QED
  BY <1>2, <1>3, <1>4

-----------------------------------------------------------------------------
(* Actions.                                                                 *)

\* A failure, and the success with an empty context, belong to every request.
LEMMA PlainReplies ==
    ASSUME NEW c, NEW b
    PROVE  /\ Failure \in RepliesOf(c, b)
           /\ \A ctx \in ContextsOf(c, b) : Success(ctx) \in RepliesOf(c, b)
           /\ Success(EmptyContext) \in RepliesOf(c, b)
BY EmptyContextType DEF Failure, Success, RepliesOf

\* A resource that is derived from the request's data belongs to the request.
LEMMA Derived ==
    ASSUME NEW c \in Clients, NEW b,
           NEW kind \in Kinds, NEW name \in Names, NEW body \in Texts,
           kind \notin {"KnowledgeString", "RoboticDataContainer"} \/ body = b,
           kind # "SelectorRequest" \/ name \in {"SpikeGenerator", "Cry4Help"}
    PROVE  Resource(kind, name, body, c) \in ResourcesOf(c, b)
<1>1. c # ""
  BY ClientsAssumption
<1>2. Resource(kind, name, body, c) \in
          [kind : Kinds, name : Names, body : Texts, of : {c, ""}]
  BY DEF Resource
<1>3. QED
  BY <1>1, <1>2 DEF Resource, ResourcesOf

\* What has the name or the kind of data is derived from the request.
LEMMA DataHasOwner ==
    ASSUME NEW c \in Clients, NEW b, NEW r \in ResourcesOf(c, b),
           \/ r.kind \notin {"None", "SelectorRequest", "Cry4Help"}
           \/ r.name \notin {"", "Cry4Help", "Could_not_find"}
    PROVE  r.of = c /\ r.body \in Texts /\ r.kind \in Kinds /\ r.name \in Names
BY DEF ResourcesOf

\* Both critics of spikes: the request for the spike generator is of the client, and is
\* made only if the data are of the critic's channel; then it is the only reply.
LEMMA ClassifyIs ==
    ASSUME NEW c \in Clients, NEW b, NEW ctx \in ContextsOf(c, b), NEW channel
    PROVE  /\ Classify(ctx, channel) \subseteq RepliesOf(c, b)
           /\ b # channel => Classify(ctx, channel) = {Success(EmptyContext)}
           /\ \A reply \in Classify(ctx, channel) :
                 /\ reply.ok /\ reply.ctx.resultToReport = {}
                 /\ reply.ctx.lastResult \in {None, SpikeGeneratorRequest(c)}
           /\ Resource("RoboticDataContainer", "spike-resource", channel, c) \in ctx.frames =>
                 \A reply \in Classify(ctx, channel) :
                     reply.ctx.lastResult = SpikeGeneratorRequest(c)
<1> DEFINE data == {r \in FindByName(ctx, "spike-resource") :
                       r.kind = "RoboticDataContainer" /\ r.body = channel}
           s == SpikeGeneratorRequest(c)
           x == ContextWith({}, s)
<1>1. \A r \in data : r.of = c /\ b = channel
  <2> SUFFICES ASSUME NEW r \in data PROVE r.of = c /\ b = channel
    OBVIOUS
  <2>1. r \in ResourcesOf(c, b) /\ r.kind = "RoboticDataContainer" /\ r.body = channel
    BY DEF FindByName, ContextsOf
  <2>2. QED
    BY <2>1, DataHasOwner DEF ResourcesOf
<1>2. s \in ResourcesOf(c, b)
  <2>1. "SpikeGenerator" \in Names /\ "SpikeGeneratorWay2Think" \in Texts
            /\ "SelectorRequest" \in Kinds
    BY DEF Names, Texts, Classes, Kinds
  <2>2. QED
    BY <2>1, Derived DEF SpikeGeneratorRequest
<1>3. /\ x \in ContextsOf(c, b) /\ x.resultToReport = {} /\ x.lastResult = s
  BY <1>2, ResultContextIs
<1>4. Classify(ctx, channel) = IF data = {} THEN {Success(EmptyContext)}
                               ELSE {Success(ContextWith({}, SpikeGeneratorRequest(r.of))) : r \in data}
  BY DEF Classify
<1>5. Resource("RoboticDataContainer", "spike-resource", channel, c) \in ctx.frames
          => data # {}
  <2> DEFINE k == Resource("RoboticDataContainer", "spike-resource", channel, c)
  <2>1. /\ k.kind = "RoboticDataContainer" /\ k.name = "spike-resource"
        /\ k.body = channel
    BY DEF Resource
  <2> HIDE DEF k
  <2>2. k \in ctx.frames => k \in data
    BY <2>1 DEF FindByName
  <2>3. QED
    BY <2>2 DEF k
<1> HIDE DEF data
<1>6. data # {} => Classify(ctx, channel) = {Success(x)}
  BY <1>1, <1>4
<1>7. data = {} => Classify(ctx, channel) = {Success(EmptyContext)}
  BY <1>4
<1>8. /\ Success(x).ok /\ Success(x).ctx = x
      /\ Success(EmptyContext).ok /\ Success(EmptyContext).ctx = EmptyContext
  BY DEF Success
<1>9. EmptyContext.resultToReport = {} /\ EmptyContext.lastResult = None
  BY DEF EmptyContext
<1> HIDE DEF x, s
<1>10. CASE data = {}
  BY <1>5, <1>7, <1>8, <1>9, <1>10, PlainReplies DEF s
<1>11. CASE data # {}
  <2>1. b = channel
    BY <1>1, <1>11
  <2>2. QED
    BY <1>3, <1>6, <1>8, <1>11, <2>1, PlainReplies DEF s
<1>12. QED
  BY <1>10, <1>11

\* UnderstandRequestCritic: the data of the request as a container, if they are JSON of
\* a channel.
LEMMA UnderstandIs ==
    ASSUME NEW c \in Clients, NEW b \in Texts, NEW ctx \in ContextsOf(c, b)
    PROVE  /\ UnderstandRequestCritic(ctx) \subseteq RepliesOf(c, b)
           /\ \A reply \in UnderstandRequestCritic(ctx) :
                 reply.ok => /\ reply.ctx.resultToReport = {}
                             /\ reply.ctx.lastResult.kind # "SelectorRequest"
           /\ ctx.lastResult.kind = "KnowledgeString" /\ b \in Channels =>
                 \A reply \in UnderstandRequestCritic(ctx) :
                     Resource("RoboticDataContainer", "spike-resource", b, c)
                         \in reply.ctx.frames
<1> DEFINE in == ctx.lastResult
           k == Resource("RoboticDataContainer", "spike-resource", b, c)
           x == ContextWith({k}, k)
<1>1. in \in ResourcesOf(c, b)
  BY DEF ContextsOf
<1>2. in.kind = "KnowledgeString" => in.body = b /\ in.of = c
  BY <1>1, DataHasOwner DEF ResourcesOf
<1>3. k \in ResourcesOf(c, b) /\ k.kind = "RoboticDataContainer"
  <2>1. "RoboticDataContainer" \in Kinds /\ "spike-resource" \in Names
    BY DEF Kinds, Names
  <2>2. QED
    BY <2>1, Derived DEF Resource
<1>4. k # None
  BY <1>3, NoneIs
<1> HIDE DEF k
<1>5. \A t \in {k} : t \in ResourcesOf(c, b)
  BY <1>3
<1>6. /\ x \in ContextsOf(c, b) /\ x.resultToReport = {} /\ x.lastResult = k
      /\ k \in x.frames
  BY <1>3, <1>4, <1>5, ContextWithIs
<1>7. /\ Success(x).ok /\ Success(x).ctx = x /\ Success(EmptyContext).ok
      /\ Success(EmptyContext).ctx = EmptyContext /\ Failure.ok = FALSE
  BY DEF Success, Failure
<1>8. EmptyContext.resultToReport = {} /\ EmptyContext.lastResult.kind = "None"
  BY DEF EmptyContext, None
<1>9. \/ UnderstandRequestCritic(ctx) = {Success(EmptyContext)}
            /\ ~(in.kind = "KnowledgeString" /\ b \in Channels)
      \/ UnderstandRequestCritic(ctx) = {Success(x)}
      \/ UnderstandRequestCritic(ctx) = {Failure}
            /\ ~(in.kind = "KnowledgeString" /\ b \in Channels)
  <2>1. CASE in = None
    <3>1. in.kind # "KnowledgeString"
      BY <2>1, NoneIs
    <3>2. UnderstandRequestCritic(ctx) = {Success(EmptyContext)}
      BY <2>1, <3>1 DEF UnderstandRequestCritic
    <3>3. QED
      BY <3>1, <3>2
  <2>2. CASE in # None /\ in.kind = "KnowledgeString" /\ in.body \in Channels
    <3>1. UnderstandRequestCritic(ctx) =
              {Success(ContextWith({Resource("RoboticDataContainer", "spike-resource",
                                             in.body, in.of)},
                                   Resource("RoboticDataContainer", "spike-resource",
                                            in.body, in.of)))}
      BY <2>2 DEF UnderstandRequestCritic, Channels
    <3>2. QED
      BY <1>2, <2>2, <3>1 DEF k
  <2>3. CASE in # None /\ in.kind = "KnowledgeString" /\ in.body \notin Channels
    <3>1. \/ UnderstandRequestCritic(ctx) = {Success(EmptyContext)}
          \/ UnderstandRequestCritic(ctx) = {Failure}
      BY <2>3 DEF UnderstandRequestCritic
    <3>2. b \notin Channels
      BY <1>2, <2>3
    <3>3. QED
      BY <3>1, <3>2
  <2>4. CASE in # None /\ in.kind # "KnowledgeString"
    <3>1. UnderstandRequestCritic(ctx) = {Failure}
      BY <2>4 DEF UnderstandRequestCritic
    <3>2. QED
      BY <2>4, <3>1
  <2>5. QED
    BY <2>1, <2>2, <2>3, <2>4
<1> HIDE DEF x
<1>10. UnderstandRequestCritic(ctx) \subseteq RepliesOf(c, b)
  BY <1>6, <1>9, PlainReplies
<1>11. \A reply \in UnderstandRequestCritic(ctx) :
          reply.ok => /\ reply.ctx.resultToReport = {}
                      /\ reply.ctx.lastResult.kind # "SelectorRequest"
  BY <1>3, <1>6, <1>7, <1>8, <1>9
<1>12. in.kind = "KnowledgeString" /\ b \in Channels =>
          \A reply \in UnderstandRequestCritic(ctx) : k \in reply.ctx.frames
  BY <1>6, <1>7, <1>9
<1>13. QED
  BY <1>10, <1>11, <1>12 DEF k

\* The two reflective actions: help is asked for if there is something to report, and
\* neither of them reports anything itself.
LEMMA HelpIs ==
    ASSUME NEW c \in Clients, NEW b \in Texts, NEW ctx \in ContextsOf(c, b)
    PROVE  /\ DoNotUnderstandManager(ctx) \subseteq RepliesOf(c, b)
           /\ Cry4HelpWay2Think(ctx) \subseteq RepliesOf(c, b)
           /\ \A reply \in DoNotUnderstandManager(ctx) \cup Cry4HelpWay2Think(ctx) :
                 /\ reply.ok /\ reply.ctx.resultToReport = {}
                 /\ reply.ctx.lastResult = None
           /\ \A reply \in DoNotUnderstandManager(ctx) :
                 /\ reply.ctx.lastReflectiveResult \in {None, Cry4HelpRequest("")}
                 /\ ctx.resultToReport # {} =>
                       reply.ctx.lastReflectiveResult = Cry4HelpRequest("")
           /\ \A reply \in Cry4HelpWay2Think(ctx) : reply.ctx.lastReflectiveResult = None
<1> DEFINE h == Cry4HelpRequest("")
           x == ReflectiveContext(h)
           y == [EmptyContext EXCEPT !.userResponse = "answer"]
<1>1. h \in ResourcesOf(c, b)
  BY DEF Cry4HelpRequest, Resource, ResourcesOf, Kinds, Names, Texts, Classes
<1> HIDE DEF h
<1>2. /\ x \in ContextsOf(c, b) /\ x.resultToReport = {} /\ x.lastResult = None
      /\ x.lastReflectiveResult = h
  BY <1>1, EmptyContextType, ZenonT(30) DEF ReflectiveContext, EmptyContext, ContextsOf
<1>3. /\ y \in ContextsOf(c, b) /\ y.resultToReport = {} /\ y.lastResult = None
      /\ y.lastReflectiveResult = None
  BY EmptyContextType DEF EmptyContext, ContextsOf
<1>4. /\ EmptyContext.resultToReport = {} /\ EmptyContext.lastResult = None
      /\ EmptyContext.lastReflectiveResult = None
  BY DEF EmptyContext
<1>5. /\ Success(x).ok /\ Success(x).ctx = x
      /\ Success(y).ok /\ Success(y).ctx = y
      /\ Success(EmptyContext).ok /\ Success(EmptyContext).ctx = EmptyContext
  BY DEF Success
<1>6. /\ Cry4HelpWay2Think(ctx) = {Success(y)}
      /\ \/ DoNotUnderstandManager(ctx) = {Success(x)}
         \/ DoNotUnderstandManager(ctx) = {Success(EmptyContext)} /\ ctx.resultToReport = {}
  BY DEF Cry4HelpWay2Think, DoNotUnderstandManager, h
<1> HIDE DEF x, y
<1>7. DoNotUnderstandManager(ctx) \subseteq RepliesOf(c, b)
          /\ Cry4HelpWay2Think(ctx) \subseteq RepliesOf(c, b)
  BY <1>2, <1>3, <1>6, PlainReplies
<1>8. \A reply \in DoNotUnderstandManager(ctx) :
          /\ reply.ok /\ reply.ctx.resultToReport = {} /\ reply.ctx.lastResult = None
          /\ reply.ctx.lastReflectiveResult \in {None, h}
          /\ ctx.resultToReport # {} => reply.ctx.lastReflectiveResult = h
  BY <1>2, <1>4, <1>5, <1>6
<1>9. \A reply \in Cry4HelpWay2Think(ctx) :
          /\ reply.ok /\ reply.ctx.resultToReport = {} /\ reply.ctx.lastResult = None
          /\ reply.ctx.lastReflectiveResult = None
  BY <1>3, <1>5, <1>6
<1>10. QED
  BY <1>7, <1>8, <1>9 DEF h

\* The three actions that read the text of a training.
LEMMA NarrativesAre ==
    ASSUME NEW c \in Clients, NEW b \in Texts, NEW ctx \in ContextsOf(c, b),
           NEW reply \in PreliminarySplitter(ctx) \cup KBAnnotatorImpl(ctx) \cup LinkParser(ctx)
    PROVE  /\ reply \in RepliesOf(c, b)
           /\ reply.ok => reply.ctx.lastResult.kind # "SelectorRequest"
<1>1. Failure \in RepliesOf(c, b) /\ Failure.ok = FALSE
  BY PlainReplies DEF Failure
<1>2. \A x : Success(x).ok /\ Success(x).ctx = x
  BY DEF Success
<1>3. CASE reply = Failure
  BY <1>1, <1>3
<1>4. CASE reply \in PreliminarySplitter(ctx) /\ reply # Failure
  <2> DEFINE h == Resource("Cry4Help", "Could_not_find", "", "")
             e == [EmptyContext EXCEPT !.frames = {h}]
             n(t) == Resource("AnnotatedNarrative", "PreliminarySplitter", t.body, t.of)
  <2>1. \/ reply = Success(e)
        \/ \E t \in FindByName(ctx, "inputtext") : reply = Success(ContextWith({}, n(t)))
    BY <1>4 DEF PreliminarySplitter
  <2>2. CASE reply = Success(e)
    <3>1. h \in ResourcesOf(c, b)
      BY DEF Resource, ResourcesOf, Kinds, Names, Texts
    <3> HIDE DEF h
    <3>2. e \in ContextsOf(c, b) /\ e.lastResult = None
      BY <3>1, EmptyContextType DEF EmptyContext, ContextsOf
    <3> HIDE DEF e
    <3>3. QED
      BY <1>2, <2>2, <3>2, PlainReplies, NoneIs
  <2>3. ASSUME NEW t \in FindByName(ctx, "inputtext"),
               reply = Success(ContextWith({}, n(t)))
        PROVE  reply \in RepliesOf(c, b) /\ reply.ctx.lastResult.kind # "SelectorRequest"
    <3>1. t \in ResourcesOf(c, b) /\ t.name = "inputtext"
      BY DEF FindByName, ContextsOf
    <3>2. t.of = c /\ t.body \in Texts
      BY <3>1, DataHasOwner
    <3>3. n(t) \in ResourcesOf(c, b) /\ n(t).kind = "AnnotatedNarrative"
      <4>1. "AnnotatedNarrative" \in Kinds /\ "PreliminarySplitter" \in Names
        BY DEF Kinds, Names
      <4>2. QED
        BY <3>2, <4>1, Derived DEF Resource
    <3> HIDE DEF n
    <3>4. /\ ContextWith({}, n(t)) \in ContextsOf(c, b)
          /\ ContextWith({}, n(t)).lastResult = n(t)
      BY <3>3, ResultContextIs
    <3>5. QED
      BY <1>2, <2>3, <3>3, <3>4, PlainReplies
  <2>4. QED
    BY <1>2, <2>1, <2>2, <2>3
<1>5. CASE reply \in KBAnnotatorImpl(ctx) /\ reply # Failure
  <2> DEFINE ns == FindByName(ctx, "PreliminarySplitter")
  <2>1. PICK n \in ns : reply = Success(ContextWith(ns, n))
    BY <1>5 DEF KBAnnotatorImpl
  <2>2. \A t \in ns : t \in ResourcesOf(c, b) /\ t.name = "PreliminarySplitter"
    BY DEF FindByName, ContextsOf
  <2> HIDE DEF ns
  <2>3. ContextWith(ns, n) \in ContextsOf(c, b) /\ ContextWith(ns, n).lastResult = n
    BY <2>1, <2>2, ContextWithIs
  <2>4. n.kind # "SelectorRequest"
    BY <2>1, <2>2 DEF ResourcesOf
  <2>5. QED
    BY <1>2, <2>1, <2>3, <2>4, PlainReplies
<1>6. CASE reply \in LinkParser(ctx) /\ reply # Failure
  <2> DEFINE in == ctx.lastResult
             l == Resource("AnnotatedNarrative", "LinkedNarrative", in.body, in.of)
  <2>1. in.kind = "AnnotatedNarrative" /\ reply = Success(ContextWith({l}, l))
    BY <1>6 DEF LinkParser
  <2>2. in \in ResourcesOf(c, b)
    BY DEF ContextsOf
  <2>3. in.of = c /\ in.body \in Texts
    BY <2>1, <2>2, DataHasOwner
  <2>4. l \in ResourcesOf(c, b) /\ l.kind = "AnnotatedNarrative"
    <3>1. "AnnotatedNarrative" \in Kinds /\ "LinkedNarrative" \in Names
      BY DEF Kinds, Names
    <3>2. QED
      BY <2>3, <3>1, Derived DEF Resource
  <2> HIDE DEF l
  <2>5. ContextWith({l}, l) \in ContextsOf(c, b) /\ ContextWith({l}, l).lastResult = l
    BY <2>4, ContextWithIs
  <2>6. QED
    BY <1>2, <2>1, <2>4, <2>5, PlainReplies
<1>7. QED
  BY <1>3, <1>4, <1>5, <1>6

\* CorrelationWay2Think: what it reports is of the client.
LEMMA CorrelationIs ==
    ASSUME NEW c \in Clients, NEW b \in Texts, NEW ctx \in ContextsOf(c, b),
           NEW reply \in CorrelationWay2Think(ctx)
    PROVE  /\ reply \in RepliesOf(c, b)
           /\ reply.ok => reply.ctx.lastResult.kind # "SelectorRequest"
<1>1. Failure \in RepliesOf(c, b) /\ Failure.ok = FALSE
  BY PlainReplies DEF Failure
<1>2. CASE reply = Failure
  BY <1>1, <1>2
<1>3. CASE reply # Failure
  <2> DEFINE x(t) == [ContextWith({}, t.paths) EXCEPT
                         !.simulationModel =
                             IF t.domainConcepts # {} THEN "updated" ELSE "none",
                         !.resultToReport = t.domainConcepts,
                         !.notUnderstoodConcepts = t.notUnderstood]
  <2>1. PICK n \in FindByName(ctx, "LinkedNarrative") :
           \E t \in Correlation(n) : reply = Success(x(t))
    BY <1>3 DEF CorrelationWay2Think
  <2>2. PICK t \in Correlation(n) : reply = Success(x(t))
    BY <2>1
  <2>3. n \in ResourcesOf(c, b) /\ n.name = "LinkedNarrative"
    BY DEF FindByName, ContextsOf
  <2>4. n.of = c /\ n.body \in Texts
    BY <2>3, DataHasOwner
  <2>5. /\ t.paths = Resource("ConceptNetwork", "Training", n.body, n.of)
        /\ t.domainConcepts \in SUBSET {c} /\ t.notUnderstood = {}
    BY <2>2, <2>4 DEF Correlation
  <2>6. t.paths \in ResourcesOf(c, b) /\ t.paths.kind = "ConceptNetwork"
    <3>1. "ConceptNetwork" \in Kinds /\ "Training" \in Names
      BY DEF Kinds, Names
    <3>2. QED
      BY <2>4, <2>5, <3>1, Derived DEF Resource
  <2> DEFINE y == ContextWith({}, t.paths)
  <2>7. y \in ContextsOf(c, b) /\ y.lastResult = t.paths
    BY <2>6, ResultContextIs
  <2> HIDE DEF y
  <2>8. x(t) \in ContextsOf(c, b) /\ x(t).lastResult = t.paths
    <3> DEFINE sm == IF t.domainConcepts # {} THEN "updated" ELSE "none"
    <3>1. sm \in Models
      BY DEF Models
    <3> HIDE DEF sm
    <3>2. /\ [y EXCEPT !.simulationModel = sm, !.resultToReport = t.domainConcepts,
                       !.notUnderstoodConcepts = t.notUnderstood] \in ContextsOf(c, b)
          /\ [y EXCEPT !.simulationModel = sm, !.resultToReport = t.domainConcepts,
                       !.notUnderstoodConcepts = t.notUnderstood].lastResult = t.paths
      BY <2>5, <2>7, <3>1 DEF ContextsOf
    <3>3. QED
      BY <3>2 DEF sm, y
  <2> HIDE DEF x
  <2>9. Success(x(t)).ok /\ Success(x(t)).ctx = x(t)
    BY DEF Success
  <2>10. QED
    BY <2>2, <2>6, <2>8, <2>9, PlainReplies
<1>4. QED
  BY <1>2, <1>3

\* What an action may reply: a context of the same request.  Only the critic of the
\* channel of the data asks for more.
LEMMA ActionsAre ==
    ASSUME NEW c \in Clients, NEW b \in Texts, NEW ctx \in ContextsOf(c, b),
           NEW k \in Classes, NEW reply \in ActionReplies(k, ctx)
    PROVE  /\ reply \in RepliesOf(c, b)
           /\ reply.ok /\ reply.ctx.lastResult.kind = "SelectorRequest" =>
                 /\ reply.ctx.lastResult = SpikeGeneratorRequest(c)
                 /\ \/ k = "HandSpikeClassifierCritic" /\ b = "hand"
                    \/ k = "DistanceSpikeClassifierCritic" /\ b = "distance"
<1>1. CASE k = "UnderstandRequestCritic"
  <2>1. reply \in UnderstandRequestCritic(ctx)
    BY <1>1 DEF ActionReplies
  <2>2. QED
    BY <2>1, UnderstandIs
<1>2. ASSUME NEW channel \in {"hand", "distance"},
             \/ k = "HandSpikeClassifierCritic" /\ channel = "hand"
             \/ k = "DistanceSpikeClassifierCritic" /\ channel = "distance"
      PROVE  /\ reply \in RepliesOf(c, b)
             /\ reply.ctx.lastResult.kind = "SelectorRequest" =>
                   reply.ctx.lastResult = SpikeGeneratorRequest(c) /\ b = channel
  <2>1. reply \in Classify(ctx, channel)
    BY <1>2 DEF ActionReplies
  <2>2. /\ reply \in RepliesOf(c, b)
        /\ reply.ctx.lastResult \in {None, SpikeGeneratorRequest(c)}
        /\ b # channel => reply = Success(EmptyContext)
    BY <2>1, ClassifyIs
  <2>3. Success(EmptyContext).ctx.lastResult.kind = "None"
    BY NoneIs DEF Success, EmptyContext
  <2>4. QED
    BY <2>2, <2>3, NoneIs
<1>3. CASE k = "SpikeGeneratorWay2Think"
  <2>1. reply \in {Success(EmptyContext), Failure}
    BY <1>3 DEF ActionReplies, SpikeGeneratorWay2Think
  <2>2. Success(EmptyContext).ctx.lastResult.kind = "None" /\ Failure.ok = FALSE
    BY NoneIs DEF Success, EmptyContext, Failure
  <2>3. QED
    BY <2>1, <2>2, PlainReplies
<1>4. CASE k \in {"DoNotUnderstandManager", "Cry4HelpWay2Think"}
  <2>1. reply \in DoNotUnderstandManager(ctx) \cup Cry4HelpWay2Think(ctx)
    BY <1>4 DEF ActionReplies
  <2>2. QED
    BY <2>1, HelpIs, NoneIs
<1>5. CASE k \in {"PreliminarySplitter", "KBAnnotatorImpl", "LinkParser"}
  <2>1. reply \in PreliminarySplitter(ctx) \cup KBAnnotatorImpl(ctx) \cup LinkParser(ctx)
    BY <1>5 DEF ActionReplies
  <2>2. QED
    BY <2>1, NarrativesAre
<1>6. CASE k = "CorrelationWay2Think"
  <2>1. reply \in CorrelationWay2Think(ctx)
    BY <1>6 DEF ActionReplies
  <2>2. QED
    BY <2>1, CorrelationIs
<1>7. k \in {"UnderstandRequestCritic", "HandSpikeClassifierCritic",
             "DistanceSpikeClassifierCritic", "SpikeGeneratorWay2Think",
             "DoNotUnderstandManager", "Cry4HelpWay2Think", "PreliminarySplitter",
             "KBAnnotatorImpl", "LinkParser", "CorrelationWay2Think"}
  BY DEF Classes
<1>8. CASE k \in {"HandSpikeClassifierCritic", "DistanceSpikeClassifierCritic"}
  BY <1>2, <1>8
<1>9. QED
  BY <1>1, <1>3, <1>4, <1>5, <1>6, <1>7, <1>8

-----------------------------------------------------------------------------
(* Types.                                                                   *)

Body(c) == lc[c].request.body

PassesOf(c, b) ==
    [todo : Seq(Classes), reflective : BOOLEAN, contexts : Seq(ContextsOf(c, b))]

LifeCyclesOf(c, b) ==
    [pc : {"new", "goal", "resources", "translating", "learn", "store", "save", "done",
           "failed", "unsaved"},
     request : {q \in Requests : q.body = b}, goal : 1 .. 2, main : BOOLEAN,
     stack : Seq(PassesOf(c, b)), global : ContextsOf(c, b), nodes : SUBSET Clients]

CallsOf(c, b) ==
    [pc : {"idle", "waiting", "answered", "failed"}, ask : Nat,
     class : Classes \cup {"none"}, payload : ContextsOf(c, b), reply : RepliesOf(c, b)]

WorksOf(c, b) ==
    [id : [client : {c}, ask : Nat], class : Classes, payload : ContextsOf(c, b)]

\* Everything of a request, also the context in the hands of an action, is made of the
\* data of this request.
Shape ==
    /\ lc = [c \in Clients |-> lc[c]]
    /\ call = [c \in Clients |-> call[c]]
    /\ \A c \in Clients : /\ lc[c] \in LifeCyclesOf(c, Body(c))
                          /\ call[c] \in CallsOf(c, Body(c))
    /\ \A w \in work : /\ w.id.client \in Clients
                       /\ w \in WorksOf(w.id.client, Body(w.id.client))
    /\ model \subseteq Clients
    /\ saved \subseteq Clients
    /\ spikes \in [Clients -> Nat]
    /\ helped \subseteq Clients

\* A life cycle in the middle of a goal has a pass that is under way; a call is for the
\* first resource of the current pass, with the global context.
PassInv(c) ==
    /\ lc[c].pc = "new" => lc[c].goal = 1
    /\ lc[c].pc \in {"resources", "translating"} => lc[c].goal = 1 /\ lc[c].stack # <<>>
    /\ lc[c].pc = "translating" <=> call[c].pc # "idle"
    /\ lc[c].pc = "translating" =>
          /\ Last(lc[c].stack).todo # <<>>
          /\ call[c].class = Head(Last(lc[c].stack).todo)
          /\ call[c].payload = lc[c].global

\* A step of the life cycle of c.
Moves(c) ==
    /\ lc' = [d \in Clients |-> lc'[d]]
    /\ \A d \in Clients : d # c => lc'[d] = lc[d]
    /\ lc'[c].request = lc[c].request

\* The resources of the only goal of a request.
Resources(q) == GoalResources[Workflow(q.type)[1]]

\* A workflow has one goal, and a goal is a list of actions.
LEMMA GoalIs ==
    ASSUME NEW q
    PROVE  /\ Len(Workflow(q.type)) = 1
           /\ Resources(q) \in Seq(Classes)
           /\ q.type # "TrainingRequest" =>
                 Resources(q) = <<"UnderstandRequestCritic", "HandSpikeClassifierCritic",
                                  "DistanceSpikeClassifierCritic">>
           /\ q.type = "TrainingRequest" =>
                 Resources(q) = <<"PreliminarySplitter", "KBAnnotatorImpl", "LinkParser",
                                  "CorrelationWay2Think">>
<1>1. CASE q.type = "TrainingRequest"
  <2>1. Workflow(q.type) = <<"Train">>
    BY <1>1 DEF Workflow
  <2>2. GoalResources["Train"] = <<"PreliminarySplitter", "KBAnnotatorImpl", "LinkParser",
                                   "CorrelationWay2Think">>
    BY DEF GoalResources
  <2>3. <<"PreliminarySplitter", "KBAnnotatorImpl", "LinkParser", "CorrelationWay2Think">>
            \in Seq(Classes)
    BY DEF Classes
  <2>4. Len(Workflow(q.type)) = 1 /\ Workflow(q.type)[1] = "Train"
    BY <2>1
  <2>5. QED
    BY <1>1, <2>2, <2>3, <2>4, Zenon DEF Resources
<1>2. CASE q.type # "TrainingRequest"
  <2>1. Workflow(q.type) = <<"ProcessRoboticDataRequest">>
    BY <1>2 DEF Workflow
  <2>2. GoalResources["ProcessRoboticDataRequest"] =
            <<"UnderstandRequestCritic", "HandSpikeClassifierCritic",
              "DistanceSpikeClassifierCritic">>
    BY DEF GoalResources
  <2>3. <<"UnderstandRequestCritic", "HandSpikeClassifierCritic",
          "DistanceSpikeClassifierCritic">> \in Seq(Classes)
    BY DEF Classes
  <2>4. Len(Workflow(q.type)) = 1 /\ Workflow(q.type)[1] = "ProcessRoboticDataRequest"
    BY <2>1
  <2>5. QED
    BY <1>2, <2>2, <2>3, <2>4, Zenon DEF Resources
<1>3. QED
  BY <1>1, <1>2

\* initializeGlobalContext
LEMMA StartIs ==
    ASSUME Shape, NEW c \in Clients, Start(c)
    PROVE  /\ Moves(c) /\ lc'[c] \in LifeCyclesOf(c, Body(c)) /\ lc[c].pc = "new"
           /\ lc'[c].pc = "goal" /\ lc'[c].goal = lc[c].goal /\ lc'[c].nodes = lc[c].nodes
           /\ lc'[c].global.domainModel = "cached"
           /\ lc'[c].global.simulationModel = "cached"
           /\ lc'[c].global.resultToReport = {}
           /\ lc'[c].global.lastResult.kind = "KnowledgeString"
<1> DEFINE q == lc[c].request
           in == Resource("KnowledgeString", q.name, q.body, c)
           x == ContextWith({in}, in)
           g == [x EXCEPT !.domainModel = "cached", !.simulationModel = "cached"]
           r == [lc[c] EXCEPT !.pc = "goal", !.global = g]
<1>1. lc[c] \in LifeCyclesOf(c, Body(c)) /\ lc[c].pc = "new"
  BY DEF Shape, Start
<1>2. lc' = [lc EXCEPT ![c] = r]
  BY DEF Start
<1>3. Moves(c) /\ lc'[c] = r
  BY <1>1, <1>2 DEF Moves, Shape, LifeCyclesOf
<1>4. in \in ResourcesOf(c, Body(c)) /\ in.kind = "KnowledgeString"
  <2>1. q \in Requests /\ q.body = Body(c)
    BY <1>1 DEF LifeCyclesOf
  <2>2. "KnowledgeString" \in Kinds /\ q.name \in Names /\ q.body \in Texts
    BY <2>1 DEF Kinds, Names, Texts
  <2>3. QED
    BY <2>1, <2>2, Derived DEF Resource
<1> HIDE DEF in
<1>5. x \in ContextsOf(c, Body(c)) /\ x.lastResult = in /\ x.resultToReport = {}
  BY <1>4, ContextWithIs
<1> HIDE DEF x
<1>6. /\ g \in ContextsOf(c, Body(c)) /\ g.lastResult = in /\ g.resultToReport = {}
      /\ g.domainModel = "cached" /\ g.simulationModel = "cached"
  BY <1>5 DEF ContextsOf, Models
<1> HIDE DEF g
<1>7. /\ r \in LifeCyclesOf(c, Body(c)) /\ r.pc = "goal" /\ r.global = g
      /\ r.goal = lc[c].goal /\ r.nodes = lc[c].nodes
  BY <1>1, <1>6 DEF LifeCyclesOf
<1>8. QED
  BY <1>1, <1>3, <1>4, <1>6, <1>7

\* runGoals takes the goal of the workflow.
LEMMA StartGoalIs ==
    ASSUME Shape, NEW c \in Clients, StartGoal(c)
    PROVE  /\ Moves(c) /\ lc'[c] \in LifeCyclesOf(c, Body(c))
           /\ lc[c].pc = "goal" /\ lc[c].goal = 1
           /\ lc'[c].pc = "resources" /\ lc'[c].goal = 1 /\ lc'[c].main = TRUE
           /\ lc'[c].stack = <<Pass(Resources(lc[c].request), FALSE)>>
           /\ lc'[c].global = lc[c].global /\ lc'[c].nodes = lc[c].nodes
<1> DEFINE goal == Workflow(lc[c].request.type)[lc[c].goal]
           p == Pass(GoalResources[goal], FALSE)
           r == [lc[c] EXCEPT !.pc = "resources", !.main = TRUE, !.stack = <<p>>]
<1>1. lc[c] \in LifeCyclesOf(c, Body(c)) /\ lc[c].pc = "goal"
  BY DEF Shape, StartGoal
<1>2. lc' = [lc EXCEPT ![c] = r]
  BY DEF StartGoal
<1>3. Moves(c) /\ lc'[c] = r
  BY <1>1, <1>2 DEF Moves, Shape, LifeCyclesOf
<1>4. lc[c].goal = 1
  <2>1. lc[c].goal <= Len(Workflow(lc[c].request.type)) /\ lc[c].goal \in 1 .. 2
    BY <1>1 DEF StartGoal, LifeCyclesOf
  <2>2. Len(Workflow(lc[c].request.type)) = 1
    BY GoalIs
  <2>3. QED
    BY <2>1, <2>2
<1>5. p = Pass(Resources(lc[c].request), FALSE)
  BY <1>4 DEF Resources
<1>6. p \in PassesOf(c, Body(c))
  <2>1. Resources(lc[c].request) \in Seq(Classes)
    BY GoalIs
  <2>2. QED
    BY <1>5, <2>1 DEF Pass, PassesOf
<1> HIDE DEF p
<1>7. /\ r \in LifeCyclesOf(c, Body(c)) /\ r.pc = "resources" /\ r.goal = lc[c].goal
      /\ r.main = TRUE /\ r.stack = <<p>> /\ r.global = lc[c].global
      /\ r.nodes = lc[c].nodes
  <2>1. <<p>> \in Seq(PassesOf(c, Body(c)))
    BY <1>6
  <2>2. QED
    BY <1>1, <2>1 DEF LifeCyclesOf
<1>8. QED
  BY <1>1, <1>3, <1>4, <1>5, <1>7

\* A step of the call of c.
CallMoves(c) ==
    /\ call' = [d \in Clients |-> call'[d]]
    /\ \A d \in Clients : d # c => call'[d] = call[d]

\* translate
LEMMA TranslateIs ==
    ASSUME Shape, NEW c \in Clients, lc[c].pc = "resources" => lc[c].stack # <<>>,
           Translate(c)
    PROVE  /\ Moves(c) /\ lc'[c] = [lc[c] EXCEPT !.pc = "translating"]
           /\ lc'[c] \in LifeCyclesOf(c, Body(c))
           /\ lc[c].pc = "resources" /\ lc'[c].pc = "translating"
           /\ lc'[c].goal = lc[c].goal /\ lc'[c].main = lc[c].main
           /\ lc'[c].stack = lc[c].stack /\ lc'[c].global = lc[c].global
           /\ lc'[c].nodes = lc[c].nodes
           /\ CallMoves(c) /\ call'[c] \in CallsOf(c, Body(c))
           /\ call[c].pc = "idle" /\ call'[c].pc = "waiting"
           /\ call'[c].ask = call[c].ask + 1
           /\ Last(lc[c].stack).todo # <<>>
           /\ call'[c].class = Head(Last(lc[c].stack).todo)
           /\ call'[c].payload = lc[c].global
           /\ work' = work
<1> DEFINE k == Head(Last(lc[c].stack).todo)
           r == [lc[c] EXCEPT !.pc = "translating"]
           x == [pc |-> "waiting", ask |-> call[c].ask + 1, class |-> k,
                 payload |-> lc[c].global, reply |-> NoReply]
<1>1. /\ lc[c] \in LifeCyclesOf(c, Body(c)) /\ call[c] \in CallsOf(c, Body(c))
      /\ lc[c].pc = "resources" /\ lc[c].stack # <<>> /\ Last(lc[c].stack).todo # <<>>
  BY DEF Shape, Translate
<1>2. lc' = [lc EXCEPT ![c] = r]
  BY DEF Translate
<1>3. Moves(c) /\ lc'[c] = r
  BY <1>1, <1>2 DEF Moves, Shape, LifeCyclesOf
<1>4. /\ r \in LifeCyclesOf(c, Body(c)) /\ r.pc = "translating" /\ r.goal = lc[c].goal
      /\ r.main = lc[c].main /\ r.stack = lc[c].stack /\ r.global = lc[c].global
      /\ r.nodes = lc[c].nodes
  BY <1>1 DEF LifeCyclesOf
<1>5. call[c].pc = "idle" /\ work' = work /\ call' = [call EXCEPT ![c] = x]
  BY DEF Translate, AS!Call
<1>6. k \in Classes
  <2>1. Last(lc[c].stack) \in PassesOf(c, Body(c))
    <3>1. lc[c].stack \in Seq(PassesOf(c, Body(c)))
      BY <1>1 DEF LifeCyclesOf
    <3>2. QED
      BY <1>1, <3>1 DEF Last
  <2>2. QED
    BY <1>1, <2>1 DEF PassesOf
<1> HIDE DEF k
<1>7. x \in CallsOf(c, Body(c))
  <2>1. NoReply \in RepliesOf(c, Body(c))
    BY EmptyContextType DEF NoReply, RepliesOf
  <2>2. call[c].ask + 1 \in Nat /\ lc[c].global \in ContextsOf(c, Body(c))
    BY <1>1 DEF CallsOf, LifeCyclesOf
  <2>3. QED
    BY <1>6, <2>1, <2>2 DEF CallsOf
<1>8. CallMoves(c) /\ call'[c] = x
  BY <1>5 DEF CallMoves, Shape
<1> HIDE DEF r
<1>9. QED
  BY <1>1, <1>3, <1>4, <1>5, <1>7, <1>8 DEF k, r

\* translate is over: the call is idle again.
LEMMA ReturnIs ==
    ASSUME Shape, NEW c \in Clients, AS!Return(c)
    PROVE  /\ CallMoves(c) /\ call'[c] \in CallsOf(c, Body(c))
           /\ call'[c].pc = "idle" /\ call'[c].ask = call[c].ask
           /\ call'[c].class = call[c].class /\ call'[c].payload = call[c].payload
           /\ work' = work
<1>1. call[c] \in CallsOf(c, Body(c))
  BY DEF Shape
<1>2. call' = [call EXCEPT ![c] = [call[c] EXCEPT !.pc = "idle"]] /\ work' = work
  BY DEF AS!Return
<1>3. CallMoves(c) /\ call'[c] = [call[c] EXCEPT !.pc = "idle"]
  BY <1>2 DEF CallMoves, Shape
<1>4. QED
  BY <1>1, <1>2, <1>3 DEF CallsOf

\* translate throws.
LEMMA ThrowIs ==
    ASSUME Shape, NEW c \in Clients, Throw(c)
    PROVE  /\ Moves(c) /\ lc'[c] \in LifeCyclesOf(c, Body(c))
           /\ lc[c].pc = "translating" /\ lc'[c].pc = "failed"
           /\ lc'[c].goal = lc[c].goal /\ lc'[c].global = lc[c].global
           /\ lc'[c].nodes = lc[c].nodes
           /\ CallMoves(c) /\ call'[c] \in CallsOf(c, Body(c))
           /\ call'[c].pc = "idle" /\ call'[c].ask = call[c].ask
           /\ call'[c].class = call[c].class /\ call'[c].payload = call[c].payload
           /\ work' = work
<1> DEFINE r == [lc[c] EXCEPT !.pc = "failed"]
<1>1. /\ lc[c] \in LifeCyclesOf(c, Body(c)) /\ lc[c].pc = "translating" /\ AS!Return(c)
  BY DEF Shape, Throw
<1>2. lc' = [lc EXCEPT ![c] = r]
  BY DEF Throw
<1>3. Moves(c) /\ lc'[c] = r
  BY <1>1, <1>2 DEF Moves, Shape, LifeCyclesOf
<1>4. /\ r \in LifeCyclesOf(c, Body(c)) /\ r.pc = "failed" /\ r.goal = lc[c].goal
      /\ r.global = lc[c].global /\ r.nodes = lc[c].nodes
  BY <1>1 DEF LifeCyclesOf
<1>5. QED
  BY <1>1, <1>3, <1>4, ReturnIs

\* What Result makes of the stack: the resource is done, and either the resources it
\* asked for are a pass of their own or its context is collected.
ResourceDone(st) == [st EXCEPT ![Len(st)].todo = Tail(@)]
Nested(st, p) == Append(ResourceDone(st), p)
Collected(st, ctx) == [ResourceDone(st) EXCEPT ![Len(st)].contexts = Append(@, ctx)]

\* Only the current pass changes.
LEMMA StackAfterResult ==
    ASSUME NEW c, NEW b, NEW st \in Seq(PassesOf(c, b)), st # <<>>,
           Last(st).todo # <<>>, NEW ctx \in ContextsOf(c, b),
           NEW p \in PassesOf(c, b)
    PROVE  /\ Nested(st, p) \in Seq(PassesOf(c, b)) /\ Len(Nested(st, p)) = Len(st) + 1
           /\ Nested(st, p)[Len(st) + 1] = p
           /\ \A i \in 1 .. Len(st) - 1 : Nested(st, p)[i] = st[i]
           /\ Nested(st, p)[Len(st)].todo = Tail(st[Len(st)].todo)
           /\ Nested(st, p)[Len(st)].reflective = st[Len(st)].reflective
           /\ Nested(st, p)[Len(st)].contexts = st[Len(st)].contexts
           /\ Collected(st, ctx) \in Seq(PassesOf(c, b)) /\ Len(Collected(st, ctx)) = Len(st)
           /\ \A i \in 1 .. Len(st) - 1 : Collected(st, ctx)[i] = st[i]
           /\ Collected(st, ctx)[Len(st)].todo = Tail(st[Len(st)].todo)
           /\ Collected(st, ctx)[Len(st)].reflective = st[Len(st)].reflective
           /\ Collected(st, ctx)[Len(st)].contexts = Append(st[Len(st)].contexts, ctx)
<1> DEFINE n == Len(st)
           rest == [st EXCEPT ![n].todo = Tail(@)]
           nested == Append(rest, p)
           done == [rest EXCEPT ![n].contexts = Append(@, ctx)]
<1>0. Nested(st, p) = nested /\ Collected(st, ctx) = done
  BY DEF Nested, Collected, ResourceDone
<1>1. n \in Nat \ {0} /\ st[n] \in PassesOf(c, b) /\ Last(st) = st[n]
  BY DEF Last
<1>2. /\ Tail(st[n].todo) \in Seq(Classes) /\ st[n].contexts \in Seq(ContextsOf(c, b))
      /\ Append(st[n].contexts, ctx) \in Seq(ContextsOf(c, b))
  BY <1>1 DEF PassesOf
<1> DEFINE q == [st[n] EXCEPT !.todo = Tail(st[n].todo)]
           d == [st[n] EXCEPT !.todo = Tail(st[n].todo),
                              !.contexts = Append(st[n].contexts, ctx)]
<1>3. /\ q \in PassesOf(c, b) /\ q.contexts = st[n].contexts
      /\ d \in PassesOf(c, b)
      /\ [q EXCEPT !.contexts = Append(st[n].contexts, ctx)] = d
  BY <1>1, <1>2 DEF PassesOf
<1>4. /\ rest = [st EXCEPT ![n] = q]
      /\ rest \in Seq(PassesOf(c, b)) /\ Len(rest) = n /\ rest[n] = q
      /\ \A i \in 1 .. n - 1 : rest[i] = st[i]
  <2>1. rest = [st EXCEPT ![n] = q]
    OBVIOUS
  <2> HIDE DEF q, n, rest
  <2>2. rest \in Seq(PassesOf(c, b)) /\ Len(rest) = n
    BY <1>1, <1>3, <2>1 DEF n
  <2>3. rest[n] = q /\ \A i \in 1 .. n - 1 : rest[i] = st[i]
    BY <1>1, <2>1 DEF n
  <2>4. QED
    BY <2>1, <2>2, <2>3
<1>5. /\ nested \in Seq(PassesOf(c, b)) /\ Len(nested) = n + 1 /\ nested[n + 1] = p
      /\ \A i \in 1 .. n - 1 : nested[i] = st[i]
      /\ nested[n] = q
  <2> HIDE DEF rest, n, q
  <2>1. QED
    BY <1>1, <1>4
<1>6. /\ done \in Seq(PassesOf(c, b)) /\ Len(done) = n
      /\ \A i \in 1 .. n - 1 : done[i] = st[i]
      /\ done[n] = d
  <2>1. done = [rest EXCEPT ![n] = d]
    <3> HIDE DEF d, q, rest
    <3>1. done = [rest EXCEPT ![n] = [rest[n] EXCEPT !.contexts = Append(@, ctx)]]
      OBVIOUS
    <3>2. QED
      BY <1>3, <1>4, <3>1
  <2> HIDE DEF rest, n, q, d, done
  <2>2. done \in Seq(PassesOf(c, b)) /\ Len(done) = n
    BY <1>1, <1>3, <1>4, <2>1
  <2>3. done[n] = d /\ \A i \in 1 .. n - 1 : done[i] = rest[i]
    BY <1>1, <1>4, <2>1
  <2>4. QED
    BY <1>4, <2>2, <2>3
<1>7. /\ q.todo = Tail(st[n].todo) /\ q.reflective = st[n].reflective
      /\ d.todo = Tail(st[n].todo) /\ d.reflective = st[n].reflective
      /\ d.contexts = Append(st[n].contexts, ctx)
  BY <1>1, <1>2 DEF PassesOf
<1> HIDE DEF nested, done, q, d
<1>8. QED
  BY <1>0, <1>3, <1>5, <1>6, <1>7

\* The stack after Result(c), in the two cases.
Nests(c) ==
    LET st == lc[c].stack
        n == Len(st)
        asks == Asks(st[n], call[c].reply.ctx)
    IN  /\ asks.kind = "SelectorRequest"
        /\ Len(lc'[c].stack) = n + 1
        /\ lc'[c].stack[n + 1] = Pass(Select(asks), TRUE)
        /\ \A i \in 1 .. n - 1 : lc'[c].stack[i] = st[i]
        /\ lc'[c].stack[n].todo = Tail(st[n].todo)
        /\ lc'[c].stack[n].reflective = st[n].reflective
        /\ lc'[c].stack[n].contexts = st[n].contexts

Collects(c) ==
    LET st == lc[c].stack
        n == Len(st)
        ctx == call[c].reply.ctx
    IN  /\ Asks(st[n], ctx).kind # "SelectorRequest"
        /\ Len(lc'[c].stack) = n
        /\ \A i \in 1 .. n - 1 : lc'[c].stack[i] = st[i]
        /\ lc'[c].stack[n].todo = Tail(st[n].todo)
        /\ lc'[c].stack[n].reflective = st[n].reflective
        /\ lc'[c].stack[n].contexts = Append(st[n].contexts, ctx)

\* processResources goes on with the context of an action.
LEMMA ResultIs ==
    ASSUME Shape, NEW c \in Clients, PassInv(c), Result(c)
    PROVE  /\ Moves(c) /\ lc'[c] \in LifeCyclesOf(c, Body(c))
           /\ lc[c].pc = "translating" /\ lc'[c].pc = "resources"
           /\ lc'[c].goal = lc[c].goal /\ lc'[c].main = lc[c].main
           /\ lc'[c].nodes = lc[c].nodes
           /\ call[c].pc = "answered" /\ call[c].reply.ok
           /\ call[c].reply.ctx \in ContextsOf(c, Body(c))
           /\ lc'[c].global = MergeWithBase(lc[c].global, call[c].reply.ctx)
           /\ Nests(c) \/ Collects(c)
           /\ CallMoves(c) /\ call'[c] \in CallsOf(c, Body(c))
           /\ call'[c].pc = "idle" /\ call'[c].ask = call[c].ask
           /\ call'[c].class = call[c].class /\ call'[c].payload = call[c].payload
           /\ work' = work
<1> DEFINE ctx == call[c].reply.ctx
           st == lc[c].stack
           n == Len(st)
           asks == Asks(st[n], ctx)
           p == Pass(Select(asks), TRUE)
           nested == Nested(st, p)
           done == Collected(st, ctx)
           st1 == IF asks.kind = "SelectorRequest" THEN nested ELSE done
           g == MergeWithBase(lc[c].global, ctx)
           r == [lc[c] EXCEPT !.pc = "resources", !.global = g, !.stack = st1]
<1>1. /\ lc[c] \in LifeCyclesOf(c, Body(c)) /\ call[c] \in CallsOf(c, Body(c))
      /\ lc[c].pc = "translating" /\ call[c].pc = "answered" /\ call[c].reply.ok
      /\ AS!Return(c)
  BY DEF Shape, Result
<1>2. lc' = [lc EXCEPT ![c].pc = "resources", ![c].global = MergeWithBase(@, ctx),
                       ![c].stack = st1]
  BY Zenon DEF Result, Nested, Collected, ResourceDone
<1>3. Moves(c) /\ lc'[c] = r
  <2> HIDE DEF st1, ctx
  <2>1. lc' = [lc EXCEPT ![c] = r]
    BY <1>2
  <2>2. QED
    BY <1>1, <2>1 DEF Moves, Shape, LifeCyclesOf
<1>4. ctx \in ContextsOf(c, Body(c)) /\ lc[c].global \in ContextsOf(c, Body(c))
  BY <1>1 DEF CallsOf, RepliesOf, LifeCyclesOf
<1>5. g \in ContextsOf(c, Body(c))
  BY <1>4, MergeWithBaseIs
<1>6. /\ st \in Seq(PassesOf(c, Body(c))) /\ st # <<>> /\ Last(st).todo # <<>>
  BY <1>1 DEF LifeCyclesOf, PassInv
<1>7. p \in PassesOf(c, Body(c))
  <2>1. Select(asks) \in Seq(Classes)
    BY DEF Select, Selectable
  <2>2. QED
    BY <2>1 DEF Pass, PassesOf
<1>8. /\ nested \in Seq(PassesOf(c, Body(c))) /\ Len(nested) = n + 1 /\ nested[n + 1] = p
      /\ \A i \in 1 .. n - 1 : nested[i] = st[i]
      /\ nested[n].todo = Tail(st[n].todo) /\ nested[n].reflective = st[n].reflective
      /\ nested[n].contexts = st[n].contexts
      /\ done \in Seq(PassesOf(c, Body(c))) /\ Len(done) = n
      /\ \A i \in 1 .. n - 1 : done[i] = st[i]
      /\ done[n].todo = Tail(st[n].todo) /\ done[n].reflective = st[n].reflective
      /\ done[n].contexts = Append(st[n].contexts, ctx)
  <2> HIDE DEF p, ctx, st
  <2>1. QED
    BY <1>4, <1>6, <1>7, StackAfterResult
<1> HIDE DEF nested, done, g
<1>9. st1 \in Seq(PassesOf(c, Body(c)))
  BY <1>8
<1> HIDE DEF st1
<1>10. /\ r \in LifeCyclesOf(c, Body(c)) /\ r.pc = "resources" /\ r.goal = lc[c].goal
       /\ r.main = lc[c].main /\ r.nodes = lc[c].nodes /\ r.global = g /\ r.stack = st1
  BY <1>1, <1>5, <1>9 DEF LifeCyclesOf
<1> HIDE DEF r
<1>11. Nests(c) \/ Collects(c)
  <2>1. CASE asks.kind = "SelectorRequest"
    <3>1. lc'[c].stack = nested
      BY <1>3, <1>10, <2>1 DEF st1
    <3>2. Nests(c)
      BY <1>8, <2>1, <3>1 DEF Nests
    <3>3. QED
      BY <3>2
  <2>2. CASE asks.kind # "SelectorRequest"
    <3>1. lc'[c].stack = done
      BY <1>3, <1>10, <2>2 DEF st1
    <3>2. Collects(c)
      BY <1>8, <2>2, <3>1 DEF Collects
    <3>3. QED
      BY <3>2
  <2>3. QED
    BY <2>1, <2>2
<1>12. /\ CallMoves(c) /\ call'[c] \in CallsOf(c, Body(c))
       /\ call'[c].pc = "idle" /\ call'[c].ask = call[c].ask
       /\ call'[c].class = call[c].class /\ call'[c].payload = call[c].payload
       /\ work' = work
  BY <1>1, ReturnIs
<1>13. QED
  BY <1>1, <1>3, <1>4, <1>10, <1>11, <1>12 DEF g

\* A nested pass that is over hands its contexts to the pass below.
HandsDown(st, tt) ==
    tt = [SubSeq(st, 1, Len(st) - 1) EXCEPT
             ![Len(st) - 1].contexts = @ \o st[Len(st)].contexts]

\* Nothing else changes in the passes below.
HandedDown(st, tt) ==
    /\ Len(tt) = Len(st) - 1
    /\ \A i \in 1 .. Len(st) - 2 : tt[i] = st[i]
    /\ tt[Len(st) - 1].todo = st[Len(st) - 1].todo
    /\ tt[Len(st) - 1].reflective = st[Len(st) - 1].reflective
    /\ tt[Len(st) - 1].contexts = st[Len(st) - 1].contexts \o st[Len(st)].contexts

\* The stack at the end of a nested pass.
LEMMA StackAfterNested ==
    ASSUME NEW c, NEW b, NEW st \in Seq(PassesOf(c, b)), Len(st) > 1,
           NEW tt, HandsDown(st, tt)
    PROVE  tt \in Seq(PassesOf(c, b)) /\ HandedDown(st, tt)
<1> DEFINE n == Len(st)
           below == SubSeq(st, 1, n - 1)
           cs == st[n - 1].contexts \o st[n].contexts
           q == [st[n - 1] EXCEPT !.contexts = cs]
<1>1. n \in Nat /\ n - 1 \in 1 .. n /\ n \in 1 .. n
  OBVIOUS
<1>2. /\ below \in Seq(PassesOf(c, b)) /\ Len(below) = n - 1
      /\ \A i \in 1 .. n - 1 : below[i] = st[i]
  BY <1>1
<1>3. st[n - 1] \in PassesOf(c, b) /\ st[n] \in PassesOf(c, b)
  BY <1>1
<1>4. cs \in Seq(ContextsOf(c, b))
  BY <1>3 DEF PassesOf
<1>5. tt = [below EXCEPT ![n - 1] = q]
  <2>1. tt = [below EXCEPT ![n - 1] =
                           [below[n - 1] EXCEPT
                               !.contexts = below[n - 1].contexts \o st[n].contexts]]
    BY Zenon DEF HandsDown
  <2>2. below[n - 1] = st[n - 1]
    BY <1>1, <1>2
  <2> HIDE DEF below, n
  <2>3. QED
    BY <2>1, <2>2, Zenon
<1> HIDE DEF cs
<1>6. /\ q \in PassesOf(c, b) /\ q.todo = st[n - 1].todo
      /\ q.reflective = st[n - 1].reflective /\ q.contexts = cs
  BY <1>3, <1>4 DEF PassesOf
<1> HIDE DEF q, below
<1>7. /\ tt \in Seq(PassesOf(c, b)) /\ Len(tt) = n - 1
      /\ tt[n - 1] = q
  BY <1>1, <1>2, <1>5, <1>6
<1>8. \A i \in 1 .. n - 2 : tt[i] = st[i]
  BY <1>1, <1>2, <1>5
<1>9. QED
  BY <1>6, <1>7, <1>8 DEF cs, HandedDown

\* A nested pass is over.
LEMMA EndNestedIs ==
    ASSUME Shape, NEW c \in Clients, EndNestedPass(c)
    PROVE  /\ Moves(c) /\ lc'[c] \in LifeCyclesOf(c, Body(c))
           /\ lc[c].pc = "resources" /\ lc'[c].pc = "resources"
           /\ lc'[c].goal = lc[c].goal /\ lc'[c].main = lc[c].main
           /\ lc'[c].nodes = lc[c].nodes /\ lc'[c].global = lc[c].global
           /\ Len(lc[c].stack) > 1 /\ lc[c].stack[Len(lc[c].stack)].todo = <<>>
           /\ HandsDown(lc[c].stack, lc'[c].stack)
<1> DEFINE st == lc[c].stack
           tt == [SubSeq(st, 1, Len(st) - 1) EXCEPT
                     ![Len(st) - 1].contexts = @ \o st[Len(st)].contexts]
           r == [lc[c] EXCEPT !.stack = tt]
<1>1. /\ lc[c] \in LifeCyclesOf(c, Body(c)) /\ lc[c].pc = "resources"
      /\ Len(st) > 1 /\ st[Len(st)].todo = <<>>
  BY DEF Shape, EndNestedPass
<1>2. lc' = [lc EXCEPT ![c].stack = tt] /\ HandsDown(st, tt)
  BY Zenon DEF EndNestedPass, HandsDown
<1> HIDE DEF tt
<1>3. Moves(c) /\ lc'[c] = r
  BY <1>1, <1>2 DEF Moves, Shape, LifeCyclesOf
<1>4. st \in Seq(PassesOf(c, Body(c)))
  BY <1>1 DEF LifeCyclesOf
<1>5. tt \in Seq(PassesOf(c, Body(c)))
  <2> HIDE DEF st
  <2>1. QED
    BY <1>1, <1>2, <1>4, StackAfterNested
<1>6. /\ r \in LifeCyclesOf(c, Body(c)) /\ r.pc = "resources" /\ r.goal = lc[c].goal
      /\ r.main = lc[c].main /\ r.nodes = lc[c].nodes /\ r.global = lc[c].global
      /\ r.stack = tt
  BY <1>1, <1>5 DEF LifeCyclesOf
<1>7. QED
  BY <1>1, <1>2, <1>3, <1>6

\* All that the contexts of a stack of passes report is in R.
ReportsIn(st, R) ==
    \A i \in DOMAIN st : \A j \in DOMAIN st[i].contexts :
        st[i].contexts[j].resultToReport \subseteq R

\* What the passes of a goal have collected is in the global context already.
ReportsInv(c) ==
    lc[c].pc \in {"resources", "translating"} =>
        ReportsIn(lc[c].stack, lc[c].global.resultToReport)

\* The element of a sequence of one element.
LEMMA OnlyOne ==
    ASSUME NEW S, NEW s \in Seq(S), Len(s) = 1
    PROVE  1 \in DOMAIN s /\ s[1] \in S
  OBVIOUS

\* The global context at the end of a pass over the resources of a goal or over the
\* reflective critics.
LEMMA GlobalAfterPass ==
    ASSUME Shape, NEW c \in Clients, ReportsInv(c), lc[c].pc = "resources",
           Len(lc[c].stack) = 1
    PROVE  LET g == lc[c].global
               m == MergeContexts(g, lc[c].stack[1].contexts)
           IN  /\ m \in ContextsOf(c, Body(c))
               /\ g.frames \subseteq m.frames
               /\ m.resultToReport = g.resultToReport
               /\ m.domainModel = g.domainModel
               /\ m.simulationModel = g.simulationModel
<1> DEFINE g == lc[c].global
           cs == lc[c].stack[1].contexts
<1>1. lc[c].stack \in Seq(PassesOf(c, Body(c))) /\ g \in ContextsOf(c, Body(c))
  BY DEF Shape, LifeCyclesOf
<1>2. 1 \in DOMAIN lc[c].stack /\ lc[c].stack[1] \in PassesOf(c, Body(c))
  BY <1>1, OnlyOne
<1>3. /\ cs \in Seq(ContextsOf(c, Body(c)))
      /\ \A i \in DOMAIN cs : cs[i].resultToReport \subseteq g.resultToReport
  BY <1>2 DEF PassesOf, ReportsInv, ReportsIn
<1> HIDE DEF g, cs
<1>4. /\ MergeContexts(g, cs) \in ContextsOf(c, Body(c))
      /\ g.frames \subseteq MergeContexts(g, cs).frames
      /\ MergeContexts(g, cs).resultToReport = g.resultToReport
      /\ MergeContexts(g, cs).domainModel = g.domainModel
      /\ MergeContexts(g, cs).simulationModel = g.simulationModel
  BY <1>1, <1>3, MergeContextsIs
<1>5. QED
  BY <1>4 DEF g, cs

\* The reflective critics start.
LEMMA StartReflectionIs ==
    ASSUME Shape, NEW c \in Clients, ReportsInv(c), StartReflection(c)
    PROVE  /\ Moves(c) /\ lc'[c] \in LifeCyclesOf(c, Body(c))
           /\ lc[c].pc = "resources" /\ lc'[c].pc = "resources"
           /\ lc[c].main /\ lc'[c].main = FALSE
           /\ Len(lc[c].stack) = 1 /\ lc[c].stack[1].todo = <<>>
           /\ lc'[c].goal = lc[c].goal /\ lc'[c].nodes = lc[c].nodes
           /\ lc'[c].stack = <<Pass(ReflectiveCritics, TRUE)>>
           /\ lc'[c].global.resultToReport = lc[c].global.resultToReport
           /\ lc'[c].global.domainModel = lc[c].global.domainModel
           /\ lc'[c].global.simulationModel = lc[c].global.simulationModel
<1> DEFINE p == Pass(ReflectiveCritics, TRUE)
           m == MergeContexts(lc[c].global, lc[c].stack[1].contexts)
           r == [lc[c] EXCEPT !.main = FALSE, !.global = m, !.stack = <<p>>]
<1>1. /\ lc[c] \in LifeCyclesOf(c, Body(c)) /\ lc[c].pc = "resources" /\ lc[c].main
      /\ Len(lc[c].stack) = 1 /\ lc[c].stack[1].todo = <<>>
  BY DEF Shape, StartReflection
<1>2. lc' = [lc EXCEPT ![c] = r]
  BY DEF StartReflection
<1>3. Moves(c) /\ lc'[c] = r
  <2> HIDE DEF m, p
  <2>1. QED
    BY <1>1, <1>2 DEF Moves, Shape, LifeCyclesOf
<1>4. /\ m \in ContextsOf(c, Body(c))
      /\ m.resultToReport = lc[c].global.resultToReport
      /\ m.domainModel = lc[c].global.domainModel
      /\ m.simulationModel = lc[c].global.simulationModel
  BY <1>1, GlobalAfterPass
<1>5. <<p>> \in Seq(PassesOf(c, Body(c)))
  <2>1. ReflectiveCritics \in Seq(Classes)
    BY DEF ReflectiveCritics, Classes
  <2>2. p \in PassesOf(c, Body(c))
    BY <2>1 DEF Pass, PassesOf
  <2> HIDE DEF p
  <2>3. QED
    BY <2>2
<1> HIDE DEF m, p
<1>6. /\ r \in LifeCyclesOf(c, Body(c)) /\ r.pc = lc[c].pc /\ r.main = FALSE
      /\ r.goal = lc[c].goal /\ r.nodes = lc[c].nodes /\ r.stack = <<p>> /\ r.global = m
  BY <1>1, <1>4, <1>5 DEF LifeCyclesOf
<1>7. QED
  BY <1>1, <1>3, <1>4, <1>6 DEF p

\* The goal is over.
LEMMA EndGoalIs ==
    ASSUME Shape, NEW c \in Clients, ReportsInv(c), lc[c].pc = "resources" => lc[c].goal = 1,
           EndGoal(c)
    PROVE  /\ Moves(c) /\ lc'[c] \in LifeCyclesOf(c, Body(c))
           /\ lc[c].pc = "resources" /\ lc'[c].pc = "goal"
           /\ ~lc[c].main /\ Len(lc[c].stack) = 1 /\ lc[c].stack[1].todo = <<>>
           /\ lc'[c].goal = 2 /\ lc'[c].stack = <<>> /\ lc'[c].nodes = lc[c].nodes
           /\ lc'[c].global.resultToReport = lc[c].global.resultToReport
           /\ lc'[c].global.domainModel = lc[c].global.domainModel
           /\ lc'[c].global.simulationModel = lc[c].global.simulationModel
<1> DEFINE m == MergeContexts(lc[c].global, lc[c].stack[1].contexts)
           empty == <<>>
           r == [lc[c] EXCEPT !.pc = "goal", !.goal = 2, !.stack = empty, !.global = m]
<1>1. /\ lc[c] \in LifeCyclesOf(c, Body(c)) /\ lc[c].pc = "resources" /\ ~lc[c].main
      /\ Len(lc[c].stack) = 1 /\ lc[c].stack[1].todo = <<>> /\ lc[c].goal = 1
  BY DEF Shape, EndGoal
<1>2. lc' = [lc EXCEPT ![c] = r]
  <2>1. NextGoal(lc[c].goal) = 2
    BY <1>1 DEF NextGoal
  <2>2. lc' = [lc EXCEPT ![c].pc = "goal", ![c].goal = NextGoal(@), ![c].stack = <<>>,
                         ![c].global = MergeContexts(@, lc[c].stack[1].contexts)]
    BY Zenon DEF EndGoal
  <2> HIDE DEF m
  <2>3. lc' = [lc EXCEPT ![c].pc = "goal", ![c].goal = 2, ![c].stack = <<>>,
                         ![c].global = m]
    BY <2>1, <2>2, Zenon DEF m
  <2>4. QED
    BY <2>3
<1>3. Moves(c) /\ lc'[c] = r
  <2> HIDE DEF m
  <2>1. QED
    BY <1>1, <1>2 DEF Moves, Shape, LifeCyclesOf
<1>4. /\ m \in ContextsOf(c, Body(c))
      /\ m.resultToReport = lc[c].global.resultToReport
      /\ m.domainModel = lc[c].global.domainModel
      /\ m.simulationModel = lc[c].global.simulationModel
  BY <1>1, GlobalAfterPass
<1>5. empty \in Seq(PassesOf(c, Body(c)))
  OBVIOUS
<1> HIDE DEF m, empty
<1>6. /\ r \in LifeCyclesOf(c, Body(c)) /\ r.pc = "goal" /\ r.goal = 2 /\ r.stack = empty
      /\ r.nodes = lc[c].nodes /\ r.global = m
  <2> DEFINE q == [lc[c] EXCEPT !.pc = "goal", !.goal = 2]
  <2>1. q \in LifeCyclesOf(c, Body(c)) /\ q.pc = "goal" /\ q.goal = 2 /\ q.nodes = lc[c].nodes
    <3> DEFINE two == 2
    <3>1. two \in 1 .. 2
      OBVIOUS
    <3>2. q = [lc[c] EXCEPT !.pc = "goal", !.goal = two]
      OBVIOUS
    <3> HIDE DEF two, q
    <3>3. /\ q \in LifeCyclesOf(c, Body(c)) /\ q.pc = "goal" /\ q.goal = two
          /\ q.nodes = lc[c].nodes
      BY <1>1, <3>1, <3>2 DEF LifeCyclesOf
    <3>4. QED
      BY <3>3 DEF two
  <2>2. r = [q EXCEPT !.stack = empty, !.global = m]
    OBVIOUS
  <2> HIDE DEF q, r
  <2>3. QED
    BY <1>4, <1>5, <2>1, <2>2 DEF LifeCyclesOf
<1>7. QED
  BY <1>1, <1>3, <1>4, <1>6 DEF empty

\* runGoals returns.
LEMMA EndRunIs ==
    ASSUME Shape, NEW c \in Clients, EndRun(c)
    PROVE  /\ Moves(c) /\ lc'[c] \in LifeCyclesOf(c, Body(c))
           /\ lc[c].pc = "goal" /\ lc[c].goal = 2 /\ lc'[c].goal = 2
           /\ lc'[c].pc \in {"done", "learn", "failed"}
           /\ lc'[c].pc = "learn" => lc[c].global.lastResult.kind = "ConceptNetwork"
           /\ lc'[c].stack = lc[c].stack /\ lc'[c].global = lc[c].global
           /\ lc'[c].nodes = lc[c].nodes
<1> DEFINE res == lc[c].global.lastResult
           end == CASE lc[c].request.type # "TrainingRequest" -> "done"
                    [] lc[c].request.type = "TrainingRequest" ->
                          IF res.kind = "ConceptNetwork" THEN "learn"
                          ELSE IF res = None THEN "done" ELSE "failed"
           r == [lc[c] EXCEPT !.pc = end]
<1>1. /\ lc[c] \in LifeCyclesOf(c, Body(c)) /\ lc[c].pc = "goal"
      /\ lc[c].goal > Len(Workflow(lc[c].request.type))
  BY DEF Shape, EndRun
<1>2. lc[c].goal = 2
  <2>1. Len(Workflow(lc[c].request.type)) = 1 /\ lc[c].goal \in 1 .. 2
    BY <1>1, GoalIs DEF LifeCyclesOf
  <2>2. QED
    BY <1>1, <2>1
<1>3. lc' = [lc EXCEPT ![c].pc = end]
  BY Zenon DEF EndRun
<1>4. /\ end \in {"done", "learn", "failed"}
      /\ end = "learn" => res.kind = "ConceptNetwork"
  <2> HIDE DEF res
  <2>1. QED
    OBVIOUS
<1> HIDE DEF end
<1>5. lc' = [lc EXCEPT ![c] = r]
  BY <1>3
<1>6. Moves(c) /\ lc'[c] = r
  BY <1>1, <1>5 DEF Moves, Shape, LifeCyclesOf
<1>7. /\ r \in LifeCyclesOf(c, Body(c)) /\ r.pc = end /\ r.goal = lc[c].goal
      /\ r.stack = lc[c].stack /\ r.global = lc[c].global /\ r.nodes = lc[c].nodes
  BY <1>1, <1>4 DEF LifeCyclesOf
<1>8. QED
  BY <1>1, <1>2, <1>4, <1>6, <1>7

\* A training takes the nodes of the model as it finds them, and adds its own.
LEMMA LearnIs ==
    ASSUME Shape, NEW c \in Clients, lc[c].global.lastResult.kind = "ConceptNetwork",
           Learn(c)
    PROVE  /\ Moves(c) /\ lc'[c] \in LifeCyclesOf(c, Body(c))
           /\ lc[c].pc = "learn" /\ lc'[c].pc = "store" /\ lc'[c].goal = lc[c].goal
           /\ lc'[c].stack = lc[c].stack /\ lc'[c].global = lc[c].global
           /\ lc'[c].nodes = model \cup {c}
<1> DEFINE o == lc[c].global.lastResult.of
           ns == model \cup {o}
           r == [lc[c] EXCEPT !.pc = "store", !.nodes = ns]
<1>1. lc[c] \in LifeCyclesOf(c, Body(c)) /\ lc[c].pc = "learn"
  BY DEF Shape, Learn
<1>2. o = c
  <2>1. lc[c].global.lastResult \in ResourcesOf(c, Body(c))
    BY <1>1 DEF LifeCyclesOf, ContextsOf
  <2>2. QED
    BY <2>1, DataHasOwner
<1>3. lc' = [lc EXCEPT ![c] = r]
  BY DEF Learn
<1>4. Moves(c) /\ lc'[c] = r
  <2> HIDE DEF ns
  <2>1. QED
    BY <1>1, <1>3 DEF Moves, Shape, LifeCyclesOf
<1>5. ns \in SUBSET Clients /\ ns = model \cup {c}
  BY <1>2 DEF Shape
<1> HIDE DEF ns
<1>6. /\ r \in LifeCyclesOf(c, Body(c)) /\ r.pc = "store" /\ r.goal = lc[c].goal
      /\ r.stack = lc[c].stack /\ r.global = lc[c].global /\ r.nodes = ns
  BY <1>1, <1>5 DEF LifeCyclesOf
<1>7. QED
  BY <1>1, <1>4, <1>5, <1>6

\* The two writes of a training, the second of which may throw.
LEMMA WriteIs ==
    ASSUME Shape, NEW c \in Clients,
           StoreNodes(c) \/ SaveModel(c) \/ SaveModelThrows(c)
    PROVE  /\ Moves(c) /\ lc'[c] \in LifeCyclesOf(c, Body(c))
           /\ \/ lc[c].pc = "store" /\ lc'[c].pc = "save"
              \/ lc[c].pc = "save" /\ lc'[c].pc \in {"done", "unsaved"}
           /\ lc'[c].goal = lc[c].goal
           /\ lc'[c].stack = lc[c].stack /\ lc'[c].global = lc[c].global
           /\ lc'[c].nodes = lc[c].nodes
           /\ model' \cup saved' \subseteq model \cup saved \cup lc[c].nodes
<1>1. lc[c] \in LifeCyclesOf(c, Body(c))
  BY DEF Shape
<1>2. ASSUME NEW to \in {"save", "done", "unsaved"}, lc' = [lc EXCEPT ![c].pc = to]
      PROVE  /\ Moves(c) /\ lc'[c] \in LifeCyclesOf(c, Body(c))
             /\ lc'[c].pc = to /\ lc'[c].goal = lc[c].goal
             /\ lc'[c].stack = lc[c].stack /\ lc'[c].global = lc[c].global
             /\ lc'[c].nodes = lc[c].nodes
  <2> DEFINE r == [lc[c] EXCEPT !.pc = to]
  <2>1. lc' = [lc EXCEPT ![c] = r]
    BY <1>2
  <2>2. Moves(c) /\ lc'[c] = r
    BY <1>1, <2>1 DEF Moves, Shape, LifeCyclesOf
  <2>3. /\ r \in LifeCyclesOf(c, Body(c)) /\ r.pc = to /\ r.goal = lc[c].goal
        /\ r.stack = lc[c].stack /\ r.global = lc[c].global /\ r.nodes = lc[c].nodes
    BY <1>1 DEF LifeCyclesOf
  <2> HIDE DEF r
  <2>4. QED
    BY <2>2, <2>3
<1>3. CASE StoreNodes(c)
  <2>1. /\ lc[c].pc = "store" /\ lc' = [lc EXCEPT ![c].pc = "save"]
        /\ model' = lc[c].nodes /\ saved' = saved
    BY <1>3 DEF StoreNodes
  <2>2. QED
    BY <1>2, <2>1
<1>4. CASE SaveModel(c)
  <2>1. /\ lc[c].pc = "save" /\ lc' = [lc EXCEPT ![c].pc = "done"]
        /\ saved' = model /\ model' = model
    BY <1>4 DEF SaveModel
  <2>2. QED
    BY <1>2, <2>1
<1>5. CASE SaveModelThrows(c)
  <2>1. /\ lc[c].pc = "save" /\ lc' = [lc EXCEPT ![c].pc = "unsaved"]
        /\ saved' \subseteq model \cup saved /\ model' = model
    BY <1>5 DEF SaveModelThrows
  <2>2. QED
    BY <1>2, <2>1
<1>6. QED
  BY <1>3, <1>4, <1>5

-----------------------------------------------------------------------------
(* The action service.                                                      *)

\* A call is for an action of the catalogue.
LEMMA CallClass ==
    ASSUME Shape, NEW c \in Clients, PassInv(c), call[c].pc # "idle"
    PROVE  call[c].class \in Classes
<1>1. /\ lc[c].stack \in Seq(PassesOf(c, Body(c))) /\ lc[c].stack # <<>>
      /\ Last(lc[c].stack).todo # <<>> /\ call[c].class = Head(Last(lc[c].stack).todo)
  BY DEF Shape, LifeCyclesOf, PassInv
<1>2. Last(lc[c].stack) \in PassesOf(c, Body(c))
  BY <1>1 DEF Last
<1>3. QED
  BY <1>1, <1>2 DEF PassesOf

\* The body of a request is a text.
LEMMA BodyIs ==
    ASSUME Shape, NEW c \in Clients
    PROVE  Body(c) \in Texts
<1>1. lc[c].request \in Requests
  BY DEF Shape, LifeCyclesOf
<1>2. QED
  BY <1>1 DEF Body, Texts

\* The context of a call gets to an actor.
LEMMA SubmitIs ==
    ASSUME Shape, NEW c \in Clients, PassInv(c), Submit(c)
    PROVE  /\ call[c].pc = "waiting"
           /\ \A v \in work : ~(v.id.client = c /\ v.id.ask = call[c].ask)
           /\ \E w \in WorksOf(c, Body(c)) :
                 /\ work' = work \cup {w} /\ w.id.client = c /\ w.id.ask = call[c].ask
                 /\ w.class = call[c].class /\ w.payload = call[c].payload
           /\ UNCHANGED <<call, lc, model, saved, spikes, helped>>
<1> DEFINE i == [client |-> c, ask |-> call[c].ask]
           w == [id |-> i, class |-> call[c].class, payload |-> call[c].payload]
<1>1. /\ call[c].pc = "waiting" /\ work' = work \cup {w} /\ \A v \in work : v.id # i
      /\ UNCHANGED <<call, lc, model, saved, spikes, helped>>
  BY DEF Submit, AS!Submit
<1>2. call[c] \in CallsOf(c, Body(c)) /\ call[c].class \in Classes
  BY <1>1, CallClass DEF Shape
<1>3. w \in WorksOf(c, Body(c))
  BY <1>2 DEF CallsOf, WorksOf
<1>4. ASSUME NEW v \in work, v.id.client = c, v.id.ask = call[c].ask PROVE FALSE
  <2>1. v \in WorksOf(c, Body(c))
    BY <1>4 DEF Shape
  <2>2. v.id = i
    BY <1>4, <2>1 DEF WorksOf
  <2>3. QED
    BY <1>1, <2>2
<1>5. w.id.client = c /\ w.id.ask = call[c].ask /\ w.class = call[c].class
      /\ w.payload = call[c].payload
  OBVIOUS
<1> HIDE DEF w
<1>6. QED
  BY <1>1, <1>3, <1>4, <1>5

\* A timeout ends the wait of a call; the work stays with the actor.
LEMMA TimeoutIs ==
    ASSUME Shape, NEW c \in Clients, Timeout(c)
    PROVE  /\ call[c].pc = "waiting"
           /\ CallMoves(c) /\ call'[c] \in CallsOf(c, Body(c)) /\ call'[c].pc = "failed"
           /\ call'[c].ask = call[c].ask /\ call'[c].class = call[c].class
           /\ call'[c].payload = call[c].payload
           /\ UNCHANGED <<work, lc, model, saved, spikes, helped>>
<1>1. call[c] \in CallsOf(c, Body(c))
  BY DEF Shape
<1>2. /\ call[c].pc = "waiting" /\ call' = [call EXCEPT ![c] = [call[c] EXCEPT !.pc = "failed"]]
      /\ UNCHANGED <<work, lc, model, saved, spikes, helped>>
  BY DEF Timeout, AS!Fail
<1>3. CallMoves(c) /\ call'[c] = [call[c] EXCEPT !.pc = "failed"]
  BY <1>2 DEF CallMoves, Shape
<1>4. QED
  BY <1>1, <1>2, <1>3 DEF CallsOf

\* The caller of w gets the reply to it.
Answers(w, reply) ==
    /\ call[w.id.client].pc = "waiting" /\ call[w.id.client].ask = w.id.ask
    /\ call'[w.id.client].pc = "answered" /\ call'[w.id.client].reply = reply
    /\ call'[w.id.client].ask = call[w.id.client].ask
    /\ call'[w.id.client].class = call[w.id.client].class
    /\ call'[w.id.client].payload = call[w.id.client].payload

\* Nobody waits for the reply to w any more.
TooLate(w) ==
    /\ ~(call[w.id.client].pc = "waiting" /\ call[w.id.client].ask = w.id.ask)
    /\ call' = call

\* An action handles a context.
LEMMA ExecuteIs ==
    ASSUME Shape, NEW w \in work, NEW reply \in ActionReplies(w.class, w.payload),
           Execute(w, reply)
    PROVE  /\ w.id.client \in Clients /\ w.class \in Classes
           /\ w.payload \in ContextsOf(w.id.client, Body(w.id.client))
           /\ CallMoves(w.id.client)
           /\ call'[w.id.client] \in CallsOf(w.id.client, Body(w.id.client))
           /\ Answers(w, reply) \/ TooLate(w)
           /\ work' = work \ {w}
           /\ \A d \in Clients \ {w.id.client} : spikes'[d] = spikes[d]
           /\ spikes' \in [Clients -> Nat]
           /\ w.class # "SpikeGeneratorWay2Think" => spikes' = spikes
           /\ spikes'[w.id.client] =
                 IF /\ w.class = "SpikeGeneratorWay2Think" /\ SpikesOf(w.payload) # {}
                 THEN spikes[w.id.client] + 1 ELSE spikes[w.id.client]
           /\ helped' = IF w.class = "Cry4HelpWay2Think" THEN helped \cup {w.id.client}
                        ELSE helped
           /\ UNCHANGED <<lc, model, saved>>
<1> DEFINE c == w.id.client
           b == Body(c)
<1>1. c \in Clients /\ w \in WorksOf(c, b) /\ call[c] \in CallsOf(c, b)
  BY DEF Shape
<1>2. w.class \in Classes /\ w.payload \in ContextsOf(c, b)
  BY <1>1 DEF WorksOf
<1>3. reply \in RepliesOf(c, b)
  <2>1. b \in Texts
    BY <1>1, BodyIs
  <2> HIDE DEF c, b
  <2>2. QED
    BY <1>1, <1>2, <2>1, ActionsAre
<1>4. /\ work' = work \ {w}
      /\ helped' = IF w.class = "Cry4HelpWay2Think" THEN helped \cup {w.id.client} ELSE helped
      /\ UNCHANGED <<lc, model, saved>>
  BY DEF Execute, AS!Execute
<1>5. spikes' = [d \in Clients |->
                    IF /\ w.class = "SpikeGeneratorWay2Think"
                       /\ \E r \in SpikesOf(w.payload) : r.of = d
                    THEN spikes[d] + 1 ELSE spikes[d]]
  BY DEF Execute
<1>6. \A r \in SpikesOf(w.payload) : r.of = c
  <2> SUFFICES ASSUME NEW r \in SpikesOf(w.payload) PROVE r.of = c
    OBVIOUS
  <2>1. r \in ResourcesOf(c, b) /\ r.kind = "RoboticDataContainer"
    BY <1>2 DEF SpikesOf, FindByName, ContextsOf
  <2> HIDE DEF c, b
  <2>2. QED
    BY <1>1, <2>1, DataHasOwner
<1>7. /\ \A d \in Clients \ {c} : spikes'[d] = spikes[d]
      /\ spikes' \in [Clients -> Nat]
      /\ w.class # "SpikeGeneratorWay2Think" => spikes' = spikes
      /\ spikes'[c] = IF /\ w.class = "SpikeGeneratorWay2Think" /\ SpikesOf(w.payload) # {}
                      THEN spikes[c] + 1 ELSE spikes[c]
  <2> HIDE DEF c, b
  <2>0. spikes \in [Clients -> Nat]
    BY DEF Shape
  <2>1. QED
    BY <1>1, <1>5, <1>6, <2>0
<1>8. /\ CallMoves(c) /\ call'[c] \in CallsOf(c, b)
      /\ Answers(w, reply) \/ TooLate(w)
  <2>1. call' = IF AS!Waits(w.id)
                THEN [call EXCEPT ![c] = [call[c] EXCEPT !.pc = "answered", !.reply = reply]]
                ELSE call
    BY DEF Execute, AS!Execute
  <2>2. AS!Waits(w.id) <=> call[c].pc = "waiting" /\ call[c].ask = w.id.ask
    BY DEF AS!Waits
  <2>3. CASE AS!Waits(w.id)
    <3> DEFINE x == [call[c] EXCEPT !.pc = "answered", !.reply = reply]
    <3>1. /\ x \in CallsOf(c, b) /\ x.pc = "answered" /\ x.reply = reply
          /\ x.ask = call[c].ask /\ x.class = call[c].class /\ x.payload = call[c].payload
      BY <1>1, <1>3 DEF CallsOf
    <3>2. call' = [call EXCEPT ![c] = x]
      BY <2>1, <2>3
    <3> HIDE DEF x
    <3>3. call'[c] = x /\ CallMoves(c)
      BY <1>1, <3>2 DEF Shape, CallMoves
    <3>4. Answers(w, reply)
      BY <2>2, <2>3, <3>1, <3>3 DEF Answers
    <3>5. QED
      BY <3>1, <3>3, <3>4
  <2>4. CASE ~AS!Waits(w.id)
    <3>1. call' = call /\ TooLate(w)
      BY <2>1, <2>2, <2>4 DEF TooLate
    <3>2. CallMoves(c)
      BY <3>1 DEF CallMoves, Shape
    <3>3. QED
      BY <1>1, <3>1, <3>2
  <2>5. QED
    BY <2>3, <2>4
<1>9. QED
  BY <1>1, <1>2, <1>4, <1>7, <1>8

-----------------------------------------------------------------------------
(* Steps of one request leave the others alone.                             *)

\* A call and the work for it: late work is of an earlier call; what the caller gets is
\* a reply of the action it called to the context it sent.
CallInv(c) ==
    /\ \A w \in work : w.id.client = c =>
          /\ w.id.ask <= call[c].ask
          /\ w.id.ask = call[c].ask => w.class = call[c].class /\ w.payload = call[c].payload
    /\ call[c].pc = "answered" =>
          /\ call[c].reply \in ActionReplies(call[c].class, call[c].payload)
          /\ call[c].class = "Cry4HelpWay2Think" => c \in helped

\* The models of a life cycle are the cached ones; only a concept network is learnt.
ModelInv(c) ==
    /\ lc[c].pc # "new" => /\ lc[c].global.domainModel = "cached"
                           /\ lc[c].global.simulationModel = "cached"
    /\ lc[c].pc = "learn" => lc[c].global.lastResult.kind = "ConceptNetwork"

ClientInv(c) == PassInv(c) /\ ReportsInv(c) /\ CallInv(c) /\ ModelInv(c)

\* Nothing of d changes.
Untouched(d) ==
    /\ lc'[d] = lc[d]
    /\ call'[d] = call[d]
    /\ \A w : w.id.client = d => (w \in work' <=> w \in work)
    /\ spikes'[d] = spikes[d]
    /\ d \in helped' <=> d \in helped

\* The steps of the life cycle of c and of the actions it calls.
Step(c) ==
    \/ LifeCycle(c)
    \/ Submit(c)
    \/ Timeout(c)
    \/ \E w \in work : /\ w.id.client = c
                       /\ \E reply \in ActionReplies(w.class, w.payload) : Execute(w, reply)

\* Every step is a step of a request.
LEMMA NextIsStep ==
    ASSUME Shape, Next
    PROVE  \E c \in Clients : Step(c)
<1>1. CASE \E c \in Clients : LifeCycle(c) \/ Submit(c) \/ Timeout(c)
  BY <1>1 DEF Step
<1>2. CASE \E w \in work : \E reply \in ActionReplies(w.class, w.payload) : Execute(w, reply)
  <2>1. PICK w \in work : \E reply \in ActionReplies(w.class, w.payload) : Execute(w, reply)
    BY <1>2
  <2>2. w.id.client \in Clients
    BY DEF Shape
  <2>3. QED
    BY <2>1, <2>2 DEF Step
<1>3. QED
  BY <1>1, <1>2 DEF Next

\* A training that has read the nodes it is going to add to.
Taught == {"store", "save", "done", "unsaved"}

\* A step of a life cycle changes its record and its call; the model only with nodes
\* that this life cycle has collected.
LEMMA LifeCycleIs ==
    ASSUME Shape, NEW c \in Clients, ClientInv(c), LifeCycle(c)
    PROVE  /\ Moves(c) /\ lc'[c] \in LifeCyclesOf(c, Body(c))
           /\ CallMoves(c) /\ call'[c] \in CallsOf(c, Body(c))
           /\ UNCHANGED <<work, spikes, helped>>
           /\ model' \cup saved' \subseteq model \cup saved \cup lc[c].nodes
           /\ \/ lc'[c].nodes = lc[c].nodes
              \/ lc'[c].nodes = model \cup {c} /\ lc'[c].pc = "store"
           /\ lc[c].pc \in Taught => lc'[c].pc \in Taught
<1> USE DEF ClientInv, Taught
<1>1. call' = call => CallMoves(c) /\ call'[c] \in CallsOf(c, Body(c))
  BY DEF CallMoves, Shape
<1>2. CASE Start(c)
  <2>1. UNCHANGED <<call, work, model, saved, spikes, helped>>
    BY <1>2 DEF Start, service
  <2>2. QED
    BY <1>1, <1>2, <2>1, StartIs
<1>3. CASE StartGoal(c)
  <2>1. UNCHANGED <<call, work, model, saved, spikes, helped>>
    BY <1>3 DEF StartGoal, service
  <2>2. QED
    BY <1>1, <1>3, <2>1, StartGoalIs
<1>4. CASE Translate(c)
  <2>1. UNCHANGED <<model, saved, spikes, helped>>
    BY <1>4 DEF Translate
  <2>2. lc[c].pc = "resources" => lc[c].stack # <<>>
    BY DEF PassInv
  <2>3. QED
    BY <1>4, <2>1, <2>2, TranslateIs
<1>5. CASE Result(c)
  <2>1. UNCHANGED <<model, saved, spikes, helped>>
    BY <1>5 DEF Result
  <2>2. QED
    BY <1>5, <2>1, ResultIs
<1>6. CASE Throw(c)
  <2>1. UNCHANGED <<model, saved, spikes, helped>>
    BY <1>6 DEF Throw
  <2>2. QED
    BY <1>6, <2>1, ThrowIs
<1>7. CASE EndNestedPass(c)
  <2>1. UNCHANGED <<call, work, model, saved, spikes, helped>>
    BY <1>7 DEF EndNestedPass, service
  <2>2. QED
    BY <1>1, <1>7, <2>1, EndNestedIs
<1>8. CASE StartReflection(c)
  <2>1. UNCHANGED <<call, work, model, saved, spikes, helped>>
    BY <1>8 DEF StartReflection, service
  <2>2. QED
    BY <1>1, <1>8, <2>1, StartReflectionIs
<1>9. CASE EndGoal(c)
  <2>1. UNCHANGED <<call, work, model, saved, spikes, helped>>
    BY <1>9 DEF EndGoal, service
  <2>2. lc[c].pc = "resources" => lc[c].goal = 1
    BY DEF PassInv
  <2>3. QED
    BY <1>1, <1>9, <2>1, <2>2, EndGoalIs
<1>10. CASE EndRun(c)
  <2>1. UNCHANGED <<call, work, model, saved, spikes, helped>>
    BY <1>10 DEF EndRun, service
  <2>2. QED
    BY <1>1, <1>10, <2>1, EndRunIs
<1>11. CASE Learn(c)
  <2>1. UNCHANGED <<call, work, model, saved, spikes, helped>> /\ lc[c].pc = "learn"
    BY <1>11 DEF Learn, service
  <2>2. lc[c].global.lastResult.kind = "ConceptNetwork"
    BY <2>1 DEF ModelInv
  <2>3. QED
    BY <1>1, <1>11, <2>1, <2>2, LearnIs
<1>12. CASE StoreNodes(c) \/ SaveModel(c) \/ SaveModelThrows(c)
  <2>1. UNCHANGED <<call, work, spikes, helped>>
    BY <1>12 DEF StoreNodes, SaveModel, SaveModelThrows, service
  <2>2. QED
    BY <1>1, <1>12, <2>1, WriteIs
<1>13. QED
  BY <1>2, <1>3, <1>4, <1>5, <1>6, <1>7, <1>8, <1>9, <1>10, <1>11, <1>12 DEF LifeCycle

\* What a step may do to keep the shape of the state.
LEMMA ShapeFrame ==
    ASSUME Shape, NEW c \in Clients, Moves(c), lc'[c] \in LifeCyclesOf(c, Body(c)),
           CallMoves(c), call'[c] \in CallsOf(c, Body(c)),
           \A w \in work' : w \in work \/ (w.id.client = c /\ w \in WorksOf(c, Body(c))),
           model' \subseteq Clients, saved' \subseteq Clients,
           spikes' \in [Clients -> Nat], helped' \subseteq Clients
    PROVE  Shape'
<1>1. \A d \in Clients : lc'[d].request.body = Body(d)
  BY DEF Moves, Body
<1>2. \A d \in Clients : Body(d)' = Body(d)
  BY <1>1 DEF Body
<1>3. lc' = [d \in Clients |-> lc'[d]] /\ call' = [d \in Clients |-> call'[d]]
  BY DEF Moves, CallMoves
<1>4. ASSUME NEW d \in Clients
      PROVE  lc'[d] \in LifeCyclesOf(d, Body(d)') /\ call'[d] \in CallsOf(d, Body(d)')
  <2>1. CASE d = c
    BY <1>2, <2>1
  <2>2. CASE d # c
    BY <1>2, <2>2 DEF Moves, CallMoves, Shape
  <2>3. QED
    BY <2>1, <2>2
<1>5. ASSUME NEW w \in work'
      PROVE  w.id.client \in Clients /\ w \in WorksOf(w.id.client, Body(w.id.client)')
  BY <1>2 DEF Shape
<1>6. QED
  BY <1>3, <1>4, <1>5 DEF Shape, LifeCyclesOf, CallsOf, WorksOf

\* A step keeps the shape of the state and touches no other request.
LEMMA StepIs ==
    ASSUME Shape, NEW c \in Clients, ClientInv(c), Step(c)
    PROVE  /\ Shape' /\ Moves(c) /\ CallMoves(c)
           /\ \A d \in Clients \ {c} : Untouched(d)
<1>0. lc' = lc => Moves(c) /\ lc'[c] \in LifeCyclesOf(c, Body(c))
  BY DEF Moves, Shape
<1>00. model \subseteq Clients /\ saved \subseteq Clients /\ helped \subseteq Clients
       /\ spikes \in [Clients -> Nat]
  BY DEF Shape
<1>1. CASE LifeCycle(c)
  <2>1. /\ Moves(c) /\ lc'[c] \in LifeCyclesOf(c, Body(c))
        /\ CallMoves(c) /\ call'[c] \in CallsOf(c, Body(c))
        /\ UNCHANGED <<work, spikes, helped>>
        /\ model' \cup saved' \subseteq model \cup saved \cup lc[c].nodes
    BY <1>1, LifeCycleIs
  <2>2. lc[c].nodes \subseteq Clients
    BY DEF Shape, LifeCyclesOf
  <2>3. Shape'
    <3>1. model' \subseteq Clients /\ saved' \subseteq Clients
      BY <1>00, <2>1, <2>2
    <3>2. QED
      BY <1>00, <2>1, <3>1, ShapeFrame
  <2>4. QED
    BY <2>1, <2>3 DEF Untouched, Moves, CallMoves
<1>2. CASE Submit(c)
  <2>1. PICK w \in WorksOf(c, Body(c)) : work' = work \cup {w} /\ w.id.client = c
    BY <1>2, SubmitIs DEF ClientInv
  <2>2. UNCHANGED <<call, lc, model, saved, spikes, helped>>
    BY <1>2, SubmitIs DEF ClientInv
  <2>3. CallMoves(c) /\ call'[c] \in CallsOf(c, Body(c))
    BY <2>2 DEF CallMoves, Shape
  <2>4. Shape'
    BY <1>0, <1>00, <2>1, <2>2, <2>3, ShapeFrame
  <2>5. QED
    BY <1>0, <2>1, <2>2, <2>3, <2>4 DEF Untouched
<1>3. CASE Timeout(c)
  <2>1. /\ CallMoves(c) /\ call'[c] \in CallsOf(c, Body(c))
        /\ UNCHANGED <<work, lc, model, saved, spikes, helped>>
    BY <1>3, TimeoutIs
  <2>2. Shape'
    BY <1>0, <1>00, <2>1, ShapeFrame
  <2>3. QED
    BY <1>0, <2>1, <2>2 DEF Untouched, CallMoves
<1>4. ASSUME NEW w \in work, w.id.client = c,
             NEW reply \in ActionReplies(w.class, w.payload), Execute(w, reply)
      PROVE  /\ Shape' /\ Moves(c) /\ CallMoves(c)
             /\ \A d \in Clients \ {c} : Untouched(d)
  <2>1. /\ CallMoves(c) /\ call'[c] \in CallsOf(c, Body(c))
        /\ work' = work \ {w} /\ UNCHANGED <<lc, model, saved>>
        /\ \A d \in Clients \ {c} : spikes'[d] = spikes[d]
        /\ spikes' \in [Clients -> Nat]
        /\ helped' = IF w.class = "Cry4HelpWay2Think" THEN helped \cup {c} ELSE helped
    BY <1>4, ExecuteIs
  <2>2. Shape'
    BY <1>0, <1>00, <2>1, ShapeFrame
  <2>3. QED
    BY <1>0, <1>4, <2>1, <2>2 DEF Untouched, CallMoves
<1>5. QED
  BY <1>1, <1>2, <1>3, <1>4 DEF Step

-----------------------------------------------------------------------------
(* The invariant of a request.                                              *)

\* A request that a step does not touch keeps its invariant.
LEMMA ClientFrame ==
    ASSUME NEW d \in Clients, Untouched(d), ClientInv(d)
    PROVE  ClientInv(d)'
<1>1. PassInv(d)'
  BY DEF Untouched, ClientInv, PassInv
<1>2. ReportsInv(d)'
  BY DEF Untouched, ClientInv, ReportsInv
<1>3. CallInv(d)'
  BY DEF Untouched, ClientInv, CallInv
<1>4. ModelInv(d)'
  BY DEF Untouched, ClientInv, ModelInv
<1>5. QED
  BY <1>1, <1>2, <1>3, <1>4 DEF ClientInv

\* A call is under way exactly while a resource is translated.
LEMMA PassStep ==
    ASSUME Shape, NEW c \in Clients, ClientInv(c), Step(c)
    PROVE  PassInv(c)'
<1>0. PassInv(c)
  BY DEF ClientInv
<1> USE DEF PassInv
<1>1. CASE Start(c)
  <2>1. call' = call
    BY <1>1 DEF Start, service
  <2>2. QED
    BY <1>0, <1>1, <2>1, StartIs
<1>2. CASE StartGoal(c)
  <2>1. call' = call
    BY <1>2 DEF StartGoal, service
  <2>2. QED
    <3>1. /\ lc[c].pc = "goal" /\ lc'[c].pc = "resources" /\ lc'[c].goal = 1
          /\ lc'[c].stack = <<Pass(Resources(lc[c].request), FALSE)>>
      BY <1>2, StartGoalIs
    <3>2. lc'[c].stack # <<>>
      BY <3>1
    <3>3. QED
      BY <1>0, <2>1, <3>1, <3>2
<1>3. CASE Translate(c)
  <2>1. /\ lc[c].pc = "resources" /\ lc'[c].pc = "translating" /\ lc'[c].goal = lc[c].goal
        /\ lc'[c].stack = lc[c].stack /\ lc'[c].global = lc[c].global
        /\ call'[c].pc = "waiting" /\ Last(lc[c].stack).todo # <<>>
        /\ call'[c].class = Head(Last(lc[c].stack).todo)
        /\ call'[c].payload = lc[c].global
    <3>1. lc[c].pc = "resources" => lc[c].stack # <<>>
      BY <1>0
    <3> HIDE DEF PassInv
    <3>2. QED
      BY <1>3, <3>1, TranslateIs
  <2>2. QED
    BY <1>0, <2>1
<1>4. CASE Result(c)
  <2>1. /\ lc[c].pc = "translating" /\ lc'[c].pc = "resources" /\ lc'[c].goal = lc[c].goal
        /\ call'[c].pc = "idle"
        /\ Nests(c) \/ Collects(c)
    BY <1>0, <1>4, ResultIs
  <2>2. lc[c].stack \in Seq(PassesOf(c, Body(c))) /\ lc[c].stack # <<>>
    BY <1>0, <2>1 DEF Shape, LifeCyclesOf
  <2>3. Len(lc'[c].stack) # 0
    <3> DEFINE st == lc[c].stack
    <3>1. Len(st) \in Nat \ {0}
      <4> HIDE DEF st
      <4>1. st \in Seq(PassesOf(c, Body(c))) /\ st # <<>>
        BY <2>2 DEF st
      <4>2. QED
        BY <4>1
    <3>2. Len(lc'[c].stack) = Len(st) \/ Len(lc'[c].stack) = Len(st) + 1
      BY <2>1 DEF Nests, Collects
    <3> HIDE DEF st
    <3>3. QED
      BY <3>1, <3>2
  <2>4. lc'[c].stack # <<>>
    BY <2>3
  <2>5. QED
    BY <1>0, <2>1, <2>4
<1>5. CASE Throw(c)
  BY <1>0, <1>5, ThrowIs
<1>6. CASE EndNestedPass(c)
  <2>1. call' = call
    BY <1>6 DEF EndNestedPass, service
  <2>2. /\ lc[c].pc = "resources" /\ lc'[c].pc = "resources" /\ lc'[c].goal = lc[c].goal
        /\ Len(lc[c].stack) > 1 /\ HandsDown(lc[c].stack, lc'[c].stack)
    BY <1>6, EndNestedIs
  <2>3. lc[c].stack \in Seq(PassesOf(c, Body(c)))
    BY DEF Shape, LifeCyclesOf
  <2>4. lc'[c].stack # <<>>
    <3> DEFINE st == lc[c].stack
               tt == lc'[c].stack
    <3>1. st \in Seq(PassesOf(c, Body(c))) /\ Len(st) > 1 /\ HandsDown(st, tt)
      BY <2>2, <2>3
    <3> HIDE DEF st, tt
    <3>2. HandedDown(st, tt) /\ tt \in Seq(PassesOf(c, Body(c)))
      BY <3>1, StackAfterNested
    <3>3. tt # <<>>
      BY <3>1, <3>2 DEF HandedDown
    <3>4. QED
      BY <3>3 DEF tt
  <2>5. QED
    BY <1>0, <2>1, <2>2, <2>4
<1>7. CASE StartReflection(c)
  <2>1. call' = call
    BY <1>7 DEF StartReflection, service
  <2>2. /\ lc[c].pc = "resources" /\ lc'[c].pc = "resources" /\ lc'[c].goal = lc[c].goal
        /\ lc'[c].stack = <<Pass(ReflectiveCritics, TRUE)>>
    BY <1>7, StartReflectionIs DEF ClientInv
  <2>3. QED
    BY <1>0, <2>1, <2>2
<1>8. CASE EndGoal(c)
  <2>1. call' = call
    BY <1>8 DEF EndGoal, service
  <2>2. lc[c].pc = "resources" /\ lc'[c].pc = "goal"
    BY <1>0, <1>8, EndGoalIs DEF ClientInv
  <2>3. QED
    BY <1>0, <2>1, <2>2
<1>9. CASE EndRun(c)
  <2>1. call' = call
    BY <1>9 DEF EndRun, service
  <2>2. QED
    BY <1>0, <1>9, <2>1, EndRunIs
<1>10. CASE Learn(c)
  <2>1. call' = call /\ lc[c].pc = "learn"
    BY <1>10 DEF Learn, service
  <2>2. lc'[c].pc = "store"
    BY <1>10, <2>1, LearnIs DEF ClientInv, ModelInv
  <2>3. QED
    BY <1>0, <2>1, <2>2
<1>11. CASE StoreNodes(c) \/ SaveModel(c) \/ SaveModelThrows(c)
  <2>1. call' = call
    BY <1>11 DEF StoreNodes, SaveModel, SaveModelThrows, service
  <2>2. QED
    BY <1>0, <1>11, <2>1, WriteIs
<1>12. CASE Submit(c)
  <2>1. lc' = lc /\ call' = call
    BY <1>0, <1>12, SubmitIs
  <2>2. QED
    BY <1>0, <2>1
<1>13. CASE Timeout(c)
  BY <1>0, <1>13, TimeoutIs
<1>14. ASSUME NEW w \in work, w.id.client = c,
              NEW reply \in ActionReplies(w.class, w.payload), Execute(w, reply)
       PROVE  PassInv(c)'
  <2>1. lc' = lc /\ (Answers(w, reply) \/ TooLate(w))
    BY <1>14, ExecuteIs
  <2>2. QED
    BY <1>0, <1>14, <2>1 DEF Answers, TooLate
<1>15. QED
  BY <1>1, <1>2, <1>3, <1>4, <1>5, <1>6, <1>7, <1>8, <1>9, <1>10, <1>11, <1>12, <1>13,
     <1>14 DEF Step, LifeCycle

\* The contexts that a nested pass hands down are the ones it had.
LEMMA ReportsAfterNested ==
    ASSUME NEW c, NEW b, NEW st \in Seq(PassesOf(c, b)), Len(st) > 1,
           NEW tt, HandsDown(st, tt), NEW R, ReportsIn(st, R)
    PROVE  ReportsIn(tt, R)
<1> DEFINE n == Len(st)
           xs == st[n - 1].contexts
           ys == st[n].contexts
<1>1. /\ tt \in Seq(PassesOf(c, b)) /\ Len(tt) = n - 1
      /\ \A i \in 1 .. n - 2 : tt[i] = st[i]
      /\ tt[n - 1].contexts = xs \o ys
  <2>1. tt \in Seq(PassesOf(c, b)) /\ HandedDown(st, tt)
    BY StackAfterNested
  <2>2. QED
    BY <2>1 DEF HandedDown
<1>2. n \in Nat /\ n - 1 \in DOMAIN st /\ n \in DOMAIN st /\ DOMAIN tt = 1 .. n - 1
  BY <1>1
<1>3. xs \in Seq(ContextsOf(c, b)) /\ ys \in Seq(ContextsOf(c, b))
  <2>1. st[n - 1] \in PassesOf(c, b) /\ st[n] \in PassesOf(c, b)
    BY <1>2
  <2>2. QED
    BY <2>1 DEF PassesOf
<1>4. /\ \A k \in DOMAIN xs : xs[k].resultToReport \subseteq R
      /\ \A k \in DOMAIN ys : ys[k].resultToReport \subseteq R
  BY <1>2 DEF ReportsIn
<1> HIDE DEF xs, ys
<1>5. ASSUME NEW i \in DOMAIN tt, NEW j \in DOMAIN tt[i].contexts
      PROVE  tt[i].contexts[j].resultToReport \subseteq R
  <2>1. CASE i \in 1 .. n - 2
    <3>1. tt[i] = st[i] /\ i \in DOMAIN st
      BY <1>1, <1>2, <2>1
    <3>2. QED
      BY <1>5, <3>1 DEF ReportsIn
  <2>2. CASE i = n - 1
    <3>1. tt[i].contexts = xs \o ys
      BY <1>1, <2>2
    <3>2. \/ j \in DOMAIN xs /\ (xs \o ys)[j] = xs[j]
          \/ j - Len(xs) \in DOMAIN ys /\ (xs \o ys)[j] = ys[j - Len(xs)]
      BY <1>3, <1>5, <3>1
    <3>3. QED
      BY <1>4, <3>1, <3>2
  <2>3. QED
    BY <1>2, <2>1, <2>2
<1>6. QED
  BY <1>5 DEF ReportsIn

\* A nested pass and a collected context report nothing that the global context lacks.
LEMMA ReportsStep ==
    ASSUME Shape, NEW c \in Clients, ClientInv(c), Step(c)
    PROVE  ReportsInv(c)'
<1>0. PassInv(c) /\ ReportsInv(c)
  BY DEF ClientInv
<1>1. CASE lc'[c].pc \notin {"resources", "translating"}
  BY <1>1 DEF ReportsInv
<1>2. CASE /\ lc[c].pc \in {"resources", "translating"}
           /\ lc'[c].stack = lc[c].stack /\ lc'[c].global = lc[c].global
  BY <1>0, <1>2 DEF ReportsInv
<1>3. ASSUME NEW todo, NEW refl, lc'[c].stack = <<Pass(todo, refl)>>
      PROVE  ReportsInv(c)'
  <2> DEFINE st == lc'[c].stack
  <2>1. \A i \in DOMAIN st : st[i].contexts = <<>>
    BY <1>3 DEF Pass
  <2> HIDE DEF st
  <2>2. \A i \in DOMAIN st : \A j \in DOMAIN st[i].contexts : FALSE
    BY <2>1
  <2>3. QED
    BY <2>2 DEF st, ReportsInv, ReportsIn
<1>4. CASE Result(c)
  <2> DEFINE ctx == call[c].reply.ctx
             st == lc[c].stack
             n == Len(st)
             tt == lc'[c].stack
             g == lc[c].global
             h == lc'[c].global
  <2>1. /\ lc[c].pc = "translating" /\ ctx \in ContextsOf(c, Body(c))
        /\ h = MergeWithBase(g, ctx) /\ lc'[c] \in LifeCyclesOf(c, Body(c))
        /\ Nests(c) \/ Collects(c)
    BY <1>0, <1>4, ResultIs
  <2>2. g \in ContextsOf(c, Body(c)) /\ st \in Seq(PassesOf(c, Body(c))) /\ st # <<>>
    BY <1>0, <2>1 DEF Shape, LifeCyclesOf, PassInv
  <2>3. h.resultToReport = g.resultToReport \cup ctx.resultToReport
    BY <2>1, <2>2, MergeWithBaseIs
  <2>4. \A i \in DOMAIN st : \A j \in DOMAIN st[i].contexts :
            st[i].contexts[j].resultToReport \subseteq g.resultToReport
    BY <1>0, <2>1 DEF ReportsInv, ReportsIn
  <2>5. tt \in Seq(PassesOf(c, Body(c)))
    BY <2>1 DEF LifeCyclesOf
  <2>6. \/ /\ Len(tt) = n + 1 /\ tt[n + 1].contexts = <<>> /\ tt[n].contexts = st[n].contexts
           /\ \A i \in 1 .. n - 1 : tt[i] = st[i]
        \/ /\ Len(tt) = n /\ tt[n].contexts = Append(st[n].contexts, ctx)
           /\ \A i \in 1 .. n - 1 : tt[i] = st[i]
    <3>1. CASE Nests(c)
      <4>1. /\ Len(tt) = n + 1 /\ tt[n].contexts = st[n].contexts
            /\ \A i \in 1 .. n - 1 : tt[i] = st[i]
        BY <3>1 DEF Nests
      <4>2. tt[n + 1].contexts = <<>>
        BY <3>1 DEF Nests, Pass
      <4>3. QED
        BY <4>1, <4>2
    <3>2. CASE Collects(c)
      BY <3>2 DEF Collects
    <3>3. QED
      BY <2>1, <3>1, <3>2
  <2> HIDE DEF ctx, st, tt, g, h
  <2>7. n \in Nat \ {0} /\ DOMAIN st = 1 .. n /\ DOMAIN tt = 1 .. Len(tt)
    BY <2>2, <2>5
  <2>8. st[n].contexts \in Seq(ContextsOf(c, Body(c)))
    <3>1. st[n] \in PassesOf(c, Body(c))
      BY <2>2, <2>7
    <3>2. QED
      BY <3>1 DEF PassesOf
  <2> HIDE DEF n
  <2>9. ASSUME NEW i \in DOMAIN tt, NEW j \in DOMAIN tt[i].contexts
        PROVE  tt[i].contexts[j].resultToReport \subseteq h.resultToReport
    <3>1. CASE i \in 1 .. n - 1
      <4>1. tt[i] = st[i]
        BY <2>6, <3>1
      <4>2. i \in DOMAIN st
        BY <2>7, <3>1
      <4>3. QED
        BY <2>3, <2>4, <2>9, <4>1, <4>2
    <3>2. CASE i = n /\ tt[n].contexts = st[n].contexts
      <4>1. n \in DOMAIN st
        BY <2>7
      <4>2. QED
        BY <2>3, <2>4, <2>9, <3>2, <4>1
    <3>3. CASE i = n /\ tt[n].contexts = Append(st[n].contexts, ctx)
      <4>1. n \in DOMAIN st
        BY <2>7
      <4>2. \/ j \in DOMAIN st[n].contexts /\ tt[n].contexts[j] = st[n].contexts[j]
            \/ tt[n].contexts[j] = ctx
        BY <2>8, <2>9, <3>3
      <4>3. QED
        BY <2>3, <2>4, <3>3, <4>1, <4>2
    <3>4. CASE i = n + 1 /\ tt[n + 1].contexts = <<>>
      BY <2>9, <3>4
    <3>5. CASE Len(tt) = n
      <4>1. tt[n].contexts = Append(st[n].contexts, ctx)
        BY <2>6, <2>7, <3>5
      <4>2. i \in 1 .. n - 1 \/ i = n
        BY <2>7, <2>9, <3>5
      <4>3. QED
        BY <3>1, <3>3, <4>1, <4>2
    <3>6. CASE Len(tt) = n + 1
      <4>1. tt[n + 1].contexts = <<>> /\ tt[n].contexts = st[n].contexts
        BY <2>6, <2>7, <3>6
      <4>2. i \in 1 .. n - 1 \/ i = n \/ i = n + 1
        BY <2>7, <2>9, <3>6
      <4>3. QED
        BY <3>1, <3>2, <3>4, <4>1, <4>2
    <3>7. QED
      BY <2>6, <3>5, <3>6
  <2>10. QED
    BY <2>9 DEF ReportsInv, ReportsIn, tt, h
<1>5. CASE EndNestedPass(c)
  <2> DEFINE st == lc[c].stack
             tt == lc'[c].stack
             R == lc[c].global.resultToReport
  <2>1. /\ lc[c].pc = "resources" /\ lc'[c].global = lc[c].global
        /\ Len(st) > 1 /\ HandsDown(st, tt)
    BY <1>5, EndNestedIs
  <2>2. st \in Seq(PassesOf(c, Body(c)))
    BY DEF Shape, LifeCyclesOf
  <2>3. ReportsIn(st, R)
    BY <1>0, <2>1 DEF ReportsInv
  <2> HIDE DEF st, tt, R
  <2>4. ReportsIn(tt, R)
    BY <2>1, <2>2, <2>3, ReportsAfterNested
  <2>5. QED
    BY <2>1, <2>4 DEF ReportsInv, R, tt
<1>6. CASE Translate(c)
  <2>1. lc[c].pc = "resources" => lc[c].stack # <<>>
    BY <1>0 DEF PassInv
  <2>2. QED
    BY <1>2, <1>6, <2>1, TranslateIs
<1>7. CASE StartGoal(c)
  <2>1. lc'[c].stack = <<Pass(Resources(lc[c].request), FALSE)>>
    BY <1>7, StartGoalIs, Zenon
  <2>2. QED
    BY <1>3, <2>1, Zenon
<1>8. CASE StartReflection(c)
  BY <1>0, <1>3, <1>8, StartReflectionIs
<1>9. CASE Start(c) \/ Throw(c) \/ EndGoal(c) \/ EndRun(c) \/ Learn(c) \/ StoreNodes(c)
           \/ SaveModel(c) \/ SaveModelThrows(c)
  <2>1. lc'[c].pc \notin {"resources", "translating"}
    <3>1. CASE Start(c)
      BY <3>1, StartIs
    <3>2. CASE Throw(c)
      BY <3>2, ThrowIs
    <3>3. CASE EndGoal(c)
      BY <1>0, <3>3, EndGoalIs DEF PassInv
    <3>4. CASE EndRun(c)
      BY <3>4, EndRunIs
    <3>5. CASE Learn(c)
      <4>1. lc[c].pc = "learn"
        BY <3>5 DEF Learn
      <4>2. QED
        BY <3>5, <4>1, LearnIs DEF ClientInv, ModelInv
    <3>6. CASE StoreNodes(c) \/ SaveModel(c) \/ SaveModelThrows(c)
      BY <3>6, WriteIs
    <3>7. QED
      BY <1>9, <3>1, <3>2, <3>3, <3>4, <3>5, <3>6
  <2>2. QED
    BY <1>1, <2>1
<1>10. CASE lc' = lc
  BY <1>0, <1>10 DEF ReportsInv
<1>11. CASE Submit(c) \/ Timeout(c)
  BY <1>10, <1>11 DEF Submit, Timeout
<1>12. ASSUME NEW w \in work, w.id.client = c,
              NEW reply \in ActionReplies(w.class, w.payload), Execute(w, reply)
       PROVE  ReportsInv(c)'
  BY <1>10, <1>12 DEF Execute
<1>13. QED
  BY <1>4, <1>5, <1>6, <1>7, <1>8, <1>9, <1>11, <1>12 DEF Step, LifeCycle

\* The caller and the work of its calls.
LEMMA CallStep ==
    ASSUME Shape, NEW c \in Clients, ClientInv(c), Step(c)
    PROVE  CallInv(c)'
<1>0. /\ PassInv(c) /\ CallInv(c) /\ call[c] \in CallsOf(c, Body(c))
      /\ \A w \in work : w.id.client = c => w.id.ask \in Nat
  BY DEF ClientInv, Shape, WorksOf
<1>1. CASE LifeCycle(c) /\ call' = call
  <2>1. work' = work /\ helped' = helped
    BY <1>1, LifeCycleIs
  <2>2. QED
    BY <1>0, <1>1, <2>1 DEF CallInv
<1>2. CASE Translate(c)
  <2>1. lc[c].pc = "resources" => lc[c].stack # <<>>
    BY <1>0 DEF PassInv
  <2>2. call'[c].ask = call[c].ask + 1 /\ call'[c].pc = "waiting" /\ work' = work
    BY <1>2, <2>1, TranslateIs
  <2>3. call[c].ask \in Nat
    BY <1>0 DEF CallsOf
  <2>4. QED
    BY <1>0, <2>2, <2>3 DEF CallInv
<1>3. CASE Result(c) \/ Throw(c)
  <2>1. /\ call'[c].pc = "idle" /\ call'[c].ask = call[c].ask /\ work' = work
        /\ call'[c].class = call[c].class /\ call'[c].payload = call[c].payload
    BY <1>0, <1>3, ResultIs, ThrowIs
  <2>2. QED
    BY <1>0, <2>1 DEF CallInv
<1>4. CASE Submit(c)
  <2>1. PICK w \in WorksOf(c, Body(c)) :
           /\ work' = work \cup {w} /\ w.id.client = c /\ w.id.ask = call[c].ask
           /\ w.class = call[c].class /\ w.payload = call[c].payload
    BY <1>0, <1>4, SubmitIs
  <2>2. call' = call /\ helped' = helped
    BY <1>0, <1>4, SubmitIs
  <2>3. call[c].ask \in Nat
    BY <1>0 DEF CallsOf
  <2>4. QED
    BY <1>0, <2>1, <2>2, <2>3 DEF CallInv
<1>5. CASE Timeout(c)
  <2>1. /\ call'[c].pc = "failed" /\ call'[c].ask = call[c].ask /\ work' = work
        /\ call'[c].class = call[c].class /\ call'[c].payload = call[c].payload
    BY <1>5, TimeoutIs
  <2>2. QED
    BY <1>0, <2>1 DEF CallInv
<1>6. ASSUME NEW w \in work, w.id.client = c,
             NEW reply \in ActionReplies(w.class, w.payload), Execute(w, reply)
      PROVE  CallInv(c)'
  <2>1. /\ Answers(w, reply) \/ TooLate(w)
        /\ work' = work \ {w}
        /\ helped' = IF w.class = "Cry4HelpWay2Think" THEN helped \cup {c} ELSE helped
    BY <1>6, ExecuteIs
  <2>2. CASE Answers(w, reply)
    <3>1. /\ w.class = call[c].class /\ w.payload = call[c].payload
          /\ call'[c].pc = "answered" /\ call'[c].reply = reply
          /\ call'[c].ask = call[c].ask /\ call'[c].class = call[c].class
          /\ call'[c].payload = call[c].payload
      BY <1>0, <1>6, <2>2 DEF Answers, CallInv
    <3>2. /\ call'[c].reply \in ActionReplies(call'[c].class, call'[c].payload)
          /\ call'[c].class = "Cry4HelpWay2Think" => c \in helped'
      BY <1>6, <2>1, <3>1
    <3>3. QED
      BY <1>0, <2>1, <3>1, <3>2 DEF CallInv
  <2>3. CASE TooLate(w)
    BY <1>0, <2>1, <2>3 DEF CallInv, TooLate
  <2>4. QED
    BY <2>1, <2>2, <2>3
<1>7. CASE LifeCycle(c) /\ ~(Translate(c) \/ Result(c) \/ Throw(c))
  <2>1. call' = call
    BY <1>7 DEF LifeCycle, Start, StartGoal, EndNestedPass, StartReflection, EndGoal, EndRun,
                Learn, StoreNodes, SaveModel, SaveModelThrows, service
  <2>2. QED
    BY <1>1, <1>7, <2>1
<1>8. QED
  BY <1>2, <1>3, <1>4, <1>5, <1>6, <1>7 DEF Step

\* The models of the global context survive every merge.
LEMMA ModelStep ==
    ASSUME Shape, NEW c \in Clients, ClientInv(c), Step(c)
    PROVE  ModelInv(c)'
<1>0. PassInv(c) /\ ReportsInv(c) /\ ModelInv(c)
  BY DEF ClientInv
<1>1. CASE Start(c)
  BY <1>1, StartIs DEF ModelInv
<1>2. CASE StartGoal(c)
  BY <1>0, <1>2, StartGoalIs DEF ModelInv
<1>3. CASE Translate(c)
  <2>1. lc[c].pc = "resources" => lc[c].stack # <<>>
    BY <1>0 DEF PassInv
  <2>2. QED
    BY <1>0, <1>3, <2>1, TranslateIs DEF ModelInv
<1>4. CASE Result(c)
  <2>1. /\ lc[c].pc = "translating" /\ lc'[c].pc = "resources"
        /\ call[c].reply.ctx \in ContextsOf(c, Body(c))
        /\ lc'[c].global = MergeWithBase(lc[c].global, call[c].reply.ctx)
    BY <1>0, <1>4, ResultIs
  <2>2. lc[c].global \in ContextsOf(c, Body(c))
    BY DEF Shape, LifeCyclesOf
  <2>3. /\ lc'[c].global.domainModel = lc[c].global.domainModel
        /\ lc'[c].global.simulationModel = lc[c].global.simulationModel
    BY <2>1, <2>2, MergeWithBaseIs
  <2>4. QED
    BY <1>0, <2>1, <2>3 DEF ModelInv
<1>5. CASE Throw(c)
  BY <1>0, <1>5, ThrowIs DEF ModelInv
<1>6. CASE EndNestedPass(c)
  BY <1>0, <1>6, EndNestedIs DEF ModelInv
<1>7. CASE StartReflection(c)
  BY <1>0, <1>7, StartReflectionIs DEF ModelInv
<1>8. CASE EndGoal(c)
  <2>1. lc[c].pc = "resources" => lc[c].goal = 1
    BY <1>0 DEF PassInv
  <2>2. QED
    BY <1>0, <1>8, <2>1, EndGoalIs DEF ModelInv
<1>9. CASE EndRun(c)
  BY <1>0, <1>9, EndRunIs DEF ModelInv
<1>10. CASE Learn(c)
  <2>1. lc[c].pc = "learn"
    BY <1>10 DEF Learn
  <2>2. lc[c].global.lastResult.kind = "ConceptNetwork"
    BY <1>0, <2>1 DEF ModelInv
  <2>3. lc'[c].pc = "store" /\ lc'[c].global = lc[c].global
    BY <1>10, <2>2, LearnIs
  <2>4. QED
    BY <1>0, <2>1, <2>3 DEF ModelInv
<1>11. CASE StoreNodes(c) \/ SaveModel(c) \/ SaveModelThrows(c)
  BY <1>0, <1>11, WriteIs DEF ModelInv
<1>12. CASE lc' = lc
  BY <1>0, <1>12 DEF ModelInv
<1>13. CASE Submit(c) \/ Timeout(c)
  BY <1>12, <1>13 DEF Submit, Timeout
<1>14. ASSUME NEW w \in work, w.id.client = c,
              NEW reply \in ActionReplies(w.class, w.payload), Execute(w, reply)
       PROVE  ModelInv(c)'
  BY <1>12, <1>14 DEF Execute
<1>15. QED
  BY <1>1, <1>2, <1>3, <1>4, <1>5, <1>6, <1>7, <1>8, <1>9, <1>10, <1>11, <1>13, <1>14
     DEF Step, LifeCycle

\* What is in the model, on its way there or saved is of trainings that go on or have ended after it.
TeachInv ==
    \A c \in Clients :
        c \in model \cup saved \/ (\E d \in Clients : c \in lc[d].nodes) =>
            lc[c].pc \in Taught

\* A training adds itself when it has a network to store, and can fail only in saveModel
\* after that.
LEMMA TeachStep ==
    ASSUME Shape, NEW c \in Clients, ClientInv(c), TeachInv, Step(c)
    PROVE  TeachInv'
<1>1. CASE LifeCycle(c)
  <2>1. /\ Moves(c)
        /\ model' \cup saved' \subseteq model \cup saved \cup lc[c].nodes
        /\ \/ lc'[c].nodes = lc[c].nodes
           \/ lc'[c].nodes = model \cup {c} /\ lc'[c].pc = "store"
        /\ lc[c].pc \in Taught => lc'[c].pc \in Taught
    BY <1>1, LifeCycleIs
  <2> SUFFICES ASSUME NEW d \in Clients,
                      \/ d \in model' \cup saved'
                      \/ \E e \in Clients : d \in lc'[e].nodes
               PROVE  lc'[d].pc \in Taught
    BY DEF TeachInv
  <2>2. \A e \in Clients : e # c => lc'[e] = lc[e]
    BY <2>1 DEF Moves
  <2>3. \/ d \in model \cup saved \/ \E e \in Clients : d \in lc[e].nodes
        \/ d = c /\ lc'[c].pc = "store"
    <3>1. CASE d \in model' \cup saved'
      BY <2>1, <3>1
    <3>2. ASSUME NEW e \in Clients, d \in lc'[e].nodes
          PROVE  \/ d \in model \cup saved \/ \E f \in Clients : d \in lc[f].nodes
                 \/ d = c /\ lc'[c].pc = "store"
      <4>1. CASE e = c
        BY <2>1, <3>2, <4>1
      <4>2. CASE e # c
        BY <2>2, <3>2, <4>2
      <4>3. QED
        BY <4>1, <4>2
    <3>3. QED
      BY <3>1, <3>2
  <2>4. CASE d = c /\ lc'[c].pc = "store"
    BY <2>4 DEF Taught
  <2>5. CASE d \in model \cup saved \/ \E e \in Clients : d \in lc[e].nodes
    <3>1. lc[d].pc \in Taught
      BY <2>5 DEF TeachInv
    <3>2. QED
      BY <2>1, <2>2, <3>1
  <2>6. QED
    BY <2>3, <2>4, <2>5
<1>2. CASE ~LifeCycle(c)
  <2>1. UNCHANGED <<lc, model, saved>>
    BY <1>2 DEF Step, Submit, Timeout, Execute
  <2>2. QED
    BY <2>1 DEF TeachInv
<1>3. QED
  BY <1>1, <1>2

-----------------------------------------------------------------------------
(* Theorems.                                                                *)

RequestInv == Shape /\ TeachInv /\ \A c \in Clients : ClientInv(c)

\* Nothing has happened to a request at first.
LEMMA InitIs ==
    ASSUME Init, NEW c \in Clients
    PROVE  /\ lc[c].pc = "new" /\ lc[c].goal = 1 /\ lc[c].stack = <<>> /\ lc[c].nodes = {}
           /\ lc[c] \in LifeCyclesOf(c, Body(c)) /\ lc[c].global = EmptyContext
           /\ call[c] \in CallsOf(c, Body(c)) /\ call[c].pc = "idle"
<1>1. lc[c] \in [pc : {"new"}, request : Requests, goal : {1}, main : {TRUE},
                 stack : {<<>>}, global : {EmptyContext}, nodes : {{}}]
  BY DEF Init
<1>2. EmptyContext \in ContextsOf(c, Body(c))
  BY EmptyContextType
<1>3. lc[c] \in LifeCyclesOf(c, Body(c))
  <2>1. lc[c].request \in {q \in Requests : q.body = Body(c)}
    BY <1>1 DEF Body
  <2> DEFINE empty == <<>>
             one == 1
             none == {}
  <2>2. /\ empty \in Seq(PassesOf(c, Body(c))) /\ one \in 1 .. 2
        /\ none \in SUBSET Clients
    OBVIOUS
  <2>3. lc[c] \in [pc : {"new"}, request : Requests, goal : {one}, main : {TRUE},
                   stack : {empty}, global : {EmptyContext}, nodes : {none}]
    BY <1>1
  <2> HIDE DEF empty, one, none
  <2>4. QED
    BY <1>2, <2>1, <2>2, <2>3 DEF LifeCyclesOf
<1>4. call[c] = [pc |-> "idle", ask |-> 0, class |-> "none", payload |-> EmptyContext,
                 reply |-> NoReply]
  BY DEF Init
<1>5. NoReply \in RepliesOf(c, Body(c))
  BY <1>2 DEF NoReply, RepliesOf
<1>6. call[c] \in CallsOf(c, Body(c)) /\ call[c].pc = "idle"
  BY <1>2, <1>4, <1>5 DEF CallsOf
<1>7. QED
  BY <1>1, <1>3, <1>6

\* The invariant holds at first.
LEMMA RequestInit == Init => RequestInv
<1> SUFFICES ASSUME Init PROVE RequestInv
  OBVIOUS
<1>1. /\ work = {} /\ model = {} /\ saved = {} /\ helped = {}
      /\ spikes = [c \in Clients |-> 0]
      /\ call = [c \in Clients |-> call[c]] /\ lc = [c \in Clients |-> lc[c]]
  BY DEF Init
<1>2. Shape
  BY <1>1, InitIs DEF Shape
<1>3. TeachInv
  BY <1>1, InitIs DEF TeachInv
<1>4. ASSUME NEW c \in Clients PROVE ClientInv(c)
  <2>1. /\ lc[c].pc = "new" /\ lc[c].goal = 1 /\ call[c].pc = "idle"
    BY InitIs
  <2>2. PassInv(c)
    BY <2>1 DEF PassInv
  <2>3. ReportsInv(c)
    BY <2>1 DEF ReportsInv
  <2>4. CallInv(c)
    BY <1>1, <2>1 DEF CallInv
  <2>5. ModelInv(c)
    BY <2>1 DEF ModelInv
  <2>6. QED
    BY <2>2, <2>3, <2>4, <2>5 DEF ClientInv
<1>5. QED
  BY <1>2, <1>3, <1>4 DEF RequestInv

\* Every step keeps it.
LEMMA RequestStep == RequestInv /\ [Next]_vars => RequestInv'
<1> SUFFICES ASSUME RequestInv, [Next]_vars PROVE RequestInv'
  OBVIOUS
<1>1. CASE Next
  <2>1. PICK c \in Clients : Step(c)
    BY <1>1, NextIsStep DEF RequestInv
  <2>2. Shape /\ TeachInv /\ ClientInv(c)
    BY DEF RequestInv
  <2>3. Shape' /\ \A d \in Clients \ {c} : Untouched(d)
    BY <2>1, <2>2, StepIs
  <2>4. TeachInv'
    BY <2>1, <2>2, TeachStep
  <2>5. ClientInv(c)'
    BY <2>1, <2>2, PassStep, ReportsStep, CallStep, ModelStep DEF ClientInv
  <2>6. ASSUME NEW d \in Clients, d # c PROVE ClientInv(d)'
    BY <2>3, <2>6, ClientFrame DEF RequestInv
  <2>7. QED
    BY <2>3, <2>4, <2>5, <2>6 DEF RequestInv
<1>2. CASE UNCHANGED vars
  <2>1. UNCHANGED <<call, work, lc, model, saved, spikes, helped>>
    BY <1>2 DEF vars, service
  <2>2. Shape'
    BY <2>1 DEF RequestInv, Shape, Body
  <2>3. TeachInv'
    BY <2>1 DEF RequestInv, TeachInv
  <2>4. \A d \in Clients : ClientInv(d)'
    BY <2>1, ClientFrame DEF RequestInv, Untouched
  <2>5. QED
    BY <2>2, <2>3, <2>4 DEF RequestInv
<1>3. QED
  BY <1>1, <1>2

\* It holds in every behaviour.
LEMMA RequestInvariant == Spec => []RequestInv
<1>1. QED
  BY RequestInit, RequestStep, PTL DEF Spec

\* Type correctness: the goal index stays within the workflow, every resource of a pass is
\* an action of the catalogue, and a life cycle waits exactly while its call is open.
THEOREM TypeCorrect == Spec => []TypeOK
<1>1. RequestInv => TypeOK
  <2> SUFFICES ASSUME RequestInv PROVE TypeOK
    OBVIOUS
  <2>1. Shape /\ \A c \in Clients : PassInv(c)
    BY DEF RequestInv, ClientInv
  <2>2. \A w \in work : w.class \in Classes /\ w.id.client \in Clients
    BY <2>1 DEF Shape, WorksOf
  <2>3. ASSUME NEW c \in Clients
        PROVE  /\ call[c].pc \in {"idle", "waiting", "answered", "failed"}
               /\ lc[c].pc \in {"new", "goal", "resources", "translating", "learn", "store",
                                "save", "done", "failed", "unsaved"}
               /\ lc[c].goal \in 1 .. 2
               /\ (lc[c].pc = "translating") = (call[c].pc # "idle")
               /\ spikes[c] \in Nat
    BY <2>1 DEF Shape, CallsOf, LifeCyclesOf, PassInv
  <2>4. ASSUME NEW c \in Clients, NEW i \in DOMAIN lc[c].stack
        PROVE  PassOK(lc[c].stack[i])
    <3>1. lc[c].stack \in Seq(PassesOf(c, Body(c)))
      BY <2>1 DEF Shape, LifeCyclesOf
    <3>2. lc[c].stack[i] \in PassesOf(c, Body(c))
      BY <3>1
    <3>3. QED
      BY <3>2 DEF PassesOf, PassOK
  <2>5. model \subseteq Clients /\ saved \subseteq Clients
    BY <2>1 DEF Shape
  <2>6. QED
    BY <2>2, <2>3, <2>4, <2>5 DEF TypeOK
<1>2. QED
  BY <1>1, RequestInvariant, PTL

\* mergeWithBaseContext and initializeGlobalContext: whatever models the actions return,
\* the life cycle goes on with the cached one that all requests share.
THEOREM ModelsStayShared == Spec => []ModelsAreShared
<1>1. RequestInv => ModelsAreShared
  BY DEF RequestInv, ClientInv, ModelInv, ModelsAreShared
<1>2. QED
  BY <1>1, RequestInvariant, PTL

\* A training that ended with an exception before saveModel has left no nodes in the
\* model, in memory or saved, however the trainings of other requests, and those that
\* fail in saveModel, interleave with it.
THEOREM FailuresTeachNothing == Spec => []FailedTeachesNothing
<1>1. RequestInv => FailedTeachesNothing
  BY DEF RequestInv, TeachInv, Taught, FailedTeachesNothing
<1>2. QED
  BY <1>1, RequestInvariant, PTL

-----------------------------------------------------------------------------
(* Help.                                                                    *)

\* The stages of the reflective pass: the critic is to run, the user is to be asked,
\* nothing is left to do.
Critic(st) == Len(st) = 1 /\ st[1].reflective /\ st[1].todo = ReflectiveCritics
Crying(st) ==
    /\ Len(st) = 2 /\ st[1].todo = <<>>
    /\ st[2].reflective /\ st[2].todo = <<"Cry4HelpWay2Think">>
Over(st) == \A i \in DOMAIN st : st[i].todo = <<>>

\* When the reflective pass is over, the user was asked if there is something to report.
HelpInv(c) ==
    /\ lc[c].pc \in {"resources", "translating"} /\ ~lc[c].main =>
          \/ Critic(lc[c].stack)
          \/ Crying(lc[c].stack)
          \/ /\ lc[c].pc = "resources" /\ Over(lc[c].stack)
             /\ lc[c].global.resultToReport # {} => c \in helped
    /\ lc[c].pc \in {"learn", "store", "save", "done"} => lc[c].goal = 2
    /\ lc[c].goal = 2 /\ lc[c].global.resultToReport # {} => c \in helped

\* The current pass of each stage.
LEMMA StageIs ==
    ASSUME NEW st
    PROVE  /\ Critic(st) => /\ Last(st).todo # <<>> /\ st[Len(st)].reflective
                            /\ Head(Last(st).todo) = "DoNotUnderstandManager"
           /\ Crying(st) => /\ Last(st).todo # <<>> /\ st[Len(st)].reflective
                            /\ Head(Last(st).todo) = "Cry4HelpWay2Think"
<1>1. ASSUME Critic(st)
      PROVE  /\ Last(st).todo # <<>> /\ st[Len(st)].reflective
             /\ Head(Last(st).todo) = "DoNotUnderstandManager"
  <2>1. Len(st) = 1 /\ st[1].todo = <<"DoNotUnderstandManager">> /\ st[1].reflective
    BY <1>1 DEF Critic, ReflectiveCritics
  <2>2. Last(st) = st[1]
    BY <2>1 DEF Last
  <2>3. QED
    BY <2>1, <2>2
<1>2. ASSUME Crying(st)
      PROVE  /\ Last(st).todo # <<>> /\ st[Len(st)].reflective
             /\ Head(Last(st).todo) = "Cry4HelpWay2Think"
  <2>1. Len(st) = 2 /\ st[2].todo = <<"Cry4HelpWay2Think">> /\ st[2].reflective
    BY <1>2 DEF Crying
  <2>2. Last(st) = st[2]
    BY <2>1 DEF Last
  <2>3. QED
    BY <2>1, <2>2
<1>3. QED
  BY <1>1, <1>2

\* Result takes a reply of the action that was to run, to the global context.
LEMMA ReplyIs ==
    ASSUME Shape, NEW c \in Clients, ClientInv(c), Result(c)
    PROVE  /\ call[c].reply.ok
           /\ call[c].reply \in ActionReplies(Head(Last(lc[c].stack).todo), lc[c].global)
           /\ Head(Last(lc[c].stack).todo) \in Classes
           /\ Head(Last(lc[c].stack).todo) = "Cry4HelpWay2Think" => c \in helped
           /\ lc[c].global \in ContextsOf(c, Body(c))
           /\ lc[c].stack \in Seq(PassesOf(c, Body(c))) /\ lc[c].stack # <<>>
<1>1. lc[c].pc = "translating" /\ call[c].pc = "answered" /\ call[c].reply.ok
  BY DEF Result
<1>2. call[c].class \in Classes
  BY <1>1, CallClass DEF ClientInv
<1>3. /\ call[c].class = Head(Last(lc[c].stack).todo) /\ call[c].payload = lc[c].global
      /\ lc[c].stack # <<>>
  BY <1>1 DEF ClientInv, PassInv
<1>4. /\ call[c].reply \in ActionReplies(call[c].class, call[c].payload)
      /\ call[c].class = "Cry4HelpWay2Think" => c \in helped
  BY <1>1 DEF ClientInv, CallInv
<1>5. /\ lc[c].global \in ContextsOf(c, Body(c))
      /\ lc[c].stack \in Seq(PassesOf(c, Body(c)))
  BY DEF Shape, LifeCyclesOf
<1>6. QED
  BY <1>1, <1>2, <1>3, <1>4, <1>5

\* The critic asks for help if there is something to report; otherwise it is done.
LEMMA CriticResult ==
    ASSUME Shape, NEW c \in Clients, ClientInv(c), Critic(lc[c].stack), Result(c)
    PROVE  \/ Crying(lc'[c].stack)
           \/ Over(lc'[c].stack) /\ lc'[c].global.resultToReport = {}
<1> DEFINE st == lc[c].stack
           ctx == call[c].reply.ctx
           g == lc[c].global
           asks == Asks(st[Len(st)], ctx)
<1>1. /\ Len(st) = 1 /\ st[1].reflective /\ st[1].todo = <<"DoNotUnderstandManager">>
  BY DEF Critic, ReflectiveCritics
<1>2. /\ call[c].reply \in DoNotUnderstandManager(g) /\ g \in ContextsOf(c, Body(c))
  <2>1. Head(Last(st).todo) = "DoNotUnderstandManager"
    BY StageIs
  <2>2. /\ call[c].reply \in ActionReplies("DoNotUnderstandManager", g)
        /\ g \in ContextsOf(c, Body(c))
    BY <2>1, ReplyIs
  <2>3. QED
    BY <2>2 DEF ActionReplies
<1>3. /\ ctx.resultToReport = {} /\ asks \in {None, Cry4HelpRequest("")}
      /\ g.resultToReport # {} => asks = Cry4HelpRequest("")
  <2>1. asks = ctx.lastReflectiveResult
    BY <1>1 DEF Asks
  <2>2. Body(c) \in Texts
    BY BodyIs
  <2>3. QED
    BY <1>2, <2>1, <2>2, HelpIs
<1>4. /\ Nests(c) \/ Collects(c)
      /\ lc'[c].global = MergeWithBase(g, ctx) /\ ctx \in ContextsOf(c, Body(c))
      /\ lc'[c] \in LifeCyclesOf(c, Body(c))
  BY ResultIs DEF ClientInv
<1>5. Cry4HelpRequest("").kind = "SelectorRequest" /\ None.kind # "SelectorRequest"
      /\ Select(Cry4HelpRequest("")) = <<"Cry4HelpWay2Think">>
  BY NoneIs DEF Cry4HelpRequest, Resource, Select, Selectable, Classes
<1>6. CASE Nests(c)
  <2>1. /\ asks.kind = "SelectorRequest" /\ Len(lc'[c].stack) = 2
        /\ lc'[c].stack[2] = Pass(Select(asks), TRUE)
        /\ lc'[c].stack[1].todo = Tail(st[1].todo)
    <3> DEFINE tt == lc'[c].stack
    <3>1. /\ asks.kind = "SelectorRequest" /\ Len(tt) = Len(st) + 1
          /\ tt[Len(st) + 1] = Pass(Select(asks), TRUE)
          /\ tt[Len(st)].todo = Tail(st[Len(st)].todo)
      BY <1>6 DEF Nests
    <3>2. Len(st) = 1 /\ 1 + 1 = 2
      BY <1>1
    <3> HIDE DEF st, tt, asks
    <3>3. /\ Len(tt) = 2 /\ tt[2] = Pass(Select(asks), TRUE)
          /\ tt[1].todo = Tail(st[1].todo)
      BY <3>1, <3>2, Zenon
    <3>4. QED
      BY <3>1, <3>3, Zenon DEF tt
  <2>2. asks = Cry4HelpRequest("")
    BY <1>3, <1>5, <2>1
  <2>3. /\ Pass(<<"Cry4HelpWay2Think">>, TRUE).todo = <<"Cry4HelpWay2Think">>
        /\ Pass(<<"Cry4HelpWay2Think">>, TRUE).reflective
    BY DEF Pass
  <2>4. lc'[c].stack[1].todo = <<>>
    BY <1>1, <2>1
  <2> HIDE DEF asks
  <2>5. Crying(lc'[c].stack)
    BY <1>5, <2>1, <2>2, <2>3, <2>4 DEF Crying
  <2>6. QED
    BY <2>5
<1>7. CASE Collects(c)
  <2>1. /\ asks.kind # "SelectorRequest" /\ Len(lc'[c].stack) = 1
        /\ lc'[c].stack[1].todo = Tail(st[1].todo)
    <3> DEFINE tt == lc'[c].stack
    <3>1. /\ asks.kind # "SelectorRequest" /\ Len(tt) = Len(st)
          /\ tt[Len(st)].todo = Tail(st[Len(st)].todo)
      BY <1>7 DEF Collects
    <3> HIDE DEF st, tt, asks
    <3>2. QED
      BY <1>1, <3>1 DEF tt
  <2>2. g.resultToReport = {}
    BY <1>3, <1>5, <2>1
  <2>3. lc'[c].global.resultToReport = {}
    <3>1. lc'[c].global.resultToReport = g.resultToReport \cup ctx.resultToReport
      BY <1>2, <1>4, MergeWithBaseIs
    <3>2. QED
      BY <1>3, <2>2, <3>1
  <2>4. lc'[c].stack[1].todo = <<>>
    BY <1>1, <2>1
  <2>5. lc'[c].stack \in Seq(PassesOf(c, Body(c)))
    BY <1>4 DEF LifeCyclesOf
  <2>6. Over(lc'[c].stack)
    <3> DEFINE tt == lc'[c].stack
    <3>1. tt \in Seq(PassesOf(c, Body(c))) /\ Len(tt) = 1 /\ tt[1].todo = <<>>
      BY <2>1, <2>4, <2>5
    <3> HIDE DEF tt
    <3>2. Over(tt)
      BY <3>1 DEF Over
    <3>3. QED
      BY <3>2 DEF tt
  <2>7. QED
    BY <2>3, <2>6
<1>8. QED
  BY <1>4, <1>6, <1>7

\* The user has answered: nothing is left to do, and the user was asked.
LEMMA CryingResult ==
    ASSUME Shape, NEW c \in Clients, ClientInv(c), Crying(lc[c].stack), Result(c)
    PROVE  Over(lc'[c].stack) /\ c \in helped
<1> DEFINE st == lc[c].stack
           ctx == call[c].reply.ctx
           g == lc[c].global
           asks == Asks(st[Len(st)], ctx)
<1>1. /\ Len(st) = 2 /\ st[2].reflective /\ st[2].todo = <<"Cry4HelpWay2Think">>
      /\ st[1].todo = <<>>
  BY DEF Crying
<1>2. /\ call[c].reply \in Cry4HelpWay2Think(g) /\ g \in ContextsOf(c, Body(c))
      /\ c \in helped
  <2>1. Head(Last(st).todo) = "Cry4HelpWay2Think"
    BY StageIs
  <2>2. /\ call[c].reply \in ActionReplies("Cry4HelpWay2Think", g)
        /\ g \in ContextsOf(c, Body(c)) /\ c \in helped
    BY <2>1, ReplyIs
  <2>3. QED
    BY <2>2 DEF ActionReplies
<1>3. asks = None
  <2>1. asks = ctx.lastReflectiveResult
    BY <1>1 DEF Asks
  <2>2. Body(c) \in Texts
    BY BodyIs
  <2>3. QED
    BY <1>2, <2>1, <2>2, HelpIs
<1>4. Nests(c) \/ Collects(c)
  BY ResultIs DEF ClientInv
<1>5. lc'[c].stack \in Seq(PassesOf(c, Body(c)))
  BY ResultIs DEF ClientInv, LifeCyclesOf
<1>6. Collects(c)
  BY <1>3, <1>4, NoneIs DEF Nests
<1>7. /\ Len(lc'[c].stack) = 2 /\ lc'[c].stack[1] = st[1]
      /\ lc'[c].stack[2].todo = Tail(st[2].todo)
  <2> DEFINE tt == lc'[c].stack
  <2>1. /\ Len(tt) = Len(st) /\ tt[Len(st)].todo = Tail(st[Len(st)].todo)
        /\ \A i \in 1 .. Len(st) - 1 : tt[i] = st[i]
    BY <1>6 DEF Collects
  <2>2. Len(st) = 2 /\ 1 \in 1 .. 2 - 1
    BY <1>1
  <2> HIDE DEF st, tt
  <2>3. Len(tt) = 2 /\ tt[2].todo = Tail(st[2].todo) /\ tt[1] = st[1]
    BY <2>1, <2>2, Zenon
  <2>4. QED
    BY <2>3, Zenon DEF tt
<1>8. lc'[c].stack[1].todo = <<>> /\ lc'[c].stack[2].todo = <<>>
  BY <1>1, <1>7
<1>9. Over(lc'[c].stack)
  <2> DEFINE tt == lc'[c].stack
  <2>1. /\ tt \in Seq(PassesOf(c, Body(c))) /\ Len(tt) = 2
        /\ tt[1].todo = <<>> /\ tt[2].todo = <<>>
    BY <1>5, <1>7, <1>8
  <2> HIDE DEF tt
  <2>2. Over(tt)
    BY <2>1 DEF Over
  <2>3. QED
    BY <2>2 DEF tt
<1>10. QED
  BY <1>2, <1>9

\* A pass below holds what it held when a nested pass is over.
LEMMA OverBelow ==
    ASSUME NEW c, NEW b, NEW st \in Seq(PassesOf(c, b)), Len(st) > 1, Over(st),
           NEW tt, HandsDown(st, tt)
    PROVE  Over(tt)
<1>1. tt \in Seq(PassesOf(c, b)) /\ HandedDown(st, tt)
  BY StackAfterNested
<1>2. ASSUME NEW i \in DOMAIN tt PROVE tt[i].todo = <<>>
  <2>1. i \in 1 .. Len(st) - 1 /\ i \in DOMAIN st /\ Len(st) - 1 \in DOMAIN st
    BY <1>1, <1>2 DEF HandedDown
  <2>2. st[i].todo = <<>> /\ st[Len(st) - 1].todo = <<>>
    BY <2>1 DEF Over
  <2>3. CASE i = Len(st) - 1
    BY <1>1, <2>2, <2>3 DEF HandedDown
  <2>4. CASE i \in 1 .. Len(st) - 2
    BY <1>1, <2>2, <2>4 DEF HandedDown
  <2>5. QED
    BY <2>1, <2>3, <2>4
<1>3. QED
  BY <1>2 DEF Over

\* Between two resources, a stack whose current pass is done is in its last stage.
LEMMA DoneIsOver ==
    ASSUME NEW c \in Clients, HelpInv(c), lc[c].pc = "resources", ~lc[c].main,
           lc[c].stack[Len(lc[c].stack)].todo = <<>>
    PROVE  Over(lc[c].stack) /\ (lc[c].global.resultToReport # {} => c \in helped)
<1>1. Last(lc[c].stack).todo = <<>>
  BY DEF Last
<1>2. ~Critic(lc[c].stack) /\ ~Crying(lc[c].stack)
  BY <1>1, StageIs
<1>3. QED
  BY <1>2 DEF HelpInv

\* A request that a step does not touch.
LEMMA HelpFrame ==
    ASSUME NEW d \in Clients, Untouched(d), HelpInv(d)
    PROVE  HelpInv(d)'
BY DEF Untouched, HelpInv

\* The reflective pass goes from stage to stage.
LEMMA HelpStep ==
    ASSUME Shape, NEW c \in Clients, ClientInv(c), HelpInv(c), Step(c)
    PROVE  HelpInv(c)'
<1>0. PassInv(c) /\ ReportsInv(c) /\ ModelInv(c) /\ lc[c].main \in BOOLEAN
      /\ lc[c].stack \in Seq(PassesOf(c, Body(c)))
  BY DEF ClientInv, Shape, LifeCyclesOf
<1>00. /\ lc[c].pc = "new" => lc[c].goal = 1
       /\ lc[c].pc \in {"resources", "translating"} => lc[c].goal = 1 /\ lc[c].stack # <<>>
  BY <1>0 DEF PassInv
<1>1. CASE Start(c)
  BY <1>1, <1>00, StartIs DEF HelpInv
<1>2. CASE StartGoal(c)
  <2>1. lc'[c].pc = "resources" /\ lc'[c].goal = 1 /\ lc'[c].main = TRUE
    BY <1>2, StartGoalIs
  <2>2. QED
    BY <2>1 DEF HelpInv
<1>3. CASE Translate(c)
  <2>1. /\ lc[c].pc = "resources" /\ lc'[c].pc = "translating" /\ lc'[c].goal = lc[c].goal
        /\ lc'[c].main = lc[c].main /\ lc'[c].stack = lc[c].stack
        /\ lc'[c].global = lc[c].global /\ Last(lc[c].stack).todo # <<>>
    BY <1>00, <1>3, TranslateIs
  <2>2. ~Over(lc[c].stack)
    <3> DEFINE st == lc[c].stack
    <3>1. /\ st \in Seq(PassesOf(c, Body(c))) /\ st # <<>>
      BY <1>0, <1>00, <2>1
    <3>2. Last(st).todo # <<>>
      BY <2>1
    <3> HIDE DEF st
    <3>3. Len(st) \in DOMAIN st
      BY <3>1
    <3>4. ~Over(st)
      BY <3>2, <3>3 DEF Over, Last
    <3>5. QED
      BY <3>4 DEF st
  <2>3. QED
    BY <1>00, <2>1, <2>2 DEF HelpInv
<1>4. CASE Result(c)
  <2>1. /\ lc[c].pc = "translating" /\ lc'[c].pc = "resources" /\ lc'[c].goal = lc[c].goal
        /\ lc'[c].main = lc[c].main
    BY <1>0, <1>4, ResultIs
  <2>2. helped' = helped
    BY <1>4 DEF Result
  <2>3. ASSUME ~lc[c].main
        PROVE  \/ Crying(lc'[c].stack)
               \/ /\ Over(lc'[c].stack)
                  /\ lc'[c].global.resultToReport # {} => c \in helped
    <3>1. Critic(lc[c].stack) \/ Crying(lc[c].stack)
      BY <2>1, <2>3 DEF HelpInv
    <3>2. CASE Critic(lc[c].stack)
      BY <1>4, <3>2, CriticResult
    <3>3. CASE Crying(lc[c].stack)
      BY <1>4, <3>3, CryingResult
    <3>4. QED
      BY <3>1, <3>2, <3>3
  <2>4. QED
    BY <1>00, <2>1, <2>2, <2>3 DEF HelpInv
<1>5. CASE Throw(c)
  BY <1>00, <1>5, ThrowIs DEF HelpInv
<1>6. CASE EndNestedPass(c)
  <2>1. /\ lc[c].pc = "resources" /\ lc'[c].pc = "resources"
        /\ lc'[c].goal = lc[c].goal /\ lc'[c].main = lc[c].main
        /\ lc'[c].global = lc[c].global
        /\ Len(lc[c].stack) > 1 /\ lc[c].stack[Len(lc[c].stack)].todo = <<>>
        /\ HandsDown(lc[c].stack, lc'[c].stack)
    BY <1>6, EndNestedIs
  <2>2. helped' = helped
    BY <1>6 DEF EndNestedPass
  <2>3. ASSUME ~lc[c].main
        PROVE  Over(lc'[c].stack) /\ (lc[c].global.resultToReport # {} => c \in helped)
    <3>1. Over(lc[c].stack) /\ (lc[c].global.resultToReport # {} => c \in helped)
      BY <2>1, <2>3, DoneIsOver
    <3>2. Over(lc'[c].stack)
      BY <1>0, <2>1, <3>1, OverBelow
    <3>3. QED
      BY <3>1, <3>2
  <2>4. QED
    BY <1>00, <2>1, <2>2, <2>3 DEF HelpInv
<1>7. CASE StartReflection(c)
  <2>1. /\ lc'[c].pc = "resources" /\ lc'[c].goal = 1
        /\ lc'[c].stack = <<Pass(ReflectiveCritics, TRUE)>>
    BY <1>0, <1>00, <1>7, StartReflectionIs
  <2>2. Critic(<<Pass(ReflectiveCritics, TRUE)>>)
    BY DEF Critic, Pass
  <2>3. QED
    BY <2>1, <2>2 DEF HelpInv
<1>8. CASE EndGoal(c)
  <2>1. /\ lc[c].pc = "resources" /\ lc'[c].pc = "goal" /\ ~lc[c].main
        /\ Len(lc[c].stack) = 1 /\ lc[c].stack[1].todo = <<>> /\ lc'[c].goal = 2
        /\ lc'[c].global.resultToReport = lc[c].global.resultToReport
    BY <1>0, <1>00, <1>8, EndGoalIs
  <2>2. lc[c].global.resultToReport # {} => c \in helped
    BY <2>1, DoneIsOver
  <2>3. helped' = helped
    BY <1>8 DEF EndGoal
  <2>4. QED
    BY <2>1, <2>2, <2>3 DEF HelpInv
<1>9. CASE EndRun(c)
  <2>1. helped' = helped
    BY <1>9 DEF EndRun
  <2>2. QED
    BY <1>9, <2>1, EndRunIs DEF HelpInv
<1>10. CASE Learn(c)
  <2>1. lc[c].pc = "learn" /\ helped' = helped
    BY <1>10 DEF Learn
  <2>2. lc[c].global.lastResult.kind = "ConceptNetwork"
    BY <1>0, <2>1 DEF ModelInv
  <2>3. QED
    BY <1>10, <2>1, <2>2, LearnIs DEF HelpInv
<1>11. CASE StoreNodes(c) \/ SaveModel(c) \/ SaveModelThrows(c)
  <2>1. helped' = helped
    BY <1>11 DEF StoreNodes, SaveModel, SaveModelThrows
  <2>2. QED
    BY <1>11, <2>1, WriteIs DEF HelpInv
<1>12. CASE lc' = lc /\ helped \subseteq helped'
  BY <1>12 DEF HelpInv
<1>13. CASE Submit(c) \/ Timeout(c)
  BY <1>12, <1>13 DEF Submit, Timeout
<1>14. ASSUME NEW w \in work, w.id.client = c,
              NEW reply \in ActionReplies(w.class, w.payload), Execute(w, reply)
       PROVE  HelpInv(c)'
  BY <1>12, <1>14 DEF Execute
<1>15. QED
  BY <1>1, <1>2, <1>3, <1>4, <1>5, <1>6, <1>7, <1>8, <1>9, <1>10, <1>11, <1>13, <1>14
     DEF Step, LifeCycle

HelpAll == \A c \in Clients : HelpInv(c)

\* Requests that run at the same time do not disturb the stages of each other.
LEMMA HelpInvariant == Spec => []HelpAll
<1>1. ASSUME Init PROVE HelpAll
  <2>1. \A c \in Clients : lc[c].pc = "new" /\ lc[c].goal = 1
    BY <1>1, InitIs
  <2>2. QED
    BY <2>1 DEF HelpAll, HelpInv
<1>2. ASSUME RequestInv, HelpAll, [Next]_vars PROVE HelpAll'
  <2>1. CASE Next
    <3>1. PICK c \in Clients : Step(c)
      BY <1>2, <2>1, NextIsStep DEF RequestInv
    <3>2. Shape /\ ClientInv(c) /\ HelpInv(c)
      BY <1>2 DEF RequestInv, HelpAll
    <3>3. \A d \in Clients \ {c} : Untouched(d)
      BY <3>1, <3>2, StepIs
    <3>4. HelpInv(c)'
      BY <3>1, <3>2, HelpStep
    <3>5. ASSUME NEW d \in Clients, d # c PROVE HelpInv(d)'
      BY <1>2, <3>3, <3>5, HelpFrame DEF HelpAll
    <3>6. QED
      BY <3>4, <3>5 DEF HelpAll
  <2>2. CASE UNCHANGED vars
    <3>1. UNCHANGED <<call, work, lc, spikes, helped>>
      BY <2>2 DEF vars, service
    <3>2. QED
      BY <1>2, <3>1, HelpFrame DEF HelpAll, Untouched
  <2>3. QED
    BY <1>2, <2>1, <2>2
<1>3. QED
  BY <1>1, <1>2, RequestInvariant, PTL DEF Spec

\* A request that ends well and has new domain concepts to report has asked the user about
\* them: the report is found by an action in the middle of a goal, is merged from context
\* to context, and reaches the reflective critic whatever else runs meanwhile.
THEOREM ReportsAreAsked == Spec => []AskedForHelp
<1>1. HelpAll => AskedForHelp
  BY DEF HelpAll, HelpInv, AskedForHelp
<1>2. QED
  BY <1>1, HelpInvariant, PTL

-----------------------------------------------------------------------------
(* Spikes.                                                                  *)

\* Requests whose data go to the spike generator.
Wants(c) ==
    lc[c].request.type # "TrainingRequest" /\ Body(c) \in {"hand", "distance"}

\* Work of the spike generator that is still to be done for c.
Spiking(c) == {w \in work : w.id.client = c /\ w.class = "SpikeGeneratorWay2Think"}

Fresh(c) == spikes[c] = 0 /\ Spiking(c) = {}
Once(c) == spikes[c] = 1 /\ Spiking(c) = {}
Settled(c) == IF Wants(c) THEN Once(c) ELSE Fresh(c)

\* The stack of a main pass, alone and with the pass it has asked for.
One(st, todo) == Len(st) = 1 /\ ~st[1].reflective /\ st[1].todo = todo
Two(st, below, todo) ==
    /\ Len(st) = 2 /\ ~st[1].reflective /\ st[1].todo = below
    /\ st[2].reflective /\ st[2].todo = todo

Container(c) == Resource("RoboticDataContainer", "spike-resource", Body(c), c)

\* The resources of the goal, and those that are left after the first and the second.
AllCritics == <<"UnderstandRequestCritic", "HandSpikeClassifierCritic",
                "DistanceSpikeClassifierCritic">>
BothChannels == <<"HandSpikeClassifierCritic", "DistanceSpikeClassifierCritic">>
SecondChannel == <<"DistanceSpikeClassifierCritic">>

\* The stages of the main pass for data of a channel: the data are to be parsed, the
\* critics of the channels are to look at them, the spike generator is to run, it has run.
Parsing(c) ==
    /\ One(lc[c].stack, AllCritics) /\ Fresh(c)
    /\ lc[c].global.lastResult.kind = "KnowledgeString"
Classifying(c) ==
    /\ \/ One(lc[c].stack, BothChannels)
       \/ One(lc[c].stack, SecondChannel) /\ Body(c) # "hand"
    /\ Fresh(c) /\ Container(c) \in lc[c].global.frames
Generating(c) ==
    /\ \/ Two(lc[c].stack, SecondChannel, <<"SpikeGeneratorWay2Think">>) /\ Body(c) = "hand"
       \/ Two(lc[c].stack, <<>>, <<"SpikeGeneratorWay2Think">>)
    /\ Container(c) \in lc[c].global.frames
    /\ lc[c].pc = "resources" => Fresh(c)
    /\ call[c].pc = "waiting" => spikes[c] = 0
    /\ call[c].pc = "answered" => spikes[c] = 1
Generated(c) ==
    /\ Once(c)
    /\ \/ One(lc[c].stack, SecondChannel) /\ Body(c) = "hand"
       \/ One(lc[c].stack, <<>>)
       \/ Two(lc[c].stack, SecondChannel, <<>>) /\ Body(c) = "hand"
       \/ Two(lc[c].stack, <<>>, <<>>)

Stage(c) == Parsing(c) \/ Classifying(c) \/ Generating(c) \/ Generated(c)

\* A main pass that never asks for the spike generator.
Quiet(c) ==
    /\ Fresh(c) /\ Len(lc[c].stack) = 1 /\ ~lc[c].stack[1].reflective
    /\ \A i \in DOMAIN lc[c].stack[1].todo :
          /\ lc[c].stack[1].todo[i] # "SpikeGeneratorWay2Think"
          /\ lc[c].request.type = "TrainingRequest" =>
                lc[c].stack[1].todo[i] \notin {"HandSpikeClassifierCritic",
                                               "DistanceSpikeClassifierCritic"}

Running(c) == lc[c].pc \in {"resources", "translating"}

\* Work that is late is of the last call: after it, none is made.
SafeInv(c) ==
    /\ spikes[c] \in {0, 1}
    /\ spikes[c] = 1 => Spiking(c) = {}
    /\ \A w \in Spiking(c) : w.id.ask = call[c].ask

SpikeInv(c) ==
    /\ SafeInv(c)
    /\ lc[c].pc \in {"new", "goal"} /\ lc[c].goal = 1 => Fresh(c)
    /\ lc[c].pc = "goal" /\ lc[c].goal = 1 =>
          lc[c].global.lastResult.kind = "KnowledgeString"
    /\ Running(c) /\ lc[c].main /\ Wants(c) => Stage(c)
    /\ Running(c) /\ lc[c].main /\ ~Wants(c) => Quiet(c)
    /\ Running(c) /\ ~lc[c].main => Settled(c)
    /\ lc[c].goal = 2 => Settled(c)

\* The current pass.
LEMMA CurrentIs ==
    ASSUME NEW st, NEW below, NEW todo
    PROVE  /\ One(st, todo) => Last(st).todo = todo
           /\ Two(st, below, todo) => Last(st).todo = todo
BY DEF One, Two, Last

\* One critic after the other.
LEMMA CriticsAre ==
    /\ AllCritics # <<>> /\ Head(AllCritics) = "UnderstandRequestCritic"
    /\ Tail(AllCritics) = BothChannels
    /\ BothChannels # <<>> /\ Head(BothChannels) = "HandSpikeClassifierCritic"
    /\ Tail(BothChannels) = SecondChannel
    /\ SecondChannel # <<>> /\ Head(SecondChannel) = "DistanceSpikeClassifierCritic"
    /\ Tail(SecondChannel) = <<>>
    /\ Head(<<"SpikeGeneratorWay2Think">>) = "SpikeGeneratorWay2Think"
    /\ Tail(<<"SpikeGeneratorWay2Think">>) = <<>>
BY DEF AllCritics, BothChannels, SecondChannel

\* The stack after an action of the main pass has replied.
LEMMA ResultOne ==
    ASSUME Shape, NEW c \in Clients, ClientInv(c), Result(c), NEW todo,
           One(lc[c].stack, todo)
    PROVE  LET r == call[c].reply.ctx.lastResult
           IN  IF r.kind = "SelectorRequest"
               THEN Two(lc'[c].stack, Tail(todo), Select(r))
               ELSE One(lc'[c].stack, Tail(todo))
<1> DEFINE st == lc[c].stack
           tt == lc'[c].stack
           r == call[c].reply.ctx.lastResult
           p == Pass(Select(r), TRUE)
<1>1. Len(st) = 1 /\ 1 + 1 = 2 /\ ~st[1].reflective /\ st[1].todo = todo
  BY DEF One
<1>2. Asks(st[1], call[c].reply.ctx) = r
  BY <1>1 DEF Asks
<1>3. p.todo = Select(r) /\ p.reflective
  BY DEF Pass
<1>4. Nests(c) \/ Collects(c)
  BY ResultIs DEF ClientInv
<1>5. CASE Nests(c)
  <2>1. /\ Asks(st[Len(st)], call[c].reply.ctx).kind = "SelectorRequest"
        /\ Len(tt) = Len(st) + 1
        /\ tt[Len(st) + 1] = Pass(Select(Asks(st[Len(st)], call[c].reply.ctx)), TRUE)
        /\ tt[Len(st)].todo = Tail(st[Len(st)].todo)
        /\ tt[Len(st)].reflective = st[Len(st)].reflective
    BY <1>5 DEF Nests
  <2> HIDE DEF st, tt, r
  <2>2. /\ r.kind = "SelectorRequest" /\ Len(tt) = 2 /\ tt[2] = p
        /\ tt[1].todo = Tail(todo) /\ ~tt[1].reflective
    BY <1>1, <1>2, <2>1, Zenon
  <2> HIDE DEF p
  <2>3. Two(tt, Tail(todo), Select(r))
    BY <1>3, <2>2, Zenon DEF Two
  <2>4. QED
    BY <2>2, <2>3, Zenon DEF tt, r
<1>6. CASE Collects(c)
  <2>1. /\ Asks(st[Len(st)], call[c].reply.ctx).kind # "SelectorRequest"
        /\ Len(tt) = Len(st)
        /\ tt[Len(st)].todo = Tail(st[Len(st)].todo)
        /\ tt[Len(st)].reflective = st[Len(st)].reflective
    BY <1>6 DEF Collects
  <2> HIDE DEF st, tt, r
  <2>2. /\ r.kind # "SelectorRequest" /\ Len(tt) = 1
        /\ tt[1].todo = Tail(todo) /\ ~tt[1].reflective
    BY <1>1, <1>2, <2>1, Zenon
  <2>3. One(tt, Tail(todo))
    BY <2>2, Zenon DEF One
  <2>4. QED
    BY <2>2, <2>3, Zenon DEF tt, r
<1>7. QED
  BY <1>4, <1>5, <1>6

\* The stack after an action of the nested pass has replied and asks for nothing.
LEMMA ResultTwo ==
    ASSUME Shape, NEW c \in Clients, ClientInv(c), Result(c), NEW below, NEW todo,
           Two(lc[c].stack, below, todo), call[c].reply.ctx.lastReflectiveResult = None
    PROVE  Two(lc'[c].stack, below, Tail(todo))
<1> DEFINE st == lc[c].stack
           tt == lc'[c].stack
<1>1. /\ Len(st) = 2 /\ 1 \in 1 .. 2 - 1
      /\ ~st[1].reflective /\ st[1].todo = below /\ st[2].reflective /\ st[2].todo = todo
  BY DEF Two
<1>2. Asks(st[2], call[c].reply.ctx) = None
  BY <1>1 DEF Asks
<1>3. Collects(c)
  <2>1. Nests(c) \/ Collects(c)
    BY ResultIs DEF ClientInv
  <2>2. Nests(c) => Asks(st[Len(st)], call[c].reply.ctx).kind = "SelectorRequest"
    BY DEF Nests
  <2>3. Asks(st[Len(st)], call[c].reply.ctx).kind = "None"
    <3> HIDE DEF st
    <3>1. QED
      BY <1>1, <1>2, NoneIs, Zenon
  <2>4. QED
    BY <2>1, <2>2, <2>3
<1>4. /\ Len(tt) = Len(st) /\ tt[Len(st)].todo = Tail(st[Len(st)].todo)
      /\ tt[Len(st)].reflective = st[Len(st)].reflective
      /\ \A i \in 1 .. Len(st) - 1 : tt[i] = st[i]
  BY <1>3 DEF Collects
<1> HIDE DEF st, tt
<1>5. /\ Len(tt) = 2 /\ tt[2].todo = Tail(todo) /\ tt[2].reflective /\ tt[1] = st[1]
  BY <1>1, <1>4, Zenon
<1>6. Two(tt, below, Tail(todo))
  BY <1>1, <1>5, Zenon DEF Two
<1>7. QED
  BY <1>6 DEF tt

\* The reply of the action that was to run.
LEMMA ReplyOf ==
    ASSUME Shape, NEW c \in Clients, ClientInv(c), Result(c), NEW below, NEW todo,
           One(lc[c].stack, todo) \/ Two(lc[c].stack, below, todo)
    PROVE  /\ call[c].reply.ok /\ call[c].reply \in ActionReplies(Head(todo), lc[c].global)
           /\ Head(todo) \in Classes
           /\ lc[c].global \in ContextsOf(c, Body(c)) /\ Body(c) \in Texts
<1>1. Last(lc[c].stack).todo = todo
  BY CurrentIs
<1>2. QED
  BY <1>1, ReplyIs, BodyIs

\* Frames are never lost when a result is merged.
LEMMA FramesGrow ==
    ASSUME Shape, NEW c \in Clients, ClientInv(c), Result(c)
    PROVE  /\ lc[c].global.frames \subseteq lc'[c].global.frames
           /\ call[c].reply.ctx.frames \subseteq lc'[c].global.frames
<1>1. /\ lc'[c].global = MergeWithBase(lc[c].global, call[c].reply.ctx)
      /\ call[c].reply.ctx \in ContextsOf(c, Body(c))
  BY ResultIs DEF ClientInv
<1>2. lc[c].global \in ContextsOf(c, Body(c))
  BY DEF Shape, LifeCyclesOf
<1>3. QED
  BY <1>1, <1>2, MergeWithBaseIs

\* A request for the spike generator selects it.
LEMMA SpikesAreSelected ==
    ASSUME NEW c
    PROVE  /\ SpikeGeneratorRequest(c).kind = "SelectorRequest"
           /\ Select(SpikeGeneratorRequest(c)) = <<"SpikeGeneratorWay2Think">>
<1>1. /\ SpikeGeneratorRequest(c).kind = "SelectorRequest"
      /\ SpikeGeneratorRequest(c).body = "SpikeGeneratorWay2Think"
  BY DEF SpikeGeneratorRequest, Resource
<1>2. "SpikeGeneratorWay2Think" \in Selectable
  BY DEF Selectable, Classes
<1>3. QED
  BY <1>1, <1>2 DEF Select

\* The data are parsed.
LEMMA ParsingResult ==
    ASSUME Shape, NEW c \in Clients, ClientInv(c), Result(c), Wants(c), Parsing(c)
    PROVE  One(lc'[c].stack, BothChannels) /\ Container(c) \in lc'[c].global.frames
<1> DEFINE g == lc[c].global
           reply == call[c].reply
<1>1. One(lc[c].stack, AllCritics) /\ g.lastResult.kind = "KnowledgeString"
  BY DEF Parsing
<1>2. /\ reply.ok /\ reply \in ActionReplies("UnderstandRequestCritic", g)
      /\ g \in ContextsOf(c, Body(c)) /\ Body(c) \in Texts
  BY <1>1, ReplyOf, CriticsAre
<1>3. reply \in UnderstandRequestCritic(g)
  BY <1>2 DEF ActionReplies
<1>4. Body(c) \in Channels
  BY DEF Wants, Channels
<1>5. reply.ctx.lastResult.kind # "SelectorRequest" /\ Container(c) \in reply.ctx.frames
  BY <1>1, <1>2, <1>3, <1>4, UnderstandIs DEF Container
<1>6. One(lc'[c].stack, BothChannels)
  BY <1>1, <1>5, ResultOne, CriticsAre
<1>7. QED
  BY <1>5, <1>6, FramesGrow

\* A critic of the channels lets the data of the other channel pass.
LEMMA OtherChannel ==
    ASSUME Shape, NEW c \in Clients, ClientInv(c), Result(c), NEW todo,
           One(lc[c].stack, todo),
           \/ Head(todo) = "HandSpikeClassifierCritic" /\ Body(c) # "hand"
           \/ Head(todo) = "DistanceSpikeClassifierCritic" /\ Body(c) # "distance"
    PROVE  One(lc'[c].stack, Tail(todo))
<1> DEFINE g == lc[c].global
           reply == call[c].reply
<1>1. /\ reply.ok /\ reply \in ActionReplies(Head(todo), g) /\ Head(todo) \in Classes
      /\ g \in ContextsOf(c, Body(c)) /\ Body(c) \in Texts
  BY ReplyOf
<1>2. reply.ctx.lastResult.kind # "SelectorRequest"
  BY <1>1, ActionsAre
<1>3. QED
  BY <1>2, ResultOne

\* The critic of the channel asks for the spike generator.
LEMMA OwnChannel ==
    ASSUME Shape, NEW c \in Clients, ClientInv(c), Result(c), NEW todo,
           One(lc[c].stack, todo), Container(c) \in lc[c].global.frames,
           \/ Head(todo) = "HandSpikeClassifierCritic" /\ Body(c) = "hand"
           \/ Head(todo) = "DistanceSpikeClassifierCritic" /\ Body(c) = "distance"
    PROVE  Two(lc'[c].stack, Tail(todo), <<"SpikeGeneratorWay2Think">>)
<1> DEFINE g == lc[c].global
           reply == call[c].reply
<1>1. /\ reply.ok /\ reply \in ActionReplies(Head(todo), g)
      /\ g \in ContextsOf(c, Body(c))
  BY ReplyOf
<1>2. reply \in Classify(g, Body(c))
  <2>1. CASE Head(todo) = "HandSpikeClassifierCritic" /\ Body(c) = "hand"
    BY <1>1, <2>1 DEF ActionReplies
  <2>2. CASE Head(todo) = "DistanceSpikeClassifierCritic" /\ Body(c) = "distance"
    BY <1>1, <2>2 DEF ActionReplies
  <2>3. QED
    BY <2>1, <2>2
<1>3. reply.ctx.lastResult = SpikeGeneratorRequest(c)
  BY <1>1, <1>2, ClassifyIs DEF Container
<1>4. QED
  BY <1>3, ResultOne, SpikesAreSelected

\* The critics of the channels: that of the data's channel asks for the spike generator.
LEMMA ClassifyingResult ==
    ASSUME Shape, NEW c \in Clients, ClientInv(c), Result(c), Wants(c), Classifying(c)
    PROVE  /\ \/ Two(lc'[c].stack, SecondChannel, <<"SpikeGeneratorWay2Think">>)
                    /\ Body(c) = "hand"
              \/ Two(lc'[c].stack, <<>>, <<"SpikeGeneratorWay2Think">>)
              \/ One(lc'[c].stack, SecondChannel) /\ Body(c) # "hand"
           /\ Container(c) \in lc'[c].global.frames
<1>1. Container(c) \in lc[c].global.frames /\ Container(c) \in lc'[c].global.frames
  BY FramesGrow DEF Classifying
<1>2. CASE One(lc[c].stack, BothChannels) /\ Body(c) = "hand"
  BY <1>1, <1>2, OwnChannel, CriticsAre
<1>3. CASE One(lc[c].stack, BothChannels) /\ Body(c) # "hand"
  BY <1>1, <1>3, OtherChannel, CriticsAre
<1>4. CASE One(lc[c].stack, SecondChannel) /\ Body(c) # "hand"
  <2>1. Body(c) = "distance"
    BY <1>4 DEF Wants
  <2>2. QED
    BY <1>1, <1>4, <2>1, OwnChannel, CriticsAre
<1>5. QED
  BY <1>2, <1>3, <1>4 DEF Classifying

\* The spike generator has replied: it has run.
LEMMA GeneratingResult ==
    ASSUME Shape, NEW c \in Clients, ClientInv(c), Result(c), Generating(c)
    PROVE  /\ spikes[c] = 1
           /\ \/ Two(lc'[c].stack, SecondChannel, <<>>) /\ Body(c) = "hand"
              \/ Two(lc'[c].stack, <<>>, <<>>)
<1> DEFINE sg == <<"SpikeGeneratorWay2Think">>
<1>1. spikes[c] = 1
  BY DEF Result, Generating
<1>2. Two(lc[c].stack, SecondChannel, sg) \/ Two(lc[c].stack, <<>>, sg)
  BY DEF Generating
<1>3. /\ call[c].reply \in ActionReplies("SpikeGeneratorWay2Think", lc[c].global)
      /\ call[c].reply.ok
  BY <1>2, ReplyOf, CriticsAre
<1>4. call[c].reply \in {Success(EmptyContext), Failure}
  BY <1>3 DEF ActionReplies, SpikeGeneratorWay2Think
<1>5. call[c].reply.ctx.lastReflectiveResult = None
  BY <1>3, <1>4 DEF Success, Failure, EmptyContext
<1>6. ASSUME NEW below, Two(lc[c].stack, below, sg)
      PROVE  Two(lc'[c].stack, below, <<>>)
  BY <1>5, <1>6, ResultTwo, CriticsAre
<1>7. QED
  BY <1>1, <1>6 DEF Generating

\* The other critic has nothing to say about data that went to the spike generator.
LEMMA GeneratedResult ==
    ASSUME Shape, NEW c \in Clients, ClientInv(c), Result(c), Generated(c)
    PROVE  One(lc'[c].stack, <<>>)
<1>1. Last(lc[c].stack).todo # <<>>
  BY DEF ClientInv, PassInv, Result
<1>2. One(lc[c].stack, SecondChannel) /\ Body(c) = "hand"
  BY <1>1, CurrentIs DEF Generated
<1>3. QED
  BY <1>2, OtherChannel, CriticsAre

\* Other requests never ask for the spike generator.
LEMMA QuietResult ==
    ASSUME Shape, NEW c \in Clients, ClientInv(c), Result(c), ~Wants(c), Quiet(c)
    PROVE  One(lc'[c].stack, Tail(lc[c].stack[1].todo))
<1> DEFINE todo == lc[c].stack[1].todo
<1>1. One(lc[c].stack, todo)
  BY DEF Quiet, One
<1>2. /\ call[c].reply.ok /\ call[c].reply \in ActionReplies(Head(todo), lc[c].global)
      /\ Head(todo) \in Classes
      /\ lc[c].global \in ContextsOf(c, Body(c)) /\ Body(c) \in Texts
  BY <1>1, ReplyOf
<1>3. todo # <<>> /\ todo \in Seq(Classes)
  <2>1. Last(lc[c].stack).todo # <<>>
    BY DEF ClientInv, PassInv, Result
  <2>2. lc[c].stack \in Seq(PassesOf(c, Body(c))) /\ Len(lc[c].stack) = 1
    BY DEF Shape, LifeCyclesOf, Quiet
  <2>3. lc[c].stack[1] \in PassesOf(c, Body(c))
    BY <2>2
  <2>4. QED
    BY <1>1, <2>1, <2>3, CurrentIs DEF PassesOf
<1>4. Head(todo) = todo[1] /\ 1 \in DOMAIN todo
  <2> HIDE DEF todo
  <2>1. QED
    BY <1>3
<1>5. call[c].reply.ctx.lastResult.kind # "SelectorRequest"
  <2>1. lc[c].request.type = "TrainingRequest" =>
            Head(todo) \notin {"HandSpikeClassifierCritic", "DistanceSpikeClassifierCritic"}
    BY <1>4 DEF Quiet
  <2>2. lc[c].request.type = "TrainingRequest" \/ Body(c) \notin {"hand", "distance"}
    BY DEF Wants
  <2>3. QED
    BY <1>2, <2>1, <2>2, ActionsAre
<1>6. QED
  BY <1>1, <1>5, ResultOne

\* Between two resources no work of the spike generator is left.
LEMMA CalmBetween ==
    ASSUME NEW c \in Clients, lc[c].main \in BOOLEAN, SpikeInv(c), lc[c].pc = "resources"
    PROVE  Spiking(c) = {}
BY DEF SpikeInv, Running, Stage, Parsing, Classifying, Generating, Generated, Quiet, Fresh,
       Once, Settled

\* What the steps of a life cycle leave alone.
LEMMA SameSpikes ==
    ASSUME NEW c \in Clients, Moves(c), work' = work, spikes' = spikes
    PROVE  /\ Spiking(c)' = Spiking(c) /\ Body(c)' = Body(c) /\ Container(c)' = Container(c)
           /\ Fresh(c)' = Fresh(c) /\ Once(c)' = Once(c)
           /\ Wants(c)' = Wants(c) /\ Settled(c)' = Settled(c)
<1>1. Spiking(c)' = Spiking(c)
  BY DEF Spiking
<1>2. Body(c)' = Body(c) /\ lc'[c].request = lc[c].request
  BY DEF Moves, Body
<1>3. Fresh(c)' = Fresh(c) /\ Once(c)' = Once(c)
  BY <1>1 DEF Fresh, Once
<1>4. Wants(c)' = Wants(c)
  BY <1>2 DEF Wants
<1>5. QED
  BY <1>1, <1>2, <1>3, <1>4 DEF Container, Settled

\* The main pass goes from stage to stage when a resource is done.
LEMMA StageResult ==
    ASSUME Shape, NEW c \in Clients, ClientInv(c), SpikeInv(c), Result(c), Moves(c),
           work' = work, spikes' = spikes, lc'[c].pc = "resources", call'[c].pc = "idle",
           Wants(c), Stage(c)
    PROVE  Stage(c)'
<1>1. /\ Spiking(c)' = Spiking(c) /\ Body(c)' = Body(c) /\ Container(c)' = Container(c)
      /\ Fresh(c)' = Fresh(c) /\ Once(c)' = Once(c)
  BY SameSpikes
<1>2. CASE Parsing(c)
  <2>1. One(lc'[c].stack, BothChannels) /\ Container(c) \in lc'[c].global.frames
    BY <1>2, ParsingResult
  <2>2. Classifying(c)'
    BY <1>1, <1>2, <2>1 DEF Parsing, Classifying
  <2>3. QED
    BY <2>2 DEF Stage
<1>3. CASE Classifying(c)
  <2>1. /\ \/ Two(lc'[c].stack, SecondChannel, <<"SpikeGeneratorWay2Think">>)
                 /\ Body(c) = "hand"
           \/ Two(lc'[c].stack, <<>>, <<"SpikeGeneratorWay2Think">>)
           \/ One(lc'[c].stack, SecondChannel) /\ Body(c) # "hand"
        /\ Container(c) \in lc'[c].global.frames
    BY <1>3, ClassifyingResult
  <2>2. Fresh(c)'
    BY <1>1, <1>3 DEF Classifying
  <2>3. Classifying(c)' \/ Generating(c)'
    BY <1>1, <2>1, <2>2 DEF Classifying, Generating
  <2>4. QED
    BY <2>3 DEF Stage
<1>4. CASE Generating(c)
  <2>1. /\ spikes[c] = 1
        /\ \/ Two(lc'[c].stack, SecondChannel, <<>>) /\ Body(c) = "hand"
           \/ Two(lc'[c].stack, <<>>, <<>>)
    BY <1>4, GeneratingResult
  <2>2. Once(c)
    BY <2>1 DEF SpikeInv, SafeInv, Once
  <2>3. Generated(c)'
    BY <1>1, <2>1, <2>2 DEF Generated
  <2>4. QED
    BY <2>3 DEF Stage
<1>5. CASE Generated(c)
  <2>1. One(lc'[c].stack, <<>>) /\ Once(c)
    BY <1>5, GeneratedResult DEF Generated
  <2>2. Generated(c)'
    BY <1>1, <2>1 DEF Generated
  <2>3. QED
    BY <2>2 DEF Stage
<1>6. QED
  BY <1>2, <1>3, <1>4, <1>5 DEF Stage

\* A nested pass ends when the spike generator has run.
LEMMA StageEndNested ==
    ASSUME Shape, NEW c \in Clients, EndNestedPass(c), Moves(c),
           work' = work, spikes' = spikes, Stage(c)
    PROVE  Stage(c)'
<1> DEFINE st == lc[c].stack
           tt == lc'[c].stack
<1>1. /\ Len(st) > 1 /\ st[Len(st)].todo = <<>> /\ HandsDown(st, tt)
  BY EndNestedIs
<1>2. st \in Seq(PassesOf(c, Body(c)))
  BY DEF Shape, LifeCyclesOf
<1>3. HandedDown(st, tt)
  <2> HIDE DEF st, tt
  <2>1. QED
    BY <1>1, <1>2, StackAfterNested
<1>4. ~One(st, AllCritics) /\ ~One(st, BothChannels) /\ ~One(st, SecondChannel)
      /\ ~One(st, <<>>)
  BY <1>1 DEF One
<1>5. /\ ~Two(st, SecondChannel, <<"SpikeGeneratorWay2Think">>)
      /\ ~Two(st, <<>>, <<"SpikeGeneratorWay2Think">>)
  <2>1. Last(st).todo = <<>>
    BY <1>1 DEF Last
  <2>2. QED
    BY <2>1, CurrentIs
<1>6. /\ Once(c)
      /\ \/ Two(st, SecondChannel, <<>>) /\ Body(c) = "hand"
         \/ Two(st, <<>>, <<>>)
  BY <1>4, <1>5 DEF Stage, Parsing, Classifying, Generating, Generated
<1>7. ASSUME NEW below, Two(st, below, <<>>) PROVE One(tt, below)
  <2>1. /\ Len(st) = 2 /\ 2 - 1 = 1 /\ ~st[1].reflective /\ st[1].todo = below
    BY <1>7 DEF Two
  <2>2. /\ Len(tt) = Len(st) - 1 /\ tt[Len(st) - 1].todo = st[Len(st) - 1].todo
        /\ tt[Len(st) - 1].reflective = st[Len(st) - 1].reflective
    BY <1>3 DEF HandedDown
  <2> HIDE DEF st, tt
  <2>3. Len(tt) = 1 /\ tt[1].todo = below /\ ~tt[1].reflective
    BY <2>1, <2>2, Zenon
  <2>4. QED
    BY <2>3, Zenon DEF One
<1>8. Once(c)' /\ Body(c)' = Body(c)
  BY <1>6, SameSpikes
<1>9. Generated(c)'
  BY <1>6, <1>7, <1>8 DEF Generated
<1>10. QED
  BY <1>9 DEF Stage

\* The resources a quiet pass has left.
LEMMA QuietRest ==
    ASSUME Shape, NEW c \in Clients, ClientInv(c), Result(c), Moves(c),
           work' = work, spikes' = spikes, ~Wants(c), Quiet(c)
    PROVE  Quiet(c)'
<1> DEFINE todo == lc[c].stack[1].todo
           rest == lc'[c].stack[1].todo
<1>1. Len(lc'[c].stack) = 1 /\ ~lc'[c].stack[1].reflective /\ rest = Tail(todo)
  BY QuietResult DEF One
<1>2. todo # <<>> /\ todo \in Seq(Classes)
  <2>1. Last(lc[c].stack).todo # <<>>
    BY DEF ClientInv, PassInv, Result
  <2>2. lc[c].stack \in Seq(PassesOf(c, Body(c))) /\ Len(lc[c].stack) = 1
    BY DEF Shape, LifeCyclesOf, Quiet
  <2>3. lc[c].stack[1] \in PassesOf(c, Body(c)) /\ Last(lc[c].stack) = lc[c].stack[1]
    BY <2>2 DEF Last
  <2>4. QED
    BY <2>1, <2>3 DEF PassesOf
<1>3. \A i \in DOMAIN rest : i + 1 \in DOMAIN todo /\ rest[i] = todo[i + 1]
  <2> HIDE DEF todo, rest
  <2>1. QED
    BY <1>1, <1>2
<1>4. Fresh(c)' /\ lc'[c].request = lc[c].request
  BY SameSpikes DEF Quiet, Moves
<1>5. ASSUME NEW i \in DOMAIN rest
      PROVE  /\ rest[i] # "SpikeGeneratorWay2Think"
             /\ lc[c].request.type = "TrainingRequest" =>
                   rest[i] \notin {"HandSpikeClassifierCritic",
                                   "DistanceSpikeClassifierCritic"}
  BY <1>3, <1>5 DEF Quiet
<1>6. QED
  BY <1>1, <1>4, <1>5 DEF Quiet

\* The main pass starts.
LEMMA StageStart ==
    ASSUME NEW c \in Clients, Moves(c), work' = work, spikes' = spikes,
           lc'[c].stack = <<Pass(Resources(lc[c].request), FALSE)>>, Fresh(c),
           lc'[c].global.lastResult.kind = "KnowledgeString"
    PROVE  /\ Wants(c) => Stage(c)'
           /\ ~Wants(c) => Quiet(c)'
<1> DEFINE q == lc[c].request
           p == Pass(Resources(q), FALSE)
<1>1. p.todo = Resources(q) /\ ~p.reflective
  BY DEF Pass
<1>2. Fresh(c)' /\ lc'[c].request = q
  BY SameSpikes DEF Moves
<1> HIDE DEF p
<1>3. Len(<<p>>) = 1 /\ <<p>>[1] = p
  OBVIOUS
<1>4. /\ q.type # "TrainingRequest" => Resources(q) = AllCritics
      /\ q.type = "TrainingRequest" =>
            Resources(q) = <<"PreliminarySplitter", "KBAnnotatorImpl", "LinkParser",
                             "CorrelationWay2Think">>
  BY GoalIs DEF AllCritics
<1>5. ASSUME Wants(c) PROVE Stage(c)'
  <2>1. One(<<p>>, AllCritics)
    BY <1>1, <1>3, <1>4, <1>5 DEF One, Wants
  <2>2. Parsing(c)'
    BY <1>2, <2>1 DEF Parsing, p
  <2>3. QED
    BY <2>2 DEF Stage
<1>6. Quiet(c)'
  <2>1. Len(lc'[c].stack) = 1 /\ lc'[c].stack[1] = p
    BY <1>3 DEF p
  <2>2. ASSUME NEW i \in DOMAIN p.todo
        PROVE  /\ p.todo[i] # "SpikeGeneratorWay2Think"
               /\ q.type = "TrainingRequest" =>
                     p.todo[i] \notin {"HandSpikeClassifierCritic",
                                       "DistanceSpikeClassifierCritic"}
    <3>1. CASE q.type = "TrainingRequest"
      BY <1>1, <1>4, <2>2, <3>1
    <3>2. CASE q.type # "TrainingRequest"
      BY <1>1, <1>4, <2>2, <3>2 DEF AllCritics
    <3>3. QED
      BY <3>1, <3>2
  <2>3. QED
    BY <1>1, <1>2, <2>1, <2>2 DEF Quiet
<1>7. QED
  BY <1>5, <1>6

\* The main pass is over: the spike generator has run, or was never asked for.
LEMMA StageEnd ==
    ASSUME NEW c \in Clients, Len(lc[c].stack) = 1, lc[c].stack[1].todo = <<>>,
           Wants(c) => Stage(c), ~Wants(c) => Quiet(c)
    PROVE  Settled(c)
<1>1. Last(lc[c].stack).todo = <<>>
  BY DEF Last
<1>2. ASSUME Wants(c) PROVE Once(c)
  <2>1. ~Parsing(c)
    BY <1>1, CurrentIs, CriticsAre DEF Parsing
  <2>2. ~Classifying(c)
    BY <1>1, CurrentIs, CriticsAre DEF Classifying
  <2>3. ~Generating(c)
    BY <1>1, CurrentIs DEF Generating
  <2>4. QED
    BY <1>2, <2>1, <2>2, <2>3 DEF Stage, Generated
<1>3. ASSUME ~Wants(c) PROVE Fresh(c)
  BY <1>3 DEF Quiet
<1>4. QED
  BY <1>2, <1>3 DEF Settled

\* A call starts: the stage stays.
LEMMA StageTranslate ==
    ASSUME NEW c \in Clients, Moves(c), work' = work, spikes' = spikes,
           lc[c].pc = "resources", lc'[c].pc = "translating",
           lc'[c].stack = lc[c].stack, lc'[c].global = lc[c].global,
           call'[c].pc = "waiting"
    PROVE  (Stage(c) => Stage(c)') /\ (Quiet(c) => Quiet(c)')
<1>1. /\ Body(c)' = Body(c) /\ Container(c)' = Container(c)
      /\ Fresh(c)' = Fresh(c) /\ Once(c)' = Once(c) /\ lc'[c].request = lc[c].request
  BY SameSpikes DEF Moves
<1>2. Parsing(c) => Parsing(c)'
  BY <1>1 DEF Parsing
<1>3. Classifying(c) => Classifying(c)'
  BY <1>1 DEF Classifying
<1>4. ASSUME Generating(c) PROVE Generating(c)'
  <2>1. spikes'[c] = 0
    BY <1>4 DEF Generating, Fresh
  <2>2. QED
    BY <1>1, <1>4, <2>1 DEF Generating
<1>5. Generated(c) => Generated(c)'
  BY <1>1 DEF Generated
<1>6. Quiet(c) => Quiet(c)'
  BY <1>1 DEF Quiet
<1>7. QED
  BY <1>2, <1>3, <1>4, <1>5, <1>6 DEF Stage

\* The steps of a life cycle.
LEMMA SpikeLifeCycle ==
    ASSUME Shape, NEW c \in Clients, ClientInv(c), SpikeInv(c), LifeCycle(c)
    PROVE  SpikeInv(c)'
<1>0. /\ PassInv(c) /\ ReportsInv(c) /\ ModelInv(c) /\ lc[c].main \in BOOLEAN
      /\ lc[c].goal \in {1, 2}
  BY DEF ClientInv, Shape, LifeCyclesOf
<1>00. /\ lc[c].pc = "new" => lc[c].goal = 1
       /\ lc[c].pc \in {"resources", "translating"} => lc[c].goal = 1 /\ lc[c].stack # <<>>
  BY <1>0 DEF PassInv
<1>a. Moves(c) /\ work' = work /\ spikes' = spikes
  BY LifeCycleIs
<1>b. /\ Spiking(c)' = Spiking(c) /\ Fresh(c)' = Fresh(c) /\ Wants(c)' = Wants(c)
      /\ Settled(c)' = Settled(c)
  BY <1>a, SameSpikes
<1>c. call'[c].ask = call[c].ask \/ Spiking(c) = {} => SafeInv(c)'
  BY <1>a, <1>b DEF SpikeInv, SafeInv
<1>1. CASE Start(c)
  <2>1. /\ lc[c].pc = "new" /\ lc'[c].pc = "goal" /\ lc'[c].goal = lc[c].goal
        /\ lc'[c].global.lastResult.kind = "KnowledgeString"
    BY <1>1, StartIs
  <2>2. SafeInv(c)'
    BY <1>1, <1>c DEF Start, service
  <2>3. QED
    BY <1>00, <1>b, <2>1, <2>2 DEF SpikeInv, Running
<1>2. CASE StartGoal(c)
  <2>1. /\ lc[c].pc = "goal" /\ lc[c].goal = 1 /\ lc'[c].pc = "resources"
        /\ lc'[c].goal = 1 /\ lc'[c].main = TRUE
        /\ lc'[c].stack = <<Pass(Resources(lc[c].request), FALSE)>>
        /\ lc'[c].global = lc[c].global
    BY <1>2, StartGoalIs
  <2>2. SafeInv(c)'
    BY <1>2, <1>c DEF StartGoal, service
  <2>3. Fresh(c) /\ lc[c].global.lastResult.kind = "KnowledgeString"
    BY <2>1 DEF SpikeInv
  <2>4. (Wants(c) => Stage(c)') /\ (~Wants(c) => Quiet(c)')
    BY <1>a, <2>1, <2>3, StageStart
  <2>5. QED
    BY <1>b, <2>1, <2>2, <2>4 DEF SpikeInv, Running
<1>3. CASE Translate(c)
  <2>1. /\ lc[c].pc = "resources" /\ lc'[c].pc = "translating" /\ lc'[c].goal = lc[c].goal
        /\ lc'[c].main = lc[c].main /\ lc'[c].stack = lc[c].stack
        /\ lc'[c].global = lc[c].global /\ call'[c].pc = "waiting"
    BY <1>00, <1>3, TranslateIs
  <2>2. SafeInv(c)'
    BY <1>0, <1>c, <2>1, CalmBetween
  <2>3. (Stage(c) => Stage(c)') /\ (Quiet(c) => Quiet(c)')
    BY <1>a, <2>1, StageTranslate
  <2>4. QED
    BY <1>00, <1>b, <2>1, <2>2, <2>3 DEF SpikeInv, Running
<1>4. CASE Result(c)
  <2>1. /\ lc[c].pc = "translating" /\ lc'[c].pc = "resources" /\ lc'[c].goal = lc[c].goal
        /\ lc'[c].main = lc[c].main /\ call'[c].pc = "idle" /\ call'[c].ask = call[c].ask
    BY <1>0, <1>4, ResultIs
  <2>2. SafeInv(c)'
    BY <1>c, <2>1
  <2>3. Wants(c) /\ Stage(c) => Stage(c)'
    BY <1>4, <1>a, <2>1, StageResult
  <2>4. ~Wants(c) /\ Quiet(c) => Quiet(c)'
    BY <1>4, <1>a, QuietRest
  <2>5. QED
    BY <1>00, <1>b, <2>1, <2>2, <2>3, <2>4 DEF SpikeInv, Running
<1>5. CASE Throw(c)
  <2>1. /\ lc[c].pc = "translating" /\ lc'[c].pc = "failed" /\ lc'[c].goal = lc[c].goal
        /\ call'[c].ask = call[c].ask
    BY <1>5, ThrowIs
  <2>2. QED
    BY <1>00, <1>c, <2>1 DEF SpikeInv, Running
<1>6. CASE EndNestedPass(c)
  <2>1. /\ lc[c].pc = "resources" /\ lc'[c].pc = "resources" /\ lc'[c].goal = lc[c].goal
        /\ lc'[c].main = lc[c].main /\ Len(lc[c].stack) > 1
    BY <1>6, EndNestedIs
  <2>2. SafeInv(c)'
    BY <1>c, <1>6 DEF EndNestedPass, service
  <2>3. Stage(c) => Stage(c)'
    BY <1>6, <1>a, StageEndNested
  <2>4. ~Quiet(c)
    <3>1. Quiet(c) => Len(lc[c].stack) = 1
      BY Zenon DEF Quiet
    <3>2. Len(lc[c].stack) # 1
      <4> DEFINE n == Len(lc[c].stack)
      <4>1. n > 1
        BY <2>1
      <4> HIDE DEF n
      <4>2. n # 1
        BY <4>1
      <4>3. QED
        BY <4>2 DEF n
    <3>3. QED
      BY <3>1, <3>2, Zenon
  <2>5. QED
    BY <1>00, <1>b, <2>1, <2>2, <2>3, <2>4 DEF SpikeInv, Running
<1>7. CASE StartReflection(c)
  <2>1. /\ lc[c].pc = "resources" /\ lc'[c].pc = "resources" /\ lc'[c].goal = lc[c].goal
        /\ lc[c].main /\ lc'[c].main = FALSE
        /\ Len(lc[c].stack) = 1 /\ lc[c].stack[1].todo = <<>>
    BY <1>0, <1>7, StartReflectionIs
  <2>2. SafeInv(c)'
    BY <1>c, <1>7 DEF StartReflection, service
  <2>3. Settled(c)
    BY <2>1, StageEnd DEF SpikeInv, Running
  <2>4. QED
    BY <1>00, <1>b, <2>1, <2>2, <2>3 DEF SpikeInv, Running
<1>8. CASE EndGoal(c)
  <2>1. /\ lc[c].pc = "resources" /\ lc'[c].pc = "goal" /\ ~lc[c].main /\ lc'[c].goal = 2
    BY <1>0, <1>00, <1>8, EndGoalIs
  <2>2. SafeInv(c)'
    BY <1>c, <1>8 DEF EndGoal, service
  <2>3. QED
    BY <1>b, <2>1, <2>2 DEF SpikeInv, Running
<1>9. CASE EndRun(c)
  <2>1. /\ lc[c].goal = 2 /\ lc'[c].goal = 2 /\ lc'[c].pc \in {"done", "learn", "failed"}
    BY <1>9, EndRunIs
  <2>2. SafeInv(c)'
    BY <1>c, <1>9 DEF EndRun, service
  <2>3. QED
    BY <1>b, <2>1, <2>2 DEF SpikeInv, Running
<1>10. CASE Learn(c)
  <2>1. lc[c].pc = "learn"
    BY <1>10 DEF Learn
  <2>2. lc[c].global.lastResult.kind = "ConceptNetwork"
    BY <1>0, <2>1 DEF ModelInv
  <2>3. lc'[c].pc = "store" /\ lc'[c].goal = lc[c].goal
    BY <1>10, <2>2, LearnIs
  <2>4. SafeInv(c)'
    BY <1>c, <1>10 DEF Learn, service
  <2>5. QED
    BY <1>b, <2>3, <2>4 DEF SpikeInv, Running
<1>11. CASE StoreNodes(c) \/ SaveModel(c) \/ SaveModelThrows(c)
  <2>1. lc'[c].pc \in {"save", "done", "unsaved"} /\ lc'[c].goal = lc[c].goal
    BY <1>11, WriteIs
  <2>2. SafeInv(c)'
    BY <1>c, <1>11 DEF StoreNodes, SaveModel, SaveModelThrows, service
  <2>3. QED
    BY <1>b, <2>1, <2>2 DEF SpikeInv, Running
<1>12. QED
  BY <1>1, <1>2, <1>3, <1>4, <1>5, <1>6, <1>7, <1>8, <1>9, <1>10, <1>11 DEF LifeCycle

\* A call of a main or reflective pass is for the spike generator only when it was asked for.
LEMMA SpikeCall ==
    ASSUME Shape, NEW c \in Clients, ClientInv(c), HelpInv(c), SpikeInv(c),
           lc[c].pc = "translating", call[c].class = "SpikeGeneratorWay2Think"
    PROVE  lc[c].main /\ Wants(c) /\ Generating(c)
<1>1. /\ Last(lc[c].stack).todo # <<>> /\ Head(Last(lc[c].stack).todo) = "SpikeGeneratorWay2Think"
      /\ Running(c)
  BY DEF ClientInv, PassInv, Running
<1>2. lc[c].main
  BY <1>1, StageIs DEF HelpInv
<1>3. ASSUME ~Wants(c) PROVE FALSE
  <2> DEFINE todo == lc[c].stack[1].todo
  <2>1. Quiet(c)
    BY <1>1, <1>2, <1>3 DEF SpikeInv
  <2>2. lc[c].stack \in Seq(PassesOf(c, Body(c))) /\ Len(lc[c].stack) = 1
    BY <2>1 DEF Shape, LifeCyclesOf, Quiet
  <2>3. lc[c].stack[1] \in PassesOf(c, Body(c)) /\ Last(lc[c].stack) = lc[c].stack[1]
    BY <2>2 DEF Last
  <2>4. todo # <<>> /\ todo \in Seq(Classes) /\ Head(todo) = "SpikeGeneratorWay2Think"
    BY <1>1, <2>3 DEF PassesOf
  <2>5. todo[1] = "SpikeGeneratorWay2Think" /\ 1 \in DOMAIN todo
    <3> HIDE DEF todo
    <3>1. QED
      BY <2>4
  <2>6. QED
    BY <2>1, <2>5 DEF Quiet
<1>4. Stage(c)
  BY <1>1, <1>2, <1>3 DEF SpikeInv
<1>5. ~Parsing(c)
  BY <1>1, CurrentIs, CriticsAre DEF Parsing
<1>6. ~Classifying(c)
  BY <1>1, CurrentIs, CriticsAre DEF Classifying
<1>7. ~Generated(c)
  BY <1>1, CurrentIs, CriticsAre DEF Generated
<1>8. QED
  BY <1>2, <1>3, <1>4, <1>5, <1>6, <1>7 DEF Stage

\* What a step of the service has to leave as it is, if it is not one of the spike generator.
LEMMA SpikeSame ==
    ASSUME NEW c \in Clients, SpikeInv(c), lc' = lc, spikes'[c] = spikes[c],
           Spiking(c)' = Spiking(c), call'[c].ask = call[c].ask,
           \/ call'[c].pc = call[c].pc
           \/ call'[c].pc = "failed"
           \/ ~Generating(c)
    PROVE  SpikeInv(c)'
<1>1. /\ Body(c)' = Body(c) /\ Fresh(c)' = Fresh(c) /\ Once(c)' = Once(c)
  BY DEF Body, Fresh, Once
<1>2. Wants(c)' = Wants(c) /\ Container(c)' = Container(c)
  BY <1>1 DEF Wants, Container
<1>3. Settled(c)' = Settled(c)
  BY <1>1, <1>2 DEF Settled
<1>4. Parsing(c)' = Parsing(c) /\ Classifying(c)' = Classifying(c)
      /\ Generated(c)' = Generated(c) /\ Quiet(c)' = Quiet(c)
  BY <1>1, <1>2 DEF Parsing, Classifying, Generated, Quiet
<1>5. Generating(c) => Generating(c)'
  BY <1>1, <1>2 DEF Generating
<1>6. Stage(c) => Stage(c)'
  BY <1>4, <1>5 DEF Stage
<1>7. SafeInv(c)'
  BY DEF SpikeInv, SafeInv
<1>8. QED
  BY <1>1, <1>2, <1>3, <1>4, <1>6, <1>7 DEF SpikeInv, Running

\* The same for all that happens to other requests.
LEMMA SpikeFrame ==
    ASSUME NEW d \in Clients, Untouched(d), SpikeInv(d)
    PROVE  SpikeInv(d)'
<1>1. /\ lc'[d] = lc[d] /\ call'[d] = call[d] /\ spikes'[d] = spikes[d]
  BY DEF Untouched
<1>2. Spiking(d)' = Spiking(d)
  BY DEF Untouched, Spiking
<1>3. /\ Body(d)' = Body(d) /\ Fresh(d)' = Fresh(d) /\ Once(d)' = Once(d)
  BY <1>1, <1>2 DEF Body, Fresh, Once
<1>4. Wants(d)' = Wants(d) /\ Container(d)' = Container(d)
  BY <1>1, <1>3 DEF Wants, Container
<1>5. Settled(d)' = Settled(d)
  BY <1>3, <1>4 DEF Settled
<1>6. /\ Parsing(d)' = Parsing(d) /\ Classifying(d)' = Classifying(d)
      /\ Generated(d)' = Generated(d) /\ Quiet(d)' = Quiet(d)
      /\ Generating(d)' = Generating(d)
  BY <1>1, <1>3, <1>4 DEF Parsing, Classifying, Generated, Quiet, Generating
<1>7. SafeInv(d)' = SafeInv(d)
  BY <1>1, <1>2 DEF SafeInv
<1>8. QED
  BY <1>1, <1>3, <1>4, <1>5, <1>6, <1>7 DEF SpikeInv, Stage, Running

\* Submit: the only work of the spike generator is that of the call.
LEMMA SpikeSubmit ==
    ASSUME Shape, NEW c \in Clients, ClientInv(c), HelpInv(c), SpikeInv(c), Submit(c)
    PROVE  SpikeInv(c)'
<1>1. PICK w \in WorksOf(c, Body(c)) :
        /\ work' = work \cup {w} /\ w.id.client = c /\ w.id.ask = call[c].ask
        /\ w.class = call[c].class
  BY SubmitIs DEF ClientInv
<1>2. /\ call[c].pc = "waiting" /\ UNCHANGED <<call, lc, spikes>>
  BY SubmitIs DEF ClientInv
<1>3. lc[c].pc = "translating"
  BY <1>2 DEF ClientInv, PassInv
<1>4. CASE w.class # "SpikeGeneratorWay2Think"
  <2>1. Spiking(c)' = Spiking(c)
    BY <1>1, <1>4 DEF Spiking
  <2>2. QED
    BY <1>2, <2>1, SpikeSame
<1>5. CASE w.class = "SpikeGeneratorWay2Think"
  <2>1. lc[c].main /\ Wants(c) /\ Generating(c)
    BY <1>1, <1>3, <1>5, SpikeCall
  <2>2. spikes[c] = 0
    BY <1>2, <2>1 DEF Generating
  <2>3. \A v \in Spiking(c)' : v \in Spiking(c) \/ v = w
    BY <1>1 DEF Spiking
  <2>4. SafeInv(c)'
    BY <1>1, <1>2, <2>2, <2>3 DEF SpikeInv, SafeInv
  <2>5. Body(c)' = Body(c) /\ Container(c)' = Container(c) /\ Wants(c)' = Wants(c)
    BY <1>2 DEF Body, Container, Wants
  <2>6. Generating(c)'
    BY <1>2, <1>3, <2>1, <2>5 DEF Generating
  <2>7. lc[c].goal = 1
    BY <1>3 DEF ClientInv, PassInv
  <2>8. QED
    BY <1>2, <1>3, <2>1, <2>4, <2>5, <2>6, <2>7 DEF SpikeInv, Stage, Running
<1>6. QED
  BY <1>4, <1>5

\* The work of the spike generator for a request is one: it is that of the last call.
LEMMA OneSpiking ==
    ASSUME Shape, NEW c \in Clients, CallInv(c), SafeInv(c),
           NEW v \in Spiking(c), NEW w \in Spiking(c)
    PROVE  v = w
<1>1. /\ v \in work /\ v.id.client = c /\ v.id.ask = call[c].ask
      /\ w \in work /\ w.id.client = c /\ w.id.ask = call[c].ask
  BY DEF Spiking, SafeInv
<1>2. v.class = w.class /\ v.payload = w.payload
  BY <1>1 DEF CallInv
<1>3. v \in WorksOf(c, Body(c)) /\ w \in WorksOf(c, Body(c))
  BY <1>1 DEF Shape
<1>4. QED
  BY <1>1, <1>2, <1>3 DEF WorksOf

\* Execute: the data of the request are in the context, so that the run is one of them.
LEMMA SpikeExecute ==
    ASSUME Shape, NEW c \in Clients, ClientInv(c), HelpInv(c), SpikeInv(c),
           NEW w \in work, w.id.client = c,
           NEW reply \in ActionReplies(w.class, w.payload), Execute(w, reply)
    PROVE  SpikeInv(c)'
<1> DEFINE sg == "SpikeGeneratorWay2Think"
<1>1. /\ work' = work \ {w} /\ lc' = lc
      /\ Answers(w, reply) \/ TooLate(w)
      /\ w.class # sg => spikes' = spikes
      /\ spikes'[c] = IF w.class = sg /\ SpikesOf(w.payload) # {}
                      THEN spikes[c] + 1 ELSE spikes[c]
      /\ spikes' \in [Clients -> Nat]
  BY ExecuteIs
<1>2. call'[c].ask = call[c].ask
  BY <1>1 DEF Answers, TooLate
<1>3. CASE w.class # sg
  <2>1. Spiking(c)' = Spiking(c)
    BY <1>1, <1>3 DEF Spiking
  <2>2. CASE TooLate(w)
    BY <1>1, <1>2, <1>3, <2>1, <2>2, SpikeSame DEF TooLate
  <2>3. CASE Answers(w, reply)
    <3>1. call[c].pc = "waiting" /\ call[c].ask = w.id.ask
      BY <2>3 DEF Answers
    <3>2. lc[c].pc = "translating" /\ call[c].class = w.class
      BY <3>1 DEF ClientInv, PassInv, CallInv
    <3>3. ~Generating(c)
      <4>1. call[c].class = Head(Last(lc[c].stack).todo)
        BY <3>2 DEF ClientInv, PassInv
      <4>2. Generating(c) => Last(lc[c].stack).todo = <<"SpikeGeneratorWay2Think">>
        BY CurrentIs DEF Generating
      <4>3. QED
        BY <1>3, <3>2, <4>1, <4>2, CriticsAre
    <3>4. QED
      BY <1>1, <1>2, <1>3, <2>1, <3>3, SpikeSame
  <2>4. QED
    BY <1>1, <2>2, <2>3
<1>4. CASE w.class = sg
  <2>1. w \in Spiking(c) /\ spikes[c] = 0 /\ w.id.ask = call[c].ask
    BY <1>4 DEF Spiking, SpikeInv, SafeInv
  <2>2. Spiking(c)' = {}
    <3>1. \A v \in Spiking(c) : v = w
      BY <2>1, OneSpiking DEF ClientInv, SpikeInv
    <3>2. QED
      BY <1>1, <3>1 DEF Spiking
  <2>3. spikes'[c] \in {0, 1} /\ SafeInv(c)'
    BY <1>1, <2>1, <2>2 DEF SafeInv
  <2>4. ~Fresh(c) /\ ~Once(c)
    BY <2>1 DEF Fresh, Once
  <2>5. ~Settled(c) /\ ~Quiet(c) /\ ~Parsing(c) /\ ~Classifying(c) /\ ~Generated(c)
    BY <2>4 DEF Settled, Quiet, Parsing, Classifying, Generated
  <2>6. lc[c].main \in BOOLEAN
    BY DEF Shape, LifeCyclesOf
  <2>7. /\ ~(lc[c].pc \in {"new", "goal"} /\ lc[c].goal = 1) /\ lc[c].goal # 2
        /\ Running(c) => lc[c].main /\ Wants(c) /\ Generating(c)
    BY <2>4, <2>5, <2>6 DEF SpikeInv, Stage
  <2>8. ASSUME Running(c) PROVE Stage(c)'
    <3>1. Wants(c) /\ Generating(c) /\ lc[c].pc # "resources"
      BY <2>4, <2>7, <2>8 DEF Generating
    <3>2. Body(c)' = Body(c) /\ Container(c)' = Container(c)
      BY <1>1 DEF Body, Container
    <3>3. call[c].pc # "answered"
      BY <2>1, <3>1 DEF Generating
    <3>4. call'[c].pc # "waiting"
      BY <1>1, <2>1 DEF Answers, TooLate
    <3>5. ASSUME call'[c].pc = "answered" PROVE spikes'[c] = 1
      <4>1. Answers(w, reply)
        BY <1>1, <3>3, <3>5 DEF TooLate
      <4>2. w.payload = lc[c].global
        <5>1. w.payload = call[c].payload
          BY <2>1 DEF ClientInv, CallInv
        <5>2. lc[c].pc = "translating"
          BY <2>8, <3>1 DEF Running
        <5>3. QED
          BY <5>1, <5>2 DEF ClientInv, PassInv
      <4>3. Container(c) \in SpikesOf(w.payload)
        <5>1. Container(c) \in w.payload.frames
          BY <3>1, <4>2 DEF Generating
        <5>2. /\ Container(c).name = "spike-resource"
              /\ Container(c).kind = "RoboticDataContainer"
              /\ Container(c).body = Body(c)
          BY DEF Container, Resource
        <5>3. QED
          BY <3>1, <5>1, <5>2 DEF SpikesOf, FindByName, Wants
      <4>4. QED
        BY <1>1, <1>4, <2>1, <4>3
    <3>6. Generating(c)'
      BY <1>1, <3>1, <3>2, <3>4, <3>5 DEF Generating
    <3>7. QED
      BY <3>6 DEF Stage
  <2>9. Wants(c)' = Wants(c)
    BY <1>1 DEF Wants, Body
  <2>10. QED
    BY <1>1, <2>3, <2>7, <2>8, <2>9 DEF SpikeInv, Running
<1>5. QED
  BY <1>3, <1>4

SpikeAll == \A c \in Clients : SpikeInv(c)

\* The spike generator runs at most once, whatever times out and whoever else asks.
LEMMA SpikeInvariant == Spec => []SpikeAll
<1>1. ASSUME Init PROVE SpikeAll
  <2>1. ASSUME NEW c \in Clients PROVE SpikeInv(c)
    <3>1. lc[c].pc = "new" /\ lc[c].goal = 1
      BY <1>1, InitIs
    <3>2. spikes[c] = 0 /\ Spiking(c) = {}
      BY <1>1 DEF Init, Spiking
    <3>3. QED
      BY <3>1, <3>2 DEF SpikeInv, SafeInv, Fresh, Running
  <2>2. QED
    BY <2>1 DEF SpikeAll
<1>2. ASSUME RequestInv, HelpAll, SpikeAll, [Next]_vars PROVE SpikeAll'
  <2>1. CASE Next
    <3>1. PICK c \in Clients : Step(c)
      BY <1>2, <2>1, NextIsStep DEF RequestInv
    <3>2. Shape /\ ClientInv(c) /\ HelpInv(c) /\ SpikeInv(c)
      BY <1>2 DEF RequestInv, HelpAll, SpikeAll
    <3>3. \A d \in Clients \ {c} : Untouched(d)
      BY <3>1, <3>2, StepIs
    <3>4. ASSUME LifeCycle(c) PROVE SpikeInv(c)'
      BY <3>2, <3>4, SpikeLifeCycle
    <3>5. ASSUME Submit(c) PROVE SpikeInv(c)'
      BY <3>2, <3>5, SpikeSubmit
    <3>6. ASSUME Timeout(c) PROVE SpikeInv(c)'
      <4>1. /\ lc' = lc /\ spikes' = spikes /\ work' = work
            /\ call'[c].ask = call[c].ask /\ call'[c].pc = "failed"
        BY <3>2, <3>6, TimeoutIs
      <4>2. Spiking(c)' = Spiking(c)
        BY <4>1 DEF Spiking
      <4>3. QED
        BY <3>2, <4>1, <4>2, SpikeSame
    <3>7. ASSUME NEW w \in work, w.id.client = c,
                 NEW reply \in ActionReplies(w.class, w.payload), Execute(w, reply)
          PROVE  SpikeInv(c)'
      BY <3>2, <3>7, SpikeExecute
    <3>8. SpikeInv(c)'
      BY <3>1, <3>4, <3>5, <3>6, <3>7 DEF Step
    <3>9. ASSUME NEW d \in Clients, d # c PROVE SpikeInv(d)'
      BY <1>2, <3>3, <3>9, SpikeFrame DEF SpikeAll
    <3>10. QED
      BY <3>8, <3>9 DEF SpikeAll
  <2>2. CASE UNCHANGED vars
    <3>1. UNCHANGED <<call, work, lc, spikes, helped>>
      BY <2>2 DEF vars, service
    <3>2. QED
      BY <1>2, <3>1, SpikeFrame DEF SpikeAll, Untouched
  <2>3. QED
    BY <1>2, <2>1, <2>2
<1>3. QED
  BY <1>1, <1>2, RequestInvariant, HelpInvariant, PTL DEF Spec

\* The spike generator runs on the data of a request at most once, also when a timeout
\* leaves its work behind; exactly once if the request ends well and its channel has a
\* critic, and never for another channel, for text or for a training.
THEOREM SpikesRunOnce == Spec => []SpikedOnce
<1>1. HelpAll /\ SpikeAll => SpikedOnce
  <2> SUFFICES ASSUME HelpAll, SpikeAll, NEW c \in Clients
               PROVE  /\ spikes[c] <= 1
                      /\ lc[c].pc = "done" =>
                            (spikes[c] = 1 <=> /\ lc[c].request.type # "TrainingRequest"
                                               /\ lc[c].request.body \in {"hand", "distance"})
    BY DEF SpikedOnce
  <2>1. HelpInv(c) /\ SpikeInv(c)
    BY DEF HelpAll, SpikeAll
  <2>2. spikes[c] <= 1
    BY <2>1 DEF SpikeInv, SafeInv
  <2>3. ASSUME lc[c].pc = "done" PROVE spikes[c] = 1 <=> Wants(c)
    <3>1. Settled(c)
      BY <2>1, <2>3 DEF HelpInv, SpikeInv
    <3>2. QED
      BY <3>1 DEF Settled, Once, Fresh
  <2>4. QED
    BY <2>2, <2>3 DEF Wants, Body
<1>2. QED
  BY <1>1, HelpInvariant, SpikeInvariant, PTL

=============================================================================
