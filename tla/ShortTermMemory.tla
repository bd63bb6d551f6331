--------------------------- MODULE ShortTermMemory ---------------------------
(***************************************************************************)
(* The context that actions exchange, and ContextHelper's ways to build and *)
(* to merge contexts.  Every merge starts from an empty context and copies  *)
(* some fields from the first, some from the last and some from all of the  *)
(* contexts merged; which ones is what the life cycle depends on.           *)
(*                                                                          *)
(* A resource is its kind, the name of its URI, a body and the client from  *)
(* whose input it was derived.  Frames are keyed by URI, and URIs are       *)
(* compared by reference, so the frames of a context are a set of resources.*)
(* The lists of a context are sets: the actions modelled ask whether a list *)
(* is empty.  A model is named by the object the field refers to.           *)
(***************************************************************************)
EXTENDS Integers, Sequences

\* An Option without value.
None == [kind |-> "None", name |-> "", body |-> "", of |-> ""]

Resource(kind, name, body, of) ==
    [kind |-> kind, name |-> name, body |-> body, of |-> of]

EmptyContext ==
    [frames |-> {}, lastResult |-> None, lastReflectiveResult |-> None,
     classificationResults |-> {}, notUnderstoodConcepts |-> {}, resultToReport |-> {},
     domainModel |-> "none", simulationModel |-> "none", userResponse |-> "none"]

\* lastResult_=: a result is also a frame, a SelectorRequest also a classification.
WithLastResult(ctx, r) ==
    [ctx EXCEPT !.lastResult = r,
                !.classificationResults =
                    IF r.kind = "SelectorRequest" THEN @ \cup {r} ELSE @,
                !.frames = IF r = None THEN @ ELSE @ \cup {r}]

\* ContextHelper(resources, lastResult, name)
ContextWith(resources, r) == WithLastResult([EmptyContext EXCEPT !.frames = resources], r)

\* createReflectiveContext
ReflectiveContext(r) == [EmptyContext EXCEPT !.frames = {r}, !.lastReflectiveResult = r]

\* The frames named name.
FindByName(ctx, name) == {r \in ctx.frames : r.name = name}

-----------------------------------------------------------------------------
All(field(_), cs) == UNION {field(cs[i]) : i \in DOMAIN cs}
Last(cs) == cs[Len(cs)]
OrElse(r, s) == IF r = None THEN s ELSE r

\* merge(contexts): a list of one is that context with all its fields; of more
\* than one, only the frames and the classification results are left.
Merge(cs) ==
    IF Len(cs) = 1
    THEN cs[1]
    ELSE [EmptyContext EXCEPT
            !.frames = All(LAMBDA c : c.frames, cs),
            !.classificationResults = All(LAMBDA c : c.classificationResults, cs)]

\* mergeLast: result and models of the last context.
MergeLast(cs) ==
    IF cs = <<>>
    THEN EmptyContext
    ELSE [WithLastResult(Merge(cs), Last(cs).lastResult) EXCEPT
            !.domainModel = Last(cs).domainModel,
            !.simulationModel = Last(cs).simulationModel]

\* Mutants of mergeWithBaseContext: the model of the last context wins; the frames
\* of the base context are dropped.
MergeWithBase_LastModels(base, ctx) ==
    [WithLastResult(Merge(<<base, base, ctx>>), OrElse(ctx.lastResult, base.lastResult)) EXCEPT
        !.lastReflectiveResult = OrElse(ctx.lastReflectiveResult, base.lastReflectiveResult),
        !.domainModel = base.domainModel,
        !.simulationModel = ctx.simulationModel,
        !.userResponse = base.userResponse,
        !.notUnderstoodConcepts = base.notUnderstoodConcepts \cup ctx.notUnderstoodConcepts,
        !.resultToReport = base.resultToReport \cup ctx.resultToReport]

MergeWithBase_ForgetsFrames(base, ctx) ==
    [ContextWith(ctx.frames, OrElse(ctx.lastResult, base.lastResult)) EXCEPT
        !.domainModel = base.domainModel,
        !.simulationModel = base.simulationModel,
        !.notUnderstoodConcepts = base.notUnderstoodConcepts \cup ctx.notUnderstoodConcepts,
        !.resultToReport = base.resultToReport \cup ctx.resultToReport]

\* mergeWithBaseContext(base, List(base, ctx)): the result of ctx if it has one,
\* models and user response of base, all that was not understood or is to report.
MergeWithBase(base, ctx) ==
    [WithLastResult(Merge(<<base, base, ctx>>), OrElse(ctx.lastResult, base.lastResult)) EXCEPT
        !.lastReflectiveResult = OrElse(ctx.lastReflectiveResult, base.lastReflectiveResult),
        !.domainModel = base.domainModel,
        !.simulationModel = base.simulationModel,
        !.userResponse = base.userResponse,
        !.notUnderstoodConcepts = base.notUnderstoodConcepts \cup ctx.notUnderstoodConcepts,
        !.resultToReport = base.resultToReport \cup ctx.resultToReport]
=============================================================================
