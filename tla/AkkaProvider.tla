---------------------------- MODULE AkkaProvider ----------------------------
(***************************************************************************)
(* The actor registry of the thinking life cycle, the action actors it     *)
(* creates and the two nested asks every action costs its caller:          *)
(*                                                                         *)
(*   AkkaProvider.find(className)     ask the supervisor, 10 s  -> ActorRef *)
(*   actionActor ? globalContext      ask the actor, 20 s       -> result   *)
(*                                                                         *)
(* One supervisor actor owns actorMap (class name -> ActorRef) and is the  *)
(* parent of every action actor.  It handles its mailbox one message at a  *)
(* time.  An exception thrown while it handles Find (Class.forName or      *)
(* Props on a class that cannot be instantiated) makes Akka restart it:    *)
(* its children are stopped, and the new instance, with an empty actorMap, *)
(* starts only when the last child has terminated, so a child that is busy *)
(* delays the restart.  A caller never learns of any of this: it only      *)
(* sees its own timeout.                                                   *)
(***************************************************************************)
EXTENDS Integers, Sequences

CONSTANTS
    Clients,        \* threads that run a life cycle
    Classes,        \* class names of actions
    Unloadable,     \* classes for which Class.forName or Props(clazz) throws
    Fragile,        \* classes whose constructor may throw in the new actor
    MaxRefs,        \* actors that can ever be created (a bound)
    Payloads,       \* contexts that are sent to actions
    Replies,        \* replies of actions: Success(context) or Failure(e)
    NoReply,        \* "no reply"
    Handle(_, _),   \* Handle(class, payload): the replies apply may produce
    MaxAsks         \* asks a client makes (a bound)

ASSUME ClassesAssumption ==
    /\ Classes # {}
    /\ Payloads # {}
    /\ Unloadable \subseteq Classes
    /\ Fragile \subseteq Classes

ASSUME MaxRefsAssumption == MaxRefs \in Nat

ASSUME HandleAssumption ==
    /\ \A k \in Classes, p \in Payloads : Handle(k, p) \subseteq Replies
    /\ NoReply \notin Replies

ASSUME MaxAsksAssumption == MaxAsks \in Nat

VARIABLES
    actorMap,       \* the supervisor's class name -> ActorRef map
    restarting,     \* the supervisor waits for its children to terminate
    inbox,          \* the supervisor's mailbox: Find and Terminated
    status,         \* ActorRef -> where the actor is in its life
    class,          \* ActorRef -> class the actor was created from
    mailbox,        \* ActorRef -> messages not yet handled
    busy,           \* ActorRef -> the message being handled, as <<m>> or <<>>
    client          \* client -> state of its current ask

providerVars == <<actorMap, restarting, inbox>>
actorVars == <<status, class, mailbox, busy>>
vars == <<actorMap, restarting, inbox, status, class, mailbox, busy, client>>

\* ActorRefs are numbered in the order of creation.
Refs == 1 .. MaxRefs
NoRef == 0

-----------------------------------------------------------------------------
(* Messages.  An ask is named by its client and the number of the ask: Akka *)
(* gives every ask a promise of its own, so a reply that comes after the    *)
(* timeout completes nothing.                                               *)

AskIds == [client : Clients, ask : Nat]
Messages == [id : AskIds, payload : Payloads]
FindMsg(id, k) == [type |-> "Find", id |-> id, class |-> k]
TerminatedMsg(r) == [type |-> "Terminated", ref |-> r]
InboxMsgs == [type : {"Find"}, id : AskIds, class : Classes]
                 \cup [type : {"Terminated"}, ref : Refs]

\* Where a caller is: idle, waiting for the supervisor, holding an ActorRef,
\* waiting for the action, or back with a reply or with an exception.
ClientPC == {"idle", "finding", "found", "asking", "answered", "failed"}

ClientStates == [pc : ClientPC, ask : Nat, class : Classes, payload : Payloads,
                 ref : Refs \cup {NoRef}, reply : Replies \cup {NoReply},
                 from : Refs \cup {NoRef}]

\* unborn: not created yet.  starting: created, its constructor has not run.
\* stopping: told to stop by a restarting supervisor while it was busy.
Statuses == {"unborn", "starting", "live", "stopping", "dead"}
Alive == {"starting", "live", "stopping"}

AliveRefs == {r \in Refs : status[r] \in Alive}
Registered(r) == \E k \in Classes : actorMap[k] = r
Fresh(r) == status[r] = "unborn" /\ \A s \in Refs : s < r => status[s] # "unborn"
CurrentAsk(c) == [client |-> c, ask |-> client[c].ask]

Init ==
    /\ actorMap = [k \in Classes |-> NoRef]
    /\ restarting = FALSE
    /\ inbox = <<>>
    /\ status = [r \in Refs |-> "unborn"]
    /\ class = [r \in Refs |-> CHOOSE k \in Classes : TRUE]  \* no meaning while unborn
    /\ mailbox = [r \in Refs |-> <<>>]
    /\ busy = [r \in Refs |-> <<>>]
    /\ client = [c \in Clients |->
                    [pc |-> "idle", ask |-> 0, class |-> CHOOSE k \in Classes : TRUE,
                     payload |-> CHOOSE p \in Payloads : TRUE,
                     ref |-> NoRef, reply |-> NoReply, from |-> NoRef]]

-----------------------------------------------------------------------------
(* The caller: AkkaProvider.find and the ask of translate.                  *)

\* translate(actionModel, globalContext): SUPERVISOR ? Find(className)
Find(c, k, p) ==
    /\ client[c].pc = "idle"
    /\ client[c].ask < MaxAsks
    /\ client' = [client EXCEPT ![c].pc = "finding", ![c].ask = @ + 1,
                                ![c].class = k, ![c].payload = p, ![c].ref = NoRef,
                                ![c].reply = NoReply, ![c].from = NoRef]
    /\ inbox' = Append(inbox, FindMsg([client |-> c, ask |-> client[c].ask + 1], k))
    /\ UNCHANGED <<actorMap, restarting, actorVars>>

\* Mutant: Await without a limit.
Expires_Never(c, where) == client[c].pc = where /\ FALSE

\* The timeout of an ask may fire as long as the caller waits.
Expires(c, where) == client[c].pc = where

\* Await.result(future, 10 seconds) throws TimeoutException.
FindTimeout(c) ==
    /\ Expires(c, "finding")
    /\ client' = [client EXCEPT ![c].pc = "failed"]
    /\ UNCHANGED <<providerVars, actorVars>>

\* actionActor ? globalContext.  A message to a terminated actor is a dead
\* letter: nobody tells the sender.
Ask(c) ==
    /\ client[c].pc = "found"
    /\ client' = [client EXCEPT ![c].pc = "asking"]
    /\ LET r == client[c].ref
           m == [id |-> CurrentAsk(c), payload |-> client[c].payload]
       IN  mailbox' = IF status[r] \in {"starting", "live"}
                      THEN [mailbox EXCEPT ![r] = Append(@, m)]
                      ELSE mailbox
    /\ UNCHANGED <<providerVars, status, class, busy>>

\* Await.result(future, 20 seconds) throws TimeoutException.
AskTimeout(c) ==
    /\ Expires(c, "asking")
    /\ client' = [client EXCEPT ![c].pc = "failed"]
    /\ UNCHANGED <<providerVars, actorVars>>

\* The caller takes the reply or the exception and goes on.
Return(c) ==
    /\ client[c].pc \in {"answered", "failed"}
    /\ client' = [client EXCEPT ![c].pc = "idle"]
    /\ UNCHANGED <<providerVars, actorVars>>

-----------------------------------------------------------------------------
(* The supervisor: AkkaProvider.receive.                                    *)

\* Mutant: one promise for all the asks of a caller.
Waits_AnyAsk(id, where) == client[id.client].pc = where

\* The promise of the ask id is not completed yet.
Waits(id, where) == client[id.client].pc = where /\ client[id.client].ask = id.ask

\* Mutant: the reply is the class and not the actor.
CompleteFind_Class(id, r) ==
    client' = IF Waits(id, "finding")
              THEN [client EXCEPT ![id.client].pc = "found", ![id.client].ref = class[r]]
              ELSE client

\* sender() ! ref : completes the promise of the ask id, if it still waits.
CompleteFind(id, r) ==
    client' = IF Waits(id, "finding")
              THEN [client EXCEPT ![id.client].pc = "found", ![id.client].ref = r]
              ELSE client

\* case Find(className), the class is registered.
FindRegistered ==
    /\ ~restarting
    /\ inbox # <<>>
    /\ Head(inbox).type = "Find"
    /\ actorMap[Head(inbox).class] # NoRef
    /\ CompleteFind(Head(inbox).id, actorMap[Head(inbox).class])
    /\ inbox' = Tail(inbox)
    /\ UNCHANGED <<actorMap, restarting, actorVars>>

\* Mutant: the new actor is not put into the map.
Register_Nothing(k, r) == actorMap

\* actorMap += className -> actor
Register(k, r) == [actorMap EXCEPT ![k] = r]

\* case Find(className), not registered: create the actor, register and watch it.
FindCreates(r) ==
    /\ ~restarting
    /\ inbox # <<>>
    /\ Head(inbox).type = "Find"
    /\ actorMap[Head(inbox).class] = NoRef
    /\ Head(inbox).class \notin Unloadable
    /\ Fresh(r)
    /\ actorMap' = Register(Head(inbox).class, r)
    /\ class' = [class EXCEPT ![r] = Head(inbox).class]
    /\ status' = [status EXCEPT ![r] = "starting"]
    /\ CompleteFind(Head(inbox).id, r)
    /\ inbox' = Tail(inbox)
    /\ UNCHANGED <<restarting, mailbox, busy>>

\* case Find(className) throws: the supervisor is restarted.  preRestart stops
\* and unwatches every child: an idle child terminates, a busy one when it is
\* done with its message; what is left in the mailboxes is lost.
FindThrows ==
    /\ ~restarting
    /\ inbox # <<>>
    /\ Head(inbox).type = "Find"
    /\ actorMap[Head(inbox).class] = NoRef
    /\ Head(inbox).class \in Unloadable
    /\ restarting' = TRUE
    /\ actorMap' = [k \in Classes |-> NoRef]
    /\ status' = [r \in Refs |->
                    IF status[r] \in Alive
                    THEN IF busy[r] # <<>> THEN "stopping" ELSE "dead"
                    ELSE status[r]]
    /\ mailbox' = [r \in Refs |-> <<>>]
    /\ inbox' = Tail(inbox)
    /\ UNCHANGED <<class, busy, client>>

\* Mutant: the new instance does not wait for the children of the old one.
ChildrenGone_NoWait == TRUE

\* Akka restarts an actor when its last child has terminated.
ChildrenGone == AliveRefs = {}

\* The last child is gone: the new instance takes over the mailbox.
Restarted ==
    /\ restarting
    /\ ChildrenGone
    /\ restarting' = FALSE
    /\ UNCHANGED <<actorMap, inbox, actorVars, client>>

\* Mutant: the registration is kept.
Forget_Nothing(r) == actorMap

\* actorMap filterNot { case (_, v) => v == ref }
Forget(r) == [k \in Classes |-> IF actorMap[k] = r THEN NoRef ELSE actorMap[k]]

\* case Terminated(ref): forget every registration of ref.
Terminated ==
    /\ ~restarting
    /\ inbox # <<>>
    /\ Head(inbox).type = "Terminated"
    /\ actorMap' = Forget(Head(inbox).ref)
    /\ inbox' = Tail(inbox)
    /\ UNCHANGED <<restarting, actorVars, client>>

-----------------------------------------------------------------------------
(* An action actor: AkkaAction.                                             *)

\* The constructor and preStart have run.
Started(r) ==
    /\ status[r] = "starting"
    /\ status' = [status EXCEPT ![r] = "live"]
    /\ UNCHANGED <<providerVars, class, mailbox, busy, client>>

\* Mutant: the supervisor does not watch the actors it creates.
NotifyWatcher_Unwatched(r) == inbox

\* context watch actor: the end of the actor is a message to the supervisor.
NotifyWatcher(r) == Append(inbox, TerminatedMsg(r))

\* The constructor throws: ActorInitializationException stops the actor, its
\* messages are lost and the supervisor, which watches it, gets Terminated.
StartFails(r) ==
    /\ status[r] = "starting"
    /\ class[r] \in Fragile
    /\ status' = [status EXCEPT ![r] = "dead"]
    /\ mailbox' = [mailbox EXCEPT ![r] = <<>>]
    /\ inbox' = NotifyWatcher(r)
    /\ UNCHANGED <<actorMap, restarting, class, busy, client>>

\* receive: the actor takes the next context.
Begin(r) ==
    /\ status[r] = "live"
    /\ busy[r] = <<>>
    /\ mailbox[r] # <<>>
    /\ busy' = [busy EXCEPT ![r] = <<Head(mailbox[r])>>]
    /\ mailbox' = [mailbox EXCEPT ![r] = Tail(@)]
    /\ UNCHANGED <<providerVars, status, class, client>>

\* sender() ! Success(result) or Failure(e) : completes the promise of the ask,
\* if it still waits.
CompleteAsk(id, r, reply) ==
    client' = IF Waits(id, "asking")
              THEN [client EXCEPT ![id.client].pc = "answered",
                                  ![id.client].reply = reply, ![id.client].from = r]
              ELSE client

\* receive: apply has returned or thrown (every Throwable is caught), the answer
\* goes out, and an actor that was told to stop terminates.
End(r, reply) ==
    /\ busy[r] # <<>>
    /\ reply \in Handle(class[r], busy[r][1].payload)
    /\ CompleteAsk(busy[r][1].id, r, reply)
    /\ busy' = [busy EXCEPT ![r] = <<>>]
    /\ status' = [status EXCEPT ![r] = IF @ = "stopping" THEN "dead" ELSE @]
    /\ UNCHANGED <<providerVars, class, mailbox>>

-----------------------------------------------------------------------------
ClientStep(c) ==
    \/ \E k \in Classes, p \in Payloads : Find(c, k, p)
    \/ FindTimeout(c)
    \/ Ask(c)
    \/ AskTimeout(c)
    \/ Return(c)

Supervisor ==
    \/ FindRegistered
    \/ \E r \in Refs : FindCreates(r)
    \/ FindThrows
    \/ Restarted
    \/ Terminated

ActorStep(r) ==
    \/ Started(r)
    \/ StartFails(r)
    \/ Begin(r)
    \/ \E reply \in Replies : End(r, reply)

Next ==
    \/ \E c \in Clients : ClientStep(c)
    \/ Supervisor
    \/ \E r \in Refs : ActorStep(r)

Spec == Init /\ [][Next]_vars

\* Timeouts fire (Akka's scheduler), a caller goes on, and the supervisor is
\* scheduled.  Nothing is assumed of the action actors: apply may never return
\* (Cry4HelpWay2Think waits for a line on the console).
Fairness ==
    /\ \A c \in Clients : /\ WF_vars(FindTimeout(c))
                          /\ WF_vars(AskTimeout(c))
                          /\ WF_vars(Ask(c))
    /\ WF_vars(Supervisor)

FairSpec == Spec /\ Fairness

-----------------------------------------------------------------------------
TypeOK ==
    /\ actorMap \in [Classes -> Refs \cup {NoRef}]
    /\ restarting \in BOOLEAN
    /\ inbox \in Seq(InboxMsgs)
    /\ status \in [Refs -> Statuses]
    /\ class \in [Refs -> Classes]
    /\ mailbox \in [Refs -> Seq(Messages)]
    /\ busy \in [Refs -> Seq(Messages)]
    /\ \A r \in Refs : Len(busy[r]) <= 1
    /\ client \in [Clients -> ClientStates]

\* Two actors of one action class are never alive together, whatever restarts
\* and failed starts happen: a stateful action (SpikeGeneratorWay2Think keeps an
\* open file) has one instance at a time.  AkkaProvider.getOrCreateActor.
OneActorPerClass ==
    \A r, s \in Refs :
        /\ status[r] \in Alive
        /\ status[s] \in Alive
        /\ class[r] = class[s]
        => r = s

\* An actor is reachable as long as it is alive and the supervisor is not being
\* restarted: no code path forgets a running actor.
NoOrphan ==
    \A r \in AliveRefs : ~restarting => actorMap[class[r]] = r

\* A terminated actor stays registered only while its Terminated message is on
\* the way to the supervisor: a stale ActorRef cannot stay in the map for ever.
StaleIsTransient ==
    \A k \in Classes :
        actorMap[k] # NoRef /\ status[actorMap[k]] = "dead" =>
            \E i \in DOMAIN inbox : inbox[i] = TerminatedMsg(actorMap[k])

\* A caller that is answered holds the answer of an actor of the class it asked
\* for: a reply to an ask that timed out is never taken for the reply to a later
\* one (translate matches the reply of its own future only).
AnswerIsOwn ==
    \A c \in Clients :
        client[c].pc = "answered" =>
            /\ client[c].reply \in Replies
            /\ client[c].from = client[c].ref
            /\ class[client[c].from] = client[c].class

-----------------------------------------------------------------------------
(* The service that translate sees.                                         *)

abstractCall ==
    [c \in Clients |->
        [pc |-> IF client[c].pc \in {"finding", "found", "asking"}
                THEN "waiting" ELSE client[c].pc,
         ask |-> client[c].ask, class |-> client[c].class,
         payload |-> client[c].payload, reply |-> client[c].reply]]

\* The messages an actor has not answered.
abstractWork ==
    UNION {{[id |-> m.id, class |-> class[r], payload |-> m.payload] :
                m \in {mailbox[r][i] : i \in DOMAIN mailbox[r]}
                         \cup {busy[r][i] : i \in DOMAIN busy[r]}} : r \in Refs}

AS == INSTANCE ActionService WITH call <- abstractCall, work <- abstractWork

\* Registry, actors and restarts implement the plain call: no message is handled
\* twice or by an actor of another class, and a reply completes its own ask only.
ImplementsActionService == AS!Spec

\* Every ask ends: with a reply, or with the exception of one of the timeouts.
EveryCallReturns ==
    \A c \in Clients :
        client[c].pc \in {"finding", "found", "asking"}
            ~> client[c].pc \in {"answered", "failed"}

\* A registration of a dead actor is dropped.
DeadIsForgotten ==
    \A r \in Refs : (status[r] = "dead" /\ Registered(r)) ~> ~Registered(r)

=============================================================================
