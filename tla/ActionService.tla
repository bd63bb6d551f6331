---------------------------- MODULE ActionService ----------------------------
(***************************************************************************)
(* What translate can rely on when it sends a context to an action, without *)
(* actors, registry and restarts: a call ends with the reply of its own     *)
(* class to its own context, or with an exception.  An exception says       *)
(* nothing of the action: the context of a call that timed out may be       *)
(* handled later, once, or never.                                           *)
(***************************************************************************)
EXTENDS Integers

CONSTANTS
    Clients,        \* threads that run a life cycle
    Classes,        \* class names of actions
    Payloads,       \* contexts that are sent to actions
    Replies,        \* replies of actions: Success(context) or Failure(e)
    NoReply,        \* "no reply"
    Handle(_, _),   \* Handle(class, payload): the replies apply may produce
    MaxAsks         \* calls a client makes (a bound)

VARIABLES
    call,           \* client -> its current call
    work            \* contexts that an action holds and may still handle

vars == <<call, work>>

AskIds == [client : Clients, ask : Nat]
Work == [id : AskIds, class : Classes, payload : Payloads]

Init ==
    /\ call \in [Clients -> [pc : {"idle"}, ask : {0}, class : Classes,
                             payload : Payloads, reply : {NoReply}]]
    /\ work = {}

\* translate(actionModel, globalContext)
Call(c, k, p) ==
    /\ call[c].pc = "idle"
    /\ call[c].ask < MaxAsks
    /\ call' = [call EXCEPT ![c] = [pc |-> "waiting", ask |-> @.ask + 1, class |-> k,
                                    payload |-> p, reply |-> NoReply]]
    /\ UNCHANGED work

\* The context gets to an actor of the class.
Submit(c) ==
    /\ call[c].pc = "waiting"
    /\ work' = work \cup {[id |-> [client |-> c, ask |-> call[c].ask],
                           class |-> call[c].class, payload |-> call[c].payload]}
    /\ UNCHANGED call

\* The promise of the ask is not completed yet.
Waits(id) == call[id.client].pc = "waiting" /\ call[id.client].ask = id.ask

\* The action handles the context; the reply goes to the caller if it waits.
Execute(w, reply) ==
    /\ w \in work
    /\ reply \in Handle(w.class, w.payload)
    /\ work' = work \ {w}
    /\ call' = IF Waits(w.id)
               THEN [call EXCEPT ![w.id.client].pc = "answered",
                                 ![w.id.client].reply = reply]
               ELSE call

\* Actors end, and what is in their mailboxes is lost.
Lose(ws) ==
    /\ work' = work \ ws
    /\ UNCHANGED call

\* Await.result throws TimeoutException.
Fail(c) ==
    /\ call[c].pc = "waiting"
    /\ call' = [call EXCEPT ![c].pc = "failed"]
    /\ UNCHANGED work

\* translate returns the context or throws.
Return(c) ==
    /\ call[c].pc \in {"answered", "failed"}
    /\ call' = [call EXCEPT ![c].pc = "idle"]
    /\ UNCHANGED work

Next ==
    \/ \E c \in Clients :
          \/ \E k \in Classes, p \in Payloads : Call(c, k, p)
          \/ Submit(c)
          \/ Fail(c)
          \/ Return(c)
    \/ \E w \in work, reply \in Replies : Execute(w, reply)
    \/ \E ws \in SUBSET work : Lose(ws)

Spec == Init /\ [][Next]_vars
=============================================================================
