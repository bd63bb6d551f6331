------------------------ MODULE AkkaProvider_proofs ------------------------
(***************************************************************************)
(* What holds of the actor registry for every number of callers, classes,   *)
(* actors and asks.                                                         *)
(***************************************************************************)
EXTENDS AkkaProvider, TLAPS

-----------------------------------------------------------------------------
(* Mailboxes.                                                               *)

\* The message at the head of the supervisor's mailbox is one of the two that
\* AkkaProvider.receive knows.
LEMMA InboxHead ==
    ASSUME NEW q \in Seq(InboxMsgs), q # <<>>
    PROVE  /\ Tail(q) \in Seq(InboxMsgs)
           /\ Head(q) \in InboxMsgs
           /\ Head(q).type = "Find" => Head(q).id \in AskIds /\ Head(q).class \in Classes
           /\ Head(q).type = "Terminated" => Head(q).ref \in Refs
<1>1. Tail(q) \in Seq(InboxMsgs) /\ Head(q) \in InboxMsgs
  OBVIOUS
<1>2. QED
  BY <1>1 DEF InboxMsgs

\* A message behind the head is still there when the head has been handled.
LEMMA StaysInTail ==
    ASSUME NEW S, NEW q \in Seq(S), q # <<>>, NEW i \in DOMAIN q, q[i] # Head(q)
    PROVE  \E j \in DOMAIN Tail(q) : Tail(q)[j] = q[i]
<1>1. i \in 1 .. Len(q) /\ i # 1
  OBVIOUS
<1>2. i - 1 \in DOMAIN Tail(q) /\ Tail(q)[i - 1] = q[i]
  BY <1>1
<1>3. QED
  BY <1>2

\* What is behind the head was in the mailbox before.
LEMMA WasInQueue ==
    ASSUME NEW S, NEW q \in Seq(S), q # <<>>, NEW j \in DOMAIN Tail(q)
    PROVE  \E i \in DOMAIN q : q[i] = Tail(q)[j]
<1>1. j + 1 \in DOMAIN q /\ q[j + 1] = Tail(q)[j]
  OBVIOUS
<1>2. QED
  BY <1>1

\* A message that is added leaves the others where they are.
LEMMA StaysInAppend ==
    ASSUME NEW S, NEW q \in Seq(S), NEW m \in S
    PROVE  /\ Append(q, m) \in Seq(S)
           /\ \A i \in DOMAIN q : i \in DOMAIN Append(q, m) /\ Append(q, m)[i] = q[i]
           /\ \A i \in DOMAIN Append(q, m) : i \notin DOMAIN q => Append(q, m)[i] = m
           /\ \E i \in DOMAIN Append(q, m) : Append(q, m)[i] = m
<1>1. /\ Append(q, m) \in Seq(S)
      /\ \A i \in DOMAIN q : i \in DOMAIN Append(q, m) /\ Append(q, m)[i] = q[i]
      /\ \A i \in DOMAIN Append(q, m) : i \notin DOMAIN q => Append(q, m)[i] = m
  OBVIOUS
<1>2. Len(q) + 1 \in DOMAIN Append(q, m) /\ Append(q, m)[Len(q) + 1] = m
  OBVIOUS
<1>3. QED
  BY <1>1, <1>2

-----------------------------------------------------------------------------
(* Types.                                                                   *)

\* The updates of a caller's record keep its type.
LEMMA ClientUpdates ==
    ASSUME NEW s \in ClientStates, NEW pc \in ClientPC
    PROVE  /\ [s EXCEPT !.pc = pc] \in ClientStates
           /\ \A r \in Refs : [s EXCEPT !.pc = pc, !.ref = r] \in ClientStates
           /\ \A r \in Refs, reply \in Replies :
                 [s EXCEPT !.pc = pc, !.reply = reply, !.from = r] \in ClientStates
BY DEF ClientStates

\* A completed promise leaves the caller with a state of its type.
LEMMA CompleteTypes ==
    ASSUME client \in [Clients -> ClientStates], NEW id \in AskIds, NEW r \in Refs
    PROVE  /\ CompleteFind(id, r) => client' \in [Clients -> ClientStates]
           /\ \A reply \in Replies :
                 CompleteAsk(id, r, reply) => client' \in [Clients -> ClientStates]
<1>1. id.client \in Clients /\ client[id.client] \in ClientStates
  BY DEF AskIds
<1>2. ASSUME CompleteFind(id, r)
      PROVE  client' \in [Clients -> ClientStates]
  <2>1. [client[id.client] EXCEPT !.pc = "found", !.ref = r] \in ClientStates
    BY <1>1, ClientUpdates DEF ClientPC
  <2>2. QED
    BY <1>2, <2>1 DEF CompleteFind
<1>3. ASSUME NEW reply \in Replies, CompleteAsk(id, r, reply)
      PROVE  client' \in [Clients -> ClientStates]
  <2>1. [client[id.client] EXCEPT !.pc = "answered", !.reply = reply, !.from = r]
            \in ClientStates
    BY <1>1, ClientUpdates DEF ClientPC
  <2>2. QED
    BY <1>3, <2>1 DEF CompleteAsk
<1>4. QED
  BY <1>2, <1>3

\* The initial state has its type.
LEMMA TypeInit == Init => TypeOK
<1> SUFFICES ASSUME Init PROVE TypeOK
  OBVIOUS
<1>1. /\ (CHOOSE k \in Classes : TRUE) \in Classes
      /\ (CHOOSE p \in Payloads : TRUE) \in Payloads
  BY ClassesAssumption
<1>2. client \in [Clients -> ClientStates]
  BY <1>1 DEF Init, ClientStates, ClientPC
<1>3. mailbox \in [Refs -> Seq(Messages)] /\ busy \in [Refs -> Seq(Messages)]
  BY DEF Init
<1>4. \A r \in Refs : Len(busy[r]) <= 1
  BY DEF Init
<1>5. /\ actorMap \in [Classes -> Refs \cup {NoRef}]
      /\ restarting \in BOOLEAN
      /\ status \in [Refs -> Statuses]
      /\ class \in [Refs -> Classes]
  BY <1>1 DEF Init, Statuses
<1>6. inbox \in Seq(InboxMsgs)
  BY DEF Init
<1>7. QED
  BY <1>2, <1>3, <1>4, <1>5, <1>6 DEF TypeOK

\* Every action keeps the types.
LEMMA TypeStep == TypeOK /\ [Next]_vars => TypeOK'
<1> SUFFICES ASSUME TypeOK, [Next]_vars PROVE TypeOK'
  OBVIOUS
<1>1. CASE UNCHANGED vars
  BY <1>1 DEF vars, TypeOK
<1>2. ASSUME NEW c \in Clients, NEW k \in Classes, NEW p \in Payloads, Find(c, k, p)
      PROVE  TypeOK'
  <2>1. FindMsg([client |-> c, ask |-> client[c].ask + 1], k) \in InboxMsgs
    BY DEF FindMsg, InboxMsgs, AskIds, TypeOK, ClientStates
  <2>2. inbox' \in Seq(InboxMsgs)
    BY <1>2, <2>1 DEF Find, TypeOK
  <2>3. client[c] \in ClientStates /\ client[c].ask + 1 \in Nat
    BY DEF TypeOK, ClientStates
  <2>4. [client[c] EXCEPT !.pc = "finding", !.ask = @ + 1, !.class = k, !.payload = p,
                          !.ref = NoRef, !.reply = NoReply, !.from = NoRef] \in ClientStates
    BY <2>3 DEF ClientStates, ClientPC
  <2>5. client' \in [Clients -> ClientStates]
    BY <1>2, <2>4 DEF Find, TypeOK
  <2>6. QED
    BY <1>2, <2>2, <2>5 DEF Find, TypeOK, actorVars
<1>3. ASSUME NEW c \in Clients, FindTimeout(c) \/ AskTimeout(c) \/ Return(c)
      PROVE  TypeOK'
  <2>1. [client[c] EXCEPT !.pc = "failed"] \in ClientStates
            /\ [client[c] EXCEPT !.pc = "idle"] \in ClientStates
    BY ClientUpdates DEF ClientPC, TypeOK
  <2>2. client' \in [Clients -> ClientStates]
    BY <1>3, <2>1 DEF FindTimeout, AskTimeout, Return, TypeOK
  <2>3. QED
    BY <1>3, <2>2 DEF FindTimeout, AskTimeout, Return, TypeOK, providerVars, actorVars
<1>4. ASSUME NEW c \in Clients, Ask(c)
      PROVE  TypeOK'
  <2>1. [id |-> CurrentAsk(c), payload |-> client[c].payload] \in Messages
    BY DEF CurrentAsk, Messages, AskIds, TypeOK, ClientStates
  <2>2. \A r \in Refs : Append(mailbox[r], [id |-> CurrentAsk(c),
                                            payload |-> client[c].payload])
                            \in Seq(Messages)
    BY <2>1 DEF TypeOK
  <2>3. mailbox' \in [Refs -> Seq(Messages)]
    <3>1. CASE mailbox' = mailbox
      BY <3>1 DEF TypeOK
    <3>2. CASE mailbox' = [mailbox EXCEPT ![client[c].ref] =
                              Append(@, [id |-> CurrentAsk(c),
                                         payload |-> client[c].payload])]
      <4>1. \A r \in Refs : mailbox'[r] \in Seq(Messages)
        BY <3>2, <2>2 DEF TypeOK
      <4>2. QED
        BY <3>2, <4>1 DEF TypeOK
    <3>3. QED
      BY <1>4, <3>1, <3>2, Zenon DEF Ask
  <2>4. client' \in [Clients -> ClientStates]
    <3>1. client' = [client EXCEPT ![c].pc = "asking"]
      BY <1>4, Zenon DEF Ask
    <3>2. [client[c] EXCEPT !.pc = "asking"] \in ClientStates
      BY ClientUpdates DEF ClientPC, TypeOK
    <3>3. QED
      BY <3>1, <3>2 DEF TypeOK
  <2>5. UNCHANGED <<actorMap, restarting, inbox, status, class, busy>>
    BY <1>4, Zenon DEF Ask, providerVars
  <2>6. QED
    BY <2>3, <2>4, <2>5 DEF TypeOK
<1>5. CASE FindRegistered
  <2>1. Head(inbox).id \in AskIds /\ Head(inbox).class \in Classes
            /\ inbox' \in Seq(InboxMsgs)
    BY <1>5, InboxHead DEF FindRegistered, TypeOK
  <2>2. actorMap[Head(inbox).class] \in Refs
    BY <1>5, <2>1 DEF FindRegistered, TypeOK
  <2>3. client' \in [Clients -> ClientStates]
    BY <1>5, <2>1, <2>2, CompleteTypes DEF FindRegistered, TypeOK
  <2>4. QED
    BY <1>5, <2>1, <2>3 DEF FindRegistered, TypeOK, actorVars
<1>6. ASSUME NEW r \in Refs, FindCreates(r)
      PROVE  TypeOK'
  <2>1. Head(inbox).id \in AskIds /\ Head(inbox).class \in Classes
            /\ inbox' \in Seq(InboxMsgs)
    BY <1>6, InboxHead DEF FindCreates, TypeOK
  <2>2. client' \in [Clients -> ClientStates]
    BY <1>6, <2>1, CompleteTypes DEF FindCreates, TypeOK
  <2>3. QED
    BY <1>6, <2>1, <2>2 DEF FindCreates, Register, TypeOK, Statuses
<1>7. CASE FindThrows
  <2>1. inbox' \in Seq(InboxMsgs)
    BY <1>7, InboxHead DEF FindThrows, TypeOK
  <2>2. QED
    BY <1>7, <2>1 DEF FindThrows, TypeOK, Statuses, Alive, NoRef
<1>8. CASE Restarted
  BY <1>8 DEF Restarted, TypeOK, actorVars
<1>9. CASE Terminated
  <2>1. inbox' \in Seq(InboxMsgs)
    BY <1>9, InboxHead DEF Terminated, TypeOK
  <2>2. QED
    BY <1>9, <2>1 DEF Terminated, Forget, TypeOK, actorVars
<1>10. ASSUME NEW r \in Refs, Started(r)
       PROVE  TypeOK'
  BY <1>10 DEF Started, TypeOK, providerVars, Statuses
<1>11. ASSUME NEW r \in Refs, StartFails(r)
       PROVE  TypeOK'
  <2>1. TerminatedMsg(r) \in InboxMsgs
    BY DEF TerminatedMsg, InboxMsgs
  <2>2. inbox' \in Seq(InboxMsgs)
    BY <1>11, <2>1 DEF StartFails, NotifyWatcher, TypeOK
  <2>3. QED
    BY <1>11, <2>2 DEF StartFails, TypeOK, Statuses
<1>12. ASSUME NEW r \in Refs, Begin(r)
       PROVE  TypeOK'
  <2>1. Head(mailbox[r]) \in Messages /\ Tail(mailbox[r]) \in Seq(Messages)
    BY <1>12 DEF Begin, TypeOK
  <2>2. QED
    BY <1>12, <2>1 DEF Begin, TypeOK, providerVars
<1>13. ASSUME NEW r \in Refs, NEW reply \in Replies, End(r, reply)
       PROVE  TypeOK'
  <2>1. busy[r][1] \in Messages
    BY <1>13 DEF End, TypeOK
  <2>2. client' \in [Clients -> ClientStates]
    BY <1>13, <2>1, CompleteTypes DEF End, Messages, TypeOK
  <2>3. QED
    BY <1>13, <2>2 DEF End, TypeOK, providerVars, Statuses
<1>14. QED
  BY <1>1, <1>2, <1>3, <1>4, <1>5, <1>6, <1>7, <1>8, <1>9, <1>10, <1>11, <1>12, <1>13
     DEF Next, ClientStep, Supervisor, ActorStep

\* Every variable keeps its type: no message, promise or registration is ever
\* anything AkkaProvider.receive or AkkaAction.receive does not expect.
THEOREM TypeCorrect == Spec => []TypeOK
BY TypeInit, TypeStep, PTL DEF Spec

-----------------------------------------------------------------------------
(* The registry.                                                            *)

\* A registration is for the class of the actor, and the actor has been created.
RegisteredIsOwn ==
    \A k \in Classes :
        actorMap[k] # NoRef =>
            class[actorMap[k]] = k /\ status[actorMap[k]] # "unborn"

\* A supervisor that restarts has registered nothing, and what is left of its
\* children is on its way out; only then is an actor stopped while it is busy.
RestartIsClean ==
    /\ restarting => \A k \in Classes : actorMap[k] = NoRef
    /\ restarting => \A r \in Refs : status[r] \in Alive => status[r] = "stopping"
    /\ \A r \in Refs : status[r] = "stopping" => restarting

\* A Terminated message tells the truth.
TerminatedIsDead ==
    \A i \in DOMAIN inbox :
        inbox[i].type = "Terminated" => status[inbox[i].ref] = "dead"

\* OneActorPerClass is not inductive: that a second actor of a class is created only
\* when the first is gone takes NoOrphan, and that takes the other parts.
RegistryInv ==
    /\ TypeOK
    /\ RegisteredIsOwn
    /\ RestartIsClean
    /\ TerminatedIsDead
    /\ NoOrphan
    /\ OneActorPerClass
    /\ StaleIsTransient

\* A step that leaves registry, mailbox of the supervisor and actors alone.
LEMMA RegistryFrame ==
    ASSUME RegistryInv, TypeOK', UNCHANGED <<actorMap, restarting, inbox, status, class>>
    PROVE  RegistryInv'
BY DEF RegistryInv, RegisteredIsOwn, RestartIsClean, TerminatedIsDead, NoOrphan,
       OneActorPerClass, StaleIsTransient, AliveRefs

\* A Find message that is added, or handled, changes nothing about Terminated.
LEMMA TerminatedKept ==
    ASSUME TypeOK, inbox # <<>>, Head(inbox).type = "Find",
           TerminatedIsDead, status' = status, inbox' = Tail(inbox)
    PROVE  /\ TerminatedIsDead'
           /\ \A r \in Refs : (\E i \in DOMAIN inbox : inbox[i] = TerminatedMsg(r))
                 => \E i \in DOMAIN inbox' : inbox'[i] = TerminatedMsg(r)
<1>1. inbox \in Seq(InboxMsgs)
  BY DEF TypeOK
<1>2. TerminatedIsDead'
  <2> SUFFICES ASSUME NEW j \in DOMAIN Tail(inbox), Tail(inbox)[j].type = "Terminated"
               PROVE  status[Tail(inbox)[j].ref] = "dead"
    BY DEF TerminatedIsDead
  <2>1. PICK i \in DOMAIN inbox : inbox[i] = Tail(inbox)[j]
    BY <1>1, WasInQueue
  <2>2. QED
    BY <2>1 DEF TerminatedIsDead
<1>3. ASSUME NEW r \in Refs, NEW i \in DOMAIN inbox, inbox[i] = TerminatedMsg(r)
      PROVE  \E j \in DOMAIN Tail(inbox) : Tail(inbox)[j] = TerminatedMsg(r)
  <2>1. inbox[i] # Head(inbox)
    BY <1>3 DEF TerminatedMsg
  <2>2. QED
    BY <1>1, <1>3, <2>1, StaysInTail
<1>4. QED
  BY <1>2, <1>3

\* Every action keeps the registry invariant.
LEMMA RegistryStep == RegistryInv /\ [Next]_vars => RegistryInv'
<1> SUFFICES ASSUME RegistryInv, [Next]_vars PROVE RegistryInv'
  OBVIOUS
<1>0. TypeOK /\ TypeOK'
  BY TypeStep DEF RegistryInv
<1>t. inbox \in Seq(InboxMsgs)
  BY <1>0 DEF TypeOK
<1>1. CASE UNCHANGED vars
  BY <1>0, <1>1, RegistryFrame DEF vars
<1>2. ASSUME NEW c \in Clients, NEW k \in Classes, NEW p \in Payloads, Find(c, k, p)
      PROVE  RegistryInv'
  <2> DEFINE m == FindMsg([client |-> c, ask |-> client[c].ask + 1], k)
  <2>1. m \in InboxMsgs /\ m.type = "Find"
    BY <1>0 DEF FindMsg, InboxMsgs, AskIds, TypeOK, ClientStates
  <2>2. UNCHANGED <<actorMap, restarting, status, class>> /\ inbox' = Append(inbox, m)
    BY <1>2 DEF Find, actorVars
  <2> HIDE DEF m
  <2>3. TerminatedIsDead'
    BY <1>t, <2>1, <2>2, StaysInAppend DEF TerminatedIsDead, RegistryInv
  <2>4. StaleIsTransient'
    BY <1>t, <2>1, <2>2, StaysInAppend DEF StaleIsTransient, RegistryInv
  <2>5. QED
    BY <1>0, <2>2, <2>3, <2>4
       DEF RegistryInv, RegisteredIsOwn, RestartIsClean, NoOrphan, OneActorPerClass, AliveRefs
<1>3. ASSUME NEW c \in Clients, FindTimeout(c) \/ AskTimeout(c) \/ Return(c) \/ Ask(c)
      PROVE  RegistryInv'
  BY <1>0, <1>3, RegistryFrame
     DEF FindTimeout, AskTimeout, Return, Ask, providerVars, actorVars
<1>4. CASE FindRegistered
  <2>1. /\ UNCHANGED <<actorMap, restarting, status, class>>
        /\ inbox # <<>> /\ Head(inbox).type = "Find" /\ inbox' = Tail(inbox)
    BY <1>4 DEF FindRegistered, actorVars
  <2>2. /\ TerminatedIsDead'
        /\ \A r \in Refs : (\E i \in DOMAIN inbox : inbox[i] = TerminatedMsg(r))
              => \E i \in DOMAIN inbox' : inbox'[i] = TerminatedMsg(r)
    BY <1>0, <2>1, TerminatedKept DEF RegistryInv
  <2>3. StaleIsTransient'
    BY <1>0, <2>1, <2>2 DEF StaleIsTransient, RegistryInv, TypeOK
  <2>4. QED
    BY <1>0, <2>1, <2>2, <2>3
       DEF RegistryInv, RegisteredIsOwn, RestartIsClean, NoOrphan, OneActorPerClass, AliveRefs
<1>5. ASSUME NEW r \in Refs, FindCreates(r)
      PROVE  RegistryInv'
  <2> DEFINE k == Head(inbox).class
  <2>1. k \in Classes /\ r # NoRef /\ r \in Nat
    BY <1>t, <1>5, InboxHead, MaxRefsAssumption DEF FindCreates, Refs, NoRef
  <2>2. /\ ~restarting /\ restarting' = restarting
        /\ actorMap[k] = NoRef /\ actorMap' = [actorMap EXCEPT ![k] = r]
        /\ class' = [class EXCEPT ![r] = k]
        /\ status[r] = "unborn" /\ status' = [status EXCEPT ![r] = "starting"]
        /\ inbox # <<>> /\ Head(inbox).type = "Find" /\ inbox' = Tail(inbox)
    BY <1>5 DEF FindCreates, Register, Fresh
  <2> HIDE DEF k
  <2>3. \A l \in Classes : actorMap[l] # r
    BY <2>1, <2>2 DEF RegistryInv, RegisteredIsOwn
  <2>4. \A s \in Refs : status[s] \in Alive => class[s] # k
    BY <2>1, <2>2, <1>0 DEF RegistryInv, NoOrphan, AliveRefs, TypeOK, Refs, NoRef
  <2>5. RegisteredIsOwn'
    BY <1>0, <2>1, <2>2, <2>3 DEF RegistryInv, RegisteredIsOwn, TypeOK
  <2>6. RestartIsClean'
    BY <1>0, <2>2 DEF RegistryInv, RestartIsClean, TypeOK
  <2>7. TerminatedIsDead'
    <3> SUFFICES ASSUME NEW j \in DOMAIN Tail(inbox), Tail(inbox)[j].type = "Terminated"
                 PROVE  status'[Tail(inbox)[j].ref] = "dead"
      BY <2>2 DEF TerminatedIsDead
    <3>1. PICK i \in DOMAIN inbox : inbox[i] = Tail(inbox)[j]
      BY <1>t, <2>2, WasInQueue
    <3>2. status[inbox[i].ref] = "dead" /\ inbox[i] \in InboxMsgs
      BY <1>t, <3>1 DEF RegistryInv, TerminatedIsDead
    <3>3. inbox[i].ref \in Refs
      BY <3>1, <3>2 DEF InboxMsgs
    <3>4. QED
      BY <1>0, <2>2, <3>1, <3>2, <3>3 DEF TypeOK
  <2>8. NoOrphan'
    BY <1>0, <2>1, <2>2, <2>4 DEF RegistryInv, NoOrphan, AliveRefs, TypeOK
  <2>9. OneActorPerClass'
    BY <1>0, <2>2, <2>4 DEF RegistryInv, OneActorPerClass, TypeOK
  <2>10. StaleIsTransient'
    <3> SUFFICES ASSUME NEW l \in Classes, actorMap'[l] # NoRef,
                        status'[actorMap'[l]] = "dead"
                 PROVE  \E i \in DOMAIN inbox' : inbox'[i] = TerminatedMsg(actorMap'[l])
      BY DEF StaleIsTransient
    <3>1. l # k /\ actorMap'[l] = actorMap[l] /\ actorMap[l] \in Refs
      BY <1>0, <2>1, <2>2 DEF TypeOK
    <3>2. status[actorMap[l]] = "dead"
      BY <1>0, <2>2, <2>3, <3>1 DEF TypeOK
    <3>3. PICK i \in DOMAIN inbox : inbox[i] = TerminatedMsg(actorMap[l])
      BY <3>1, <3>2 DEF RegistryInv, StaleIsTransient
    <3>4. inbox[i] # Head(inbox)
      BY <2>2, <3>3 DEF TerminatedMsg
    <3>5. QED
      BY <1>t, <2>2, <3>1, <3>3, <3>4, StaysInTail
  <2>11. QED
    BY <1>0, <2>5, <2>6, <2>7, <2>8, <2>9, <2>10 DEF RegistryInv
<1>6. CASE FindThrows
  <2>1. /\ restarting' = TRUE
        /\ actorMap' = [k \in Classes |-> NoRef]
        /\ status' = [r \in Refs |-> IF status[r] \in Alive
                                     THEN IF busy[r] # <<>> THEN "stopping" ELSE "dead"
                                     ELSE status[r]]
        /\ class' = class
        /\ inbox # <<>> /\ inbox' = Tail(inbox)
    BY <1>6 DEF FindThrows
  <2>2. \A r \in Refs : /\ status'[r] \in Alive => status[r] \in Alive
                        /\ status'[r] \in Alive => status'[r] = "stopping"
                        /\ status[r] = "dead" => status'[r] = "dead"
    BY <1>0, <2>1 DEF TypeOK, Alive
  <2>3. RegisteredIsOwn' /\ NoOrphan' /\ StaleIsTransient' /\ RestartIsClean'
    BY <2>1, <2>2 DEF RegisteredIsOwn, NoOrphan, StaleIsTransient, RestartIsClean
  <2>4. OneActorPerClass'
    BY <2>1, <2>2 DEF RegistryInv, OneActorPerClass
  <2>5. TerminatedIsDead'
    <3> SUFFICES ASSUME NEW j \in DOMAIN Tail(inbox), Tail(inbox)[j].type = "Terminated"
                 PROVE  status'[Tail(inbox)[j].ref] = "dead"
      BY <2>1 DEF TerminatedIsDead
    <3>1. PICK i \in DOMAIN inbox : inbox[i] = Tail(inbox)[j]
      BY <1>t, <2>1, WasInQueue
    <3>2. status[inbox[i].ref] = "dead" /\ inbox[i] \in InboxMsgs
      BY <1>t, <3>1 DEF RegistryInv, TerminatedIsDead
    <3>3. inbox[i].ref \in Refs
      BY <3>1, <3>2 DEF InboxMsgs
    <3>4. QED
      BY <2>2, <3>1, <3>2, <3>3
  <2>6. QED
    BY <1>0, <2>3, <2>4, <2>5 DEF RegistryInv
<1>7. CASE Restarted
  <2>1. /\ restarting /\ restarting' = FALSE /\ AliveRefs = {}
        /\ UNCHANGED <<actorMap, inbox, status, class>>
    BY <1>7 DEF Restarted, ChildrenGone, actorVars
  <2>2. \A r \in Refs : status[r] \notin Alive
    BY <2>1 DEF AliveRefs
  <2>3. RestartIsClean' /\ NoOrphan' /\ OneActorPerClass'
    BY <2>1, <2>2 DEF RestartIsClean, NoOrphan, OneActorPerClass, AliveRefs, Alive
  <2>4. QED
    BY <1>0, <2>1, <2>3
       DEF RegistryInv, RegisteredIsOwn, TerminatedIsDead, StaleIsTransient
<1>8. CASE Terminated
  <2> DEFINE d == Head(inbox).ref
  <2>1. /\ ~restarting
        /\ actorMap' = [k \in Classes |-> IF actorMap[k] = d THEN NoRef ELSE actorMap[k]]
        /\ UNCHANGED <<restarting, status, class>>
        /\ inbox # <<>> /\ Head(inbox).type = "Terminated" /\ inbox' = Tail(inbox)
    BY <1>8 DEF Terminated, Forget, actorVars
  <2>2. d \in Refs /\ status[d] = "dead"
    <3>1. 1 \in DOMAIN inbox /\ inbox[1] = Head(inbox)
      BY <1>t, <2>1
    <3>2. QED
      BY <1>t, <2>1, <3>1, InboxHead DEF RegistryInv, TerminatedIsDead
  <2> HIDE DEF d
  <2>3. RegisteredIsOwn' /\ RestartIsClean' /\ OneActorPerClass'
    BY <2>1 DEF RegistryInv, RegisteredIsOwn, RestartIsClean, OneActorPerClass
  <2>4. NoOrphan'
    BY <1>0, <2>1, <2>2 DEF RegistryInv, NoOrphan, AliveRefs, Alive, TypeOK
  <2>5. TerminatedIsDead'
    <3> SUFFICES ASSUME NEW j \in DOMAIN Tail(inbox), Tail(inbox)[j].type = "Terminated"
                 PROVE  status[Tail(inbox)[j].ref] = "dead"
      BY <2>1 DEF TerminatedIsDead
    <3>1. PICK i \in DOMAIN inbox : inbox[i] = Tail(inbox)[j]
      BY <1>t, <2>1, WasInQueue
    <3>2. QED
      BY <3>1 DEF RegistryInv, TerminatedIsDead
  <2>6. StaleIsTransient'
    <3> SUFFICES ASSUME NEW l \in Classes, actorMap'[l] # NoRef, status[actorMap'[l]] = "dead"
                 PROVE  \E i \in DOMAIN inbox' : inbox'[i] = TerminatedMsg(actorMap'[l])
      BY <2>1 DEF StaleIsTransient
    <3>1. actorMap'[l] = actorMap[l] /\ actorMap[l] # d
      BY <2>1
    <3>2. PICK i \in DOMAIN inbox : inbox[i] = TerminatedMsg(actorMap[l])
      BY <3>1 DEF RegistryInv, StaleIsTransient
    <3>3. inbox[i] # Head(inbox)
      BY <3>1, <3>2 DEF TerminatedMsg, d
    <3>4. QED
      BY <1>t, <2>1, <3>1, <3>2, <3>3, StaysInTail
  <2>7. QED
    BY <1>0, <2>3, <2>4, <2>5, <2>6 DEF RegistryInv
<1>9. ASSUME NEW r \in Refs, Started(r)
      PROVE  RegistryInv'
  <2>1. /\ status[r] = "starting" /\ status' = [status EXCEPT ![r] = "live"]
        /\ UNCHANGED <<actorMap, restarting, inbox, class>>
    BY <1>9 DEF Started, providerVars
  <2>2. \A s \in Refs : /\ status'[s] \in Alive <=> status[s] \in Alive
                        /\ status'[s] = "stopping" <=> status[s] = "stopping"
                        /\ status'[s] = "dead" <=> status[s] = "dead"
                        /\ status'[s] = "unborn" <=> status[s] = "unborn"
    BY <1>0, <2>1 DEF TypeOK, Alive
  <2>3. ~restarting
    BY <2>1 DEF RegistryInv, RestartIsClean, Alive
  <2>4. RegisteredIsOwn' /\ StaleIsTransient'
    BY <1>0, <2>1, <2>2 DEF RegistryInv, RegisteredIsOwn, StaleIsTransient, TypeOK
  <2>5. RestartIsClean' /\ NoOrphan' /\ OneActorPerClass'
    BY <2>1, <2>2, <2>3 DEF RegistryInv, RestartIsClean, NoOrphan, OneActorPerClass, AliveRefs
  <2>6. TerminatedIsDead'
    <3> SUFFICES ASSUME NEW i \in DOMAIN inbox, inbox[i].type = "Terminated"
                 PROVE  status'[inbox[i].ref] = "dead"
      BY <2>1 DEF TerminatedIsDead
    <3>1. inbox[i] \in InboxMsgs /\ status[inbox[i].ref] = "dead"
      BY <1>t DEF RegistryInv, TerminatedIsDead
    <3>2. inbox[i].ref \in Refs
      BY <3>1 DEF InboxMsgs
    <3>3. QED
      BY <2>2, <3>1, <3>2
  <2>7. QED
    BY <1>0, <2>4, <2>5, <2>6 DEF RegistryInv
<1>10. ASSUME NEW r \in Refs, StartFails(r)
       PROVE  RegistryInv'
  <2>1. /\ status[r] = "starting" /\ status' = [status EXCEPT ![r] = "dead"]
        /\ inbox' = Append(inbox, TerminatedMsg(r))
        /\ UNCHANGED <<actorMap, restarting, class>>
    BY <1>10 DEF StartFails, NotifyWatcher
  <2>2. \A s \in Refs : /\ status'[s] \in Alive => status[s] \in Alive
                        /\ status'[s] = "stopping" <=> status[s] = "stopping"
                        /\ status'[s] = "dead" => status[s] = "dead" \/ s = r
                        /\ status[s] = "dead" => status'[s] = "dead"
                        /\ status'[s] = "unborn" <=> status[s] = "unborn"
                        /\ s # r => status'[s] = status[s]
    BY <1>0, <2>1 DEF TypeOK, Alive
  <2>3. ~restarting
    BY <2>1 DEF RegistryInv, RestartIsClean, Alive
  <2>4. TerminatedMsg(r) \in InboxMsgs
    BY DEF TerminatedMsg, InboxMsgs
  <2>5. /\ \A i \in DOMAIN inbox : i \in DOMAIN inbox' /\ inbox'[i] = inbox[i]
        /\ \A i \in DOMAIN inbox' : i \notin DOMAIN inbox => inbox'[i] = TerminatedMsg(r)
        /\ \E i \in DOMAIN inbox' : inbox'[i] = TerminatedMsg(r)
    BY <1>t, <2>1, <2>4, StaysInAppend
  <2>6. RegisteredIsOwn'
    BY <1>0, <2>1, <2>2 DEF RegistryInv, RegisteredIsOwn, TypeOK
  <2>7. RestartIsClean' /\ NoOrphan' /\ OneActorPerClass'
    BY <2>1, <2>2, <2>3 DEF RegistryInv, RestartIsClean, NoOrphan, OneActorPerClass, AliveRefs
  <2>8. TerminatedIsDead'
    <3> SUFFICES ASSUME NEW i \in DOMAIN inbox', inbox'[i].type = "Terminated"
                 PROVE  status'[inbox'[i].ref] = "dead"
      BY DEF TerminatedIsDead
    <3>1. CASE i \in DOMAIN inbox
      <4>1. inbox'[i] = inbox[i] /\ inbox[i] \in InboxMsgs /\ status[inbox[i].ref] = "dead"
        BY <1>t, <2>5, <3>1 DEF RegistryInv, TerminatedIsDead
      <4>2. inbox[i].ref \in Refs
        BY <4>1 DEF InboxMsgs
      <4>3. QED
        BY <2>2, <4>1, <4>2
    <3>2. CASE i \notin DOMAIN inbox
      <4>1. inbox'[i].ref = r
        BY <2>5, <3>2 DEF TerminatedMsg
      <4>2. QED
        BY <1>0, <2>1, <4>1 DEF TypeOK
    <3>3. QED
      BY <3>1, <3>2
  <2>9. StaleIsTransient'
    <3> SUFFICES ASSUME NEW l \in Classes, actorMap[l] # NoRef, status'[actorMap[l]] = "dead"
                 PROVE  \E i \in DOMAIN inbox' : inbox'[i] = TerminatedMsg(actorMap[l])
      BY <2>1 DEF StaleIsTransient
    <3>1. actorMap[l] \in Refs
      BY <1>0 DEF TypeOK
    <3>2. CASE actorMap[l] = r
      BY <2>5, <3>2
    <3>3. CASE actorMap[l] # r
      <4>1. PICK i \in DOMAIN inbox : inbox[i] = TerminatedMsg(actorMap[l])
        BY <2>2, <3>1, <3>3 DEF RegistryInv, StaleIsTransient
      <4>2. QED
        BY <2>5, <4>1
    <3>4. QED
      BY <3>2, <3>3
  <2>10. QED
    BY <1>0, <2>6, <2>7, <2>8, <2>9 DEF RegistryInv
<1>11. ASSUME NEW r \in Refs, Begin(r)
       PROVE  RegistryInv'
  BY <1>0, <1>11, RegistryFrame DEF Begin, providerVars
<1>12. ASSUME NEW r \in Refs, NEW reply \in Replies, End(r, reply)
       PROVE  RegistryInv'
  <2>1. /\ status' = [status EXCEPT ![r] = IF @ = "stopping" THEN "dead" ELSE @]
        /\ UNCHANGED <<actorMap, restarting, inbox, class>>
    BY <1>12 DEF End, providerVars
  <2>2. CASE status[r] # "stopping"
    <3>1. status' = status
      BY <1>0, <2>1, <2>2 DEF TypeOK
    <3>2. QED
      BY <1>0, <2>1, <3>1, RegistryFrame
  <2>3. CASE status[r] = "stopping"
    <3>1. restarting /\ \A k \in Classes : actorMap[k] = NoRef
      BY <2>3 DEF RegistryInv, RestartIsClean
    <3>2. \A s \in Refs : /\ status'[s] \in Alive => status[s] \in Alive
                          /\ status'[s] \in Alive => status'[s] = status[s]
                          /\ status[s] = "dead" => status'[s] = "dead"
      BY <1>0, <2>1, <2>3 DEF TypeOK, Alive
    <3>3. RegisteredIsOwn' /\ NoOrphan' /\ StaleIsTransient'
      BY <2>1, <3>1 DEF RegisteredIsOwn, NoOrphan, StaleIsTransient
    <3>4. RestartIsClean' /\ OneActorPerClass'
      BY <2>1, <3>1, <3>2 DEF RegistryInv, RestartIsClean, OneActorPerClass, Alive
    <3>5. TerminatedIsDead'
      <4> SUFFICES ASSUME NEW i \in DOMAIN inbox, inbox[i].type = "Terminated"
                   PROVE  status'[inbox[i].ref] = "dead"
        BY <2>1 DEF TerminatedIsDead
      <4>1. inbox[i] \in InboxMsgs /\ status[inbox[i].ref] = "dead"
        BY <1>t DEF RegistryInv, TerminatedIsDead
      <4>2. inbox[i].ref \in Refs
        BY <4>1 DEF InboxMsgs
      <4>3. QED
        BY <3>2, <4>1, <4>2
    <3>6. QED
      BY <1>0, <3>3, <3>4, <3>5 DEF RegistryInv
  <2>4. QED
    BY <2>2, <2>3
<1>13. QED
  BY <1>1, <1>2, <1>3, <1>4, <1>5, <1>6, <1>7, <1>8, <1>9, <1>10, <1>11, <1>12
     DEF Next, ClientStep, Supervisor, ActorStep

\* The registry invariant holds in every state.
LEMMA RegistryInvariant == Spec => []RegistryInv
<1>1. Init => RegistryInv
  <2> SUFFICES ASSUME Init PROVE RegistryInv
    OBVIOUS
  <2>1. TypeOK
    BY TypeInit
  <2>2. RegisteredIsOwn /\ StaleIsTransient
    BY DEF Init, RegisteredIsOwn, StaleIsTransient
  <2>3. RestartIsClean /\ NoOrphan /\ OneActorPerClass
    BY DEF Init, RestartIsClean, NoOrphan, OneActorPerClass, AliveRefs, Alive
  <2>4. TerminatedIsDead
    BY DEF Init, TerminatedIsDead
  <2>5. QED
    BY <2>1, <2>2, <2>3, <2>4 DEF RegistryInv
<1>2. QED
  BY <1>1, RegistryStep, PTL DEF Spec

\* However many callers, classes, failed starts and restarts there are, two actors of
\* one class are never alive together (AkkaProvider.getOrCreateActor).
THEOREM OneActor == Spec => []OneActorPerClass
BY RegistryInvariant, PTL DEF RegistryInv

\* A live actor stays registered until the supervisor restarts.
THEOREM NoActorIsLost == Spec => []NoOrphan
BY RegistryInvariant, PTL DEF RegistryInv

\* A dead actor is registered only while its Terminated message is on the way.
THEOREM StaleHasNews == Spec => []StaleIsTransient
BY RegistryInvariant, PTL DEF RegistryInv

-----------------------------------------------------------------------------
(* Asks and their answers.                                                  *)

\* The actor r has the message m in its mailbox or is handling it.
Held(r, m) ==
    \/ \E i \in DOMAIN mailbox[r] : mailbox[r][i] = m
    \/ \E i \in DOMAIN busy[r] : busy[r][i] = m

\* A Find is of a past ask, or names the class its caller waits for.
OwnFind(m) ==
    /\ m.id.ask <= client[m.id.client].ask
    /\ m.id.ask = client[m.id.client].ask /\ client[m.id.client].pc = "finding" =>
          m.class = client[m.id.client].class

\* A context is of an ask that is over, or its caller waits for the actor that has it.
OwnMessage(r, m) ==
    /\ m.id.ask <= client[m.id.client].ask
    /\ m.id.ask = client[m.id.client].ask =>
          /\ client[m.id.client].pc \notin {"finding", "found"}
          /\ client[m.id.client].pc = "asking" => client[m.id.client].ref = r

\* The supervisor has the Find message m to handle.
Pending(m) == m.type = "Find" /\ \E i \in DOMAIN inbox : inbox[i] = m

FindIsOwn == \A m \in InboxMsgs : Pending(m) => OwnFind(m)

MessageIsOwn ==
    \A r \in Refs, m \in Messages : Held(r, m) => OwnMessage(r, m)

\* The ActorRef a caller got is of an actor of the class it asked for.
RefIsOwn ==
    \A c \in Clients :
        client[c].pc \in {"found", "asking", "answered"} =>
            /\ client[c].ref \in Refs
            /\ status[client[c].ref] # "unborn"
            /\ class[client[c].ref] = client[c].class

AskInv == FindIsOwn /\ MessageIsOwn /\ RefIsOwn /\ AnswerIsOwn

\* Steps of supervisor and actors that complete no promise and create no actor.
LEMMA AskFrame ==
    ASSUME TypeOK, AskInv, client' = client, class' = class,
           \A r \in Refs : status'[r] = "unborn" => status[r] = "unborn",
           \A r \in Refs, m \in Messages : Held(r, m)' => Held(r, m),
           \A m \in InboxMsgs : Pending(m)' => Pending(m)
    PROVE  AskInv'
<1>1. FindIsOwn'
  BY DEF AskInv, FindIsOwn, OwnFind
<1>2. MessageIsOwn'
  BY DEF AskInv, MessageIsOwn, OwnMessage
<1>3. RefIsOwn' /\ AnswerIsOwn'
  BY DEF AskInv, RefIsOwn, AnswerIsOwn
<1>4. QED
  BY <1>1, <1>2, <1>3 DEF AskInv

\* One caller goes from waiting to another state of the same ask; nobody gets a message.
LEMMA ClientFrame ==
    ASSUME TypeOK, AskInv, NEW c \in Clients,
           \A d \in Clients : d # c => client'[d] = client[d],
           client'[c].ask = client[c].ask, client'[c].class = client[c].class,
           client'[c].pc # "finding",
           client'[c].pc \in {"found", "asking"} =>
               client[c].pc \in {"finding", "found"},
           client'[c].pc \in {"found", "asking", "answered"} =>
               /\ client'[c].ref \in Refs
               /\ status'[client'[c].ref] # "unborn"
               /\ class'[client'[c].ref] = client[c].class,
           client'[c].pc = "answered" =>
               client'[c].reply \in Replies /\ client'[c].from = client'[c].ref,
           \A r \in Refs : status[r] # "unborn" =>
               status'[r] # "unborn" /\ class'[r] = class[r],
           \A r \in Refs, m \in Messages : Held(r, m)' =>
               \/ Held(r, m)
               \/ /\ m.id = CurrentAsk(c)
                  /\ client'[c].pc = "asking" /\ client'[c].ref = r,
           \A m \in InboxMsgs : Pending(m)' => Pending(m)
    PROVE  AskInv'
<1>1. FindIsOwn'
  <2> SUFFICES ASSUME NEW m \in InboxMsgs, Pending(m)'
               PROVE  OwnFind(m)'
    BY DEF FindIsOwn
  <2>1. m.id.client \in Clients /\ OwnFind(m)
    BY DEF Pending, InboxMsgs, AskIds, AskInv, FindIsOwn
  <2>2. QED
    BY <2>1 DEF OwnFind
<1>2. MessageIsOwn'
  <2> SUFFICES ASSUME NEW r \in Refs, NEW m \in Messages, Held(r, m)'
               PROVE  OwnMessage(r, m)'
    BY DEF MessageIsOwn
  <2>1. m.id.client \in Clients /\ m.id.ask \in Nat
    BY DEF Messages, AskIds
  <2>2. CASE Held(r, m)
    <3>1. OwnMessage(r, m)
      BY <2>2 DEF AskInv, MessageIsOwn
    <3>2. QED
      BY <2>1, <3>1 DEF OwnMessage
  <2>3. CASE m.id = CurrentAsk(c) /\ client'[c].pc = "asking" /\ client'[c].ref = r
    <3>1. m.id.client = c /\ m.id.ask = client[c].ask
      BY <2>3 DEF CurrentAsk
    <3>2. QED
      BY <2>1, <2>3, <3>1 DEF OwnMessage
  <2>4. QED
    BY <2>2, <2>3
<1>3. RefIsOwn'
  BY DEF AskInv, RefIsOwn
<1>4. AnswerIsOwn'
  <2> SUFFICES ASSUME NEW d \in Clients, client'[d].pc = "answered"
               PROVE  /\ client'[d].reply \in Replies
                      /\ client'[d].from = client'[d].ref
                      /\ class'[client'[d].from] = client'[d].class
    BY DEF AnswerIsOwn
  <2>1. CASE d = c
    BY <2>1
  <2>2. CASE d # c
    BY <2>2 DEF AskInv, AnswerIsOwn, RefIsOwn
  <2>3. QED
    BY <2>1, <2>2
<1>5. QED
  BY <1>1, <1>2, <1>3, <1>4 DEF AskInv

\* Handling a message adds none.
LEMMA PendingTail ==
    ASSUME TypeOK, inbox # <<>>, inbox' = Tail(inbox)
    PROVE  \A m \in InboxMsgs : Pending(m)' => Pending(m)
BY WasInQueue DEF Pending, TypeOK

\* The head of the mailbox is pending, and asked for by its caller.
LEMMA HeadIsOwn ==
    ASSUME TypeOK, AskInv, inbox # <<>>, Head(inbox).type = "Find"
    PROVE  /\ Head(inbox).id.client \in Clients
           /\ OwnFind(Head(inbox))
<1>1. inbox \in Seq(InboxMsgs) /\ 1 \in DOMAIN inbox /\ inbox[1] = Head(inbox)
  BY DEF TypeOK
<1>2. Head(inbox) \in InboxMsgs /\ Pending(Head(inbox))
  BY <1>1 DEF Pending
<1>3. QED
  BY <1>2 DEF AskInv, FindIsOwn, InboxMsgs, AskIds

\* The supervisor answers a Find with an actor of the class.
LEMMA FindAnswered ==
    ASSUME TypeOK, AskInv, inbox # <<>>, Head(inbox).type = "Find", inbox' = Tail(inbox),
           NEW r \in Refs, CompleteFind(Head(inbox).id, r),
           status'[r] # "unborn", class'[r] = Head(inbox).class,
           \A s \in Refs : status[s] # "unborn" =>
               status'[s] # "unborn" /\ class'[s] = class[s],
           UNCHANGED <<mailbox, busy>>
    PROVE  AskInv'
<1> DEFINE c == Head(inbox).id.client
<1>1. c \in Clients /\ OwnFind(Head(inbox)) /\ client[c] \in ClientStates
  BY HeadIsOwn DEF TypeOK
<1>2. \A m \in InboxMsgs : Pending(m)' => Pending(m)
  BY PendingTail
<1>3. \A s \in Refs, m \in Messages : Held(s, m)' => Held(s, m)
  BY DEF Held
<1>4. CASE Waits(Head(inbox).id, "finding")
  <2>1. client[c].pc = "finding" /\ client[c].class = Head(inbox).class
    BY <1>1, <1>4 DEF Waits, OwnFind
  <2>2. client' = [client EXCEPT ![c].pc = "found", ![c].ref = r]
    BY <1>4 DEF CompleteFind
  <2>3. /\ \A d \in Clients : d # c => client'[d] = client[d]
        /\ client'[c] = [client[c] EXCEPT !.pc = "found", !.ref = r]
    BY <1>1, <2>2 DEF TypeOK
  <2>4. /\ client'[c].ask = client[c].ask /\ client'[c].class = client[c].class
        /\ client'[c].pc = "found" /\ client'[c].ref = r
    BY <1>1, <2>3 DEF ClientStates
  <2> HIDE DEF c
  <2>5. QED
    BY <1>1, <1>2, <1>3, <2>1, <2>3, <2>4, ClientFrame
<1>5. CASE ~Waits(Head(inbox).id, "finding")
  <2>1. client' = client
    BY <1>5 DEF CompleteFind
  <2>2. FindIsOwn'
    BY <1>2, <2>1 DEF AskInv, FindIsOwn, OwnFind
  <2>3. MessageIsOwn'
    BY <1>3, <2>1 DEF AskInv, MessageIsOwn, OwnMessage
  <2>4. RefIsOwn' /\ AnswerIsOwn'
    BY <2>1 DEF AskInv, RefIsOwn, AnswerIsOwn
  <2>5. QED
    BY <2>2, <2>3, <2>4 DEF AskInv
<1>6. QED
  BY <1>4, <1>5

\* A new ask: what is still around of the caller's earlier asks has a smaller number.
LEMMA NewAsk ==
    ASSUME TypeOK, AskInv, NEW c \in Clients, NEW k \in Classes, NEW p \in Payloads,
           Find(c, k, p)
    PROVE  AskInv'
<1> DEFINE id == [client |-> c, ask |-> client[c].ask + 1]
<1>1. client[c] \in ClientStates /\ client[c].ask \in Nat /\ FindMsg(id, k) \in InboxMsgs
  BY DEF FindMsg, InboxMsgs, AskIds, TypeOK, ClientStates
<1>2. /\ UNCHANGED <<status, class, mailbox, busy>>
      /\ inbox' = Append(inbox, FindMsg(id, k))
      /\ client' = [client EXCEPT ![c].pc = "finding", ![c].ask = @ + 1,
                                  ![c].class = k, ![c].payload = p, ![c].ref = NoRef,
                                  ![c].reply = NoReply, ![c].from = NoRef]
  BY DEF Find, actorVars
<1>3. \A d \in Clients : d # c => client'[d] = client[d]
  BY <1>2 DEF TypeOK
<1>4. client'[c].ask = client[c].ask + 1 /\ client'[c].class = k /\ client'[c].pc = "finding"
  <2>1. client'[c] = [client[c] EXCEPT !.pc = "finding", !.ask = @ + 1, !.class = k,
                           !.payload = p, !.ref = NoRef, !.reply = NoReply, !.from = NoRef]
    BY <1>2 DEF TypeOK
  <2>2. QED
    BY <1>1, <2>1 DEF ClientStates
<1>5. FindIsOwn'
  <2> SUFFICES ASSUME NEW m \in InboxMsgs, Pending(m)'
               PROVE  OwnFind(m)'
    BY DEF FindIsOwn
  <2>1. Pending(m) \/ m = FindMsg(id, k)
    BY <1>1, <1>2, StaysInAppend DEF Pending, TypeOK
  <2>2. CASE Pending(m)
    <3>1. OwnFind(m) /\ m.id.client \in Clients /\ m.id.ask \in Nat
      BY <2>2 DEF AskInv, FindIsOwn, Pending, InboxMsgs, AskIds
    <3>2. QED
      BY <1>1, <1>3, <1>4, <3>1 DEF OwnFind
  <2>3. CASE m = FindMsg(id, k)
    <3>1. m.id.client = c /\ m.id.ask = client[c].ask + 1 /\ m.class = k
      BY <2>3 DEF FindMsg
    <3>2. QED
      BY <1>1, <1>4, <3>1 DEF OwnFind
  <2>4. QED
    BY <2>1, <2>2, <2>3
<1>6. MessageIsOwn'
  <2> SUFFICES ASSUME NEW r \in Refs, NEW m \in Messages, Held(r, m)'
               PROVE  OwnMessage(r, m)'
    BY DEF MessageIsOwn
  <2>1. Held(r, m)
    BY <1>2 DEF Held
  <2>2. OwnMessage(r, m) /\ m.id.client \in Clients /\ m.id.ask \in Nat
    BY <2>1 DEF AskInv, MessageIsOwn, Messages, AskIds
  <2>3. QED
    BY <1>1, <1>3, <1>4, <2>2 DEF OwnMessage
<1>7. RefIsOwn' /\ AnswerIsOwn'
  <2>1. ASSUME NEW d \in Clients, client'[d].pc \in {"found", "asking", "answered"}
        PROVE  client'[d] = client[d]
    BY <1>3, <1>4, <2>1
  <2>2. RefIsOwn'
    BY <1>2, <2>1, Zenon DEF AskInv, RefIsOwn
  <2>3. AnswerIsOwn'
    BY <1>2, <2>1, Zenon DEF AskInv, AnswerIsOwn
  <2>4. QED
    BY <2>2, <2>3
<1>8. QED
  BY <1>5, <1>6, <1>7 DEF AskInv

\* Every action keeps the ask invariant.
LEMMA AskStep == RegistryInv /\ AskInv /\ [Next]_vars => AskInv'
<1> SUFFICES ASSUME RegistryInv, AskInv, [Next]_vars PROVE AskInv'
  OBVIOUS
<1>0. TypeOK
  BY DEF RegistryInv
<1>1. CASE UNCHANGED vars
  BY <1>0, <1>1, AskFrame DEF vars, Held, Pending
<1>2. ASSUME NEW c \in Clients, NEW k \in Classes, NEW p \in Payloads, Find(c, k, p)
      PROVE  AskInv'
  BY <1>0, <1>2, NewAsk
<1>3. ASSUME NEW c \in Clients, FindTimeout(c) \/ AskTimeout(c) \/ Return(c)
      PROVE  AskInv'
  <2>1. /\ UNCHANGED <<status, class, mailbox, busy, inbox>>
        /\ \E pc \in {"failed", "idle"} : client' = [client EXCEPT ![c].pc = pc]
    BY <1>3 DEF FindTimeout, AskTimeout, Return, providerVars, actorVars
  <2>2. PICK pc \in {"failed", "idle"} : client' = [client EXCEPT ![c].pc = pc]
    BY <2>1
  <2>3. /\ \A d \in Clients : d # c => client'[d] = client[d]
        /\ client'[c] = [client[c] EXCEPT !.pc = pc] /\ client[c] \in ClientStates
    BY <1>0, <2>2 DEF TypeOK
  <2>4. /\ client'[c].ask = client[c].ask /\ client'[c].class = client[c].class
        /\ client'[c].pc \in {"failed", "idle"}
    BY <2>3 DEF ClientStates
  <2>5. /\ \A r \in Refs, m \in Messages : Held(r, m)' => Held(r, m)
        /\ \A m \in InboxMsgs : Pending(m)' => Pending(m)
    BY <2>1 DEF Held, Pending
  <2>6. QED
    BY <1>0, <2>1, <2>3, <2>4, <2>5, ClientFrame
<1>4. ASSUME NEW c \in Clients, Ask(c)
      PROVE  AskInv'
  <2> DEFINE r == client[c].ref
             x == [id |-> CurrentAsk(c), payload |-> client[c].payload]
  <2>1. /\ client[c].pc = "found"
        /\ UNCHANGED <<status, class, busy, inbox>>
        /\ client' = [client EXCEPT ![c].pc = "asking"]
        /\ mailbox' = mailbox \/ mailbox' = [mailbox EXCEPT ![r] = Append(@, x)]
    BY <1>4, Zenon DEF Ask, providerVars
  <2>2. r \in Refs /\ status[r] # "unborn" /\ class[r] = client[c].class
    BY <2>1 DEF AskInv, RefIsOwn
  <2>3. /\ \A d \in Clients : d # c => client'[d] = client[d]
        /\ client'[c] = [client[c] EXCEPT !.pc = "asking"] /\ client[c] \in ClientStates
    BY <1>0, <2>1 DEF TypeOK
  <2>4. /\ client'[c].ask = client[c].ask /\ client'[c].class = client[c].class
        /\ client'[c].pc = "asking" /\ client'[c].ref = r
    BY <2>3 DEF ClientStates
  <2>5. ASSUME NEW s \in Refs, NEW m \in Messages, Held(s, m)'
        PROVE  Held(s, m) \/ (m.id = CurrentAsk(c) /\ s = r)
    <3>1. CASE mailbox' = mailbox \/ s # r
      <4>1. mailbox'[s] = mailbox[s]
        BY <1>0, <2>1, <3>1 DEF TypeOK
      <4>2. QED
        BY <2>1, <2>5, <4>1 DEF Held
    <3>2. CASE mailbox' = [mailbox EXCEPT ![r] = Append(@, x)] /\ s = r
      <4>1. mailbox'[s] = Append(mailbox[s], x) /\ mailbox[s] \in Seq(Messages)
        BY <1>0, <3>2 DEF TypeOK
      <4>2. x \in Messages /\ x.id = CurrentAsk(c)
        BY <1>0 DEF CurrentAsk, Messages, AskIds, TypeOK, ClientStates
      <4> HIDE DEF x
      <4>3. \A i \in DOMAIN mailbox'[s] :
               \/ i \in DOMAIN mailbox[s] /\ mailbox'[s][i] = mailbox[s][i]
               \/ mailbox'[s][i] = x
        BY <4>1, <4>2
      <4>4. QED
        BY <2>1, <2>5, <3>2, <4>2, <4>3 DEF Held
    <3>3. QED
      BY <2>1, <3>1, <3>2
  <2>6. \A m \in InboxMsgs : Pending(m)' => Pending(m)
    BY <2>1 DEF Pending
  <2> HIDE DEF r, x
  <2>7. QED
    BY <1>0, <2>1, <2>2, <2>3, <2>4, <2>5, <2>6, ClientFrame
<1>5. CASE FindRegistered
  <2> DEFINE r == actorMap[Head(inbox).class]
  <2>1. /\ UNCHANGED <<status, class, mailbox, busy>>
        /\ inbox # <<>> /\ Head(inbox).type = "Find" /\ inbox' = Tail(inbox)
        /\ r # NoRef /\ CompleteFind(Head(inbox).id, r)
    BY <1>5 DEF FindRegistered, actorVars
  <2>2. Head(inbox).class \in Classes
    BY <1>0, <2>1, InboxHead DEF TypeOK
  <2>3. r \in Refs /\ status[r] # "unborn" /\ class[r] = Head(inbox).class
    BY <1>0, <2>1, <2>2 DEF TypeOK, RegistryInv, RegisteredIsOwn
  <2> HIDE DEF r
  <2>4. QED
    BY <1>0, <2>1, <2>3, FindAnswered
<1>6. ASSUME NEW r \in Refs, FindCreates(r)
      PROVE  AskInv'
  <2>1. /\ UNCHANGED <<mailbox, busy>>
        /\ inbox # <<>> /\ Head(inbox).type = "Find" /\ inbox' = Tail(inbox)
        /\ CompleteFind(Head(inbox).id, r)
        /\ class' = [class EXCEPT ![r] = Head(inbox).class]
        /\ status[r] = "unborn" /\ status' = [status EXCEPT ![r] = "starting"]
    BY <1>6 DEF FindCreates, Fresh
  <2>2. /\ status'[r] # "unborn" /\ class'[r] = Head(inbox).class
        /\ \A s \in Refs : status[s] # "unborn" =>
               status'[s] # "unborn" /\ class'[s] = class[s]
    BY <1>0, <2>1 DEF TypeOK
  <2>3. QED
    BY <1>0, <2>1, <2>2, FindAnswered
<1>7. CASE FindThrows
  <2>1. /\ client' = client /\ class' = class /\ busy' = busy
        /\ mailbox' = [r \in Refs |-> <<>>] /\ inbox # <<>> /\ inbox' = Tail(inbox)
    BY <1>7 DEF FindThrows
  <2>2. \A r \in Refs : status'[r] = "unborn" => status[r] = "unborn"
    BY <1>7, <1>0 DEF FindThrows, TypeOK
  <2>3. \A r \in Refs, m \in Messages : Held(r, m)' => Held(r, m)
    BY <2>1 DEF Held
  <2>4. QED
    BY <1>0, <2>1, <2>2, <2>3, PendingTail, AskFrame
<1>8. CASE Restarted
  BY <1>0, <1>8, AskFrame DEF Restarted, actorVars, Held, Pending
<1>9. CASE Terminated
  <2>1. /\ UNCHANGED <<client, class, status, mailbox, busy>>
        /\ inbox # <<>> /\ inbox' = Tail(inbox)
    BY <1>9 DEF Terminated, actorVars
  <2>2. \A r \in Refs, m \in Messages : Held(r, m)' => Held(r, m)
    BY <2>1 DEF Held
  <2>3. QED
    BY <1>0, <2>1, <2>2, PendingTail, AskFrame
<1>10. ASSUME NEW r \in Refs, Started(r)
       PROVE  AskInv'
  <2>1. /\ UNCHANGED <<client, class, mailbox, busy, inbox>>
        /\ \A s \in Refs : status'[s] = "unborn" => status[s] = "unborn"
    BY <1>0, <1>10 DEF Started, providerVars, TypeOK
  <2>2. /\ \A s \in Refs, m \in Messages : Held(s, m)' => Held(s, m)
        /\ \A m \in InboxMsgs : Pending(m)' => Pending(m)
    BY <2>1 DEF Held, Pending
  <2>3. QED
    BY <1>0, <2>1, <2>2, AskFrame
<1>11. ASSUME NEW r \in Refs, StartFails(r)
       PROVE  AskInv'
  <2>1. /\ UNCHANGED <<client, class, busy>>
        /\ mailbox' = [mailbox EXCEPT ![r] = <<>>]
        /\ inbox' = Append(inbox, TerminatedMsg(r))
        /\ \A s \in Refs : status'[s] = "unborn" => status[s] = "unborn"
    BY <1>0, <1>11 DEF StartFails, NotifyWatcher, TypeOK
  <2>2. \A s \in Refs, m \in Messages : Held(s, m)' => Held(s, m)
    BY <1>0, <2>1 DEF Held, TypeOK
  <2>3. TerminatedMsg(r) \in InboxMsgs /\ TerminatedMsg(r).type # "Find"
    BY DEF TerminatedMsg, InboxMsgs
  <2>4. \A m \in InboxMsgs : Pending(m)' => Pending(m)
    BY <1>0, <2>1, <2>3, StaysInAppend DEF Pending, TypeOK
  <2>5. QED
    BY <1>0, <2>1, <2>2, <2>4, AskFrame
<1>12. ASSUME NEW r \in Refs, Begin(r)
       PROVE  AskInv'
  <2>1. /\ UNCHANGED <<client, class, status, inbox>>
        /\ mailbox[r] # <<>> /\ mailbox[r] \in Seq(Messages)
        /\ busy' = [busy EXCEPT ![r] = <<Head(mailbox[r])>>]
        /\ mailbox' = [mailbox EXCEPT ![r] = Tail(@)]
    BY <1>0, <1>12 DEF Begin, providerVars, TypeOK
  <2>2. ASSUME NEW s \in Refs, NEW m \in Messages, Held(s, m)'
        PROVE  Held(s, m)
    <3>1. CASE s # r
      BY <1>0, <2>1, <2>2, <3>1 DEF Held, TypeOK
    <3>2. CASE s = r
      <4>1. mailbox'[r] = Tail(mailbox[r]) /\ busy'[r] = <<Head(mailbox[r])>>
        BY <1>0, <2>1 DEF TypeOK
      <4>2. CASE \E j \in DOMAIN mailbox'[r] : mailbox'[r][j] = m
        BY <2>1, <3>2, <4>1, <4>2, WasInQueue DEF Held
      <4>3. CASE \E j \in DOMAIN busy'[r] : busy'[r][j] = m
        <5>1. m = Head(mailbox[r])
          BY <4>1, <4>3
        <5>2. 1 \in DOMAIN mailbox[r] /\ mailbox[r][1] = m
          BY <2>1, <5>1
        <5>3. QED
          BY <3>2, <5>2 DEF Held
      <4>4. QED
        BY <2>2, <3>2, <4>2, <4>3 DEF Held
    <3>3. QED
      BY <3>1, <3>2
  <2>3. \A m \in InboxMsgs : Pending(m)' => Pending(m)
    BY <2>1 DEF Pending
  <2>4. QED
    BY <1>0, <2>1, <2>2, <2>3, AskFrame
<1>13. ASSUME NEW r \in Refs, NEW reply \in Replies, End(r, reply)
       PROVE  AskInv'
  <2> DEFINE x == busy[r][1]
             c == x.id.client
  <2>1. /\ UNCHANGED <<class, mailbox, inbox>>
        /\ busy[r] # <<>> /\ busy' = [busy EXCEPT ![r] = <<>>]
        /\ CompleteAsk(x.id, r, reply)
        /\ \A s \in Refs : status'[s] = "unborn" <=> status[s] = "unborn"
    BY <1>0, <1>13 DEF End, providerVars, TypeOK
  <2>2. /\ \A s \in Refs, m \in Messages : Held(s, m)' => Held(s, m)
        /\ \A m \in InboxMsgs : Pending(m)' => Pending(m)
    BY <1>0, <2>1 DEF Held, Pending, TypeOK
  <2>3. x \in Messages /\ 1 \in DOMAIN busy[r]
    BY <1>0, <2>1 DEF TypeOK
  <2>4. c \in Clients /\ OwnMessage(r, x) /\ client[c] \in ClientStates
    BY <1>0, <2>3 DEF AskInv, MessageIsOwn, Held, Messages, AskIds, TypeOK
  <2> HIDE DEF x
  <2>5. CASE Waits(x.id, "asking")
    <3>1. client[c].pc = "asking" /\ client[c].ref = r
      BY <2>4, <2>5 DEF Waits, OwnMessage
    <3>2. client' = [client EXCEPT ![c].pc = "answered", ![c].reply = reply, ![c].from = r]
      BY <2>1, <2>5 DEF CompleteAsk
    <3>3. \A d \in Clients : d # c => client'[d] = client[d]
      BY <3>2, <1>0 DEF TypeOK
    <3>4. /\ client'[c].ask = client[c].ask /\ client'[c].class = client[c].class
          /\ client'[c].pc = "answered" /\ client'[c].ref = r
          /\ client'[c].reply = reply /\ client'[c].from = r
      <4>1. client'[c] = [client[c] EXCEPT !.pc = "answered", !.reply = reply, !.from = r]
        BY <1>0, <2>4, <3>2 DEF TypeOK
      <4>2. QED
        BY <2>4, <3>1, <4>1 DEF ClientStates
    <3>5. status[r] # "unborn" /\ class[r] = client[c].class
      BY <2>4, <3>1 DEF AskInv, RefIsOwn
    <3> HIDE DEF c
    <3>6. QED
      BY <1>0, <2>1, <2>2, <2>4, <3>3, <3>4, <3>5, ClientFrame
  <2>6. CASE ~Waits(x.id, "asking")
    <3>1. client' = client
      BY <2>1, <2>6 DEF CompleteAsk
    <3>2. QED
      BY <1>0, <2>1, <2>2, <3>1, AskFrame
  <2>7. QED
    BY <2>5, <2>6
<1>14. QED
  BY <1>1, <1>2, <1>3, <1>4, <1>5, <1>6, <1>7, <1>8, <1>9, <1>10, <1>11, <1>12, <1>13
     DEF Next, ClientStep, Supervisor, ActorStep

\* No ask has been made in the initial state.
LEMMA AskInit == Init => AskInv
<1> SUFFICES ASSUME Init PROVE AskInv
  OBVIOUS
<1>1. FindIsOwn
  BY DEF Init, FindIsOwn, Pending
<1>2. MessageIsOwn
  BY DEF Init, MessageIsOwn, Held
<1>3. RefIsOwn /\ AnswerIsOwn
  BY DEF Init, RefIsOwn, AnswerIsOwn
<1>4. QED
  BY <1>1, <1>2, <1>3 DEF AskInv

\* The ask invariant holds in every state.
LEMMA AskInvariant == Spec => []AskInv
BY AskInit, AskStep, RegistryInvariant, PTL DEF Spec

\* A reply is taken only by the ask it answers, and comes from an actor of the class
\* that was asked for, whatever timeouts, late replies and restarts happen.
THEOREM AnswersAreOwn == Spec => []AnswerIsOwn
BY AskInvariant, PTL DEF AskInv

=============================================================================
