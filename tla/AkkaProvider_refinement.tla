---------------------- MODULE AkkaProvider_refinement ----------------------
(***************************************************************************)
(* Registry, actors and restarts implement the plain call of ActionService, *)
(* for every number of callers, classes, actors and asks.  What the proof   *)
(* needs beyond the invariants of AkkaProvider_proofs is that a context is  *)
(* in one place at a time: then the actor that answers it takes away just   *)
(* that piece of work.                                                      *)
(***************************************************************************)
EXTENDS AkkaProvider_proofs

-----------------------------------------------------------------------------
(* A context is in one place.                                               *)

\* An ask has one context, and one actor has it.
AskIsUnique ==
    \A r, s \in Refs, m, n \in Messages :
        Held(r, m) /\ Held(s, n) /\ m.id = n.id => r = s /\ m = n

\* A context is once in a mailbox, and not there any more when it is being handled.
NoRepeat ==
    \A r \in Refs :
        /\ \A i, j \in DOMAIN mailbox[r] : mailbox[r][i] = mailbox[r][j] => i = j
        /\ \A i \in DOMAIN mailbox[r], j \in DOMAIN busy[r] : mailbox[r][i] # busy[r][j]

\* An actor that was not created yet has nothing to do.
UnbornIsIdle ==
    \A r \in Refs : status[r] = "unborn" => mailbox[r] = <<>> /\ busy[r] = <<>>

PlaceInv == AskIsUnique /\ NoRepeat /\ UnbornIsIdle

\* A step that hands out no context keeps asks unique.
LEMMA UniqueFrame ==
    ASSUME PlaceInv, \A r \in Refs, m \in Messages : Held(r, m)' => Held(r, m)
    PROVE  AskIsUnique'
BY DEF PlaceInv, AskIsUnique

\* A step that leaves mailboxes alone, and creates at most an actor with an empty one.
LEMMA PlaceFrame ==
    ASSUME PlaceInv, UNCHANGED <<mailbox, busy>>,
           \A r \in Refs : status'[r] = "unborn" => status[r] = "unborn"
    PROVE  PlaceInv'
<1>1. \A r \in Refs, m \in Messages : Held(r, m)' => Held(r, m)
  BY DEF Held
<1>2. AskIsUnique'
  BY <1>1, UniqueFrame
<1>3. NoRepeat' /\ UnbornIsIdle'
  BY DEF PlaceInv, NoRepeat, UnbornIsIdle
<1>4. QED
  BY <1>2, <1>3 DEF PlaceInv

\* Ask puts the context behind the others: the caller had not sent it to anyone.
LEMMA PlaceAsk ==
    ASSUME TypeOK, AskInv, PlaceInv, NEW c \in Clients, Ask(c)
    PROVE  PlaceInv'
<1> DEFINE r == client[c].ref
           x == [id |-> CurrentAsk(c), payload |-> client[c].payload]
<1>1. /\ client[c].pc = "found"
      /\ UNCHANGED <<status, busy>>
      /\ \/ mailbox' = mailbox
         \/ mailbox' = [mailbox EXCEPT ![r] = Append(@, x)]
  BY Zenon DEF Ask
<1>2. r \in Refs /\ status[r] # "unborn"
  BY <1>1 DEF AskInv, RefIsOwn
<1>3. x \in Messages /\ x.id.client = c /\ x.id.ask = client[c].ask
  BY DEF CurrentAsk, Messages, AskIds, TypeOK, ClientStates
<1>4. \A s \in Refs, m \in Messages : Held(s, m) => m.id # x.id
  BY <1>1, <1>3 DEF AskInv, MessageIsOwn, OwnMessage
<1> HIDE DEF r, x
<1>5. CASE mailbox' = mailbox
  BY <1>1, <1>5, PlaceFrame
<1>6. CASE mailbox' = [mailbox EXCEPT ![r] = Append(@, x)]
  <2>1. /\ mailbox[r] \in Seq(Messages)
        /\ mailbox'[r] = Append(mailbox[r], x)
        /\ \A s \in Refs : s # r => mailbox'[s] = mailbox[s]
    BY <1>2, <1>6 DEF TypeOK
  <2>2. \A i \in DOMAIN mailbox'[r] :
            \/ i \in DOMAIN mailbox[r] /\ mailbox'[r][i] = mailbox[r][i]
            \/ i = Len(mailbox[r]) + 1 /\ mailbox'[r][i] = x
    BY <1>3, <2>1
  <2>3. ASSUME NEW s \in Refs, NEW m \in Messages, Held(s, m)'
        PROVE  Held(s, m) \/ (s = r /\ m = x)
    BY <1>1, <2>1, <2>2, <2>3 DEF Held
  <2>4. AskIsUnique'
    BY <1>4, <2>3 DEF PlaceInv, AskIsUnique
  <2>5. NoRepeat'
    <3> SUFFICES ASSUME NEW s \in Refs
                 PROVE  /\ \A i, j \in DOMAIN mailbox'[s] :
                              mailbox'[s][i] = mailbox'[s][j] => i = j
                        /\ \A i \in DOMAIN mailbox'[s], j \in DOMAIN busy[s] :
                              mailbox'[s][i] # busy[s][j]
      BY <1>1 DEF NoRepeat
    <3>1. CASE s # r
      BY <2>1, <3>1 DEF PlaceInv, NoRepeat
    <3>2. CASE s = r
      <4>1. \A i \in DOMAIN mailbox[r] : mailbox[r][i] # x
        <5> SUFFICES ASSUME NEW i \in DOMAIN mailbox[r], mailbox[r][i] = x
                     PROVE  FALSE
          OBVIOUS
        <5>1. Held(r, x)
          BY DEF Held
        <5>2. QED
          BY <1>2, <1>3, <1>4, <5>1
      <4>2. \A i \in DOMAIN busy[r] : busy[r][i] # x
        <5> SUFFICES ASSUME NEW i \in DOMAIN busy[r], busy[r][i] = x
                     PROVE  FALSE
          OBVIOUS
        <5>1. Held(r, x)
          BY DEF Held
        <5>2. QED
          BY <1>2, <1>3, <1>4, <5>1
      <4>3. /\ \A i, j \in DOMAIN mailbox[r] : mailbox[r][i] = mailbox[r][j] => i = j
            /\ \A i \in DOMAIN mailbox[r], j \in DOMAIN busy[r] :
                  mailbox[r][i] # busy[r][j]
        BY <1>2 DEF PlaceInv, NoRepeat
      <4>4. QED
        BY <2>2, <3>2, <4>1, <4>2, <4>3
    <3>3. QED
      BY <3>1, <3>2
  <2>6. UnbornIsIdle'
    BY <1>1, <1>2, <2>1 DEF PlaceInv, UnbornIsIdle
  <2>7. QED
    BY <2>4, <2>5, <2>6 DEF PlaceInv
<1>7. QED
  BY <1>1, <1>5, <1>6

\* Begin moves a context from the mailbox to the actor's hands.
LEMMA PlaceBegin ==
    ASSUME TypeOK, PlaceInv, NEW r \in Refs, Begin(r)
    PROVE  /\ \A s \in Refs, m \in Messages : Held(s, m)' <=> Held(s, m)
           /\ PlaceInv'
<1>1. /\ status' = status /\ status[r] = "live" /\ busy[r] = <<>>
      /\ mailbox[r] # <<>> /\ mailbox[r] \in Seq(Messages)
      /\ busy'[r] = <<Head(mailbox[r])>> /\ mailbox'[r] = Tail(mailbox[r])
      /\ \A s \in Refs : s # r => mailbox'[s] = mailbox[s] /\ busy'[s] = busy[s]
  BY DEF Begin, TypeOK
<1>2. /\ \A i \in DOMAIN mailbox'[r] :
            i + 1 \in DOMAIN mailbox[r] /\ mailbox'[r][i] = mailbox[r][i + 1]
      /\ \A i \in DOMAIN mailbox[r] :
            i = 1 \/ (i - 1 \in DOMAIN mailbox'[r] /\ mailbox'[r][i - 1] = mailbox[r][i])
      /\ 1 \in DOMAIN mailbox[r] /\ Head(mailbox[r]) = mailbox[r][1]
      /\ DOMAIN mailbox[r] \subseteq Nat /\ DOMAIN mailbox'[r] \subseteq Nat \ {0}
  BY <1>1, SMTT(30)
<1>3. 1 \in DOMAIN busy'[r] /\ \A i \in DOMAIN busy'[r] : i = 1 /\ busy'[r][i] = mailbox[r][1]
  BY <1>1, <1>2
<1>4. \A s \in Refs, m \in Messages : Held(s, m)' <=> Held(s, m)
  <2> SUFFICES ASSUME NEW s \in Refs, NEW m \in Messages
               PROVE  Held(s, m)' <=> Held(s, m)
    OBVIOUS
  <2>1. CASE s # r
    BY <1>1, <2>1 DEF Held
  <2>2. CASE s = r
    <3>1. Held(r, m)' <=> (\E i \in DOMAIN mailbox'[r] : mailbox'[r][i] = m)
                             \/ mailbox[r][1] = m
      BY <1>3 DEF Held
    <3>2. Held(r, m) <=> \E i \in DOMAIN mailbox[r] : mailbox[r][i] = m
      BY <1>1 DEF Held
    <3>3. (\E i \in DOMAIN mailbox[r] : mailbox[r][i] = m)
              => (\E i \in DOMAIN mailbox'[r] : mailbox'[r][i] = m) \/ mailbox[r][1] = m
      BY <1>2
    <3>4. (\E i \in DOMAIN mailbox'[r] : mailbox'[r][i] = m)
              => \E i \in DOMAIN mailbox[r] : mailbox[r][i] = m
      BY <1>2
    <3>5. mailbox[r][1] = m => \E i \in DOMAIN mailbox[r] : mailbox[r][i] = m
      BY <1>2
    <3>6. QED
      BY <2>2, <3>1, <3>2, <3>3, <3>4, <3>5
  <2>3. QED
    BY <2>1, <2>2
<1>5. AskIsUnique'
  BY <1>4, UniqueFrame
<1>6. NoRepeat'
  <2> SUFFICES ASSUME NEW s \in Refs
               PROVE  /\ \A i, j \in DOMAIN mailbox'[s] :
                            mailbox'[s][i] = mailbox'[s][j] => i = j
                      /\ \A i \in DOMAIN mailbox'[s], j \in DOMAIN busy'[s] :
                            mailbox'[s][i] # busy'[s][j]
    BY DEF NoRepeat
  <2>1. CASE s # r
    BY <1>1, <2>1 DEF PlaceInv, NoRepeat
  <2>2. CASE s = r
    <3>1. \A i, j \in DOMAIN mailbox[r] : mailbox[r][i] = mailbox[r][j] => i = j
      BY DEF PlaceInv, NoRepeat
    <3>2. QED
      BY <1>2, <1>3, <2>2, <3>1
  <2>3. QED
    BY <2>1, <2>2
<1>7. UnbornIsIdle'
  BY <1>1 DEF PlaceInv, UnbornIsIdle
<1>8. QED
  BY <1>4, <1>5, <1>6, <1>7 DEF PlaceInv

\* End takes away the context that was handled, and no other.
LEMMA PlaceEnd ==
    ASSUME TypeOK, PlaceInv, NEW r \in Refs, NEW reply, End(r, reply)
    PROVE  /\ busy[r][1] \in Messages /\ Held(r, busy[r][1])
           /\ \A s \in Refs, m \in Messages :
                 Held(s, m)' <=> Held(s, m) /\ ~(s = r /\ m = busy[r][1])
           /\ PlaceInv'
<1>1. /\ busy[r] \in Seq(Messages) /\ busy[r] # <<>> /\ Len(busy[r]) <= 1
      /\ mailbox' = mailbox
      /\ busy'[r] = <<>>
      /\ \A s \in Refs : s # r => busy'[s] = busy[s]
      /\ \A s \in Refs : status'[s] = "unborn" => status[s] = "unborn"
  BY DEF End, TypeOK
<1>2. /\ 1 \in DOMAIN busy[r] /\ \A i \in DOMAIN busy[r] : i = 1
      /\ busy[r][1] \in Messages /\ DOMAIN busy'[r] = {}
  BY <1>1
<1>3. Held(r, busy[r][1])
  BY <1>2 DEF Held
<1>4. \A s \in Refs, m \in Messages :
          Held(s, m)' <=> Held(s, m) /\ ~(s = r /\ m = busy[r][1])
  <2> SUFFICES ASSUME NEW s \in Refs, NEW m \in Messages
               PROVE  Held(s, m)' <=> Held(s, m) /\ ~(s = r /\ m = busy[r][1])
    OBVIOUS
  <2>1. CASE s # r
    BY <1>1, <2>1 DEF Held
  <2>2. CASE s = r
    <3>1. \A i \in DOMAIN mailbox[r] : mailbox[r][i] # busy[r][1]
      BY <1>2 DEF PlaceInv, NoRepeat
    <3>2. QED
      BY <1>1, <1>2, <2>2, <3>1 DEF Held
  <2>3. QED
    BY <2>1, <2>2
<1>5. AskIsUnique'
  BY <1>4, UniqueFrame
<1>6. NoRepeat' /\ UnbornIsIdle'
  BY <1>1, <1>2 DEF PlaceInv, NoRepeat, UnbornIsIdle
<1>7. QED
  BY <1>2, <1>3, <1>4, <1>5, <1>6 DEF PlaceInv

\* A stop empties mailboxes and leaves what is being handled.
LEMMA PlaceLost ==
    ASSUME TypeOK, PlaceInv, busy' = busy,
           \A r \in Refs : mailbox'[r] = mailbox[r] \/ mailbox'[r] = <<>>,
           \A r \in Refs : status'[r] = "unborn" => status[r] = "unborn"
    PROVE  /\ \A r \in Refs, m \in Messages : Held(r, m)' => Held(r, m)
           /\ PlaceInv'
<1>1. \A r \in Refs : \A i \in DOMAIN mailbox'[r] : mailbox'[r] = mailbox[r]
  OBVIOUS
<1>2. \A r \in Refs, m \in Messages : Held(r, m)' => Held(r, m)
  BY <1>1 DEF Held
<1>3. AskIsUnique'
  BY <1>2, UniqueFrame
<1>4. NoRepeat'
  BY <1>1 DEF PlaceInv, NoRepeat
<1>5. UnbornIsIdle'
  BY DEF PlaceInv, UnbornIsIdle
<1>6. QED
  BY <1>2, <1>3, <1>4, <1>5 DEF PlaceInv

\* Every action keeps a context in one place.
LEMMA PlaceStep == TypeOK /\ AskInv /\ PlaceInv /\ [Next]_vars => PlaceInv'
<1> SUFFICES ASSUME TypeOK, AskInv, PlaceInv, [Next]_vars PROVE PlaceInv'
  OBVIOUS
<1>1. CASE UNCHANGED vars
  BY <1>1, PlaceFrame DEF vars
<1>2. ASSUME NEW c \in Clients,
             \/ \E k \in Classes, p \in Payloads : Find(c, k, p)
             \/ FindTimeout(c) \/ AskTimeout(c) \/ Return(c)
      PROVE  PlaceInv'
  <2>1. UNCHANGED <<status, mailbox, busy>>
    BY <1>2 DEF Find, FindTimeout, AskTimeout, Return, actorVars
  <2>2. QED
    BY <2>1, PlaceFrame
<1>3. ASSUME NEW c \in Clients, Ask(c)
      PROVE  PlaceInv'
  BY <1>3, PlaceAsk
<1>4. CASE FindRegistered \/ Restarted \/ Terminated
  <2>1. UNCHANGED <<status, mailbox, busy>>
    BY <1>4 DEF FindRegistered, Restarted, Terminated, actorVars
  <2>2. QED
    BY <2>1, PlaceFrame
<1>5. ASSUME NEW r \in Refs, FindCreates(r) \/ Started(r)
      PROVE  PlaceInv'
  <2>1. /\ UNCHANGED <<mailbox, busy>>
        /\ \A s \in Refs : status'[s] = "unborn" => status[s] = "unborn"
    BY <1>5 DEF FindCreates, Started, TypeOK
  <2>2. QED
    BY <2>1, PlaceFrame
<1>6. CASE FindThrows
  <2>1. /\ busy' = busy /\ \A r \in Refs : mailbox'[r] = <<>>
        /\ \A s \in Refs : status'[s] = "unborn" => status[s] = "unborn"
    BY <1>6 DEF FindThrows
  <2>2. QED
    BY <2>1, PlaceLost
<1>7. ASSUME NEW r \in Refs, StartFails(r)
      PROVE  PlaceInv'
  <2>1. /\ busy' = busy
        /\ \A s \in Refs : mailbox'[s] = mailbox[s] \/ mailbox'[s] = <<>>
        /\ \A s \in Refs : status'[s] = "unborn" => status[s] = "unborn"
    BY <1>7 DEF StartFails, TypeOK
  <2>2. QED
    BY <2>1, PlaceLost
<1>8. ASSUME NEW r \in Refs, Begin(r)
      PROVE  PlaceInv'
  BY <1>8, PlaceBegin
<1>9. ASSUME NEW r \in Refs, NEW reply \in Replies, End(r, reply)
      PROVE  PlaceInv'
  BY <1>9, PlaceEnd
<1>10. QED
  BY <1>1, <1>2, <1>3, <1>4, <1>5, <1>6, <1>7, <1>8, <1>9
     DEF Next, ClientStep, Supervisor, ActorStep

-----------------------------------------------------------------------------
(* The work of the service.                                                 *)

\* What a context is for the service: its actor stands for the class.
Item(r, m) == [id |-> m.id, class |-> class[r], payload |-> m.payload]

\* The work of the service is what actors hold.
WorkIsHeld ==
    /\ \A w \in abstractWork : \E r \in Refs, m \in Messages : Held(r, m) /\ w = Item(r, m)
    /\ \A r \in Refs, m \in Messages : Held(r, m) => Item(r, m) \in abstractWork

\* The work of the service, read from mailboxes of the right type.
LEMMA WorkOf == TypeOK => WorkIsHeld
<1> SUFFICES ASSUME TypeOK PROVE WorkIsHeld
  OBVIOUS
<1> DEFINE At(r) == {mailbox[r][i] : i \in DOMAIN mailbox[r]}
                       \cup {busy[r][i] : i \in DOMAIN busy[r]}
<1>1. abstractWork = UNION {{Item(r, m) : m \in At(r)} : r \in Refs}
  BY DEF abstractWork, Item
<1>2. \A r \in Refs : At(r) \subseteq Messages /\ \A m \in At(r) : Held(r, m)
  BY DEF TypeOK, Held
<1>3. \A r \in Refs, m \in Messages : Held(r, m) => m \in At(r)
  BY DEF Held
<1> HIDE DEF At
<1>4. \A w \in abstractWork : \E r \in Refs : \E m \in At(r) : w = Item(r, m)
  BY <1>1
<1>5. \A r \in Refs : \A m \in At(r) : Item(r, m) \in abstractWork
  BY <1>1
<1>6. QED
  BY <1>2, <1>3, <1>4, <1>5 DEF WorkIsHeld

\* The same of the state after a step.
LEMMA WorkOfNext == TypeOK' => WorkIsHeld'
BY WorkOf, PTL

\* A step that hands out no context and creates no actor with one adds no work.
LEMMA WorkShrinks ==
    ASSUME TypeOK, TypeOK',
           \A r \in Refs, m \in Messages :
               Held(r, m)' => Held(r, m) /\ class'[r] = class[r]
    PROVE  abstractWork' \subseteq abstractWork
<1> SUFFICES ASSUME NEW w \in abstractWork'
             PROVE  w \in abstractWork
  OBVIOUS
<1>1. PICK r \in Refs, m \in Messages : Held(r, m)' /\ w = Item(r, m)'
  BY WorkOfNext DEF WorkIsHeld
<1>2. Held(r, m) /\ w = Item(r, m)
  BY <1>1 DEF Item
<1>3. QED
  BY <1>2, WorkOf DEF WorkIsHeld

\* A step that leaves mailboxes and classes alone leaves the work alone.
LEMMA WorkStays ==
    ASSUME UNCHANGED <<class, mailbox, busy>>
    PROVE  abstractWork' = abstractWork
BY DEF abstractWork

\* What the service sees of a caller.
Shown(s) ==
    [pc |-> IF s.pc \in {"finding", "found", "asking"} THEN "waiting" ELSE s.pc,
     ask |-> s.ask, class |-> s.class, payload |-> s.payload, reply |-> s.reply]

\* The service sees every caller this way, before and after a step.
LEMMA CallIs ==
    ASSUME client \in [Clients -> ClientStates], client' \in [Clients -> ClientStates]
    PROVE  /\ abstractCall = [c \in Clients |-> Shown(client[c])]
           /\ abstractCall' = [c \in Clients |-> Shown(client'[c])]
BY DEF abstractCall, Shown

\* A step of which the callers see nothing and that adds no work: at most work is lost.
LEMMA HiddenStep ==
    ASSUME abstractCall' = abstractCall, abstractWork' \subseteq abstractWork
    PROVE  AS!Next
<1>1. abstractWork \ abstractWork' \in SUBSET abstractWork
  OBVIOUS
<1>2. AS!Lose(abstractWork \ abstractWork')
  BY DEF AS!Lose
<1>3. QED
  BY <1>1, <1>2 DEF AS!Next

\* The supervisor's answer to a Find is not visible: the caller waits on.
LEMMA FindIsHidden ==
    ASSUME TypeOK, TypeOK', NEW id \in AskIds, NEW r, CompleteFind(id, r)
    PROVE  abstractCall' = abstractCall
<1>1. client \in [Clients -> ClientStates] /\ client' \in [Clients -> ClientStates]
  BY DEF TypeOK
<1>2. \A c \in Clients : Shown(client'[c]) = Shown(client[c])
  <2> SUFFICES ASSUME NEW c \in Clients
               PROVE  Shown(client'[c]) = Shown(client[c])
    OBVIOUS
  <2>1. client[c] \in ClientStates
    BY <1>1
  <2>2. CASE client'[c] = client[c]
    BY <2>2
  <2>3. CASE /\ client[c].pc = "finding"
             /\ client'[c] = [client[c] EXCEPT !.pc = "found", !.ref = r]
    BY <2>1, <2>3 DEF Shown, ClientStates
  <2>4. QED
    BY <1>1, <2>2, <2>3 DEF CompleteFind, Waits
<1>3. QED
  BY <1>1, <1>2, CallIs

\* A caller's own step changes only what the service sees of this caller.
LEMMA CallerStep ==
    ASSUME TypeOK, TypeOK', NEW c \in Clients,
           \A d \in Clients : d # c => client'[d] = client[d]
    PROVE  abstractCall' = [abstractCall EXCEPT ![c] = Shown(client'[c])]
<1>1. client \in [Clients -> ClientStates] /\ client' \in [Clients -> ClientStates]
  BY DEF TypeOK
<1>2. QED
  BY <1>1, CallIs

\* The initial state is one of the service.
LEMMA ServiceInit == Init => AS!Init
<1> SUFFICES ASSUME Init PROVE AS!Init
  OBVIOUS
<1>1. /\ (CHOOSE k \in Classes : TRUE) \in Classes
      /\ (CHOOSE p \in Payloads : TRUE) \in Payloads
  BY ClassesAssumption
<1>2. abstractCall \in [Clients -> [pc : {"idle"}, ask : {0}, class : Classes,
                                    payload : Payloads, reply : {NoReply}]]
  BY <1>1 DEF abstractCall, Init
<1>3. TypeOK /\ \A r \in Refs, m \in Messages : ~Held(r, m)
  BY TypeInit DEF Init, Held
<1>4. abstractWork = {}
  BY <1>3, WorkOf DEF WorkIsHeld
<1>5. QED
  BY <1>2, <1>4 DEF AS!Init

\* Find is Call, a timeout is Fail, Return is Return.
LEMMA CallerImplements ==
    ASSUME TypeOK, TypeOK', NEW c \in Clients,
           \/ \E k \in Classes, p \in Payloads : Find(c, k, p)
           \/ FindTimeout(c) \/ AskTimeout(c) \/ Return(c)
    PROVE  AS!Next
<1>1. client[c] \in ClientStates /\ abstractCall[c] = Shown(client[c])
  BY CallIs DEF TypeOK
<1>2. abstractWork' = abstractWork
  BY WorkStays DEF Find, FindTimeout, AskTimeout, Return, actorVars
<1>3. ASSUME NEW k \in Classes, NEW p \in Payloads, Find(c, k, p)
      PROVE  AS!Next
  <2>1. /\ client[c].pc = "idle" /\ client[c].ask < MaxAsks
        /\ \A d \in Clients : d # c => client'[d] = client[d]
        /\ client'[c] = [client[c] EXCEPT !.pc = "finding", !.ask = @ + 1, !.class = k,
                             !.payload = p, !.ref = NoRef, !.reply = NoReply, !.from = NoRef]
    BY <1>3, ZenonT(30) DEF Find, TypeOK
  <2>2. Shown(client'[c]) = [pc |-> "waiting", ask |-> client[c].ask + 1, class |-> k,
                             payload |-> p, reply |-> NoReply]
    BY <1>1, <2>1 DEF Shown, ClientStates
  <2>3. abstractCall[c].pc = "idle" /\ abstractCall[c].ask = client[c].ask
    BY <1>1, <2>1 DEF Shown
  <2>4. abstractCall' = [abstractCall EXCEPT ![c] = Shown(client'[c])]
    BY <2>1, CallerStep
  <2>5. AS!Call(c, k, p)
    BY <1>2, <2>1, <2>2, <2>3, <2>4 DEF AS!Call
  <2>6. QED
    BY <2>5 DEF AS!Next
<1>4. CASE FindTimeout(c) \/ AskTimeout(c)
  <2>1. /\ client[c].pc \in {"finding", "asking"}
        /\ \A d \in Clients : d # c => client'[d] = client[d]
        /\ client'[c] = [client[c] EXCEPT !.pc = "failed"]
    BY <1>4 DEF FindTimeout, AskTimeout, Expires, TypeOK
  <2>2. /\ abstractCall[c].pc = "waiting"
        /\ Shown(client'[c]) = [abstractCall[c] EXCEPT !.pc = "failed"]
    BY <1>1, <2>1 DEF Shown, ClientStates
  <2>3. abstractCall' = [abstractCall EXCEPT ![c] = Shown(client'[c])]
    BY <2>1, CallerStep
  <2>4. AS!Fail(c)
    BY <1>2, <2>2, <2>3 DEF AS!Fail
  <2>5. QED
    BY <2>4 DEF AS!Next
<1>5. CASE Return(c)
  <2>1. /\ client[c].pc \in {"answered", "failed"}
        /\ \A d \in Clients : d # c => client'[d] = client[d]
        /\ client'[c] = [client[c] EXCEPT !.pc = "idle"]
    BY <1>5 DEF Return, TypeOK
  <2>2. /\ abstractCall[c].pc \in {"answered", "failed"}
        /\ Shown(client'[c]) = [abstractCall[c] EXCEPT !.pc = "idle"]
    BY <1>1, <2>1 DEF Shown, ClientStates
  <2>3. abstractCall' = [abstractCall EXCEPT ![c] = Shown(client'[c])]
    BY <2>1, CallerStep
  <2>4. AS!Return(c)
    BY <1>2, <2>2, <2>3 DEF AS!Return
  <2>5. QED
    BY <2>4 DEF AS!Next
<1>6. QED
  BY <1>3, <1>4, <1>5

\* Ask is Submit when the actor can still take the context, and nothing otherwise.
LEMMA AskImplements ==
    ASSUME TypeOK, TypeOK', AskInv, NEW c \in Clients, Ask(c)
    PROVE  AS!Next
<1> DEFINE r == client[c].ref
           x == [id |-> CurrentAsk(c), payload |-> client[c].payload]
<1>1. /\ client[c].pc = "found"
      /\ client' = [client EXCEPT ![c].pc = "asking"]
      /\ UNCHANGED <<class, busy>>
      /\ \/ mailbox' = mailbox
         \/ mailbox' = [mailbox EXCEPT ![r] = Append(@, x)]
  BY Zenon DEF Ask
<1>2. r \in Refs /\ class[r] = client[c].class
  BY <1>1 DEF AskInv, RefIsOwn
<1>3. x \in Messages /\ x.id = CurrentAsk(c) /\ x.payload = client[c].payload
  BY DEF CurrentAsk, Messages, AskIds, TypeOK, ClientStates
<1>4. /\ client[c] \in ClientStates /\ abstractCall[c] = Shown(client[c])
      /\ client'[c] = [client[c] EXCEPT !.pc = "asking"]
      /\ \A d \in Clients : d # c => client'[d] = client[d]
  BY <1>1, CallIs DEF TypeOK
<1>5. Shown(client'[c]) = Shown(client[c]) /\ abstractCall[c].pc = "waiting"
  BY <1>1, <1>4 DEF Shown, ClientStates
<1>6. abstractCall' = abstractCall
  BY <1>4, <1>5, CallIs DEF TypeOK
<1>7. Item(r, x) = [id |-> [client |-> c, ask |-> abstractCall[c].ask],
                    class |-> abstractCall[c].class, payload |-> abstractCall[c].payload]
  BY <1>2, <1>3, <1>4 DEF Item, Shown, CurrentAsk
<1> HIDE DEF r, x
<1>8. CASE mailbox' = mailbox
  BY <1>1, <1>6, <1>8, WorkStays, HiddenStep
<1>9. CASE mailbox' = [mailbox EXCEPT ![r] = Append(@, x)]
  <2>1. /\ mailbox[r] \in Seq(Messages)
        /\ mailbox'[r] = Append(mailbox[r], x)
        /\ \A s \in Refs : s # r => mailbox'[s] = mailbox[s]
    BY <1>2, <1>9 DEF TypeOK
  <2>2. /\ \A i \in DOMAIN mailbox'[r] :
              \/ i \in DOMAIN mailbox[r] /\ mailbox'[r][i] = mailbox[r][i]
              \/ mailbox'[r][i] = x
        /\ \A i \in DOMAIN mailbox[r] :
              i \in DOMAIN mailbox'[r] /\ mailbox'[r][i] = mailbox[r][i]
        /\ \E i \in DOMAIN mailbox'[r] : mailbox'[r][i] = x
    BY <1>3, <2>1, StaysInAppend
  <2>3. ASSUME NEW s \in Refs, NEW m \in Messages
        PROVE  Held(s, m)' <=> Held(s, m) \/ (s = r /\ m = x)
    <3>1. CASE s # r
      BY <1>1, <2>1, <3>1 DEF Held
    <3>2. CASE s = r
      BY <1>1, <2>2, <3>2 DEF Held
    <3>3. QED
      BY <3>1, <3>2
  <2>4. \A s \in Refs, m \in Messages : Item(s, m)' = Item(s, m)
    BY <1>1 DEF Item
  <2>5. abstractWork' = abstractWork \cup {Item(r, x)}
    <3>1. WorkIsHeld /\ WorkIsHeld'
      BY WorkOf, WorkOfNext
    <3>2. \A w \in abstractWork' : w \in abstractWork \cup {Item(r, x)}
      <4> SUFFICES ASSUME NEW w \in abstractWork'
                   PROVE  w \in abstractWork \cup {Item(r, x)}
        OBVIOUS
      <4>1. PICK s \in Refs, m \in Messages : Held(s, m)' /\ w = Item(s, m)'
        BY <3>1 DEF WorkIsHeld
      <4>2. w = Item(s, m) /\ (Held(s, m) \/ (s = r /\ m = x))
        BY <2>3, <2>4, <4>1
      <4>3. QED
        BY <3>1, <4>2 DEF WorkIsHeld
    <3>3. \A w \in abstractWork : w \in abstractWork'
      <4> SUFFICES ASSUME NEW w \in abstractWork
                   PROVE  w \in abstractWork'
        OBVIOUS
      <4>1. PICK s \in Refs, m \in Messages : Held(s, m) /\ w = Item(s, m)
        BY <3>1 DEF WorkIsHeld
      <4>2. Held(s, m)' /\ w = Item(s, m)'
        BY <2>3, <2>4, <4>1
      <4>3. QED
        BY <3>1, <4>2 DEF WorkIsHeld
    <3>4. Item(r, x) \in abstractWork'
      <4>1. \E s \in Refs, m \in Messages : Held(s, m)' /\ Item(s, m)' = Item(r, x)
        BY <1>2, <1>3, <2>3, <2>4
      <4>2. QED
        BY <3>1, <4>1 DEF WorkIsHeld
    <3>5. QED
      BY <3>2, <3>3, <3>4
  <2>6. AS!Submit(c)
    BY <1>5, <1>6, <1>7, <2>5 DEF AS!Submit
  <2>7. QED
    BY <2>6 DEF AS!Next
<1>10. QED
  BY <1>1, <1>8, <1>9

\* An answer is seen as the end of the call and its reply.
LEMMA ShownAnswer ==
    ASSUME NEW s \in ClientStates, NEW reply, NEW r
    PROVE  Shown([s EXCEPT !.pc = "answered", !.reply = reply, !.from = r])
               = [Shown(s) EXCEPT !.pc = "answered", !.reply = reply]
<1> DEFINE t == [s EXCEPT !.pc = "answered", !.reply = reply, !.from = r]
           e == [pc |-> "answered", ask |-> s.ask, class |-> s.class,
                 payload |-> s.payload, reply |-> reply]
           f == [pc |-> "answered", ask |-> s.ask, class |-> s.class,
                 payload |-> s.payload, reply |-> s.reply]
<1>1. /\ t.pc = "answered" /\ t.ask = s.ask /\ t.class = s.class
      /\ t.payload = s.payload /\ t.reply = reply
  BY DEF ClientStates
<1> HIDE DEF t
<1>2. Shown(t) = e
  BY <1>1 DEF Shown
<1>3. [Shown(s) EXCEPT !.pc = "answered"] = f
  BY DEF Shown
<1>4. [f EXCEPT !.reply = reply] = e
  OBVIOUS
<1>5. [Shown(s) EXCEPT !.pc = "answered", !.reply = reply] = e
  BY <1>3, <1>4, Zenon
<1>6. QED
  BY <1>2, <1>5 DEF t

\* End is Execute: it removes one piece of work, and the promise it completes, if any,
\* is the one of the caller that waits for it.
LEMMA EndImplements ==
    ASSUME TypeOK, TypeOK', AskInv, PlaceInv, NEW r \in Refs, NEW reply \in Replies,
           End(r, reply)
    PROVE  AS!Next
<1> DEFINE x == busy[r][1]
           c == x.id.client
           w == Item(r, x)
<1>1. /\ class' = class /\ CompleteAsk(x.id, r, reply)
      /\ reply \in Handle(class[r], x.payload)
  BY DEF End
<1>2. /\ x \in Messages /\ Held(r, x)
      /\ \A s \in Refs, m \in Messages : Held(s, m)' <=> Held(s, m) /\ ~(s = r /\ m = x)
  BY PlaceEnd
<1>3. WorkIsHeld /\ WorkIsHeld'
  BY WorkOf, WorkOfNext
<1>4. \A s \in Refs, m \in Messages : Item(s, m)' = Item(s, m)
  BY <1>1 DEF Item
<1>5. w.id = x.id /\ w.class = class[r] /\ w.payload = x.payload
  BY DEF Item
<1> HIDE DEF x
<1>6. w \in abstractWork
  BY <1>2, <1>3 DEF WorkIsHeld
<1>7. abstractWork' = abstractWork \ {w}
  <2>1. ASSUME NEW v \in abstractWork'
        PROVE  v \in abstractWork /\ v # w
    <3>1. PICK s \in Refs, m \in Messages : Held(s, m)' /\ v = Item(s, m)'
      BY <1>3 DEF WorkIsHeld
    <3>2. Held(s, m) /\ ~(s = r /\ m = x) /\ v = Item(s, m)
      BY <1>2, <1>4, <3>1
    <3>3. m.id # x.id
      BY <1>2, <3>2 DEF PlaceInv, AskIsUnique
    <3>4. v.id = m.id
      BY <3>2 DEF Item
    <3>5. QED
      BY <1>3, <1>5, <3>2, <3>3, <3>4 DEF WorkIsHeld
  <2>2. ASSUME NEW v \in abstractWork, v # w
        PROVE  v \in abstractWork'
    <3>1. PICK s \in Refs, m \in Messages : Held(s, m) /\ v = Item(s, m)
      BY <1>3 DEF WorkIsHeld
    <3>2. ~(s = r /\ m = x)
      BY <2>2, <3>1
    <3>3. Held(s, m)' /\ v = Item(s, m)'
      BY <1>2, <1>4, <3>1, <3>2
    <3>4. QED
      BY <1>3, <3>3 DEF WorkIsHeld
  <2>3. QED
    BY <2>1, <2>2
<1>8. /\ c \in Clients /\ client[c] \in ClientStates /\ OwnMessage(r, x)
      /\ abstractCall[c] = Shown(client[c])
  BY <1>2, CallIs DEF AskInv, MessageIsOwn, Messages, AskIds, TypeOK
<1>9. AS!Waits(w.id) <=> Waits(x.id, "asking")
  <2>1. /\ abstractCall[c].ask = client[c].ask
        /\ abstractCall[c].pc = "waiting" <=> client[c].pc \in {"finding", "found", "asking"}
    <3>1. \A s \in ClientStates :
             /\ Shown(s).ask = s.ask
             /\ Shown(s).pc = "waiting" <=> s.pc \in {"finding", "found", "asking"}
      BY DEF Shown, ClientStates, ClientPC
    <3>2. QED
      BY <1>8, <3>1
  <2>2. client[c].ask = x.id.ask => client[c].pc \notin {"finding", "found"}
    BY <1>8 DEF OwnMessage
  <2>3. AS!Waits(x.id) <=> Waits(x.id, "asking")
    BY <2>1, <2>2 DEF AS!Waits, Waits
  <2>4. QED
    BY <1>5, <2>3
<1> HIDE DEF w
<1>10. abstractCall' = IF AS!Waits(w.id)
                       THEN [abstractCall EXCEPT ![w.id.client].pc = "answered",
                                                 ![w.id.client].reply = reply]
                       ELSE abstractCall
  <2>1. CASE Waits(x.id, "asking")
    <3>1. client' = [client EXCEPT ![c].pc = "answered", ![c].reply = reply, ![c].from = r]
      BY <1>1, <2>1 DEF CompleteAsk
    <3>2. /\ \A d \in Clients : d # c => client'[d] = client[d]
          /\ client'[c] = [client[c] EXCEPT !.pc = "answered", !.reply = reply, !.from = r]
      BY <1>8, <3>1 DEF TypeOK
    <3>3. abstractCall' = [abstractCall EXCEPT ![c] = Shown(client'[c])]
      BY <1>8, <3>2, CallerStep
    <3>4. Shown(client'[c]) = [abstractCall[c] EXCEPT !.pc = "answered", !.reply = reply]
      <4>1. Shown([client[c] EXCEPT !.pc = "answered", !.reply = reply, !.from = r])
                = [Shown(client[c]) EXCEPT !.pc = "answered", !.reply = reply]
        BY <1>8, ShownAnswer, ZenonT(30)
      <4>2. QED
        BY <1>8, <3>2, <4>1, Zenon
    <3>5. w.id.client = c
      BY <1>5
    <3> HIDE DEF c
    <3>6. abstractCall' = [abstractCall EXCEPT ![w.id.client].pc = "answered",
                                               ![w.id.client].reply = reply]
      BY <3>3, <3>4, <3>5
    <3>7. QED
      BY <1>9, <2>1, <3>6
  <2>2. CASE ~Waits(x.id, "asking")
    <3>1. client' = client
      BY <1>1, <2>2 DEF CompleteAsk
    <3>2. abstractCall' = abstractCall
      BY <3>1 DEF abstractCall
    <3>3. QED
      BY <1>9, <2>2, <3>2
  <2>3. QED
    BY <2>1, <2>2
<1>11. AS!Execute(w, reply)
  BY <1>1, <1>5, <1>6, <1>7, <1>10 DEF AS!Execute
<1>12. QED
  BY <1>6, <1>11 DEF AS!Next

\* Every step is one of the service, or none that it can tell.
LEMMA ServiceStep ==
    RegistryInv /\ AskInv /\ PlaceInv /\ [Next]_vars => [AS!Next]_(AS!vars)
<1> SUFFICES ASSUME RegistryInv, AskInv, PlaceInv, [Next]_vars
             PROVE  [AS!Next]_(AS!vars)
  OBVIOUS
<1>0. TypeOK /\ TypeOK'
  BY TypeStep DEF RegistryInv
<1>1. CASE UNCHANGED vars
  BY <1>1 DEF vars, AS!vars, abstractCall, abstractWork
<1>2. ASSUME NEW c \in Clients,
             \/ \E k \in Classes, p \in Payloads : Find(c, k, p)
             \/ FindTimeout(c) \/ AskTimeout(c) \/ Return(c)
      PROVE  AS!Next
  BY <1>0, <1>2, CallerImplements
<1>3. ASSUME NEW c \in Clients, Ask(c)
      PROVE  AS!Next
  BY <1>0, <1>3, AskImplements
<1>4. CASE FindRegistered
  <2>1. /\ CompleteFind(Head(inbox).id, actorMap[Head(inbox).class])
        /\ UNCHANGED <<class, mailbox, busy>>
        /\ Head(inbox).id \in AskIds
    BY <1>0, <1>4, InboxHead DEF FindRegistered, actorVars, TypeOK
  <2>2. QED
    BY <1>0, <2>1, FindIsHidden, WorkStays, HiddenStep
<1>5. ASSUME NEW r \in Refs, FindCreates(r)
      PROVE  AS!Next
  <2>1. /\ CompleteFind(Head(inbox).id, r)
        /\ UNCHANGED <<mailbox, busy>> /\ status[r] = "unborn"
        /\ \A s \in Refs : s # r => class'[s] = class[s]
        /\ Head(inbox).id \in AskIds
    BY <1>0, <1>5, InboxHead DEF FindCreates, Fresh, TypeOK
  <2>2. \A m \in Messages : ~Held(r, m)
    BY <2>1 DEF PlaceInv, UnbornIsIdle, Held
  <2>3. \A s \in Refs, m \in Messages : Held(s, m)' => Held(s, m)
    BY <2>1 DEF Held
  <2>4. abstractWork' \subseteq abstractWork
    BY <1>0, <2>1, <2>2, <2>3, WorkShrinks
  <2>5. QED
    BY <1>0, <2>1, <2>4, FindIsHidden, HiddenStep
<1>6. ASSUME FindThrows \/ \E r \in Refs : StartFails(r)
      PROVE  AS!Next
  <2>1. /\ UNCHANGED <<client, class, busy>>
        /\ \A s \in Refs : mailbox'[s] = mailbox[s] \/ mailbox'[s] = <<>>
        /\ \A s \in Refs : status'[s] = "unborn" => status[s] = "unborn"
    BY <1>0, <1>6 DEF FindThrows, StartFails, TypeOK
  <2>2. \A s \in Refs, m \in Messages : Held(s, m)' => Held(s, m)
    BY <1>0, <2>1, PlaceLost
  <2>3. abstractWork' \subseteq abstractWork
    BY <1>0, <2>1, <2>2, WorkShrinks
  <2>4. abstractCall' = abstractCall
    BY <2>1 DEF abstractCall
  <2>5. QED
    BY <2>3, <2>4, HiddenStep
<1>7. ASSUME Restarted \/ Terminated \/ \E r \in Refs : Started(r)
      PROVE  AS!Next
  <2>1. UNCHANGED <<client, class, mailbox, busy>>
    BY <1>7 DEF Restarted, Terminated, Started, actorVars
  <2>2. abstractCall' = abstractCall
    BY <2>1 DEF abstractCall
  <2>3. QED
    BY <2>1, <2>2, WorkStays, HiddenStep
<1>8. ASSUME NEW r \in Refs, Begin(r)
      PROVE  AS!Next
  <2>1. UNCHANGED <<client, class>>
    BY <1>8 DEF Begin
  <2>2. \A s \in Refs, m \in Messages : Held(s, m)' <=> Held(s, m)
    BY <1>0, <1>8, PlaceBegin
  <2>3. abstractWork' \subseteq abstractWork
    BY <1>0, <2>1, <2>2, WorkShrinks
  <2>4. abstractCall' = abstractCall
    BY <2>1 DEF abstractCall
  <2>5. QED
    BY <2>3, <2>4, HiddenStep
<1>9. ASSUME NEW r \in Refs, NEW reply \in Replies, End(r, reply)
      PROVE  AS!Next
  BY <1>0, <1>9, EndImplements
<1>10. QED
  BY <1>1, <1>2, <1>3, <1>4, <1>5, <1>6, <1>7, <1>8, <1>9
     DEF Next, ClientStep, Supervisor, ActorStep

\* No context is anywhere in the initial state.
LEMMA PlaceInit == Init => PlaceInv
BY DEF Init, PlaceInv, AskIsUnique, NoRepeat, UnbornIsIdle, Held

\* What translate relies on is what registry, actors, timeouts, failed starts and
\* restarts of the supervisor do together: a call ends with the reply of its own class
\* to its own context or with an exception, and no context is handled twice.
THEOREM ServiceIsImplemented == Spec => ImplementsActionService
<1>1. Spec => []PlaceInv
  <2>1. RegistryInv => TypeOK
    BY DEF RegistryInv
  <2>2. QED
    BY <2>1, PlaceInit, PlaceStep, RegistryInvariant, AskInvariant, PTL DEF Spec
<1>2. QED
  BY <1>1, ServiceInit, ServiceStep, RegistryInvariant, AskInvariant, PTL
     DEF Spec, ImplementsActionService, AS!Spec

=============================================================================
