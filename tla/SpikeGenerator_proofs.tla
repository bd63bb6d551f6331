------------------------ MODULE SpikeGenerator_proofs ------------------------
(***************************************************************************)
(* What the runs check of the spike generator on small instances, proved   *)
(* for every interval, every number of requests and values, every buffer   *)
(* and every sequence of failures.                                         *)
(*                                                                         *)
(*   TypeInv    the types, and which fields are set where apply is         *)
(*   NameInv    no file has the name the next one will get                 *)
(*   FileInv    what the file and the buffer hold is what was written      *)
(*   LoopInv    what the loop over the values has written so far           *)
(***************************************************************************)
EXTENDS SpikeGenerator, SequenceTheorems, TLAPS

\* The types, with what apply relies on: a generator has a file, closeFile is
\* called on a generator and the file to open is named after a time.
TypeInv ==
    /\ TypeOK
    /\ pc # "idle" => req \in Requests
    /\ pc = "open" => creationDate \in Times
    /\ pc = "close" => gen.state # "null"
    /\ gen.state # "null" => gen.file \in Times

\* File t may have been opened in the millisecond in which the last instance was
\* stopped, and this instance has no generator yet.
MayClash(t) == t = stopped /\ gen.state = "null"

\* The names of the files: creationDate is never ahead of the clock, and is set
\* when there is a generator; no file is younger than creationDate, or, while there
\* is none, as young as the clock; and from the moment a new file is due until it
\* is opened, its name is not taken.  The exception is a file that may clash.
NameInv ==
    /\ creationDate <= now
    /\ stopped <= now
    /\ gen.state # "null" => creationDate \in Times
    /\ \A t \in Times : disk[t].exists =>
           \/ t <= creationDate
           \/ creationDate = LongMin /\ (t < now \/ MayClash(t))
    /\ pc \in {"close", "date"} =>
           /\ creationDate < now
           /\ \A t \in Times : disk[t].exists => t < now \/ MayClash(t)
    /\ pc = "open" =>
           \A t \in Times : disk[t].exists => t < creationDate \/ MayClash(t)

\* The contents of the files: the file of the open generator is not ended, and it
\* and the buffer together hold what the generator was given; so does an ended
\* file by itself.
FileInv ==
    /\ gen.state = "open" =>
           /\ disk[gen.file].exists
           /\ ~disk[gen.file].ended
           /\ gen.file \notin torn =>
                  disk[gen.file].spikes \o buffer = wrote[gen.file]
    /\ EndedIsComplete

\* The spikes n + 1 .. size[r] of request r went to file t.
Written(r, n, t) == \A i \in n + 1 .. size[r] : InFile(<<r, i>>, t)

\* The loop over the values: a request that is still to come has no values and no
\* reply; the one in progress has all its values to write until the loop begins,
\* and in the loop those that are done are in the file of the open generator.
LoopInv ==
    /\ \A r \in Requests : r > req => outcome[r] = "none" /\ size[r] = 0
    /\ pc # "idle" => outcome[req] = "none"
    /\ pc \in {"validate", "close", "date", "open"} => todo = size[req]
    /\ pc = "write" =>
           \/ todo = size[req]
           \/ gen.state = "open" /\ Written(req, todo, gen.file)

-----------------------------------------------------------------------------
(* Times and Longs.                                                         *)

\* Adding an interval to a time of the clock does not leave the range of Long,
\* and adding it to Long.MinValue gives a negative number: a generator without a
\* file is due, and a file is due only when its interval has passed.
LEMMA DueIsLater ==
    ASSUME creationDate \in Times \cup {LongMin}, now \in Times
    PROVE  /\ Due => creationDate < now
           /\ creationDate = LongMin => Due
<1> USE BoundsAssumption, LongAssumption DEF Times, LongMin
<1>1. ASSUME NEW a \in Nat, NEW m \in Nat \ {0}, a < m
      PROVE  a % m = a
  BY <1>1, Z3
<1>2. creationDate + Interval + LongHalf \in Nat
  OBVIOUS
<1>3. creationDate + Interval + LongHalf < 2 * LongHalf
  OBVIOUS
<1>4. LongAdd(creationDate, Interval) = creationDate + Interval
  BY <1>1, <1>2, <1>3 DEF LongAdd
<1>5. QED
  BY <1>4 DEF Due

-----------------------------------------------------------------------------
(* Types.                                                                   *)

\* A spike that is written to a file's history or to the buffer is one of Spikes.
LEMMA SpikeType ==
    ASSUME TypeInv, pc = "write", MoreValues
    PROVE  <<req, todo>> \in Spikes
BY BoundsAssumption DEF TypeInv, TypeOK, MoreValues, Spikes, Requests

\* Every activation ends in a reply to a request that was received.
LEMMA ReplyType ==
    ASSUME TypeInv, pc # "idle", NEW o \in {"Success", "Failure"}, Reply(o)
    PROVE  /\ outcome' \in [Requests -> {"none", "Success", "Failure"}]
           /\ pc' = "idle"
           /\ todo' \in 0 .. MaxValues
BY BoundsAssumption DEF TypeInv, TypeOK, Reply

\* A failed flush leaves a generator with its file and an empty buffer.
LEMMA FlushType ==
    ASSUME TypeInv, pc # "idle", gen.state = "open", FlushThrows
    PROVE  /\ buffer' \in Seq(Spikes)
           /\ torn' \subseteq Times
           /\ gen' \in [state : {"open", "broken"}, file : Times]
           /\ gen'.file = gen.file
<1>1. PICK s \in {"open", "broken"} : gen' = [gen EXCEPT !.state = s]
  BY DEF FlushThrows
<1>2. gen.file \in Times /\ gen \in [state : {"null", "open", "broken"}, file : Times]
  BY DEF TypeInv, TypeOK
<1>3. gen' \in [state : {"open", "broken"}, file : Times] /\ gen'.file = gen.file
  BY <1>1, <1>2
<1>4. buffer' \in Seq(Spikes) /\ torn' \subseteq Times
  BY <1>2 DEF FlushThrows, TypeInv, TypeOK
<1>5. QED
  BY <1>3, <1>4

LEMMA TypeInit == Init => TypeInv
<1> SUFFICES ASSUME Init PROVE TypeInv
  OBVIOUS
<1> USE BoundsAssumption
<1>1. disk \in [Times -> Files] /\ wrote \in [Times -> Seq(Spikes)] /\ buffer \in Seq(Spikes)
  BY DEF Init, Files
<1>2. now \in Times /\ torn \subseteq Times
  BY DEF Init, Times
<1>3. gen \in [state : {"null", "open", "broken"}, file : Times \cup {NoFile}]
  BY DEF Init
<1>4. dirOK \in BOOLEAN /\ diskOK \in BOOLEAN /\ healthy \in BOOLEAN /\ due \in BOOLEAN
  BY DEF Init
<1>5. QED
  BY <1>1, <1>2, <1>3, <1>4 DEF Init, TypeInv, TypeOK, PCs

LEMMA TypeStep == TypeInv /\ [Next]_vars => TypeInv'
<1> SUFFICES ASSUME TypeInv, [Next]_vars PROVE TypeInv'
  OBVIOUS
<1> USE BoundsAssumption DEF PCs
<1>1. ASSUME NEW ch \in Channels, NEW n \in 0 .. MaxValues, Receive(ch, n)
      PROVE  TypeInv'
  <2>1. req + 1 \in Requests
    BY <1>1 DEF Receive, TypeInv, TypeOK, Requests
  <2>2. healthy' \in BOOLEAN /\ due' \in BOOLEAN
    BY <1>1, Zenon DEF Receive
  <2>3. /\ pc' \in {"idle", "validate"}
        /\ req' = req + 1
        /\ todo' \in 0 .. MaxValues
        /\ outcome' \in [Requests -> {"none", "Success", "Failure"}]
        /\ size' \in [Requests -> 0 .. MaxValues]
    <3>1. CASE ch \in Mapped
      BY <1>1, <2>1, <3>1 DEF Receive, TypeInv, TypeOK
    <3>2. CASE ch \notin Mapped
      BY <1>1, <2>1, <3>2 DEF Receive, TypeInv, TypeOK
    <3>3. QED
      BY <3>1, <3>2
  <2>4. UNCHANGED <<now, env, generator>>
    BY <1>1 DEF Receive
  <2>5. req' \in 0 .. MaxRequests
    BY <2>1, <2>3 DEF Requests
  <2>6. QED
    BY <2>1, <2>2, <2>3, <2>4, <2>5 DEF TypeInv, TypeOK, env, generator
<1>2. CASE Validate
  <2>1. Due \in BOOLEAN
    BY DEF Due
  <2>2. pc' \in {"write", "date", "close"} /\ (pc' = "close" => gen.state # "null")
    BY <1>2, <2>1 DEF Validate
  <2>3. QED
    BY <1>2, <2>1, <2>2, SMTT(30) DEF Validate, TypeInv, TypeOK, env, generator
<1>3. CASE CloseFile
  <2>1. disk[gen.file] \in Files
    BY <1>3 DEF CloseFile, TypeInv, TypeOK
  <2>2. disk[gen.file].spikes \o buffer \in Seq(Spikes)
    BY <2>1 DEF TypeInv, TypeOK, Files
  <2>3. Ended(disk[gen.file]) \in Files
    BY <2>1, <2>2 DEF Ended, Files
  <2>4. disk' \in [Times -> Files]
    BY <1>3, <2>3 DEF CloseFile, TypeInv, TypeOK
  <2>5. /\ gen' \in [state : {"null", "open", "broken"}, file : Times \cup {NoFile}]
        /\ gen'.file = gen.file
        /\ buffer' \in Seq(Spikes)
    <3>1. gen' = [gen EXCEPT !.state = "broken"] /\ buffer' = <<>>
      BY <1>3 DEF CloseFile
    <3>2. gen \in [state : {"null", "open", "broken"}, file : Times \cup {NoFile}]
      BY DEF TypeInv, TypeOK
    <3>3. QED
      BY <3>1, <3>2
  <2>6. QED
    BY <1>3, <2>4, <2>5 DEF CloseFile, TypeInv, TypeOK, env, history
<1>4. CASE CloseFileThrows
  <2>1. CASE Reply("Failure") /\ UNCHANGED generator
    BY <1>4, <2>1, ReplyType DEF CloseFileThrows, TypeInv, TypeOK, env, generator, history
  <2>2. CASE gen.state = "open" /\ FlushThrows
    BY <1>4, <2>2, ReplyType, FlushType
       DEF CloseFileThrows, FlushThrows, TypeInv, TypeOK, env, history
  <2>3. QED
    BY <1>4, <2>1, <2>2 DEF CloseFileThrows
<1>5. CASE SetCreationDate
  BY <1>5 DEF SetCreationDate, TypeInv, TypeOK, env, history
<1>6. CASE OpenFile
  <2>1. creationDate \in Times
    BY <1>6 DEF OpenFile, TypeInv
  <2>2. [spikes |-> <<>>, exists |-> TRUE, ended |-> FALSE] \in Files
    BY DEF Files
  <2>3. /\ disk' \in [Times -> Files] /\ wrote' \in [Times -> Seq(Spikes)]
        /\ torn' \subseteq Times
    BY <1>6, <2>1, <2>2 DEF OpenFile, TypeInv, TypeOK
  <2>4. QED
    BY <1>6, <2>1, <2>3 DEF OpenFile, TypeInv, TypeOK, env, history
<1>7. CASE OpenFileThrows
  BY <1>7, ReplyType DEF OpenFileThrows, TypeInv, TypeOK, env, generator, history
<1>8. CASE WriteSpike
  <2> DEFINE full == Append(buffer, <<req, todo>>)
  <2>1. full \in Seq(Spikes)
    BY <1>8, SpikeType, SMTT(30) DEF WriteSpike, TypeInv, TypeOK
  <2>2. gen.file \in Times
    BY <1>8 DEF WriteSpike, TypeInv
  <2>3. wrote' \in [Times -> Seq(Spikes)]
    BY <1>8, <2>2, SpikeType, SMTT(30) DEF WriteSpike, TypeInv, TypeOK
  <2>4. disk[gen.file] \in Files
    BY <2>2 DEF TypeInv, TypeOK
  <2>5. disk[gen.file].spikes \o full \in Seq(Spikes)
    BY <2>1, <2>4 DEF Files
  <2>6. [disk[gen.file] EXCEPT !.spikes = @ \o full] \in Files
    BY <2>4, <2>5 DEF Files
  <2>7. buffer' \in Seq(Spikes) /\ disk' \in [Times -> Files]
    <3>1. CASE Len(full) < BufferSize
      BY <1>8, <2>1, <3>1 DEF WriteSpike, TypeInv, TypeOK
    <3>2. CASE ~(Len(full) < BufferSize)
      <4>1. disk' = [disk EXCEPT ![gen.file].spikes = @ \o full] /\ buffer' = <<>>
        BY <1>8, <3>2 DEF WriteSpike
      <4>2. QED
        BY <4>1, <2>2, <2>6 DEF TypeInv, TypeOK
    <3>3. QED
      BY <3>1, <3>2
  <2>8. todo' \in 0 .. MaxValues
    <3>1. todo > 0 /\ todo' = todo - 1
      BY <1>8 DEF WriteSpike, MoreValues
    <3>2. QED
      BY <3>1 DEF TypeInv, TypeOK
  <2>9. QED
    BY <1>8, <2>3, <2>7, <2>8 DEF WriteSpike, TypeInv, TypeOK, env, history
<1>9. CASE WriteSpikeThrows
  <2>1. CASE Reply("Failure") /\ UNCHANGED generator
    BY <1>9, <2>1, ReplyType DEF WriteSpikeThrows, TypeInv, TypeOK, env, generator, history
  <2>2. CASE gen.state = "open" /\ FlushThrows
    BY <1>9, <2>2, ReplyType, FlushType
       DEF WriteSpikeThrows, FlushThrows, TypeInv, TypeOK, env, history
  <2>3. QED
    BY <1>9, <2>1, <2>2 DEF WriteSpikeThrows
<1>10. CASE Return
  BY <1>10, ReplyType DEF Return, TypeInv, TypeOK, env, generator, history
<1>11. CASE Tick
  BY <1>11 DEF Tick, TypeInv, TypeOK, Times, env, generator, history
<1>12. CASE EnvChange
  <2>1. dirOK' \in BOOLEAN /\ diskOK' \in BOOLEAN /\ healthy' \in BOOLEAN
    BY <1>12, Zenon DEF EnvChange, TypeInv, TypeOK
  <2>2. faults' \in 0 .. MaxFaults
    BY <1>12 DEF EnvChange, TypeInv, TypeOK
  <2>3. UNCHANGED <<now, stopped, pc, req, todo, generator, outcome, size, due>>
    BY <1>12 DEF EnvChange
  <2>4. QED
    BY <2>1, <2>2, <2>3 DEF TypeInv, TypeOK, generator
<1>13. CASE StopActor
  BY <1>13 DEF StopActor, TypeInv, TypeOK, Times, NoFile, history
<1>14. CASE UNCHANGED vars
  BY <1>14 DEF TypeInv, TypeOK, vars, env, generator, history
<1>15. QED
  BY <1>1, <1>2, <1>3, <1>4, <1>5, <1>6, <1>7, <1>8, <1>9, <1>10, <1>11, <1>12,
     <1>13, <1>14 DEF Next, Apply

\* The state always has its types, and apply never closes a generator that is not
\* there nor opens a file that has no name.
THEOREM TypeCorrect == Spec => []TypeOK
<1>1. TypeInv => TypeOK
  BY DEF TypeInv
<1>2. QED
  BY <1>1, TypeInit, TypeStep, PTL DEF Spec

-----------------------------------------------------------------------------
(* The names of the files.                                                  *)

\* What a step does to a file: only OpenFile creates or truncates one, every other
\* step adds something, possibly nothing, to what the file holds.
LEMMA FileGrows ==
    ASSUME TypeInv, [Next]_vars, NEW t \in Times, ~(OpenFile /\ t = creationDate)
    PROVE  /\ disk'[t].exists = disk[t].exists
           /\ \E q \in Seq(Spikes) : disk'[t].spikes = disk[t].spikes \o q
<1> USE DEF TypeInv, TypeOK
<1>0. disk[t] \in Files /\ disk[t].spikes \in Seq(Spikes)
  BY DEF Files
<1>1. CASE disk' = disk
  <2>1. disk[t].spikes = disk[t].spikes \o <<>> /\ <<>> \in Seq(Spikes)
    BY <1>0
  <2>2. QED
    BY <1>1, <2>1
<1>2. CASE OpenFile
  <2>1. disk'[t] = disk[t]
    BY <1>2 DEF OpenFile
  <2>2. disk[t].spikes = disk[t].spikes \o <<>> /\ <<>> \in Seq(Spikes)
    BY <1>0
  <2>3. QED
    BY <2>1, <2>2
<1>3. ASSUME NEW f, NEW q \in Seq(Spikes), gen.file \in Times,
             disk' = [disk EXCEPT ![gen.file] = f],
             f.exists = disk[gen.file].exists,
             f.spikes = disk[gen.file].spikes \o q
      PROVE  /\ disk'[t].exists = disk[t].exists
             /\ \E r \in Seq(Spikes) : disk'[t].spikes = disk[t].spikes \o r
  <2>1. CASE t # gen.file
    <3>1. disk'[t] = disk[t]
      BY <1>3, <2>1
    <3>2. disk[t].spikes = disk[t].spikes \o <<>> /\ <<>> \in Seq(Spikes)
      BY <1>0
    <3>3. QED
      BY <3>1, <3>2
  <2>2. CASE t = gen.file
    BY <1>3, <2>2
  <2>3. QED
    BY <2>1, <2>2
<1>4. CASE CloseFile
  <2>1. gen.file \in Times /\ buffer \in Seq(Spikes) /\ disk[gen.file] \in Files
    BY <1>4 DEF CloseFile
  <2>2. disk' = [disk EXCEPT ![gen.file] = Ended(disk[gen.file])]
    BY <1>4 DEF CloseFile
  <2>3. /\ Ended(disk[gen.file]).exists = disk[gen.file].exists
        /\ Ended(disk[gen.file]).spikes = disk[gen.file].spikes \o buffer
    BY <2>1 DEF Ended, Files
  <2>4. QED
    BY <1>3, <2>1, <2>2, <2>3
<1>5. CASE WriteSpike
  <2> DEFINE full == Append(buffer, <<req, todo>>)
             f == [disk[gen.file] EXCEPT !.spikes = @ \o full]
  <2>1. gen.file \in Times /\ full \in Seq(Spikes) /\ disk[gen.file] \in Files
    BY <1>5, SpikeType DEF WriteSpike
  <2>2. CASE disk' = [disk EXCEPT ![gen.file].spikes = @ \o full]
    <3>1. disk' = [disk EXCEPT ![gen.file] = f]
      BY <2>2
    <3>2. f.exists = disk[gen.file].exists /\ f.spikes = disk[gen.file].spikes \o full
      BY <2>1 DEF Files
    <3>3. QED
      BY <1>3, <2>1, <3>1, <3>2
  <2>3. CASE disk' = disk
    BY <1>1, <2>3
  <2>4. QED
    BY <1>5, <2>2, <2>3 DEF WriteSpike
<1>6. CASE \E ch \in Channels, n \in 0 .. MaxValues : Receive(ch, n)
  BY <1>1, <1>6 DEF Receive, generator
<1>7. CASE Validate \/ CloseFileThrows \/ SetCreationDate \/ OpenFileThrows
           \/ WriteSpikeThrows \/ Return \/ Tick \/ EnvChange \/ StopActor
           \/ UNCHANGED vars
  BY <1>1, <1>7 DEF Validate, CloseFileThrows, FlushThrows, SetCreationDate,
     OpenFileThrows, WriteSpikeThrows, Return, Tick, EnvChange, StopActor, vars, generator
<1>8. QED
  BY <1>2, <1>4, <1>5, <1>6, <1>7 DEF Next, Apply

LEMMA NameInit == Init => NameInv
BY BoundsAssumption, LongAssumption DEF Init, NameInv, LongMin, NoFile

LEMMA NameStep == TypeInv /\ NameInv /\ [Next]_vars => NameInv'
<1> SUFFICES ASSUME TypeInv, NameInv, [Next]_vars PROVE NameInv'
  OBVIOUS
<1> USE BoundsAssumption, LongAssumption DEF Times, LongMin, NoFile, MayClash
<1>1. /\ now \in Times
      /\ stopped \in Times \cup {NoFile}
      /\ creationDate \in Times \cup {LongMin}
      /\ pc \in PCs
  BY DEF TypeInv, TypeOK
<1>2. ASSUME ~OpenFile
      PROVE  \A t \in Times : disk'[t].exists = disk[t].exists
  BY <1>2, FileGrows
<1>3. CASE OpenFile
  <2>1. /\ creationDate \in Times
        /\ creationDate' = creationDate /\ now' = now /\ stopped' = stopped
        /\ pc' = "write"
        /\ \A t \in Times : t # creationDate => disk'[t] = disk[t]
    BY <1>3 DEF OpenFile, TypeInv, TypeOK, env
  <2>2. QED
    BY <1>1, <1>3, <2>1 DEF OpenFile, NameInv
<1>4. CASE Validate
  <2>1. /\ UNCHANGED <<creationDate, now, stopped, gen>>
        /\ pc' \in {"write", "date", "close"}
        /\ pc' \in {"date", "close"} => Due
    BY <1>4 DEF Validate, Due, generator, env
  <2>2. pc = "validate"
    BY <1>4 DEF Validate
  <2>3. ~OpenFile
    BY <2>2 DEF OpenFile
  <2>4. QED
    BY <1>1, <1>2, <2>1, <2>2, <2>3, DueIsLater DEF NameInv
<1>5. CASE SetCreationDate
  <2>1. /\ creationDate' = now /\ UNCHANGED <<now, stopped, gen>>
        /\ pc = "date" /\ pc' = "open" /\ ~OpenFile
    BY <1>5 DEF SetCreationDate, OpenFile, env
  <2>2. QED
    BY <1>1, <1>2, <2>1 DEF NameInv
<1>6. CASE StopActor
  <2>1. /\ creationDate' = LongMin /\ now' = now /\ stopped' = now /\ pc' = "idle"
        /\ gen'.state = "null" /\ ~OpenFile
    BY <1>6 DEF StopActor, OpenFile
  <2>2. QED
    BY <1>1, <1>2, <2>1 DEF NameInv
<1>7. CASE Tick
  <2>1. /\ UNCHANGED <<creationDate, stopped, gen, pc, disk>> /\ now' = now + 1
    BY <1>7 DEF Tick, generator, env
  <2>2. QED
    BY <1>1, <2>1 DEF NameInv
<1>8. CASE CloseFile
  <2>1. /\ UNCHANGED <<creationDate, now, stopped>> /\ pc = "close" /\ pc' = "date"
        /\ ~OpenFile
    BY <1>8 DEF CloseFile, OpenFile, env
  <2>2. gen.state # "null" /\ gen'.state # "null"
    BY <1>8 DEF CloseFile, TypeInv, TypeOK
  <2>3. QED
    BY <1>1, <1>2, <2>1, <2>2 DEF NameInv
<1>9. CASE \/ \E ch \in Channels, n \in 0 .. MaxValues : Receive(ch, n)
           \/ CloseFileThrows \/ OpenFileThrows \/ WriteSpike \/ WriteSpikeThrows
           \/ Return \/ EnvChange \/ UNCHANGED vars
  <2>1. UNCHANGED <<creationDate, now, stopped>>
    BY <1>9 DEF Receive, CloseFileThrows, FlushThrows, OpenFileThrows, WriteSpike,
       WriteSpikeThrows, Return, EnvChange, vars, generator, env
  <2>2. pc' = pc \/ pc' \in {"idle", "validate"}
    BY <1>9 DEF Receive, CloseFileThrows, FlushThrows, OpenFileThrows, WriteSpike,
       WriteSpikeThrows, Return, Reply, EnvChange, vars
  <2>3. gen'.state = "null" <=> gen.state = "null"
    <3>1. CASE gen.state = "open" /\ FlushThrows
      BY <3>1 DEF FlushThrows, TypeInv, TypeOK
    <3>2. CASE UNCHANGED gen
      BY <3>2
    <3>3. QED
      BY <1>9, <3>1, <3>2 DEF Receive, CloseFileThrows, OpenFileThrows, WriteSpike,
         WriteSpikeThrows, Return, EnvChange, vars, generator
  <2>4. QED
    BY <1>1, <1>2, <1>3, <2>1, <2>2, <2>3 DEF NameInv
<1>10. QED
  BY <1>3, <1>4, <1>5, <1>6, <1>7, <1>8, <1>9 DEF Next, Apply

\* The file that is opened is not there yet, unless it may clash.
LEMMA NameIsFree ==
    ASSUME TypeInv, NameInv, OpenFile
    PROVE  /\ creationDate \in Times
           /\ disk[creationDate].exists => MayClash(creationDate)
<1>1. creationDate \in Times
  BY DEF OpenFile, TypeInv
<1>2. ~(creationDate < creationDate)
  BY <1>1 DEF Times
<1>3. QED
  BY <1>1, <1>2 DEF OpenFile, NameInv

\* A file loses spikes only in one case, whatever the interval, the failures and
\* the restarts of the actor: a new instance opens its first file in the millisecond
\* in which the last one was stopped and had opened that file (validateFile).
THEOREM FilesAreKept == Spec => NoFileOverwritten
<1> DEFINE Kept == \A t \in Times :
                       disk[t].exists /\ ~(t = stopped /\ gen.state = "null") =>
                           /\ Len(disk'[t].spikes) >= Len(disk[t].spikes)
                           /\ SubSeq(disk'[t].spikes, 1, Len(disk[t].spikes))
                                  = disk[t].spikes
<1>1. TypeInv /\ NameInv /\ [Next]_vars => Kept
  <2> SUFFICES ASSUME TypeInv, NameInv, [Next]_vars, NEW t \in Times, disk[t].exists,
                      ~MayClash(t)
               PROVE  /\ Len(disk'[t].spikes) >= Len(disk[t].spikes)
                      /\ SubSeq(disk'[t].spikes, 1, Len(disk[t].spikes)) = disk[t].spikes
    BY DEF MayClash
  <2>1. ~(OpenFile /\ t = creationDate)
    BY NameIsFree
  <2>2. PICK q \in Seq(Spikes) : disk'[t].spikes = disk[t].spikes \o q
    BY <2>1, FileGrows
  <2>3. disk[t].spikes \in Seq(Spikes)
    BY DEF TypeInv, TypeOK, Files
  <2>4. Len(disk[t].spikes \o q) >= Len(disk[t].spikes)
    BY <2>3
  <2>5. SubSeq(disk[t].spikes \o q, 1, Len(disk[t].spikes)) = disk[t].spikes
    BY <2>3, SubSeqOfConcat1, SubSeqFull
  <2>6. QED
    BY <2>2, <2>4, <2>5
<1>2. QED
  BY <1>1, TypeInit, TypeStep, NameInit, NameStep, PTL DEF Spec, NoFileOverwritten

-----------------------------------------------------------------------------
(* What the files hold.                                                     *)

\* A spike added to the buffer is one added to what file and buffer hold together.
LEMMA ConcatAppend ==
    ASSUME NEW s \in Seq(Spikes), NEW t \in Seq(Spikes), NEW e \in Spikes
    PROVE  s \o Append(t, e) = Append(s \o t, e)
<1>1. Append(t, e) = t \o <<e>>
  BY AppendIsConcat
<1>2. s \o t \in Seq(Spikes) /\ <<e>> \in Seq(Spikes)
  OBVIOUS
<1>3. Append(s \o t, e) = (s \o t) \o <<e>>
  BY <1>2, AppendIsConcat
<1>4. (s \o t) \o <<e>> = s \o (t \o <<e>>)
  BY <1>2, ConcatAssociative
<1>5. QED
  BY <1>1, <1>3, <1>4

LEMMA FileInit == Init => FileInv
BY DEF Init, FileInv, EndedIsComplete

\* What a step that leaves the disk and the histories alone does to FileInv: the
\* generator keeps its file, loses a torn one, or stops writing.
LEMMA FileFrame ==
    ASSUME TypeInv, FileInv, disk' = disk, wrote' = wrote,
           torn \subseteq torn',
           \/ gen' = gen /\ buffer' = buffer
           \/ gen'.state = "open" /\ gen.state = "open" /\ gen'.file = gen.file
                 /\ gen.file \in torn'
           \/ gen'.state # "open"
    PROVE  FileInv'
BY DEF FileInv, EndedIsComplete

LEMMA FileStep == TypeInv /\ NameInv /\ FileInv /\ [Next]_vars => FileInv'
<1> SUFFICES ASSUME TypeInv, NameInv, FileInv, [Next]_vars PROVE FileInv'
  OBVIOUS
<1>1. ASSUME FlushThrows, gen.state = "open" PROVE FileInv'
  <2>1. PICK s \in {"open", "broken"} : gen' = [gen EXCEPT !.state = s]
    BY <1>1 DEF FlushThrows
  <2>2. gen'.file = gen.file /\ (gen'.state = "open" \/ gen'.state # "open")
    BY <2>1 DEF TypeInv, TypeOK
  <2>3. QED
    BY <1>1, <2>2, FileFrame DEF FlushThrows
<1>2. CASE CloseFile
  <2>1. gen.file \in Times /\ disk[gen.file] \in Files
    BY <1>2 DEF CloseFile, TypeInv, TypeOK
  <2>2. gen'.state = "broken"
    BY <1>2 DEF CloseFile, TypeInv, TypeOK
  <2>3. disk' = [disk EXCEPT ![gen.file] = Ended(disk[gen.file])]
    BY <1>2 DEF CloseFile
  <2>4. /\ Ended(disk[gen.file]).exists = disk[gen.file].exists
        /\ Ended(disk[gen.file]).spikes = disk[gen.file].spikes \o buffer
    BY <2>1 DEF Ended, Files
  <2>5. disk \in [Times -> Files]
    BY DEF TypeInv, TypeOK
  <2>6. ASSUME NEW t \in Times
        PROVE  disk'[t].ended /\ t \notin torn' => disk'[t].spikes = wrote'[t]
    <3>1. torn' = torn /\ wrote' = wrote /\ gen.state = "open"
      BY <1>2 DEF CloseFile
    <3>2. CASE t = gen.file
      BY <2>3, <2>4, <2>5, <3>1, <3>2 DEF FileInv
    <3>3. CASE t # gen.file
      BY <2>3, <2>5, <3>1, <3>3 DEF FileInv, EndedIsComplete
    <3>4. QED
      BY <3>2, <3>3
  <2>7. QED
    BY <2>2, <2>6 DEF FileInv, EndedIsComplete
<1>3. CASE OpenFile
  <2>1. creationDate \in Times
    BY <1>3, NameIsFree
  <2>2. gen'.state = "open" /\ gen'.file = creationDate /\ buffer' = <<>>
    BY <1>3 DEF OpenFile
  <2>3. /\ disk'[creationDate] = [spikes |-> <<>>, exists |-> TRUE, ended |-> FALSE]
        /\ wrote'[creationDate] = <<>>
        /\ \A t \in Times : t # creationDate => disk'[t] = disk[t] /\ wrote'[t] = wrote[t]
        /\ torn' = torn \ {creationDate}
    BY <1>3, <2>1 DEF OpenFile, TypeInv, TypeOK
  <2>4. /\ disk'[creationDate].exists /\ ~disk'[creationDate].ended
        /\ disk'[creationDate].spikes \o buffer' = wrote'[creationDate]
    BY <2>2, <2>3
  <2>5. ASSUME NEW t \in Times
        PROVE  disk'[t].ended /\ t \notin torn' => disk'[t].spikes = wrote'[t]
    <3>1. CASE t = creationDate
      BY <2>4, <3>1
    <3>2. CASE t # creationDate
      BY <2>3, <3>2 DEF FileInv, EndedIsComplete
    <3>3. QED
      BY <3>1, <3>2
  <2>6. QED
    BY <2>2, <2>4, <2>5 DEF FileInv, EndedIsComplete
<1>4. CASE WriteSpike
  <2> DEFINE f == gen.file
             full == Append(buffer, <<req, todo>>)
  <2>1. f \in Times /\ gen' = gen /\ torn' = torn /\ gen.state = "open"
    BY <1>4 DEF WriteSpike, TypeInv
  <2>2. <<req, todo>> \in Spikes /\ buffer \in Seq(Spikes)
    BY <1>4, SpikeType DEF WriteSpike, TypeInv, TypeOK
  <2>3. /\ wrote'[f] = Append(wrote[f], <<req, todo>>)
        /\ \A t \in Times : t # f => wrote'[t] = wrote[t]
    BY <1>4, <2>1 DEF WriteSpike, TypeInv, TypeOK
  <2>4. disk[f] \in Files /\ wrote[f] \in Seq(Spikes)
    BY <2>1 DEF TypeInv, TypeOK
  <2>5. /\ \A t \in Times : t # f => disk'[t] = disk[t]
        /\ disk'[f].exists = disk[f].exists /\ disk'[f].ended = disk[f].ended
        /\ disk'[f].spikes \o buffer' = disk[f].spikes \o full
    <3>1. CASE buffer' = full /\ disk' = disk
      BY <3>1
    <3>2. CASE buffer' = <<>> /\ disk' = [disk EXCEPT ![f].spikes = @ \o full]
      <4>1. disk'[f] = [disk[f] EXCEPT !.spikes = @ \o full]
        BY <2>1, <3>2 DEF TypeInv, TypeOK
      <4>2. /\ disk'[f].exists = disk[f].exists /\ disk'[f].ended = disk[f].ended
            /\ disk'[f].spikes = disk[f].spikes \o full
        BY <2>4, <4>1 DEF Files
      <4>3. disk[f].spikes \o full \in Seq(Spikes)
        BY <2>2, <2>4 DEF Files
      <4>4. (disk[f].spikes \o full) \o <<>> = disk[f].spikes \o full
        BY <4>3
      <4>5. \A t \in Times : t # f => disk'[t] = disk[t]
        BY <3>2 DEF TypeInv, TypeOK
      <4>6. QED
        BY <3>2, <4>2, <4>4, <4>5
    <3>3. QED
      BY <1>4, <3>1, <3>2 DEF WriteSpike
  <2>6. f \notin torn => disk'[f].spikes \o buffer' = wrote'[f]
    <3>1. disk[f].spikes \in Seq(Spikes)
      BY <2>4 DEF Files
    <3>2. disk[f].spikes \o Append(buffer, <<req, todo>>)
             = Append(disk[f].spikes \o buffer, <<req, todo>>)
      <4>1. \A e \in Spikes : disk[f].spikes \o Append(buffer, e)
                                 = Append(disk[f].spikes \o buffer, e)
        BY <2>2, <3>1, ConcatAppend
      <4>2. QED
        BY <2>2, <4>1, Zenon
    <3>3. QED
      BY <2>1, <2>3, <2>5, <3>2 DEF FileInv
  <2>7. QED
    BY <2>1, <2>3, <2>5, <2>6 DEF FileInv, EndedIsComplete
<1>5. CASE StopActor
  BY <1>5, FileFrame DEF StopActor
<1>6. CASE CloseFileThrows
  BY <1>1, <1>6, FileFrame DEF CloseFileThrows, generator
<1>7. CASE WriteSpikeThrows
  BY <1>1, <1>7, FileFrame DEF WriteSpikeThrows, generator
<1>8. CASE \/ \E ch \in Channels, n \in 0 .. MaxValues : Receive(ch, n)
           \/ Validate \/ SetCreationDate \/ OpenFileThrows \/ Return \/ Tick
           \/ EnvChange \/ UNCHANGED vars
  <2>1. UNCHANGED <<gen, buffer, disk, torn, wrote>>
    BY <1>8 DEF Receive, Validate, SetCreationDate, OpenFileThrows, Return, Tick,
       EnvChange, vars, generator
  <2>2. QED
    BY <2>1, FileFrame
<1>9. QED
  BY <1>2, <1>3, <1>4, <1>5, <1>6, <1>7, <1>8 DEF Next, Apply

\* An ended file holds all its spikes in order, unless one of its flushes failed
\* (closeFile): no spike is left in a buffer, and no file is ended twice.
THEOREM EndedFilesAreComplete == Spec => []EndedIsComplete
<1>1. FileInv => EndedIsComplete
  BY DEF FileInv
<1>2. QED
  BY <1>1, TypeInit, TypeStep, NameInit, NameStep, FileInit, FileStep, PTL DEF Spec

-----------------------------------------------------------------------------
(* The loop over the values.                                                *)

\* What was given to the generator of a file stays in the history of the file while
\* the loop writes to it.
LEMMA StaysInFile ==
    ASSUME TypeInv, WriteSpike \/ wrote' = wrote, NEW s, NEW t \in Times, InFile(s, t)
    PROVE  InFile(s, t)'
<1>1. PICK i \in DOMAIN wrote[t] : wrote[t][i] = s
  BY DEF InFile
<1>2. wrote[t] \in Seq(Spikes)
  BY DEF TypeInv, TypeOK
<1>3. CASE wrote'[t] = wrote[t]
  BY <1>1, <1>3 DEF InFile
<1>4. CASE WriteSpike /\ t = gen.file
  <2>1. wrote'[t] = Append(wrote[t], <<req, todo>>)
    BY <1>4 DEF WriteSpike, TypeInv, TypeOK
  <2>2. i \in DOMAIN wrote'[t] /\ wrote'[t][i] = s
    BY <1>1, <1>2, <2>1
  <2>3. QED
    BY <2>2 DEF InFile
<1>5. CASE WriteSpike /\ t # gen.file
  <2>1. wrote'[t] = wrote[t]
    BY <1>5 DEF WriteSpike, TypeInv, TypeOK
  <2>2. QED
    BY <1>3, <2>1
<1>6. QED
  BY <1>3, <1>4, <1>5

LEMMA LoopInit == Init => LoopInv
BY DEF Init, LoopInv

\* A reply keeps LoopInv.
LEMMA LoopReply ==
    ASSUME TypeInv, LoopInv, pc # "idle", NEW o \in {"Success", "Failure"}, Reply(o),
           UNCHANGED <<size, req>>
    PROVE  LoopInv'
<1>1. req \in Requests /\ outcome \in [Requests -> {"none", "Success", "Failure"}]
  BY DEF TypeInv, TypeOK
<1>2. /\ \A r \in Requests : r # req => outcome'[r] = outcome[r]
      /\ pc' = "idle"
  BY <1>1 DEF Reply
<1>3. \A r \in Requests : r > req => r # req
  BY <1>1 DEF Requests
<1>4. QED
  BY <1>2, <1>3 DEF LoopInv

LEMMA LoopStep == TypeInv /\ LoopInv /\ [Next]_vars => LoopInv'
<1> SUFFICES ASSUME TypeInv, LoopInv, [Next]_vars PROVE LoopInv'
  OBVIOUS
<1>1. ASSUME NEW ch \in Channels, NEW n \in 0 .. MaxValues, Receive(ch, n)
      PROVE  LoopInv'
  <2>1. /\ req + 1 \in Requests /\ req' = req + 1 /\ req \in 0 .. MaxRequests
        /\ outcome \in [Requests -> {"none", "Success", "Failure"}]
        /\ size \in [Requests -> 0 .. MaxValues]
    BY <1>1, BoundsAssumption DEF Receive, TypeInv, TypeOK, Requests
  <2>2. outcome[req + 1] = "none" /\ size[req + 1] = 0
    BY <2>1 DEF LoopInv
  <2>3. \A r \in Requests : r # req + 1 => outcome'[r] = outcome[r] /\ size'[r] = size[r]
    BY <1>1, <2>1 DEF Receive
  <2>4. \A r \in Requests : r > req' => outcome'[r] = "none" /\ size'[r] = 0
    <3>1. \A r \in Requests : r > req + 1 => r # req + 1 /\ r > req
      BY <2>1 DEF Requests
    <3>2. QED
      BY <2>1, <2>3, <3>1 DEF LoopInv
  <2>5. \/ /\ pc' = "validate" /\ todo' = n /\ size'[req + 1] = n
           /\ outcome'[req + 1] = "none"
        \/ pc' = "idle" /\ outcome'[req + 1] = "Success" /\ size'[req + 1] = 0
    <3>1. CASE ch \in Mapped
      BY <1>1, <2>1, <2>2, <3>1 DEF Receive
    <3>2. CASE ch \notin Mapped
      BY <1>1, <2>1, <2>2, <3>2 DEF Receive
    <3>3. QED
      BY <3>1, <3>2
  <2>6. QED
    BY <2>1, <2>4, <2>5 DEF LoopInv
<1>2. CASE Validate
  <2>1. /\ UNCHANGED <<outcome, size, req, todo>>
        /\ pc = "validate" /\ pc' \in {"write", "date", "close"}
    BY <1>2 DEF Validate, Due
  <2>2. QED
    BY <2>1 DEF LoopInv
<1>3. CASE CloseFile \/ SetCreationDate
  <2>1. /\ UNCHANGED <<outcome, size, req, todo>>
        /\ pc \in {"close", "date"} /\ pc' \in {"date", "open"}
    BY <1>3 DEF CloseFile, SetCreationDate, history
  <2>2. QED
    BY <2>1 DEF LoopInv
<1>4. CASE OpenFile
  <2>1. UNCHANGED <<outcome, size, req, todo>> /\ pc = "open" /\ pc' = "write"
    BY <1>4 DEF OpenFile, history
  <2>2. QED
    BY <2>1 DEF LoopInv
<1>5. CASE CloseFileThrows \/ OpenFileThrows \/ WriteSpikeThrows
  <2>1. Reply("Failure") /\ pc # "idle" /\ UNCHANGED <<size, req>>
    BY <1>5 DEF CloseFileThrows, OpenFileThrows, WriteSpikeThrows, FlushThrows, history
  <2>2. QED
    BY <2>1, LoopReply
<1>6. CASE WriteSpike
  <2> DEFINE f == gen.file
  <2>1. /\ UNCHANGED <<outcome, size, req, gen>>
        /\ pc = "write" /\ pc' = "write"
        /\ todo > 0 /\ todo' = todo - 1
        /\ gen.state = "open" /\ f \in Times
        /\ req \in Requests /\ todo \in 0 .. MaxValues /\ size[req] \in 0 .. MaxValues
    BY <1>6 DEF WriteSpike, MoreValues, history, TypeInv, TypeOK
  <2>2. \E i \in DOMAIN wrote'[f] : wrote'[f][i] = <<req, todo>>
    <3>1. wrote[f] \in Seq(Spikes)
      BY <2>1 DEF TypeInv, TypeOK
    <3>2. wrote'[f] = Append(wrote[f], <<req, todo>>)
      BY <1>6, <2>1 DEF WriteSpike, TypeInv, TypeOK
    <3>3. Len(wrote[f]) + 1 \in DOMAIN wrote'[f]
          /\ wrote'[f][Len(wrote[f]) + 1] = <<req, todo>>
      BY <3>1, <3>2
    <3>4. QED
      BY <3>3
  <2>3. \A i \in todo + 1 .. size[req] : InFile(<<req, i>>, f)'
    <3>1. CASE todo = size[req]
      BY <2>1, <3>1
    <3>2. CASE Written(req, todo, f)
      BY <1>6, <2>1, <3>2, StaysInFile DEF Written
    <3>3. QED
      BY <2>1, <3>1, <3>2 DEF LoopInv
  <2>4. Written(req, todo, f)'
    <3>1. \A i \in todo' + 1 .. size[req] : i = todo \/ i \in todo + 1 .. size[req]
      BY <2>1
    <3>2. \A i \in todo' + 1 .. size[req] : InFile(<<req, i>>, f)'
      BY <2>1, <2>2, <2>3, <3>1 DEF InFile
    <3>3. QED
      BY <2>1, <3>2 DEF Written
  <2>5. QED
    BY <2>1, <2>4 DEF LoopInv
<1>7. CASE Return
  <2>1. Reply("Success") /\ pc = "write" /\ UNCHANGED <<size, req>>
    BY <1>7 DEF Return, history
  <2>2. QED
    BY <2>1, LoopReply
<1>8. CASE StopActor
  <2>1. UNCHANGED <<outcome, size, req>> /\ pc' = "idle"
    BY <1>8 DEF StopActor, history
  <2>2. QED
    BY <2>1 DEF LoopInv
<1>9. CASE Tick \/ EnvChange \/ UNCHANGED vars
  <2>1. UNCHANGED <<outcome, size, req, todo, pc, gen, wrote>>
    BY <1>9 DEF Tick, EnvChange, vars, generator, history
  <2>2. Written(req, todo, gen.file) => Written(req, todo, gen.file)'
    BY <2>1 DEF Written, InFile
  <2>3. QED
    BY <2>1, <2>2 DEF LoopInv
<1>10. QED
  BY <1>1, <1>2, <1>3, <1>4, <1>5, <1>6, <1>7, <1>8, <1>9 DEF Next, Apply

\* Only two steps give the reply Success: Receive, to a request without values, and
\* Return, when the loop has written every value of the request to one file.
LEMMA SuccessIsWhole ==
    ASSUME TypeInv, LoopInv, [Next]_vars, NEW r \in Requests,
           outcome[r] # "Success", outcome'[r] = "Success"
    PROVE  \E t \in Times : \A n \in 1 .. size'[r] : InFile(<<r, n>>, t)'
<1>1. /\ now \in Times /\ req \in 0 .. MaxRequests /\ todo \in 0 .. MaxValues
      /\ outcome \in [Requests -> {"none", "Success", "Failure"}]
      /\ size \in [Requests -> 0 .. MaxValues]
  BY DEF TypeInv, TypeOK
<1>2. ASSUME NEW ch \in Channels, NEW n \in 0 .. MaxValues, Receive(ch, n)
      PROVE  \E t \in Times : \A m \in 1 .. size'[r] : InFile(<<r, m>>, t)'
  <2>1. ch \notin Mapped /\ size' = size /\ r = req + 1
    BY <1>1, <1>2 DEF Receive
  <2>2. size[r] = 0
    BY <1>1, <2>1 DEF LoopInv
  <2>3. QED
    BY <1>1, <2>1, <2>2
<1>3. ASSUME Reply("Failure") PROVE FALSE
  BY <1>1, <1>3 DEF Reply
<1>4. CASE Return
  <2>1. /\ pc = "write" /\ todo = 0 /\ UNCHANGED <<size, wrote>> /\ Reply("Success")
        /\ req \in Requests
    BY <1>1, <1>4 DEF Return, MoreValues, history, generator, TypeInv
  <2>2. r = req /\ size[r] \in 0 .. MaxValues
    BY <1>1, <2>1 DEF Reply
  <2>3. PICK t \in Times : Written(req, 0, t)
    <3>1. CASE todo = size[req]
      BY <1>1, <2>1, <3>1 DEF Written
    <3>2. CASE gen.state = "open" /\ Written(req, todo, gen.file)
      BY <2>1, <3>2 DEF TypeInv
    <3>3. QED
      BY <2>1, <3>1, <3>2 DEF LoopInv
  <2>4. \A n \in 1 .. size[r] : InFile(<<r, n>>, t)'
    BY <2>1, <2>2, <2>3, StaysInFile DEF Written
  <2>5. QED
    BY <2>1, <2>4
<1>5. CASE CloseFileThrows \/ OpenFileThrows \/ WriteSpikeThrows
  BY <1>3, <1>5 DEF CloseFileThrows, OpenFileThrows, WriteSpikeThrows, FlushThrows
<1>6. CASE \/ Validate \/ CloseFile \/ SetCreationDate \/ OpenFile \/ WriteSpike
           \/ Tick \/ EnvChange \/ StopActor \/ UNCHANGED vars
  <2>1. outcome' = outcome
    BY <1>6 DEF Validate, CloseFile, SetCreationDate, OpenFile, WriteSpike, Tick,
       EnvChange, StopActor, vars
  <2>2. QED
    BY <2>1
<1>7. QED
  BY <1>2, <1>4, <1>5, <1>6 DEF Next, Apply

\* Whenever a request is answered with Success all its spikes went to one file,
\* however many values it has and whatever happens between its steps (validateFile,
\* apply).
THEOREM RequestsAreWhole == Spec => RequestInOneFile
<1>1. TypeInv /\ LoopInv /\ [Next]_vars =>
          \A r \in Requests :
              outcome[r] # "Success" /\ outcome'[r] = "Success" =>
                  \E t \in Times : \A n \in 1 .. size'[r] : InFile(<<r, n>>, t)'
  BY SuccessIsWhole
<1>2. QED
  BY <1>1, TypeInit, TypeStep, LoopInit, LoopStep, PTL DEF Spec, RequestInOneFile

=============================================================================
