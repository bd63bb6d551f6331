--------------------------- MODULE SpikeGenerator ---------------------------
(***************************************************************************)
(* SpikeGeneratorWay2Think: the one action that writes to disk.  Every     *)
(* activation appends the spikes of its request to the current spike file, *)
(* a JSON array named after the time it was opened, and starts a new file  *)
(* when the interval of the current one has passed.                        *)
(*                                                                         *)
(* apply is cut at the calls that read the clock or touch the file system, *)
(* because time passes and the disk changes between them.  The actor       *)
(* handles one request at a time and turns every exception into a Failure. *)
(*                                                                         *)
(* Jackson's generator is modelled by what the code can see of it: inside  *)
(* the array ("open") writes are buffered and reach the file when the      *)
(* buffer fills or at close; once closed, or left inside an object by a    *)
(* failed flush ("broken"), every write and every writeEndArray throws.    *)
(***************************************************************************)
EXTENDS Integers, Sequences, FiniteSets

CONSTANTS
    Channels,       \* channel numbers a request can carry
    Mapped,         \* the channels of CHANNEL_MAPPING
    Interval,       \* spikeInterval in milliseconds
    LongHalf,       \* Long ranges over -LongHalf .. LongHalf - 1
    MaxTime,        \* bound on the clock
    MaxRequests,    \* bound on the requests
    MaxValues,      \* bound on the values of a request
    BufferSize,     \* spikes that fit the generator's buffer
    MaxFaults       \* bound on the changes of the environment

ASSUME MappedAssumption == Mapped \subseteq Channels

ASSUME BoundsAssumption ==
    /\ MaxTime \in Nat \ {0}
    /\ MaxRequests \in Nat
    /\ MaxValues \in Nat
    /\ BufferSize \in Nat \ {0}
    /\ MaxFaults \in Nat

\* The clock is far from the end of Long and the interval is not negative.
ASSUME LongAssumption ==
    /\ LongHalf \in Nat
    /\ Interval \in Nat
    /\ MaxTime + Interval < LongHalf

VARIABLES
    now,            \* System.currentTimeMillis()
    dirOK,          \* a file can be created in spikeDirectory
    diskOK,         \* a flush succeeds
    faults,         \* changes of the environment so far
    stopped,        \* history: when the last instance of the action was stopped
    pc,             \* where apply is
    req,            \* requests received so far; the last one is in progress
    todo,           \* values of the request that are not written yet
    gen,            \* jsonGenerator: its state and the file it writes to
    creationDate,   \* field creationDate
    buffer,         \* spikes in the generator's buffer
    disk,           \* file name -> what the file holds, and whether it is ended
    outcome,        \* request -> reply
    size,           \* history: request -> its values, 0 if it has no family
    healthy,        \* history: the environment was fine during the request
    due,            \* history: the request had to start a new file
    torn,           \* history: files that lost spikes in a failed flush
    wrote           \* history: file -> spikes given to its generator

history == <<size, healthy, due>>
env == <<dirOK, diskOK, faults, stopped>>
generator == <<gen, creationDate, buffer, disk, torn, wrote>>
vars == <<now, env, pc, req, todo, generator, outcome, history>>

-----------------------------------------------------------------------------
LongMin == -LongHalf

\* Addition of Longs wraps around.
LongAdd(x, y) == ((x + y + LongHalf) % (2 * LongHalf)) - LongHalf

Times == 1 .. MaxTime
Requests == 1 .. MaxRequests
\* A spike is named by its request and by the values that were left with it.
Spikes == Requests \X (1 .. MaxValues)
NoFile == 0
Files == [spikes : Seq(Spikes), exists : BOOLEAN, ended : BOOLEAN]
PCs == {"idle", "validate", "close", "date", "open", "write"}

Init ==
    /\ now = 1
    /\ dirOK = TRUE
    /\ diskOK = TRUE
    /\ faults = 0
    /\ stopped = NoFile
    /\ pc = "idle"
    /\ req = 0
    /\ todo = 0
    /\ gen = [state |-> "null", file |-> NoFile]
    /\ creationDate = LongMin
    /\ buffer = <<>>
    /\ disk = [t \in Times |-> [spikes |-> <<>>, exists |-> FALSE, ended |-> FALSE]]
    /\ outcome = [r \in Requests |-> "none"]
    /\ size = [r \in Requests |-> 0]
    /\ healthy = TRUE
    /\ due = FALSE
    /\ torn = {}
    /\ wrote = [t \in Times |-> <<>>]

-----------------------------------------------------------------------------
(* The actor replies: Success(emptyContext()) or Failure(e).                *)
Reply(o) ==
    /\ outcome' = [outcome EXCEPT ![req] = o]
    /\ pc' = "idle"
    /\ todo' = 0

\* A request arrives.  Without a spike resource, or with a channel that has no
\* family, apply returns the empty context at once.
Receive(ch, n) ==
    /\ pc = "idle"
    /\ req < MaxRequests
    /\ req' = req + 1
    /\ healthy' = (dirOK /\ diskOK)
    /\ due' = FALSE
    /\ IF ch \in Mapped
       THEN /\ pc' = "validate"
            /\ todo' = n
            /\ size' = [size EXCEPT ![req + 1] = n]
            /\ UNCHANGED outcome
       ELSE /\ outcome' = [outcome EXCEPT ![req + 1] = "Success"]
            /\ UNCHANGED <<pc, todo, size>>
    /\ UNCHANGED <<now, env, generator>>

\* Mutant: the interval is left out of a comparison that is not strict.
Due_NoInterval == creationDate <= now

\* creationDate + interval() < System.currentTimeMillis()
Due == LongAdd(creationDate, Interval) < now

\* validateFile: is a new file due?
Validate ==
    /\ pc = "validate"
    /\ pc' = CASE ~Due -> "write"
               [] Due /\ gen.state = "null" -> "date"
               [] Due /\ gen.state # "null" -> "close"
    /\ due' = Due
    /\ UNCHANGED <<now, env, req, todo, generator, outcome, size, healthy>>

\* A flush that throws: Jackson has dropped the buffer, and the generator is
\* still in the array or stays in an object, depending on where the buffer ended.
FlushThrows ==
    /\ buffer' = <<>>
    /\ torn' = torn \cup {gen.file}
    /\ \E s \in {"open", "broken"} : gen' = [gen EXCEPT !.state = s]
    /\ UNCHANGED <<creationDate, disk, wrote>>
    /\ Reply("Failure")

\* Mutant: the file is ended without what is left in the buffer.
Ended_NoFlush(f) == [f EXCEPT !.ended = TRUE]

\* What close makes of a file.
Ended(f) == [f EXCEPT !.spikes = @ \o buffer, !.ended = TRUE]

\* closeFile: writeEndArray and close, the buffer goes to the file.
CloseFile ==
    /\ pc = "close"
    /\ gen.state = "open"
    /\ diskOK
    /\ disk' = [disk EXCEPT ![gen.file] = Ended(@)]
    /\ gen' = [gen EXCEPT !.state = "broken"]
    /\ buffer' = <<>>
    /\ pc' = "date"
    /\ UNCHANGED <<now, env, req, todo, creationDate, torn, wrote, outcome, history>>

\* closeFile throws: the generator is not in an array, or the flush fails.
CloseFileThrows ==
    /\ pc = "close"
    /\ \/ /\ gen.state = "broken"
          /\ Reply("Failure")
          /\ UNCHANGED generator
       \/ /\ gen.state = "open"
          /\ ~diskOK
          /\ FlushThrows
    /\ UNCHANGED <<now, env, req, history>>

\* creationDate = System.currentTimeMillis(), before the file is opened.
SetCreationDate ==
    /\ pc = "date"
    /\ creationDate' = now
    /\ pc' = "open"
    /\ UNCHANGED <<now, env, req, todo, gen, buffer, disk, torn, wrote,
                   outcome, history>>

\* createNewFile, createGenerator and writeStartArray.  createGenerator truncates
\* the file when there is one of that name.
OpenFile ==
    /\ pc = "open"
    /\ dirOK
    /\ gen' = [state |-> "open", file |-> creationDate]
    /\ disk' = [disk EXCEPT ![creationDate] =
                   [spikes |-> <<>>, exists |-> TRUE, ended |-> FALSE]]
    /\ wrote' = [wrote EXCEPT ![creationDate] = <<>>]
    /\ torn' = torn \ {creationDate}
    /\ buffer' = <<>>
    /\ pc' = "write"
    /\ UNCHANGED <<now, env, req, todo, creationDate, outcome, history>>

\* The directory is not specified, is gone or cannot be written.  jsonGenerator
\* keeps its value, creationDate has its new one.
OpenFileThrows ==
    /\ pc = "open"
    /\ ~dirOK
    /\ Reply("Failure")
    /\ UNCHANGED <<now, env, req, generator, history>>

\* Mutants: the loop runs once more, or once less, than there are values.
MoreValues_OnceMore == todo >= 0
MoreValues_OnceLess == todo > 1

\* The loop over the values goes on.
MoreValues == todo > 0

\* One iteration of the loop over the values: the spike is in the buffer, and
\* the buffer goes to the file when it is full.
WriteSpike ==
    /\ pc = "write"
    /\ MoreValues
    /\ gen.state = "open"
    /\ LET full == Append(buffer, <<req, todo>>)
       IN  IF Len(full) < BufferSize
           THEN buffer' = full /\ UNCHANGED disk
           ELSE /\ diskOK
                /\ buffer' = <<>>
                /\ disk' = [disk EXCEPT ![gen.file].spikes = @ \o full]
    /\ wrote' = [wrote EXCEPT ![gen.file] = Append(@, <<req, todo>>)]
    /\ todo' = todo - 1
    /\ UNCHANGED <<now, env, pc, req, gen, creationDate, torn, outcome, history>>

\* The write throws: there is no generator, it is closed, or the flush fails.
WriteSpikeThrows ==
    /\ pc = "write"
    /\ MoreValues
    /\ \/ /\ gen.state # "open"
          /\ Reply("Failure")
          /\ UNCHANGED generator
       \/ /\ gen.state = "open"
          /\ Len(buffer) + 1 >= BufferSize
          /\ ~diskOK
          /\ FlushThrows
    /\ UNCHANGED <<now, env, req, history>>

\* Every value is written: apply returns emptyContext().
Return ==
    /\ pc = "write"
    /\ ~MoreValues
    /\ Reply("Success")
    /\ UNCHANGED <<now, env, req, generator, history>>

-----------------------------------------------------------------------------
(* The environment.                                                         *)

Tick ==
    /\ now < MaxTime
    /\ now' = now + 1
    /\ UNCHANGED <<env, pc, req, todo, generator, outcome, history>>

\* The directory or the disk fails or comes back.
EnvChange ==
    /\ faults < MaxFaults
    /\ faults' = faults + 1
    /\ \/ dirOK' = ~dirOK /\ UNCHANGED diskOK
       \/ diskOK' = ~diskOK /\ UNCHANGED dirOK
    /\ healthy' = FALSE
    /\ UNCHANGED <<now, stopped, pc, req, todo, generator, outcome, size, due>>

\* The actor is stopped between two requests (its supervisor is restarted, the
\* JVM ends) and a later request creates a new instance, possibly in the same
\* millisecond.  stop does not close the file: what is in the buffer never
\* reaches it.
StopActor ==
    /\ faults < MaxFaults
    /\ pc = "idle"
    /\ faults' = faults + 1
    /\ stopped' = now
    /\ gen' = [state |-> "null", file |-> NoFile]
    /\ creationDate' = LongMin
    /\ buffer' = <<>>
    /\ UNCHANGED <<now, dirOK, diskOK, pc, req, todo, disk, torn, wrote, outcome,
                   history>>

-----------------------------------------------------------------------------
Apply ==
    \/ Validate
    \/ CloseFile
    \/ CloseFileThrows
    \/ SetCreationDate
    \/ OpenFile
    \/ OpenFileThrows
    \/ WriteSpike
    \/ WriteSpikeThrows
    \/ Return

Next ==
    \/ \E ch \in Channels, n \in 0 .. MaxValues : Receive(ch, n)
    \/ Apply
    \/ Tick
    \/ EnvChange
    \/ StopActor

Spec == Init /\ [][Next]_vars

\* apply runs to its end, and time passes.  Nothing makes requests arrive.
FairSpec == Spec /\ WF_vars(Apply) /\ WF_vars(Tick)

-----------------------------------------------------------------------------
TypeOK ==
    /\ now \in Times
    /\ dirOK \in BOOLEAN
    /\ diskOK \in BOOLEAN
    /\ faults \in 0 .. MaxFaults
    /\ stopped \in Times \cup {NoFile}
    /\ pc \in PCs
    /\ req \in 0 .. MaxRequests
    /\ todo \in 0 .. MaxValues
    /\ gen \in [state : {"null", "open", "broken"}, file : Times \cup {NoFile}]
    /\ creationDate \in Times \cup {LongMin}
    /\ buffer \in Seq(Spikes)
    /\ disk \in [Times -> Files]
    /\ outcome \in [Requests -> {"none", "Success", "Failure"}]
    /\ size \in [Requests -> 0 .. MaxValues]
    /\ healthy \in BOOLEAN
    /\ due \in BOOLEAN
    /\ torn \subseteq Times
    /\ wrote \in [Times -> Seq(Spikes)]

OnDisk(s) == \E t \in Times : \E i \in DOMAIN disk[t].spikes : disk[t].spikes[i] = s
InFile(s, t) == \E i \in DOMAIN wrote[t] : wrote[t][i] = s

\* A file that has its closing bracket holds every spike that was given to its
\* generator, in that order, unless a flush of that file failed (closeFile).
EndedIsComplete ==
    \A t \in Times : disk[t].ended /\ t \notin torn => disk[t].spikes = wrote[t]

\* A file loses nothing of what it holds, with one exception.  creationDate is read
\* anew for each file and a new instance of the action knows nothing of the files
\* of the last one; only a file that was opened in the very millisecond in which
\* the last instance was stopped may be truncated, when the new instance opens its
\* first file in that millisecond too (validateFile).
NoFileOverwritten ==
    [][\A t \in Times :
          disk[t].exists /\ ~(t = stopped /\ gen.state = "null") =>
              /\ Len(disk'[t].spikes) >= Len(disk[t].spikes)
              /\ SubSeq(disk'[t].spikes, 1, Len(disk[t].spikes)) = disk[t].spikes]_vars

\* When a request is answered with Success, all its spikes went to one file: the
\* interval never ends in the middle of a request (validateFile is called once per
\* activation), and none of its values is skipped.
RequestInOneFile ==
    [][\A r \in Requests :
          outcome[r] # "Success" /\ outcome'[r] = "Success" =>
              \E t \in Times : \A n \in 1 .. size'[r] : InFile(<<r, n>>, t)']_vars

\* The comment of apply: "Activation of this way2think produces a series of spikes
\* stored in file in JSON format".  A spike whose request succeeded gets to disk.
SpikesAreStored ==
    \A r \in Requests :
        outcome[r] = "Success" ~>
            \A n \in 1 .. size[r] : OnDisk(<<r, n>>)

\* The same comment, for the first activation after the end of an interval: with
\* directory and disk in order during the activation, it does not fail.
DueRotationSucceeds ==
    ~(pc = "idle" /\ req > 0 /\ due /\ healthy /\ outcome[req] = "Failure")
=============================================================================
