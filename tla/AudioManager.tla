---------------------------- MODULE AudioManager ----------------------------
(***************************************************************************)
(* AudioManagerImpl as its interface offers it: getStream, startSending and *)
(* stopSending (AudioInput), playStream and stopPlaying (AudioOutput), and *)
(* the worker threads they start.  All input workers share one AudioRecord, *)
(* all output workers one AudioTrack, and stopAndClose does not wait for   *)
(* the worker to end: it sets a flag that the worker reads when the read   *)
(* or write it is in has returned.                                         *)
(***************************************************************************)
EXTENDS Naturals

CONSTANT MaxWorkers   \* bound: workers created on each side

MaxWorkersAssumption == MaxWorkers \in Nat

Sides == {"input", "output"}
Ids == 1 .. MaxWorkers
Null == 0
None == "none"

VARIABLES
    worker,    \* worker[s]: the field of AudioInput or AudioOutput, or Null
    created,   \* created[s]: how many workers were created
    state,     \* state[s][i]: where worker i is in run
    running,   \* running[s][i]
    device,    \* device[s]: AudioRecord or AudioTrack is "on" or "off"
    closed,    \* closed[s]: the workers whose stream is closed
    stopped,   \* stopped[s]: history: the workers that were told to stop
    error      \* the exception that ended the calling thread, or None

vars == <<worker, created, state, running, device, closed, stopped, error>>

Init == /\ worker = [s \in Sides |-> Null]
        /\ created = [s \in Sides |-> 0]
        /\ state = [s \in Sides |-> [i \in Ids |-> "new"]]
        /\ running = [s \in Sides |-> [i \in Ids |-> TRUE]]
        /\ device = [s \in Sides |-> "off"]
        /\ closed = [s \in Sides |-> {}] /\ stopped = [s \in Sides |-> {}]
        /\ error = None

Throw(why) == /\ error' = why
              /\ UNCHANGED <<worker, created, state, running, device, closed, stopped>>

\* new AudioInputWorker, new AudioOutputWorker
NewWorker(s) == /\ created[s] < MaxWorkers
                /\ created' = [created EXCEPT ![s] = @ + 1]
                /\ worker' = [worker EXCEPT ![s] = created'[s]]

Step(s, i, to) == state' = [state EXCEPT ![s][i] = to]

-----------------------------------------------------------------------------
(* The calls of the interface                                              *)

getStream ==
    /\ error = None
    /\ IF worker["input"] # Null THEN Throw("attempt to reinitialize")
       ELSE /\ NewWorker("input")
            /\ UNCHANGED <<state, running, device, closed, stopped, error>>

startSending ==
    /\ error = None
    /\ IF worker["input"] = Null THEN Throw("not initialized")
       ELSE IF state["input"][worker["input"]] # "new" THEN Throw("started twice")
       ELSE /\ Step("input", worker["input"], "initialize")
            /\ UNCHANGED <<worker, created, running, device, closed, stopped, error>>

playStream ==
    /\ error = None
    /\ NewWorker("output")
    /\ Step("output", created'["output"], "initialize")
    /\ UNCHANGED <<running, device, closed, stopped, error>>

\* stopSending and stopPlaying: stopAndClose sets a flag.
stop(s) ==
    /\ error = None
    /\ IF worker[s] = Null THEN Throw("not initialized")
       ELSE /\ running' = [running EXCEPT ![s][worker[s]] = FALSE]
            /\ stopped' = [stopped EXCEPT ![s] = @ \cup {worker[s]}]
            /\ worker' = [worker EXCEPT ![s] = Null]
            /\ UNCHANGED <<created, state, device, closed, error>>

-----------------------------------------------------------------------------
(* The threads                                                             *)

\* codec.initialize has returned: startRecording or play.
startDevice(s, i) ==
    /\ state[s][i] = "initialize"
    /\ device' = [device EXCEPT ![s] = "on"]
    /\ Step(s, i, "loop")
    /\ UNCHANGED <<worker, created, running, closed, stopped, error>>

\* "while(running)" goes on: a frame is read, coded and written.  readFully waits for
\* octets, and write for room in the pipe, for as long as the other end takes.
enterIo(s, i) ==
    /\ state[s][i] = "loop" /\ running[s][i]
    /\ Step(s, i, "io")
    /\ UNCHANGED <<worker, created, running, device, closed, stopped, error>>

leaveIo(s, i) ==
    /\ state[s][i] = "io"
    /\ Step(s, i, "loop")
    /\ UNCHANGED <<worker, created, running, device, closed, stopped, error>>

\* The output worker's readFully comes to the end of the stream.
endOfStream(i) ==
    /\ state["output"][i] = "io"
    /\ Step("output", i, "loop")
    /\ running' = [running EXCEPT !["output"][i] = FALSE]
    /\ UNCHANGED <<worker, created, device, closed, stopped, error>>

\* the loop ends and the device is left on
leaveLoop_on(s, i) ==
    /\ state[s][i] = "loop" /\ ~ running[s][i]
    /\ Step(s, i, "close")
    /\ UNCHANGED <<worker, created, running, device, closed, stopped, error>>

\* "while(running)" ends: the device is stopped.
leaveLoop(s, i) ==
    /\ state[s][i] = "loop" /\ ~ running[s][i]
    /\ device' = [device EXCEPT ![s] = "off"]
    /\ Step(s, i, "close")
    /\ UNCHANGED <<worker, created, running, closed, stopped, error>>

\* codec.release, and the stream is closed.
closeStream(s, i) ==
    /\ state[s][i] = "close"
    /\ closed' = [closed EXCEPT ![s] = @ \cup {i}]
    /\ Step(s, i, "done")
    /\ UNCHANGED <<worker, created, running, device, stopped, error>>

Run(s, i) == startDevice(s, i) \/ enterIo(s, i) \/ leaveLoop(s, i) \/ closeStream(s, i)

Next == \/ getStream \/ startSending \/ playStream
        \/ \E s \in Sides : stop(s)
        \/ \E s \in Sides, i \in Ids : Run(s, i) \/ leaveIo(s, i)
        \/ \E i \in Ids : endOfStream(i)

\* A thread that has been started runs on; nothing says that a read or write returns.
Fairness == \A s \in Sides, i \in Ids : WF_vars(Run(s, i))
Spec == Init /\ [][Next]_vars /\ Fairness

-----------------------------------------------------------------------------
\* Types of the variables.
TypeOK ==
    /\ worker \in [Sides -> Ids \cup {Null}]
    /\ created \in [Sides -> 0 .. MaxWorkers]
    /\ state \in [Sides -> [Ids -> {"new", "initialize", "loop", "io", "close", "done"}]]
    /\ running \in [Sides -> [Ids -> BOOLEAN]]
    /\ device \in [Sides -> {"on", "off"}]
    /\ closed \in [Sides -> SUBSET Ids] /\ stopped \in [Sides -> SUBSET Ids]
    /\ error \in {None, "attempt to reinitialize", "not initialized", "started twice"}

\* The microphone is never left on: once every worker that was started has ended,
\* however starts and stops overlapped, it is off.  (AudioInputWorker.run)
MicrophoneOff ==
    (\A i \in Ids : state["input"][i] \in {"new", "done"}) => device["input"] = "off"

\* A worker that was started and told to stop, at whatever point of run, closes its
\* stream, unless a read or write of it never returns.
\* (AudioInputWorker.run, AudioOutputWorker.run)
ToldToStop(s, i) == i \in stopped[s] /\ state[s][i] # "new"
Closed(s, i) == i \in closed[s]
IoReturns(s, i) == []<>(state[s][i] # "io")
StoppedCloses ==
    \A s \in Sides, i \in Ids : IoReturns(s, i) => (ToldToStop(s, i) ~> Closed(s, i))

\* AudioManager.java:24, "Stops writing audio data and closes stream", and :35, "Stops
\* playing audio data and closes stream": whatever the other end of the stream does.
StopCloses == \A s \in Sides, i \in Ids : ToldToStop(s, i) ~> Closed(s, i)

\* AudioManager.java:12, "all calls initialize new stream".
GetStreamInitializes == error # "attempt to reinitialize"

\* AudioManager.java:19, "Starts writing audio data to stream": the worker that was
\* started last and is in its loop records from a microphone that is on.
SendingRecords ==
    \A i \in Ids : state["input"][i] \in {"loop", "io"} /\ worker["input"] = i
                       => device["input"] = "on"
=============================================================================
