---------------------------- MODULE MediaPipeline ----------------------------
(***************************************************************************)
(* The threads and pipes a frame passes in one direction of a call:        *)
(*                                                                         *)
(*   AudioInputWorker -A-> SrtpWrapper -B-> Connector -net->                *)
(*       Connector -C-> SrtpUnwrapper -D-> AudioOutputWorker                *)
(*                                                                         *)
(* A, B, C and D are Piped streams of the two phones, net is the TCP       *)
(* connection.  The call code of each phone makes the pipes and starts the *)
(* threads one after the other, and some of them run before the pipe they  *)
(* write to is connected.  What SRTP does to a frame is in SrtpMedia: here *)
(* it succeeds or fails.                                                   *)
(***************************************************************************)
EXTENDS Naturals, Sequences

CONSTANTS Cap,        \* frames a pipe holds
          MaxFrames   \* bound: frames that are recorded

ASSUME PipelineAssumption == Cap \in Nat \ {0} /\ MaxFrames \in Nat

Pipes == {"A", "B", "net", "C", "D"}
Copiers == {"wrapper", "toNetwork", "fromNetwork", "unwrapper"}
Threads == Copiers \cup {"input", "output"}
From == [wrapper |-> "A", toNetwork |-> "B", fromNetwork |-> "net", unwrapper |-> "C"]
To == [wrapper |-> "B", toNetwork |-> "net", fromNetwork |-> "C", unwrapper |-> "D"]
Phone(t) == IF t \in {"input", "wrapper", "toNetwork"} THEN "sender" ELSE "receiver"

VARIABLES
    setUp,        \* setUp[p]: how far the call code of phone p is
    process,      \* process[p]: "alive" or "dead"
    life,         \* life[t]: "new", "running", "closing", "thrown", "dead"
    data,         \* data[q]: the frames in pipe q
    connected,    \* the pipes whose two ends know each other
    writerClosed, readerClosed,   \* the pipes closed at that end
    hold,         \* hold[c]: the frame c has read and not written, or 0
    bytes,        \* AudioOutputWorker's buffer: the last frame read, or 0
    recorded,     \* number of frames recorded
    played,       \* frames played
    unconnected,  \* history: a thread wrote to a pipe that was not connected
    lost          \* history: the connection broke

pipeVars == <<data, connected, writerClosed, readerClosed>>
vars == <<setUp, process, life, pipeVars, hold, bytes, recorded, played, unconnected, lost>>

Init == /\ setUp = [p \in {"sender", "receiver"} |-> 0]
        /\ process = [p \in {"sender", "receiver"} |-> "alive"]
        /\ life = [t \in Threads |-> "new"]
        /\ data = [q \in Pipes |-> << >>]
        /\ connected = {"net"} /\ writerClosed = {} /\ readerClosed = {}
        /\ hold = [c \in Copiers |-> 0] /\ bytes = 0
        /\ recorded = 0 /\ played = << >>
        /\ unconnected = FALSE /\ lost = FALSE

Running(t) == process[Phone(t)] = "alive" /\ life[t] = "running"
Become(t, state) == life' = [life EXCEPT ![t] = state]

-----------------------------------------------------------------------------
(* CallHandler: the call code                                              *)

Connect(q) == connected' = connected \cup {q} /\ UNCHANGED life
Start(t) == Become(t, "running") /\ UNCHANGED connected

SetUp(p, n) == /\ process[p] = "alive" /\ setUp[p] = n
               /\ setUp' = [setUp EXCEPT ![p] = n + 1]
               /\ UNCHANGED <<process, data, writerClosed, readerClosed, hold, bytes,
                              recorded, played, unconnected, lost>>

\* wrapStream with the audio source started first
setUpSender_early ==
    \/ SetUp("sender", 0) /\ Connect("A")
    \/ SetUp("sender", 1) /\ Start("input")
    \/ SetUp("sender", 2) /\ Start("wrapper")
    \/ SetUp("sender", 3) /\ Connect("B")
    \/ SetUp("sender", 4) /\ Start("toNetwork")

\* getStream connects A; wrapStream starts its thread and connects B; then
\* startSending and the Connector.
setUpSender ==
    \/ SetUp("sender", 0) /\ Connect("A")
    \/ SetUp("sender", 1) /\ Start("wrapper")
    \/ SetUp("sender", 2) /\ Connect("B")
    \/ SetUp("sender", 3) /\ Start("input")
    \/ SetUp("sender", 4) /\ Start("toNetwork")

\* C is connected; unwrapStream starts its thread and connects D; then playStream
\* and the Connector.
setUpReceiver ==
    \/ SetUp("receiver", 0) /\ Connect("C")
    \/ SetUp("receiver", 1) /\ Start("unwrapper")
    \/ SetUp("receiver", 2) /\ Connect("D")
    \/ SetUp("receiver", 3) /\ Start("output")
    \/ SetUp("receiver", 4) /\ Start("fromNetwork")

-----------------------------------------------------------------------------
(* The threads                                                             *)

\* One iteration of AudioInputWorker.run; an IOException is swallowed.
record ==
    /\ Running("input") /\ recorded < MaxFrames
    /\ recorded' = recorded + 1
    /\ \/ /\ "A" \notin readerClosed /\ Len(data["A"]) < Cap
          /\ data' = [data EXCEPT !["A"] = Append(@, recorded')]
       \/ "A" \in readerClosed /\ UNCHANGED data
    /\ UNCHANGED <<setUp, process, life, connected, writerClosed, readerClosed, hold,
                   bytes, played, unconnected, lost>>

\* readFully of Connector, SrtpWrapper and SrtpUnwrapper
read(c) ==
    /\ Running(c) /\ hold[c] = 0 /\ data[From[c]] # << >>
    /\ hold' = [hold EXCEPT ![c] = Head(data[From[c]])]
    /\ data' = [data EXCEPT ![From[c]] = Tail(@)]
    /\ UNCHANGED <<setUp, process, life, connected, writerClosed, readerClosed, bytes,
                   recorded, played, unconnected, lost>>

\* The write that follows it waits for room.
write(c) ==
    /\ Running(c) /\ hold[c] # 0 /\ To[c] \in connected \ readerClosed
    /\ Len(data[To[c]]) < Cap
    /\ data' = [data EXCEPT ![To[c]] = Append(@, hold[c])]
    /\ hold' = [hold EXCEPT ![c] = 0]
    /\ UNCHANGED <<setUp, process, life, connected, writerClosed, readerClosed, bytes,
                   recorded, played, unconnected, lost>>

\* The end of the stream, a pipe that is closed or not connected, or an error of the
\* native wrapPayload or unwrapPacket.
fail(c) ==
    /\ Running(c)
    /\ \/ hold[c] = 0 /\ data[From[c]] = << >> /\ From[c] \in writerClosed
       \/ hold[c] # 0 /\ To[c] \in readerClosed
       \/ hold[c] # 0 /\ To[c] \notin connected
       \/ hold[c] # 0 /\ c \in {"wrapper", "unwrapper"}
    /\ unconnected' = (unconnected \/ (hold[c] # 0 /\ To[c] \notin connected))
    /\ Become(c, "closing")
    /\ UNCHANGED <<setUp, process, pipeVars, hold, bytes, recorded, played, lost>>

\* closeStreams that forgets the output stream
closeStreams_half(c) ==
    /\ process[Phone(c)] = "alive" /\ life[c] = "closing"
    /\ readerClosed' = readerClosed \cup {From[c]}
    /\ Become(c, IF c \in {"wrapper", "unwrapper"} THEN "thrown" ELSE "dead")
    /\ UNCHANGED <<setUp, process, data, connected, writerClosed, hold, bytes, recorded,
                   played, unconnected, lost>>

\* closeStreams.  A Connector has caught the exception; the exception of a wrapper
\* leaves its thread.
closeStreams(c) ==
    /\ process[Phone(c)] = "alive" /\ life[c] = "closing"
    /\ readerClosed' = readerClosed \cup {From[c]}
    /\ writerClosed' = writerClosed \cup {To[c]}
    /\ Become(c, IF c \in {"wrapper", "unwrapper"} THEN "thrown" ELSE "dead")
    /\ UNCHANGED <<setUp, process, data, connected, hold, bytes, recorded, played,
                   unconnected, lost>>

\* One iteration of AudioOutputWorker.run
play ==
    /\ Running("output") /\ data["D"] # << >>
    /\ bytes' = Head(data["D"])
    /\ played' = Append(played, bytes')
    /\ data' = [data EXCEPT !["D"] = Tail(@)]
    /\ UNCHANGED <<setUp, process, life, connected, writerClosed, readerClosed, hold,
                   recorded, unconnected, lost>>

\* playLast that does not notice the end of the stream
playLast_runsOn ==
    /\ Running("output") /\ data["D"] = << >> /\ "D" \in writerClosed
    /\ Len(played) < 2 * MaxFrames
    /\ played' = Append(played, bytes)
    /\ UNCHANGED <<setUp, process, life, pipeVars, hold, bytes, recorded, unconnected,
                   lost>>

\* The last iteration: the read fails, and the buffer is decoded and played as it is.
playLast ==
    /\ Running("output") /\ data["D"] = << >> /\ "D" \in writerClosed
    /\ played' = Append(played, bytes)
    /\ readerClosed' = readerClosed \cup {"D"}
    /\ Become("output", "dead")
    /\ UNCHANGED <<setUp, process, data, connected, writerClosed, hold, bytes, recorded,
                   unconnected, lost>>

\* The exception of a wrapper ends its phone's process, and so its socket.
die(p) ==
    /\ process[p] = "alive" /\ \E t \in Threads : Phone(t) = p /\ life[t] = "thrown"
    /\ process' = [process EXCEPT ![p] = "dead"]
    /\ IF p = "sender"
       THEN writerClosed' = writerClosed \cup {"net"} /\ UNCHANGED readerClosed
       ELSE readerClosed' = readerClosed \cup {"net"} /\ UNCHANGED writerClosed
    /\ UNCHANGED <<setUp, life, data, connected, hold, bytes, recorded, played,
                   unconnected, lost>>

\* The connection breaks and what is on its way is cut.
loseConnection ==
    /\ ~ lost /\ lost' = TRUE
    /\ writerClosed' = writerClosed \cup {"net"}
    /\ readerClosed' = readerClosed \cup {"net"}
    /\ \E n \in 0 .. Len(data["net"]) : data' = [data EXCEPT !["net"] = SubSeq(@, 1, n)]
    /\ UNCHANGED <<setUp, process, life, connected, hold, bytes, recorded, played,
                   unconnected>>

Thread(c) == read(c) \/ write(c) \/ closeStreams(c)

Next == \/ setUpSender \/ setUpReceiver
        \/ record \/ play \/ playLast
        \/ \E c \in Copiers : Thread(c) \/ fail(c)
        \/ \E p \in {"sender", "receiver"} : die(p)
        \/ loseConnection

Spec == Init /\ [][Next]_vars

\* The end of a stream is an outcome of read that a running thread cannot miss.
EndOfStream(c) == /\ hold[c] = 0 /\ fail(c)

\* The threads and the call code run on.
Fairness == /\ WF_vars(setUpSender) /\ WF_vars(setUpReceiver)
            /\ WF_vars(play) /\ WF_vars(playLast)
            /\ \A c \in Copiers : WF_vars(Thread(c)) /\ WF_vars(EndOfStream(c))
            /\ \A p \in {"sender", "receiver"} : WF_vars(die(p))
LiveSpec == Spec /\ Fairness

-----------------------------------------------------------------------------
\* Types of the variables.
TypeOK ==
    /\ setUp \in [{"sender", "receiver"} -> 0 .. 5]
    /\ process \in [{"sender", "receiver"} -> {"alive", "dead"}]
    /\ life \in [Threads -> {"new", "running", "closing", "thrown", "dead"}]
    /\ \A q \in Pipes : Len(data[q]) <= Cap /\ data[q] \in Seq(1 .. MaxFrames)
    /\ connected \subseteq Pipes /\ writerClosed \subseteq Pipes
    /\ readerClosed \subseteq Pipes
    /\ hold \in [Copiers -> 0 .. MaxFrames] /\ bytes \in 0 .. MaxFrames
    /\ recorded \in 0 .. MaxFrames /\ played \in Seq(0 .. MaxFrames)
    /\ unconnected \in BOOLEAN /\ lost \in BOOLEAN

\* Although wrapper and unwrapper run before the pipe they write to is connected,
\* neither ever writes to it before.  (SrtpProtocol.wrapStream, unwrapStream)
PipesConnected == ~ unconnected

\* The frames recorded are played in order, none lost between others, none twice
\* but the last.  (AudioOutputWorker.run, Connector.run)
Path == INSTANCE AudioPath WITH over <- (life["output"] = "dead")
PlaysInOrder == Path!Spec

\* A phone whose connection breaks does not go on listening to it: its process ends.
\* (Connector.closeStreams, SrtpUnwrapper.run)
LossEndsReceiver == lost ~> process["receiver"] = "dead"
=============================================================================
