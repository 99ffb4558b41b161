----------------------------- MODULE SrtpMedia ------------------------------
(***************************************************************************)
(* One direction of the media of a call: the SrtpWrapper thread of one     *)
(* phone takes frames from the audio pipe, puts an RTP header in front of  *)
(* them, protects them and writes them to the network; the SrtpUnwrapper   *)
(* thread of the other phone reads fixed-size packets, unprotects them and *)
(* writes the frames to its audio pipe.  The first native error or         *)
(* IOException ends a thread with an exception nobody catches: it closes   *)
(* its streams, and Android ends the phone's process.                      *)
(*                                                                         *)
(* Between the two threads lie a pipe, the sending phone's Connector, the  *)
(* TCP connection through Tor, the other phone's Connector and a second    *)
(* pipe.  Each is a queue that keeps the order of whole packets (Connector *)
(* copies PACKET_SIZE = 12 + 8 + 4 bytes at a time), so the path is one    *)
(* bounded queue, wire; link says whether it is still in one piece.        *)
(*                                                                         *)
(* The SRTP contexts are the ones SrtpProtocol left: the receiver's may be *)
(* right, or carry a wrong SSRC, or a wrong salt (a KeepAliveWorker message *)
(* read in place of either, see module Handshake).                         *)
(***************************************************************************)
EXTENDS SrtpStream, Sequences

CONSTANT MaxInFlight   \* packets the pipes and the connection hold

ASSUME MaxInFlightAssumption == MaxInFlight \in Nat /\ MaxInFlight >= 1

\* SSRC and key material, represented by where they come from.
Sender == "sender"
Garbage == "garbage"
Material == {Sender, Garbage}

VARIABLES mSequence,  \* rtpContext->mSequence of the sending phone
          tx,         \* the stream of srtpContextSend
          rx,         \* the stream of srtpContextRecv of the other phone
          wire,       \* packets written and not yet read
          link,       \* the path: open, closed by a thread, or lost
          wrapper,    \* state of the SrtpWrapper thread
          unwrapper,  \* state of the SrtpUnwrapper thread
          used,       \* indices under which payloads were encrypted
          frames,     \* frames wrapped and written
          heard       \* frames unwrapped and passed on

vars == <<mSequence, tx, rx, wire, link, wrapper, unwrapper, used, frames, heard>>

Statuses == {"ok", "no_ctx", "replay_old", "replay_fail", "auth_fail", "key_expired"}

\* "running", or why run() threw: the status of the native call, an
\* IOException of the stream from or to the network, or one of the pipe to the
\* AudioOutputWorker.
ThreadStates == {"running", "io_error", "no_playback"} \cup (Statuses \ {"ok"})

Packet == [ssrc : Material, key : Material, seq : Seqs, index : Nat, frame : Nat]

\* initRtp draws the first sequence number at random; initSender creates the
\* sending context and initReceiver the receiving one.
Init == /\ mSequence \in Seqs
        /\ tx = srtp_stream_init(Sender, Sender)
        /\ rx \in {srtp_stream_init(ssrc, key) : ssrc \in Material, key \in Material}
        /\ wire = << >>
        /\ link = "open"
        /\ wrapper = "running"
        /\ unwrapper = "running"
        /\ used = {}
        /\ frames = 0
        /\ heard = 0

-----------------------------------------------------------------------------
\* getNextPacketHeader with a counter wider than 16 bits
getNextPacketHeader_wide == [ssrc |-> Sender, seq |-> mSequence + 1]

\* The header of the next packet: the 16-bit sequence number is incremented
\* first.
getNextPacketHeader == [ssrc |-> Sender, seq |-> (mSequence + 1) % SeqMax]

\* wrapPayloadNative
wrapPayloadNative == srtp_protect(tx, getNextPacketHeader)

\* unwrapPacketNative on the packet just read
unwrapPacketNative == srtp_unprotect(rx, Head(wire))

\* Effects of the native calls on the native state, whatever happens next.
Wrapped == /\ mSequence' = getNextPacketHeader.seq
           /\ tx' = wrapPayloadNative.stream

\* The packets on their way are cut after any of them.
Truncate == \E n \in 0 .. Len(wire) : wire' = SubSeq(wire, 1, n)

\* closeStreams of the wrapper and the end of its process: what the Connector
\* has not sent by then is lost, and the peer still reads the rest.
Close == /\ link' = IF link = "open" THEN "closed" ELSE link
         /\ Truncate

\* One iteration of SrtpWrapper.run: a frame is read from the audio pipe,
\* wrapped and written.
wrapAndWrite ==
    /\ wrapper = "running" /\ link = "open" /\ Len(wire) < MaxInFlight
    /\ wrapPayloadNative.status = "ok"
    /\ Wrapped
    /\ frames' = frames + 1
    /\ wire' = Append(wire, [ssrc |-> Sender, key |-> Sender,
                             seq |-> getNextPacketHeader.seq,
                             index |-> wrapPayloadNative.index, frame |-> frames'])
    /\ used' = used \cup {wrapPayloadNative.index}
    /\ UNCHANGED <<rx, link, wrapper, unwrapper, heard>>

\* The native call refuses the packet: MainProtocolException, closeStreams.
wrapFails ==
    /\ wrapper = "running"
    /\ wrapPayloadNative.status # "ok"
    /\ Wrapped
    /\ wrapper' = wrapPayloadNative.status
    /\ Close
    /\ UNCHANGED <<rx, unwrapper, used, frames, heard>>

\* The frame is encrypted and then cannot be written, the Connector having
\* closed the pipe.
writeFails ==
    /\ wrapper = "running" /\ link # "open"
    /\ wrapPayloadNative.status = "ok"
    /\ Wrapped
    /\ used' = used \cup {wrapPayloadNative.index}
    /\ wrapper' = "io_error"
    /\ UNCHANGED <<rx, wire, link, unwrapper, frames, heard>>

\* The path is broken and the Connector has not noticed yet: the pipe takes the
\* packet, and it goes nowhere.
writeLost ==
    /\ wrapper = "running" /\ link # "open"
    /\ wrapPayloadNative.status = "ok"
    /\ Wrapped
    /\ frames' = frames + 1
    /\ used' = used \cup {wrapPayloadNative.index}
    /\ UNCHANGED <<rx, wire, link, wrapper, unwrapper, heard>>

\* The audio pipe ends (stopSending): readFully throws before anything is wrapped.
audioEnds ==
    /\ wrapper = "running"
    /\ wrapper' = "io_error"
    /\ Close
    /\ UNCHANGED <<mSequence, tx, rx, unwrapper, used, frames, heard>>

\* unwrapAndWrite that loses the frame of the first packet of the stream
unwrapAndWrite_losesFirst ==
    /\ unwrapper = "running" /\ wire # << >>
    /\ unwrapPacketNative.status = "ok"
    /\ rx' = unwrapPacketNative.stream
    /\ wire' = Tail(wire)
    /\ heard' = IF rx.direction = "unknown" THEN heard ELSE heard + 1
    /\ UNCHANGED <<mSequence, tx, link, wrapper, unwrapper, used, frames>>

\* One iteration of SrtpUnwrapper.run.
unwrapAndWrite ==
    /\ unwrapper = "running" /\ wire # << >>
    /\ unwrapPacketNative.status = "ok"
    /\ rx' = unwrapPacketNative.stream
    /\ wire' = Tail(wire)
    /\ heard' = heard + 1
    /\ UNCHANGED <<mSequence, tx, link, wrapper, unwrapper, used, frames>>

\* The frame is decrypted and then cannot be written: playback was stopped.
writePayloadFails ==
    /\ unwrapper = "running" /\ wire # << >>
    /\ unwrapPacketNative.status = "ok"
    /\ rx' = unwrapPacketNative.stream
    /\ wire' = Tail(wire)
    /\ unwrapper' = "no_playback"
    /\ UNCHANGED <<mSequence, tx, link, wrapper, used, frames, heard>>

\* The native call refuses the packet: MainProtocolException, closeStreams.
unwrapFails ==
    /\ unwrapper = "running" /\ wire # << >>
    /\ unwrapPacketNative.status # "ok"
    /\ rx' = unwrapPacketNative.stream
    /\ wire' = Tail(wire)
    /\ unwrapper' = unwrapPacketNative.status
    /\ UNCHANGED <<mSequence, tx, link, wrapper, used, frames, heard>>

\* The end of the stream: readFully throws.
readFails ==
    /\ unwrapper = "running" /\ link # "open" /\ wire = << >>
    /\ unwrapper' = "io_error"
    /\ UNCHANGED <<mSequence, tx, rx, wire, link, wrapper, used, frames, heard>>

\* The receiving phone's Connector cannot write to the pipe the unwrapper has
\* closed and closes the socket, or the end of the process does.
pathCloses ==
    /\ unwrapper # "running" /\ link = "open"
    /\ link' = "closed"
    /\ UNCHANGED <<mSequence, tx, rx, wire, wrapper, unwrapper, used, frames, heard>>

\* The connection through Tor is lost or reset, with any of the packets on their way.
linkBreaks ==
    /\ link # "lost"
    /\ link' = "lost"
    /\ Truncate
    /\ UNCHANGED <<mSequence, tx, rx, wrapper, unwrapper, used, frames, heard>>

Terminated == /\ wrapper # "running" /\ unwrapper # "running"
              /\ UNCHANGED vars

Next == \/ wrapAndWrite \/ wrapFails \/ writeFails \/ writeLost \/ audioEnds
        \/ unwrapAndWrite \/ writePayloadFails \/ unwrapFails \/ readFails
        \/ pathCloses \/ linkBreaks \/ Terminated

\* A runnable unwrapper thread is scheduled, and so is a Connector; nothing is
\* assumed of the sending phone (its wrapper may get no further frame), of the
\* ends of the audio pipes or of the network.
Fairness == /\ WF_vars(unwrapAndWrite \/ unwrapFails \/ readFails)
            /\ WF_vars(pathCloses)

Spec == Init /\ [][Next]_vars

FairSpec == Spec /\ Fairness

-----------------------------------------------------------------------------
\* Types of the variables.
TypeOK == /\ mSequence \in Seqs
          /\ tx \in StreamType(Material, Material)
          /\ rx \in StreamType(Material, Material)
          /\ wire \in Seq(Packet)
          /\ link \in {"open", "closed", "lost"}
          /\ wrapper \in ThreadStates
          /\ unwrapper \in ThreadStates
          /\ used \subseteq Nat
          /\ frames \in Nat
          /\ heard \in Nat

RightContext == rx.ssrc = Sender /\ rx.key = Sender

\* Whatever the first sequence number and however often it wraps, the library
\* refuses none of the phone's own packets: a wrapper thread only ends because
\* the key is used up or a stream is closed, and, when the call set-up left the
\* right context, an unwrapper thread only ends because a stream is closed.
\* (srtp_protect / srtp_unprotect, rdbx_estimate_index, rdbx_check)
NoPacketRefused == /\ wrapper \in {"running", "io_error", "key_expired"}
                   /\ RightContext => unwrapper \in {"running", "io_error", "no_playback"}

\* The receiver follows the sender's rollover counter: for each packet on its
\* way, in order, the index it will estimate is the one the payload was
\* encrypted under, so a frame is never decrypted with another keystream.
\* (rdbx_estimate_index on both sides of the connection)
Lockstep == RightContext /\ unwrapper = "running" /\ wire # << >> =>
                LET p == Head(wire)
                IN  /\ rdbx_estimate_index(rx.rdbx, p.seq).guess = p.index
                    /\ p.frame = heard + 1

\* Two frames are never encrypted under the same packet index, not even when
\* the 48-bit index wraps: the key expires first.
\* (key_limit_update, rdbx_estimate_index, srtp_protect)
NoKeystreamReuse ==
    [][wrapPayloadNative.status = "ok" /\ tx' # tx
           => wrapPayloadNative.index \notin used]_vars

\* With a context that differs from the sender's no frame is ever played: the
\* first packet ends the unwrapper thread.
\* (srtp_get_stream, the tag check of srtp_unprotect)
WrongContextIsSilent == ~ RightContext => heard = 0

\* As long as the call lasts and is played, every frame written to the network
\* reaches the other phone's audio output.  (SrtpUnwrapper.run)
FramesArrive ==
    \A n \in 1 .. KeyLimit :
        RightContext /\ frames >= n
            ~> heard >= n \/ link # "open" \/ unwrapper = "no_playback"
=============================================================================
