------------------------------ MODULE Handshake ------------------------------
(***************************************************************************)
(* Setting up one call between two phones: TheOnionPhoneProtocol (hello,   *)
(* version, introduction, acceptance), KeyExchangeHelper (ephemeral        *)
(* Diffie-Hellman) and the exchange of SSRC and salt of SrtpProtocol, as   *)
(* CallHandler runs them one after the other over one TCP connection.      *)
(*                                                                         *)
(* The handshake code is straight-line blocking code, so each method is    *)
(* translated into the sequence of the blocking calls it makes, and        *)
(* todo[p] holds the calls party p still has to make.  Every element of a  *)
(* method is one write or one read of the socket (a message with its size  *)
(* first is two writes), which is the grain at which the KeepAliveWorker   *)
(* thread of the callee can put a WAIT between two writes of the thread    *)
(* that accepts the call.                                                  *)
(*                                                                         *)
(* Abstractions.  A public key, nonce, Diffie-Hellman key, SSRC or salt is *)
(* represented by the party that generated it.  A message is its kind and  *)
(* its payload.  An exception leaves the thread uncaught, which ends the   *)
(* process on Android: the party is "failed" and its socket is closed.     *)
(***************************************************************************)
EXTENDS Naturals, Sequences

CONSTANTS OtherKeys,    \* public keys that belong to neither party
          MaxWaits      \* bound: how often the keep-alive thread goes round

Caller == "caller"
Callee == "callee"
Party == {Caller, Callee}
Other(p) == IF p = Caller THEN Callee ELSE Caller

None == "none"          \* null, or nothing received yet
Garbage == "garbage"    \* bytes that straddle two messages
Zero == "zero"          \* the SSRC 0 that receiveSsrc returns on an IOException

ASSUME OtherKeysAssumption ==
    OtherKeys \cap (Party \cup {None, Garbage, Zero}) = {}
ASSUME MaxWaitsAssumption == MaxWaits \in Nat

Value == Party \cup OtherKeys \cup {None, Garbage, Zero}

(***************************************************************************)
(* Messages.                                                               *)
(***************************************************************************)
\* Messages that carry a value generated by the sender.
Carriers == {"PUBLIC_KEY", "CHALLENGE", "SIGNATURE", "DH_KEY", "SSRC", "SALT"}

Kind == Carriers \cup
        {"HELLO", "HELLO_ACK", "VERSION", "INTRODUCTION", "NO_INTRODUCTION",
         "INTRODUCTION_REQ", "NO_INTRODUCTION_REQ", "ACCEPT", "REJECT",
         "WAIT", "SIZE", "REST"}
         \* REST: the bytes of a SALT that a misaligned read leaves behind

Message == [kind: Kind, val: Value, over: Value]

(***************************************************************************)
(* The blocking calls a method is made of.                                 *)
(***************************************************************************)
Op == [do: {"send", "recv"}, kind: Kind]
      \cup [do: {"startKeepAliveWorker", "validateKey", "setPublicKey",
                 "initSender", "initReceiver", "startMedia", "return"},
            kind: {"SIZE"}]

send(k) == [do |-> "send", kind |-> k]
recv(k) == [do |-> "recv", kind |-> k]
do(name) == [do |-> name, kind |-> "SIZE"]      \* local steps have no message

sendMessageWithSizeFirst(k) == << send("SIZE"), send(k) >>
receiveMessageWithSizeFirst(k) == << recv("SIZE"), recv(k) >>

proveIdentityToOtherParty ==
    sendMessageWithSizeFirst("PUBLIC_KEY")
    \o << recv("CHALLENGE") >>
    \o sendMessageWithSizeFirst("SIGNATURE")

receiveAndVerifyPublicKey ==
    receiveMessageWithSizeFirst("PUBLIC_KEY")
    \o << send("CHALLENGE") >>
    \o receiveMessageWithSizeFirst("SIGNATURE")

\* Mutant: both sides read before they write.
exchangeKeys_readFirst ==
    receiveMessageWithSizeFirst("DH_KEY") \o sendMessageWithSizeFirst("DH_KEY")

\* Both sides of the key exchange write first and read afterwards.
exchangeKeys ==
    sendMessageWithSizeFirst("DH_KEY") \o receiveMessageWithSizeFirst("DH_KEY")

sendSsrcAndSalt == << send("SSRC"), send("SALT") >>

---------------------------------------------------------------------------
(* The caller's methods; ci is the CallInfo the user filled in. *)

CallInfo == [shouldIntroduce: BOOLEAN, requiresIntroduction: BOOLEAN,
             publicKey: {None, Callee} \cup OtherKeys]

\* Mutant: the two reads in the wrong order.
sendAndReceiveHello_swapped ==
    << send("HELLO"), recv("HELLO"), recv("HELLO_ACK"), send("HELLO_ACK") >>

sendAndReceiveHello ==
    << send("HELLO"), recv("HELLO_ACK"), recv("HELLO"), send("HELLO_ACK") >>

sendAndReceiveVersion == << send("VERSION"), recv("VERSION") >>

handleOutgoingIntroduction(ci) ==
    IF ci.shouldIntroduce
    THEN << send("INTRODUCTION") >> \o proveIdentityToOtherParty
    ELSE << send("NO_INTRODUCTION") >>

handleOutgoingRequestForIntroduction(ci) ==
    << send(IF ci.requiresIntroduction
            THEN "INTRODUCTION_REQ" ELSE "NO_INTRODUCTION_REQ") >>

waitForAccept == << recv("ACCEPT") >>

handleIncomingIntroductionIfRequested(ci) ==
    IF ci.requiresIntroduction
    THEN receiveAndVerifyPublicKey \o << do("validateKey"), do("setPublicKey") >>
    ELSE << >>

initiateOutgoingSession(ci) ==
    sendAndReceiveHello
    \o sendAndReceiveVersion
    \o handleOutgoingIntroduction(ci)
    \o handleOutgoingRequestForIntroduction(ci)
    \o waitForAccept
    \o handleIncomingIntroductionIfRequested(ci)
    \o exchangeKeys

\* SrtpProtocol.initiateOutgoingSession: sends its SSRC and salt first.
initiateOutgoingSrtp ==
    << do("initSender") >> \o sendSsrcAndSalt
    \o << recv("SSRC"), recv("SALT"), do("initReceiver") >>

\* Mutant: the media starts before the SRTP session is set up.
startCall_early(ci) ==
    initiateOutgoingSession(ci) \o << do("startMedia") >> \o initiateOutgoingSrtp

startCall(ci) ==
    initiateOutgoingSession(ci) \o initiateOutgoingSrtp \o << do("startMedia") >>

---------------------------------------------------------------------------
(* The callee's methods.                                                   *)
(* isOtherPartyIntroducing is recv("INTRODUCTION"): when the answer is     *)
(* yes, the read puts receiveAndSetPublicKey in front of the rest.         *)

receiveAndSendHello ==
    << recv("HELLO"), send("HELLO_ACK"), send("HELLO"), recv("HELLO_ACK") >>

receiveAndSendVersion == << recv("VERSION"), send("VERSION") >>

receiveAndSetPublicKey == receiveAndVerifyPublicKey \o << do("setPublicKey") >>

initiateIncomingSession ==
    receiveAndSendHello
    \o receiveAndSendVersion
    \o << recv("INTRODUCTION"), recv("INTRODUCTION_REQ"),
          do("startKeepAliveWorker") >>

handleOutgoingIntroductionIfRequested(requested) ==
    IF requested THEN proveIdentityToOtherParty ELSE << >>

\* SrtpProtocol.initiateIncomingSession: receives SSRC and salt first.
initiateIncomingSrtp ==
    << recv("SSRC"), recv("SALT"), do("initSender") >>
    \o sendSsrcAndSalt \o << do("initReceiver") >>

acceptCall(requested) ==
    << send("ACCEPT") >>
    \o handleOutgoingIntroductionIfRequested(requested)
    \o exchangeKeys
    \o initiateIncomingSrtp
    \o << do("startMedia") >>

rejectCall == << send("REJECT"), do("return") >>

---------------------------------------------------------------------------
(***************************************************************************)
(* State.                                                                  *)
(***************************************************************************)
VARIABLES
    callInfo,   \* the caller's CallInfo: a user input, never changed here
    todo,       \* todo[p]: the calls p's call thread still has to make
    status,     \* status[p]: CallHandler's view of the call
    chan,       \* chan[p]: written by p and not yet read by Other(p)
    link,       \* the TCP connection: "up" or "down"
    got,        \* got[p][k]: the payload of the message k that p has read
    peerKey,    \* peerKey[p]: the identity's public key in p's CallInfo
    keys,       \* keys[p]: the keys KeyExchangeHelper has put in the CallInfo
    sendCtx,    \* sendCtx[p]: the global srtpContextSend of srtp_jni.c
    recvCtx,    \* recvCtx[p]: the global srtpContextRecv of srtp_jni.c
    requested,  \* callee's CallInfo.requiresIntroduction
    worker,     \* where the callee's KeepAliveWorker thread is
    running,    \* KeepAliveWorker.running
    waits,      \* WAIT messages written (bounded by MaxWaits)
    answer,     \* history: the answer the callee has written, or None
    strays,     \* history: WAIT messages written after the answer
    timedOut    \* history: a read of the caller has timed out

callVars == <<peerKey, keys, sendCtx, recvCtx, requested>>
workerVars == <<worker, running, waits, strays>>
vars == <<callInfo, todo, status, chan, link, got, callVars, workerVars,
          answer, timedOut>>

Answers == {"ACCEPT", "REJECT"}
Received == {"PUBLIC_KEY", "CHALLENGE", "DH_KEY", "SSRC", "SALT"}

\* Half of the digest of the Diffie-Hellman secret, which depends on the two
\* public keys only.
SrtpKey(secret, half) == [secret |-> secret, half |-> half]
NoSrtpKey == SrtpKey({}, 0)
NoContext == [key |-> NoSrtpKey, ssrc |-> None, salt |-> None]

\* Mutant: both sides send with the first half.
DerivedKeys_sameHalves(p, otherPublic) ==
    LET secret == {p, otherPublic} IN
    [tx |-> SrtpKey(secret, 1), rx |-> SrtpKey(secret, 2)]

\* Mutant: the digest is not split (3 stands for both halves).
DerivedKeys_whole(p, otherPublic) ==
    LET secret == {p, otherPublic} IN
    [tx |-> SrtpKey(secret, 3), rx |-> SrtpKey(secret, 3)]

\* initiateKeyExchange takes the first half to send, handleKeyExchange the second.
DerivedKeys(p, otherPublic) ==
    LET secret == {p, otherPublic} IN
    IF p = Caller
    THEN [tx |-> SrtpKey(secret, 1), rx |-> SrtpKey(secret, 2)]
    ELSE [tx |-> SrtpKey(secret, 2), rx |-> SrtpKey(secret, 1)]

Init ==
    /\ callInfo \in CallInfo
    /\ todo = [p \in Party |-> IF p = Caller THEN startCall(callInfo)
                                             ELSE initiateIncomingSession]
    /\ status = [p \in Party |-> "running"]
    /\ chan = [p \in Party |-> << >>]
    /\ link = "up"
    /\ got = [p \in Party |-> [k \in Received |-> None]]
    /\ peerKey = [p \in Party |-> IF p = Caller THEN callInfo.publicKey ELSE None]
    /\ keys = [p \in Party |-> [tx |-> NoSrtpKey, rx |-> NoSrtpKey]]
    /\ sendCtx = [p \in Party |-> NoContext]
    /\ recvCtx = [p \in Party |-> NoContext]
    /\ requested = FALSE
    /\ worker = "unstarted" /\ running = TRUE /\ waits = 0
    /\ answer = None /\ strays = 0 /\ timedOut = FALSE

---------------------------------------------------------------------------
Inbox(p) == chan[Other(p)]
Doing(p, what) == status[p] = "running" /\ todo[p] # << >> /\ Head(todo[p]).do = what
Current(p) == Head(todo[p]).kind
Advance(p) == todo' = [todo EXCEPT ![p] = Tail(@)]
Consume(p) == chan' = [chan EXCEPT ![Other(p)] = Tail(@)]

\* The socket of p reports an error or the end of the stream.
Broken(p) == link = "down" \/ status[Other(p)] = "failed"

\* An exception leaves the thread of p and ends its process.
Fail(p) ==
    /\ status' = [status EXCEPT ![p] = "failed"]
    /\ UNCHANGED <<callInfo, todo, chan, link, got, callVars, workerVars,
                   answer>>

---------------------------------------------------------------------------
(* Writing. *)

MessageOf(p, k) ==
    [kind |-> k,
     val  |-> IF k \in Carriers THEN p ELSE None,
     over |-> IF k = "SIGNATURE" THEN got[p]["CHALLENGE"] ELSE None]

\* The socket takes the bytes; when the other process has gone they are lost,
\* which the writer may not learn at once.
sendMessage(p) ==
    /\ Doing(p, "send")
    /\ link = "up"
    /\ chan' = [chan EXCEPT ![p] = Append(@, MessageOf(p, Current(p)))]
    /\ answer' = IF Current(p) \in Answers THEN Current(p) ELSE answer
    /\ Advance(p)
    /\ UNCHANGED <<callInfo, status, link, got, callVars, workerVars>>

\* An IOException while sending ends the call, except in sendSsrcAndSalt, which
\* swallows it together with whatever it had still to write.
sendFails(p) ==
    /\ Doing(p, "send")
    /\ Broken(p)
    /\ IF Current(p) \in {"SSRC", "SALT"}
       THEN /\ todo' = [todo EXCEPT ![p] =
                          SubSeq(@, IF Current(p) = "SSRC" THEN 3 ELSE 2, Len(@))]
            /\ UNCHANGED <<callInfo, status, chan, link, got, callVars,
                           workerVars, answer>>
       ELSE Fail(p)

---------------------------------------------------------------------------
(* Reading. *)

\* Answers that are dealt with on their own, see below.
Choices == {"INTRODUCTION", "INTRODUCTION_REQ", "ACCEPT", "SSRC", "SALT"}

Available(p) ==
    CASE Current(p) = "SALT" ->         \* 14 bytes, wherever they come from
             \E i \in 1..Len(Inbox(p)) : Inbox(p)[i].kind = "SALT"
      [] OTHER -> Inbox(p) # << >>

\* What the read of message kind k takes without an exception.
Acceptable(p, k, m) ==
    CASE k = "INTRODUCTION" -> m.kind \in {"INTRODUCTION", "NO_INTRODUCTION"}
      [] k = "INTRODUCTION_REQ" ->
             m.kind \in {"INTRODUCTION_REQ", "NO_INTRODUCTION_REQ"}
      [] k = "ACCEPT" -> m.kind \in {"ACCEPT", "WAIT"}
      [] k = "SIGNATURE" ->             \* Signature.verify
             /\ m.kind = "SIGNATURE"
             /\ m.val = got[p]["PUBLIC_KEY"]
             /\ m.over = p
      [] k \in {"VERSION", "SSRC", "SALT"} -> TRUE
      [] OTHER -> m.kind = k

Reading(p, ks) ==
    /\ Doing(p, "recv")
    /\ Current(p) \in ks
    /\ Available(p)
    /\ Acceptable(p, Current(p), Head(Inbox(p)))

\* receiveSpecificMessage, receiveVersion and the two reads of
\* receiveMessageWithSizeFirst.  Reading the Diffie-Hellman key is the last
\* blocking call of the key exchange, which then sets both keys.
receiveMessage(p) ==
    /\ Reading(p, Kind \ Choices)
    /\ LET m == Head(Inbox(p)) IN
       /\ got' = IF Current(p) \in Received
                 THEN [got EXCEPT ![p][Current(p)] = m.val] ELSE got
       /\ keys' = IF Current(p) = "DH_KEY"
                  THEN [keys EXCEPT ![p] = DerivedKeys(p, m.val)] ELSE keys
    /\ Consume(p)
    /\ Advance(p)
    /\ UNCHANGED <<callInfo, status, link, peerKey, sendCtx, recvCtx, requested,
                   workerVars, answer>>

\* A message that is not the expected one: MainProtocolException("received wrong
\* message"), SecurityException, an undecodable key, or a size made of the bytes
\* of another message.
receiveWrongMessage(p) ==
    /\ Doing(p, "recv")
    /\ Available(p)
    /\ ~Acceptable(p, Current(p), Head(Inbox(p)))
    /\ Fail(p)

isOtherPartyIntroducing(p) ==
    /\ Reading(p, {"INTRODUCTION"})
    /\ todo' = [todo EXCEPT ![p] =
                  IF Head(Inbox(p)).kind = "INTRODUCTION"
                  THEN receiveAndSetPublicKey \o Tail(@) ELSE Tail(@)]
    /\ Consume(p)
    /\ UNCHANGED <<callInfo, status, link, got, callVars, workerVars, answer>>

handleIncomingRequestForIntroduction(p) ==
    /\ Reading(p, {"INTRODUCTION_REQ"})
    /\ requested' = (Head(Inbox(p)).kind = "INTRODUCTION_REQ")
    /\ Consume(p)
    /\ Advance(p)
    /\ UNCHANGED <<callInfo, status, link, got, peerKey, keys, sendCtx, recvCtx,
                   workerVars, answer>>

\* The loop of waitForAccept: a WAIT is skipped, ACCEPT ends it.
receiveAnswer(p) ==
    /\ Reading(p, {"ACCEPT"})
    /\ IF Head(Inbox(p)).kind = "WAIT" THEN UNCHANGED todo ELSE Advance(p)
    /\ Consume(p)
    /\ UNCHANGED <<callInfo, status, link, got, callVars, workerVars, answer>>

\* Four bytes are taken as the SSRC whatever they are; two of the six bytes of a
\* WAIT stay in the stream.
receiveSsrc(p) ==
    /\ Reading(p, {"SSRC"})
    /\ LET m == Head(Inbox(p)) IN
       IF m.kind = "SSRC"
       THEN /\ got' = [got EXCEPT ![p]["SSRC"] = m.val]
            /\ Consume(p)
       ELSE /\ got' = [got EXCEPT ![p]["SSRC"] = Garbage]
            /\ chan' = [chan EXCEPT ![Other(p)] =
                          << [m EXCEPT !.kind = "REST"] >> \o Tail(@)]
    /\ Advance(p)
    /\ UNCHANGED <<callInfo, status, link, callVars, workerVars, answer>>

\* Mutant: fewer bytes are read than the other party writes.
receiveSalt_short(p) ==
    /\ Reading(p, {"SALT"})
    /\ got' = [got EXCEPT ![p]["SALT"] = Garbage]
    /\ chan' = [chan EXCEPT ![Other(p)] =
                  << [Head(@) EXCEPT !.kind = "REST"] >> \o Tail(@)]
    /\ Advance(p)
    /\ UNCHANGED <<callInfo, status, link, callVars, workerVars, answer>>

\* Fourteen bytes are taken as the salt.  When they do not begin with the salt
\* itself (at most ten bytes can precede it), they end inside it, and the rest of
\* the salt stays in the stream.
receiveSalt(p) ==
    /\ Reading(p, {"SALT"})
    /\ LET m == Head(Inbox(p))
           i == CHOOSE j \in 1..Len(Inbox(p)) : Inbox(p)[j].kind = "SALT" IN
       IF m.kind = "SALT"
       THEN /\ got' = [got EXCEPT ![p]["SALT"] = m.val]
            /\ Consume(p)
       ELSE /\ got' = [got EXCEPT ![p]["SALT"] = Garbage]
            /\ chan' = [chan EXCEPT ![Other(p)] =
                          << [@[i] EXCEPT !.kind = "REST"] >>
                          \o SubSeq(@, i + 1, Len(@))]
    /\ Advance(p)
    /\ UNCHANGED <<callInfo, status, link, callVars, workerVars, answer>>

\* The effect of an IOException in a read: receiveSsrc returns 0, receiveSalt
\* returns null, everything else ends the call.
ReadError(p) ==
    IF Current(p) \in {"SSRC", "SALT"}
    THEN /\ got' = [got EXCEPT ![p][Current(p)] =
                      IF Current(p) = "SSRC" THEN Zero ELSE None]
         /\ Advance(p)
         /\ UNCHANGED <<callInfo, status, chan, link, callVars, workerVars,
                        answer>>
    ELSE Fail(p)

endOfStream(p) ==
    /\ Doing(p, "recv")
    /\ ~Available(p)
    /\ Broken(p)
    /\ ReadError(p)

\* connectTo sets SO_TIMEOUT on the caller's socket; the socket that the
\* callee's listener accepts has none.
readTimesOut ==
    /\ Doing(Caller, "recv")
    /\ ~Available(Caller)
    /\ ReadError(Caller)
    /\ timedOut' = TRUE

---------------------------------------------------------------------------
(* Local steps. *)

\* Mutant: the expected key is not compared.
validateKeyAgainstExpected_never(p) ==
    /\ Doing(p, "validateKey")
    /\ Advance(p)
    /\ UNCHANGED <<callInfo, status, chan, link, got, callVars, workerVars, answer>>

validateKeyAgainstExpected(p) ==
    /\ Doing(p, "validateKey")
    /\ IF peerKey[p] \in {None, got[p]["PUBLIC_KEY"]}
       THEN /\ Advance(p)
            /\ UNCHANGED <<callInfo, status, chan, link, got, callVars,
                           workerVars, answer>>
       ELSE Fail(p)

setPublicKey(p) ==
    /\ Doing(p, "setPublicKey")
    /\ peerKey' = [peerKey EXCEPT ![p] = got[p]["PUBLIC_KEY"]]
    /\ Advance(p)
    /\ UNCHANGED <<callInfo, status, chan, link, got, keys, sendCtx, recvCtx,
                   requested, workerVars, answer>>

initSender(p) ==
    /\ Doing(p, "initSender")
    /\ sendCtx' = [sendCtx EXCEPT ![p] =
                     [key |-> keys[p].tx, ssrc |-> p, salt |-> p]]
    /\ Advance(p)
    /\ UNCHANGED <<callInfo, status, chan, link, got, peerKey, keys, recvCtx,
                   requested, workerVars, answer>>

\* Mutant: a salt that was not received is used.
initReceiver_unguarded(p) ==
    /\ Doing(p, "initReceiver")
    /\ recvCtx' = [recvCtx EXCEPT ![p] =
                     [key |-> keys[p].rx, ssrc |-> got[p]["SSRC"],
                      salt |-> got[p]["SALT"]]]
    /\ Advance(p)
    /\ UNCHANGED <<callInfo, status, chan, link, got, peerKey, keys,
                   sendCtx, requested, workerVars, answer>>

\* A null salt ends the process (GetByteArrayRegion, or printKey afterwards).
initReceiver(p) ==
    /\ Doing(p, "initReceiver")
    /\ IF got[p]["SALT"] = None
       THEN Fail(p)
       ELSE /\ recvCtx' = [recvCtx EXCEPT ![p] =
                             [key |-> keys[p].rx, ssrc |-> got[p]["SSRC"],
                              salt |-> got[p]["SALT"]]]
            /\ Advance(p)
            /\ UNCHANGED <<callInfo, status, chan, link, got, peerKey, keys,
                           sendCtx, requested, workerVars, answer>>

\* CallHandler connects the streams, starts the threads and is ONGOING.
startMedia(p) ==
    /\ Doing(p, "startMedia")
    /\ status' = [status EXCEPT ![p] = "ongoing"]
    /\ Advance(p)
    /\ UNCHANGED <<callInfo, chan, link, got, callVars, workerVars, answer>>

\* rejectCall returns; nothing closes the connection.
returnFromReject(p) ==
    /\ Doing(p, "return")
    /\ status' = [status EXCEPT ![p] = "rejected"]
    /\ Advance(p)
    /\ UNCHANGED <<callInfo, chan, link, got, callVars, workerVars, answer>>

---------------------------------------------------------------------------
(* The callee's keep-alive thread and the user's decision. *)

\* The last step of initiateIncomingSession, after which CallHandler is
\* INITIALIZED and tells the user interface.
startKeepAliveWorker(p) ==
    /\ Doing(p, "startKeepAliveWorker")
    /\ worker' = "check"
    /\ status' = [status EXCEPT ![p] = "initialized"]
    /\ Advance(p)
    /\ UNCHANGED <<callInfo, chan, link, got, callVars, running, waits, strays,
                   answer>>

WorkerAlive == status[Callee] # "failed"

workerChecks ==
    /\ worker = "check" /\ WorkerAlive
    /\ worker' = IF running THEN "write" ELSE "done"
    /\ UNCHANGED <<callInfo, todo, status, chan, link, got, callVars, running,
                   waits, strays, answer>>

workerSendsWait ==
    /\ worker = "write" /\ WorkerAlive
    /\ link = "up"
    /\ chan' = [chan EXCEPT ![Callee] = Append(@, MessageOf(Callee, "WAIT"))]
    /\ waits' = waits + 1
    /\ strays' = IF answer # None THEN strays + 1 ELSE strays
    /\ worker' = "sleep"
    /\ UNCHANGED <<callInfo, todo, status, link, got, callVars, running, answer>>

\* The exception of sendMessage ends the worker thread and with it the process.
workerSendFails ==
    /\ worker = "write" /\ WorkerAlive
    /\ Broken(Callee)
    /\ Fail(Callee)

\* Five seconds pass, or the thread is interrupted.
workerWakes ==
    /\ worker = "sleep" /\ WorkerAlive
    /\ running => waits < MaxWaits
    /\ worker' = "check"
    /\ UNCHANGED <<callInfo, todo, status, chan, link, got, callVars, running,
                   waits, strays, answer>>

\* Mutant: the keep-alive thread is not told to stop.
UserAccepts_keepSending ==
    /\ status[Callee] = "initialized"
    /\ status' = [status EXCEPT ![Callee] = "running"]
    /\ todo' = [todo EXCEPT ![Callee] = acceptCall(requested)]
    /\ UNCHANGED <<callInfo, chan, link, got, callVars, workerVars, answer>>

\* stopSending and the calls that follow; acceptCall is
\* TheOnionPhoneProtocol.acceptCall and the rest of CallHandler.acceptCall.
UserAccepts ==
    /\ status[Callee] = "initialized"
    /\ running' = FALSE
    /\ status' = [status EXCEPT ![Callee] = "running"]
    /\ todo' = [todo EXCEPT ![Callee] = acceptCall(requested)]
    /\ UNCHANGED <<callInfo, chan, link, got, callVars, worker, waits, strays,
                   answer>>

UserRejects ==
    /\ status[Callee] = "initialized"
    /\ running' = FALSE
    /\ status' = [status EXCEPT ![Callee] = "running"]
    /\ todo' = [todo EXCEPT ![Callee] = rejectCall]
    /\ UNCHANGED <<callInfo, chan, link, got, callVars, worker, waits, strays,
                   answer>>

---------------------------------------------------------------------------
(* The network (Tor and TCP, outside the repository): the connection may    *)
(* break at any time; of what is in flight any prefix is still delivered.   *)
linkBreaks ==
    /\ link = "up"
    /\ link' = "down"
    /\ \E n \in 0..Len(chan[Caller]), m \in 0..Len(chan[Callee]) :
         chan' = [p \in Party |-> SubSeq(chan[p], 1, IF p = Caller THEN n ELSE m)]
    /\ UNCHANGED <<callInfo, todo, status, got, callVars, workerVars, answer>>

---------------------------------------------------------------------------
Finished(p) == status[p] \in {"ongoing", "rejected", "failed"}

Terminated ==
    /\ \A p \in Party : Finished(p)
    /\ worker \in {"unstarted", "done"} \/ ~WorkerAlive
    /\ UNCHANGED vars

CallThread(p) ==
    /\ \/ sendMessage(p) \/ sendFails(p)
       \/ receiveMessage(p) \/ receiveWrongMessage(p) \/ endOfStream(p)
       \/ isOtherPartyIntroducing(p) \/ handleIncomingRequestForIntroduction(p)
       \/ receiveAnswer(p) \/ receiveSsrc(p) \/ receiveSalt(p)
       \/ validateKeyAgainstExpected(p) \/ setPublicKey(p)
       \/ initSender(p) \/ initReceiver(p) \/ startMedia(p)
       \/ returnFromReject(p) \/ startKeepAliveWorker(p)
    /\ UNCHANGED timedOut

KeepAliveWorker ==
    /\ workerChecks \/ workerSendsWait \/ workerSendFails \/ workerWakes
    /\ UNCHANGED timedOut

User == (UserAccepts \/ UserRejects) /\ UNCHANGED timedOut

Next ==
    \/ \E p \in Party : CallThread(p)
    \/ KeepAliveWorker
    \/ User
    \/ readTimesOut
    \/ linkBreaks /\ UNCHANGED timedOut
    \/ Terminated

\* The threads are scheduled, and the callee's user answers (the code answers
\* by itself: handleIncomingCall ends with acceptCall).  Nothing makes a
\* connection break or a read time out.
Fairness ==
    /\ \A p \in Party : WF_vars(CallThread(p))
    /\ WF_vars(KeepAliveWorker)
    /\ WF_vars(User)

Spec == Init /\ [][Next]_vars /\ Fairness

---------------------------------------------------------------------------
(***************************************************************************)
(* Properties.                                                             *)
(***************************************************************************)
Worker == {"unstarted", "check", "write", "sleep", "done"}
Status == {"running", "initialized", "ongoing", "rejected", "failed"}
Keys == [secret: SUBSET Value, half: 0..2]
Context == [key: Keys, ssrc: Value, salt: Value]

\* Types of the state of both parties, the connection and the worker.
TypeOK ==
    /\ callInfo \in CallInfo
    /\ todo \in [Party -> Seq(Op)]
    /\ status \in [Party -> Status]
    /\ chan \in [Party -> Seq(Message)]
    /\ link \in {"up", "down"}
    /\ got \in [Party -> [Received -> Value]]
    /\ peerKey \in [Party -> Value]
    /\ keys \in [Party -> [tx: Keys, rx: Keys]]
    /\ sendCtx \in [Party -> Context]
    /\ recvCtx \in [Party -> Context]
    /\ requested \in BOOLEAN /\ answer \in Answers \cup {None} /\ timedOut \in BOOLEAN
    /\ worker \in Worker /\ running \in BOOLEAN
    /\ waits \in Nat /\ strays \in Nat

\* KeyExchangeHelper: as soon as both parties have derived their SRTP keys, what
\* one sends with is what the other receives with, and the two directions have
\* different keys.
KeysAgree ==
    (\A p \in Party : keys[p].tx # NoSrtpKey) =>
        \A p \in Party : /\ keys[p].tx = keys[Other(p)].rx
                         /\ keys[p].tx # keys[p].rx

\* What makes the stream that p reads lose its message boundaries: a WAIT of the
\* keep-alive thread that overtook the answer, or a read of p that timed out
\* and was not treated as an error.
Disturbed(p) == p = Caller /\ (strays > 0 \/ timedOut)

\* SrtpProtocol: the context p receives with is the one the other party sends
\* with (key, SSRC and salt), whatever else has gone wrong, unless a stray WAIT
\* or a swallowed timeout disturbed the exchange of SSRC and salt.
ContextsAgree ==
    \A p \in Party : recvCtx[p] # NoContext /\ ~Disturbed(p) =>
        recvCtx[p] = sendCtx[Other(p)]

\* CallHandler: when p connects the socket to the audio streams, no byte of the
\* handshake is left for the SRTP unwrapper to take for the start of a packet.
MediaAligned ==
    \A p \in Party : status[p] = "ongoing" /\ ~Disturbed(p) => Inbox(p) = << >>

\* CallHandler: p takes the call for ongoing only when the other party has
\* accepted it, has derived the keys and has its own sender ready.
OngoingMeansAnswered ==
    \A p \in Party : status[p] = "ongoing" =>
        /\ answer = "ACCEPT"
        /\ sendCtx[Other(p)].key = keys[Other(p)].tx
        /\ keys[Other(p)].tx # NoSrtpKey

\* TheOnionPhoneProtocol: in an ongoing call the public key in the CallInfo is
\* the one the other party proved to own, if an introduction was asked for or
\* offered; a key the user expected is the key that was proved.
IdentityProven ==
    /\ status[Caller] = "ongoing" /\ callInfo.requiresIntroduction =>
          peerKey[Caller] = Callee /\ callInfo.publicKey \in {None, Callee}
    /\ status[Callee] = "ongoing" =>
          /\ peerKey[Callee] = IF callInfo.shouldIntroduce THEN Caller ELSE None
          /\ requested = callInfo.requiresIntroduction

\* KeepAliveWorker: stopSending does not wait for the thread, so one WAIT can
\* still follow the answer, but never a second one.
AtMostOneStray == strays <= 1

\* Every call set-up comes to an end: both parties are in the call, or have
\* failed or rejected it; nobody waits for the other forever.
Settles == <>[](\A p \in Party : Finished(p))

\* Unless the connection breaks, a read times out, a stray WAIT gets in, the
\* callee's user rejects the call or the caller expected another key, both
\* parties end up in the call.
CallIsSetUp ==
    <>(\/ \A p \in Party : status[p] = "ongoing"
       \/ link = "down" \/ timedOut \/ strays > 0
       \/ answer = "REJECT"
       \/ callInfo.requiresIntroduction /\ callInfo.publicKey \in OtherKeys)

=============================================================================
