--------------------------- MODULE HandshakeProofs ---------------------------
(***************************************************************************)
(* What Handshake promises for every set of foreign public keys and any    *)
(* number of WAIT messages: its types, that the keys agree, that at most   *)
(* one WAIT is astray (all three from IInv), and what a party may conclude *)
(* from having come so far, that the other one has answered and is ready   *)
(* (from ReadyInv).                                                        *)
(*                                                                         *)
(* The argument for ReadyInv counts calls.  The calls a party has still to *)
(* make end in a fixed list, so their number tells where in that list the  *)
(* party is.                                                               *)
(***************************************************************************)
EXTENDS Handshake, SequenceTheorems, TLAPS

(***************************************************************************)
(* The programs are sequences of operations, and only acceptCall and       *)
(* rejectCall write an answer.                                             *)
(***************************************************************************)

\* The calls that do not write an answer.
QuietOp == {o \in Op : o.do = "send" => o.kind \notin Answers}

\* Joining two lists of calls gives a list of calls (CallHandler runs the
\* protocols one after the other).
LEMMA ConcatOps ==
    ASSUME NEW S, NEW s \in Seq(S), NEW t \in Seq(S)
    PROVE  s \o t \in Seq(S)
    OBVIOUS

\* A list of calls without answers is a list of calls.
LEMMA QuietIsOp ==
    ASSUME NEW s \in Seq(QuietOp)
    PROVE  s \in Seq(Op)
    BY DEF QuietOp

\* Every single call of the handshake methods is an operation of the model.
LEMMA OpTypes ==
    /\ \A k \in Kind : send(k) \in Op /\ recv(k) \in QuietOp
    /\ \A k \in Kind \ Answers : send(k) \in QuietOp
    /\ \A n \in {"startKeepAliveWorker", "validateKey", "setPublicKey",
                 "initSender", "initReceiver", "startMedia", "return"} : do(n) \in QuietOp
    BY DEF Op, QuietOp, Answers, send, recv, do, Kind

\* A message with its size first is two writes, or two reads.
LEMMA SizedTypes ==
    ASSUME NEW k \in Kind \ Answers
    PROVE  /\ sendMessageWithSizeFirst(k) \in Seq(QuietOp)
           /\ receiveMessageWithSizeFirst(k) \in Seq(QuietOp)
  <1>1. "SIZE" \in Kind \ Answers
    BY DEF Kind, Answers
  <1>2. /\ send(k) \in QuietOp /\ recv(k) \in QuietOp
        /\ send("SIZE") \in QuietOp /\ recv("SIZE") \in QuietOp
    BY <1>1, OpTypes
  <1> QED
    BY <1>2 DEF sendMessageWithSizeFirst, receiveMessageWithSizeFirst

\* The two halves of an introduction are lists of calls.
LEMMA IntroductionTypes ==
    /\ proveIdentityToOtherParty \in Seq(QuietOp)
    /\ receiveAndVerifyPublicKey \in Seq(QuietOp)
    /\ receiveAndSetPublicKey \in Seq(QuietOp)
  <1>1. {"PUBLIC_KEY", "CHALLENGE", "SIGNATURE"} \subseteq Kind \ Answers
    BY DEF Kind, Carriers, Answers
  <1>2. /\ sendMessageWithSizeFirst("PUBLIC_KEY") \in Seq(QuietOp)
        /\ sendMessageWithSizeFirst("SIGNATURE") \in Seq(QuietOp)
        /\ receiveMessageWithSizeFirst("PUBLIC_KEY") \in Seq(QuietOp)
        /\ receiveMessageWithSizeFirst("SIGNATURE") \in Seq(QuietOp)
    BY <1>1, SizedTypes
  <1>3. /\ recv("CHALLENGE") \in QuietOp /\ send("CHALLENGE") \in QuietOp
        /\ do("setPublicKey") \in QuietOp
    BY <1>1, OpTypes
  <1>4. /\ << recv("CHALLENGE") >> \in Seq(QuietOp)
        /\ << send("CHALLENGE") >> \in Seq(QuietOp)
        /\ << do("setPublicKey") >> \in Seq(QuietOp)
    BY <1>3
  <1>5. proveIdentityToOtherParty \in Seq(QuietOp)
    BY <1>2, <1>4, ConcatOps DEF proveIdentityToOtherParty
  <1>6. receiveAndVerifyPublicKey \in Seq(QuietOp)
    BY <1>2, <1>4, ConcatOps DEF receiveAndVerifyPublicKey
  <1>7. receiveAndSetPublicKey \in Seq(QuietOp)
    BY <1>4, <1>6, ConcatOps DEF receiveAndSetPublicKey
  <1> QED
    BY <1>5, <1>6, <1>7

\* What each thread is given to do is a list of calls, and only the user's
\* decision makes the callee write an answer.
LEMMA ProgramTypes ==
    /\ \A ci \in CallInfo : startCall(ci) \in Seq(QuietOp)
    /\ initiateIncomingSession \in Seq(QuietOp)
    /\ \A b \in BOOLEAN : acceptCall(b) \in Seq(Op)
    /\ rejectCall \in Seq(Op)
  <1>1. /\ \A k \in Kind \ Answers : << send(k) >> \in Seq(QuietOp)
        /\ \A k, l \in Kind \ Answers : << send(k), send(l) >> \in Seq(QuietOp)
        /\ \A k, l \in Kind \ Answers : << send(k), recv(l) >> \in Seq(QuietOp)
        /\ \A k, l \in Kind \ Answers : << recv(k), send(l) >> \in Seq(QuietOp)
    BY OpTypes
  <1>2. {"HELLO", "HELLO_ACK", "VERSION", "INTRODUCTION", "NO_INTRODUCTION",
         "INTRODUCTION_REQ", "NO_INTRODUCTION_REQ",
         "DH_KEY", "SSRC", "SALT"} \subseteq Kind \ Answers
    BY DEF Kind, Carriers, Answers
  <1>3. sendAndReceiveHello \in Seq(QuietOp) /\ receiveAndSendHello \in Seq(QuietOp)
    <2>1. /\ send("HELLO") \in QuietOp /\ recv("HELLO") \in QuietOp
          /\ send("HELLO_ACK") \in QuietOp /\ recv("HELLO_ACK") \in QuietOp
      BY <1>2, OpTypes
    <2> QED
      BY <2>1 DEF sendAndReceiveHello, receiveAndSendHello
  <1>4. sendAndReceiveVersion \in Seq(QuietOp) /\ receiveAndSendVersion \in Seq(QuietOp)
    BY <1>1, <1>2 DEF sendAndReceiveVersion, receiveAndSendVersion
  <1>5. exchangeKeys \in Seq(QuietOp)
    BY <1>2, SizedTypes, ConcatOps DEF exchangeKeys
  <1>6. initiateOutgoingSrtp \in Seq(QuietOp) /\ initiateIncomingSrtp \in Seq(QuietOp)
    <2>1. /\ send("SSRC") \in QuietOp /\ recv("SSRC") \in QuietOp
          /\ send("SALT") \in QuietOp /\ recv("SALT") \in QuietOp
          /\ do("initSender") \in QuietOp /\ do("initReceiver") \in QuietOp
      BY <1>2, OpTypes
    <2>2. /\ << do("initSender") >> \in Seq(QuietOp)
          /\ << do("initReceiver") >> \in Seq(QuietOp)
          /\ sendSsrcAndSalt \in Seq(QuietOp)
          /\ << recv("SSRC"), recv("SALT"), do("initReceiver") >> \in Seq(QuietOp)
          /\ << recv("SSRC"), recv("SALT"), do("initSender") >> \in Seq(QuietOp)
      BY <2>1 DEF sendSsrcAndSalt
    <2> QED
      BY <2>2, ConcatOps DEF initiateOutgoingSrtp, initiateIncomingSrtp
  <1>7. << do("startMedia") >> \in Seq(QuietOp)
    BY OpTypes
  <1>8. ASSUME NEW ci \in CallInfo PROVE startCall(ci) \in Seq(QuietOp)
    <2>1. handleOutgoingIntroduction(ci) \in Seq(QuietOp)
      BY <1>1, <1>2, IntroductionTypes, ConcatOps DEF handleOutgoingIntroduction
    <2>2. handleOutgoingRequestForIntroduction(ci) \in Seq(QuietOp)
      BY <1>1, <1>2 DEF handleOutgoingRequestForIntroduction
    <2>3. waitForAccept \in Seq(QuietOp)
      BY OpTypes DEF waitForAccept, Kind
    <2>4. << do("validateKey"), do("setPublicKey") >> \in Seq(QuietOp)
      BY OpTypes
    <2>5. << >> \in Seq(QuietOp)
      OBVIOUS
    <2>6. handleIncomingIntroductionIfRequested(ci) \in Seq(QuietOp)
      BY <2>4, <2>5, IntroductionTypes, ConcatOps
         DEF handleIncomingIntroductionIfRequested
    <2>7. initiateOutgoingSession(ci) \in Seq(QuietOp)
      BY <1>3, <1>4, <1>5, <2>1, <2>2, <2>3, <2>6, ConcatOps
         DEF initiateOutgoingSession
    <2> QED
      BY <1>6, <1>7, <2>7, ConcatOps DEF startCall
  <1>9. initiateIncomingSession \in Seq(QuietOp)
    <2>1. << recv("INTRODUCTION"), recv("INTRODUCTION_REQ"),
             do("startKeepAliveWorker") >> \in Seq(QuietOp)
      BY <1>2, OpTypes
    <2> QED
      BY <1>3, <1>4, <2>1, ConcatOps DEF initiateIncomingSession
  <1>10. ASSUME NEW b \in BOOLEAN PROVE acceptCall(b) \in Seq(Op)
    <2>1. handleOutgoingIntroductionIfRequested(b) \in Seq(QuietOp)
      BY IntroductionTypes DEF handleOutgoingIntroductionIfRequested
    <2>2. << send("ACCEPT") >> \in Seq(Op)
      BY OpTypes DEF Kind
    <2>3. /\ handleOutgoingIntroductionIfRequested(b) \in Seq(Op)
          /\ exchangeKeys \in Seq(Op)
          /\ initiateIncomingSrtp \in Seq(Op)
          /\ << do("startMedia") >> \in Seq(Op)
      BY <1>5, <1>6, <1>7, <2>1, QuietIsOp
    <2> QED
      BY <2>2, <2>3, ConcatOps DEF acceptCall
  <1>11. rejectCall \in Seq(Op)
    <2>1. send("REJECT") \in Op /\ do("return") \in Op
      BY OpTypes DEF Kind, QuietOp
    <2> QED
      BY <2>1 DEF rejectCall
  <1> QED
    BY <1>8, <1>9, <1>10, <1>11

(***************************************************************************)
(* Types.                                                                  *)
(***************************************************************************)

\* The other end of the connection is a party, and it is another one.
LEMMA OtherParty ==
    \A p \in Party : Other(p) \in Party /\ Other(p) # p
    BY DEF Other, Party, Caller, Callee

\* What a party writes is a message.
LEMMA MessageOfType ==
    ASSUME TypeOK, NEW p \in Party, NEW k \in Kind
    PROVE  MessageOf(p, k) \in Message
    BY DEF TypeOK, MessageOf, Message, Value, Received

\* The call at the head of a list that is not empty is an operation, and what
\* remains is a list of operations.
LEMMA TodoType ==
    ASSUME TypeOK, NEW p \in Party, todo[p] # << >>
    PROVE  Head(todo[p]) \in Op /\ Tail(todo[p]) \in Seq(Op) /\ Current(p) \in Kind
  <1>1. todo[p] \in Seq(Op)
    BY DEF TypeOK
  <1>2. Head(todo[p]) \in Op /\ Tail(todo[p]) \in Seq(Op)
    BY <1>1
  <1>3. Head(todo[p]).kind \in Kind
    BY <1>2 DEF Op, Kind
  <1> QED
    BY <1>2, <1>3 DEF Current

\* The next message of a stream that is not empty is a message.
LEMMA InboxType ==
    ASSUME TypeOK, NEW p \in Party, Inbox(p) # << >>
    PROVE  Head(Inbox(p)) \in Message /\ Tail(Inbox(p)) \in Seq(Message)
  <1>1. Inbox(p) \in Seq(Message)
    BY OtherParty DEF TypeOK, Inbox
  <1> QED
    BY <1>1

\* A read that goes ahead finds a message.
LEMMA AvailableMeans ==
    ASSUME TypeOK, NEW p \in Party, Available(p)
    PROVE  Inbox(p) # << >>
  <1>1. Inbox(p) \in Seq(Message)
    BY OtherParty DEF TypeOK, Inbox
  <1>2. CASE Current(p) = "SALT"
    BY <1>1, <1>2 DEF Available
  <1>3. CASE Current(p) # "SALT"
    BY <1>3 DEF Available
  <1> QED
    BY <1>2, <1>3

\* The keys of the key exchange are SRTP keys.
LEMMA DerivedKeysType ==
    ASSUME NEW p \in Party, NEW v \in Value
    PROVE  DerivedKeys(p, v) \in [tx: Keys, rx: Keys]
    BY DEF DerivedKeys, SrtpKey, Keys, Value

\* Dropping the call that has just been made keeps the types.
LEMMA AdvanceType ==
    ASSUME TypeOK, NEW p \in Party, todo[p] # << >>, Advance(p)
    PROVE  todo' \in [Party -> Seq(Op)]
    BY TodoType DEF TypeOK, Advance

\* Taking a message from the stream keeps the types.
LEMMA ConsumeType ==
    ASSUME TypeOK, NEW p \in Party, Inbox(p) # << >>, Consume(p)
    PROVE  chan' \in [Party -> Seq(Message)]
    BY InboxType, OtherParty DEF TypeOK, Consume, Inbox

\* The initial state has the right types.
LEMMA TypeInit == Init => TypeOK
  <1> SUFFICES ASSUME Init PROVE TypeOK
    OBVIOUS
  <1>1. todo \in [Party -> Seq(Op)]
    BY ProgramTypes, QuietIsOp DEF Init
  <1>2. chan \in [Party -> Seq(Message)]
    BY DEF Init
  <1>3. keys \in [Party -> [tx: Keys, rx: Keys]]
    BY DEF Init, NoSrtpKey, SrtpKey, Keys
  <1>4. sendCtx \in [Party -> Context] /\ recvCtx \in [Party -> Context]
    BY DEF Init, NoContext, NoSrtpKey, SrtpKey, Keys, Context, Value
  <1>5. peerKey \in [Party -> Value]
    BY DEF Init, CallInfo, Value, Party
  <1>6. got \in [Party -> [Received -> Value]]
    BY DEF Init, Value
  <1> QED
    BY <1>1, <1>2, <1>3, <1>4, <1>5, <1>6
       DEF Init, TypeOK, Status, Worker

\* A call that fails leaves the types alone.
LEMMA FailType ==
    ASSUME TypeOK, NEW p \in Party, Fail(p), timedOut' \in BOOLEAN
    PROVE  TypeOK'
    BY DEF TypeOK, Fail, Status, callVars, workerVars

\* Storing a value that was read keeps the types.
LEMMA GotType ==
    ASSUME TypeOK, NEW p \in Party, NEW k \in Received, NEW v \in Value,
           got' = [got EXCEPT ![p][k] = v]
    PROVE  got' \in [Party -> [Received -> Value]]
    BY DEF TypeOK

\* What a misaligned read leaves of a message is a message of kind REST.
LEMMA RestType ==
    ASSUME NEW m \in Message
    PROVE  [m EXCEPT !.kind = "REST"] \in Message
    BY DEF Message, Kind

\* An IOException in a read keeps the types.
LEMMA ReadErrorType ==
    ASSUME TypeOK, NEW p \in Party, Doing(p, "recv"), ReadError(p),
           timedOut' \in BOOLEAN
    PROVE  TypeOK'
  <1>1. CASE Current(p) \in {"SSRC", "SALT"}
    <2>1. todo' \in [Party -> Seq(Op)]
      BY <1>1, AdvanceType DEF ReadError, Doing
    <2>2. got' \in [Party -> [Received -> Value]]
      <3> DEFINE v == IF Current(p) = "SSRC" THEN Zero ELSE None
      <3>1. v \in Value /\ Current(p) \in Received
        BY <1>1 DEF Value, Received
      <3>2. got' = [got EXCEPT ![p][Current(p)] = v]
        BY <1>1 DEF ReadError
      <3> QED
        BY <3>1, <3>2, GotType
    <2> QED
      BY <1>1, <2>1, <2>2 DEF ReadError, TypeOK, callVars, workerVars
  <1>2. CASE Current(p) \notin {"SSRC", "SALT"}
    BY <1>2, FailType DEF ReadError
  <1> QED
    BY <1>1, <1>2

\* Every step of the call thread of p keeps the types.
LEMMA CallThreadType ==
    ASSUME TypeOK, NEW p \in Party, CallThread(p)
    PROVE  TypeOK'
  <1> USE DEF callVars, workerVars
  <1>0. timedOut' \in BOOLEAN /\ UNCHANGED timedOut
    BY DEF CallThread, TypeOK
  <1>1. CASE sendMessage(p)
    <2>1. todo[p] # << >> /\ Current(p) \in Kind
      BY <1>1, TodoType DEF sendMessage, Doing
    <2>2. todo' \in [Party -> Seq(Op)]
      BY <1>1, <2>1, AdvanceType DEF sendMessage
    <2>3. chan' \in [Party -> Seq(Message)]
      BY <1>1, <2>1, MessageOfType DEF sendMessage, TypeOK
    <2>4. answer' \in Answers \cup {None}
      BY <1>1 DEF sendMessage, TypeOK
    <2> QED
      BY <1>0, <1>1, <2>2, <2>3, <2>4 DEF sendMessage, TypeOK
  <1>2. CASE sendFails(p)
    <2>1. todo[p] \in Seq(Op) /\ todo[p] # << >>
      BY <1>2 DEF sendFails, Doing, TypeOK
    <2>2. CASE Current(p) \in {"SSRC", "SALT"}
      <3>1. SubSeq(todo[p], 2, Len(todo[p])) \in Seq(Op)
        BY <2>1
      <3>2. SubSeq(todo[p], 3, Len(todo[p])) \in Seq(Op)
        BY <2>1
      <3>3. todo' \in [Party -> Seq(Op)]
        BY <1>2, <2>2, <3>1, <3>2 DEF sendFails, TypeOK
      <3> QED
        BY <1>0, <1>2, <2>2, <3>3 DEF sendFails, TypeOK
    <2>3. CASE Current(p) \notin {"SSRC", "SALT"}
      BY <1>0, <1>2, <2>3, FailType DEF sendFails
    <2> QED
      BY <2>2, <2>3
  <1>3. CASE receiveMessage(p)
    <2>1. todo[p] # << >> /\ Inbox(p) # << >>
      BY <1>3, AvailableMeans DEF receiveMessage, Reading, Doing
    <2>2. Head(Inbox(p)) \in Message
      BY <2>1, InboxType
    <2>3. Head(Inbox(p)).val \in Value
      BY <2>2 DEF Message
    <2>4. todo' \in [Party -> Seq(Op)] /\ chan' \in [Party -> Seq(Message)]
      BY <1>3, <2>1, AdvanceType, ConsumeType DEF receiveMessage
    <2>5. got' \in [Party -> [Received -> Value]]
      BY <1>3, <2>3 DEF receiveMessage, TypeOK
    <2>6. keys' \in [Party -> [tx: Keys, rx: Keys]]
      <3>1. DerivedKeys(p, Head(Inbox(p)).val) \in [tx: Keys, rx: Keys]
        BY <2>3, DerivedKeysType
      <3> QED
        BY <1>3, <3>1 DEF receiveMessage, TypeOK
    <2> QED
      BY <1>0, <1>3, <2>4, <2>5, <2>6 DEF receiveMessage, TypeOK
  <1>4. CASE receiveWrongMessage(p)
    BY <1>0, <1>4, FailType DEF receiveWrongMessage
  <1>5. CASE endOfStream(p)
    BY <1>0, <1>5, ReadErrorType DEF endOfStream
  <1>6. CASE isOtherPartyIntroducing(p)
    <2>1. todo[p] # << >> /\ Inbox(p) # << >>
      BY <1>6, AvailableMeans DEF isOtherPartyIntroducing, Reading, Doing
    <2>2. Tail(todo[p]) \in Seq(Op)
      BY <2>1, TodoType
    <2>3. receiveAndSetPublicKey \o Tail(todo[p]) \in Seq(Op)
      BY <2>2, IntroductionTypes, QuietIsOp, ConcatOps
    <2>4. todo' \in [Party -> Seq(Op)]
      BY <1>6, <2>2, <2>3 DEF isOtherPartyIntroducing, TypeOK
    <2>5. chan' \in [Party -> Seq(Message)]
      BY <1>6, <2>1, ConsumeType DEF isOtherPartyIntroducing
    <2> QED
      BY <1>0, <1>6, <2>4, <2>5 DEF isOtherPartyIntroducing, TypeOK
  <1>7. CASE handleIncomingRequestForIntroduction(p)
    <2>1. todo[p] # << >> /\ Inbox(p) # << >>
      BY <1>7, AvailableMeans
         DEF handleIncomingRequestForIntroduction, Reading, Doing
    <2>2. todo' \in [Party -> Seq(Op)] /\ chan' \in [Party -> Seq(Message)]
      BY <1>7, <2>1, AdvanceType, ConsumeType
         DEF handleIncomingRequestForIntroduction
    <2> QED
      BY <1>0, <1>7, <2>2 DEF handleIncomingRequestForIntroduction, TypeOK
  <1>8. CASE receiveAnswer(p)
    <2>1. todo[p] # << >> /\ Inbox(p) # << >>
      BY <1>8, AvailableMeans DEF receiveAnswer, Reading, Doing
    <2>2. chan' \in [Party -> Seq(Message)]
      BY <1>8, <2>1, ConsumeType DEF receiveAnswer
    <2>3. todo' \in [Party -> Seq(Op)]
      <3>1. CASE Head(Inbox(p)).kind = "WAIT"
        BY <1>8, <3>1 DEF receiveAnswer, TypeOK
      <3>2. CASE Head(Inbox(p)).kind # "WAIT"
        BY <1>8, <2>1, <3>2, AdvanceType DEF receiveAnswer
      <3> QED
        BY <3>1, <3>2
    <2> QED
      BY <1>0, <1>8, <2>2, <2>3 DEF receiveAnswer, TypeOK
  <1>9. CASE receiveSsrc(p)
    <2>1. todo[p] # << >> /\ Inbox(p) # << >>
      BY <1>9, AvailableMeans DEF receiveSsrc, Reading, Doing
    <2>2. Head(Inbox(p)) \in Message /\ Tail(Inbox(p)) \in Seq(Message)
      BY <2>1, InboxType
    <2>3. todo' \in [Party -> Seq(Op)]
      BY <1>9, <2>1, AdvanceType DEF receiveSsrc
    <2>4. chan' \in [Party -> Seq(Message)] /\ got' \in [Party -> [Received -> Value]]
      <3>1. CASE Head(Inbox(p)).kind = "SSRC"
        <4>1. chan' \in [Party -> Seq(Message)]
          BY <1>9, <2>1, <3>1, ConsumeType DEF receiveSsrc
        <4>2. got' \in [Party -> [Received -> Value]]
          <5>1. Head(Inbox(p)).val \in Value /\ "SSRC" \in Received
            BY <2>2 DEF Message, Received
          <5>2. got' = [got EXCEPT ![p]["SSRC"] = Head(Inbox(p)).val]
            BY <1>9, <3>1 DEF receiveSsrc
          <5> QED
            BY <5>1, <5>2, GotType
        <4> QED
          BY <4>1, <4>2
      <3>2. CASE Head(Inbox(p)).kind # "SSRC"
        <4> DEFINE r == [Head(Inbox(p)) EXCEPT !.kind = "REST"]
        <4>1. r \in Message
          BY <2>2, RestType
        <4>2. << r >> \o Tail(Inbox(p)) \in Seq(Message)
          BY <2>2, <4>1
        <4>3. chan' \in [Party -> Seq(Message)]
          BY <1>9, <3>2, <4>2, OtherParty DEF receiveSsrc, TypeOK, Inbox
        <4>4. got' \in [Party -> [Received -> Value]]
          <5>1. Garbage \in Value /\ "SSRC" \in Received
            BY DEF Value, Received
          <5>2. got' = [got EXCEPT ![p]["SSRC"] = Garbage]
            BY <1>9, <3>2 DEF receiveSsrc
          <5> QED
            BY <5>1, <5>2, GotType
        <4> QED
          BY <4>3, <4>4
      <3> QED
        BY <3>1, <3>2
    <2> QED
      BY <1>0, <1>9, <2>3, <2>4 DEF receiveSsrc, TypeOK
  <1>10. CASE receiveSalt(p)
    <2>1. todo[p] # << >> /\ Inbox(p) # << >>
      BY <1>10, AvailableMeans DEF receiveSalt, Reading, Doing
    <2>2. Head(Inbox(p)) \in Message /\ Inbox(p) \in Seq(Message)
      BY <2>1, InboxType, OtherParty DEF TypeOK, Inbox
    <2>3. todo' \in [Party -> Seq(Op)]
      BY <1>10, <2>1, AdvanceType DEF receiveSalt
    <2>4. chan' \in [Party -> Seq(Message)] /\ got' \in [Party -> [Received -> Value]]
      <3>1. CASE Head(Inbox(p)).kind = "SALT"
        <4>1. chan' \in [Party -> Seq(Message)]
          BY <1>10, <2>1, <3>1, ConsumeType DEF receiveSalt
        <4>2. got' \in [Party -> [Received -> Value]]
          <5>1. Head(Inbox(p)).val \in Value /\ "SALT" \in Received
            BY <2>2 DEF Message, Received
          <5>2. got' = [got EXCEPT ![p]["SALT"] = Head(Inbox(p)).val]
            BY <1>10, <3>1 DEF receiveSalt
          <5> QED
            BY <5>1, <5>2, GotType
        <4> QED
          BY <4>1, <4>2
      <3>2. CASE Head(Inbox(p)).kind # "SALT"
        <4> DEFINE i == CHOOSE j \in 1..Len(Inbox(p)) : Inbox(p)[j].kind = "SALT"
        <4> DEFINE r == [Inbox(p)[i] EXCEPT !.kind = "REST"]
        <4>1. \E j \in 1..Len(Inbox(p)) : Inbox(p)[j].kind = "SALT"
          BY <1>10 DEF receiveSalt, Reading, Available
        <4>2. i \in 1..Len(Inbox(p))
          BY <4>1
        <4>3. r \in Message
          <5> HIDE DEF i
          <5>1. Inbox(p)[i] \in Message
            BY <2>2, <4>2
          <5> QED
            BY <5>1, RestType
        <4>4. SubSeq(Inbox(p), i + 1, Len(Inbox(p))) \in Seq(Message)
          <5> HIDE DEF i
          <5> QED
            BY <2>2, <4>2
        <4>5. << r >> \o SubSeq(Inbox(p), i + 1, Len(Inbox(p))) \in Seq(Message)
          BY <4>3, <4>4
        <4>6. chan' = [chan EXCEPT ![Other(p)] =
                         << r >> \o SubSeq(Inbox(p), i + 1, Len(Inbox(p)))]
          BY <1>10, <3>2 DEF receiveSalt, Inbox
        <4>7. chan' \in [Party -> Seq(Message)]
          BY <4>5, <4>6, OtherParty DEF TypeOK
        <4>8. got' \in [Party -> [Received -> Value]]
          <5>1. Garbage \in Value /\ "SALT" \in Received
            BY DEF Value, Received
          <5>2. got' = [got EXCEPT ![p]["SALT"] = Garbage]
            BY <1>10, <3>2 DEF receiveSalt
          <5> QED
            BY <5>1, <5>2, GotType
        <4> QED
          BY <4>7, <4>8
      <3> QED
        BY <3>1, <3>2
    <2> QED
      BY <1>0, <1>10, <2>3, <2>4 DEF receiveSalt, TypeOK
  <1>11. CASE validateKeyAgainstExpected(p)
    <2>1. CASE peerKey[p] \in {None, got[p]["PUBLIC_KEY"]}
      BY <1>0, <1>11, <2>1, AdvanceType DEF validateKeyAgainstExpected, Doing, TypeOK
    <2>2. CASE peerKey[p] \notin {None, got[p]["PUBLIC_KEY"]}
      BY <1>0, <1>11, <2>2, FailType DEF validateKeyAgainstExpected
    <2> QED
      BY <2>1, <2>2
  <1>12. CASE setPublicKey(p)
    <2>1. peerKey' \in [Party -> Value]
      BY <1>12 DEF setPublicKey, TypeOK, Received
    <2> QED
      BY <1>0, <1>12, <2>1, AdvanceType DEF setPublicKey, Doing, TypeOK
  <1>13. CASE initSender(p)
    <2>1. sendCtx' \in [Party -> Context]
      BY <1>13 DEF initSender, TypeOK, Context, Value
    <2> QED
      BY <1>0, <1>13, <2>1, AdvanceType DEF initSender, Doing, TypeOK
  <1>14. CASE initReceiver(p)
    <2>1. CASE got[p]["SALT"] = None
      BY <1>0, <1>14, <2>1, FailType DEF initReceiver
    <2>2. CASE got[p]["SALT"] # None
      <3>1. recvCtx' \in [Party -> Context]
        <4> DEFINE c == [key |-> keys[p].rx, ssrc |-> got[p]["SSRC"],
                         salt |-> got[p]["SALT"]]
        <4>1. got[p]["SSRC"] \in Value /\ got[p]["SALT"] \in Value
          BY DEF TypeOK, Received
        <4>2. keys[p].rx \in Keys
          BY DEF TypeOK
        <4>3. c \in Context
          BY <4>1, <4>2 DEF Context
        <4>4. recvCtx' = [recvCtx EXCEPT ![p] = c]
          BY <1>14, <2>2 DEF initReceiver
        <4> QED
          BY <4>3, <4>4 DEF TypeOK
      <3> QED
        BY <1>0, <1>14, <2>2, <3>1, AdvanceType DEF initReceiver, Doing, TypeOK
    <2> QED
      BY <2>1, <2>2
  <1>15. CASE startMedia(p)
    BY <1>0, <1>15, AdvanceType DEF startMedia, Doing, TypeOK, Status
  <1>16. CASE returnFromReject(p)
    BY <1>0, <1>16, AdvanceType DEF returnFromReject, Doing, TypeOK, Status
  <1>17. CASE startKeepAliveWorker(p)
    BY <1>0, <1>17, AdvanceType DEF startKeepAliveWorker, Doing, TypeOK, Status, Worker
  <1> QED
    BY <1>1, <1>2, <1>3, <1>4, <1>5, <1>6, <1>7, <1>8, <1>9, <1>10, <1>11, <1>12,
       <1>13, <1>14, <1>15, <1>16, <1>17 DEF CallThread

\* Every step of the specification keeps the types.
LEMMA TypeStep ==
    ASSUME TypeOK, [Next]_vars
    PROVE  TypeOK'
  <1> USE DEF callVars, workerVars
  <1>1. CASE \E p \in Party : CallThread(p)
    BY <1>1, CallThreadType
  <1>2. CASE KeepAliveWorker
    <2>0. timedOut' \in BOOLEAN
      BY <1>2 DEF KeepAliveWorker, TypeOK
    <2>1. CASE workerChecks
      BY <1>2, <2>1 DEF workerChecks, KeepAliveWorker, TypeOK, Worker
    <2>2. CASE workerSendsWait
      <3>1. MessageOf(Callee, "WAIT") \in Message
        BY MessageOfType DEF Party, Kind
      <3>2. chan' \in [Party -> Seq(Message)]
        BY <2>2, <3>1 DEF workerSendsWait, TypeOK, Party
      <3>3. waits' \in Nat /\ strays' \in Nat
        BY <2>2 DEF workerSendsWait, TypeOK
      <3> QED
        BY <2>0, <2>2, <3>2, <3>3 DEF workerSendsWait, TypeOK, Worker
    <2>3. CASE workerSendFails
      BY <2>0, <2>3, FailType DEF workerSendFails, Party
    <2>4. CASE workerWakes
      BY <2>0, <2>4 DEF workerWakes, TypeOK, Worker
    <2> QED
      BY <1>2, <2>1, <2>2, <2>3, <2>4 DEF KeepAliveWorker
  <1>3. CASE User
    <2>0. timedOut' \in BOOLEAN
      BY <1>3 DEF User, TypeOK
    <2>1. CASE UserAccepts
      <3>1. acceptCall(requested) \in Seq(Op)
        BY ProgramTypes DEF TypeOK
      <3> QED
        BY <2>0, <2>1, <3>1 DEF UserAccepts, TypeOK, Status, Party
    <2>2. CASE UserRejects
      BY <2>0, <2>2, ProgramTypes DEF UserRejects, TypeOK, Status, Party
    <2> QED
      BY <1>3, <2>1, <2>2 DEF User
  <1>4. CASE readTimesOut
    BY <1>4, ReadErrorType DEF readTimesOut, Party
  <1>5. CASE linkBreaks /\ UNCHANGED timedOut
    <2>1. chan[Caller] \in Seq(Message) /\ chan[Callee] \in Seq(Message)
      BY DEF TypeOK, Party
    <2>2. PICK n \in 0..Len(chan[Caller]), m \in 0..Len(chan[Callee]) :
            chan' = [p \in Party |-> SubSeq(chan[p], 1, IF p = Caller THEN n ELSE m)]
      BY <1>5 DEF linkBreaks
    <2>3. SubSeq(chan[Caller], 1, n) \in Seq(Message)
      BY <2>1
    <2>4. SubSeq(chan[Callee], 1, m) \in Seq(Message)
      BY <2>1
    <2>5. chan' \in [Party -> Seq(Message)]
      BY <2>2, <2>3, <2>4 DEF Party, Caller, Callee
    <2> QED
      BY <1>5, <2>5 DEF linkBreaks, TypeOK
  <1>6. CASE Terminated
    BY <1>6 DEF Terminated, vars, TypeOK
  <1>7. CASE UNCHANGED vars
    BY <1>7 DEF vars, TypeOK
  <1> QED
    BY <1>1, <1>2, <1>3, <1>4, <1>5, <1>6, <1>7 DEF Next

\* TheOnionPhoneProtocol, KeyExchangeHelper and SrtpProtocol keep their state
\* within its types for any set of keys and any number of WAITs.
THEOREM TypeCorrect == Spec => []TypeOK
  <1>1. TypeOK /\ [Next]_vars => TypeOK'
    BY TypeStep
  <1> QED
    BY TypeInit, <1>1, PTL DEF Spec

(***************************************************************************)
(* Where values come from.                                                 *)
(***************************************************************************)

\* A message written by p carries a value of p; what a misaligned read left
\* over carries nothing.
OwnMessage(p) == {m \in Message : m.kind \in Carriers => m.val = p}
MessageOrigin == \A p \in Party : chan[p] \in Seq(OwnMessage(p))

\* The keys of p, once derived, are made of the two Diffie-Hellman keys of this
\* call.
NoKeys == [tx |-> NoSrtpKey, rx |-> NoSrtpKey]
KeysOrigin == \A p \in Party : keys[p] \in {NoKeys, DerivedKeys(p, Other(p))}

\* The caller never writes an answer, the callee only after the keep-alive
\* thread was told to stop.
OnlyUserAnswers ==
    /\ todo[Caller] \in Seq(QuietOp)
    /\ running => todo[Callee] \in Seq(QuietOp)

\* Only a worker that had looked at running before stopSending can still write.
StrayInv ==
    /\ running => answer = None /\ strays = 0
    /\ ~running /\ worker = "write" => strays = 0
    /\ strays <= 1

IInv == TypeOK /\ MessageOrigin /\ KeysOrigin /\ OnlyUserAnswers /\ StrayInv

---------------------------------------------------------------------------
(* MessageOrigin is preserved. *)

\* What p writes is p's own.
LEMMA MessageOfOwn ==
    ASSUME TypeOK, NEW p \in Party, NEW k \in Kind
    PROVE  MessageOf(p, k) \in OwnMessage(p)
  <1>1. MessageOf(p, k) \in Message
    BY MessageOfType
  <1>2. MessageOf(p, k).kind \in Carriers => MessageOf(p, k).val = p
    BY DEF MessageOf
  <1> QED
    BY <1>1, <1>2 DEF OwnMessage

\* What is left of a message after a misaligned read counts as p's own.
LEMMA RestOwn ==
    ASSUME NEW p \in Party, NEW m \in Message
    PROVE  [m EXCEPT !.kind = "REST"] \in OwnMessage(p)
  <1>1. [m EXCEPT !.kind = "REST"] \in Message
    BY RestType
  <1>2. [m EXCEPT !.kind = "REST"].kind = "REST"
    BY DEF Message
  <1> QED
    BY <1>1, <1>2 DEF OwnMessage, Carriers

\* Taking a message from the stream leaves messages of the same origin.
LEMMA ConsumeOrigin ==
    ASSUME TypeOK, MessageOrigin, NEW p \in Party, Inbox(p) # << >>, Consume(p)
    PROVE  MessageOrigin'
  <1> DEFINE q == Other(p)
  <1>1. q \in Party
    BY OtherParty
  <1> HIDE DEF q
  <1>2. chan[q] \in Seq(OwnMessage(q)) /\ chan[q] # << >>
    BY <1>1 DEF MessageOrigin, Inbox, q
  <1>3. Tail(chan[q]) \in Seq(OwnMessage(q))
    BY <1>2
  <1>4. chan' = [chan EXCEPT ![q] = Tail(@)]
    BY DEF Consume, q
  <1> QED
    BY <1>1, <1>3, <1>4 DEF MessageOrigin, TypeOK

\* Replacing the stream written by q by messages of q keeps MessageOrigin.
LEMMA ReplaceOrigin ==
    ASSUME TypeOK, MessageOrigin, NEW q \in Party, NEW s \in Seq(OwnMessage(q)),
           chan' = [chan EXCEPT ![q] = s]
    PROVE  MessageOrigin'
    BY DEF MessageOrigin, TypeOK

\* A step that does not touch the streams keeps MessageOrigin.
LEMMA SameOrigin ==
    ASSUME MessageOrigin, chan' = chan
    PROVE  MessageOrigin'
    BY DEF MessageOrigin

\* Every step keeps MessageOrigin.
LEMMA OriginStep ==
    ASSUME TypeOK, MessageOrigin, [Next]_vars
    PROVE  MessageOrigin'
  <1>1. ASSUME NEW p \in Party, CallThread(p) PROVE MessageOrigin'
    <2>0. Other(p) \in Party
      BY OtherParty
    <2>1. CASE sendMessage(p)
      <3>1. MessageOf(p, Current(p)) \in OwnMessage(p)
        BY <2>1, TodoType, MessageOfOwn DEF sendMessage, Doing
      <3>2. chan[p] \in Seq(OwnMessage(p))
        BY DEF MessageOrigin
      <3>3. Append(chan[p], MessageOf(p, Current(p))) \in Seq(OwnMessage(p))
        BY <3>1, <3>2
      <3> QED
        BY <2>1, <3>3, ReplaceOrigin DEF sendMessage
    <2>2. CASE \/ receiveMessage(p) \/ isOtherPartyIntroducing(p)
               \/ handleIncomingRequestForIntroduction(p) \/ receiveAnswer(p)
      <3>1. Inbox(p) # << >> /\ Consume(p)
        BY <2>2, AvailableMeans
           DEF receiveMessage, isOtherPartyIntroducing, receiveAnswer, Reading,
               handleIncomingRequestForIntroduction
      <3> QED
        BY <3>1, ConsumeOrigin
    <2>3. CASE receiveSsrc(p)
      <3>1. Inbox(p) # << >>
        BY <2>3, AvailableMeans DEF receiveSsrc, Reading
      <3>2. CASE Head(Inbox(p)).kind = "SSRC"
        BY <2>3, <3>1, <3>2, ConsumeOrigin DEF receiveSsrc
      <3>3. CASE Head(Inbox(p)).kind # "SSRC"
        <4> DEFINE r == [Head(Inbox(p)) EXCEPT !.kind = "REST"]
        <4>1. r \in OwnMessage(Other(p))
          BY <2>0, <3>1, InboxType, RestOwn
        <4>2. Tail(Inbox(p)) \in Seq(OwnMessage(Other(p)))
          BY <2>0, <3>1 DEF MessageOrigin, Inbox
        <4>3. << r >> \o Tail(Inbox(p)) \in Seq(OwnMessage(Other(p)))
          <5> HIDE DEF r
          <5> QED
            BY <4>1, <4>2
        <4>4. chan' = [chan EXCEPT ![Other(p)] = << r >> \o Tail(Inbox(p))]
          BY <2>3, <3>3 DEF receiveSsrc, Inbox
        <4> QED
          BY <2>0, <4>3, <4>4, ReplaceOrigin
      <3> QED
        BY <3>2, <3>3
    <2>4. CASE receiveSalt(p)
      <3>1. Inbox(p) # << >>
        BY <2>4, AvailableMeans DEF receiveSalt, Reading
      <3>2. CASE Head(Inbox(p)).kind = "SALT"
        BY <2>4, <3>1, <3>2, ConsumeOrigin DEF receiveSalt
      <3>3. CASE Head(Inbox(p)).kind # "SALT"
        <4> DEFINE i == CHOOSE j \in 1..Len(Inbox(p)) : Inbox(p)[j].kind = "SALT"
        <4> DEFINE r == [Inbox(p)[i] EXCEPT !.kind = "REST"]
        <4> DEFINE s == << r >> \o SubSeq(Inbox(p), i + 1, Len(Inbox(p)))
        <4>1. \E j \in 1..Len(Inbox(p)) : Inbox(p)[j].kind = "SALT"
          BY <2>4 DEF receiveSalt, Reading, Available
        <4>2. i \in 1..Len(Inbox(p))
          BY <4>1
        <4>3. /\ Inbox(p) \in Seq(OwnMessage(Other(p)))
              /\ Inbox(p) \in Seq(Message)
          BY <2>0 DEF MessageOrigin, TypeOK, Inbox
        <4>4. chan' = [chan EXCEPT ![Other(p)] = s]
          BY <2>4, <3>3 DEF receiveSalt, Inbox
        <4> HIDE DEF i
        <4>5. r \in OwnMessage(Other(p))
          <5>1. Inbox(p)[i] \in Message
            BY <4>2, <4>3
          <5> QED
            BY <2>0, <5>1, RestOwn
        <4>6. SubSeq(Inbox(p), i + 1, Len(Inbox(p))) \in Seq(OwnMessage(Other(p)))
          BY <4>2, <4>3
        <4> HIDE DEF r
        <4>7. s \in Seq(OwnMessage(Other(p)))
          BY <4>5, <4>6
        <4> QED
          BY <2>0, <4>4, <4>7, ReplaceOrigin
      <3> QED
        BY <3>2, <3>3
    <2>5. CASE sendFails(p) \/ receiveWrongMessage(p) \/ endOfStream(p)
      BY <2>5, SameOrigin DEF sendFails, receiveWrongMessage, endOfStream, ReadError, Fail
    <2>6. CASE \/ validateKeyAgainstExpected(p) \/ setPublicKey(p)
               \/ initSender(p) \/ initReceiver(p) \/ startMedia(p)
               \/ returnFromReject(p) \/ startKeepAliveWorker(p)
      BY <2>6, SameOrigin
         DEF validateKeyAgainstExpected, setPublicKey, initSender, initReceiver,
             startMedia, returnFromReject, startKeepAliveWorker, Fail
    <2> QED
      BY <1>1, <2>1, <2>2, <2>3, <2>4, <2>5, <2>6 DEF CallThread
  <1>2. CASE KeepAliveWorker
    <2>1. CASE workerSendsWait
      <3>1. Callee \in Party /\ "WAIT" \in Kind
        BY DEF Party, Kind
      <3>2. MessageOf(Callee, "WAIT") \in OwnMessage(Callee)
        BY <3>1, MessageOfOwn
      <3>3. Append(chan[Callee], MessageOf(Callee, "WAIT")) \in Seq(OwnMessage(Callee))
        BY <3>1, <3>2 DEF MessageOrigin
      <3> QED
        BY <2>1, <3>1, <3>3, ReplaceOrigin DEF workerSendsWait
    <2>2. CASE workerChecks \/ workerSendFails \/ workerWakes
      BY <2>2, SameOrigin DEF workerChecks, workerSendFails, workerWakes, Fail
    <2> QED
      BY <1>2, <2>1, <2>2 DEF KeepAliveWorker
  <1>3. CASE User
    BY <1>3, SameOrigin DEF User, UserAccepts, UserRejects
  <1>4. CASE readTimesOut
    BY <1>4, SameOrigin DEF readTimesOut, ReadError, Fail
  <1>5. CASE linkBreaks
    <2>1. PICK n \in 0..Len(chan[Caller]), m \in 0..Len(chan[Callee]) :
            chan' = [p \in Party |-> SubSeq(chan[p], 1, IF p = Caller THEN n ELSE m)]
      BY <1>5 DEF linkBreaks
    <2>2. /\ chan[Caller] \in Seq(OwnMessage(Caller))
          /\ chan[Callee] \in Seq(OwnMessage(Callee))
      BY DEF MessageOrigin, Party
    <2>3. SubSeq(chan[Caller], 1, n) \in Seq(OwnMessage(Caller))
      BY <2>2
    <2>4. SubSeq(chan[Callee], 1, m) \in Seq(OwnMessage(Callee))
      BY <2>2
    <2> QED
      BY <2>1, <2>3, <2>4 DEF MessageOrigin, Party, Caller, Callee
  <1>6. CASE Terminated \/ UNCHANGED vars
    BY <1>6, SameOrigin DEF Terminated, vars
  <1> QED
    BY <1>1, <1>2, <1>3, <1>4, <1>5, <1>6 DEF Next

---------------------------------------------------------------------------
(* KeysOrigin is preserved: only the read of a DH_KEY sets the keys. *)

\* Every step keeps KeysOrigin.
LEMMA KeysStep ==
    ASSUME TypeOK, MessageOrigin, KeysOrigin, [Next]_vars
    PROVE  KeysOrigin'
  <1> USE DEF callVars
  <1>0. SUFFICES ASSUME keys' # keys PROVE KeysOrigin'
    BY DEF KeysOrigin
  <1>1. ASSUME NEW p \in Party, CallThread(p) PROVE KeysOrigin'
    <2>1. receiveMessage(p)
      BY <1>0, <1>1
         DEF CallThread, sendMessage, sendFails, receiveWrongMessage, endOfStream,
             isOtherPartyIntroducing, handleIncomingRequestForIntroduction,
             receiveAnswer, receiveSsrc, receiveSalt, validateKeyAgainstExpected,
             setPublicKey, initSender, initReceiver, startMedia, returnFromReject,
             startKeepAliveWorker, ReadError, Fail
    <2> DEFINE m == Head(Inbox(p))
    <2>2. /\ Current(p) = "DH_KEY"
          /\ keys' = [keys EXCEPT ![p] = DerivedKeys(p, m.val)]
      BY <1>0, <2>1 DEF receiveMessage
    <2>3. m.kind = "DH_KEY"
      BY <2>1, <2>2 DEF receiveMessage, Reading, Acceptable
    <2>4. m \in OwnMessage(Other(p))
      <3>1. Inbox(p) \in Seq(OwnMessage(Other(p)))
        BY OtherParty DEF MessageOrigin, Inbox
      <3>2. Inbox(p) # << >>
        BY <2>1, AvailableMeans DEF receiveMessage, Reading
      <3> QED
        BY <3>1, <3>2
    <2>5. m.val = Other(p)
      BY <2>3, <2>4 DEF OwnMessage, Carriers
    <2> QED
      BY <2>2, <2>5 DEF KeysOrigin, TypeOK
  <1>2. CASE KeepAliveWorker
    BY <1>0, <1>2 DEF KeepAliveWorker, workerChecks, workerSendsWait, workerSendFails,
                      workerWakes, Fail
  <1>3. CASE User
    BY <1>0, <1>3 DEF User, UserAccepts, UserRejects
  <1>4. CASE readTimesOut
    BY <1>0, <1>4 DEF readTimesOut, ReadError, Fail
  <1>5. CASE linkBreaks
    BY <1>0, <1>5 DEF linkBreaks
  <1>6. CASE Terminated \/ UNCHANGED vars
    BY <1>0, <1>6 DEF Terminated, vars
  <1> QED
    BY <1>1, <1>2, <1>3, <1>4, <1>5, <1>6 DEF Next

---------------------------------------------------------------------------
(* OnlyUserAnswers and StrayInv are preserved. *)

\* A step of the call thread of p that does not write an answer: either p's
\* list of calls is shortened, or it gets the calls of an introduction.
TodoShrinks(p) ==
    \/ UNCHANGED todo
    \/ /\ todo[p] # << >>
       /\ \/ Advance(p)
          \/ todo' = [todo EXCEPT ![p] = SubSeq(@, 2, Len(@))]
          \/ todo' = [todo EXCEPT ![p] = SubSeq(@, 3, Len(@))]
          \/ todo' = [todo EXCEPT ![p] = receiveAndSetPublicKey \o Tail(@)]

\* Every step of a call thread only shortens its list of calls, but for the
\* introduction that the callee is told to expect.
LEMMA CallThreadShrinks ==
    ASSUME NEW p \in Party, CallThread(p)
    PROVE  TodoShrinks(p)
  <1>1. CASE sendMessage(p)
    BY <1>1 DEF sendMessage, TodoShrinks, Doing
  <1>2. CASE sendFails(p)
    BY <1>2 DEF sendFails, TodoShrinks, Doing, Fail
  <1>3. CASE receiveMessage(p) \/ handleIncomingRequestForIntroduction(p)
             \/ receiveSsrc(p) \/ receiveSalt(p)
    BY <1>3 DEF receiveMessage, handleIncomingRequestForIntroduction, receiveSsrc,
                receiveSalt, Reading, TodoShrinks, Doing
  <1>4. CASE receiveAnswer(p)
    BY <1>4 DEF receiveAnswer, Reading, TodoShrinks, Doing
  <1>5. CASE isOtherPartyIntroducing(p)
    BY <1>5 DEF isOtherPartyIntroducing, Reading, TodoShrinks, Doing, Advance
  <1>6. CASE receiveWrongMessage(p) \/ endOfStream(p)
    BY <1>6 DEF receiveWrongMessage, endOfStream, ReadError, Fail, TodoShrinks, Doing
  <1>7. CASE \/ validateKeyAgainstExpected(p) \/ setPublicKey(p)
             \/ initSender(p) \/ initReceiver(p) \/ startMedia(p)
             \/ returnFromReject(p) \/ startKeepAliveWorker(p)
    BY <1>7 DEF validateKeyAgainstExpected, setPublicKey, initSender, initReceiver,
                startMedia, returnFromReject, startKeepAliveWorker, Fail,
                TodoShrinks, Doing
  <1> QED
    BY <1>1, <1>2, <1>3, <1>4, <1>5, <1>6, <1>7 DEF CallThread

\* Shortening a list of calls without answers gives such a list.
LEMMA ShrinkQuiet ==
    ASSUME TypeOK, NEW p \in Party, TodoShrinks(p), NEW q \in Party,
           todo[q] \in Seq(QuietOp)
    PROVE  todo'[q] \in Seq(QuietOp)
  <1>1. CASE p # q \/ UNCHANGED todo
    BY <1>1 DEF TodoShrinks, Advance, TypeOK
  <1>2. CASE p = q /\ todo[p] # << >>
    <2>1. Tail(todo[p]) \in Seq(QuietOp)
      BY <1>2
    <2>2. /\ SubSeq(todo[p], 2, Len(todo[p])) \in Seq(QuietOp)
          /\ SubSeq(todo[p], 3, Len(todo[p])) \in Seq(QuietOp)
      BY <1>2
    <2>3. receiveAndSetPublicKey \o Tail(todo[p]) \in Seq(QuietOp)
      BY <2>1, IntroductionTypes, ConcatOps
    <2> QED
      BY <1>2, <2>1, <2>2, <2>3 DEF TodoShrinks, Advance, TypeOK
  <1> QED
    BY <1>1, <1>2 DEF TodoShrinks

\* A call thread does not touch the flag of the keep-alive thread.
LEMMA CallThreadRunning ==
    ASSUME NEW p \in Party, CallThread(p)
    PROVE  UNCHANGED <<running, strays>>
    BY DEF CallThread, sendMessage, sendFails, receiveMessage, receiveWrongMessage,
           endOfStream, isOtherPartyIntroducing, receiveAnswer, receiveSsrc,
           handleIncomingRequestForIntroduction, receiveSalt,
           validateKeyAgainstExpected, setPublicKey, initSender, initReceiver,
           startMedia, returnFromReject, startKeepAliveWorker, ReadError, Fail,
           workerVars

\* Every step keeps OnlyUserAnswers.
LEMMA AnswersStep ==
    ASSUME TypeOK, OnlyUserAnswers, [Next]_vars
    PROVE  OnlyUserAnswers'
  <1> USE DEF workerVars
  <1>0. Caller \in Party /\ Callee \in Party /\ Caller # Callee
    BY DEF Party, Caller, Callee
  <1>1. ASSUME NEW p \in Party, TodoShrinks(p), UNCHANGED running
        PROVE  OnlyUserAnswers'
    BY <1>0, <1>1, ShrinkQuiet DEF OnlyUserAnswers
  <1>2. CASE \E p \in Party : CallThread(p)
    BY <1>1, <1>2, CallThreadShrinks, CallThreadRunning
  <1>3. CASE KeepAliveWorker
    BY <1>3 DEF KeepAliveWorker, workerChecks, workerSendsWait, workerSendFails,
                workerWakes, Fail, OnlyUserAnswers
  <1>4. CASE User
    BY <1>0, <1>4 DEF User, UserAccepts, UserRejects, OnlyUserAnswers, TypeOK
  <1>5. CASE readTimesOut
    <2>1. TodoShrinks(Caller) /\ UNCHANGED running
      BY <1>5 DEF readTimesOut, ReadError, Fail, TodoShrinks, Doing
    <2> QED
      BY <1>0, <1>1, <2>1
  <1>6. CASE linkBreaks \/ Terminated \/ UNCHANGED vars
    BY <1>6 DEF linkBreaks, Terminated, vars, OnlyUserAnswers
  <1> QED
    BY <1>2, <1>3, <1>4, <1>5, <1>6 DEF Next

\* Every step keeps StrayInv.
LEMMA StrayStep ==
    ASSUME TypeOK, OnlyUserAnswers, StrayInv, [Next]_vars
    PROVE  StrayInv'
  <1> USE DEF workerVars
  <1>1. ASSUME NEW p \in Party, sendMessage(p) PROVE StrayInv'
    <2>1. CASE answer' = answer
      BY <1>1, <2>1 DEF sendMessage, StrayInv
    <2>2. CASE answer' # answer
      <3>1. /\ todo[p] # << >>
            /\ Head(todo[p]).do = "send" /\ Head(todo[p]).kind \in Answers
        BY <1>1, <2>2 DEF sendMessage, Doing, Current
      <3>2. todo[p] \notin Seq(QuietOp)
        <4>1. Head(todo[p]) \notin QuietOp
          BY <3>1 DEF QuietOp
        <4>2. ASSUME todo[p] \in Seq(QuietOp) PROVE Head(todo[p]) \in QuietOp
          BY <3>1, <4>2
        <4> QED
          BY <4>1, <4>2
      <3>3. ~running
        BY <3>2 DEF OnlyUserAnswers, Party, TypeOK
      <3> QED
        BY <1>1, <3>3 DEF sendMessage, StrayInv
    <2> QED
      BY <2>1, <2>2
  <1>2. ASSUME NEW p \in Party, CallThread(p), ~sendMessage(p) PROVE StrayInv'
    <2>1. UNCHANGED <<running, strays>>
      BY <1>2, CallThreadRunning
    <2>2. UNCHANGED answer
      BY <1>2
         DEF CallThread, sendFails, receiveMessage, receiveWrongMessage, endOfStream,
             isOtherPartyIntroducing, handleIncomingRequestForIntroduction,
             receiveAnswer, receiveSsrc, receiveSalt, validateKeyAgainstExpected,
             setPublicKey, initSender, initReceiver, startMedia, returnFromReject,
             startKeepAliveWorker, ReadError, Fail
    <2>3. worker' = worker \/ worker' = "check"
      BY <1>2
         DEF CallThread, sendFails, receiveMessage, receiveWrongMessage, endOfStream,
             isOtherPartyIntroducing, handleIncomingRequestForIntroduction,
             receiveAnswer, receiveSsrc, receiveSalt, validateKeyAgainstExpected,
             setPublicKey, initSender, initReceiver, startMedia, returnFromReject,
             startKeepAliveWorker, ReadError, Fail
    <2> QED
      BY <2>1, <2>2, <2>3 DEF StrayInv
  <1>3. CASE KeepAliveWorker
    <2>1. CASE workerChecks
      BY <2>1 DEF workerChecks, StrayInv
    <2>2. CASE workerSendsWait
      BY <2>2 DEF workerSendsWait, StrayInv, TypeOK
    <2>3. CASE workerSendFails
      BY <2>3 DEF workerSendFails, Fail, StrayInv
    <2>4. CASE workerWakes
      BY <2>4 DEF workerWakes, StrayInv
    <2> QED
      BY <1>3, <2>1, <2>2, <2>3, <2>4 DEF KeepAliveWorker
  <1>4. CASE User
    BY <1>4 DEF User, UserAccepts, UserRejects, StrayInv, TypeOK
  <1>5. CASE readTimesOut
    BY <1>5 DEF readTimesOut, ReadError, Fail, StrayInv
  <1>6. CASE linkBreaks \/ Terminated \/ UNCHANGED vars
    BY <1>6 DEF linkBreaks, Terminated, vars, StrayInv
  <1> QED
    BY <1>1, <1>2, <1>3, <1>4, <1>5, <1>6 DEF Next

---------------------------------------------------------------------------
\* The initial state satisfies the inductive invariant.
LEMMA InvariantInit == Init => IInv
  <1> SUFFICES ASSUME Init PROVE IInv
    OBVIOUS
  <1>1. TypeOK
    BY TypeInit
  <1>2. MessageOrigin
    BY DEF Init, MessageOrigin
  <1>3. KeysOrigin
    BY DEF Init, KeysOrigin, NoKeys
  <1>4. OnlyUserAnswers
    BY ProgramTypes DEF Init, OnlyUserAnswers, Party, Caller, Callee
  <1>5. StrayInv
    BY DEF Init, StrayInv
  <1> QED
    BY <1>1, <1>2, <1>3, <1>4, <1>5 DEF IInv

\* IInv is an invariant of the call set-up.
THEOREM Invariance == Spec => []IInv
  <1>1. IInv /\ [Next]_vars => IInv'
    BY TypeStep, OriginStep, KeysStep, AnswersStep, StrayStep DEF IInv
  <1> QED
    BY InvariantInit, <1>1, PTL DEF Spec

\* KeyExchangeHelper: whatever the order of the steps, the loss of the
\* connection and the interference of the keep-alive thread, two parties that
\* have both derived keys have derived matching ones.
THEOREM KeysAlwaysAgree == Spec => []KeysAgree
  <1>1. IInv => KeysAgree
    <2> SUFFICES ASSUME IInv, \A p \in Party : keys[p].tx # NoSrtpKey,
                        NEW p \in Party
                 PROVE  keys[p].tx = keys[Other(p)].rx /\ keys[p].tx # keys[p].rx
      BY DEF KeysAgree
    <2>1. \A q \in Party : keys[q] = DerivedKeys(q, Other(q))
      BY DEF IInv, KeysOrigin, NoKeys
    <2>2. /\ keys[Caller] = [tx |-> SrtpKey({Caller, Callee}, 1),
                             rx |-> SrtpKey({Caller, Callee}, 2)]
          /\ keys[Callee] = [tx |-> SrtpKey({Callee, Caller}, 2),
                             rx |-> SrtpKey({Callee, Caller}, 1)]
      BY <2>1 DEF DerivedKeys, Party, Other, Caller, Callee
    <2>3. {Caller, Callee} = {Callee, Caller}
      OBVIOUS
    <2>4. SrtpKey({Caller, Callee}, 1) # SrtpKey({Caller, Callee}, 2)
      BY DEF SrtpKey
    <2> QED
      BY <2>2, <2>3, <2>4 DEF Party, Other
  <1> QED
    BY Invariance, <1>1, PTL

\* KeepAliveWorker: stopSending does not join the thread, yet at most one WAIT
\* follows the answer, however many were written before it.
THEOREM AtMostOneStrayWait == Spec => []AtMostOneStray
  <1>1. IInv => AtMostOneStray
    BY DEF IInv, StrayInv, AtMostOneStray
  <1> QED
    BY Invariance, <1>1, PTL

-----------------------------------------------------------------------------
(* How far the parties have come. *)

Left(p) == Len(todo[p])

\* s ends like the list e, and what comes before is in S.
EndsLike(s, e, S) ==
    \A i \in 1 .. Len(s) :
        IF Len(s) - i < Len(e) THEN s[i] = e[Len(e) - (Len(s) - i)] ELSE s[i] \in S

\* The last calls of each party, from the key exchange on.
initiateSrtp(p) == IF p = Caller THEN initiateOutgoingSrtp ELSE initiateIncomingSrtp
LastCalls(p) == (exchangeKeys \o initiateSrtp(p)) \o << do("startMedia") >>

\* How many calls are left when p is about to send, or to receive, the SSRC.
SendSsrcAt(p) == IF p = Caller THEN 6 ELSE 4
RecvSsrcAt(p) == IF p = Caller THEN 4 ELSE 7

\* The calls that come before them: nothing of the key exchange or of SRTP.
EarlyOp == {o \in Op : /\ o.do \notin {"initSender", "initReceiver", "startMedia"}
                       /\ o.kind \notin {"DH_KEY", "SSRC", "SALT"}}

\* The ones among them that a party on its way into the call may still have to make.
CallOp == {o \in EarlyOp : o # recv("INTRODUCTION") /\ o.do # "startKeepAliveWorker"}

\* p is on its way into the call, or in it: the callee from the user's decision on.
Going(p) == \/ recvCtx[p] # NoContext
            \/ todo[p] # << >> /\ todo[p][Left(p)] = do("startMedia")

\* The number of calls left, 12 for every p that has not come to the key exchange.
Pos(p) == IF Going(p) /\ Left(p) <= 11 THEN Left(p) ELSE 12

\* Where the two parties can be.
ProgramInv ==
    \A p \in Party : IF Going(p) THEN EndsLike(todo[p], LastCalls(p), CallOp)
                                 ELSE todo[p] \in Seq(EarlyOp)

\* The callee is on its way from the user's decision on, and writes ACCEPT first.
AnswerInv ==
    /\ status[Callee] = "initialized" => ~ Going(Callee)
    /\ Going(Callee) =>
          \/ answer = "ACCEPT" /\ todo[Callee] \in Seq(QuietOp)
          \/ /\ Left(Callee) >= 12
             /\ Head(todo[Callee]) = send("ACCEPT")
             /\ Tail(todo[Callee]) \in Seq(QuietOp)

\* What a party has done by the time it has few calls left.
KeysDone(p) == Pos(p) <= 7 => keys[p] = DerivedKeys(p, Other(p))
SenderDone(p) ==
    Pos(p) <= SendSsrcAt(p) => sendCtx[p] = [key |-> keys[p].tx, ssrc |-> p, salt |-> p]
ReceiverDone(p) ==
    /\ Pos(p) <= 1 <=> recvCtx[p] # NoContext
    /\ Pos(p) <= 1 => got[p]["SALT"] # None
MediaDone(p) == status[p] = "ongoing" => Pos(p) = 0
DoneInv == \A p \in Party : KeysDone(p) /\ SenderDone(p) /\ ReceiverDone(p) /\ MediaDone(p)

\* Who can have written the messages of the key exchange and of SRTP.
SentDhKey(q) == Pos(q) <= 9
SentSalt(q) == Pos(q) + 2 <= SendSsrcAt(q)
Written(q) ==
    \A i \in 1 .. Len(chan[q]) : /\ chan[q][i].kind = "DH_KEY" => SentDhKey(q)
                                 /\ chan[q][i].kind = "SALT" => SentSalt(q)
WrittenInv == \A q \in Party : Written(q) /\ (got[Other(q)]["SALT"] # None => SentSalt(q))

ControlInv == Going(Caller) /\ ProgramInv /\ AnswerInv
ReadyInv == ControlInv /\ DoneInv /\ WrittenInv

-----------------------------------------------------------------------------
(* Lists that end alike. *)

\* Dropping the first calls does not change how a list ends.
LEMMA EndsDrop ==
    ASSUME NEW T, NEW s \in Seq(T), NEW e, Len(e) \in Nat, NEW S, EndsLike(s, e, S),
           NEW k \in 1 .. Len(s) + 1, NEW t, t = SubSeq(s, k, Len(s))
    PROVE  EndsLike(t, e, S)
  <1>1. Len(t) = Len(s) + 1 - k
    BY SubSeqProperties
  <1>2. \A i \in 1 .. Len(t) : t[i] = s[k + i - 1]
    BY <1>1, SubSeqProperties
  <1>3. ASSUME NEW i \in 1 .. Len(t)
        PROVE  IF Len(t) - i < Len(e) THEN t[i] = e[Len(e) - (Len(t) - i)]
                                      ELSE t[i] \in S
    <2>1. k + i - 1 \in 1 .. Len(s) /\ Len(s) - (k + i - 1) = Len(t) - i
      BY <1>1, <1>3
    <2>2. t[i] = s[k + i - 1]
      BY <1>2
    <2> QED
      BY <2>1, <2>2 DEF EndsLike
  <1> QED
    BY <1>3 DEF EndsLike

\* A method that calls e last ends like e.
LEMMA EndsJoin ==
    ASSUME NEW S, NEW T, NEW x \in Seq(S), NEW e \in Seq(T), NEW s, s = x \o e
    PROVE  EndsLike(s, e, S)
  <1>1. Len(s) = Len(x) + Len(e)
    BY ConcatProperties
  <1>2. \A i \in 1 .. Len(s) : s[i] = IF i <= Len(x) THEN x[i] ELSE e[i - Len(x)]
    BY <1>1, ConcatProperties
  <1>3. ASSUME NEW i \in 1 .. Len(s)
        PROVE  IF Len(s) - i < Len(e) THEN s[i] = e[Len(e) - (Len(s) - i)]
                                      ELSE s[i] \in S
    <2>1. CASE i <= Len(x)
      BY <1>1, <1>2, <2>1
    <2>2. CASE i > Len(x)
      <3>1. Len(e) - (Len(s) - i) = i - Len(x) /\ Len(s) - i < Len(e)
        BY <1>1, <2>2
      <3> QED
        BY <1>2, <2>2, <3>1
    <2> QED
      BY <2>1, <2>2
  <1> QED
    BY <1>3 DEF EndsLike

\* What joining two lists gives.
LEMMA Joined ==
    ASSUME NEW T, NEW a \in Seq(T), NEW b \in Seq(T), NEW s, s = a \o b
    PROVE  /\ s \in Seq(T) /\ Len(s) = Len(a) + Len(b)
           /\ \A i \in 1 .. Len(a) : s[i] = a[i]
           /\ \A i \in 1 .. Len(b) : s[Len(a) + i] = b[i]
    OBVIOUS

\* A list without the one call put in front of it.
LEMMA TailJoined ==
    ASSUME NEW T, NEW a \in Seq(T), NEW b \in Seq(T), NEW s, s = a \o b
    PROVE  Len(a) = 1 => Tail(s) = b
  <1>1. /\ s \in Seq(T) /\ Len(s) = Len(a) + Len(b)
        /\ \A i \in 1 .. Len(b) : s[Len(a) + i] = b[i]
    BY Joined
  <1>2. ASSUME Len(a) = 1 PROVE Tail(s) = b
    <2>1. s \in Seq(T) /\ Len(b) \in Nat /\ Len(s) = 1 + Len(b) /\ s # << >>
      BY <1>1, <1>2
    <2>2. Tail(s) \in Seq(T) /\ Len(Tail(s)) = Len(b)
      BY <2>1, HeadTailProperties
    <2>3. ASSUME NEW i \in 1 .. Len(b) PROVE Tail(s)[i] = b[i]
      <3>1. Tail(s)[i] = s[i + 1]
        BY <2>1, <2>2, HeadTailProperties
      <3>2. s[Len(a) + i] = b[i] /\ Len(a) + i = i + 1
        BY <1>1, <1>2
      <3> QED
        BY <3>1, <3>2
    <2> QED
      BY <2>2, <2>3, SeqEqual
  <1> QED
    BY <1>2

-----------------------------------------------------------------------------
(* The programs of the two parties. *)

\* The single calls made before the key exchange.
LEMMA EarlyTypes ==
    /\ \A k \in Kind \ {"DH_KEY", "SSRC", "SALT"} : send(k) \in CallOp
    /\ \A k \in Kind \ {"DH_KEY", "SSRC", "SALT", "INTRODUCTION"} : recv(k) \in CallOp
    /\ \A n \in {"validateKey", "setPublicKey", "return"} : do(n) \in CallOp
    /\ recv("INTRODUCTION") \in EarlyOp /\ do("startKeepAliveWorker") \in EarlyOp
    BY DEF Op, EarlyOp, CallOp, send, recv, do, Kind

\* A list of calls of a party on its way is a list of early calls.
LEMMA CallIsEarly ==
    ASSUME NEW s \in Seq(CallOp)
    PROVE  s \in Seq(EarlyOp)
    BY DEF CallOp

\* What is done for an introduction is done before the key exchange.
LEMMA IntroductionEarly ==
    /\ proveIdentityToOtherParty \in Seq(CallOp)
    /\ receiveAndVerifyPublicKey \in Seq(CallOp)
    /\ receiveAndSetPublicKey \in Seq(CallOp)
  <1>1. /\ {"PUBLIC_KEY", "CHALLENGE", "SIGNATURE", "SIZE"}
               \subseteq Kind \ {"DH_KEY", "SSRC", "SALT", "INTRODUCTION"}
        /\ \A k \in {"PUBLIC_KEY", "CHALLENGE", "SIGNATURE", "SIZE"} :
               send(k) \in CallOp /\ recv(k) \in CallOp
    <2>1. {"PUBLIC_KEY", "CHALLENGE", "SIGNATURE", "SIZE"}
               \subseteq Kind \ {"DH_KEY", "SSRC", "SALT", "INTRODUCTION"}
      BY DEF Kind, Carriers
    <2> QED
      BY <2>1, EarlyTypes
  <1>2. /\ sendMessageWithSizeFirst("PUBLIC_KEY") \in Seq(CallOp)
        /\ sendMessageWithSizeFirst("SIGNATURE") \in Seq(CallOp)
        /\ receiveMessageWithSizeFirst("PUBLIC_KEY") \in Seq(CallOp)
        /\ receiveMessageWithSizeFirst("SIGNATURE") \in Seq(CallOp)
    BY <1>1 DEF sendMessageWithSizeFirst, receiveMessageWithSizeFirst
  <1>3. /\ << recv("CHALLENGE") >> \in Seq(CallOp)
        /\ << send("CHALLENGE") >> \in Seq(CallOp)
        /\ << do("setPublicKey") >> \in Seq(CallOp)
    BY <1>1, EarlyTypes
  <1>4. proveIdentityToOtherParty \in Seq(CallOp)
    BY <1>2, <1>3, ConcatOps DEF proveIdentityToOtherParty
  <1>5. receiveAndVerifyPublicKey \in Seq(CallOp)
    BY <1>2, <1>3, ConcatOps DEF receiveAndVerifyPublicKey
  <1> QED
    BY <1>3, <1>4, <1>5, ConcatOps DEF receiveAndSetPublicKey

\* Before the user's decision, and when it is a refusal, the callee makes early calls.
LEMMA CalleeEarly ==
    initiateIncomingSession \in Seq(EarlyOp) /\ rejectCall \in Seq(EarlyOp)
  <1>1. /\ {"HELLO", "HELLO_ACK", "VERSION", "INTRODUCTION_REQ", "REJECT"}
               \subseteq Kind \ {"DH_KEY", "SSRC", "SALT", "INTRODUCTION"}
        /\ "INTRODUCTION" \in Kind
    BY DEF Kind
  <1>2. \A k \in {"HELLO", "HELLO_ACK", "VERSION", "INTRODUCTION_REQ", "REJECT"} :
            send(k) \in EarlyOp /\ recv(k) \in EarlyOp
    BY <1>1, EarlyTypes DEF CallOp
  <1>3. do("return") \in EarlyOp
    BY EarlyTypes DEF CallOp
  <1>4. /\ receiveAndSendHello \in Seq(EarlyOp)
        /\ receiveAndSendVersion \in Seq(EarlyOp)
        /\ rejectCall \in Seq(EarlyOp)
    BY <1>2, <1>3 DEF receiveAndSendHello, receiveAndSendVersion, rejectCall
  <1>5. << recv("INTRODUCTION"), recv("INTRODUCTION_REQ"),
           do("startKeepAliveWorker") >> \in Seq(EarlyOp)
    BY <1>2, EarlyTypes
  <1> QED
    BY <1>4, <1>5, ConcatOps DEF initiateIncomingSession

\* The single calls of the key exchange and of SRTP.
LEMMA LastTypes ==
    /\ send("SIZE") \in Op /\ send("DH_KEY") \in Op
    /\ recv("SIZE") \in Op /\ recv("DH_KEY") \in Op
    /\ send("SSRC") \in Op /\ send("SALT") \in Op
    /\ recv("SSRC") \in Op /\ recv("SALT") \in Op
    /\ do("initSender") \in Op /\ do("initReceiver") \in Op /\ do("startMedia") \in Op
    BY OpTypes DEF Kind, Carriers, QuietOp

\* The key exchange is four calls.
LEMMA ExchangeCalls ==
    /\ exchangeKeys \in Seq(Op) /\ Len(exchangeKeys) = 4
    /\ exchangeKeys[1] = send("SIZE") /\ exchangeKeys[2] = send("DH_KEY")
    /\ exchangeKeys[3] = recv("SIZE") /\ exchangeKeys[4] = recv("DH_KEY")
    BY LastTypes
       DEF exchangeKeys, sendMessageWithSizeFirst, receiveMessageWithSizeFirst

\* Setting up SRTP is six calls, and the caller sends first.
LEMMA OutgoingCalls ==
    LET s == initiateOutgoingSrtp IN
    /\ s \in Seq(Op) /\ Len(s) = 6
    /\ s[1] = do("initSender") /\ s[2] = send("SSRC") /\ s[3] = send("SALT")
    /\ s[4] = recv("SSRC") /\ s[5] = recv("SALT") /\ s[6] = do("initReceiver")
    BY LastTypes DEF initiateOutgoingSrtp, sendSsrcAndSalt

\* The callee's six calls, which receive before they send.
LEMMA IncomingCalls ==
    LET s == initiateIncomingSrtp IN
    /\ s \in Seq(Op) /\ Len(s) = 6
    /\ s[1] = recv("SSRC") /\ s[2] = recv("SALT") /\ s[3] = do("initSender")
    /\ s[4] = send("SSRC") /\ s[5] = send("SALT") /\ s[6] = do("initReceiver")
    BY LastTypes DEF initiateIncomingSrtp, sendSsrcAndSalt

\* The last calls are eleven: those of the key exchange, of SRTP and startMedia.
LEMMA LastCallsAre ==
    ASSUME NEW p \in Party
    PROVE  LET s == initiateSrtp(p) IN
           /\ LastCalls(p) \in Seq(Op) /\ Len(LastCalls(p)) = 11
           /\ \A i \in 1 .. 4 : LastCalls(p)[i] = exchangeKeys[i]
           /\ \A i \in 5 .. 10 : LastCalls(p)[i] = s[i - 4]
           /\ LastCalls(p)[11] = do("startMedia")
  <1> DEFINE s == initiateSrtp(p)
             x == exchangeKeys \o s
             w == << do("startMedia") >>
             e == LastCalls(p)
  <1>1. s \in Seq(Op) /\ w \in Seq(Op) /\ exchangeKeys \in Seq(Op)
    BY OutgoingCalls, IncomingCalls, ExchangeCalls, LastTypes DEF initiateSrtp
  <1>2. Len(s) = 6 /\ Len(w) = 1 /\ w[1] = do("startMedia") /\ Len(exchangeKeys) = 4
    BY OutgoingCalls, IncomingCalls, ExchangeCalls DEF initiateSrtp
  <1>3. e = x \o w
    BY DEF LastCalls
  <1> HIDE DEF s, w, e
  <1>4. /\ x \in Seq(Op) /\ Len(x) = Len(exchangeKeys) + Len(s)
        /\ \A i \in 1 .. Len(exchangeKeys) : x[i] = exchangeKeys[i]
        /\ \A i \in 1 .. Len(s) : x[Len(exchangeKeys) + i] = s[i]
    BY <1>1, Joined
  <1> HIDE DEF x
  <1>5. /\ e \in Seq(Op) /\ Len(e) = Len(x) + Len(w)
        /\ \A i \in 1 .. Len(x) : e[i] = x[i]
        /\ \A i \in 1 .. Len(w) : e[Len(x) + i] = w[i]
    <2>1. x \in Seq(Op)
      BY <1>4
    <2> QED
      BY <1>1, <1>3, <2>1, Joined
  <1>6. Len(x) = 10 /\ Len(e) = 11 /\ e[11] = w[1]
    BY <1>2, <1>4, <1>5
  <1>7. \A i \in 1 .. 4 : e[i] = exchangeKeys[i]
    BY <1>2, <1>4, <1>5, <1>6
  <1>8. ASSUME NEW i \in 5 .. 10 PROVE e[i] = s[i - 4]
    <2>1. i - 4 \in 1 .. Len(s) /\ Len(exchangeKeys) + (i - 4) = i /\ i \in 1 .. Len(x)
      BY <1>2, <1>6
    <2> QED
      BY <1>4, <1>5, <2>1
  <1> QED
    BY <1>2, <1>5, <1>6, <1>7, <1>8 DEF s, e

\* What the caller does up to the answer.
UpToAccept(ci) ==
    sendAndReceiveHello \o sendAndReceiveVersion
    \o handleOutgoingIntroduction(ci)
    \o handleOutgoingRequestForIntroduction(ci)
    \o waitForAccept

\* The caller's program waits for the answer, may ask for a key, and makes its last calls.
LEMMA CallerSplit ==
    ASSUME NEW ci \in CallInfo
    PROVE  LET b == UpToAccept(ci)
               c == handleIncomingIntroductionIfRequested(ci) IN
           /\ b \in Seq(CallOp) /\ c \in Seq(CallOp)
           /\ Len(b) \in Nat /\ Len(b) >= 1
           /\ startCall(ci) = (b \o c) \o LastCalls(Caller)
  <1>1. {"HELLO", "HELLO_ACK", "VERSION", "NO_INTRODUCTION",
         "INTRODUCTION_REQ", "NO_INTRODUCTION_REQ", "ACCEPT"}
            \subseteq Kind \ {"DH_KEY", "SSRC", "SALT", "INTRODUCTION"}
    BY DEF Kind
  <1>2. \A k \in {"HELLO", "HELLO_ACK", "VERSION", "NO_INTRODUCTION",
                  "INTRODUCTION_REQ", "NO_INTRODUCTION_REQ", "ACCEPT"} :
            send(k) \in CallOp /\ recv(k) \in CallOp
    BY <1>1, EarlyTypes
  <1>3. send("INTRODUCTION") \in CallOp
    BY EarlyTypes DEF Kind
  <1>4. /\ sendAndReceiveHello \in Seq(CallOp) /\ sendAndReceiveVersion \in Seq(CallOp)
        /\ waitForAccept \in Seq(CallOp)
    BY <1>2 DEF sendAndReceiveHello, sendAndReceiveVersion, waitForAccept
  <1>5. handleOutgoingIntroduction(ci) \in Seq(CallOp)
    <2>1. << send("INTRODUCTION") >> \in Seq(CallOp)
      BY <1>3
    <2>2. << send("NO_INTRODUCTION") >> \in Seq(CallOp)
      BY <1>2
    <2> QED
      BY <2>1, <2>2, IntroductionEarly, ConcatOps DEF handleOutgoingIntroduction
  <1>6. handleOutgoingRequestForIntroduction(ci) \in Seq(CallOp)
    BY <1>2 DEF handleOutgoingRequestForIntroduction
  <1>7. handleIncomingIntroductionIfRequested(ci) \in Seq(CallOp)
    <2>1. << do("validateKey"), do("setPublicKey") >> \in Seq(CallOp) /\ << >> \in Seq(CallOp)
      BY EarlyTypes
    <2> QED
      BY <2>1, IntroductionEarly, ConcatOps DEF handleIncomingIntroductionIfRequested
  <1> DEFINE b == UpToAccept(ci)
             c == handleIncomingIntroductionIfRequested(ci)
             a == b \o c
  <1>8. b \in Seq(CallOp) /\ a \in Seq(CallOp)
    <2>1. b \in Seq(CallOp)
      BY <1>4, <1>5, <1>6, ConcatOps DEF UpToAccept
    <2> QED
      BY <1>7, <2>1, ConcatOps
  <1>9. startCall(ci) = ((a \o exchangeKeys) \o initiateOutgoingSrtp) \o << do("startMedia") >>
    BY DEF startCall, initiateOutgoingSession, UpToAccept
  <1> HIDE DEF a
  <1>10. startCall(ci) = a \o LastCalls(Caller)
    <2>1. a \in Seq(Op)
      BY <1>8 DEF CallOp, EarlyOp
    <2>2. << do("startMedia") >> \in Seq(Op)
      BY LastTypes
    <2>3. exchangeKeys \in Seq(Op) /\ initiateOutgoingSrtp \in Seq(Op)
      BY ExchangeCalls, OutgoingCalls
    <2>4. LastCalls(Caller) = (exchangeKeys \o initiateOutgoingSrtp) \o << do("startMedia") >>
      BY DEF LastCalls, initiateSrtp
    <2> DEFINE w == << do("startMedia") >>
    <2> HIDE DEF w
    <2>5. ((a \o exchangeKeys) \o initiateOutgoingSrtp) \o w
             = a \o ((exchangeKeys \o initiateOutgoingSrtp) \o w)
      <3>1. w \in Seq(Op)
        BY <2>2 DEF w
      <3>2. exchangeKeys \o initiateOutgoingSrtp \in Seq(Op)
        BY <2>1, <2>3, ConcatOps
      <3>3. (a \o exchangeKeys) \o initiateOutgoingSrtp = a \o (exchangeKeys \o initiateOutgoingSrtp)
        BY <2>1, <2>3, ConcatAssociative, SMTT(30)
      <3> DEFINE y == exchangeKeys \o initiateOutgoingSrtp
      <3>4. y \in Seq(Op)
        BY <3>2
      <3> HIDE DEF y
      <3>5. (a \o y) \o w = a \o (y \o w)
        BY <2>1, <3>1, <3>4, ConcatAssociative
      <3> QED
        BY <3>3, <3>5 DEF y
    <2> QED
      BY <1>9, <2>4, <2>5 DEF w
  <1>11. Len(b) \in Nat /\ Len(b) >= 1
    <2> DEFINE d == sendAndReceiveHello \o sendAndReceiveVersion
                    \o handleOutgoingIntroduction(ci)
                    \o handleOutgoingRequestForIntroduction(ci)
    <2>1. d \in Seq(CallOp)
      BY <1>4, <1>5, <1>6, ConcatOps
    <2>2. b = d \o waitForAccept
      BY DEF UpToAccept
    <2> HIDE DEF b, d
    <2>3. Len(b) = Len(d) + Len(waitForAccept)
      BY <1>4, <2>1, <2>2, Joined
    <2>4. Len(d) \in Nat
      BY <2>1
    <2>5. Len(waitForAccept) = 1
      BY DEF waitForAccept
    <2> QED
      BY <2>3, <2>4, <2>5
  <1> QED
    BY <1>7, <1>8, <1>10, <1>11 DEF a

\* The caller's program ends in its last calls.
LEMMA CallerProgram ==
    ASSUME NEW ci \in CallInfo
    PROVE  /\ EndsLike(startCall(ci), LastCalls(Caller), CallOp)
           /\ Len(startCall(ci)) >= 12 /\ startCall(ci) # << >>
  <1> DEFINE b == UpToAccept(ci)
             c == handleIncomingIntroductionIfRequested(ci)
             a == b \o c
             e == LastCalls(Caller)
             s == startCall(ci)
  <1>1. /\ b \in Seq(CallOp) /\ c \in Seq(CallOp) /\ Len(b) \in Nat /\ Len(b) >= 1
        /\ s = a \o e
    BY CallerSplit
  <1>2. e \in Seq(Op) /\ Len(e) = 11
    BY LastCallsAre DEF Party
  <1> HIDE DEF b, c, e, s
  <1>3. a \in Seq(CallOp) /\ Len(a) = Len(b) + Len(c) /\ Len(c) \in Nat
    BY <1>1, Joined
  <1> HIDE DEF a
  <1>4. EndsLike(s, e, CallOp)
    BY <1>1, <1>2, <1>3, EndsJoin
  <1>5. s \in Seq(Op) /\ Len(s) = Len(a) + Len(e)
    <2>1. a \in Seq(Op) /\ e \in Seq(Op)
      BY <1>2, <1>3 DEF CallOp, EarlyOp
    <2> QED
      BY <1>1, <2>1, Joined
  <1>6. Len(s) >= 12
    BY <1>1, <1>2, <1>3, <1>5
  <1>7. s # << >>
    BY <1>5, <1>6
  <1> QED
    BY <1>4, <1>6, <1>7 DEF s, e

\* A call that is accepted: ACCEPT first, the last calls at the end, and no other answer.
LEMMA CalleeProgram ==
    ASSUME NEW b \in BOOLEAN
    PROVE  LET s == acceptCall(b) IN
           /\ EndsLike(s, LastCalls(Callee), CallOp)
           /\ s \in Seq(Op) /\ Len(s) >= 12
           /\ Head(s) = send("ACCEPT") /\ Tail(s) \in Seq(QuietOp)
  <1> DEFINE h == handleOutgoingIntroductionIfRequested(b)
             x == << send("ACCEPT") >>
             a == x \o h
             r == ((h \o exchangeKeys) \o initiateIncomingSrtp) \o << do("startMedia") >>
  <1>1. h \in Seq(CallOp) /\ h \in Seq(QuietOp)
    BY IntroductionEarly, IntroductionTypes DEF handleOutgoingIntroductionIfRequested
  <1>2. send("ACCEPT") \in CallOp
    BY EarlyTypes DEF Kind
  <1>3. Len(x) = 1 /\ x[1] = send("ACCEPT")
    OBVIOUS
  <1>a. x \in Seq(CallOp)
    BY <1>2
  <1>4. << do("startMedia") >> \in Seq(Op)
    BY LastTypes
  <1>5. acceptCall(b) = ((a \o exchangeKeys) \o initiateIncomingSrtp) \o << do("startMedia") >>
    BY DEF acceptCall
  <1> HIDE DEF h, x
  <1>6. /\ a \in Seq(CallOp) /\ Len(a) = Len(x) + Len(h)
        /\ \A i \in 1 .. Len(x) : a[i] = x[i]
    BY <1>1, <1>a, Joined
  <1> HIDE DEF a
  <1>7. a \in Seq(Op)
    BY <1>6 DEF CallOp, EarlyOp
  <1>8. acceptCall(b) = a \o LastCalls(Callee)
    <2>1. exchangeKeys \in Seq(Op) /\ initiateIncomingSrtp \in Seq(Op)
      BY ExchangeCalls, IncomingCalls
    <2>2. LastCalls(Callee) = (exchangeKeys \o initiateIncomingSrtp) \o << do("startMedia") >>
      BY DEF LastCalls, initiateSrtp, Caller, Callee
    <2> DEFINE w == << do("startMedia") >>
    <2> HIDE DEF w
    <2>3. ((a \o exchangeKeys) \o initiateIncomingSrtp) \o w
             = a \o ((exchangeKeys \o initiateIncomingSrtp) \o w)
      <3>1. w \in Seq(Op)
        BY <1>4 DEF w
      <3>2. exchangeKeys \o initiateIncomingSrtp \in Seq(Op)
        BY <1>7, <2>1, ConcatOps
      <3>3. (a \o exchangeKeys) \o initiateIncomingSrtp = a \o (exchangeKeys \o initiateIncomingSrtp)
        BY <1>7, <2>1, ConcatAssociative
      <3> DEFINE y == exchangeKeys \o initiateIncomingSrtp
      <3>4. y \in Seq(Op)
        BY <3>2
      <3> HIDE DEF y
      <3>5. (a \o y) \o w = a \o (y \o w)
        BY <1>7, <3>1, <3>4, ConcatAssociative
      <3> QED
        BY <3>3, <3>5 DEF y
    <2> QED
      BY <1>5, <2>2, <2>3 DEF w
  <1>9. LastCalls(Callee) \in Seq(Op) /\ Len(LastCalls(Callee)) = 11
    BY LastCallsAre DEF Party
  <1>10. EndsLike(acceptCall(b), LastCalls(Callee), CallOp)
    BY <1>6, <1>8, <1>9, EndsJoin
  <1>11. /\ acceptCall(b) \in Seq(Op) /\ Len(acceptCall(b)) >= 12
         /\ Head(acceptCall(b)) = send("ACCEPT")
    <2> DEFINE s == acceptCall(b)
    <2> HIDE DEF s
    <2>1. s = a \o LastCalls(Callee)
      BY <1>8 DEF s
    <2>2. LastCalls(Callee) \in Seq(Op)
      BY <1>9
    <2>3. /\ s \in Seq(Op) /\ Len(s) = Len(a) + Len(LastCalls(Callee))
          /\ \A i \in 1 .. Len(a) : s[i] = a[i]
      BY <1>7, <2>1, <2>2, Joined
    <2>4. Len(a) \in Nat /\ Len(a) >= 1 /\ a[1] = send("ACCEPT")
      <3>1. Len(h) \in Nat
        BY <1>1
      <3> QED
        BY <1>3, <1>6, <3>1
    <2>5. Len(s) >= 12 /\ s[1] = send("ACCEPT")
      BY <1>9, <2>3, <2>4
    <2> QED
      BY <2>3, <2>5 DEF s
  <1>12. Tail(acceptCall(b)) = h \o LastCalls(Callee)
    <2>1. h \in Seq(Op) /\ x \in Seq(Op)
      BY <1>1, <1>a DEF CallOp, EarlyOp
    <2>2. LastCalls(Callee) \in Seq(Op)
      BY <1>9
    <2>3. acceptCall(b) = x \o (h \o LastCalls(Callee))
      BY <1>8, <2>1, <2>2, ConcatAssociative DEF a
    <2>4. h \o LastCalls(Callee) \in Seq(Op)
      BY <2>1, <2>2, ConcatOps
    <2> QED
      BY <1>3, <2>1, <2>3, <2>4, TailJoined
  <1>13. LastCalls(Callee) \in Seq(QuietOp)
    <2>1. exchangeKeys \in Seq(QuietOp)
      BY SizedTypes, ConcatOps DEF exchangeKeys, Kind, Carriers, Answers
    <2>2. initiateIncomingSrtp \in Seq(QuietOp)
      BY LastTypes DEF initiateIncomingSrtp, sendSsrcAndSalt, QuietOp, Answers, send, recv, do
    <2>3. << do("startMedia") >> \in Seq(QuietOp)
      BY OpTypes
    <2> QED
      BY <2>1, <2>2, <2>3, ConcatOps DEF LastCalls, initiateSrtp, Caller, Callee
  <1>14. Tail(acceptCall(b)) \in Seq(QuietOp)
    BY <1>1, <1>12, <1>13, ConcatOps
  <1> QED
    BY <1>10, <1>11, <1>14

-----------------------------------------------------------------------------
(* Which call comes next, by the number of calls left. *)

\* The last calls one by one.
LEMMA LastCallsTable ==
    ASSUME NEW p \in Party
    PROVE  LET e == LastCalls(p) IN
           /\ e[1] = send("SIZE") /\ e[2] = send("DH_KEY")
           /\ e[3] = recv("SIZE") /\ e[4] = recv("DH_KEY")
           /\ p = Caller => /\ e[5] = do("initSender") /\ e[6] = send("SSRC")
                            /\ e[7] = send("SALT") /\ e[8] = recv("SSRC")
                            /\ e[9] = recv("SALT")
           /\ p # Caller => /\ e[5] = recv("SSRC") /\ e[6] = recv("SALT")
                            /\ e[7] = do("initSender") /\ e[8] = send("SSRC")
                            /\ e[9] = send("SALT")
           /\ e[10] = do("initReceiver") /\ e[11] = do("startMedia")
  <1> DEFINE e == LastCalls(p)
             s == initiateSrtp(p)
  <1>1. e[1] = exchangeKeys[1] /\ e[2] = exchangeKeys[2]
        /\ e[3] = exchangeKeys[3] /\ e[4] = exchangeKeys[4]
    BY LastCallsAre
  <1>2. /\ e[5] = s[1] /\ e[6] = s[2] /\ e[7] = s[3] /\ e[8] = s[4] /\ e[9] = s[5]
        /\ e[10] = s[6] /\ e[11] = do("startMedia")
    <2>1. \A i \in 5 .. 10 : e[i] = s[i - 4]
      BY LastCallsAre
    <2> HIDE DEF e, s
    <2>2. /\ e[5] = s[1] /\ e[6] = s[2] /\ e[7] = s[3] /\ e[8] = s[4] /\ e[9] = s[5]
          /\ e[10] = s[6]
      BY <2>1
    <2> QED
      BY <2>2, LastCallsAre DEF e
  <1>3. p = Caller => s = initiateOutgoingSrtp
    BY DEF initiateSrtp
  <1>4. p # Caller => s = initiateIncomingSrtp
    BY DEF initiateSrtp
  <1> HIDE DEF e, s
  <1>5. p = Caller => /\ s[1] = do("initSender") /\ s[2] = send("SSRC")
                      /\ s[3] = send("SALT") /\ s[4] = recv("SSRC")
                      /\ s[5] = recv("SALT") /\ s[6] = do("initReceiver")
    BY <1>3, OutgoingCalls
  <1>6. p # Caller => /\ s[1] = recv("SSRC") /\ s[2] = recv("SALT")
                      /\ s[3] = do("initSender") /\ s[4] = send("SSRC")
                      /\ s[5] = send("SALT") /\ s[6] = do("initReceiver")
    BY <1>4, IncomingCalls
  <1> QED
    BY <1>1, <1>2, <1>5, <1>6, ExchangeCalls DEF e

\* The number of calls left is a natural number, and a position is at most 12.
LEMMA PosType ==
    ASSUME TypeOK, NEW p \in Party
    PROVE  Left(p) \in Nat /\ Pos(p) \in 0 .. 12
  <1>1. todo[p] \in Seq(Op)
    BY DEF TypeOK
  <1>2. Left(p) \in Nat
    BY <1>1 DEF Left
  <1> QED
    BY <1>2 DEF Pos

\* The same after a step.
LEMMA PosTypeNext ==
    ASSUME TypeOK', NEW p \in Party
    PROVE  Left(p)' \in Nat /\ Pos(p)' \in 0 .. 12
  <1>1. todo'[p] \in Seq(Op)
    BY DEF TypeOK
  <1>2. Left(p)' \in Nat
    BY <1>1 DEF Left
  <1> QED
    BY <1>2 DEF Pos

\* The next call, in terms of the last calls.
LEMMA HeadAt ==
    ASSUME TypeOK, ProgramInv, NEW p \in Party, todo[p] # << >>
    PROVE  /\ Pos(p) \in 1 .. 12
           /\ Pos(p) <= 11 => Head(todo[p]) = LastCalls(p)[12 - Pos(p)]
           /\ Pos(p) = 12 => Head(todo[p]) \in EarlyOp
           /\ Pos(p) = 12 /\ Going(p) => Head(todo[p]) \in CallOp
  <1>1. todo[p] \in Seq(Op)
    BY DEF TypeOK
  <1>2. Left(p) \in Nat /\ Left(p) >= 1 /\ Head(todo[p]) = todo[p][1]
    BY <1>1 DEF Left
  <1>3. CASE Going(p)
    <2>1. EndsLike(todo[p], LastCalls(p), CallOp)
      BY <1>3 DEF ProgramInv
    <2>2. Len(LastCalls(p)) = 11
      BY LastCallsAre
    <2>3. IF Left(p) - 1 < 11 THEN todo[p][1] = LastCalls(p)[11 - (Left(p) - 1)]
                              ELSE todo[p][1] \in CallOp
      <3>1. IF Left(p) - 1 < Len(LastCalls(p))
            THEN todo[p][1] = LastCalls(p)[Len(LastCalls(p)) - (Left(p) - 1)]
            ELSE todo[p][1] \in CallOp
        <4>1. 1 \in 1 .. Len(todo[p])
          BY <1>2 DEF Left
        <4> QED
          BY <2>1, <4>1 DEF EndsLike, Left
      <3> QED
        BY <2>2, <3>1
    <2>4. CASE Left(p) <= 11
      <3>1. Pos(p) = Left(p) /\ 11 - (Left(p) - 1) = 12 - Left(p) /\ Left(p) - 1 < 11
        BY <1>2, <1>3, <2>4 DEF Pos
      <3> QED
        BY <1>2, <2>3, <2>4, <3>1
    <2>5. CASE Left(p) > 11
      <3>1. Pos(p) = 12 /\ ~ (Left(p) - 1 < 11)
        BY <1>2, <2>5 DEF Pos
      <3> QED
        BY <1>2, <2>3, <3>1 DEF CallOp
    <2> QED
      BY <1>2, <2>4, <2>5
  <1>4. CASE ~ Going(p)
    <2>1. todo[p] \in Seq(EarlyOp)
      BY <1>4 DEF ProgramInv
    <2>2. Head(todo[p]) \in EarlyOp
      BY <2>1
    <2> QED
      BY <1>4, <2>2 DEF Pos
  <1> QED
    BY <1>3, <1>4

\* How many calls are left tells what the next one is, and the other way round.
LEMMA NextCall ==
    ASSUME TypeOK, ProgramInv, NEW p \in Party, todo[p] # << >>
    PROVE  LET h == Head(todo[p]) IN
           /\ Pos(p) \in 1 .. 12
           /\ h.do = "send" /\ h.kind = "DH_KEY" <=> Pos(p) = 10
           /\ h.do = "recv" /\ h.kind = "DH_KEY" <=> Pos(p) = 8
           /\ h.do = "initSender" <=> Pos(p) = SendSsrcAt(p) + 1
           /\ h.do = "send" /\ h.kind = "SSRC" <=> Pos(p) = SendSsrcAt(p)
           /\ h.do = "send" /\ h.kind = "SALT" <=> Pos(p) + 1 = SendSsrcAt(p)
           /\ h.do = "recv" /\ h.kind = "SSRC" <=> Pos(p) = RecvSsrcAt(p)
           /\ h.do = "recv" /\ h.kind = "SALT" <=> Pos(p) + 1 = RecvSsrcAt(p)
           /\ h.do = "initReceiver" <=> Pos(p) = 2
           /\ h.do = "startMedia" <=> Pos(p) = 1
           /\ h.do = "startKeepAliveWorker" => ~ Going(p)
           /\ h.do = "recv" /\ h.kind = "INTRODUCTION" => ~ Going(p)
           /\ Pos(p) <= 9 /\ h.do = "send" => h.kind \in {"SSRC", "SALT"}
           /\ Pos(p) <= 7 /\ h.do = "recv" => h.kind \in {"SSRC", "SALT"}
  <1> DEFINE h == Head(todo[p])
             e == LastCalls(p)
  <1>1. /\ Pos(p) \in 1 .. 12
        /\ Pos(p) <= 11 => h = e[12 - Pos(p)]
        /\ Pos(p) = 12 => h \in EarlyOp
        /\ Pos(p) = 12 /\ Going(p) => h \in CallOp
    BY HeadAt
  <1>2. /\ e[1] = send("SIZE") /\ e[2] = send("DH_KEY")
        /\ e[3] = recv("SIZE") /\ e[4] = recv("DH_KEY")
        /\ p = Caller => /\ e[5] = do("initSender") /\ e[6] = send("SSRC")
                         /\ e[7] = send("SALT") /\ e[8] = recv("SSRC")
                         /\ e[9] = recv("SALT")
        /\ p # Caller => /\ e[5] = recv("SSRC") /\ e[6] = recv("SALT")
                         /\ e[7] = do("initSender") /\ e[8] = send("SSRC")
                         /\ e[9] = send("SALT")
        /\ e[10] = do("initReceiver") /\ e[11] = do("startMedia")
    BY LastCallsTable
  <1>3. ~ Going(p) => Pos(p) = 12
    BY DEF Pos
  <1> HIDE DEF h, e
  <1>4. CASE Pos(p) = 12
    <2>1. /\ h.do \notin {"initSender", "initReceiver", "startMedia"}
          /\ h.kind \notin {"DH_KEY", "SSRC", "SALT"}
      BY <1>1, <1>4 DEF EarlyOp
    <2>2. Going(p) => /\ h.do # "startKeepAliveWorker"
                      /\ ~ (h.do = "recv" /\ h.kind = "INTRODUCTION")
      <3> SUFFICES ASSUME Going(p), h.do = "recv", h.kind = "INTRODUCTION" PROVE FALSE
        BY <1>1, <1>4 DEF CallOp
      <3>1. h \in Op /\ h # recv("INTRODUCTION")
        BY <1>1, <1>4 DEF CallOp, EarlyOp
      <3> QED
        BY <3>1 DEF Op, recv
    <2> QED
      BY <1>4, <2>1, <2>2 DEF SendSsrcAt, RecvSsrcAt, h
  <1>5. CASE Pos(p) \in 1 .. 11 /\ p = Caller
    <2>1. h = e[12 - Pos(p)] /\ Going(p)
      BY <1>1, <1>3, <1>5
    <2>2. SendSsrcAt(p) = 6 /\ RecvSsrcAt(p) = 4
      BY <1>5 DEF SendSsrcAt, RecvSsrcAt
    <2>3. \/ Pos(p) = 1 /\ h = do("startMedia")
          \/ Pos(p) = 2 /\ h = do("initReceiver")
          \/ Pos(p) = 3 /\ h = recv("SALT")
          \/ Pos(p) = 4 /\ h = recv("SSRC")
          \/ Pos(p) = 5 /\ h = send("SALT")
          \/ Pos(p) = 6 /\ h = send("SSRC")
          \/ Pos(p) = 7 /\ h = do("initSender")
          \/ Pos(p) = 8 /\ h = recv("DH_KEY")
          \/ Pos(p) = 9 /\ h = recv("SIZE")
          \/ Pos(p) = 10 /\ h = send("DH_KEY")
          \/ Pos(p) = 11 /\ h = send("SIZE")
      <3>1. /\ (Pos(p) = 1 => h = e[11]) /\ (Pos(p) = 2 => h = e[10])
            /\ (Pos(p) = 3 => h = e[9]) /\ (Pos(p) = 4 => h = e[8])
            /\ (Pos(p) = 5 => h = e[7]) /\ (Pos(p) = 6 => h = e[6])
            /\ (Pos(p) = 7 => h = e[5]) /\ (Pos(p) = 8 => h = e[4])
            /\ (Pos(p) = 9 => h = e[3]) /\ (Pos(p) = 10 => h = e[2])
            /\ Pos(p) = 11 => h = e[1]
        BY <2>1
      <3>2. /\ e[1] = send("SIZE") /\ e[2] = send("DH_KEY")
            /\ e[3] = recv("SIZE") /\ e[4] = recv("DH_KEY")
            /\ e[10] = do("initReceiver") /\ e[11] = do("startMedia")
            /\ e[5] = do("initSender") /\ e[6] = send("SSRC")
            /\ e[7] = send("SALT") /\ e[8] = recv("SSRC") /\ e[9] = recv("SALT")
        BY <1>2, <1>5
      <3>3. \/ Pos(p) = 1 \/ Pos(p) = 2 \/ Pos(p) = 3 \/ Pos(p) = 4 \/ Pos(p) = 5
            \/ Pos(p) = 6 \/ Pos(p) = 7 \/ Pos(p) = 8 \/ Pos(p) = 9 \/ Pos(p) = 10
            \/ Pos(p) = 11
        BY <1>5
      <3> QED
        BY <3>1, <3>2, <3>3
    <2> QED
      BY <1>5, <2>1, <2>2, <2>3 DEF send, recv, do, h
  <1>6. CASE Pos(p) \in 1 .. 11 /\ p # Caller
    <2>1. h = e[12 - Pos(p)] /\ Going(p)
      BY <1>1, <1>3, <1>6
    <2>2. SendSsrcAt(p) = 4 /\ RecvSsrcAt(p) = 7
      BY <1>6 DEF SendSsrcAt, RecvSsrcAt
    <2>3. \/ Pos(p) = 1 /\ h = do("startMedia")
          \/ Pos(p) = 2 /\ h = do("initReceiver")
          \/ Pos(p) = 3 /\ h = send("SALT")
          \/ Pos(p) = 4 /\ h = send("SSRC")
          \/ Pos(p) = 5 /\ h = do("initSender")
          \/ Pos(p) = 6 /\ h = recv("SALT")
          \/ Pos(p) = 7 /\ h = recv("SSRC")
          \/ Pos(p) = 8 /\ h = recv("DH_KEY")
          \/ Pos(p) = 9 /\ h = recv("SIZE")
          \/ Pos(p) = 10 /\ h = send("DH_KEY")
          \/ Pos(p) = 11 /\ h = send("SIZE")
      <3>1. /\ (Pos(p) = 1 => h = e[11]) /\ (Pos(p) = 2 => h = e[10])
            /\ (Pos(p) = 3 => h = e[9]) /\ (Pos(p) = 4 => h = e[8])
            /\ (Pos(p) = 5 => h = e[7]) /\ (Pos(p) = 6 => h = e[6])
            /\ (Pos(p) = 7 => h = e[5]) /\ (Pos(p) = 8 => h = e[4])
            /\ (Pos(p) = 9 => h = e[3]) /\ (Pos(p) = 10 => h = e[2])
            /\ Pos(p) = 11 => h = e[1]
        BY <2>1
      <3>2. /\ e[1] = send("SIZE") /\ e[2] = send("DH_KEY")
            /\ e[3] = recv("SIZE") /\ e[4] = recv("DH_KEY")
            /\ e[10] = do("initReceiver") /\ e[11] = do("startMedia")
            /\ e[5] = recv("SSRC") /\ e[6] = recv("SALT")
            /\ e[7] = do("initSender") /\ e[8] = send("SSRC") /\ e[9] = send("SALT")
        BY <1>2, <1>6
      <3>3. \/ Pos(p) = 1 \/ Pos(p) = 2 \/ Pos(p) = 3 \/ Pos(p) = 4 \/ Pos(p) = 5
            \/ Pos(p) = 6 \/ Pos(p) = 7 \/ Pos(p) = 8 \/ Pos(p) = 9 \/ Pos(p) = 10
            \/ Pos(p) = 11
        BY <1>6
      <3> QED
        BY <3>1, <3>2, <3>3
    <2> QED
      BY <1>6, <2>1, <2>2, <2>3 DEF send, recv, do, h
  <1> QED
    BY <1>1, <1>4, <1>5, <1>6

-----------------------------------------------------------------------------
(* What a step of a call thread does, whatever its action. *)

\* A step of the call thread of p; a read that times out is one too.
ThreadStep(p) == CallThread(p) \/ (p = Caller /\ readTimesOut)

\* The list of calls of p is shortened by one call, or by the two writes of
\* sendSsrcAndSalt; isOtherPartyIntroducing may add the calls of an introduction.
LEMMA ThreadTodo ==
    ASSUME TypeOK, NEW p \in Party, ThreadStep(p)
    PROVE  LET h == Head(todo[p]) IN
           \/ UNCHANGED todo
           \/ /\ todo[p] # << >>
              /\ todo' = [todo EXCEPT ![p] = SubSeq(@, 2, Len(@))]
           \/ /\ todo[p] # << >> /\ h.do = "send" /\ h.kind = "SSRC"
              /\ todo' = [todo EXCEPT ![p] = SubSeq(@, 3, Len(@))]
           \/ /\ todo[p] # << >> /\ h.do = "recv" /\ h.kind = "INTRODUCTION"
              /\ todo' = [todo EXCEPT ![p] = receiveAndSetPublicKey \o Tail(@)]
  <1>0. ASSUME todo[p] # << >>, Advance(p)
        PROVE  todo' = [todo EXCEPT ![p] = SubSeq(@, 2, Len(@))]
    <2>1. todo[p] \in Seq(Op)
      BY DEF TypeOK
    <2>2. Tail(todo[p]) = SubSeq(todo[p], 2, Len(todo[p]))
      BY <1>0, <2>1, TailIsSubSeq
    <2> QED
      BY <1>0, <2>2 DEF Advance
  <1>1. CASE sendMessage(p)
    BY <1>0, <1>1 DEF sendMessage, Doing
  <1>2. CASE sendFails(p)
    BY <1>2 DEF sendFails, Doing, Fail, Current
  <1>3. CASE receiveMessage(p) \/ handleIncomingRequestForIntroduction(p)
             \/ receiveSsrc(p) \/ receiveSalt(p)
    BY <1>0, <1>3 DEF receiveMessage, handleIncomingRequestForIntroduction, receiveSsrc,
                      receiveSalt, Reading, Doing
  <1>4. CASE receiveAnswer(p)
    BY <1>0, <1>4 DEF receiveAnswer, Reading, Doing
  <1>5. CASE isOtherPartyIntroducing(p)
    BY <1>0, <1>5 DEF isOtherPartyIntroducing, Reading, Doing, Advance, Current
  <1>6. CASE receiveWrongMessage(p) \/ endOfStream(p)
    BY <1>0, <1>6 DEF receiveWrongMessage, endOfStream, ReadError, Fail, Doing
  <1>7. CASE \/ validateKeyAgainstExpected(p) \/ setPublicKey(p)
             \/ initSender(p) \/ initReceiver(p) \/ startMedia(p)
             \/ returnFromReject(p) \/ startKeepAliveWorker(p)
    BY <1>0, <1>7
       DEF validateKeyAgainstExpected, setPublicKey, initSender, initReceiver,
           startMedia, returnFromReject, startKeepAliveWorker, Fail, Doing
  <1>8. CASE p = Caller /\ readTimesOut
    BY <1>0, <1>8 DEF readTimesOut, ReadError, Fail, Doing
  <1> QED
    BY <1>1, <1>2, <1>3, <1>4, <1>5, <1>6, <1>7, <1>8 DEF ThreadStep, CallThread

\* A call thread works on the state of its own party.
LEMMA ThreadFrame ==
    ASSUME TypeOK, NEW p \in Party, ThreadStep(p), NEW r \in Party, r # p
    PROVE  /\ todo'[r] = todo[r] /\ status'[r] = status[r] /\ got'[r] = got[r]
           /\ keys'[r] = keys[r] /\ sendCtx'[r] = sendCtx[r] /\ recvCtx'[r] = recvCtx[r]
           /\ UNCHANGED <<link, running, strays, callInfo>>
  <1> USE DEF callVars, workerVars
  <1>0. /\ todo \in [Party -> Seq(Op)] /\ status \in [Party -> Status]
        /\ got \in [Party -> [Received -> Value]] /\ keys \in [Party -> [tx: Keys, rx: Keys]]
        /\ sendCtx \in [Party -> Context] /\ recvCtx \in [Party -> Context]
    BY DEF TypeOK
  <1>1. todo'[r] = todo[r]
    BY <1>0, ThreadTodo
  <1>2. CASE sendMessage(p) \/ sendFails(p)
    BY <1>0, <1>1, <1>2 DEF sendMessage, sendFails, Fail
  <1>3. CASE receiveMessage(p) \/ handleIncomingRequestForIntroduction(p)
    BY <1>0, <1>1, <1>3 DEF receiveMessage, handleIncomingRequestForIntroduction
  <1>4. CASE receiveSsrc(p) \/ receiveSalt(p)
    BY <1>0, <1>1, <1>4 DEF receiveSsrc, receiveSalt
  <1>5. CASE isOtherPartyIntroducing(p) \/ receiveAnswer(p)
    BY <1>0, <1>1, <1>5 DEF isOtherPartyIntroducing, receiveAnswer
  <1>6. CASE receiveWrongMessage(p) \/ endOfStream(p)
    BY <1>0, <1>1, <1>6 DEF receiveWrongMessage, endOfStream, ReadError, Fail
  <1>7. CASE \/ validateKeyAgainstExpected(p) \/ setPublicKey(p)
             \/ initSender(p) \/ initReceiver(p) \/ startMedia(p)
             \/ returnFromReject(p) \/ startKeepAliveWorker(p)
    BY <1>0, <1>1, <1>7
       DEF validateKeyAgainstExpected, setPublicKey, initSender, initReceiver,
           startMedia, returnFromReject, startKeepAliveWorker, Fail
  <1>8. CASE p = Caller /\ readTimesOut
    BY <1>0, <1>1, <1>8 DEF readTimesOut, ReadError, Fail
  <1> QED
    BY <1>2, <1>3, <1>4, <1>5, <1>6, <1>7, <1>8 DEF ThreadStep, CallThread

\* The receiving context of p is set by initReceiver only, from what p has read.
LEMMA ThreadRecvCtx ==
    ASSUME TypeOK, NEW p \in Party, ThreadStep(p), recvCtx'[p] # recvCtx[p]
    PROVE  /\ Doing(p, "initReceiver") /\ got[p]["SALT"] # None
           /\ UNCHANGED <<got, sendCtx, keys, chan, status>>
           /\ recvCtx'[p] = [key |-> keys[p].rx, ssrc |-> got[p]["SSRC"],
                             salt |-> got[p]["SALT"]]
           /\ recvCtx'[p] # NoContext
  <1> USE DEF callVars
  <1>1. recvCtx' # recvCtx
    OBVIOUS
  <1>2. initReceiver(p)
    <2>1. CASE p = Caller /\ readTimesOut
      BY <1>1, <2>1 DEF readTimesOut, ReadError, Fail
    <2>2. CASE CallThread(p)
      BY <1>1, <2>2
         DEF CallThread, sendMessage, sendFails, receiveMessage, receiveWrongMessage,
             endOfStream, isOtherPartyIntroducing, handleIncomingRequestForIntroduction,
             receiveAnswer, receiveSsrc, receiveSalt, validateKeyAgainstExpected,
             setPublicKey, initSender, startMedia, returnFromReject,
             startKeepAliveWorker, ReadError, Fail
    <2> QED
      BY <2>1, <2>2 DEF ThreadStep
  <1>3. got[p]["SALT"] # None
    BY <1>1, <1>2 DEF initReceiver, Fail
  <1> DEFINE c == [key |-> keys[p].rx, ssrc |-> got[p]["SSRC"], salt |-> got[p]["SALT"]]
  <1>4. /\ recvCtx' = [recvCtx EXCEPT ![p] = c]
        /\ UNCHANGED <<got, sendCtx, keys, chan, status>>
    BY <1>2, <1>3 DEF initReceiver
  <1>5. c # NoContext
    <2>1. c.salt # NoContext.salt
      BY <1>3 DEF NoContext
    <2> QED
      BY <2>1
  <1>6. recvCtx'[p] = c
    BY <1>4 DEF TypeOK
  <1> QED
    BY <1>2, <1>3, <1>4, <1>5, <1>6 DEF initReceiver

-----------------------------------------------------------------------------
(* How the positions move. *)

\* The program of p as ProgramInv has it.
Program(p) == IF Going(p) THEN EndsLike(todo[p], LastCalls(p), CallOp)
                          ELSE todo[p] \in Seq(EarlyOp)

\* A list of early calls does not end in startMedia.
LEMMA EarlyEnd ==
    ASSUME NEW s \in Seq(EarlyOp), s # << >>
    PROVE  s[Len(s)] # do("startMedia")
  <1>1. s[Len(s)] \in EarlyOp
    OBVIOUS
  <1> QED
    BY <1>1 DEF EarlyOp, do

\* A list that ends like the last calls ends in startMedia.
LEMMA LastEnd ==
    ASSUME NEW p \in Party, NEW s \in Seq(Op), s # << >>,
           EndsLike(s, LastCalls(p), CallOp)
    PROVE  s[Len(s)] = do("startMedia")
  <1>1. Len(s) \in Nat /\ Len(s) \in 1 .. Len(s) /\ Len(s) - Len(s) = 0
    OBVIOUS
  <1>2. Len(LastCalls(p)) = 11 /\ LastCalls(p)[11] = do("startMedia")
    BY LastCallsAre
  <1>3. IF Len(s) - Len(s) < Len(LastCalls(p))
        THEN s[Len(s)] = LastCalls(p)[Len(LastCalls(p)) - (Len(s) - Len(s))]
        ELSE s[Len(s)] \in CallOp
    BY <1>1 DEF EndsLike
  <1> QED
    BY <1>1, <1>2, <1>3

\* A party that drops its first k calls stays where its program leads it.
LEMMA ProgramDrops ==
    ASSUME TypeOK, NEW p \in Party, Program(p), NEW k \in 1 .. 2, Left(p) >= k,
           todo'[p] = SubSeq(todo[p], k + 1, Len(todo[p])),
           Going(p) /\ Left(p) = k => recvCtx'[p] # NoContext,
           recvCtx'[p] # NoContext => Going(p)
    PROVE  /\ Program(p)' /\ Left(p)' = Left(p) - k
           /\ Going(p)' <=> Going(p)
  <1> DEFINE s == todo[p]
             t == todo'[p]
  <1>1. s \in Seq(Op) /\ Len(s) \in Nat /\ k + 1 \in 1 .. Len(s) + 1
    BY DEF TypeOK, Left
  <1>2. t \in Seq(Op) /\ Len(t) = Len(s) - k /\ \A i \in 1 .. Len(t) : t[i] = s[k + i]
    <2>1. t = SubSeq(s, k + 1, Len(s))
      OBVIOUS
    <2> HIDE DEF s, t
    <2>2. t \in Seq(Op) /\ Len(t) = Len(s) - k
      BY <1>1, <2>1
    <2>3. \A i \in 1 .. Len(t) : t[i] = s[k + i]
      BY <1>1, <2>1, <2>2
    <2> QED
      BY <2>2, <2>3
  <1>3. Left(p)' = Left(p) - k
    BY <1>2 DEF Left
  <1>4. CASE Going(p)
    <2>1. EndsLike(s, LastCalls(p), CallOp)
      BY <1>4 DEF Program
    <2>2. Len(LastCalls(p)) \in Nat
      BY LastCallsAre
    <2>3. EndsLike(t, LastCalls(p), CallOp)
      BY <1>1, <2>1, <2>2, EndsDrop
    <2>4. Going(p)'
      <3>1. CASE Len(s) = k
        BY <1>4, <3>1 DEF Going, Left
      <3>2. CASE Len(s) # k
        <4>1. t # << >>
          <5>1. Len(s) >= k
            BY DEF Left
          <5> HIDE DEF s, t
          <5>2. Len(t) # 0
            BY <1>1, <1>2, <3>2, <5>1
          <5> QED
            BY <5>2
        <4>2. t[Len(t)] = do("startMedia")
          BY <1>2, <2>3, <4>1, LastEnd
        <4> QED
          BY <4>1, <4>2 DEF Going, Left
      <3> QED
        BY <3>1, <3>2
    <2>5. Program(p)'
      BY <2>3, <2>4 DEF Program, LastCalls, initiateSrtp
    <2> QED
      BY <1>3, <1>4, <2>4, <2>5
  <1>5. CASE ~ Going(p)
    <2>1. s \in Seq(EarlyOp)
      BY <1>5 DEF Program
    <2>2. t \in Seq(EarlyOp)
      <3>1. t = SubSeq(s, k + 1, Len(s))
        OBVIOUS
      <3> HIDE DEF s, t
      <3> QED
        BY <1>1, <2>1, <3>1
    <2>3. ~ Going(p)'
      <3>1. recvCtx'[p] = NoContext
        BY <1>5
      <3>2. t # << >> => t[Len(t)] # do("startMedia")
        BY <2>2, EarlyEnd
      <3> QED
        BY <3>1, <3>2 DEF Going, Left, NoContext, NoSrtpKey, SrtpKey
    <2> QED
      BY <1>3, <1>5, <2>2, <2>3 DEF Program
  <1> QED
    BY <1>4, <1>5

\* A thread step moves its own party forward and leaves the other where it is.
LEMMA ThreadPos ==
    ASSUME TypeOK, TypeOK', ProgramInv, DoneInv, NEW p \in Party, ThreadStep(p)
    PROVE  /\ ProgramInv'
           /\ \A r \in Party : Going(r)' <=> Going(r)
           /\ \A r \in Party : r # p => Pos(r)' = Pos(r) /\ Left(r)' = Left(r)
           /\ Going(p) => Left(p)' <= Left(p)
           /\ \/ Pos(p)' = Pos(p)
              \/ Pos(p)' = Pos(p) - 1
              \/ Pos(p) = SendSsrcAt(p) /\ Pos(p)' = Pos(p) - 2
           /\ UNCHANGED todo => Pos(p)' = Pos(p)
           /\ Advance(p) /\ todo[p] # << >> /\ Pos(p) <= 11 => Pos(p)' = Pos(p) - 1
  <1> DEFINE h == Head(todo[p])
  <1>0. Left(p) \in Nat /\ Pos(p) \in 0 .. 12 /\ Program(p)
    BY PosType DEF ProgramInv, Program
  <1>1. ASSUME NEW r \in Party, r # p
        PROVE  /\ Program(r)' /\ (Going(r)' <=> Going(r))
               /\ Pos(r)' = Pos(r) /\ Left(r)' = Left(r)
    <2>1. todo'[r] = todo[r] /\ recvCtx'[r] = recvCtx[r]
      BY <1>1, ThreadFrame
    <2>2. (Going(r)' <=> Going(r)) /\ Left(r)' = Left(r)
      BY <2>1 DEF Going, Left, NoContext, NoSrtpKey, SrtpKey
    <2>3. Program(r)
      BY <1>1 DEF ProgramInv, Program
    <2> QED
      BY <2>1, <2>2, <2>3 DEF Pos, Program, LastCalls, initiateSrtp
  <1>2. /\ recvCtx'[p] # NoContext => Going(p)
        /\ recvCtx[p] # NoContext => recvCtx'[p] # NoContext
        /\ recvCtx'[p] # recvCtx[p] => todo[p] # << >> /\ Pos(p) = 2
    <2>1. CASE recvCtx'[p] = recvCtx[p]
      BY <2>1 DEF Going
    <2>2. CASE recvCtx'[p] # recvCtx[p]
      <3>1. Doing(p, "initReceiver") /\ recvCtx'[p] # NoContext
        BY <2>2, ThreadRecvCtx
      <3>2. todo[p] # << >> /\ h.do = "initReceiver"
        BY <3>1 DEF Doing
      <3>3. Pos(p) = 2
        BY <3>2, NextCall
      <3>4. Going(p)
        BY <3>3 DEF Pos
      <3> QED
        BY <3>1, <3>2, <3>3, <3>4
    <2> QED
      BY <2>1, <2>2
  <1>3. CASE UNCHANGED todo
    <2>1. Left(p)' = Left(p)
      BY <1>3 DEF Left
    <2>2. Going(p)' <=> Going(p)
      BY <1>2, <1>3 DEF Going, Left, NoContext, NoSrtpKey, SrtpKey
    <2>3. Pos(p)' = Pos(p)
      BY <2>1, <2>2 DEF Pos
    <2>4. Program(p)'
      BY <1>0, <1>3, <2>2 DEF Program, LastCalls, initiateSrtp
    <2>5. Advance(p) /\ todo[p] # << >> => FALSE
      <3> SUFFICES ASSUME Advance(p), todo[p] # << >> PROVE FALSE
        OBVIOUS
      <3>1. todo[p] \in Seq(Op)
        BY DEF TypeOK
      <3>2. todo'[p] = Tail(todo[p])
        BY DEF Advance, TypeOK
      <3>3. Len(Tail(todo[p])) = Len(todo[p]) - 1 /\ Len(todo[p]) \in Nat
        BY <3>1
      <3>4. Len(todo'[p]) = Len(todo[p])
        BY <1>3
      <3>5. Len(todo'[p]) = Len(todo[p]) - 1
        BY <3>2, <3>3
      <3> HIDE DEF h
      <3> QED
        BY <3>3, <3>4, <3>5
    <2> QED
      BY <1>0, <1>1, <2>1, <2>2, <2>3, <2>4, <2>5 DEF ProgramInv, Program
  <1>4. CASE todo[p] # << >> /\ todo' = [todo EXCEPT ![p] = SubSeq(@, 2, Len(@))]
    <2>1. Left(p) >= 1
      BY <1>4 DEF TypeOK, Left
    <2>2. todo'[p] = SubSeq(todo[p], 1 + 1, Len(todo[p]))
      BY <1>4 DEF TypeOK
    <2>3. Going(p) /\ Left(p) = 1 => recvCtx'[p] # NoContext
      <3>1. Going(p) /\ Left(p) = 1 => Pos(p) = 1
        BY DEF Pos
      <3>2. Pos(p) = 1 => recvCtx[p] # NoContext
        BY DEF DoneInv, ReceiverDone
      <3> QED
        BY <1>2, <3>1, <3>2
    <2>4. Program(p)' /\ Left(p)' = Left(p) - 1 /\ (Going(p)' <=> Going(p))
      BY <1>0, <1>2, <2>1, <2>2, <2>3, ProgramDrops
    <2>5. /\ Pos(p) <= 11 => Pos(p)' = Pos(p) - 1
          /\ Pos(p)' = Pos(p) \/ Pos(p)' = Pos(p) - 1
      BY <1>0, <2>1, <2>4 DEF Pos
    <2>6. todo' # todo
      BY <1>0, <2>4 DEF Left
    <2> QED
      BY <1>0, <1>1, <2>4, <2>5, <2>6 DEF ProgramInv, Program
  <1>5. CASE /\ todo[p] # << >> /\ h.do = "send" /\ h.kind = "SSRC"
             /\ todo' = [todo EXCEPT ![p] = SubSeq(@, 3, Len(@))]
    <2>1. Pos(p) = SendSsrcAt(p)
      BY <1>5, NextCall
    <2>2. Pos(p) >= 4 /\ Pos(p) <= 6
      BY <2>1 DEF SendSsrcAt
    <2>3. Left(p) = Pos(p) /\ Going(p)
      BY <1>0, <2>2 DEF Pos
    <2>4. todo'[p] = SubSeq(todo[p], 2 + 1, Len(todo[p]))
      BY <1>5 DEF TypeOK
    <2>5. Program(p)' /\ Left(p)' = Left(p) - 2 /\ (Going(p)' <=> Going(p))
      BY <1>0, <1>2, <2>2, <2>3, <2>4, ProgramDrops
    <2>6. Pos(p)' = Pos(p) - 2
      BY <1>0, <2>2, <2>3, <2>5 DEF Pos
    <2>7. todo' # todo /\ ~ Advance(p)
      <3>1. todo[p] \in Seq(Op) /\ Len(todo[p]) >= 4
        BY <2>2, <2>3 DEF TypeOK, Left
      <3>2. Len(Tail(todo[p])) = Len(todo[p]) - 1 /\ Len(todo[p]) \in Nat
        BY <3>1
      <3>3. Advance(p) => todo'[p] = Tail(todo[p])
        BY DEF Advance, TypeOK
      <3>4. Len(todo'[p]) = Len(todo[p]) - 2
        BY <2>5 DEF Left
      <3>5. Len(todo'[p]) # Len(todo[p]) /\ Len(todo'[p]) # Len(todo[p]) - 1
        <4>1. \A n \in Nat : n - 2 # n /\ n - 2 # n - 1
          OBVIOUS
        <4> QED
          BY <3>2, <3>4, <4>1
      <3>6. Advance(p) => Len(todo'[p]) = Len(todo[p]) - 1
        BY <3>2, <3>3
      <3> QED
        BY <3>5, <3>6
    <2> QED
      BY <1>0, <1>1, <2>1, <2>2, <2>3, <2>5, <2>6, <2>7 DEF ProgramInv, Program
  <1>6. CASE /\ todo[p] # << >> /\ h.do = "recv" /\ h.kind = "INTRODUCTION"
             /\ todo' = [todo EXCEPT ![p] = receiveAndSetPublicKey \o Tail(@)]
    <2>1. ~ Going(p)
      BY <1>6, NextCall
    <2>2. todo[p] \in Seq(EarlyOp)
      BY <1>0, <2>1 DEF Program
    <2>3. Tail(todo[p]) \in Seq(EarlyOp)
      BY <1>6, <2>2
    <2>4. receiveAndSetPublicKey \o Tail(todo[p]) \in Seq(EarlyOp)
      BY <2>3, IntroductionEarly, CallIsEarly, ConcatOps
    <2>5. todo'[p] \in Seq(EarlyOp)
      BY <1>6, <2>4 DEF TypeOK
    <2>6. ~ Going(p)'
      <3>1. recvCtx'[p] = NoContext
        BY <1>2, <2>1
      <3>2. todo'[p] # << >> => todo'[p][Len(todo'[p])] # do("startMedia")
        BY <2>5, EarlyEnd
      <3> QED
        BY <3>1, <3>2 DEF Going, Left, NoContext, NoSrtpKey, SrtpKey
    <2>7. Pos(p) = 12 /\ Pos(p)' = 12
      BY <2>1, <2>6 DEF Pos
    <2> QED
      BY <1>0, <1>1, <2>1, <2>5, <2>6, <2>7 DEF ProgramInv, Program
  <1> QED
    BY <1>3, <1>4, <1>5, <1>6, ThreadTodo

-----------------------------------------------------------------------------
(* DoneInv is preserved by the call threads. *)

\* The next call of p decides which actions p's thread can take.
LEMMA ActionOf ==
    ASSUME NEW p \in Party, ThreadStep(p)
    PROVE  LET h == Head(todo[p]) IN
           /\ todo[p] # << >> /\ status[p] = "running"
           /\ h.do = "send" => sendMessage(p) \/ sendFails(p)
           /\ h.do = "initSender" => initSender(p)
           /\ h.do = "initReceiver" => initReceiver(p)
           /\ h.do = "startMedia" => startMedia(p)
           /\ h.do = "recv" /\ h.kind = "DH_KEY" =>
                 receiveMessage(p) \/ (UNCHANGED <<todo, chan, got, keys>> /\ Fail(p))
           /\ h.do = "recv" /\ h.kind = "SSRC" =>
                 receiveSsrc(p) \/ endOfStream(p) \/ (p = Caller /\ readTimesOut)
           /\ h.do = "recv" /\ h.kind = "SALT" =>
                 receiveSalt(p) \/ endOfStream(p) \/ (p = Caller /\ readTimesOut)
  <1> DEFINE h == Head(todo[p])
  <1>1. CASE sendMessage(p) \/ sendFails(p)
    BY <1>1 DEF sendMessage, sendFails, Doing
  <1>2. CASE receiveMessage(p)
    BY <1>2 DEF receiveMessage, Reading, Doing, Choices, Current
  <1>3. CASE receiveWrongMessage(p)
    BY <1>3 DEF receiveWrongMessage, Acceptable, Fail, Doing, Current, callVars
  <1>4. CASE endOfStream(p) \/ (p = Caller /\ readTimesOut)
    BY <1>4 DEF endOfStream, readTimesOut, ReadError, Fail, Doing, Current, callVars
  <1>5. CASE isOtherPartyIntroducing(p) \/ handleIncomingRequestForIntroduction(p)
             \/ receiveAnswer(p)
    BY <1>5 DEF isOtherPartyIntroducing, handleIncomingRequestForIntroduction,
                receiveAnswer, Reading, Doing, Current
  <1>6. CASE receiveSsrc(p) \/ receiveSalt(p)
    BY <1>6 DEF receiveSsrc, receiveSalt, Reading, Doing, Current
  <1>7. CASE \/ validateKeyAgainstExpected(p) \/ setPublicKey(p)
             \/ initSender(p) \/ initReceiver(p) \/ startMedia(p)
             \/ returnFromReject(p) \/ startKeepAliveWorker(p)
    BY <1>7 DEF validateKeyAgainstExpected, setPublicKey, initSender, initReceiver,
                startMedia, returnFromReject, startKeepAliveWorker, Doing
  <1> QED
    BY <1>1, <1>2, <1>3, <1>4, <1>5, <1>6, <1>7 DEF ThreadStep, CallThread

\* The keys of p are set when p reads the Diffie-Hellman key, which is the other's.
LEMMA ThreadKeys ==
    ASSUME TypeOK, MessageOrigin, NEW p \in Party, ThreadStep(p)
    PROVE  /\ Head(todo[p]).do = "recv" /\ Head(todo[p]).kind = "DH_KEY" /\ todo' # todo =>
                  keys'[p] = DerivedKeys(p, Other(p))
           /\ ~ (Head(todo[p]).do = "recv" /\ Head(todo[p]).kind = "DH_KEY") =>
                  keys'[p] = keys[p]
  <1> USE DEF callVars
  <1>1. ASSUME receiveMessage(p), Current(p) = "DH_KEY"
        PROVE  keys'[p] = DerivedKeys(p, Other(p))
    <2> DEFINE m == Head(Inbox(p))
    <2>1. keys' = [keys EXCEPT ![p] = DerivedKeys(p, m.val)]
      BY <1>1 DEF receiveMessage
    <2>2. m.kind = "DH_KEY"
      BY <1>1 DEF receiveMessage, Reading, Acceptable
    <2>3. m \in OwnMessage(Other(p))
      <3>1. Inbox(p) \in Seq(OwnMessage(Other(p)))
        BY OtherParty DEF MessageOrigin, Inbox
      <3>2. Inbox(p) # << >>
        BY <1>1, AvailableMeans DEF receiveMessage, Reading
      <3> QED
        BY <3>1, <3>2
    <2>4. m.val = Other(p)
      BY <2>2, <2>3 DEF OwnMessage, Carriers
    <2> QED
      BY <2>1, <2>4 DEF TypeOK
  <1>2. Head(todo[p]).do = "recv" /\ Head(todo[p]).kind = "DH_KEY" /\ todo' # todo =>
            keys'[p] = DerivedKeys(p, Other(p))
    BY <1>1, ActionOf DEF Current, Fail
  <1>3. keys' # keys => receiveMessage(p) /\ Current(p) = "DH_KEY"
    BY DEF ThreadStep, readTimesOut, CallThread, sendMessage, sendFails, receiveMessage,
           receiveWrongMessage, endOfStream,
           isOtherPartyIntroducing, handleIncomingRequestForIntroduction,
           receiveAnswer, receiveSsrc, receiveSalt, validateKeyAgainstExpected,
           setPublicKey, initSender, initReceiver, startMedia, returnFromReject,
           startKeepAliveWorker, ReadError, Fail
  <1>4. receiveMessage(p) => Head(todo[p]).do = "recv"
    BY DEF receiveMessage, Reading, Doing
  <1> QED
    BY <1>2, <1>3, <1>4 DEF Current

\* The sending context of p is set by initSender.
LEMMA ThreadSendCtx ==
    ASSUME TypeOK, NEW p \in Party, ThreadStep(p)
    PROVE  /\ Head(todo[p]).do = "initSender" => 
                  /\ sendCtx'[p] = [key |-> keys[p].tx, ssrc |-> p, salt |-> p]
                  /\ UNCHANGED keys
           /\ Head(todo[p]).do # "initSender" => UNCHANGED sendCtx
  <1> USE DEF callVars
  <1>1. Head(todo[p]).do = "initSender" => initSender(p)
    BY ActionOf
  <1>2. sendCtx' # sendCtx => initSender(p)
    BY DEF ThreadStep, readTimesOut, CallThread, sendMessage, sendFails, receiveMessage,
           receiveWrongMessage, endOfStream,
           isOtherPartyIntroducing, handleIncomingRequestForIntroduction,
           receiveAnswer, receiveSsrc, receiveSalt, validateKeyAgainstExpected,
           setPublicKey, initReceiver, startMedia, returnFromReject,
           startKeepAliveWorker, ReadError, Fail
  <1>3. initSender(p) => /\ sendCtx'[p] = [key |-> keys[p].tx, ssrc |-> p, salt |-> p]
                         /\ UNCHANGED keys
    BY DEF initSender, TypeOK
  <1>4. initSender(p) => Head(todo[p]).do = "initSender"
    BY DEF initSender, Doing
  <1> QED
    BY <1>1, <1>2, <1>3, <1>4

\* What p has got as the salt is set by the read of the salt.
LEMMA ThreadSalt ==
    ASSUME TypeOK, NEW p \in Party, ThreadStep(p),
           ~ (Head(todo[p]).do = "recv" /\ Head(todo[p]).kind = "SALT")
    PROVE  got'[p]["SALT"] = got[p]["SALT"]
  <1> USE DEF callVars
  <1>0. got \in [Party -> [Received -> Value]] /\ "SALT" \in Received
    BY DEF TypeOK, Received
  <1>1. CASE receiveMessage(p)
    <2>1. Current(p) # "SALT"
      BY <1>1 DEF receiveMessage, Reading, Choices
    <2> QED
      BY <1>0, <1>1, <2>1 DEF receiveMessage
  <1>2. CASE receiveSsrc(p)
    BY <1>0, <1>2 DEF receiveSsrc
  <1>3. CASE receiveSalt(p)
    BY <1>3 DEF receiveSalt, Reading, Doing, Current
  <1>4. CASE endOfStream(p) \/ (p = Caller /\ readTimesOut)
    <2>1. Current(p) # "SALT"
      BY <1>4 DEF endOfStream, readTimesOut, Doing, Current
    <2> QED
      BY <1>0, <1>4, <2>1 DEF endOfStream, readTimesOut, ReadError, Fail
  <1>5. CASE UNCHANGED got
    BY <1>5
  <1> QED
    BY <1>1, <1>2, <1>3, <1>4, <1>5
       DEF ThreadStep, CallThread, sendMessage, sendFails,
           receiveWrongMessage,
           isOtherPartyIntroducing, handleIncomingRequestForIntroduction,
           receiveAnswer, validateKeyAgainstExpected,
           setPublicKey, initSender, initReceiver, startMedia, returnFromReject,
           startKeepAliveWorker, Fail

\* The status of p becomes "ongoing" by startMedia only.
LEMMA ThreadStatus ==
    ASSUME TypeOK, NEW p \in Party, ThreadStep(p)
    PROVE  /\ status'[p] = "ongoing" => startMedia(p)
           /\ status'[p] = "initialized" => Head(todo[p]).do = "startKeepAliveWorker"
  <1>0. status \in [Party -> Status] /\ status[p] = "running"
    BY ActionOf DEF TypeOK
  <1>1. CASE startMedia(p)
    BY <1>0, <1>1 DEF startMedia
  <1>2. CASE startKeepAliveWorker(p)
    BY <1>0, <1>2 DEF startKeepAliveWorker, Doing
  <1>3. CASE returnFromReject(p)
    BY <1>0, <1>3 DEF returnFromReject
  <1>4. CASE Fail(p)
    BY <1>0, <1>4 DEF Fail
  <1>5. CASE UNCHANGED status
    BY <1>0, <1>5
  <1> QED
    BY <1>1, <1>2, <1>3, <1>4, <1>5
       DEF ThreadStep, readTimesOut, CallThread, sendMessage, sendFails, receiveMessage,
           receiveWrongMessage, endOfStream,
           isOtherPartyIntroducing, handleIncomingRequestForIntroduction,
           receiveAnswer, receiveSsrc, receiveSalt, validateKeyAgainstExpected,
           setPublicKey, initSender, initReceiver, ReadError

\* A step of a call thread keeps what its party and the other one have done.
LEMMA DoneThread ==
    ASSUME TypeOK, TypeOK', MessageOrigin, ProgramInv, DoneInv, NEW p \in Party,
           ThreadStep(p)
    PROVE  DoneInv'
  <1> DEFINE h == Head(todo[p])
  <1>0. /\ Pos(p) \in 0 .. 12 /\ Pos(p)' \in 0 .. 12
        /\ KeysDone(p) /\ SenderDone(p) /\ ReceiverDone(p) /\ MediaDone(p)
    BY PosType, PosTypeNext DEF DoneInv
  <1>1. /\ \/ Pos(p)' = Pos(p)
           \/ Pos(p)' = Pos(p) - 1
           \/ Pos(p) = SendSsrcAt(p) /\ Pos(p)' = Pos(p) - 2
        /\ UNCHANGED todo => Pos(p)' = Pos(p)
        /\ Advance(p) /\ todo[p] # << >> /\ Pos(p) <= 11 => Pos(p)' = Pos(p) - 1
    BY ThreadPos
  <1>2. todo[p] # << >> /\ SendSsrcAt(p) \in {4, 6} /\ RecvSsrcAt(p) \in {4, 7}
    BY ActionOf DEF SendSsrcAt, RecvSsrcAt
  <1>3. /\ h.do = "recv" /\ h.kind = "DH_KEY" <=> Pos(p) = 8
        /\ h.do = "initSender" <=> Pos(p) = SendSsrcAt(p) + 1
        /\ h.do = "recv" /\ h.kind = "SALT" <=> Pos(p) + 1 = RecvSsrcAt(p)
        /\ h.do = "initReceiver" <=> Pos(p) = 2
        /\ h.do = "startMedia" <=> Pos(p) = 1
    BY <1>2, NextCall
  <1>4. ASSUME NEW r \in Party, r # p
        PROVE  (KeysDone(r) /\ SenderDone(r) /\ ReceiverDone(r) /\ MediaDone(r))'
    <2>1. /\ status'[r] = status[r] /\ got'[r] = got[r] /\ keys'[r] = keys[r]
          /\ sendCtx'[r] = sendCtx[r] /\ recvCtx'[r] = recvCtx[r]
      BY <1>4, ThreadFrame
    <2>2. Pos(r)' = Pos(r)
      BY <1>4, ThreadPos
    <2>3. KeysDone(r) /\ SenderDone(r) /\ ReceiverDone(r) /\ MediaDone(r)
      BY DEF DoneInv
    <2>4. KeysDone(r)' /\ SenderDone(r)'
      BY <2>1, <2>2, <2>3 DEF KeysDone, SenderDone, DerivedKeys, Other, SendSsrcAt
    <2>5. ReceiverDone(r)' /\ MediaDone(r)'
      BY <2>1, <2>2, <2>3 DEF ReceiverDone, MediaDone, NoContext, NoSrtpKey, SrtpKey
    <2> QED
      BY <2>4, <2>5
  <1>5. KeysDone(p)'
    <2> SUFFICES ASSUME Pos(p)' <= 7 PROVE keys'[p] = DerivedKeys(p, Other(p))
      BY DEF KeysDone, DerivedKeys, Other
    <2>1. CASE Pos(p) <= 7
      <3>1. keys'[p] = keys[p]
        BY <1>3, <2>1, ThreadKeys
      <3> QED
        BY <1>0, <2>1, <3>1 DEF KeysDone
    <2>2. CASE Pos(p) > 7
      <3>1. Pos(p) = 8 /\ Pos(p)' # Pos(p)
        BY <1>0, <1>1, <1>2, <2>2
      <3> QED
        BY <1>1, <1>3, <3>1, ThreadKeys
    <2> QED
      BY <1>0, <2>1, <2>2
  <1>6. SenderDone(p)'
    <2> SUFFICES ASSUME Pos(p)' <= SendSsrcAt(p)
                 PROVE  sendCtx'[p] = [key |-> keys'[p].tx, ssrc |-> p, salt |-> p]
      BY DEF SenderDone, SendSsrcAt
    <2>1. CASE Pos(p) <= SendSsrcAt(p)
      <3>1. Pos(p) # 8 /\ Pos(p) # SendSsrcAt(p) + 1
        BY <1>0, <1>2, <2>1
      <3>2. keys'[p] = keys[p]
        BY <1>3, <3>1, ThreadKeys
      <3>3. UNCHANGED sendCtx
        BY <1>3, <3>1, ThreadSendCtx
      <3> QED
        BY <1>0, <2>1, <3>2, <3>3 DEF SenderDone
    <2>2. CASE Pos(p) > SendSsrcAt(p)
      <3>1. Pos(p) = SendSsrcAt(p) + 1
        BY <1>0, <1>1, <1>2, <2>2
      <3> QED
        BY <1>3, <3>1, ThreadSendCtx
    <2> QED
      BY <1>0, <1>2, <2>1, <2>2
  <1>7. ReceiverDone(p)'
    <2>1. CASE Pos(p) <= 1
      <3>1. Pos(p)' <= 1 /\ Pos(p) # 2 /\ Pos(p) + 1 # RecvSsrcAt(p)
        BY <1>0, <1>1, <1>2, <2>1
      <3>2. recvCtx'[p] = recvCtx[p]
        BY <1>3, <3>1, ThreadRecvCtx DEF Doing
      <3>3. got'[p]["SALT"] = got[p]["SALT"]
        BY <1>3, <3>1, ThreadSalt
      <3>4. recvCtx[p] # NoContext /\ got[p]["SALT"] # None
        BY <1>0, <2>1 DEF ReceiverDone
      <3> QED
        BY <3>1, <3>2, <3>3, <3>4 DEF ReceiverDone, NoContext, NoSrtpKey, SrtpKey
    <2>2. CASE Pos(p) = 2
      <3>1. recvCtx[p] = NoContext
        BY <1>0, <2>2 DEF ReceiverDone
      <3>2. initReceiver(p)
        BY <1>3, <2>2, ActionOf
      <3>3. CASE got[p]["SALT"] = None
        <4>1. UNCHANGED <<todo, recvCtx>>
          BY <3>2, <3>3 DEF initReceiver, Fail, callVars
        <4>2. Pos(p)' = 2 /\ recvCtx'[p] = NoContext
          BY <1>1, <2>2, <3>1, <4>1
        <4> QED
          BY <4>2 DEF ReceiverDone, NoContext, NoSrtpKey, SrtpKey
      <3>4. CASE got[p]["SALT"] # None
        <4> DEFINE c == [key |-> keys[p].rx, ssrc |-> got[p]["SSRC"],
                         salt |-> got[p]["SALT"]]
        <4>1. /\ Advance(p) /\ UNCHANGED got
              /\ recvCtx' = [recvCtx EXCEPT ![p] = c]
          BY <3>2, <3>4 DEF initReceiver
        <4>2. recvCtx'[p] = c
          BY <4>1 DEF TypeOK
        <4>3. c # NoContext
          <5>1. c.salt # NoContext.salt
            BY <3>4 DEF NoContext
          <5> QED
            BY <5>1
        <4>4. Pos(p)' = 1
          BY <1>1, <1>2, <2>2, <4>1
        <4>5. recvCtx'[p] # NoContext /\ got'[p]["SALT"] # None
          BY <3>4, <4>1, <4>2, <4>3
        <4> QED
          BY <4>4, <4>5 DEF ReceiverDone, NoContext, NoSrtpKey, SrtpKey
      <3> QED
        BY <3>3, <3>4
    <2>3. CASE Pos(p) > 2
      <3>1. Pos(p)' > 1 /\ Pos(p) # 2
        BY <1>0, <1>1, <1>2, <2>3
      <3>2. recvCtx'[p] = recvCtx[p]
        BY <1>3, <3>1, ThreadRecvCtx DEF Doing
      <3>3. recvCtx[p] = NoContext
        BY <1>0, <2>3 DEF ReceiverDone
      <3>4. recvCtx'[p] = NoContext /\ ~ (Pos(p)' <= 1)
        BY <1>0, <3>1, <3>2, <3>3
      <3> QED
        BY <3>4 DEF ReceiverDone, NoContext, NoSrtpKey, SrtpKey
    <2> QED
      BY <1>0, <2>1, <2>2, <2>3
  <1>8. MediaDone(p)'
    <2> SUFFICES ASSUME status'[p] = "ongoing" PROVE Pos(p)' = 0
      BY DEF MediaDone
    <2>1. startMedia(p)
      BY ThreadStatus
    <2>2. Pos(p) = 1 /\ Advance(p)
      BY <1>3, <2>1 DEF startMedia, Doing
    <2> QED
      BY <1>1, <1>2, <2>2
  <1> QED
    BY <1>4, <1>5, <1>6, <1>7, <1>8 DEF DoneInv

-----------------------------------------------------------------------------
(* AnswerInv is preserved by the call threads. *)

\* A list of calls without answers has none next.
LEMMA QuietHead ==
    ASSUME NEW s \in Seq(QuietOp), s # << >>
    PROVE  Head(s).do = "send" => Head(s).kind \notin Answers
  <1>1. Head(s) \in QuietOp
    OBVIOUS
  <1> QED
    BY <1>1 DEF QuietOp

\* The answer changes only when the next call writes one.
LEMMA ThreadAnswer ==
    ASSUME NEW p \in Party, ThreadStep(p)
    PROVE  /\ answer' # answer => /\ sendMessage(p) /\ Current(p) \in Answers
                                  /\ Head(todo[p]).do = "send"
                                  /\ Head(todo[p]).kind \in Answers
           /\ answer' # answer => answer' = Current(p)
  <1>1. answer' # answer => sendMessage(p)
    BY DEF ThreadStep, readTimesOut, CallThread, sendFails, receiveMessage,
           receiveWrongMessage, endOfStream,
           isOtherPartyIntroducing, handleIncomingRequestForIntroduction,
           receiveAnswer, receiveSsrc, receiveSalt, validateKeyAgainstExpected,
           setPublicKey, initSender, initReceiver, startMedia, returnFromReject,
           startKeepAliveWorker, ReadError, Fail
  <1> QED
    BY <1>1 DEF sendMessage, Doing, Current

\* A step of a call thread keeps AnswerInv.
LEMMA AnswerThread ==
    ASSUME TypeOK, TypeOK', ProgramInv, DoneInv, AnswerInv, OnlyUserAnswers,
           NEW p \in Party, ThreadStep(p)
    PROVE  AnswerInv'
  <1>0. Caller \in Party /\ Callee \in Party /\ Caller # Callee
    BY DEF Party, Caller, Callee
  <1>1. Going(Callee)' <=> Going(Callee)
    BY <1>0, ThreadPos
  <1>2. status'[Callee] = "initialized" => ~ Going(Callee)'
    <2>1. CASE p = Callee
      <3>1. status'[Callee] = "initialized" => Head(todo[Callee]).do = "startKeepAliveWorker"
        BY <2>1, ThreadStatus
      <3>2. todo[Callee] # << >>
        BY <2>1, ActionOf
      <3> QED
        BY <1>0, <1>1, <3>1, <3>2, NextCall
    <2>2. CASE p # Callee
      BY <1>0, <1>1, <2>2, ThreadFrame DEF AnswerInv
    <2> QED
      BY <2>1, <2>2
  <1>3. TodoShrinks(p)
    <2>1. CASE CallThread(p)
      BY <2>1, CallThreadShrinks
    <2>2. CASE p = Caller /\ readTimesOut
      BY <2>2 DEF readTimesOut, ReadError, Fail, TodoShrinks, Doing
    <2> QED
      BY <2>1, <2>2 DEF ThreadStep
  <1>4. ASSUME Going(Callee), answer = "ACCEPT", todo[Callee] \in Seq(QuietOp)
        PROVE  answer' = "ACCEPT" /\ todo'[Callee] \in Seq(QuietOp)
    <2>1. todo'[Callee] \in Seq(QuietOp)
      BY <1>0, <1>3, <1>4, ShrinkQuiet
    <2>2. todo[p] \in Seq(QuietOp) /\ todo[p] # << >>
      BY <1>4, ActionOf DEF OnlyUserAnswers, Party
    <2>3. answer' = answer
      BY <2>2, ThreadAnswer, QuietHead
    <2> QED
      BY <1>4, <2>1, <2>3
  <1>5. ASSUME Going(Callee), Left(Callee) >= 12, Head(todo[Callee]) = send("ACCEPT"),
               Tail(todo[Callee]) \in Seq(QuietOp)
        PROVE  \/ answer' = "ACCEPT" /\ todo'[Callee] \in Seq(QuietOp)
               \/ UNCHANGED answer /\ todo'[Callee] = todo[Callee]
    <2>1. CASE p = Callee
      <3>1. Head(todo[p]).do = "send" /\ Current(p) = "ACCEPT"
        BY <1>5, <2>1 DEF send, Current
      <3>2. CASE sendMessage(p)
        <4>1. answer' = "ACCEPT"
          BY <3>1, <3>2 DEF sendMessage, Answers
        <4>2. todo'[Callee] = Tail(todo[Callee])
          BY <1>0, <2>1, <3>2 DEF sendMessage, Advance, TypeOK
        <4> QED
          BY <1>5, <4>1, <4>2
      <3>3. CASE sendFails(p)
        BY <2>1, <3>1, <3>3 DEF sendFails, Fail
      <3> QED
        BY <3>1, <3>2, <3>3, ActionOf
    <2>2. CASE p # Callee
      <3>1. todo'[Callee] = todo[Callee]
        BY <1>0, <2>2, ThreadFrame
      <3>2. p = Caller
        BY <2>2 DEF Party
      <3>3. todo[p] \in Seq(QuietOp) /\ todo[p] # << >>
        BY <3>2, ActionOf DEF OnlyUserAnswers
      <3>4. answer' = answer
        BY <3>3, ThreadAnswer, QuietHead
      <3> QED
        BY <3>1, <3>4
    <2> QED
      BY <2>1, <2>2
  <1>6. Going(Callee)' =>
          \/ answer' = "ACCEPT" /\ todo'[Callee] \in Seq(QuietOp)
          \/ /\ Left(Callee)' >= 12
             /\ Head(todo'[Callee]) = send("ACCEPT")
             /\ Tail(todo'[Callee]) \in Seq(QuietOp)
    <2> SUFFICES ASSUME Going(Callee)
                 PROVE  \/ answer' = "ACCEPT" /\ todo'[Callee] \in Seq(QuietOp)
                        \/ /\ Left(Callee)' >= 12
                           /\ Head(todo'[Callee]) = send("ACCEPT")
                           /\ Tail(todo'[Callee]) \in Seq(QuietOp)
      BY <1>1
    <2>1. CASE answer = "ACCEPT" /\ todo[Callee] \in Seq(QuietOp)
      BY <1>4, <2>1
    <2>2. CASE /\ Left(Callee) >= 12
               /\ Head(todo[Callee]) = send("ACCEPT")
               /\ Tail(todo[Callee]) \in Seq(QuietOp)
      <3>1. todo'[Callee] = todo[Callee] => Left(Callee)' = Left(Callee)
        BY DEF Left
      <3> QED
        BY <1>5, <2>2, <3>1
    <2> QED
      BY <2>1, <2>2 DEF AnswerInv
  <1> QED
    BY <1>2, <1>6 DEF AnswerInv, send, QuietOp, Op, Kind, Carriers, Answers

-----------------------------------------------------------------------------
(* WrittenInv is preserved by the call threads. *)

\* Every message of s is one of t, or what a misaligned read left over.
Remains(s, t) == \A i \in 1 .. Len(s) : s[i].kind = "REST" \/ \E j \in 1 .. Len(t) : s[i] = t[j]

\* What p's thread does to the stream that p writes.
LEMMA ThreadWrites ==
    ASSUME TypeOK, NEW p \in Party, ThreadStep(p)
    PROVE  \/ chan'[p] = chan[p]
           \/ /\ sendMessage(p)
              /\ chan'[p] = Append(chan[p], MessageOf(p, Current(p)))
  <1>0. chan \in [Party -> Seq(Message)] /\ Other(p) # p
    BY OtherParty DEF TypeOK
  <1>1. CASE sendMessage(p)
    BY <1>0, <1>1 DEF sendMessage
  <1>2. CASE \/ receiveMessage(p) \/ isOtherPartyIntroducing(p)
             \/ handleIncomingRequestForIntroduction(p) \/ receiveAnswer(p)
    BY <1>0, <1>2 DEF receiveMessage, isOtherPartyIntroducing, Consume,
                      handleIncomingRequestForIntroduction, receiveAnswer
  <1>3. CASE receiveSsrc(p) \/ receiveSalt(p)
    BY <1>0, <1>3 DEF receiveSsrc, receiveSalt, Consume
  <1>4. CASE UNCHANGED chan
    BY <1>4
  <1> QED
    BY <1>1, <1>2, <1>3, <1>4
       DEF ThreadStep, readTimesOut, CallThread, sendFails,
           receiveWrongMessage, endOfStream, validateKeyAgainstExpected,
           setPublicKey, initSender, initReceiver, startMedia, returnFromReject,
           startKeepAliveWorker, ReadError, Fail

\* A list without its first message consists of messages of the list.
LEMMA TailRemains ==
    ASSUME NEW s \in Seq(Message), s # << >>
    PROVE  Remains(Tail(s), s)
  <1> DEFINE t == Tail(s)
  <1>1. t \in Seq(Message) /\ Len(t) = Len(s) - 1 /\ Len(s) \in Nat
    OBVIOUS
  <1>2. \A i \in 1 .. Len(t) : t[i] = s[i + 1]
    BY HeadTailProperties
  <1> HIDE DEF t
  <1>3. \A i \in 1 .. Len(t) : i + 1 \in 1 .. Len(s)
    BY <1>1
  <1> QED
    BY <1>2, <1>3 DEF Remains, t

\* A list with one message put in front of it.
LEMMA PutFront ==
    ASSUME NEW T, NEW m \in T, NEW u \in Seq(T), NEW t, t = << m >> \o u
    PROVE  Len(t) = 1 + Len(u) /\ t[1] = m /\ \A i \in 1 .. Len(u) : t[i + 1] = u[i]
    OBVIOUS

\* What a misaligned read of k messages leaves: the rest of the last one, and those after.
LEMMA RestRemains ==
    ASSUME NEW s \in Seq(Message), NEW k \in 1 .. Len(s), NEW m, m.kind = "REST",
           NEW t, t = << m >> \o SubSeq(s, k + 1, Len(s))
    PROVE  Remains(t, s)
  <1> DEFINE u == SubSeq(s, k + 1, Len(s))
  <1>1. u \in Seq(Message) /\ Len(u) = Len(s) - k /\ Len(s) \in Nat
    OBVIOUS
  <1>2. \A i \in 1 .. Len(u) : u[i] = s[k + i]
    BY <1>1
  <1>3. t = << m >> \o u
    OBVIOUS
  <1> HIDE DEF u
  <1>4. Len(t) = 1 + Len(u) /\ t[1] = m /\ \A i \in 1 .. Len(u) : t[i + 1] = u[i]
    <2> DEFINE T == Message \cup {m}
    <2>1. m \in T /\ u \in Seq(T)
      BY <1>1
    <2> HIDE DEF T
    <2> QED
      BY <1>3, <2>1, PutFront
  <1>5. ASSUME NEW i \in 1 .. Len(t), i # 1
        PROVE  \E j \in 1 .. Len(s) : t[i] = s[j]
    <2>1. i - 1 \in 1 .. Len(u) /\ (i - 1) + 1 = i /\ k + (i - 1) \in 1 .. Len(s)
      BY <1>1, <1>4, <1>5
    <2>2. t[i] = s[k + (i - 1)]
      BY <1>2, <1>4, <2>1
    <2> QED
      BY <2>1, <2>2
  <1> QED
    BY <1>4, <1>5 DEF Remains

\* What p's thread does to the stream that p reads.
LEMMA ThreadReads ==
    ASSUME TypeOK, NEW p \in Party, ThreadStep(p)
    PROVE  LET q == Other(p) IN
           \/ chan'[q] = chan[q]
           \/ /\ chan[q] # << >> /\ chan'[q] = Tail(chan[q])
              /\ Head(todo[p]).do = "recv"
           \/ /\ Head(todo[p]).do = "recv" /\ Head(todo[p]).kind \in {"SSRC", "SALT"}
              /\ chan[q] # << >> /\ Remains(chan'[q], chan[q])
  <1> DEFINE q == Other(p)
  <1>0. q \in Party /\ q # p /\ Inbox(p) = chan[q]
    BY OtherParty DEF Inbox
  <1>1. chan \in [Party -> Seq(Message)] /\ chan[q] \in Seq(Message)
    BY <1>0 DEF TypeOK
  <1> HIDE DEF q
  <1>2. ASSUME Doing(p, "recv"), Available(p), Consume(p)
        PROVE  /\ chan[q] # << >> /\ chan'[q] = Tail(chan[q])
               /\ Head(todo[p]).do = "recv"
    <2>1. Inbox(p) # << >>
      BY <1>2, AvailableMeans
    <2>2. chan' = [chan EXCEPT ![q] = Tail(@)]
      BY <1>2 DEF Consume, q
    <2> QED
      BY <1>0, <1>1, <1>2, <2>1, <2>2 DEF Doing
  <1>3. CASE sendMessage(p)
    BY <1>0, <1>1, <1>3 DEF sendMessage, q
  <1>4. CASE \/ receiveMessage(p) \/ isOtherPartyIntroducing(p)
             \/ handleIncomingRequestForIntroduction(p) \/ receiveAnswer(p)
    <2>1. Doing(p, "recv") /\ Available(p) /\ Consume(p)
      BY <1>4 DEF receiveMessage, isOtherPartyIntroducing, Reading,
                  handleIncomingRequestForIntroduction, receiveAnswer
    <2> QED
      BY <1>2, <2>1 DEF q
  <1>5. CASE receiveSsrc(p)
    <2>1. Doing(p, "recv") /\ Available(p) /\ Current(p) = "SSRC"
      BY <1>5 DEF receiveSsrc, Reading
    <2>2. CASE Head(Inbox(p)).kind = "SSRC"
      BY <1>2, <1>5, <2>1, <2>2 DEF receiveSsrc, q
    <2>3. CASE Head(Inbox(p)).kind # "SSRC"
      <3> DEFINE m == [Head(Inbox(p)) EXCEPT !.kind = "REST"]
      <3>1. chan[q] # << >>
        BY <1>0, <2>1, AvailableMeans
      <3>2. Head(Inbox(p)) \in Message
        BY <1>0, <1>1, <3>1
      <3>3. m.kind = "REST"
        BY <3>2 DEF Message
      <3>4. chan' = [chan EXCEPT ![q] = << m >> \o Tail(chan[q])]
        BY <1>5, <2>3 DEF receiveSsrc, q
      <3> HIDE DEF m
      <3>5. chan'[q] = << m >> \o Tail(chan[q])
        BY <1>0, <1>1, <3>4
      <3>6. Tail(chan[q]) = SubSeq(chan[q], 1 + 1, Len(chan[q])) /\ 1 \in 1 .. Len(chan[q])
        <4>1. Len(chan[q]) \in Nat /\ Len(chan[q]) # 0
          BY <1>1, <3>1
        <4>2. Tail(chan[q]) = SubSeq(chan[q], 2, Len(chan[q]))
          BY <1>1, <3>1, TailIsSubSeq
        <4> QED
          BY <4>1, <4>2
      <3>7. Remains(chan'[q], chan[q])
        BY <1>1, <3>3, <3>5, <3>6, RestRemains
      <3> QED
        BY <2>1, <3>1, <3>7 DEF q, Doing, Current
    <2> QED
      BY <2>2, <2>3
  <1>6. CASE receiveSalt(p)
    <2>1. Doing(p, "recv") /\ Available(p) /\ Current(p) = "SALT"
      BY <1>6 DEF receiveSalt, Reading
    <2>2. CASE Head(Inbox(p)).kind = "SALT"
      BY <1>2, <1>6, <2>1, <2>2 DEF receiveSalt, q
    <2>3. CASE Head(Inbox(p)).kind # "SALT"
      <3> DEFINE i == CHOOSE j \in 1 .. Len(Inbox(p)) : Inbox(p)[j].kind = "SALT"
                 m == [chan[q][i] EXCEPT !.kind = "REST"]
      <3>1. chan[q] # << >>
        BY <1>0, <2>1, AvailableMeans
      <3>2. \E j \in 1 .. Len(Inbox(p)) : Inbox(p)[j].kind = "SALT"
        BY <2>1 DEF Available
      <3>3. i \in 1 .. Len(chan[q])
        BY <1>0, <3>2
      <3>4. chan' = [chan EXCEPT ![q] = << m >> \o SubSeq(chan[q], i + 1, Len(chan[q]))]
        BY <1>6, <2>3 DEF receiveSalt, Inbox, q
      <3> HIDE DEF i
      <3>5. chan[q][i] \in Message
        BY <1>1, <3>3
      <3>6. m.kind = "REST"
        BY <3>5 DEF Message
      <3> HIDE DEF m
      <3>7. chan'[q] = << m >> \o SubSeq(chan[q], i + 1, Len(chan[q]))
        BY <1>0, <1>1, <3>4
      <3>8. Remains(chan'[q], chan[q])
        BY <1>1, <3>3, <3>6, <3>7, RestRemains
      <3> QED
        BY <2>1, <3>1, <3>8 DEF q, Doing, Current
    <2> QED
      BY <2>2, <2>3
  <1>7. CASE UNCHANGED chan
    BY <1>7
  <1> QED
    BY <1>3, <1>4, <1>5, <1>6, <1>7
       DEF ThreadStep, readTimesOut, CallThread, sendFails,
           receiveWrongMessage, endOfStream, validateKeyAgainstExpected,
           setPublicKey, initSender, initReceiver, startMedia, returnFromReject,
           startKeepAliveWorker, ReadError, Fail

\* Messages that remain were written by a party that has come as far as before.
LEMMA RemainsWritten ==
    ASSUME NEW q \in Party, Written(q), Remains(chan'[q], chan[q]),
           SentDhKey(q) => SentDhKey(q)', SentSalt(q) => SentSalt(q)'
    PROVE  Written(q)'
  <1> SUFFICES ASSUME NEW i \in 1 .. Len(chan'[q])
               PROVE  /\ chan'[q][i].kind = "DH_KEY" => SentDhKey(q)'
                      /\ chan'[q][i].kind = "SALT" => SentSalt(q)'
    BY DEF Written
  <1>1. CASE chan'[q][i].kind = "REST"
    BY <1>1
  <1>2. CASE \E j \in 1 .. Len(chan[q]) : chan'[q][i] = chan[q][j]
    <2>1. PICK j \in 1 .. Len(chan[q]) : chan'[q][i] = chan[q][j]
      BY <1>2
    <2>2. /\ chan[q][j].kind = "DH_KEY" => SentDhKey(q)
          /\ chan[q][j].kind = "SALT" => SentSalt(q)
      BY DEF Written
    <2> QED
      BY <2>1, <2>2
  <1> QED
    BY <1>1, <1>2 DEF Remains

\* A stream that does not change remains.
LEMMA SameRemains ==
    ASSUME NEW q, chan'[q] = chan[q]
    PROVE  Remains(chan'[q], chan[q])
    BY DEF Remains

\* A step of a call thread keeps WrittenInv.
LEMMA WrittenThread ==
    ASSUME TypeOK, TypeOK', ProgramInv, DoneInv, WrittenInv, NEW p \in Party,
           ThreadStep(p)
    PROVE  WrittenInv'
  <1> DEFINE q == Other(p)
             h == Head(todo[p])
  <1>0. q \in Party /\ q # p /\ Other(q) = p /\ \A r \in Party : r = p \/ r = q
    BY DEF Other, Party, Caller, Callee
  <1>1. /\ Pos(p) \in 0 .. 12 /\ Pos(p)' \in 0 .. 12 /\ Pos(q) \in 0 .. 12
        /\ Pos(p)' <= Pos(p) /\ Pos(q)' = Pos(q)
        /\ Advance(p) /\ todo[p] # << >> /\ Pos(p) <= 11 => Pos(p)' = Pos(p) - 1
    <2>1. /\ Pos(p) \in 0 .. 12 /\ Pos(p)' \in 0 .. 12 /\ Pos(q) \in 0 .. 12
      BY <1>0, PosType, PosTypeNext
    <2> QED
      BY <1>0, <2>1, ThreadPos
  <1>2. \A r \in Party : (SentDhKey(r) => SentDhKey(r)') /\ (SentSalt(r) => SentSalt(r)')
    <2>1. SendSsrcAt(p) \in {4, 6} /\ SendSsrcAt(q) \in {4, 6}
      BY DEF SendSsrcAt
    <2> HIDE DEF q
    <2>2. (SentDhKey(p) => SentDhKey(p)') /\ (SentSalt(p) => SentSalt(p)')
      BY <1>1, <2>1 DEF SentDhKey, SentSalt, SendSsrcAt
    <2>3. (SentDhKey(q) => SentDhKey(q)') /\ (SentSalt(q) => SentSalt(q)')
      BY <1>1, <2>1 DEF SentDhKey, SentSalt, SendSsrcAt
    <2> QED
      BY <1>0, <2>2, <2>3
  <1>3. todo[p] # << >>
    BY ActionOf
  <1>4. Written(p)'
    <2>0. Written(p)
      BY DEF WrittenInv
    <2>1. CASE chan'[p] = chan[p]
      BY <1>2, <2>0, <2>1, SameRemains, RemainsWritten
    <2>2. CASE sendMessage(p) /\ chan'[p] = Append(chan[p], MessageOf(p, Current(p)))
      <3> DEFINE m == MessageOf(p, Current(p))
                 n == Len(chan[p])
      <3>1. chan[p] \in Seq(Message) /\ n \in Nat
        BY DEF TypeOK
      <3>2. m.kind = Current(p) /\ m \in Message
        BY <1>3, TodoType, MessageOfType DEF MessageOf
      <3>3. Advance(p) /\ h.do = "send" /\ Current(p) = h.kind
        BY <2>2 DEF sendMessage, Doing, Current
      <3>4. m.kind = "DH_KEY" => SentDhKey(p)'
        <4>1. m.kind = "DH_KEY" => Pos(p) = 10
          BY <1>3, <3>2, <3>3, NextCall
        <4> QED
          BY <1>1, <1>3, <3>3, <4>1 DEF SentDhKey
      <3>5. m.kind = "SALT" => SentSalt(p)'
        <4>1. m.kind = "SALT" => Pos(p) + 1 = SendSsrcAt(p)
          BY <1>3, <3>2, <3>3, NextCall
        <4>2. SendSsrcAt(p) \in {4, 6} /\ SendSsrcAt(p)' = SendSsrcAt(p)
          BY DEF SendSsrcAt
        <4>3. m.kind = "SALT" => Pos(p)' = Pos(p) - 1
          BY <1>1, <1>3, <3>3, <4>1, <4>2
        <4> QED
          BY <1>1, <4>1, <4>2, <4>3 DEF SentSalt
      <3> HIDE DEF m
      <3>6. /\ Len(chan'[p]) = n + 1 /\ chan'[p][n + 1] = m
            /\ \A i \in 1 .. n : chan'[p][i] = chan[p][i]
        BY <2>2, <3>1, <3>2, AppendProperties DEF m
      <3>7. ASSUME NEW i \in 1 .. n + 1
            PROVE  /\ chan'[p][i].kind = "DH_KEY" => SentDhKey(p)'
                   /\ chan'[p][i].kind = "SALT" => SentSalt(p)'
        <4>1. CASE i = n + 1
          BY <3>4, <3>5, <3>6, <4>1
        <4>2. CASE i # n + 1
          <5>1. i \in 1 .. n
            BY <3>1, <4>2
          <5>2. /\ chan[p][i].kind = "DH_KEY" => SentDhKey(p)
                /\ chan[p][i].kind = "SALT" => SentSalt(p)
            BY <2>0, <5>1 DEF Written
          <5> QED
            BY <1>2, <3>6, <5>1, <5>2
        <4> QED
          BY <4>1, <4>2
      <3> QED
        BY <3>6, <3>7 DEF Written
    <2> QED
      BY <2>1, <2>2, ThreadWrites
  <1>5. Written(q)'
    <2>1. Remains(chan'[q], chan[q])
      <3>1. CASE chan'[q] = chan[q]
        BY <3>1, SameRemains
      <3>2. CASE chan[q] # << >> /\ chan'[q] = Tail(chan[q])
        <4>1. chan[q] \in Seq(Message)
          BY <1>0 DEF TypeOK
        <4> QED
          BY <3>2, <4>1, TailRemains
      <3> QED
        BY <3>1, <3>2, ThreadReads
    <2> QED
      BY <1>0, <1>2, <2>1, RemainsWritten DEF WrittenInv
  <1>6. got'[q]["SALT"] # None => SentSalt(p)'
    <2>1. got'[q] = got[q]
      BY <1>0, ThreadFrame
    <2> QED
      BY <1>0, <1>2, <2>1 DEF WrittenInv
  <1>7. got'[p]["SALT"] # None => SentSalt(q)'
    <2>1. got[p]["SALT"] # None => SentSalt(q)
      BY <1>0 DEF WrittenInv
    <2>2. CASE ~ (h.do = "recv" /\ h.kind = "SALT")
      BY <1>0, <1>2, <2>1, <2>2, ThreadSalt
    <2>3. CASE h.do = "recv" /\ h.kind = "SALT"
      <3>0. got \in [Party -> [Received -> Value]] /\ "SALT" \in Received
        BY DEF TypeOK, Received
      <3>1. CASE receiveSalt(p)
        <4>1. \E i \in 1 .. Len(chan[q]) : chan[q][i].kind = "SALT"
          BY <3>1 DEF receiveSalt, Reading, Available, Inbox
        <4> QED
          BY <1>0, <1>2, <4>1 DEF WrittenInv, Written
      <3>2. CASE endOfStream(p) \/ (p = Caller /\ readTimesOut)
        <4>1. Current(p) = "SALT"
          BY <2>3 DEF Current
        <4>2. ReadError(p)
          BY <3>2 DEF endOfStream, readTimesOut
        <4>3. got' = [got EXCEPT ![p]["SALT"] = None]
          BY <4>1, <4>2 DEF ReadError
        <4> QED
          BY <3>0, <4>3
      <3> QED
        BY <2>3, <3>1, <3>2, ActionOf
    <2> QED
      BY <2>2, <2>3
  <1>8. ASSUME NEW r \in Party
        PROVE  Written(r)' /\ (got'[Other(r)]["SALT"] # None => SentSalt(r)')
    <2>1. CASE r = p
      BY <1>4, <1>6, <2>1
    <2>2. CASE r = q
      BY <1>0, <1>5, <1>7, <2>2
    <2> QED
      BY <1>0, <2>1, <2>2
  <1> QED
    BY <1>8 DEF WrittenInv, Other

-----------------------------------------------------------------------------
(* The steps of the keep-alive thread, the network and the user. *)

\* Steps that leave what the call threads work on alone.
OutsideStep == KeepAliveWorker \/ linkBreaks \/ Terminated \/ UNCHANGED vars

\* They change neither the position nor the state of a party, except that the worker can
\* end the callee's process.
LEMMA OutsideFrame ==
    ASSUME TypeOK, OutsideStep
    PROVE  /\ UNCHANGED <<todo, got, keys, sendCtx, recvCtx, answer, callInfo>>
           /\ \A r \in Party : status'[r] \in {status[r], "failed"}
           /\ \A r \in Party : Pos(r)' = Pos(r) /\ (Going(r)' <=> Going(r))
  <1> USE DEF callVars, workerVars
  <1>1. UNCHANGED <<todo, got, keys, sendCtx, recvCtx, answer, callInfo>>
    BY DEF OutsideStep, KeepAliveWorker, workerChecks, workerSendsWait, workerSendFails,
           workerWakes, Fail, linkBreaks, Terminated, vars
  <1>2. ASSUME NEW r \in Party PROVE status'[r] \in {status[r], "failed"}
    <2>1. UNCHANGED status \/ status' = [status EXCEPT ![Callee] = "failed"]
      BY DEF OutsideStep, KeepAliveWorker, workerChecks, workerSendsWait, workerSendFails,
             workerWakes, Fail, linkBreaks, Terminated, vars
    <2> QED
      BY <2>1 DEF TypeOK
  <1>3. ASSUME NEW r \in Party PROVE Pos(r)' = Pos(r) /\ (Going(r)' <=> Going(r))
    <2>1. (Going(r)' <=> Going(r)) /\ Left(r)' = Left(r)
      BY <1>1 DEF Going, Left, NoContext, NoSrtpKey, SrtpKey
    <2> QED
      BY <2>1 DEF Pos
  <1> QED
    BY <1>1, <1>2, <1>3

\* They add a WAIT to a stream, or cut it off.
LEMMA OutsideStreams ==
    ASSUME TypeOK, OutsideStep
    PROVE  \/ UNCHANGED chan
           \/ workerSendsWait
           \/ \A r \in Party : \E n \in 0 .. Len(chan[r]) : chan'[r] = SubSeq(chan[r], 1, n)
  <1>1. CASE linkBreaks
    <2>1. PICK n \in 0 .. Len(chan[Caller]), m \in 0 .. Len(chan[Callee]) :
            chan' = [p \in Party |-> SubSeq(chan[p], 1, IF p = Caller THEN n ELSE m)]
      BY <1>1 DEF linkBreaks
    <2>2. chan'[Caller] = SubSeq(chan[Caller], 1, n)
      BY <2>1 DEF Party
    <2>3. chan'[Callee] = SubSeq(chan[Callee], 1, m)
      BY <2>1 DEF Party, Caller, Callee
    <2> QED
      BY <2>2, <2>3 DEF Party
  <1> QED
    BY <1>1 DEF OutsideStep, KeepAliveWorker, workerChecks, workerSendFails,
                workerWakes, Fail, Terminated, vars

\* They keep ReadyInv.
LEMMA ReadyOutside ==
    ASSUME TypeOK, ReadyInv, OutsideStep
    PROVE  ReadyInv'
  <1>1. /\ UNCHANGED <<todo, got, keys, sendCtx, recvCtx, answer>>
        /\ \A r \in Party : status'[r] \in {status[r], "failed"}
        /\ \A r \in Party : Pos(r)' = Pos(r) /\ (Going(r)' <=> Going(r))
    BY OutsideFrame
  <1>2. Caller \in Party /\ Callee \in Party
    BY DEF Party
  <1>3. ControlInv'
    <2>1. Going(Caller)' /\ ProgramInv'
      BY <1>1, <1>2 DEF ReadyInv, ControlInv, ProgramInv, LastCalls, initiateSrtp
    <2>2. AnswerInv'
      <3>1. status'[Callee] = "initialized" => ~ Going(Callee)'
        BY <1>1, <1>2 DEF ReadyInv, ControlInv, AnswerInv
      <3>2. Left(Callee)' = Left(Callee)
        BY <1>1 DEF Left
      <3> QED
        BY <1>1, <1>2, <3>1, <3>2 DEF ReadyInv, ControlInv, AnswerInv
    <2> QED
      BY <2>1, <2>2 DEF ControlInv
  <1>4. DoneInv'
    <2> SUFFICES ASSUME NEW r \in Party
                 PROVE  (KeysDone(r) /\ SenderDone(r) /\ ReceiverDone(r) /\ MediaDone(r))'
      BY DEF DoneInv
    <2>1. KeysDone(r) /\ SenderDone(r) /\ ReceiverDone(r) /\ MediaDone(r)
      BY DEF ReadyInv, DoneInv
    <2>2. KeysDone(r)' /\ SenderDone(r)'
      BY <1>1, <2>1 DEF KeysDone, SenderDone, DerivedKeys, Other, SendSsrcAt
    <2>3. ReceiverDone(r)'
      BY <1>1, <2>1 DEF ReceiverDone, NoContext, NoSrtpKey, SrtpKey
    <2>4. MediaDone(r)'
      BY <1>1, <2>1 DEF MediaDone
    <2> QED
      BY <2>2, <2>3, <2>4
  <1>5. WrittenInv'
    <2>0. \A r \in Party : /\ Written(r) /\ (got[Other(r)]["SALT"] # None => SentSalt(r))
                           /\ (SentDhKey(r)' <=> SentDhKey(r)) /\ (SentSalt(r)' <=> SentSalt(r))
      BY <1>1 DEF ReadyInv, WrittenInv, SentDhKey, SentSalt, SendSsrcAt
    <2>1. ASSUME NEW r \in Party PROVE Written(r)'
      <3>0. chan[r] \in Seq(Message)
        BY DEF TypeOK
      <3>1. CASE UNCHANGED chan
        BY <2>0, <3>1 DEF Written
      <3>2. CASE workerSendsWait
        <4> DEFINE m == MessageOf(Callee, "WAIT")
                   n == Len(chan[r])
        <4>1. chan'[r] = chan[r] \/ chan'[r] = Append(chan[r], m)
          BY <3>2 DEF workerSendsWait, TypeOK
        <4>2. m.kind = "WAIT" /\ m \in Message
          BY <1>2, MessageOfType DEF MessageOf, Kind
        <4> HIDE DEF m
        <4>3. CASE chan'[r] = Append(chan[r], m)
          <5>1. /\ Len(chan'[r]) = n + 1 /\ chan'[r][n + 1] = m /\ n \in Nat
                /\ \A i \in 1 .. n : chan'[r][i] = chan[r][i]
            BY <3>0, <4>2, <4>3, AppendProperties
          <5>2. \A i \in 1 .. n + 1 : i = n + 1 \/ i \in 1 .. n
            BY <5>1
          <5> QED
            BY <2>0, <4>2, <5>1, <5>2 DEF Written
        <4>4. CASE chan'[r] = chan[r]
          BY <2>0, <4>4 DEF Written
        <4> QED
          BY <4>1, <4>3, <4>4
      <3>3. CASE \E n \in 0 .. Len(chan[r]) : chan'[r] = SubSeq(chan[r], 1, n)
        <4>1. PICK n \in 0 .. Len(chan[r]) : chan'[r] = SubSeq(chan[r], 1, n)
          BY <3>3
        <4>2. /\ Len(chan'[r]) = n /\ \A i \in 1 .. n : chan'[r][i] = chan[r][i]
              /\ \A i \in 1 .. n : i \in 1 .. Len(chan[r])
          BY <3>0, <4>1
        <4> QED
          BY <2>0, <4>2 DEF Written
      <3> QED
        BY <3>1, <3>2, <3>3, OutsideStreams
    <2>2. ASSUME NEW r \in Party PROVE got'[Other(r)]["SALT"] # None => SentSalt(r)'
      BY <1>1, <2>0
    <2> QED
      BY <2>1, <2>2 DEF WrittenInv, Other
  <1> QED
    BY <1>3, <1>4, <1>5 DEF ReadyInv

\* The user's decision puts the callee at the beginning of its way, or of the refusal.
LEMMA UserPos ==
    ASSUME TypeOK, ReadyInv, User
    PROVE  /\ UNCHANGED <<got, keys, sendCtx, recvCtx, answer, chan, link, strays, timedOut>>
           /\ \A r \in Party : Pos(r)' = Pos(r)
           /\ Pos(Callee) = 12 /\ ~ Going(Callee)
           /\ status[Callee] = "initialized" /\ status'[Callee] = "running"
           /\ status'[Caller] = status[Caller] /\ Going(Caller)'
           /\ ProgramInv' /\ AnswerInv'
  <1> USE DEF callVars
  <1>0. Caller \in Party /\ Callee \in Party /\ Caller # Callee
    BY DEF Party, Caller, Callee
  <1>1. /\ UNCHANGED <<got, keys, sendCtx, recvCtx, answer, chan, link, strays, timedOut>>
        /\ status[Callee] = "initialized"
        /\ status' = [status EXCEPT ![Callee] = "running"]
    BY DEF User, UserAccepts, UserRejects
  <1>2. /\ ~ Going(Callee) /\ recvCtx[Callee] = NoContext /\ Pos(Callee) = 12
        /\ recvCtx'[Callee] = NoContext
    BY <1>1 DEF ReadyInv, ControlInv, AnswerInv, Going, Pos
  <1>3. todo' = [todo EXCEPT ![Callee] = acceptCall(requested)]
        \/ todo' = [todo EXCEPT ![Callee] = rejectCall]
    BY DEF User, UserAccepts, UserRejects
  <1>4. Program(Caller)' /\ Going(Caller)' /\ Pos(Caller)' = Pos(Caller)
    <2>1. todo'[Caller] = todo[Caller] /\ recvCtx'[Caller] = recvCtx[Caller]
      BY <1>0, <1>1, <1>3 DEF TypeOK
    <2>2. Going(Caller) /\ Program(Caller)
      BY <1>0 DEF ReadyInv, ControlInv, ProgramInv, Program
    <2>3. Going(Caller)' /\ Left(Caller)' = Left(Caller)
      BY <2>1, <2>2 DEF Going, Left, NoContext, NoSrtpKey, SrtpKey
    <2> QED
      BY <2>1, <2>2, <2>3 DEF Program, Pos, LastCalls, initiateSrtp
  <1>5. status'[Callee] = "running" /\ status'[Caller] = status[Caller]
    BY <1>0, <1>1 DEF TypeOK
  <1>6. CASE todo' = [todo EXCEPT ![Callee] = acceptCall(requested)]
    <2> DEFINE s == acceptCall(requested)
    <2>1. todo'[Callee] = s
      BY <1>0, <1>6 DEF TypeOK
    <2>2. requested \in BOOLEAN
      BY DEF TypeOK
    <2>3. /\ EndsLike(s, LastCalls(Callee), CallOp)
          /\ s \in Seq(Op) /\ Len(s) >= 12
          /\ Head(s) = send("ACCEPT") /\ Tail(s) \in Seq(QuietOp)
      BY <2>2, CalleeProgram
    <2> HIDE DEF s
    <2>4. s # << >>
      BY <2>3
    <2>5. s[Len(s)] = do("startMedia")
      BY <1>0, <2>3, <2>4, LastEnd
    <2>6. Going(Callee)' /\ Left(Callee)' >= 12
      BY <2>1, <2>3, <2>4, <2>5 DEF Going, Left
    <2>7. Len(s) \in Nat
      BY <2>3
    <2>8. Pos(Callee)' = 12
      <3>1. ~ (Left(Callee)' <= 11)
        BY <2>1, <2>3, <2>7 DEF Left
      <3> QED
        BY <3>1 DEF Pos
    <2>9. Program(Callee)'
      BY <2>1, <2>3, <2>6 DEF Program, LastCalls, initiateSrtp
    <2>10. AnswerInv'
      BY <1>5, <2>1, <2>3, <2>6 DEF AnswerInv
    <2> QED
      BY <1>0, <1>1, <1>2, <1>4, <1>5, <2>8, <2>9, <2>10 DEF ProgramInv, Program, Party
  <1>7. CASE todo' = [todo EXCEPT ![Callee] = rejectCall]
    <2>1. todo'[Callee] = rejectCall
      BY <1>0, <1>7 DEF TypeOK
    <2>2. rejectCall \in Seq(EarlyOp)
      BY CalleeEarly
    <2>3. rejectCall # << >> => rejectCall[Len(rejectCall)] # do("startMedia")
      BY <2>2, EarlyEnd
    <2>4. ~ Going(Callee)'
      BY <1>2, <2>1, <2>3 DEF Going, Left, NoContext, NoSrtpKey, SrtpKey
    <2>5. Pos(Callee)' = 12 /\ AnswerInv'
      BY <2>4 DEF Pos, AnswerInv
    <2>6. Program(Callee)'
      BY <2>1, <2>2, <2>4 DEF Program
    <2> QED
      BY <1>0, <1>1, <1>2, <1>4, <1>5, <2>5, <2>6 DEF ProgramInv, Program, Party
  <1> QED
    BY <1>3, <1>6, <1>7

\* The user's decision keeps ReadyInv.
LEMMA ReadyUser ==
    ASSUME TypeOK, ReadyInv, User
    PROVE  ReadyInv'
  <1>1. /\ UNCHANGED <<got, keys, sendCtx, recvCtx, chan>>
        /\ \A r \in Party : Pos(r)' = Pos(r)
        /\ status'[Callee] = "running" /\ status'[Caller] = status[Caller]
        /\ Going(Caller)' /\ ProgramInv' /\ AnswerInv'
    BY UserPos
  <1>2. DoneInv'
    <2> SUFFICES ASSUME NEW r \in Party
                 PROVE  (KeysDone(r) /\ SenderDone(r) /\ ReceiverDone(r) /\ MediaDone(r))'
      BY DEF DoneInv
    <2>1. KeysDone(r) /\ SenderDone(r) /\ ReceiverDone(r) /\ MediaDone(r)
      BY DEF ReadyInv, DoneInv
    <2>2. KeysDone(r)' /\ SenderDone(r)'
      BY <1>1, <2>1 DEF KeysDone, SenderDone, DerivedKeys, Other, SendSsrcAt
    <2>3. ReceiverDone(r)'
      BY <1>1, <2>1 DEF ReceiverDone, NoContext, NoSrtpKey, SrtpKey
    <2>4. MediaDone(r)'
      BY <1>1, <2>1 DEF MediaDone, Party
    <2> QED
      BY <2>2, <2>3, <2>4
  <1>3. WrittenInv'
    <2>1. \A r \in Party : Written(r) /\ (got[Other(r)]["SALT"] # None => SentSalt(r))
      BY DEF ReadyInv, WrittenInv
    <2>2. \A r \in Party : (SentDhKey(r)' <=> SentDhKey(r)) /\ (SentSalt(r)' <=> SentSalt(r))
      BY <1>1 DEF SentDhKey, SentSalt, SendSsrcAt
    <2>3. \A r \in Party : Written(r)' /\ (got'[Other(r)]["SALT"] # None => SentSalt(r)')
      BY <1>1, <2>1, <2>2 DEF Written
    <2> QED
      BY <2>3 DEF WrittenInv, Other
  <1> QED
    BY <1>1, <1>2, <1>3 DEF ReadyInv, ControlInv

\* Both parties start at the beginning, with nothing done and nothing written.
LEMMA ReadyInit == Init => ReadyInv
  <1> SUFFICES ASSUME Init PROVE ReadyInv
    OBVIOUS
  <1>0. Caller \in Party /\ Callee \in Party /\ Caller # Callee /\ callInfo \in CallInfo
    BY DEF Party, Caller, Callee, Init
  <1>1. /\ todo[Caller] = startCall(callInfo) /\ todo[Callee] = initiateIncomingSession
        /\ \A r \in Party : recvCtx[r] = NoContext /\ status[r] = "running"
        /\ \A r \in Party : chan[r] = << >> /\ got[r]["SALT"] = None
    BY <1>0 DEF Init, Received
  <1>2. Going(Caller) /\ Left(Caller) >= 12
    <2> DEFINE s == startCall(callInfo)
    <2>1. s \in Seq(Op) /\ EndsLike(s, LastCalls(Caller), CallOp)
      BY <1>0, CallerProgram, ProgramTypes, QuietIsOp
    <2>2. Len(s) >= 12 /\ s # << >>
      BY <1>0, CallerProgram
    <2> HIDE DEF s
    <2>3. s[Len(s)] = do("startMedia")
      BY <1>0, <2>1, <2>2, LastEnd
    <2> QED
      BY <1>1, <2>2, <2>3 DEF Going, Left, s
  <1>3. ~ Going(Callee)
    <2>1. initiateIncomingSession \in Seq(EarlyOp)
      BY CalleeEarly
    <2> QED
      BY <1>0, <1>1, <2>1, EarlyEnd DEF Going, Left
  <1>4. \A r \in Party : Pos(r) = 12
    <2>1. Left(Caller) \in Nat
      BY <1>0, TypeInit, PosType
    <2>2. Pos(Caller) = 12 /\ Pos(Callee) = 12
      BY <1>2, <1>3, <2>1 DEF Pos
    <2> QED
      BY <2>2 DEF Party
  <1>5. ProgramInv
    <2>1. EndsLike(todo[Caller], LastCalls(Caller), CallOp)
      BY <1>0, <1>1, CallerProgram
    <2>2. todo[Callee] \in Seq(EarlyOp)
      BY <1>1, CalleeEarly
    <2> QED
      BY <1>2, <1>3, <2>1, <2>2 DEF ProgramInv, Party
  <1>6. AnswerInv
    BY <1>3 DEF AnswerInv
  <1>7. DoneInv
    BY <1>1, <1>4 DEF DoneInv, KeysDone, SenderDone, ReceiverDone, MediaDone, SendSsrcAt
  <1>8. WrittenInv
    <2>1. \A r \in Party : Len(chan[r]) = 0
      BY <1>1
    <2>2. \A r \in Party : got[Other(r)]["SALT"] = None
      BY <1>1, OtherParty
    <2> QED
      BY <2>1, <2>2 DEF WrittenInv, Written
  <1> QED
    BY <1>2, <1>5, <1>6, <1>7, <1>8 DEF ReadyInv, ControlInv

\* Every step keeps ReadyInv.
LEMMA ReadyStep ==
    ASSUME IInv, TypeOK', ReadyInv, [Next]_vars
    PROVE  ReadyInv'
  <1>0. TypeOK /\ MessageOrigin /\ OnlyUserAnswers
    BY DEF IInv
  <1>1. ASSUME NEW p \in Party, ThreadStep(p) PROVE ReadyInv'
    <2>1. Going(Caller) /\ ProgramInv /\ AnswerInv /\ DoneInv /\ WrittenInv
      BY DEF ReadyInv, ControlInv
    <2>2. Going(Caller)' /\ ProgramInv'
      BY <1>0, <1>1, <2>1, ThreadPos DEF Party
    <2>3. AnswerInv'
      BY <1>0, <1>1, <2>1, AnswerThread
    <2>4. DoneInv'
      BY <1>0, <1>1, <2>1, DoneThread
    <2>5. WrittenInv'
      BY <1>0, <1>1, <2>1, WrittenThread
    <2> QED
      BY <2>2, <2>3, <2>4, <2>5 DEF ReadyInv, ControlInv
  <1>2. CASE OutsideStep
    BY <1>0, <1>2, ReadyOutside
  <1>3. CASE User
    BY <1>0, <1>3, ReadyUser
  <1> QED
    BY <1>1, <1>2, <1>3 DEF Next, ThreadStep, OutsideStep, Party

\* ReadyInv is an invariant of the call set-up.
THEOREM ReadyInvariance == Spec => []ReadyInv
  <1>1. IInv /\ IInv' /\ ReadyInv /\ [Next]_vars => ReadyInv'
    BY ReadyStep DEF IInv
  <1> QED
    BY Invariance, ReadyInit, <1>1, PTL DEF Spec


-----------------------------------------------------------------------------
(* What being in the call means. *)

\* CallHandler: p starts the media only after the callee has accepted and the other party
\* has its keys and its sender.  The salt that p has read was written after all that.
THEOREM AnsweredWhenOngoing == Spec => []OngoingMeansAnswered
  <1>1. TypeOK /\ ReadyInv => OngoingMeansAnswered
    <2> SUFFICES ASSUME TypeOK, ReadyInv, NEW p \in Party, status[p] = "ongoing"
                 PROVE  /\ answer = "ACCEPT"
                        /\ sendCtx[Other(p)].key = keys[Other(p)].tx
                        /\ keys[Other(p)].tx # NoSrtpKey
      BY DEF OngoingMeansAnswered
    <2> DEFINE q == Other(p)
    <2>0. q \in Party /\ q # p /\ Other(q) = p /\ (p = Callee \/ q = Callee) /\ Callee \in Party
      BY DEF Other, Party, Caller, Callee
    <2>1. Pos(p) = 0 /\ got[p]["SALT"] # None
      <3>1. MediaDone(p) /\ ReceiverDone(p)
        BY DEF ReadyInv, DoneInv
      <3>2. Pos(p) = 0
        BY <3>1 DEF MediaDone
      <3> QED
        BY <3>1, <3>2 DEF ReceiverDone
    <2>2. SentSalt(q) /\ KeysDone(q) /\ SenderDone(q)
      BY <2>0, <2>1 DEF ReadyInv, WrittenInv, DoneInv
    <2>3. Pos(q) <= 7 /\ Pos(q) <= SendSsrcAt(q) /\ Pos(q) <= 11
      BY <2>0, <2>2, PosType DEF SentSalt, SendSsrcAt
    <2>4. sendCtx[q].key = keys[q].tx /\ keys[q] = DerivedKeys(q, p)
      BY <2>0, <2>2, <2>3 DEF KeysDone, SenderDone
    <2>5. keys[q].tx # NoSrtpKey
      BY <2>4 DEF DerivedKeys, NoSrtpKey, SrtpKey
    <2>6. answer = "ACCEPT"
      <3>1. Pos(Callee) <= 11
        BY <2>0, <2>1, <2>3
      <3>2. Going(Callee) /\ Left(Callee) <= 11 /\ Left(Callee) \in Nat
        BY <2>0, <3>1, PosType DEF Pos
      <3>3. ~ (Left(Callee) >= 12)
        BY <3>2
      <3> QED
        BY <3>2, <3>3 DEF ReadyInv, ControlInv, AnswerInv
    <2> QED
      BY <2>4, <2>5, <2>6
  <1> QED
    BY TypeCorrect, ReadyInvariance, <1>1, PTL
=============================================================================
