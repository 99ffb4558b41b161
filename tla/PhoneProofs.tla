----------------------------- MODULE PhoneProofs -----------------------------
(***************************************************************************)
(* What the threads of the telephone promise for every number of frames,   *)
(* threads, calls and workers: the media path is connected before it is    *)
(* used and implements AudioPath, a getter of the locator gives up only    *)
(* after its wait, and the microphone is not left on.                      *)
(***************************************************************************)
EXTENDS Integers, MCPhone, TLAPS

-----------------------------------------------------------------------------
(***************************************************************************)
(* The media path: the invariant                                           *)
(***************************************************************************)

\* The types, with the domain of data.
Types == TypeOK /\ data \in [Pipes -> Seq(1 .. MaxFrames)]

\* The call code connects the pipes in time: nothing is recorded before startSending,
\* which follows wrapStream, and nothing is read from the network before the last
\* Connector is started, which follows unwrapStream.
SetUpInv ==
    /\ "net" \in connected
    /\ setUp["sender"] >= 3 => "B" \in connected
    /\ setUp["sender"] <= 3 => /\ life["input"] = "new"
                               /\ data["A"] = << >> /\ hold["wrapper"] = 0
    /\ setUp["receiver"] >= 1 => "C" \in connected
    /\ setUp["receiver"] >= 3 => "D" \in connected
    /\ setUp["receiver"] <= 3 => life["output"] = "new"
    /\ setUp["receiver"] <= 4 => /\ life["fromNetwork"] = "new"
                                 /\ hold["fromNetwork"] = 0
                                 /\ data["C"] = << >> /\ hold["unwrapper"] = 0

ConnectInv == Types /\ SetUpInv /\ PipesConnected

\* How many frames have got as far as each place, from the output back to the
\* microphone: into pipe D, to the unwrapper, into C, and so on.
Held(c) == IF hold[c] = 0 THEN 0 ELSE 1
IntoD == Len(played) + Len(data["D"])
AtUnwrapper == IntoD + Held("unwrapper")
IntoC == AtUnwrapper + Len(data["C"])
AtFromNetwork == IntoC + Held("fromNetwork")
IntoNet == AtFromNetwork + Len(data["net"])
AtToNetwork == IntoNet + Held("toNetwork")
IntoB == AtToNetwork + Len(data["B"])
AtWrapper == IntoB + Held("wrapper")
IntoA == AtWrapper + Len(data["A"])

\* A pipe holds the frames that follow the n that have left it.
Consecutive(s, n) == \A i \in 1 .. Len(s) : s[i] = n + i

\* From the network on to the player every frame is the successor of the one before
\* it on its way.
ReceiverInv ==
    /\ bytes = Len(played)
    /\ Consecutive(data["D"], Len(played))
    /\ hold["unwrapper"] # 0 => hold["unwrapper"] = AtUnwrapper
    /\ Consecutive(data["C"], AtUnwrapper)
    /\ hold["fromNetwork"] # 0 => hold["fromNetwork"] = AtFromNetwork
    /\ Consecutive(data["net"], AtFromNetwork)
    /\ IntoNet <= recorded

\* So it is from the microphone to the network, until the connection is lost and
\* what was on its way is cut.
SenderInv ==
    /\ hold["toNetwork"] # 0 => hold["toNetwork"] = AtToNetwork
    /\ Consecutive(data["B"], AtToNetwork)
    /\ hold["wrapper"] # 0 => hold["wrapper"] = AtWrapper
    /\ Consecutive(data["A"], AtWrapper)
    /\ IntoA <= recorded
    /\ "A" \notin readerClosed => IntoA = recorded

OrderInv ==
    /\ lost => "net" \in readerClosed
    /\ life["output"] # "dead" => ReceiverInv
    /\ life["output"] # "dead" /\ ~ lost => SenderInv

PInv == ConnectInv /\ OrderInv

-----------------------------------------------------------------------------
(* Types and connections.                                                  *)

\* The threads and pipes are the ones the call code makes (CallHandler).
LEMMA Names ==
    /\ DOMAIN From = Copiers /\ DOMAIN To = Copiers
    /\ \A c \in Copiers : From[c] \in Pipes /\ To[c] \in Pipes /\ c \in Threads
    /\ From["wrapper"] = "A" /\ To["wrapper"] = "B"
    /\ From["toNetwork"] = "B" /\ To["toNetwork"] = "net"
    /\ From["fromNetwork"] = "net" /\ To["fromNetwork"] = "C"
    /\ From["unwrapper"] = "C" /\ To["unwrapper"] = "D"
    BY DEF From, To, Copiers, Pipes, Threads

\* Reading from and writing to a pipe keeps its type (PipedInputStream).
LEMMA PipeTypes ==
    ASSUME NEW S, NEW s \in Seq(S)
    PROVE  /\ Len(s) \in Nat
           /\ \A x \in S : Append(s, x) \in Seq(S) /\ Len(Append(s, x)) = Len(s) + 1
           /\ s # << >> => /\ Head(s) \in S /\ Tail(s) \in Seq(S)
                           /\ Len(Tail(s)) = Len(s) - 1 /\ Len(s) > 0
           /\ \A n \in 0 .. Len(s) : /\ SubSeq(s, 1, n) \in Seq(S)
                                     /\ Len(SubSeq(s, 1, n)) = n
  <1>1. \A n \in 0 .. Len(s) : \A i \in 1 .. n : s[i] \in S
    OBVIOUS
  <1> QED
    BY <1>1

\* Before a call nothing is connected but the network.
LEMMA ConnectInit == Init => ConnectInv
  <1> SUFFICES ASSUME Init PROVE ConnectInv
    OBVIOUS
  <1>1. Types
    <2>1. data \in [Pipes -> Seq(1 .. MaxFrames)] /\ \A q \in Pipes : Len(data[q]) = 0
      BY DEF Init
    <2>2. played \in Seq(0 .. MaxFrames) /\ Cap \in Nat /\ MaxFrames \in Nat
      BY PipelineAssumption DEF Init
    <2>3. unconnected \in BOOLEAN /\ lost \in BOOLEAN
      BY DEF Init
    <2> QED
      BY <2>1, <2>2, <2>3 DEF Init, Types, TypeOK, Pipes, Threads
  <1>2. SetUpInv /\ PipesConnected
    BY DEF Init, SetUpInv, PipesConnected, Pipes, Threads, Copiers
  <1> QED
    BY <1>1, <1>2 DEF ConnectInv

\* Every step of the call code and of the media threads keeps the types.
LEMMA TypesStep == Types /\ [Next]_vars => Types'
  <1> SUFFICES ASSUME Types, [Next]_vars PROVE Types'
    OBVIOUS
  <1> USE PipelineAssumption DEF Types, TypeOK, pipeVars, Become
  <1>1. CASE setUpSender
    <2>1. setUp' \in [{"sender", "receiver"} -> 0 .. 5]
      BY <1>1 DEF setUpSender, SetUp
    <2>2. connected' \subseteq Pipes
      BY <1>1 DEF setUpSender, Connect, Start, Pipes
    <2>3. life' \in [Threads -> {"new", "running", "closing", "thrown", "dead"}]
      BY <1>1 DEF setUpSender, Connect, Start
    <2> QED
      BY <1>1, <2>1, <2>2, <2>3 DEF setUpSender, SetUp
  <1>2. CASE setUpReceiver
    <2>1. setUp' \in [{"sender", "receiver"} -> 0 .. 5]
      BY <1>2 DEF setUpReceiver, SetUp
    <2>2. connected' \subseteq Pipes
      BY <1>2 DEF setUpReceiver, Connect, Start, Pipes
    <2>3. life' \in [Threads -> {"new", "running", "closing", "thrown", "dead"}]
      BY <1>2 DEF setUpReceiver, Connect, Start
    <2> QED
      BY <1>2, <2>1, <2>2, <2>3 DEF setUpReceiver, SetUp
  <1>3. CASE record
    <2>1. recorded' \in 1 .. MaxFrames
      BY <1>3 DEF record
    <2>2. "A" \in Pipes
      BY DEF Pipes
    <2>. DEFINE s == Append(data["A"], recorded')
    <2>3. s \in Seq(1 .. MaxFrames) /\ Len(s) = Len(data["A"]) + 1 /\ Len(data["A"]) \in Nat
      BY <2>1, <2>2, PipeTypes
    <2>4. data' = data \/ (data' = [data EXCEPT !["A"] = s] /\ Len(data["A"]) < Cap)
      BY <1>3 DEF record
    <2>. HIDE DEF s
    <2>5. data' \in [Pipes -> Seq(1 .. MaxFrames)] /\ \A q \in Pipes : Len(data'[q]) <= Cap
      <3>1. CASE data' = data
        BY <3>1
      <3>2. CASE data' = [data EXCEPT !["A"] = s] /\ Len(data["A"]) < Cap
        <4>1. Len(s) <= Cap
          BY <2>3, <3>2
        <4> QED
          BY <2>2, <2>3, <3>2, <4>1
      <3> QED
        BY <2>4, <3>1, <3>2
    <2> QED
      BY <1>3, <2>1, <2>5 DEF record
  <1>4. ASSUME NEW c \in Copiers, read(c) PROVE Types'
    <2>1. From[c] \in Pipes
      BY Names
    <2>. DEFINE s == Tail(data[From[c]])
    <2>2. s \in Seq(1 .. MaxFrames) /\ Len(s) = Len(data[From[c]]) - 1 /\ Len(s) \in Nat
      BY <1>4, <2>1, PipeTypes DEF read
    <2>3. Head(data[From[c]]) \in 0 .. MaxFrames
      BY <1>4, <2>1, PipeTypes DEF read
    <2>4. hold' \in [Copiers -> 0 .. MaxFrames]
      BY <1>4, <2>3 DEF read
    <2>5. data' = [data EXCEPT ![From[c]] = s]
      BY <1>4 DEF read
    <2>. HIDE DEF s
    <2>6. data' \in [Pipes -> Seq(1 .. MaxFrames)] /\ \A q \in Pipes : Len(data'[q]) <= Cap
      BY <2>1, <2>2, <2>5
    <2> QED
      BY <1>4, <2>4, <2>6 DEF read
  <1>5. ASSUME NEW c \in Copiers, write(c) PROVE Types'
    <2>1. To[c] \in Pipes /\ hold[c] \in 1 .. MaxFrames
      BY <1>5, Names DEF write
    <2>2. data' \in [Pipes -> Seq(1 .. MaxFrames)] /\ \A q \in Pipes : Len(data'[q]) <= Cap
      BY <1>5, <2>1, PipeTypes DEF write
    <2>3. hold' \in [Copiers -> 0 .. MaxFrames]
      BY <1>5 DEF write
    <2> QED
      BY <1>5, <2>2, <2>3 DEF write
  <1>6. ASSUME NEW c \in Copiers, fail(c) PROVE Types'
    <2>1. unconnected' \in BOOLEAN
      BY <1>6, Zenon DEF fail
    <2> QED
      BY <1>6, <2>1, Names DEF fail
  <1>7. ASSUME NEW c \in Copiers, closeStreams(c) PROVE Types'
    BY <1>7, Names DEF closeStreams
  <1>8. CASE play
    <2>1. "D" \in Pipes
      BY DEF Pipes
    <2>2. Head(data["D"]) \in 0 .. MaxFrames
      BY <1>8, <2>1, PipeTypes DEF play
    <2>3. data' \in [Pipes -> Seq(1 .. MaxFrames)] /\ \A q \in Pipes : Len(data'[q]) <= Cap
      BY <1>8, <2>1, PipeTypes DEF play
    <2>4. played' \in Seq(0 .. MaxFrames)
      BY <1>8, <2>2 DEF play
    <2> QED
      BY <1>8, <2>2, <2>3, <2>4 DEF play
  <1>9. CASE playLast
    BY <1>9, SMTT(30) DEF playLast, Threads, Pipes
  <1>10. ASSUME NEW p \in {"sender", "receiver"}, die(p) PROVE Types'
    BY <1>10 DEF die, Pipes
  <1>11. CASE loseConnection
    <2>1. "net" \in Pipes
      BY DEF Pipes
    <2>2. PICK n \in 0 .. Len(data["net"]) :
              data' = [data EXCEPT !["net"] = SubSeq(@, 1, n)]
      BY <1>11 DEF loseConnection
    <2>3. data' \in [Pipes -> Seq(1 .. MaxFrames)] /\ \A q \in Pipes : Len(data'[q]) <= Cap
      BY <2>1, <2>2, PipeTypes
    <2> QED
      BY <1>11, <2>1, <2>3 DEF loseConnection
  <1>12. CASE UNCHANGED vars
    BY <1>12 DEF vars
  <1> QED
    BY <1>1, <1>2, <1>3, <1>4, <1>5, <1>6, <1>7, <1>8, <1>9, <1>10, <1>11, <1>12
    DEF Next, Thread

\* No step lets a thread write to a pipe that is not connected: wrapper and unwrapper
\* run early, but nothing comes in before their output is connected.
LEMMA SetUpStep == ConnectInv /\ [Next]_vars => SetUpInv' /\ PipesConnected'
  <1> SUFFICES ASSUME ConnectInv, [Next]_vars PROVE SetUpInv' /\ PipesConnected'
    OBVIOUS
  <1>0. /\ setUp \in [{"sender", "receiver"} -> 0 .. 5]
        /\ life \in [Threads -> {"new", "running", "closing", "thrown", "dead"}]
        /\ hold \in [Copiers -> 0 .. MaxFrames]
        /\ data \in [Pipes -> Seq(1 .. MaxFrames)]
    BY DEF ConnectInv, Types, TypeOK
  <1>. USE <1>0 DEF SetUpInv, PipesConnected, Become, Running
  <1>. SetUpInv /\ PipesConnected
    BY DEF ConnectInv
  <1>. /\ {"A", "B", "net", "C", "D"} = Pipes
       /\ {"wrapper", "toNetwork", "fromNetwork", "unwrapper"} = Copiers
       /\ Copiers \cup {"input", "output"} = Threads
    BY DEF Pipes, Copiers, Threads
  <1>1. CASE setUpSender
    BY <1>1 DEF setUpSender, SetUp, Connect, Start
  <1>2. CASE setUpReceiver
    BY <1>2 DEF setUpReceiver, SetUp, Connect, Start
  <1>3. CASE record
    BY <1>3 DEF record, pipeVars
  <1>4. ASSUME NEW c \in Copiers, read(c) PROVE SetUpInv' /\ PipesConnected'
    BY <1>4, Names DEF read
  <1>5. ASSUME NEW c \in Copiers, write(c) PROVE SetUpInv' /\ PipesConnected'
    BY <1>5, Names DEF write
  <1>6. ASSUME NEW c \in Copiers, fail(c) PROVE SetUpInv' /\ PipesConnected'
    <2>1. setUp["sender"] \in 0 .. 5 /\ setUp["receiver"] \in 0 .. 5
      OBVIOUS
    <2>2. /\ hold["wrapper"] # 0 => "B" \in connected
          /\ hold["fromNetwork"] # 0 => "C" \in connected
          /\ hold["unwrapper"] # 0 => "D" \in connected
      BY <2>1
    <2>3. hold[c] # 0 => To[c] \in connected
      BY <2>2, Names
    <2> QED
      BY <1>6, <2>3 DEF fail, pipeVars
  <1>7. ASSUME NEW c \in Copiers, closeStreams(c) PROVE SetUpInv' /\ PipesConnected'
    BY <1>7 DEF closeStreams
  <1>8. CASE play
    BY <1>8 DEF play
  <1>9. CASE playLast
    BY <1>9 DEF playLast
  <1>10. ASSUME NEW p \in {"sender", "receiver"}, die(p) PROVE SetUpInv' /\ PipesConnected'
    BY <1>10 DEF die
  <1>11. CASE loseConnection
    BY <1>11 DEF loseConnection
  <1>12. CASE UNCHANGED vars
    BY <1>12 DEF vars, pipeVars
  <1> QED
    BY <1>1, <1>2, <1>3, <1>4, <1>5, <1>6, <1>7, <1>8, <1>9, <1>10, <1>11, <1>12
    DEF Next, Thread

\* The media threads never use a value of the wrong type, and no pipe holds more than
\* its capacity.
THEOREM PipelineTypeCorrect == Spec => []TypeOK
  <1>1. Init => Types
    BY ConnectInit DEF ConnectInv
  <1>2. Types /\ [Next]_vars => Types'
    BY TypesStep
  <1>3. Types => TypeOK
    BY DEF Types
  <1> QED
    BY <1>1, <1>2, <1>3, PTL DEF Spec

\* The types and the order of the set-up hold in every behaviour.
LEMMA Connections == Spec => []ConnectInv
  <1>1. Init => ConnectInv
    BY ConnectInit
  <1>2. ConnectInv /\ [Next]_vars => ConnectInv'
    BY TypesStep, SetUpStep DEF ConnectInv
  <1> QED
    BY <1>1, <1>2, PTL DEF Spec

\* No thread of a call ever writes to a pipe that is not connected yet, although the
\* wrappers are started first (SrtpProtocol.wrapStream, unwrapStream).
THEOREM NeverUnconnected == Spec => []PipesConnected
  <1>1. ConnectInv => PipesConnected
    BY DEF ConnectInv
  <1> QED
    BY <1>1, Connections, PTL

-----------------------------------------------------------------------------
(* The order of the frames.                                                *)

\* The first of consecutive frames is taken.
LEMMA TakeFirst ==
    ASSUME NEW S, NEW s \in Seq(S), s # << >>, NEW n \in Nat, Consecutive(s, n)
    PROVE  Head(s) = n + 1 /\ Consecutive(Tail(s), n + 1)
  <1>1. Len(s) \in Nat /\ Len(s) > 0 /\ Head(s) = s[1]
    OBVIOUS
  <1>2. Head(s) = n + 1
    BY <1>1 DEF Consecutive
  <1>3. Len(Tail(s)) = Len(s) - 1
    BY <1>1
  <1>4. ASSUME NEW i \in 1 .. Len(Tail(s)) PROVE Tail(s)[i] = (n + 1) + i
    <2>1. i \in Nat /\ i + 1 \in 1 .. Len(s)
      BY <1>1, <1>3
    <2>2. Tail(s)[i] = s[i + 1]
      BY <1>1, <1>3
    <2>3. s[i + 1] = n + (i + 1)
      BY <2>1 DEF Consecutive
    <2> QED
      BY <2>1, <2>2, <2>3
  <1> QED
    BY <1>2, <1>4 DEF Consecutive

\* The successor of consecutive frames is added.
LEMMA PutLast ==
    ASSUME NEW S, NEW s \in Seq(S), NEW n \in Nat, Consecutive(s, n),
           NEW x, x = n + Len(s) + 1
    PROVE  Consecutive(Append(s, x), n)
  <1>1. Len(s) \in Nat /\ Len(Append(s, x)) = Len(s) + 1
    BY DEF Consecutive
  <1>2. ASSUME NEW i \in 1 .. Len(s) + 1 PROVE Append(s, x)[i] = n + i
    <2>1. CASE i \in 1 .. Len(s)
      BY <2>1 DEF Consecutive
    <2>2. CASE i = Len(s) + 1
      BY <1>1, <2>2
    <2> QED
      BY <1>1, <2>1, <2>2
  <1> QED
    BY <1>1, <1>2 DEF Consecutive

\* The last of consecutive frames are cut off.
LEMMA CutOff ==
    ASSUME NEW S, NEW s \in Seq(S), NEW n \in Nat, Consecutive(s, n),
           NEW k \in 0 .. Len(s)
    PROVE  Consecutive(SubSeq(s, 1, k), n)
    BY DEF Consecutive

\* The counts are natural numbers.
LEMMA CountTypes ==
    ASSUME Types
    PROVE  /\ \A q \in Pipes : Len(data[q]) \in Nat
           /\ \A c \in Copiers : Held(c) \in Nat
           /\ Len(played) \in Nat /\ IntoD \in Nat /\ AtUnwrapper \in Nat
           /\ IntoC \in Nat /\ AtFromNetwork \in Nat /\ IntoNet \in Nat
           /\ AtToNetwork \in Nat /\ IntoB \in Nat /\ AtWrapper \in Nat /\ IntoA \in Nat
  <1>1. \A q \in Pipes : Len(data[q]) \in Nat
    BY DEF Types
  <1>2. Len(played) \in Nat
    BY DEF Types, TypeOK
  <1>3. /\ Len(data["A"]) \in Nat /\ Len(data["B"]) \in Nat /\ Len(data["net"]) \in Nat
        /\ Len(data["C"]) \in Nat /\ Len(data["D"]) \in Nat
    BY <1>1 DEF Pipes
  <1>4. \A c \in Copiers : Held(c) \in Nat
    BY DEF Held
  <1>5. /\ Held("wrapper") \in Nat /\ Held("toNetwork") \in Nat
        /\ Held("fromNetwork") \in Nat /\ Held("unwrapper") \in Nat
    BY <1>4, SMTT(30) DEF Copiers
  <1>6. IntoD \in Nat /\ AtUnwrapper \in Nat
    BY <1>2, <1>3, <1>5, SMTT(30) DEF IntoD, AtUnwrapper
  <1>7. IntoC \in Nat /\ AtFromNetwork \in Nat
    BY <1>3, <1>5, <1>6, SMTT(30) DEF IntoC, AtFromNetwork
  <1>8. IntoNet \in Nat /\ AtToNetwork \in Nat
    BY <1>3, <1>5, <1>7, SMTT(30) DEF IntoNet, AtToNetwork
  <1>9. IntoB \in Nat /\ AtWrapper \in Nat
    BY <1>3, <1>5, <1>8, SMTT(30) DEF IntoB, AtWrapper
  <1>10. IntoA \in Nat
    BY <1>3, <1>9 DEF IntoA
  <1> QED
    BY <1>1, <1>2, <1>4, <1>6, <1>7, <1>8, <1>9, <1>10

\* A frame that moves on leaves one place and reaches the next.
LEMMA MoveOne == \A m, n \in Nat : /\ (m + 1) + (n - 1) = m + n
                                   /\ m + (n + 1) = (m + n) + 1
                                   /\ (m + 1) + 0 = m + 1
    OBVIOUS

\* A thread that reads the next frame keeps the order (DataInputStream.readFully).
LEMMA ReadOrder ==
    ASSUME PInv, Types', NEW c \in Copiers, read(c)
    PROVE  OrderInv'
  <1>0. /\ life' = life /\ lost' = lost /\ played' = played /\ bytes' = bytes
        /\ recorded' = recorded /\ readerClosed' = readerClosed
        /\ data \in [Pipes -> Seq(1 .. MaxFrames)] /\ hold \in [Copiers -> 0 .. MaxFrames]
    BY DEF read, PInv, ConnectInv, Types, TypeOK
  <1>. SUFFICES ASSUME life["output"] # "dead", ReceiverInv, ~ lost => SenderInv
                PROVE  ReceiverInv' /\ (~ lost => SenderInv')
    BY <1>0 DEF OrderInv, PInv
  <1>t. Types
    BY DEF PInv, ConnectInv
  <1>1. CASE c = "unwrapper"
    <2>1. /\ hold["unwrapper"] = 0 /\ data["C"] # << >>
          /\ data' = [data EXCEPT !["C"] = Tail(@)]
          /\ hold' = [hold EXCEPT !["unwrapper"] = Head(data["C"])]
      BY <1>1, Names DEF read
    <2>2. /\ data'["C"] = Tail(data["C"]) /\ hold'["unwrapper"] = Head(data["C"])
          /\ \A q \in Pipes \ {"C"} : data'[q] = data[q]
          /\ \A b \in Copiers \ {"unwrapper"} : hold'[b] = hold[b]
      BY <1>0, <1>1, <2>1 DEF Pipes
    <2>. data["C"] \in Seq(1 .. MaxFrames)
      BY <1>0 DEF Pipes
    <2>3. Head(data["C"]) \in 1 .. MaxFrames /\ Head(data["C"]) # 0
      <3>1. Head(data["C"]) \in 1 .. MaxFrames
        BY <2>1, PipeTypes
      <3> QED
        BY <3>1
    <2>4. Len(data'["C"]) = Len(data["C"]) - 1
      BY <2>1, <2>2, <2>3, PipeTypes
    <2>. /\ Held("unwrapper") = 0 /\ Held("unwrapper")' = 1
         /\ \A b \in Copiers \ {"unwrapper"} : Held(b)' = Held(b)
      BY <2>1, <2>2, <2>3 DEF Held
    <2>a. /\ IntoD' = IntoD
      BY <1>0, <2>2
      DEF IntoD, Pipes, Copiers
    <2>b. AtUnwrapper' = AtUnwrapper + 1
      BY <1>0, <1>t, <2>2, <2>4, <2>a, CountTypes DEF AtUnwrapper, Pipes, Copiers
    <2>. AtUnwrapper \in Nat /\ Len(data["C"]) \in Nat
      BY <1>t, CountTypes DEF Pipes
    <2>c. IntoC' = IntoC
      <3>1. (AtUnwrapper + 1) + (Len(data["C"]) - 1) = AtUnwrapper + Len(data["C"])
        BY MoveOne
      <3> QED
        BY <2>b, <2>4, <3>1, Zenon DEF IntoC
    <2>d. /\ AtFromNetwork' = AtFromNetwork /\ IntoNet' = IntoNet /\ AtToNetwork' = AtToNetwork
          /\ IntoB' = IntoB /\ AtWrapper' = AtWrapper /\ IntoA' = IntoA
      BY <2>2, <2>c
      DEF AtFromNetwork, IntoNet, AtToNetwork, IntoB, AtWrapper, IntoA, Pipes,
          Copiers
    <2>6. Head(data["C"]) = AtUnwrapper + 1 /\ Consecutive(data'["C"], AtUnwrapper + 1)
      BY <1>t, <2>1, <2>2, <2>3, TakeFirst, CountTypes DEF ReceiverInv, SenderInv
    <2> QED
      BY <1>0, <2>2, <2>a, <2>b, <2>c, <2>d, <2>6 DEF ReceiverInv, SenderInv, Pipes, Copiers
  <1>2. CASE c = "fromNetwork"
    <2>1. /\ hold["fromNetwork"] = 0 /\ data["net"] # << >>
          /\ data' = [data EXCEPT !["net"] = Tail(@)]
          /\ hold' = [hold EXCEPT !["fromNetwork"] = Head(data["net"])]
      BY <1>2, Names DEF read
    <2>2. /\ data'["net"] = Tail(data["net"]) /\ hold'["fromNetwork"] = Head(data["net"])
          /\ \A q \in Pipes \ {"net"} : data'[q] = data[q]
          /\ \A b \in Copiers \ {"fromNetwork"} : hold'[b] = hold[b]
      BY <1>0, <1>2, <2>1 DEF Pipes
    <2>. data["net"] \in Seq(1 .. MaxFrames)
      BY <1>0 DEF Pipes
    <2>3. Head(data["net"]) \in 1 .. MaxFrames /\ Head(data["net"]) # 0
      <3>1. Head(data["net"]) \in 1 .. MaxFrames
        BY <2>1, PipeTypes
      <3> QED
        BY <3>1
    <2>4. Len(data'["net"]) = Len(data["net"]) - 1
      BY <2>1, <2>2, <2>3, PipeTypes
    <2>. /\ Held("fromNetwork") = 0 /\ Held("fromNetwork")' = 1
         /\ \A b \in Copiers \ {"fromNetwork"} : Held(b)' = Held(b)
      BY <2>1, <2>2, <2>3 DEF Held
    <2>a. /\ IntoD' = IntoD /\ AtUnwrapper' = AtUnwrapper /\ IntoC' = IntoC
      BY <1>0, <2>2
      DEF IntoD, AtUnwrapper, IntoC, Pipes, Copiers
    <2>b. AtFromNetwork' = AtFromNetwork + 1
      BY <1>0, <1>t, <2>2, <2>4, <2>a, CountTypes DEF AtFromNetwork, Pipes, Copiers
    <2>. AtFromNetwork \in Nat /\ Len(data["net"]) \in Nat
      BY <1>t, CountTypes DEF Pipes
    <2>c. IntoNet' = IntoNet
      <3>1. (AtFromNetwork + 1) + (Len(data["net"]) - 1) = AtFromNetwork + Len(data["net"])
        BY MoveOne
      <3> QED
        BY <2>b, <2>4, <3>1, Zenon DEF IntoNet
    <2>d. /\ AtToNetwork' = AtToNetwork /\ IntoB' = IntoB /\ AtWrapper' = AtWrapper
          /\ IntoA' = IntoA
      BY <2>2, <2>c
      DEF AtToNetwork, IntoB, AtWrapper, IntoA, Pipes, Copiers
    <2>6. Head(data["net"]) = AtFromNetwork + 1 /\ Consecutive(data'["net"],
         AtFromNetwork + 1)
      BY <1>t, <2>1, <2>2, <2>3, TakeFirst, CountTypes DEF ReceiverInv, SenderInv
    <2> QED
      BY <1>0, <2>2, <2>a, <2>b, <2>c, <2>d, <2>6 DEF ReceiverInv, SenderInv, Pipes, Copiers
  <1>3. CASE c = "toNetwork"
    <2>1. /\ hold["toNetwork"] = 0 /\ data["B"] # << >>
          /\ data' = [data EXCEPT !["B"] = Tail(@)]
          /\ hold' = [hold EXCEPT !["toNetwork"] = Head(data["B"])]
      BY <1>3, Names DEF read
    <2>2. /\ data'["B"] = Tail(data["B"]) /\ hold'["toNetwork"] = Head(data["B"])
          /\ \A q \in Pipes \ {"B"} : data'[q] = data[q]
          /\ \A b \in Copiers \ {"toNetwork"} : hold'[b] = hold[b]
      BY <1>0, <1>3, <2>1 DEF Pipes
    <2>. data["B"] \in Seq(1 .. MaxFrames)
      BY <1>0 DEF Pipes
    <2>3. Head(data["B"]) \in 1 .. MaxFrames /\ Head(data["B"]) # 0
      <3>1. Head(data["B"]) \in 1 .. MaxFrames
        BY <2>1, PipeTypes
      <3> QED
        BY <3>1
    <2>4. Len(data'["B"]) = Len(data["B"]) - 1
      BY <2>1, <2>2, <2>3, PipeTypes
    <2>. /\ Held("toNetwork") = 0 /\ Held("toNetwork")' = 1
         /\ \A b \in Copiers \ {"toNetwork"} : Held(b)' = Held(b)
      BY <2>1, <2>2, <2>3 DEF Held
    <2>a. /\ IntoD' = IntoD /\ AtUnwrapper' = AtUnwrapper /\ IntoC' = IntoC
          /\ AtFromNetwork' = AtFromNetwork /\ IntoNet' = IntoNet
      BY <1>0, <2>2
      DEF IntoD, AtUnwrapper, IntoC, AtFromNetwork, IntoNet, Pipes, Copiers
    <2>b. AtToNetwork' = AtToNetwork + 1
      BY <1>0, <1>t, <2>2, <2>4, <2>a, CountTypes DEF AtToNetwork, Pipes, Copiers
    <2>. AtToNetwork \in Nat /\ Len(data["B"]) \in Nat
      BY <1>t, CountTypes DEF Pipes
    <2>c. IntoB' = IntoB
      <3>1. (AtToNetwork + 1) + (Len(data["B"]) - 1) = AtToNetwork + Len(data["B"])
        BY MoveOne
      <3> QED
        BY <2>b, <2>4, <3>1, Zenon DEF IntoB
    <2>d. /\ AtWrapper' = AtWrapper /\ IntoA' = IntoA
      BY <2>2, <2>c
      DEF AtWrapper, IntoA, Pipes, Copiers
    <2>6. ~ lost => Head(data["B"]) = AtToNetwork + 1 /\ Consecutive(data'["B"],
         AtToNetwork + 1)
      BY <1>t, <2>1, <2>2, <2>3, TakeFirst, CountTypes DEF ReceiverInv, SenderInv
    <2> QED
      BY <1>0, <2>2, <2>a, <2>b, <2>c, <2>d, <2>6 DEF ReceiverInv, SenderInv, Pipes, Copiers
  <1>4. CASE c = "wrapper"
    <2>1. /\ hold["wrapper"] = 0 /\ data["A"] # << >>
          /\ data' = [data EXCEPT !["A"] = Tail(@)]
          /\ hold' = [hold EXCEPT !["wrapper"] = Head(data["A"])]
      BY <1>4, Names DEF read
    <2>2. /\ data'["A"] = Tail(data["A"]) /\ hold'["wrapper"] = Head(data["A"])
          /\ \A q \in Pipes \ {"A"} : data'[q] = data[q]
          /\ \A b \in Copiers \ {"wrapper"} : hold'[b] = hold[b]
      BY <1>0, <1>4, <2>1 DEF Pipes
    <2>. data["A"] \in Seq(1 .. MaxFrames)
      BY <1>0 DEF Pipes
    <2>3. Head(data["A"]) \in 1 .. MaxFrames /\ Head(data["A"]) # 0
      <3>1. Head(data["A"]) \in 1 .. MaxFrames
        BY <2>1, PipeTypes
      <3> QED
        BY <3>1
    <2>4. Len(data'["A"]) = Len(data["A"]) - 1
      BY <2>1, <2>2, <2>3, PipeTypes
    <2>. /\ Held("wrapper") = 0 /\ Held("wrapper")' = 1
         /\ \A b \in Copiers \ {"wrapper"} : Held(b)' = Held(b)
      BY <2>1, <2>2, <2>3 DEF Held
    <2>a. /\ IntoD' = IntoD /\ AtUnwrapper' = AtUnwrapper /\ IntoC' = IntoC
          /\ AtFromNetwork' = AtFromNetwork /\ IntoNet' = IntoNet /\ AtToNetwork' = AtToNetwork
          /\ IntoB' = IntoB
      BY <1>0, <2>2
      DEF IntoD, AtUnwrapper, IntoC, AtFromNetwork, IntoNet, AtToNetwork, IntoB,
          Pipes, Copiers
    <2>b. AtWrapper' = AtWrapper + 1
      BY <1>0, <1>t, <2>2, <2>4, <2>a, CountTypes DEF AtWrapper, Pipes, Copiers
    <2>. AtWrapper \in Nat /\ Len(data["A"]) \in Nat
      BY <1>t, CountTypes DEF Pipes
    <2>c. IntoA' = IntoA
      <3>1. (AtWrapper + 1) + (Len(data["A"]) - 1) = AtWrapper + Len(data["A"])
        BY MoveOne
      <3> QED
        BY <2>b, <2>4, <3>1, Zenon DEF IntoA
    <2>6. ~ lost => Head(data["A"]) = AtWrapper + 1 /\ Consecutive(data'["A"],
         AtWrapper + 1)
      BY <1>t, <2>1, <2>2, <2>3, TakeFirst, CountTypes DEF ReceiverInv, SenderInv
    <2> QED
      BY <1>0, <2>2, <2>a, <2>b, <2>c, <2>6 DEF ReceiverInv, SenderInv, Pipes, Copiers
  <1> QED
    BY <1>1, <1>2, <1>3, <1>4 DEF Copiers

\* What has left a pipe has been in it.
LEMMA CountOrder ==
    ASSUME Types
    PROVE  AtToNetwork <= IntoA
  <1>1. /\ AtToNetwork \in Nat /\ IntoB \in Nat /\ AtWrapper \in Nat /\ IntoA \in Nat
        /\ Len(data["A"]) \in Nat /\ Len(data["B"]) \in Nat /\ Held("wrapper") \in Nat
    BY CountTypes DEF Pipes, Copiers
  <1>2. AtToNetwork <= IntoB /\ IntoB <= AtWrapper /\ AtWrapper <= IntoA
    BY <1>1 DEF IntoB, AtWrapper, IntoA
  <1> QED
    BY <1>1, <1>2

\* A thread that writes the frame it holds keeps the order.
LEMMA WriteOrder ==
    ASSUME PInv, Types', NEW c \in Copiers, write(c)
    PROVE  OrderInv'
  <1>0. /\ life' = life /\ lost' = lost /\ played' = played /\ bytes' = bytes
        /\ recorded' = recorded /\ readerClosed' = readerClosed
        /\ data \in [Pipes -> Seq(1 .. MaxFrames)] /\ hold \in [Copiers -> 0 .. MaxFrames]
        /\ recorded \in Nat /\ played \in Seq(0 .. MaxFrames)
    BY PipelineAssumption DEF write, PInv, ConnectInv, Types, TypeOK
  <1>. SUFFICES ASSUME life["output"] # "dead", ReceiverInv, ~ lost => SenderInv
                PROVE  ReceiverInv' /\ (~ lost => SenderInv')
    BY <1>0 DEF OrderInv, PInv
  <1>t. Types
    BY DEF PInv, ConnectInv
  <1>1. CASE c = "unwrapper"
    <2>1. /\ hold["unwrapper"] # 0
          /\ data' = [data EXCEPT !["D"] = Append(@, hold["unwrapper"])]
          /\ hold' = [hold EXCEPT !["unwrapper"] = 0]
      BY <1>1, Names DEF write
    <2>2. /\ data'["D"] = Append(data["D"], hold["unwrapper"]) /\ hold'["unwrapper"] = 0
          /\ \A q \in Pipes \ {"D"} : data'[q] = data[q]
          /\ \A b \in Copiers \ {"unwrapper"} : hold'[b] = hold[b]
      BY <1>0, <1>1, <2>1 DEF Pipes
    <2>. data["D"] \in Seq(1 .. MaxFrames) /\ hold["unwrapper"] \in 1 .. MaxFrames
      BY <1>0, <1>1, <2>1 DEF Pipes
    <2>3. /\ Held("unwrapper") = 1 /\ Held("unwrapper")' = 0
          /\ \A b \in Copiers \ {"unwrapper"} : Held(b)' = Held(b)
      BY <2>1, <2>2 DEF Held
    <2>4. Len(data'["D"]) = Len(data["D"]) + 1
      BY <2>2, PipeTypes
    <2>. Len(played) \in Nat /\ IntoD \in Nat /\ Len(data["D"]) \in Nat
      BY <1>t, CountTypes DEF Pipes
    <2>b. IntoD' = IntoD + 1
      BY <1>0, <2>4, MoveOne DEF IntoD
    <2>c. AtUnwrapper' = AtUnwrapper
      BY <2>b, <2>3, <2>4, MoveOne DEF AtUnwrapper
    <2>d. /\ IntoC' = IntoC /\ AtFromNetwork' = AtFromNetwork /\ IntoNet' = IntoNet
          /\ AtToNetwork' = AtToNetwork /\ IntoB' = IntoB /\ AtWrapper' = AtWrapper
          /\ IntoA' = IntoA
      BY <2>2, <2>3, <2>c
      DEF IntoC, AtFromNetwork, IntoNet, AtToNetwork, IntoB, AtWrapper, IntoA,
          Pipes, Copiers
    <2>e. Consecutive(data'["D"], Len(played))
      <3>1. hold["unwrapper"] = IntoD + 1
        BY <2>1, <2>3 DEF AtUnwrapper, ReceiverInv, SenderInv
      <3>2. Len(played) \in Nat /\ IntoD = Len(played) + Len(data["D"])
        BY <1>t, CountTypes DEF IntoD
      <3>3. Consecutive(data["D"], Len(played))
        BY DEF ReceiverInv, SenderInv
      <3>4. hold["unwrapper"] = Len(played) + Len(data["D"]) + 1
        BY <3>1, <3>2
      <3>5. Consecutive(Append(data["D"], hold["unwrapper"]), Len(played))
        BY <3>2, <3>3, <3>4, PutLast
      <3> QED
        BY <2>2, <3>5
    <2> QED
      BY <1>0, <2>2, <2>b, <2>c, <2>d, <2>e DEF ReceiverInv, SenderInv, Pipes, Copiers
  <1>2. CASE c = "fromNetwork"
    <2>1. /\ hold["fromNetwork"] # 0
          /\ data' = [data EXCEPT !["C"] = Append(@, hold["fromNetwork"])]
          /\ hold' = [hold EXCEPT !["fromNetwork"] = 0]
      BY <1>2, Names DEF write
    <2>2. /\ data'["C"] = Append(data["C"], hold["fromNetwork"]) /\ hold'["fromNetwork"] = 0
          /\ \A q \in Pipes \ {"C"} : data'[q] = data[q]
          /\ \A b \in Copiers \ {"fromNetwork"} : hold'[b] = hold[b]
      BY <1>0, <1>2, <2>1 DEF Pipes
    <2>. data["C"] \in Seq(1 .. MaxFrames) /\ hold["fromNetwork"] \in 1 .. MaxFrames
      BY <1>0, <1>2, <2>1 DEF Pipes
    <2>3. /\ Held("fromNetwork") = 1 /\ Held("fromNetwork")' = 0
          /\ \A b \in Copiers \ {"fromNetwork"} : Held(b)' = Held(b)
      BY <2>1, <2>2 DEF Held
    <2>4. Len(data'["C"]) = Len(data["C"]) + 1
      BY <2>2, PipeTypes
    <2>a. /\ IntoD' = IntoD /\ AtUnwrapper' = AtUnwrapper
      BY <1>0, <2>2, <2>3
      DEF IntoD, AtUnwrapper, Pipes, Copiers
    <2>. AtUnwrapper \in Nat /\ IntoC \in Nat /\ Len(data["C"]) \in Nat
      BY <1>t, CountTypes DEF Pipes
    <2>b. IntoC' = IntoC + 1
      BY <1>0, <2>4, <2>a, MoveOne DEF IntoC
    <2>c. AtFromNetwork' = AtFromNetwork
      BY <2>b, <2>3, <2>4, MoveOne DEF AtFromNetwork
    <2>d. /\ IntoNet' = IntoNet /\ AtToNetwork' = AtToNetwork /\ IntoB' = IntoB
          /\ AtWrapper' = AtWrapper /\ IntoA' = IntoA
      BY <2>2, <2>3, <2>c
      DEF IntoNet, AtToNetwork, IntoB, AtWrapper, IntoA, Pipes, Copiers
    <2>e. Consecutive(data'["C"], AtUnwrapper)
      <3>1. hold["fromNetwork"] = IntoC + 1
        BY <2>1, <2>3 DEF AtFromNetwork, ReceiverInv, SenderInv
      <3>2. AtUnwrapper \in Nat /\ IntoC = AtUnwrapper + Len(data["C"])
        BY <1>t, CountTypes DEF IntoC
      <3>3. Consecutive(data["C"], AtUnwrapper)
        BY DEF ReceiverInv, SenderInv
      <3>4. hold["fromNetwork"] = AtUnwrapper + Len(data["C"]) + 1
        BY <3>1, <3>2
      <3>5. Consecutive(Append(data["C"], hold["fromNetwork"]), AtUnwrapper)
        BY <3>2, <3>3, <3>4, PutLast
      <3> QED
        BY <2>2, <3>5
    <2> QED
      BY <1>0, <2>2, <2>a, <2>b, <2>c, <2>d, <2>e DEF ReceiverInv, SenderInv, Pipes, Copiers
  <1>3. CASE c = "toNetwork"
    <2>. ~ lost
      BY <1>3, Names DEF write, PInv, OrderInv
    <2>1. /\ hold["toNetwork"] # 0
          /\ data' = [data EXCEPT !["net"] = Append(@, hold["toNetwork"])]
          /\ hold' = [hold EXCEPT !["toNetwork"] = 0]
      BY <1>3, Names DEF write
    <2>2. /\ data'["net"] = Append(data["net"], hold["toNetwork"]) /\ hold'["toNetwork"] = 0
          /\ \A q \in Pipes \ {"net"} : data'[q] = data[q]
          /\ \A b \in Copiers \ {"toNetwork"} : hold'[b] = hold[b]
      BY <1>0, <1>3, <2>1 DEF Pipes
    <2>. data["net"] \in Seq(1 .. MaxFrames) /\ hold["toNetwork"] \in 1 .. MaxFrames
      BY <1>0, <1>3, <2>1 DEF Pipes
    <2>3. /\ Held("toNetwork") = 1 /\ Held("toNetwork")' = 0
          /\ \A b \in Copiers \ {"toNetwork"} : Held(b)' = Held(b)
      BY <2>1, <2>2 DEF Held
    <2>4. Len(data'["net"]) = Len(data["net"]) + 1
      BY <2>2, PipeTypes
    <2>a. /\ IntoD' = IntoD /\ AtUnwrapper' = AtUnwrapper /\ IntoC' = IntoC
          /\ AtFromNetwork' = AtFromNetwork
      BY <1>0, <2>2, <2>3
      DEF IntoD, AtUnwrapper, IntoC, AtFromNetwork, Pipes, Copiers
    <2>. AtFromNetwork \in Nat /\ IntoNet \in Nat /\ Len(data["net"]) \in Nat
      BY <1>t, CountTypes DEF Pipes
    <2>b. IntoNet' = IntoNet + 1
      BY <1>0, <2>4, <2>a, MoveOne DEF IntoNet
    <2>c. AtToNetwork' = AtToNetwork
      BY <2>b, <2>3, <2>4, MoveOne DEF AtToNetwork
    <2>d. /\ IntoB' = IntoB /\ AtWrapper' = AtWrapper /\ IntoA' = IntoA
      BY <2>2, <2>3, <2>c
      DEF IntoB, AtWrapper, IntoA, Pipes, Copiers
    <2>e. Consecutive(data'["net"], AtFromNetwork)
      <3>1. hold["toNetwork"] = IntoNet + 1
        BY <2>1, <2>3 DEF AtToNetwork, ReceiverInv, SenderInv
      <3>2. AtFromNetwork \in Nat /\ IntoNet = AtFromNetwork + Len(data["net"])
        BY <1>t, CountTypes DEF IntoNet
      <3>3. Consecutive(data["net"], AtFromNetwork)
        BY DEF ReceiverInv, SenderInv
      <3>4. hold["toNetwork"] = AtFromNetwork + Len(data["net"]) + 1
        BY <3>1, <3>2
      <3>5. Consecutive(Append(data["net"], hold["toNetwork"]), AtFromNetwork)
        BY <3>2, <3>3, <3>4, PutLast
      <3> QED
        BY <2>2, <3>5
    <2>f. IntoNet' <= recorded
      <3>1. hold["toNetwork"] # 0 /\ AtToNetwork = IntoNet + 1
        BY <2>1, <2>3 DEF AtToNetwork
      <3>2. AtToNetwork <= IntoA /\ IntoA <= recorded /\ IntoA \in Nat
        BY <1>t, CountOrder, CountTypes DEF SenderInv
      <3> QED
        BY <1>0, <2>b, <3>1, <3>2
    <2> QED
      BY <1>0, <2>2, <2>a, <2>b, <2>c, <2>d, <2>e, <2>f DEF ReceiverInv, SenderInv,
           Pipes, Copiers
  <1>4. CASE c = "wrapper"
    <2>1. /\ hold["wrapper"] # 0
          /\ data' = [data EXCEPT !["B"] = Append(@, hold["wrapper"])]
          /\ hold' = [hold EXCEPT !["wrapper"] = 0]
      BY <1>4, Names DEF write
    <2>2. /\ data'["B"] = Append(data["B"], hold["wrapper"]) /\ hold'["wrapper"] = 0
          /\ \A q \in Pipes \ {"B"} : data'[q] = data[q]
          /\ \A b \in Copiers \ {"wrapper"} : hold'[b] = hold[b]
      BY <1>0, <1>4, <2>1 DEF Pipes
    <2>. data["B"] \in Seq(1 .. MaxFrames) /\ hold["wrapper"] \in 1 .. MaxFrames
      BY <1>0, <1>4, <2>1 DEF Pipes
    <2>3. /\ Held("wrapper") = 1 /\ Held("wrapper")' = 0
          /\ \A b \in Copiers \ {"wrapper"} : Held(b)' = Held(b)
      BY <2>1, <2>2 DEF Held
    <2>4. Len(data'["B"]) = Len(data["B"]) + 1
      BY <2>2, PipeTypes
    <2>a. /\ IntoD' = IntoD /\ AtUnwrapper' = AtUnwrapper /\ IntoC' = IntoC
          /\ AtFromNetwork' = AtFromNetwork /\ IntoNet' = IntoNet /\ AtToNetwork' = AtToNetwork
      BY <1>0, <2>2, <2>3
      DEF IntoD, AtUnwrapper, IntoC, AtFromNetwork, IntoNet, AtToNetwork, Pipes,
          Copiers
    <2>. AtToNetwork \in Nat /\ IntoB \in Nat /\ Len(data["B"]) \in Nat
      BY <1>t, CountTypes DEF Pipes
    <2>b. IntoB' = IntoB + 1
      BY <1>0, <2>4, <2>a, MoveOne DEF IntoB
    <2>c. AtWrapper' = AtWrapper
      BY <2>b, <2>3, <2>4, MoveOne DEF AtWrapper
    <2>d. /\ IntoA' = IntoA
      BY <2>2, <2>3, <2>c
      DEF IntoA, Pipes, Copiers
    <2>e. ~ lost => Consecutive(data'["B"], AtToNetwork)
      <3>1. ~ lost => hold["wrapper"] = IntoB + 1
        BY <2>1, <2>3 DEF AtWrapper, ReceiverInv, SenderInv
      <3>2. AtToNetwork \in Nat /\ IntoB = AtToNetwork + Len(data["B"])
        BY <1>t, CountTypes DEF IntoB
      <3>3. ~ lost => Consecutive(data["B"], AtToNetwork)
        BY DEF ReceiverInv, SenderInv
      <3>4. ~ lost => hold["wrapper"] = AtToNetwork + Len(data["B"]) + 1
        BY <3>1, <3>2
      <3>5. ~ lost => Consecutive(Append(data["B"], hold["wrapper"]), AtToNetwork)
        BY <3>2, <3>3, <3>4, PutLast
      <3> QED
        BY <2>2, <3>5
    <2> QED
      BY <1>0, <2>2, <2>a, <2>b, <2>c, <2>d, <2>e DEF ReceiverInv, SenderInv, Pipes, Copiers
  <1> QED
    BY <1>1, <1>2, <1>3, <1>4 DEF Copiers

\* A step that moves no frame keeps the order.
LEMMA StillOrder ==
    ASSUME OrderInv, UNCHANGED <<data, hold, bytes, played, recorded, lost>>,
           readerClosed \subseteq readerClosed',
           life'["output"] # "dead" => life["output"] # "dead"
    PROVE  OrderInv'
  <1>1. ReceiverInv' = ReceiverInv
    BY DEF ReceiverInv, Held, IntoD, AtUnwrapper, IntoC, AtFromNetwork, IntoNet
  <1>2. SenderInv => SenderInv'
    BY DEF SenderInv, Held, IntoD, AtUnwrapper, IntoC, AtFromNetwork, IntoNet,
           AtToNetwork, IntoB, AtWrapper, IntoA
  <1> QED
    BY <1>1, <1>2 DEF OrderInv

\* The microphone adds the next frame to A, or loses it for good once A is closed
\* (AudioInputWorker.run).
LEMMA RecordOrder ==
    ASSUME PInv, Types', record
    PROVE  OrderInv'
  <1>0. /\ life' = life /\ lost' = lost /\ played' = played /\ bytes' = bytes
        /\ recorded' = recorded + 1 /\ readerClosed' = readerClosed /\ hold' = hold
        /\ data \in [Pipes -> Seq(1 .. MaxFrames)] /\ recorded \in Nat
        /\ data' \in [Pipes -> Seq(1 .. MaxFrames)]
    BY PipelineAssumption DEF record, PInv, ConnectInv, Types, TypeOK
  <1>. SUFFICES ASSUME life["output"] # "dead", ReceiverInv, ~ lost => SenderInv
                PROVE  ReceiverInv' /\ (~ lost => SenderInv')
    BY <1>0 DEF OrderInv, PInv
  <1>t. Types
    BY DEF PInv, ConnectInv
  <1>. /\ AtWrapper \in Nat /\ IntoA \in Nat /\ IntoNet \in Nat /\ Len(data["A"]) \in Nat
       /\ data["A"] \in Seq(1 .. MaxFrames)
    BY <1>0, <1>t, CountTypes DEF Pipes
  <1>1. \A q \in Pipes \ {"A"} : data'[q] = data[q]
    BY <1>0 DEF record
  <1>2. /\ IntoD' = IntoD /\ AtUnwrapper' = AtUnwrapper /\ IntoC' = IntoC
        /\ AtFromNetwork' = AtFromNetwork /\ IntoNet' = IntoNet
        /\ AtToNetwork' = AtToNetwork /\ IntoB' = IntoB /\ AtWrapper' = AtWrapper
    BY <1>0, <1>1 DEF Held, IntoD, AtUnwrapper, IntoC, AtFromNetwork, IntoNet,
                      AtToNetwork, IntoB, AtWrapper, Pipes
  <1>3. IntoNet <= recorded + 1
    BY <1>0 DEF ReceiverInv
  <1>4. ReceiverInv'
    BY <1>0, <1>1, <1>2, <1>3 DEF ReceiverInv, Pipes
  <1>5. CASE data' = data /\ "A" \in readerClosed
    <2>1. IntoA' = IntoA
      BY <1>2, <1>5 DEF IntoA
    <2>2. ~ lost => IntoA <= recorded + 1
      BY <1>0 DEF SenderInv
    <2> QED
      BY <1>0, <1>2, <1>4, <1>5, <2>1, <2>2 DEF SenderInv
  <1>6. CASE data' = [data EXCEPT !["A"] = Append(@, recorded')] /\ "A" \notin readerClosed
    <2>1. data'["A"] = Append(data["A"], recorded + 1)
      BY <1>0, <1>6 DEF Pipes
    <2>2. Len(data'["A"]) = Len(data["A"]) + 1
      BY <1>0, <2>1 DEF Pipes
    <2>3. IntoA' = IntoA + 1
      BY <1>2, <2>2, MoveOne DEF IntoA
    <2>4. ~ lost => IntoA = recorded
      BY <1>6 DEF SenderInv
    <2>5. IntoA = AtWrapper + Len(data["A"])
      BY DEF IntoA
    <2>6. ~ lost => Consecutive(data'["A"], AtWrapper)
      BY <2>1, <2>4, <2>5, PutLast DEF SenderInv
    <2>7. ~ lost => IntoA' = recorded' /\ IntoA' <= recorded'
      BY <1>0, <2>3, <2>4
    <2> QED
      BY <1>0, <1>1, <1>2, <1>4, <2>6, <2>7 DEF SenderInv, Pipes
  <1> QED
    BY <1>5, <1>6 DEF record

\* The player takes the next frame (AudioOutputWorker.run).
LEMMA PlayOrder ==
    ASSUME PInv, Types', play
    PROVE  OrderInv'
  <1>0. /\ life' = life /\ lost' = lost /\ hold' = hold
        /\ recorded' = recorded /\ readerClosed' = readerClosed
        /\ data["D"] # << >> /\ bytes' = Head(data["D"]) /\ played' = Append(played, bytes')
        /\ data' = [data EXCEPT !["D"] = Tail(@)]
        /\ data \in [Pipes -> Seq(1 .. MaxFrames)] /\ played \in Seq(0 .. MaxFrames)
    BY DEF play, PInv, ConnectInv, Types, TypeOK
  <1>. SUFFICES ASSUME life["output"] # "dead", ReceiverInv, ~ lost => SenderInv
                PROVE  ReceiverInv' /\ (~ lost => SenderInv')
    BY <1>0 DEF OrderInv, PInv
  <1>t. Types
    BY DEF PInv, ConnectInv
  <1>. /\ Len(played) \in Nat /\ IntoD \in Nat /\ Len(data["D"]) \in Nat
       /\ data["D"] \in Seq(1 .. MaxFrames)
    BY <1>0, <1>t, CountTypes DEF Pipes
  <1>1. data'["D"] = Tail(data["D"]) /\ \A q \in Pipes \ {"D"} : data'[q] = data[q]
    BY <1>0 DEF Pipes
  <1>2. Head(data["D"]) = Len(played) + 1 /\ Consecutive(data'["D"], Len(played) + 1)
    BY <1>0, <1>1, TakeFirst DEF ReceiverInv
  <1>3. Len(played') = Len(played) + 1 /\ Len(data'["D"]) = Len(data["D"]) - 1
    <2>1. /\ Head(data["D"]) \in 1 .. MaxFrames
          /\ Len(Tail(data["D"])) = Len(data["D"]) - 1
      BY <1>0, PipeTypes
    <2>2. bytes' \in 0 .. MaxFrames
      BY <1>0, <2>1
    <2>3. Len(Append(played, bytes')) = Len(played) + 1
      BY <1>0, <2>2, PipeTypes
    <2> QED
      BY <1>0, <1>1, <2>1, <2>3
  <1>4. IntoD' = IntoD
    <2>1. IntoD' = (Len(played) + 1) + (Len(data["D"]) - 1)
      BY <1>3 DEF IntoD
    <2> QED
      BY <2>1, MoveOne DEF IntoD
  <1>5. /\ AtUnwrapper' = AtUnwrapper /\ IntoC' = IntoC
        /\ AtFromNetwork' = AtFromNetwork /\ IntoNet' = IntoNet
        /\ AtToNetwork' = AtToNetwork /\ IntoB' = IntoB /\ AtWrapper' = AtWrapper
        /\ IntoA' = IntoA
    BY <1>0, <1>1, <1>4 DEF Held, AtUnwrapper, IntoC, AtFromNetwork, IntoNet,
                            AtToNetwork, IntoB, AtWrapper, IntoA, Pipes
  <1>6. ReceiverInv'
    BY <1>0, <1>1, <1>2, <1>3, <1>5 DEF ReceiverInv, Pipes
  <1>7. ~ lost => SenderInv'
    BY <1>0, <1>1, <1>5 DEF SenderInv, Pipes
  <1> QED
    BY <1>6, <1>7

\* A broken connection cuts off the last frames only.
LEMMA LoseOrder ==
    ASSUME PInv, Types', loseConnection
    PROVE  OrderInv'
  <1>0. /\ life' = life /\ hold' = hold /\ played' = played /\ bytes' = bytes
        /\ recorded' = recorded /\ readerClosed' = readerClosed \cup {"net"} /\ lost'
        /\ data \in [Pipes -> Seq(1 .. MaxFrames)] /\ recorded \in Nat
    BY PipelineAssumption DEF loseConnection, PInv, ConnectInv, Types, TypeOK
  <1>. SUFFICES ASSUME life["output"] # "dead", ReceiverInv
                PROVE  ReceiverInv'
    BY <1>0 DEF OrderInv, PInv
  <1>t. Types
    BY DEF PInv, ConnectInv
  <1>1. PICK n \in 0 .. Len(data["net"]) : data' = [data EXCEPT !["net"] = SubSeq(@, 1, n)]
    BY DEF loseConnection
  <1>. /\ AtFromNetwork \in Nat /\ IntoNet \in Nat /\ Len(data["net"]) \in Nat
       /\ data["net"] \in Seq(1 .. MaxFrames)
    BY <1>0, <1>t, CountTypes DEF Pipes
  <1>2. /\ data'["net"] = SubSeq(data["net"], 1, n)
        /\ \A q \in Pipes \ {"net"} : data'[q] = data[q]
    BY <1>0, <1>1 DEF Pipes
  <1>3. Consecutive(data'["net"], AtFromNetwork) /\ Len(data'["net"]) = n
    BY <1>2, CutOff, PipeTypes DEF ReceiverInv
  <1>4. /\ IntoD' = IntoD /\ AtUnwrapper' = AtUnwrapper /\ IntoC' = IntoC
        /\ AtFromNetwork' = AtFromNetwork
    BY <1>0, <1>2 DEF Held, IntoD, AtUnwrapper, IntoC, AtFromNetwork, Pipes
  <1>5. IntoNet' <= recorded
    <2>1. IntoNet' = AtFromNetwork + n
      BY <1>3, <1>4 DEF IntoNet
    <2>2. AtFromNetwork + Len(data["net"]) <= recorded
      BY DEF ReceiverInv, IntoNet
    <2> QED
      BY <1>0, <2>1, <2>2
  <1> QED
    BY <1>0, <1>2, <1>3, <1>4, <1>5 DEF ReceiverInv, Pipes

\* Every step keeps the order of the frames.
LEMMA OrderStep == PInv /\ [Next]_vars => OrderInv'
  <1> SUFFICES ASSUME PInv, [Next]_vars PROVE OrderInv'
    OBVIOUS
  <1>0. Types' /\ OrderInv
    BY TypesStep DEF PInv, ConnectInv
  <1>. life \in [Threads -> {"new", "running", "closing", "thrown", "dead"}]
    BY DEF PInv, ConnectInv, Types, TypeOK
  <1>1. CASE setUpSender
    BY <1>0, <1>1, StillOrder DEF setUpSender, SetUp, Connect, Start, Become, Threads
  <1>2. CASE setUpReceiver
    <2>1. life'["output"] # "dead" => life["output"] # "dead"
      BY <1>2 DEF setUpReceiver, SetUp, Connect, Start, Become, Threads, PInv, ConnectInv,
                  SetUpInv
    <2> QED
      BY <1>0, <1>2, <2>1, StillOrder DEF setUpReceiver, SetUp
  <1>3. CASE record
    BY <1>0, <1>3, RecordOrder
  <1>4. ASSUME NEW c \in Copiers, read(c) PROVE OrderInv'
    BY <1>0, <1>4, ReadOrder
  <1>5. ASSUME NEW c \in Copiers, write(c) PROVE OrderInv'
    BY <1>0, <1>5, WriteOrder
  <1>6. ASSUME NEW c \in Copiers, fail(c) PROVE OrderInv'
    BY <1>0, <1>6, StillOrder DEF fail, Become, pipeVars, Copiers
  <1>7. ASSUME NEW c \in Copiers, closeStreams(c) PROVE OrderInv'
    BY <1>0, <1>7, StillOrder DEF closeStreams, Become, Copiers
  <1>8. CASE play
    BY <1>0, <1>8, PlayOrder
  <1>9. CASE playLast
    BY <1>0, <1>9 DEF playLast, Become, OrderInv, Threads
  <1>10. ASSUME NEW p \in {"sender", "receiver"}, die(p) PROVE OrderInv'
    BY <1>0, <1>10, StillOrder DEF die
  <1>11. CASE loseConnection
    BY <1>0, <1>11, LoseOrder
  <1>12. CASE UNCHANGED vars
    BY <1>0, <1>12, StillOrder DEF vars, pipeVars
  <1> QED
    BY <1>1, <1>2, <1>3, <1>4, <1>5, <1>6, <1>7, <1>8, <1>9, <1>10, <1>11, <1>12
    DEF Next, Thread

-----------------------------------------------------------------------------
(* The refinement.                                                         *)

\* Nothing is on its way before the call.
LEMMA PipelineInit == Init => PInv
  <1> SUFFICES ASSUME Init PROVE PInv
    OBVIOUS
  <1>1. ConnectInv
    BY ConnectInit
  <1>2. \A q \in Pipes : data[q] = << >> /\ Len(data[q]) = 0
    BY DEF Init
  <1>3. \A c \in Copiers : hold[c] = 0 /\ Held(c) = 0
    BY DEF Init, Held
  <1>4. Len(played) = 0 /\ bytes = 0 /\ recorded = 0 /\ lost = FALSE
    BY DEF Init
  <1>5. /\ IntoD = 0 /\ AtUnwrapper = 0 /\ IntoC = 0 /\ AtFromNetwork = 0 /\ IntoNet = 0
        /\ AtToNetwork = 0 /\ IntoB = 0 /\ AtWrapper = 0 /\ IntoA = 0
    BY <1>2, <1>3, <1>4 DEF IntoD, AtUnwrapper, IntoC, AtFromNetwork, IntoNet,
                            AtToNetwork, IntoB, AtWrapper, IntoA, Pipes, Copiers
  <1>6. \A q \in Pipes : Consecutive(data[q], 0)
    BY <1>2 DEF Consecutive
  <1>7. ReceiverInv
    BY <1>2, <1>3, <1>4, <1>5, <1>6 DEF ReceiverInv, Pipes, Copiers
  <1>8. SenderInv
    BY <1>2, <1>3, <1>4, <1>5, <1>6 DEF SenderInv, Pipes, Copiers
  <1> QED
    BY <1>1, <1>4, <1>7, <1>8 DEF PInv, OrderInv

\* The invariant holds in every behaviour.
THEOREM FramesInOrder == Spec => []PInv
  <1>1. Init => PInv
    BY PipelineInit
  <1>2. PInv /\ [Next]_vars => PInv'
    BY TypesStep, SetUpStep, OrderStep DEF PInv, ConnectInv
  <1> QED
    BY <1>1, <1>2, PTL DEF Spec

\* Each step of the media path is a step of AudioPath, or none: only the microphone
\* counts a frame, and only the player plays one, the next one of its order.
LEMMA PathStep == PInv /\ [Next]_vars => [Path!Next]_(Path!vars)
  <1> SUFFICES ASSUME PInv, [Next]_vars PROVE [Path!Next]_(Path!vars)
    OBVIOUS
  <1>. /\ life \in [Threads -> {"new", "running", "closing", "thrown", "dead"}]
       /\ data \in [Pipes -> Seq(1 .. MaxFrames)]
       /\ setUp \in [{"sender", "receiver"} -> 0 .. 5]
    BY DEF PInv, ConnectInv, Types, TypeOK
  <1>. DEFINE Same == UNCHANGED <<recorded, played, life["output"]>>
  <1>s. Same => UNCHANGED Path!vars
    BY DEF Path!vars
  <1>. HIDE DEF Same
  <1>1. CASE setUpSender
    <2>1. Same
      BY <1>1 DEF Same, setUpSender, SetUp, Connect, Start, Become, Threads
    <2> QED
      BY <1>s, <2>1
  <1>2. CASE setUpReceiver
    <2>1. UNCHANGED <<recorded, played>>
      BY <1>2 DEF setUpReceiver, SetUp
    <2>2. life["output"] = life'["output"] \/ (life["output"] = "new" /\ life'["output"] = "running")
      BY <1>2 DEF setUpReceiver, SetUp, Connect, Start, Become, Threads, PInv, ConnectInv,
                  SetUpInv
    <2> QED
      BY <2>1, <2>2 DEF Path!vars
  <1>3. CASE record
    BY <1>3 DEF record, Path!Next, Path!Record
  <1>4. ASSUME NEW c \in Copiers, read(c) PROVE Same
    BY <1>4 DEF Same, read
  <1>5. ASSUME NEW c \in Copiers, write(c) PROVE Same
    BY <1>5 DEF Same, write
  <1>6. ASSUME NEW c \in Copiers, fail(c) PROVE Same
    BY <1>6 DEF Same, fail, Become, Copiers
  <1>7. ASSUME NEW c \in Copiers, closeStreams(c) PROVE Same
    BY <1>7 DEF Same, closeStreams, Become, Copiers
  <1>8. CASE play
    <2>1. life["output"] # "dead" /\ ReceiverInv /\ Types
      BY <1>8 DEF play, Running, PInv, OrderInv, ConnectInv
    <2>2. data["D"] \in Seq(1 .. MaxFrames) /\ data["D"] # << >>
      BY <1>8 DEF play, Pipes
    <2>3. Head(data["D"]) = Len(played) + 1
      BY <2>1, <2>2, TakeFirst, CountTypes DEF ReceiverInv
    <2>4. Len(played) < recorded
      <3>1. /\ Len(data["D"]) \in Nat /\ Len(data["D"]) > 0
        BY <2>2
      <3>2. /\ Held("unwrapper") \in Nat /\ Held("fromNetwork") \in Nat
            /\ Len(data["C"]) \in Nat /\ Len(data["net"]) \in Nat /\ Len(played) \in Nat
        BY <2>1, CountTypes DEF Pipes, Copiers
      <3>3. /\ IntoD \in Nat /\ AtUnwrapper \in Nat /\ IntoC \in Nat
            /\ AtFromNetwork \in Nat /\ IntoNet \in Nat /\ recorded \in Nat
        BY <2>1, CountTypes, PipelineAssumption DEF Types, TypeOK
      <3>4. Len(played) < IntoD
        BY <3>1, <3>2 DEF IntoD
      <3>5. IntoD <= AtUnwrapper /\ AtUnwrapper <= IntoC
        BY <3>2, <3>3 DEF AtUnwrapper, IntoC
      <3>6. IntoC <= AtFromNetwork /\ AtFromNetwork <= IntoNet
        BY <3>2, <3>3 DEF AtFromNetwork, IntoNet
      <3>7. IntoNet <= recorded
        BY <2>1 DEF ReceiverInv
      <3> QED
        BY <3>2, <3>3, <3>4, <3>5, <3>6, <3>7
    <2> QED
      BY <1>8, <2>1, <2>3, <2>4 DEF play, Path!Next, Path!Play
  <1>9. CASE playLast
    <2>1. life["output"] = "running" /\ bytes = Len(played)
      BY <1>9 DEF playLast, Running, PInv, OrderInv, ReceiverInv
    <2>2. life'["output"] = "dead"
      BY <1>9 DEF playLast, Become, Threads
    <2> QED
      BY <1>9, <2>1, <2>2 DEF playLast, Path!Next, Path!PlayLastAgain
  <1>10. ASSUME NEW p \in {"sender", "receiver"}, die(p) PROVE Same
    BY <1>10 DEF Same, die
  <1>11. CASE loseConnection
    <2>1. Same
      BY <1>11 DEF Same, loseConnection
    <2> QED
      BY <1>s, <2>1
  <1>12. CASE UNCHANGED vars
    <2>1. Same
      BY <1>12 DEF Same, vars
    <2> QED
      BY <1>s, <2>1
  <1> QED
    BY <1>s, <1>1, <1>2, <1>3, <1>4, <1>5, <1>6, <1>7, <1>8, <1>9, <1>10, <1>11, <1>12
    DEF Next, Thread

\* The media path of a call plays the frames in the order they were recorded, none
\* lost between others and none twice but the last, however the threads interleave,
\* fail and close their pipes and wherever the connection breaks
\* (AudioInputWorker.run, SrtpWrapper.run, Connector.run, AudioOutputWorker.run).
THEOREM ImplementsAudioPath == Spec => PlaysInOrder
  <1>1. Init => Path!Init
    BY DEF Init, Path!Init, Threads
  <1>2. PInv /\ [Next]_vars => [Path!Next]_(Path!vars)
    BY PathStep
  <1> QED
    BY <1>1, <1>2, FramesInOrder, PTL DEF Spec, PlaysInOrder, Path!Spec

-----------------------------------------------------------------------------
(***************************************************************************)
(* The service locator                                                     *)
(***************************************************************************)

\* A thread is inside the getter from the lock on, and only the thread that holds the
\* lock is; it makes a holder only where there is none and waits only at one that
\* there is.
LockInv ==
    \A t \in Callers :
        /\ pc[t] \in {"newHolder", "getService", "tryAcquire", "check"} => lock = t
        /\ pc[t] = "newHolder" => arg[t] \notin holders
        /\ pc[t] \in {"getService", "tryAcquire", "check"} => arg[t] \in holders

\* What a holder is made of: one that was never made is empty, and every connection
\* leaves at most one permit, of which the service is still there until it is lost.
HolderInv ==
    \A s \in Services :
        /\ s \notin holders => /\ made[s] = 0 /\ binding[s] = "none"
                               /\ permits[s] = 0
        /\ binding[s] = "connecting" => permits[s] <= 1
        /\ binding[s] = "connecting" /\ ~ disconnected => permits[s] = 0
        /\ binding[s] = "connected" /\ ~ disconnected => permits[s] <= 1
        /\ binding[s] \in {"none", "unbound"} => permits[s] = 0
        /\ binding[s] = "connected" => service[s]

\* A thread that got a permit finds the service, unless it was lost.
PermitInv ==
    \A t \in Callers :
        pc[t] = "check" /\ ~ waited[t] /\ ~ disconnected => service[arg[t]]

LocatorInv == /\ Locator!TypeOK /\ LockInv /\ HolderInv /\ PermitInv
              /\ Locator!GivesUpAfterWaiting

\* The locator starts in the invariant.
LEMMA LocatorInit == Locator!Init => LocatorInv
<1> SUFFICES ASSUME Locator!Init
             PROVE  LocatorInv
  OBVIOUS
<1>1. Locator!NoArg \in Services /\ MaxCalls \in Nat /\ MaxCleanUps \in Nat
  BY PartsAssumption DEF Locator!LocatorAssumption, Locator!NoArg
<1>2. Locator!TypeOK
  <2>1. /\ made \in [Services -> 0 .. 1] /\ service \in [Services -> BOOLEAN]
        /\ permits \in [Services -> 0 .. 2]
        /\ binding \in [Services -> {"none", "connecting", "connected", "unbound"}]
    BY DEF Locator!Init
  <2>2. /\ pc \in [Callers ->
               {"idle", "call", "newHolder", "getService", "tryAcquire", "check"}]
        /\ arg \in [Callers -> Services] /\ calls \in [Callers -> 0 .. MaxCalls]
        /\ waited \in [Callers -> BOOLEAN] /\ cleanUps \in 0 .. MaxCleanUps
    BY <1>1 DEF Locator!Init
  <2> QED
    BY <2>1, <2>2 DEF Locator!Init, Locator!TypeOK, Locator!None
<1>3. LockInv /\ HolderInv /\ PermitInv /\ Locator!GivesUpAfterWaiting
  BY DEF Locator!Init, LockInv, HolderInv, PermitInv, Locator!GivesUpAfterWaiting,
       Locator!None
<1> QED
  BY <1>2, <1>3 DEF LocatorInv

\* Only the thread with the lock changes the holders, and it leaves the getter without
\* the lock.
LEMMA LocatorLock == LocatorInv /\ [Locator!Next]_locatorVars => LockInv'
<1> SUFFICES ASSUME LocatorInv, [Locator!Next]_locatorVars
             PROVE  LockInv'
  OBVIOUS
<1>n. Locator!None \notin Callers
  BY PartsAssumption DEF Locator!LocatorAssumption
<1> USE <1>n DEF LocatorInv, LockInv, Locator!TypeOK, Locator!At, Locator!Goto,
     Locator!Return, Locator!Throw,
                 Locator!holderVars, Locator!threadVars, Locator!cleanVars
<1>1. ASSUME NEW t \in Callers, Locator!enter(t)
      PROVE  LockInv'
  BY <1>1 DEF Locator!enter
<1>2. ASSUME NEW t \in Callers, Locator!newHolder(t)
      PROVE  LockInv'
  <2>1. CASE Locator!Throw("cannot be created")
    BY <2>1
  <2>2. CASE /\ holders' = holders \cup {arg[t]} /\ pc' = [pc EXCEPT ![t] = "getService"]
             /\ UNCHANGED <<lock, arg>>
    BY <1>2, <2>2 DEF Locator!newHolder
  <2> QED
    BY <1>2, <2>1, <2>2 DEF Locator!newHolder
<1>3. ASSUME NEW t \in Callers, Locator!getService(t)
      PROVE  LockInv'
  BY <1>3 DEF Locator!getService
<1>4. ASSUME NEW t \in Callers, Locator!tryAcquire(t)
      PROVE  LockInv'
  BY <1>4 DEF Locator!tryAcquire
<1>5. ASSUME NEW t \in Callers, Locator!timeout(t)
      PROVE  LockInv'
  BY <1>5 DEF Locator!timeout
<1>6. ASSUME NEW t \in Callers, Locator!check(t)
      PROVE  LockInv'
  <2>1. CASE service[arg[t]]
    BY <1>6, <2>1 DEF Locator!check
  <2>2. CASE ~ service[arg[t]]
    <3>1. Locator!Throw("No service was bound")
      BY <1>6, <2>2 DEF Locator!check
    <3> QED
      BY <3>1
  <2> QED
    BY <2>1, <2>2
<1>7. ASSUME NEW t \in Callers, NEW s \in Services, Locator!call(t, s)
      PROVE  LockInv'
  BY <1>7 DEF Locator!call
<1>8. ASSUME NEW s \in Services, Locator!onServiceConnected(s)
      PROVE  LockInv'
  BY <1>8 DEF Locator!onServiceConnected
<1>9. ASSUME NEW s \in Services, Locator!onServiceDisconnected(s)
      PROVE  LockInv'
  BY <1>9 DEF Locator!onServiceDisconnected
<1>10. ASSUME NEW s \in Services, Locator!cleanUpHolder(s)
      PROVE  LockInv'
  BY <1>10 DEF Locator!cleanUpHolder
<1>11. CASE Locator!cleanUp
  BY <1>11 DEF Locator!cleanUp
<1>12. CASE UNCHANGED locatorVars
  BY <1>12 DEF locatorVars
<1> QED
  BY <1>1, <1>2, <1>3, <1>4, <1>5, <1>6, <1>7, <1>8, <1>9, <1>10, <1>11, <1>12
     DEF Locator!Next, Locator!Getter

\* The constructor of a holder, when bindService does not refuse.
LEMMA HolderMade ==
    ASSUME LocatorInv, NEW t \in Callers, Locator!newHolder(t), holders' # holders
    PROVE  HolderInv' /\ Locator!TypeOK'
<1>1. arg[t] \in Services /\ arg[t] \notin holders
  BY DEF LocatorInv, LockInv, Locator!TypeOK, Locator!newHolder, Locator!At
<1>2. made[arg[t]] = 0 /\ made \in [Services -> 0 .. 1]
  BY <1>1 DEF LocatorInv, HolderInv, Locator!TypeOK
<1>3. /\ holders' = holders \cup {arg[t]}
      /\ made' = [made EXCEPT ![arg[t]] = @ + 1]
      /\ binding' = [binding EXCEPT ![arg[t]] = "connecting"]
      /\ pc' = [pc EXCEPT ![t] = "getService"]
      /\ UNCHANGED <<service, permits, lock, arg, calls, waited, cleanUps, toClean,
                     failure, stale, disconnected>>
  BY DEF Locator!newHolder, Locator!Goto, Locator!cleanVars, Locator!Throw,
       Locator!holderVars
<1>4. made' \in [Services -> 0 .. 1]
  BY <1>1, <1>2, <1>3
<1>5. \A s \in Services : s \notin holders' => made'[s] = made[s]
  BY <1>1, <1>2, <1>3
<1>6. HolderInv'
  <2> SUFFICES ASSUME NEW s \in Services
               PROVE  HolderInv!(s)'
    BY DEF HolderInv
  <2>1. CASE s # arg[t]
    BY <1>1, <1>3, <1>5, <2>1 DEF LocatorInv, HolderInv, Locator!TypeOK
  <2>2. CASE s = arg[t]
    <3>1. permits[s] = 0
      BY <1>1, <2>2 DEF LocatorInv, HolderInv
    <3>2. permits'[s] = 0 /\ binding'[s] = "connecting" /\ s \in holders'
      BY <1>1, <1>3, <2>2, <3>1 DEF LocatorInv, Locator!TypeOK
    <3> QED
      BY <3>2
  <2> QED
    BY <2>1, <2>2
<1>7. Locator!TypeOK'
  <2>1. binding' \in [Services -> {"none", "connecting", "connected", "unbound"}]
    BY <1>1, <1>3 DEF LocatorInv, Locator!TypeOK
  <2>2. pc' \in [Callers ->
            {"idle", "call", "newHolder", "getService", "tryAcquire", "check"}]
    BY <1>3 DEF LocatorInv, Locator!TypeOK
  <2>3. holders' \subseteq Services
    BY <1>1, <1>3 DEF LocatorInv, Locator!TypeOK
  <2> QED
    BY <1>3, <1>4, <2>1, <2>2, <2>3 DEF LocatorInv, Locator!TypeOK, Locator!None
<1> QED
  BY <1>6, <1>7

\* A holder is made once, connected at most twice and unbound once.
LEMMA LocatorHolder == LocatorInv /\ [Locator!Next]_locatorVars => HolderInv'
<1> SUFFICES ASSUME LocatorInv, [Locator!Next]_locatorVars
             PROVE  HolderInv'
  OBVIOUS
<1> USE DEF LocatorInv, LockInv, HolderInv, Locator!TypeOK, Locator!At, Locator!Goto,
     Locator!Return, Locator!Throw,
                 Locator!holderVars, Locator!threadVars, Locator!cleanVars, Locator!None
<1>1. ASSUME NEW t \in Callers, Locator!enter(t)
      PROVE  HolderInv'
  BY <1>1 DEF Locator!enter
<1>2. ASSUME NEW t \in Callers, Locator!newHolder(t)
      PROVE  HolderInv'
  <2>1. CASE holders' = holders
    <3>1. arg[t] \notin holders
      BY <1>2 DEF Locator!newHolder
    <3> QED
      BY <1>2, <2>1, <3>1 DEF Locator!newHolder
  <2>2. CASE holders' # holders
    BY <1>2, <2>2, HolderMade
  <2> QED
    BY <2>1, <2>2
<1>3. ASSUME NEW t \in Callers, Locator!getService(t)
      PROVE  HolderInv'
  BY <1>3 DEF Locator!getService
<1>4. ASSUME NEW t \in Callers, Locator!tryAcquire(t)
      PROVE  HolderInv'
  BY <1>4 DEF Locator!tryAcquire
<1>5. ASSUME NEW t \in Callers, Locator!timeout(t)
      PROVE  HolderInv'
  BY <1>5 DEF Locator!timeout
<1>6. ASSUME NEW t \in Callers, Locator!check(t)
      PROVE  HolderInv'
  <2>1. CASE service[arg[t]]
    BY <1>6, <2>1 DEF Locator!check
  <2>2. CASE ~ service[arg[t]]
    <3>1. Locator!Throw("No service was bound")
      BY <1>6, <2>2 DEF Locator!check
    <3> QED
      BY <3>1
  <2> QED
    BY <2>1, <2>2
<1>7. ASSUME NEW t \in Callers, NEW s \in Services, Locator!call(t, s)
      PROVE  HolderInv'
  BY <1>7 DEF Locator!call
<1>8. ASSUME NEW s \in Services, Locator!onServiceConnected(s)
      PROVE  HolderInv'
  BY <1>8 DEF Locator!onServiceConnected
<1>9. ASSUME NEW s \in Services, Locator!onServiceDisconnected(s)
      PROVE  HolderInv'
  BY <1>9 DEF Locator!onServiceDisconnected
<1>10. ASSUME NEW s \in Services, Locator!cleanUpHolder(s)
      PROVE  HolderInv'
  <2>1. CASE s \in holders /\ binding[s] = "unbound"
    <3>1. Locator!Throw("Service not registered")
      BY <1>10, <2>1 DEF Locator!cleanUpHolder
    <3> QED
      BY <3>1
  <2>2. CASE s \in holders /\ binding[s] # "unbound"
    BY <1>10, <2>2 DEF Locator!cleanUpHolder
  <2>3. CASE s \notin holders
    BY <1>10, <2>3 DEF Locator!cleanUpHolder
  <2> QED
    BY <2>1, <2>2, <2>3
<1>11. CASE Locator!cleanUp
  BY <1>11 DEF Locator!cleanUp
<1>12. CASE UNCHANGED locatorVars
  BY <1>12 DEF locatorVars
<1> QED
  BY <1>1, <1>2, <1>3, <1>4, <1>5, <1>6, <1>7, <1>8, <1>9, <1>10, <1>11, <1>12
     DEF Locator!Next, Locator!Getter

\* A permit is taken only of a service that is connected.
LEMMA LocatorPermit == LocatorInv /\ [Locator!Next]_locatorVars => PermitInv'
<1> SUFFICES ASSUME LocatorInv, [Locator!Next]_locatorVars
             PROVE  PermitInv'
  OBVIOUS
<1> USE DEF LocatorInv, PermitInv, Locator!TypeOK, Locator!At, Locator!Goto,
     Locator!Return, Locator!Throw,
                 Locator!holderVars, Locator!threadVars, Locator!cleanVars, Locator!None
<1>1. ASSUME NEW t \in Callers, Locator!enter(t)
      PROVE  PermitInv'
  BY <1>1 DEF Locator!enter
<1>2. ASSUME NEW t \in Callers, Locator!newHolder(t)
      PROVE  PermitInv'
  <2>1. /\ UNCHANGED <<waited, service, arg, disconnected>>
        /\ pc' = pc \/ pc' = [pc EXCEPT ![t] = "getService"]
    BY <1>2 DEF Locator!newHolder
  <2> QED
    BY <2>1
<1>3. ASSUME NEW t \in Callers, Locator!getService(t)
      PROVE  PermitInv'
  BY <1>3 DEF Locator!getService
<1>4. ASSUME NEW t \in Callers, Locator!tryAcquire(t)
      PROVE  PermitInv'
  BY <1>4 DEF Locator!tryAcquire, LockInv, HolderInv
<1>5. ASSUME NEW t \in Callers, Locator!timeout(t)
      PROVE  PermitInv'
  BY <1>5 DEF Locator!timeout
<1>6. ASSUME NEW t \in Callers, Locator!check(t)
      PROVE  PermitInv'
  <2>1. CASE service[arg[t]]
    BY <1>6, <2>1 DEF Locator!check
  <2>2. CASE ~ service[arg[t]]
    <3>1. Locator!Throw("No service was bound")
      BY <1>6, <2>2 DEF Locator!check
    <3> QED
      BY <3>1
  <2> QED
    BY <2>1, <2>2
<1>7. ASSUME NEW t \in Callers, NEW s \in Services, Locator!call(t, s)
      PROVE  PermitInv'
  BY <1>7 DEF Locator!call
<1>8. ASSUME NEW s \in Services, Locator!onServiceConnected(s)
      PROVE  PermitInv'
  BY <1>8 DEF Locator!onServiceConnected
<1>9. ASSUME NEW s \in Services, Locator!onServiceDisconnected(s)
      PROVE  PermitInv'
  BY <1>9 DEF Locator!onServiceDisconnected
<1>10. ASSUME NEW s \in Services, Locator!cleanUpHolder(s)
      PROVE  PermitInv'
  <2>1. UNCHANGED <<pc, waited, service, arg, disconnected>>
    BY <1>10 DEF Locator!cleanUpHolder
  <2> QED
    BY <2>1
<1>11. CASE Locator!cleanUp
  BY <1>11 DEF Locator!cleanUp
<1>12. CASE UNCHANGED locatorVars
  BY <1>12 DEF locatorVars
<1> QED
  BY <1>1, <1>2, <1>3, <1>4, <1>5, <1>6, <1>7, <1>8, <1>9, <1>10, <1>11, <1>12
     DEF Locator!Next, Locator!Getter

\* A thread gives up at its check, and after a permit the check succeeds.
LEMMA LocatorGivesUp == LocatorInv /\ [Locator!Next]_locatorVars => Locator!GivesUpAfterWaiting'
<1> SUFFICES ASSUME LocatorInv, [Locator!Next]_locatorVars
             PROVE  Locator!GivesUpAfterWaiting'
  OBVIOUS
<1> USE DEF LocatorInv, PermitInv, Locator!GivesUpAfterWaiting, Locator!TypeOK,
     Locator!At, Locator!Goto, Locator!Return, Locator!Throw,
                 Locator!holderVars, Locator!threadVars, Locator!cleanVars, Locator!None
<1>1. ASSUME NEW t \in Callers, Locator!enter(t)
      PROVE  Locator!GivesUpAfterWaiting'
  BY <1>1 DEF Locator!enter
<1>2. ASSUME NEW t \in Callers, Locator!newHolder(t)
      PROVE  Locator!GivesUpAfterWaiting'
  BY <1>2 DEF Locator!newHolder
<1>3. ASSUME NEW t \in Callers, Locator!getService(t)
      PROVE  Locator!GivesUpAfterWaiting'
  BY <1>3 DEF Locator!getService
<1>4. ASSUME NEW t \in Callers, Locator!tryAcquire(t)
      PROVE  Locator!GivesUpAfterWaiting'
  BY <1>4 DEF Locator!tryAcquire
<1>5. ASSUME NEW t \in Callers, Locator!timeout(t)
      PROVE  Locator!GivesUpAfterWaiting'
  BY <1>5 DEF Locator!timeout
<1>6. ASSUME NEW t \in Callers, Locator!check(t)
      PROVE  Locator!GivesUpAfterWaiting'
  BY <1>6 DEF Locator!check
<1>7. ASSUME NEW t \in Callers, NEW s \in Services, Locator!call(t, s)
      PROVE  Locator!GivesUpAfterWaiting'
  BY <1>7 DEF Locator!call
<1>8. ASSUME NEW s \in Services, Locator!onServiceConnected(s)
      PROVE  Locator!GivesUpAfterWaiting'
  BY <1>8 DEF Locator!onServiceConnected
<1>9. ASSUME NEW s \in Services, Locator!onServiceDisconnected(s)
      PROVE  Locator!GivesUpAfterWaiting'
  BY <1>9 DEF Locator!onServiceDisconnected
<1>10. ASSUME NEW s \in Services, Locator!cleanUpHolder(s)
      PROVE  Locator!GivesUpAfterWaiting'
  BY <1>10 DEF Locator!cleanUpHolder
<1>11. CASE Locator!cleanUp
  BY <1>11 DEF Locator!cleanUp
<1>12. CASE UNCHANGED locatorVars
  BY <1>12 DEF locatorVars
<1> QED
  BY <1>1, <1>2, <1>3, <1>4, <1>5, <1>6, <1>7, <1>8, <1>9, <1>10, <1>11, <1>12
     DEF Locator!Next, Locator!Getter

\* The types.
LEMMA LocatorTypes == LocatorInv /\ [Locator!Next]_locatorVars => Locator!TypeOK'
<1> SUFFICES ASSUME LocatorInv, [Locator!Next]_locatorVars
             PROVE  Locator!TypeOK'
  OBVIOUS
<1>n. MaxCalls \in Nat /\ MaxCleanUps \in Nat /\ Locator!NoArg \in Services
  BY PartsAssumption DEF Locator!LocatorAssumption, Locator!NoArg
<1> USE <1>n DEF LocatorInv, LockInv, HolderInv, Locator!TypeOK, Locator!At,
     Locator!Goto, Locator!Return, Locator!Throw,
                 Locator!holderVars, Locator!threadVars, Locator!cleanVars, Locator!None
<1>r. ASSUME NEW t \in Callers, Locator!Return(t)
      PROVE  Locator!TypeOK'
  <2>1. stale' \in BOOLEAN /\ lock' \in Callers \cup {Locator!None}
    BY <1>r
  <2>2. /\ pc' \in [Callers ->
               {"idle", "call", "newHolder", "getService", "tryAcquire", "check"}]
        /\ arg' \in [Callers -> Services] /\ waited' \in [Callers -> BOOLEAN]
    BY <1>r
  <2> QED
    BY <1>r, <2>1, <2>2
<1>1. ASSUME NEW t \in Callers, Locator!enter(t)
      PROVE  Locator!TypeOK'
  BY <1>1 DEF Locator!enter
<1>2. ASSUME NEW t \in Callers, Locator!newHolder(t)
      PROVE  Locator!TypeOK'
  <2>1. CASE holders' = holders
    <3>1. arg[t] \notin holders
      BY <1>2 DEF Locator!newHolder
    <3> QED
      BY <1>2, <2>1, <3>1 DEF Locator!newHolder
  <2>2. CASE holders' # holders
    BY <1>2, <2>2, HolderMade
  <2> QED
    BY <2>1, <2>2
<1>3. ASSUME NEW t \in Callers, Locator!getService(t)
      PROVE  Locator!TypeOK'
  <2>1. CASE service[arg[t]]
    BY <1>3, <1>r, <2>1 DEF Locator!getService
  <2>2. CASE ~ service[arg[t]]
    BY <1>3, <2>2 DEF Locator!getService
  <2> QED
    BY <2>1, <2>2
<1>4. ASSUME NEW t \in Callers, Locator!tryAcquire(t)
      PROVE  Locator!TypeOK'
  BY <1>4 DEF Locator!tryAcquire
<1>5. ASSUME NEW t \in Callers, Locator!timeout(t)
      PROVE  Locator!TypeOK'
  BY <1>5 DEF Locator!timeout
<1>6. ASSUME NEW t \in Callers, Locator!check(t)
      PROVE  Locator!TypeOK'
  <2>1. CASE service[arg[t]]
    BY <1>6, <1>r, <2>1 DEF Locator!check
  <2>2. CASE ~ service[arg[t]]
    <3>1. Locator!Throw("No service was bound")
      BY <1>6, <2>2 DEF Locator!check
    <3> QED
      BY <3>1
  <2> QED
    BY <2>1, <2>2
<1>7. ASSUME NEW t \in Callers, NEW s \in Services, Locator!call(t, s)
      PROVE  Locator!TypeOK'
  BY <1>7 DEF Locator!call
<1>8. ASSUME NEW s \in Services, Locator!onServiceConnected(s)
      PROVE  Locator!TypeOK'
  BY <1>8 DEF Locator!onServiceConnected
<1>9. ASSUME NEW s \in Services, Locator!onServiceDisconnected(s)
      PROVE  Locator!TypeOK'
  BY <1>9 DEF Locator!onServiceDisconnected
<1>10. ASSUME NEW s \in Services, Locator!cleanUpHolder(s)
      PROVE  Locator!TypeOK'
  <2>1. CASE s \in holders /\ binding[s] = "unbound"
    <3>1. Locator!Throw("Service not registered")
      BY <1>10, <2>1 DEF Locator!cleanUpHolder
    <3> QED
      BY <3>1
  <2>2. CASE s \in holders /\ binding[s] # "unbound"
    BY <1>10, <2>2 DEF Locator!cleanUpHolder
  <2>3. CASE s \notin holders
    BY <1>10, <2>3 DEF Locator!cleanUpHolder
  <2> QED
    BY <2>1, <2>2, <2>3
<1>11. CASE Locator!cleanUp
  BY <1>11 DEF Locator!cleanUp
<1>12. CASE UNCHANGED locatorVars
  BY <1>12 DEF locatorVars
<1> QED
  BY <1>1, <1>2, <1>3, <1>4, <1>5, <1>6, <1>7, <1>8, <1>9, <1>10, <1>11, <1>12
     DEF Locator!Next, Locator!Getter


\* Every step of the locator keeps the invariant.
LEMMA LocatorStep == LocatorInv /\ [Locator!Next]_locatorVars => LocatorInv'
BY LocatorLock, LocatorHolder, LocatorPermit, LocatorGivesUp, LocatorTypes DEF LocatorInv

\* What starts early does no harm, for any capacity of the pipes and any number of
\* frames, services, threads and calls: no thread writes to a pipe before the call
\* code has connected it, and a getter gives up only after its ten seconds, unless
\* the service was lost or the locator cleaned up.
\* (SrtpProtocol.wrapStream, ServiceHolder.tryToDealWithNullService)
THEOREM EarlyStartsAreHarmless == PartSpec => []NothingFailsEarly
<1>1. PartInit => ConnectInv /\ LocatorInv
  BY ConnectInit, LocatorInit DEF PartInit
<1>2. ConnectInv /\ LocatorInv /\ [PartNext]_partVars => ConnectInv' /\ LocatorInv'
  <2> SUFFICES ASSUME ConnectInv, LocatorInv, [PartNext]_partVars
               PROVE  ConnectInv' /\ LocatorInv'
    OBVIOUS
  <2>1. [Next]_vars /\ [Locator!Next]_locatorVars
    BY DEF PartNext, partVars
  <2> QED
    BY <2>1, TypesStep, SetUpStep, LocatorStep DEF ConnectInv
<1>3. ConnectInv /\ LocatorInv => NothingFailsEarly
  BY DEF ConnectInv, LocatorInv, Types, NothingFailsEarly
<1> QED
  BY <1>1, <1>2, <1>3, PTL DEF PartSpec

-----------------------------------------------------------------------------
(***************************************************************************)
(* The audio manager                                                       *)
(***************************************************************************)

\* The microphone is on only while a worker is in its loop: whoever leaves the loop
\* turns it off, although another may still record.
Recording == {"loop", "io"}
AudioInv ==
    /\ Audio!TypeOK
    /\ device["input"] = "on" => \E i \in Audio!Ids : state["input"][i] \in Recording

\* The audio manager starts in the invariant.
LEMMA AudioInit == Audio!Init => AudioInv
BY PartsAssumption
   DEF Audio!Init, AudioInv, Audio!TypeOK, Audio!MaxWorkersAssumption, Audio!Ids,
       Audio!Null, Audio!None, Audio!Sides

\* The sides, and what a worker that is created gets as its number.
LEMMA AudioSides ==
    /\ "input" \in Audio!Sides /\ "output" \in Audio!Sides
    /\ MaxWorkers \in Nat
    /\ \A s \in Audio!Sides : Audio!TypeOK /\ Audio!NewWorker(s) =>
           /\ created'[s] \in Audio!Ids
           /\ created' \in [Audio!Sides -> 0 .. MaxWorkers]
           /\ worker' \in [Audio!Sides -> Audio!Ids \cup {Audio!Null}]
<1>1. "input" \in Audio!Sides /\ "output" \in Audio!Sides /\ MaxWorkers \in Nat
  BY PartsAssumption DEF Audio!Sides, Audio!MaxWorkersAssumption
<1>2. ASSUME NEW s \in Audio!Sides, Audio!TypeOK, Audio!NewWorker(s)
      PROVE  /\ created'[s] \in Audio!Ids
             /\ created' \in [Audio!Sides -> 0 .. MaxWorkers]
             /\ worker' \in [Audio!Sides -> Audio!Ids \cup {Audio!Null}]
  <2> DEFINE n == created[s] + 1
  <2>0. /\ created \in [Audio!Sides -> 0 .. MaxWorkers]
        /\ created' = [created EXCEPT ![s] = n]
        /\ created[s] < MaxWorkers
    BY <1>1, <1>2 DEF Audio!NewWorker, Audio!TypeOK
  <2>a. n \in 1 .. MaxWorkers /\ n \in 0 .. MaxWorkers
    BY <2>0, <1>1
  <2> HIDE DEF n
  <2>1. created'[s] = n /\ n \in 1 .. MaxWorkers
    BY <2>0, <2>a
  <2>2. created' \in [Audio!Sides -> 0 .. MaxWorkers]
    BY <2>0, <2>a
  <2>3. worker' \in [Audio!Sides -> Audio!Ids \cup {Audio!Null}]
    BY <2>1, <1>2 DEF Audio!NewWorker, Audio!TypeOK, Audio!Ids
  <2> QED
    BY <2>1, <2>2, <2>3 DEF Audio!Ids
<1> QED
  BY <1>1, <1>2

\* Every call and every step of a worker keeps the types.
LEMMA AudioTypes == Audio!TypeOK /\ [Audio!Next]_audioVars => Audio!TypeOK'
<1> SUFFICES ASSUME Audio!TypeOK, [Audio!Next]_audioVars
             PROVE  Audio!TypeOK'
  OBVIOUS
<1> USE AudioSides
<1>0. ASSUME NEW s \in Audio!Sides, NEW i \in Audio!Ids,
             NEW to \in {"new", "initialize", "loop", "io", "close", "done"},
             Audio!Step(s, i, to)
      PROVE  state' \in [Audio!Sides ->
                            [Audio!Ids -> {"new", "initialize", "loop", "io", "close", "done"}]]
  BY <1>0 DEF Audio!Step, Audio!TypeOK
<1>1. CASE Audio!getStream
  BY <1>1 DEF Audio!getStream, Audio!TypeOK, Audio!Throw
<1>2. CASE Audio!startSending
  BY <1>2, <1>0 DEF Audio!startSending, Audio!TypeOK, Audio!Throw
<1>3. CASE Audio!playStream
  BY <1>3, <1>0 DEF Audio!playStream, Audio!TypeOK
<1>4. ASSUME NEW s \in Audio!Sides, Audio!stop(s)
      PROVE  Audio!TypeOK'
  <2>1. CASE worker[s] = Audio!Null
    BY <1>4, <2>1 DEF Audio!stop, Audio!TypeOK, Audio!Throw
  <2>2. CASE worker[s] # Audio!Null
    <3> DEFINE w == worker[s]
    <3>1. /\ w \in Audio!Ids
          /\ running' = [running EXCEPT ![s][w] = FALSE]
          /\ stopped' = [stopped EXCEPT ![s] = @ \cup {w}]
      BY <1>4, <2>2 DEF Audio!TypeOK, Audio!stop
    <3> HIDE DEF w
    <3>2. running' \in [Audio!Sides -> [Audio!Ids -> BOOLEAN]]
      BY <3>1 DEF Audio!TypeOK
    <3>3. stopped' \in [Audio!Sides -> SUBSET Audio!Ids]
      BY <3>1 DEF Audio!TypeOK
    <3>4. worker' \in [Audio!Sides -> Audio!Ids \cup {Audio!Null}]
      BY <1>4, <2>2 DEF Audio!stop, Audio!TypeOK
    <3> QED
      BY <1>4, <2>2, <3>2, <3>3, <3>4 DEF Audio!stop, Audio!TypeOK
  <2> QED
    BY <2>1, <2>2
<1>5. ASSUME NEW s \in Audio!Sides, NEW i \in Audio!Ids,
             Audio!Run(s, i) \/ Audio!leaveIo(s, i)
      PROVE  Audio!TypeOK'
  <2>1. CASE Audio!startDevice(s, i)
    BY <2>1, <1>0 DEF Audio!startDevice, Audio!TypeOK
  <2>2. CASE Audio!leaveLoop(s, i)
    BY <2>2, <1>0 DEF Audio!leaveLoop, Audio!TypeOK
  <2>3. CASE Audio!closeStream(s, i)
    BY <2>3, <1>0 DEF Audio!closeStream, Audio!TypeOK
  <2>4. CASE Audio!enterIo(s, i)
    BY <2>4, <1>0 DEF Audio!enterIo, Audio!TypeOK
  <2>5. CASE Audio!leaveIo(s, i)
    BY <2>5, <1>0 DEF Audio!leaveIo, Audio!TypeOK
  <2> QED
    BY <1>5, <2>1, <2>2, <2>3, <2>4, <2>5 DEF Audio!Run
<1>6. ASSUME NEW i \in Audio!Ids, Audio!endOfStream(i)
      PROVE  Audio!TypeOK'
  <2>1. running' \in [Audio!Sides -> [Audio!Ids -> BOOLEAN]]
    BY <1>6 DEF Audio!endOfStream, Audio!TypeOK
  <2> QED
    BY <1>6, <2>1, <1>0 DEF Audio!endOfStream, Audio!TypeOK
<1>7. CASE UNCHANGED audioVars
  BY <1>7 DEF audioVars, Audio!TypeOK, Audio!Ids, Audio!None, Audio!Null, Audio!Sides
<1> QED
  BY <1>1, <1>2, <1>3, <1>4, <1>5, <1>6, <1>7 DEF Audio!Next

\* A worker that goes into its loop turns the microphone on, and none leaves the loop
\* without turning it off.
LEMMA AudioStep == AudioInv /\ [Audio!Next]_audioVars => AudioInv'
<1> SUFFICES ASSUME AudioInv, [Audio!Next]_audioVars, device'["input"] = "on"
             PROVE  \E i \in Audio!Ids : state'["input"][i] \in Recording
  BY AudioTypes DEF AudioInv, Audio!Ids
<1> USE AudioSides DEF AudioInv, Audio!TypeOK
<1>1. CASE UNCHANGED <<device, state>>
  BY <1>1
<1>2. ASSUME NEW i \in Audio!Ids, NEW to, UNCHANGED device, Audio!Step("input", i, to),
             state["input"][i] \notin Recording \/ to \in Recording
      PROVE  \E j \in Audio!Ids : state'["input"][j] \in Recording
  BY <1>2 DEF Audio!Step
<1>3. ASSUME NEW i \in Audio!Ids, NEW to, device'["input"] = device["input"],
             Audio!Step("output", i, to)
      PROVE  \E j \in Audio!Ids : state'["input"][j] \in Recording
  BY <1>3 DEF Audio!Step
<1>4. CASE Audio!startSending
  BY <1>1, <1>2, <1>4 DEF Audio!startSending, Audio!Throw, Recording
<1>5. CASE Audio!playStream
  BY <1>3, <1>5 DEF Audio!playStream
<1>6. ASSUME NEW i \in Audio!Ids, Audio!Run("input", i) \/ Audio!leaveIo("input", i)
      PROVE  \E j \in Audio!Ids : state'["input"][j] \in Recording
  <2>1. CASE Audio!startDevice("input", i)
    BY <2>1 DEF Audio!startDevice, Audio!Step, Recording
  <2>2. ~ Audio!leaveLoop("input", i)
    BY DEF Audio!leaveLoop
  <2>3. CASE Audio!closeStream("input", i)
    BY <2>3, <1>2 DEF Audio!closeStream, Recording
  <2>4. CASE Audio!enterIo("input", i) \/ Audio!leaveIo("input", i)
    BY <2>4, <1>2 DEF Audio!enterIo, Audio!leaveIo, Recording
  <2> QED
    BY <1>6, <2>1, <2>2, <2>3, <2>4 DEF Audio!Run
<1>7. ASSUME NEW i \in Audio!Ids, Audio!Run("output", i) \/ Audio!leaveIo("output", i)
      PROVE  \E j \in Audio!Ids : state'["input"][j] \in Recording
  BY <1>3, <1>7 DEF Audio!Run, Audio!startDevice, Audio!enterIo, Audio!leaveIo,
     Audio!leaveLoop, Audio!closeStream
<1>8. CASE Audio!getStream
  BY <1>1, <1>8 DEF Audio!getStream, Audio!Throw
<1>9. ASSUME NEW s \in Audio!Sides, Audio!stop(s)
      PROVE  UNCHANGED <<device, state>>
  BY <1>9 DEF Audio!stop, Audio!Throw
<1>10. ASSUME NEW i \in Audio!Ids, Audio!endOfStream(i)
       PROVE  \E j \in Audio!Ids : state'["input"][j] \in Recording
  BY <1>3, <1>10 DEF Audio!endOfStream
<1>11. CASE UNCHANGED audioVars
  BY <1>1, <1>11 DEF audioVars
<1> QED
  BY <1>1, <1>4, <1>5, <1>6, <1>7, <1>8, <1>9, <1>10, <1>11
     DEF Audio!Next, Audio!Sides

\* With no worker in its loop the microphone is off.
LEMMA AudioOff == AudioInv => Audio!TypeOK /\ Audio!MicrophoneOff
BY AudioSides DEF AudioInv, Audio!TypeOK, Audio!MicrophoneOff, Recording

\* The microphone is never left on, for any number of workers: once all that were
\* started have ended, however starts and stops overlapped, it is off.
\* (AudioInput, AudioInputWorker.run)
THEOREM MicrophoneNeverLeftOn == PartSpec => []MicrophoneOff
<1>1. PartInit => AudioInv
  BY AudioInit DEF PartInit
<1>2. AudioInv /\ [PartNext]_partVars => AudioInv'
  BY AudioStep DEF PartNext, partVars
<1>3. AudioInv => MicrophoneOff
  BY AudioOff DEF MicrophoneOff
<1> QED
  BY <1>1, <1>2, <1>3, PTL DEF PartSpec
=============================================================================
