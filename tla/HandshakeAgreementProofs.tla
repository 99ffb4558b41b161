---------------------- MODULE HandshakeAgreementProofs ----------------------
(***************************************************************************)
(* What the two parties of Handshake agree on.  Both use the same SRTP     *)
(* contexts and no byte of the handshake is left when the media starts     *)
(* (from ConversationInv, the exchange of SSRC and salt); and in an        *)
(* ongoing call each has settled who the other one is: a key that was      *)
(* asked for or offered has been proved, and the key the user expected is  *)
(* the one that was proved (from IdentityInv).                             *)
(*                                                                         *)
(* As in HandshakeProofs the number of calls a party has left tells how    *)
(* far it has come.                                                        *)
(***************************************************************************)
EXTENDS HandshakeProofs

\* What q has written after the first n messages of its stream are the first ones of
\* SSRC and salt, as many as q has come to unless the connection broke.
OnlySsrcAndSalt(q, n) ==
    /\ SentDhKey(q)
    /\ Len(chan[q]) <= n + 2
    /\ Len(chan[q]) >= n + 1 => chan[q][n + 1].kind = "SSRC"
    /\ Len(chan[q]) = n + 2 => chan[q][n + 2].kind = "SALT"
    /\ Pos(q) >= SendSsrcAt(q) => Len(chan[q]) = n
    /\ Pos(q) + 1 = SendSsrcAt(q) => /\ Len(chan[q]) <= n + 1
                                     /\ link = "up" => Len(chan[q]) = n + 1

\* p has not read the Diffie-Hellman key; only SSRC and salt may follow it.
BeforeKey(q) ==
    \A i \in 1 .. Len(chan[q]) : chan[q][i].kind = "DH_KEY" => OnlySsrcAndSalt(q, i)

\* p has read the SSRC, so q has written it; or nothing can come to p any more.
AfterSsrc(p, q) ==
    \/ /\ got[p]["SSRC"] = q
       /\ Pos(q) < SendSsrcAt(q)
       /\ Len(chan[q]) <= 1
       /\ Len(chan[q]) = 1 => chan[q][1].kind = "SALT"
       /\ Pos(q) + 1 = SendSsrcAt(q) => Len(chan[q]) = 0
    \/ Len(chan[q]) = 0 /\ Broken(p)

\* p has read the salt, the last message of q; or it knows that it has none.
AfterSalt(p, q) ==
    \/ /\ got[p]["SSRC"] = q /\ got[p]["SALT"] = q
       /\ SentSalt(q) /\ Len(chan[q]) = 0
    \/ got[p]["SALT"] = None

\* The exchange of SSRC and salt as p sees it.
Conversation(p, q) ==
    /\ Pos(p) > 7 => BeforeKey(q)
    /\ Pos(p) <= 7 /\ Pos(p) >= RecvSsrcAt(p) => OnlySsrcAndSalt(q, 0)
    /\ Pos(p) + 1 = RecvSsrcAt(p) => AfterSsrc(p, q)
    /\ Pos(p) + 2 <= RecvSsrcAt(p) => AfterSalt(p, q)

\* It holds while nothing has disturbed it, and then the contexts are the same.
ConversationInv ==
    \A p \in Party : ~ Disturbed(p) =>
        /\ status[p] # "failed" => Conversation(p, Other(p))
        /\ recvCtx[p] # NoContext => recvCtx[p] = sendCtx[Other(p)]

-----------------------------------------------------------------------------
(* The exchange of SSRC and salt. *)

\* The fixed positions, as numbers.
LEMMA Positions ==
    ASSUME NEW p \in Party
    PROVE  /\ SendSsrcAt(p) \in 4 .. 6 /\ RecvSsrcAt(p) \in 4 .. 7
           /\ SendSsrcAt(p)' = SendSsrcAt(p) /\ RecvSsrcAt(p)' = RecvSsrcAt(p)
           /\ Other(p) \in Party /\ Other(p) # p /\ Other(Other(p)) = p
           /\ Other(p)' = Other(p)
  BY DEF SendSsrcAt, RecvSsrcAt, Other, Party, Caller, Callee

\* A party that writes has not yet written the key, or is at one of the two writes of
\* sendSsrcAndSalt.
LEMMA LateSends ==
    ASSUME TypeOK, ProgramInv, NEW p \in Party, todo[p] # << >>,
           Head(todo[p]).do = "send", Pos(p) <= 9
    PROVE  Pos(p) = SendSsrcAt(p) \/ Pos(p) + 1 = SendSsrcAt(p)
  <1>1. Pos(p) \in 1 .. 9 /\ Head(todo[p]) = LastCalls(p)[12 - Pos(p)]
    BY HeadAt, PosType
  <1>2. Pos(p) \in {1, 2, 3, 4, 5, 6, 7, 8, 9}
    BY <1>1
  <1> DEFINE e == LastCalls(p)
  <1>3. e[12 - Pos(p)].do = "send"
    BY <1>1
  <1>4. /\ e[3].do = "recv" /\ e[4].do = "recv" /\ e[10].do # "send" /\ e[11].do # "send"
        /\ p = Caller => e[5].do # "send" /\ e[8].do # "send" /\ e[9].do # "send"
        /\ p # Caller => e[5].do # "send" /\ e[6].do # "send" /\ e[7].do # "send"
    BY LastCallsTable DEF send, recv, do
  <1> HIDE DEF e
  <1>5. p = Caller => Pos(p) \in {5, 6}
    BY <1>2, <1>3, <1>4
  <1>6. p # Caller => Pos(p) \in {3, 4}
    BY <1>2, <1>3, <1>4
  <1> QED
    BY <1>5, <1>6 DEF SendSsrcAt

\* A party that reads is before the end of the key exchange or at one of the reads of the
\* SSRC and the salt.
LEMMA LateReads ==
    ASSUME TypeOK, ProgramInv, NEW p \in Party, todo[p] # << >>,
           Head(todo[p]).do = "recv", Pos(p) <= 7
    PROVE  Pos(p) = RecvSsrcAt(p) \/ Pos(p) + 1 = RecvSsrcAt(p)
  <1>1. Pos(p) \in 1 .. 7 /\ Head(todo[p]) = LastCalls(p)[12 - Pos(p)]
    BY HeadAt, PosType
  <1>2. Pos(p) \in {1, 2, 3, 4, 5, 6, 7}
    BY <1>1
  <1> DEFINE e == LastCalls(p)
  <1>3. e[12 - Pos(p)].do = "recv"
    BY <1>1
  <1>4. /\ e[10].do # "recv" /\ e[11].do # "recv"
        /\ p = Caller => e[5].do # "recv" /\ e[6].do # "recv" /\ e[7].do # "recv"
        /\ p # Caller => e[7].do # "recv" /\ e[8].do # "recv" /\ e[9].do # "recv"
    BY LastCallsTable DEF send, recv, do
  <1> HIDE DEF e
  <1>5. p = Caller => Pos(p) \in {3, 4}
    BY <1>2, <1>3, <1>4
  <1>6. p # Caller => Pos(p) \in {6, 7}
    BY <1>2, <1>3, <1>4
  <1> QED
    BY <1>5, <1>6 DEF RecvSsrcAt

\* OnlySsrcAndSalt survives when the stream stays as it is and q goes on without a write,
LEMMA OnlySame ==
    ASSUME TypeOK, TypeOK', NEW q \in Party, NEW n \in Nat, OnlySsrcAndSalt(q, n),
           chan'[q] = chan[q], link' = "up" => link = "up",
           Pos(q)' <= Pos(q),
           Pos(q)' + 1 = SendSsrcAt(q) => Pos(q)' = Pos(q)
    PROVE  OnlySsrcAndSalt(q, n)'
  <1>1. /\ Pos(q) \in 0 .. 12 /\ Pos(q)' \in 0 .. 12
        /\ SendSsrcAt(q) \in 4 .. 6 /\ SendSsrcAt(q)' = SendSsrcAt(q)
    BY PosType, PosTypeNext, Positions
  <1>2. SentDhKey(q)'
    BY <1>1 DEF OnlySsrcAndSalt, SentDhKey
  <1> QED
    BY <1>1, <1>2 DEF OnlySsrcAndSalt

\* when the connection breaks and its end is lost,
LEMMA OnlyCut ==
    ASSUME TypeOK, NEW q \in Party, NEW n \in Nat, OnlySsrcAndSalt(q, n),
           NEW k \in 0 .. Len(chan[q]), n <= k, chan'[q] = SubSeq(chan[q], 1, k),
           link' = "down", Pos(q)' = Pos(q)
    PROVE  OnlySsrcAndSalt(q, n)'
  <1>1. /\ Pos(q) \in 0 .. 12 /\ SendSsrcAt(q) \in 4 .. 6 /\ SendSsrcAt(q)' = SendSsrcAt(q)
    BY PosType, Positions
  <1>2. chan[q] \in Seq(Message) /\ Len(chan[q]) \in Nat
    BY DEF TypeOK
  <1>3. Len(chan'[q]) = k /\ \A i \in 1 .. k : chan'[q][i] = chan[q][i]
    BY <1>2
  <1>4. SentDhKey(q)'
    BY DEF OnlySsrcAndSalt, SentDhKey
  <1>5. /\ k >= n + 1 => chan'[q][n + 1] = chan[q][n + 1]
        /\ k = n + 2 => chan'[q][n + 2] = chan[q][n + 2]
    BY <1>2, <1>3
  <1> QED
    BY <1>1, <1>2, <1>3, <1>4, <1>5 DEF OnlySsrcAndSalt

\* when q writes its SSRC or its salt,
LEMMA OnlyAppend ==
    ASSUME TypeOK, TypeOK', NEW q \in Party, NEW n \in Nat, OnlySsrcAndSalt(q, n), link = "up",
           NEW m \in Message, chan'[q] = Append(chan[q], m), Pos(q)' = Pos(q) - 1,
           \/ Pos(q) = SendSsrcAt(q) /\ m.kind = "SSRC"
           \/ Pos(q) + 1 = SendSsrcAt(q) /\ m.kind = "SALT"
    PROVE  OnlySsrcAndSalt(q, n)'
  <1>1. /\ Pos(q) \in 0 .. 12 /\ Pos(q)' \in 0 .. 12
        /\ SendSsrcAt(q) \in 4 .. 6 /\ SendSsrcAt(q)' = SendSsrcAt(q)
    BY PosType, PosTypeNext, Positions
  <1>2. chan[q] \in Seq(Message) /\ Len(chan[q]) \in Nat
    BY DEF TypeOK
  <1>3. /\ Len(chan'[q]) = Len(chan[q]) + 1 /\ chan'[q][Len(chan[q]) + 1] = m
        /\ \A i \in 1 .. Len(chan[q]) : chan'[q][i] = chan[q][i]
    BY <1>2, AppendProperties
  <1>4. SentDhKey(q)'
    BY <1>1 DEF SentDhKey
  <1>5. CASE Pos(q) = SendSsrcAt(q) /\ m.kind = "SSRC"
    <2>1. Len(chan[q]) = n
      BY <1>1, <1>5 DEF OnlySsrcAndSalt
    <2>2. Len(chan'[q]) = n + 1 /\ chan'[q][n + 1].kind = "SSRC"
      BY <1>3, <1>5, <2>1
    <2>3. Pos(q)' + 1 = SendSsrcAt(q)
      BY <1>1, <1>5
    <2> QED
      BY <1>1, <1>4, <2>2, <2>3 DEF OnlySsrcAndSalt
  <1>6. CASE Pos(q) + 1 = SendSsrcAt(q) /\ m.kind = "SALT"
    <2>1. Len(chan[q]) = n + 1 /\ chan[q][n + 1].kind = "SSRC"
      BY <1>1, <1>2, <1>6 DEF OnlySsrcAndSalt
    <2>2. /\ Len(chan'[q]) = n + 2 /\ chan'[q][n + 1].kind = "SSRC"
          /\ chan'[q][n + 2].kind = "SALT"
      BY <1>2, <1>3, <1>6, <2>1
    <2>3. Pos(q)' + 2 = SendSsrcAt(q)
      BY <1>1, <1>6
    <2> QED
      BY <1>1, <1>4, <2>2, <2>3 DEF OnlySsrcAndSalt
  <1> QED
    BY <1>5, <1>6

\* and when p takes the first message of the stream.
LEMMA OnlyTail ==
    ASSUME TypeOK, NEW q \in Party, NEW n \in Nat, OnlySsrcAndSalt(q, n + 1),
           chan[q] # << >>, chan'[q] = Tail(chan[q]), link' = link, Pos(q)' = Pos(q)
    PROVE  OnlySsrcAndSalt(q, n)'
  <1>1. /\ Pos(q) \in 0 .. 12 /\ SendSsrcAt(q) \in 4 .. 6 /\ SendSsrcAt(q)' = SendSsrcAt(q)
    BY PosType, Positions
  <1>2. chan[q] \in Seq(Message) /\ Len(chan[q]) \in Nat
    BY DEF TypeOK
  <1>3. Len(chan'[q]) = Len(chan[q]) - 1 /\ \A i \in 1 .. Len(chan'[q]) : chan'[q][i] = chan[q][i + 1]
    BY <1>2, HeadTailProperties
  <1>4. SentDhKey(q)'
    BY DEF OnlySsrcAndSalt, SentDhKey
  <1>5. /\ Len(chan'[q]) >= n + 1 => chan'[q][n + 1] = chan[q][n + 2]
        /\ Len(chan'[q]) = n + 2 => chan'[q][n + 2] = chan[q][n + 3]
    BY <1>2, <1>3
  <1>6. n + 1 + 1 = n + 2 /\ n + 1 + 2 = n + 3
    OBVIOUS
  <1> QED
    BY <1>1, <1>2, <1>3, <1>4, <1>5, <1>6 DEF OnlySsrcAndSalt

\* A conversation goes on when neither the stream nor what p has read changes.
LEMMA ConversationSame ==
    ASSUME TypeOK, TypeOK', NEW p \in Party, NEW q \in Party, Conversation(p, q),
           chan'[q] = chan[q], got'[p] = got[p], link' = "up" => link = "up",
           Broken(p) => Broken(p)',
           Pos(q)' <= Pos(q), Pos(q)' + 1 = SendSsrcAt(q) => Pos(q)' = Pos(q),
           Pos(p)' = Pos(p)
    PROVE  Conversation(p, q)'
  <1>1. /\ Pos(q) \in 0 .. 12 /\ Pos(q)' \in 0 .. 12 /\ Pos(p) \in 0 .. 12
        /\ SendSsrcAt(q) \in 4 .. 6 /\ SendSsrcAt(q)' = SendSsrcAt(q)
        /\ RecvSsrcAt(p)' = RecvSsrcAt(p)
    BY PosType, PosTypeNext, Positions
  <1>2. Len(chan[q]) \in Nat
    BY DEF TypeOK
  <1>3. BeforeKey(q) => BeforeKey(q)'
    BY <1>2, OnlySame DEF BeforeKey
  <1>4. OnlySsrcAndSalt(q, 0) => OnlySsrcAndSalt(q, 0)'
    BY OnlySame
  <1>5. AfterSsrc(p, q) => AfterSsrc(p, q)'
    BY <1>1 DEF AfterSsrc
  <1>6. AfterSalt(p, q) => AfterSalt(p, q)'
    BY <1>1 DEF AfterSalt, SentSalt
  <1> QED
    BY <1>1, <1>3, <1>4, <1>5, <1>6 DEF Conversation

\* It goes on when the connection breaks.
LEMMA ConversationCut ==
    ASSUME TypeOK, NEW p \in Party, NEW q \in Party, Conversation(p, q),
           NEW k \in 0 .. Len(chan[q]), chan'[q] = SubSeq(chan[q], 1, k),
           got'[p] = got[p], link' = "down", Pos(q)' = Pos(q), Pos(p)' = Pos(p)
    PROVE  Conversation(p, q)'
  <1>1. /\ Pos(q) \in 0 .. 12 /\ Pos(p) \in 0 .. 12
        /\ SendSsrcAt(q) \in 4 .. 6 /\ SendSsrcAt(q)' = SendSsrcAt(q)
        /\ RecvSsrcAt(p)' = RecvSsrcAt(p)
    BY PosType, Positions
  <1>2. chan[q] \in Seq(Message) /\ Len(chan[q]) \in Nat
    BY DEF TypeOK
  <1>2a. /\ Len(chan'[q]) = k
         /\ \A i \in 1 .. k : chan'[q][i] = chan[q][i] /\ i \in 1 .. Len(chan[q])
    BY <1>2
  <1>3. BeforeKey(q) => BeforeKey(q)'
    <2> SUFFICES ASSUME BeforeKey(q), NEW i \in 1 .. k, chan'[q][i].kind = "DH_KEY"
                 PROVE  OnlySsrcAndSalt(q, i)'
      BY <1>2a DEF BeforeKey
    <2>1. OnlySsrcAndSalt(q, i) /\ i \in Nat /\ i <= k
      BY <1>2a DEF BeforeKey
    <2> QED
      BY <2>1, OnlyCut
  <1>4. OnlySsrcAndSalt(q, 0) => OnlySsrcAndSalt(q, 0)'
    BY OnlyCut
  <1>5. AfterSsrc(p, q) => AfterSsrc(p, q)'
    <2>1. k = 1 => chan'[q][1] = chan[q][1] /\ Len(chan[q]) >= 1
      BY <1>2a
    <2>2. ASSUME AfterSsrc(p, q), Len(chan[q]) = 0 PROVE AfterSsrc(p, q)'
      <3>1. Len(chan'[q]) = 0 /\ Broken(p)'
        BY <1>2, <1>2a, <2>2 DEF Broken
      <3> QED
        BY <3>1 DEF AfterSsrc
    <2>3. ASSUME AfterSsrc(p, q), Len(chan[q]) # 0 PROVE AfterSsrc(p, q)'
      <3>1. /\ got[p]["SSRC"] = q /\ Pos(q) < SendSsrcAt(q) /\ Pos(q) + 1 # SendSsrcAt(q)
            /\ Len(chan[q]) = 1 /\ chan[q][1].kind = "SALT"
        <4> DEFINE N == Len(chan[q])
        <4>1. N \in Nat /\ N # 0
          BY <1>2, <2>3
        <4>2. /\ got[p]["SSRC"] = q /\ Pos(q) < SendSsrcAt(q)
              /\ N <= 1 /\ (N = 1 => chan[q][1].kind = "SALT")
              /\ Pos(q) + 1 = SendSsrcAt(q) => N = 0
          BY <2>3 DEF AfterSsrc
        <4> HIDE DEF N
        <4>3. N = 1
          BY <4>1, <4>2
        <4> QED
          BY <4>2, <4>3 DEF N
      <3>2. Len(chan'[q]) <= 1 /\ (Len(chan'[q]) = 1 => chan'[q][1].kind = "SALT")
        BY <1>2, <1>2a, <2>1, <3>1
      <3> QED
        BY <1>1, <3>1, <3>2 DEF AfterSsrc
    <2> QED
      BY <2>2, <2>3
  <1>6. AfterSalt(p, q) => AfterSalt(p, q)'
    BY <1>1, <1>2, <1>2a DEF AfterSalt, SentSalt
  <1> QED
    BY <1>1, <1>3, <1>4, <1>5, <1>6 DEF Conversation

\* It goes on when the keep-alive thread writes before the answer: the caller is still far
\* from the key.
LEMMA ConversationWait ==
    ASSUME TypeOK, NEW p \in Party, NEW q \in Party, Conversation(p, q),
           ~ Broken(p), Pos(q) = 12, Pos(q)' = Pos(q), Pos(p)' = Pos(p), got'[p] = got[p],
           Written(q)'
    PROVE  Conversation(p, q)'
  <1>1. /\ Pos(p) \in 0 .. 12 /\ SendSsrcAt(q) \in 4 .. 6 /\ RecvSsrcAt(p) \in 4 .. 7
        /\ RecvSsrcAt(p)' = RecvSsrcAt(p)
    BY PosType, Positions
  <1>2. BeforeKey(q)'
    BY DEF BeforeKey, Written, SentDhKey
  <1>3. ~ OnlySsrcAndSalt(q, 0)
    BY DEF OnlySsrcAndSalt, SentDhKey
  <1>4. ~ AfterSsrc(p, q)
    BY <1>1 DEF AfterSsrc
  <1>5. AfterSalt(p, q) => AfterSalt(p, q)'
    BY <1>1 DEF AfterSalt, SentSalt
  <1> QED
    BY <1>1, <1>2, <1>3, <1>4, <1>5 DEF Conversation

\* It goes on when q writes.
LEMMA ConversationWrite ==
    ASSUME TypeOK, TypeOK', ProgramInv, NEW p \in Party, NEW q \in Party, Conversation(p, q),
           Written(q), sendMessage(q), status[q] = "running", q = Other(p),
           todo[q] # << >>, chan'[q] = Append(chan[q], MessageOf(q, Current(q))),
           Pos(q) <= 11 => Pos(q)' = Pos(q) - 1, Pos(q)' <= Pos(q),
           Pos(q) = 12 => Pos(q)' >= 11,
           got'[p] = got[p], Pos(p)' = Pos(p)
    PROVE  Conversation(p, q)'
  <1> DEFINE m == MessageOf(q, Current(q))
             h == Head(todo[q])
             N == Len(chan[q])
  <1>1. /\ Pos(q) \in 0 .. 12 /\ Pos(q)' \in 0 .. 12 /\ Pos(p) \in 0 .. 12
        /\ SendSsrcAt(q) \in 4 .. 6 /\ SendSsrcAt(q)' = SendSsrcAt(q)
        /\ RecvSsrcAt(p)' = RecvSsrcAt(p)
    BY PosType, PosTypeNext, Positions
  <1>2. chan[q] \in Seq(Message) /\ N \in Nat
    BY DEF TypeOK
  <1>3. m \in Message /\ m.kind = h.kind
    BY TodoType, MessageOfType DEF MessageOf, Current
  <1>4. link = "up" /\ ~ Broken(p) /\ h.do = "send"
    BY DEF sendMessage, Doing, Broken
  <1>5. /\ m.kind = "DH_KEY" <=> Pos(q) = 10
        /\ m.kind = "SSRC" <=> Pos(q) = SendSsrcAt(q)
        /\ m.kind = "SALT" <=> Pos(q) + 1 = SendSsrcAt(q)
        /\ Pos(q) <= 9 => Pos(q) = SendSsrcAt(q) \/ Pos(q) + 1 = SendSsrcAt(q)
    BY <1>3, <1>4, NextCall, LateSends
  <1> HIDE DEF m, h
  <1>6. chan'[q] = Append(chan[q], m)
    BY DEF m
  <1>7. /\ Len(chan'[q]) = N + 1 /\ chan'[q][N + 1] = m
        /\ \A i \in 1 .. N : chan'[q][i] = chan[q][i]
    BY <1>2, <1>3, <1>6, AppendProperties
  <1>8. ASSUME NEW n \in Nat, OnlySsrcAndSalt(q, n) PROVE OnlySsrcAndSalt(q, n)'
    <2>1. Pos(q) <= 9
      BY <1>8 DEF OnlySsrcAndSalt, SentDhKey
    <2>2. \/ Pos(q) = SendSsrcAt(q) /\ m.kind = "SSRC"
          \/ Pos(q) + 1 = SendSsrcAt(q) /\ m.kind = "SALT"
      BY <1>5, <2>1
    <2>3. Pos(q)' = Pos(q) - 1
      BY <1>1, <2>1
    <2> QED
      BY <1>3, <1>4, <1>6, <1>8, <2>2, <2>3, OnlyAppend
  <1>9. BeforeKey(q) => BeforeKey(q)'
    <2> SUFFICES ASSUME BeforeKey(q), NEW i \in 1 .. N + 1, chan'[q][i].kind = "DH_KEY"
                 PROVE  OnlySsrcAndSalt(q, i)'
      BY <1>7 DEF BeforeKey
    <2>1. CASE i \in 1 .. N
      <3>1. OnlySsrcAndSalt(q, i)
        BY <1>7, <2>1 DEF BeforeKey
      <3> QED
        BY <1>8, <3>1
    <2>2. CASE i = N + 1
      <3>1. Pos(q) = 10 /\ Pos(q)' = 9
        BY <1>1, <1>5, <1>7, <2>2
      <3>2. SentDhKey(q)'
        BY <3>1 DEF SentDhKey
      <3> QED
        BY <1>1, <1>2, <1>7, <2>2, <3>1, <3>2 DEF OnlySsrcAndSalt
    <2> QED
      BY <1>2, <2>1, <2>2
  <1>10. AfterSsrc(p, q) => AfterSsrc(p, q)'
    <2> SUFFICES ASSUME AfterSsrc(p, q) PROVE AfterSsrc(p, q)'
      OBVIOUS
    <2>1. got[p]["SSRC"] = q /\ Pos(q) < SendSsrcAt(q)
      BY <1>4 DEF AfterSsrc
    <2>2. Pos(q) + 1 = SendSsrcAt(q) /\ N = 0
      <3>1. Pos(q) + 1 = SendSsrcAt(q)
        BY <1>1, <1>5, <2>1
      <3> QED
        BY <1>4, <3>1 DEF AfterSsrc
    <2>3. Len(chan'[q]) = 1 /\ chan'[q][1].kind = "SALT" /\ Pos(q)' = Pos(q) - 1
      BY <1>1, <1>5, <1>7, <2>2
    <2> QED
      BY <1>1, <2>1, <2>2, <2>3 DEF AfterSsrc
  <1>11. AfterSalt(p, q) => AfterSalt(p, q)'
    <2>1. ~ SentSalt(q)
      BY <1>1, <1>5 DEF SentSalt
    <2> QED
      BY <2>1 DEF AfterSalt
  <1> QED
    BY <1>1, <1>8, <1>9, <1>10, <1>11 DEF Conversation

\* Only a read changes what p has read.
LEMMA ThreadGot ==
    ASSUME NEW p \in Party, ThreadStep(p), Head(todo[p]).do # "recv"
    PROVE  UNCHANGED got
  BY DEF ThreadStep, readTimesOut, CallThread, sendMessage, sendFails, receiveMessage,
         receiveWrongMessage, endOfStream, Reading, Doing,
         isOtherPartyIntroducing, handleIncomingRequestForIntroduction,
         receiveAnswer, receiveSsrc, receiveSalt, validateKeyAgainstExpected,
         setPublicKey, initSender, initReceiver, startMedia, returnFromReject,
         startKeepAliveWorker, Fail

\* What is at the head of q's stream, when it carries a value, is q's.
LEMMA HeadOwn ==
    ASSUME TypeOK, MessageOrigin, NEW q \in Party, chan[q] # << >>,
           Head(chan[q]).kind \in Carriers
    PROVE  Head(chan[q]).val = q
  <1>1. chan[q] \in Seq(OwnMessage(q))
    BY DEF MessageOrigin
  <1>2. Head(chan[q]) \in OwnMessage(q)
    BY <1>1
  <1> QED
    BY <1>2 DEF OwnMessage

\* receiveSsrc: what p reads after the key is the SSRC of q.
LEMMA ReadsSsrc ==
    ASSUME TypeOK, MessageOrigin, NEW p \in Party, NEW q \in Party, q = Other(p),
           OnlySsrcAndSalt(q, 0), receiveSsrc(p), Pos(q)' = Pos(q)
    PROVE  AfterSsrc(p, q)'
  <1>0. /\ Pos(q) \in 0 .. 12 /\ SendSsrcAt(q) \in 4 .. 6 /\ SendSsrcAt(q)' = SendSsrcAt(q)
    BY PosType, Positions
  <1>1. /\ Inbox(p) = chan[q] /\ chan \in [Party -> Seq(Message)]
        /\ chan[q] \in Seq(Message) /\ Len(chan[q]) \in Nat
    BY DEF Inbox, TypeOK
  <1>2. chan[q] # << >>
    BY <1>1, AvailableMeans DEF receiveSsrc, Reading
  <1>3. Len(chan[q]) >= 1 /\ Head(chan[q]) = chan[q][1]
    BY <1>1, <1>2
  <1>4. Head(chan[q]).kind = "SSRC"
    BY <1>3 DEF OnlySsrcAndSalt
  <1>5. Head(chan[q]).val = q
    BY <1>2, <1>4, HeadOwn DEF Carriers
  <1>6. got' = [got EXCEPT ![p]["SSRC"] = q] /\ chan' = [chan EXCEPT ![q] = Tail(@)]
    BY <1>1, <1>4, <1>5 DEF receiveSsrc, Consume
  <1>7. got'[p]["SSRC"] = q
    BY <1>6 DEF TypeOK, Received
  <1>8. chan'[q] = Tail(chan[q])
    BY <1>1, <1>6
  <1>9. Len(chan'[q]) = Len(chan[q]) - 1 /\ (Len(chan[q]) = 2 => chan'[q][1] = chan[q][2])
    BY <1>1, <1>2, <1>8, HeadTailProperties
  <1>10. /\ Len(chan[q]) <= 2 /\ (Len(chan[q]) = 2 => chan[q][2].kind = "SALT")
         /\ Pos(q) >= SendSsrcAt(q) => Len(chan[q]) = 0
         /\ Pos(q) + 1 = SendSsrcAt(q) => Len(chan[q]) <= 1
    BY DEF OnlySsrcAndSalt
  <1>11. /\ Pos(q)' < SendSsrcAt(q)'
         /\ Len(chan'[q]) <= 1
         /\ Len(chan'[q]) = 1 => chan'[q][1].kind = "SALT"
         /\ Pos(q)' + 1 = SendSsrcAt(q)' => Len(chan'[q]) = 0
    <2> DEFINE N == Len(chan[q])
               M == Len(chan'[q])
    <2>1. /\ N \in Nat /\ N >= 1 /\ M = N - 1 /\ N <= 2
          /\ Pos(q)' >= SendSsrcAt(q)' => N = 0
          /\ Pos(q)' + 1 = SendSsrcAt(q)' => N <= 1
          /\ N = 2 => chan'[q][1].kind = "SALT"
      BY <1>0, <1>1, <1>3, <1>9, <1>10
    <2> HIDE DEF N, M
    <2>2. /\ Pos(q)' < SendSsrcAt(q)' /\ M <= 1 /\ (M = 1 => N = 2)
          /\ Pos(q)' + 1 = SendSsrcAt(q)' => M = 0
      BY <1>0, <2>1
    <2> QED
      BY <2>1, <2>2 DEF M
  <1> QED
    BY <1>7, <1>11 DEF AfterSsrc

\* receiveSalt: what p reads after the SSRC is the salt of q.
LEMMA ReadsSalt ==
    ASSUME TypeOK, MessageOrigin, NEW p \in Party, NEW q \in Party, q = Other(p),
           Written(q), AfterSsrc(p, q), receiveSalt(p), Pos(q)' = Pos(q)
    PROVE  AfterSalt(p, q)'
  <1>0. /\ SendSsrcAt(q) \in 4 .. 6 /\ SendSsrcAt(q)' = SendSsrcAt(q)
    BY Positions
  <1>1. /\ Inbox(p) = chan[q] /\ chan \in [Party -> Seq(Message)]
        /\ chan[q] \in Seq(Message) /\ Len(chan[q]) \in Nat
    BY DEF Inbox, TypeOK
  <1>2. chan[q] # << >>
    BY <1>1, AvailableMeans DEF receiveSalt, Reading
  <1>3. Len(chan[q]) >= 1 /\ Head(chan[q]) = chan[q][1]
    BY <1>1, <1>2
  <1>4. /\ got[p]["SSRC"] = q /\ Len(chan[q]) = 1
        /\ chan[q][1].kind = "SALT" /\ Head(chan[q]).kind = "SALT"
    <2>1. /\ got[p]["SSRC"] = q /\ Len(chan[q]) <= 1
          /\ Len(chan[q]) = 1 => chan[q][1].kind = "SALT"
      BY <1>1, <1>3 DEF AfterSsrc
    <2>2. Len(chan[q]) = 1
      <3> DEFINE N == Len(chan[q])
      <3>1. N \in Nat /\ N >= 1 /\ N <= 1
        BY <1>1, <1>3, <2>1
      <3> HIDE DEF N
      <3>2. N = 1
        BY <3>1
      <3> QED
        BY <3>2 DEF N
    <2> QED
      BY <1>3, <2>1, <2>2
  <1>5. Head(chan[q]).val = q
    BY <1>2, <1>4, HeadOwn DEF Carriers
  <1>6. got' = [got EXCEPT ![p]["SALT"] = q] /\ chan' = [chan EXCEPT ![q] = Tail(@)]
    BY <1>1, <1>4, <1>5 DEF receiveSalt, Consume
  <1>7. got'[p]["SALT"] = q /\ got'[p]["SSRC"] = q
    BY <1>4, <1>6 DEF TypeOK, Received
  <1>8. Len(chan'[q]) = 0
    <2>1. chan'[q] = Tail(chan[q])
      BY <1>1, <1>6
    <2> QED
      BY <1>1, <1>2, <1>4, <2>1, HeadTailProperties
  <1>9. SentSalt(q)'
    BY <1>0, <1>4 DEF Written, SentSalt
  <1> QED
    BY <1>7, <1>8, <1>9 DEF AfterSalt

\* A read that the end of the stream cuts short leaves no more to read, and no salt.
LEMMA ReadsNothing ==
    ASSUME TypeOK, NEW p \in Party, NEW q \in Party, q = Other(p), endOfStream(p)
    PROVE  /\ Current(p) = "SSRC" => AfterSsrc(p, q)'
           /\ Current(p) = "SALT" => AfterSalt(p, q)'
  <1>1. Current(p) = "SSRC" => AfterSsrc(p, q)'
    <2> SUFFICES ASSUME Current(p) = "SSRC" PROVE AfterSsrc(p, q)'
      OBVIOUS
    <2>1. chan[q] = << >> /\ Broken(p)
      BY DEF endOfStream, Available, Inbox
    <2>2. UNCHANGED <<chan, status, link>>
      BY DEF endOfStream, ReadError
    <2>3. Len(chan'[q]) = 0 /\ Broken(p)'
      BY <2>1, <2>2 DEF Broken, Other
    <2> QED
      BY <2>3 DEF AfterSsrc
  <1>2. Current(p) = "SALT" => AfterSalt(p, q)'
    <2> SUFFICES ASSUME Current(p) = "SALT" PROVE AfterSalt(p, q)'
      OBVIOUS
    <2>1. got' = [got EXCEPT ![p]["SALT"] = None]
      BY DEF endOfStream, ReadError
    <2>2. got'[p]["SALT"] = None
      BY <2>1 DEF TypeOK, Received
    <2> QED
      BY <2>2 DEF AfterSalt
  <1> QED
    BY <1>1, <1>2

\* receiveMessageWithSizeFirst of the key exchange: after the key only SSRC and salt come.
LEMMA ReadsKey ==
    ASSUME TypeOK, NEW p \in Party, NEW q \in Party, q = Other(p), Current(p) = "DH_KEY",
           BeforeKey(q), receiveMessage(p), Pos(q)' = Pos(q)
    PROVE  OnlySsrcAndSalt(q, 0)'
  <1>1. /\ Inbox(p) = chan[q] /\ chan \in [Party -> Seq(Message)]
        /\ chan[q] \in Seq(Message) /\ Len(chan[q]) \in Nat
    BY DEF Inbox, TypeOK
  <1>2. chan[q] # << >>
    BY <1>1, AvailableMeans DEF receiveMessage, Reading
  <1>3. Len(chan[q]) >= 1 /\ Head(chan[q]) = chan[q][1]
    BY <1>1, <1>2
  <1>4. Head(chan[q]).kind = "DH_KEY"
    BY <1>1 DEF receiveMessage, Reading, Acceptable
  <1>5. OnlySsrcAndSalt(q, 1)
    <2>1. 1 \in 1 .. Len(chan[q])
      BY <1>1, <1>3
    <2> QED
      BY <1>3, <1>4, <2>1 DEF BeforeKey
  <1>6. chan' = [chan EXCEPT ![q] = Tail(@)] /\ link' = link
    BY DEF receiveMessage, Consume
  <1>7. chan'[q] = Tail(chan[q])
    BY <1>1, <1>6
  <1>8. 0 + 1 = 1
    OBVIOUS
  <1> QED
    BY <1>2, <1>5, <1>6, <1>7, <1>8, OnlyTail

\* Reading another message leaves p before the key.
LEMMA ReadsEarly ==
    ASSUME TypeOK, NEW q \in Party, BeforeKey(q), Pos(q)' = Pos(q), link' = link,
           chan[q] # << >>, chan'[q] = Tail(chan[q])
    PROVE  BeforeKey(q)'
  <1>1. chan[q] \in Seq(Message) /\ Len(chan[q]) \in Nat
    BY DEF TypeOK
  <1>2. /\ Len(chan'[q]) = Len(chan[q]) - 1
        /\ \A i \in 1 .. Len(chan'[q]) : chan'[q][i] = chan[q][i + 1]
    BY <1>1, HeadTailProperties
  <1> SUFFICES ASSUME NEW i \in 1 .. Len(chan'[q]), chan'[q][i].kind = "DH_KEY"
               PROVE  OnlySsrcAndSalt(q, i)'
    BY DEF BeforeKey
  <1>3. i + 1 \in 1 .. Len(chan[q]) /\ chan[q][i + 1].kind = "DH_KEY" /\ i \in Nat
    BY <1>1, <1>2
  <1>4. OnlySsrcAndSalt(q, i + 1)
    BY <1>3 DEF BeforeKey
  <1> QED
    BY <1>3, <1>4, OnlyTail

\* The conversation of p goes on when p's own call thread makes a step.
LEMMA ConversationOwn ==
    ASSUME TypeOK, TypeOK', MessageOrigin, ReadyInv, NEW p \in Party, NEW q \in Party,
           q = Other(p), ThreadStep(p), ~ Disturbed(p)', status'[p] # "failed",
           Conversation(p, q)
    PROVE  Conversation(p, q)'
  <1> DEFINE h == Head(todo[p])
             P == Pos(p)
             S == SendSsrcAt(p)
             R == RecvSsrcAt(p)
  <1>0. ProgramInv /\ DoneInv /\ Written(q)
    BY DEF ReadyInv, ControlInv, WrittenInv
  <1>1. /\ P \in 0 .. 12 /\ P' \in 0 .. 12
        /\ (S = 6 /\ R = 4) \/ (S = 4 /\ R = 7)
        /\ R' = R /\ q # p
    <2>1. (S = 6 /\ R = 4) \/ (S = 4 /\ R = 7)
      BY DEF SendSsrcAt, RecvSsrcAt
    <2> QED
      BY <2>1, PosType, PosTypeNext, Positions
  <1>2. /\ P' = P \/ P' = P - 1 \/ (P = S /\ P' = P - 2)
        /\ Advance(p) /\ todo[p] # << >> /\ P <= 11 => P' = P - 1
        /\ Pos(q)' = Pos(q)
    BY <1>0, <1>1, ThreadPos
  <1>3. todo[p] # << >> /\ status[p] = "running" /\ link' = link
    BY <1>1, ActionOf, ThreadFrame
  <1>4. /\ h.do = "recv" /\ h.kind = "DH_KEY" <=> P = 8
        /\ h.do = "recv" /\ h.kind = "SSRC" <=> P = R
        /\ h.do = "recv" /\ h.kind = "SALT" <=> P + 1 = R
    BY <1>0, <1>3, NextCall
  <1>5. ~ (p = Caller /\ readTimesOut)
    BY DEF readTimesOut, Disturbed
  <1>6. /\ chan[q] \in Seq(Message)
        /\ \/ chan'[q] = chan[q]
           \/ chan[q] # << >> /\ chan'[q] = Tail(chan[q]) /\ h.do = "recv"
           \/ h.do = "recv" /\ h.kind \in {"SSRC", "SALT"}
    BY ThreadReads DEF TypeOK
  <1>7. Pos(q)' + 1 = SendSsrcAt(q) => Pos(q)' = Pos(q)
    BY <1>2
  <1>8. Pos(q)' <= Pos(q)
    BY <1>2, PosType
  <1> HIDE DEF h, P, S, R
  <1>9. CASE P > 8
    <2>1. ~ (h.do = "recv" /\ h.kind \in {"SSRC", "SALT"})
      BY <1>1, <1>4, <1>9
    <2>2. BeforeKey(q)
      BY <1>1, <1>9 DEF Conversation, P, R
    <2>3. ASSUME chan'[q] = chan[q] PROVE BeforeKey(q)'
      <3>1. \A i \in 1 .. Len(chan[q]) : i \in Nat
        BY <1>6
      <3>2. ASSUME NEW i \in 1 .. Len(chan[q]), chan[q][i].kind = "DH_KEY"
            PROVE  OnlySsrcAndSalt(q, i)'
        <4>1. OnlySsrcAndSalt(q, i) /\ i \in Nat
          BY <2>2, <3>1, <3>2 DEF BeforeKey
        <4> QED
          BY <1>3, <1>7, <1>8, <2>3, <4>1, OnlySame
      <3> QED
        BY <2>3, <3>2 DEF BeforeKey
    <2>4. ASSUME chan[q] # << >>, chan'[q] = Tail(chan[q]) PROVE BeforeKey(q)'
      BY <1>2, <1>3, <2>2, <2>4, ReadsEarly
    <2>5. BeforeKey(q)' /\ P' >= 8
      <3>1. BeforeKey(q)'
        BY <1>6, <2>1, <2>3, <2>4
      <3>2. P' >= 8
        BY <1>1, <1>2, <1>9
      <3> QED
        BY <3>1, <3>2
    <2>6. ~ (P' <= 7) /\ ~ (P' + 1 = R) /\ ~ (P' + 2 <= R)
      BY <1>1, <2>5
    <2> QED
      BY <1>1, <2>5, <2>6 DEF Conversation, P, R
  <1>10. CASE P = 8
    <2>1. receiveMessage(p) /\ Current(p) = "DH_KEY"
      <3>1. h.do = "recv" /\ h.kind = "DH_KEY"
        BY <1>4, <1>10
      <3>2. receiveMessage(p) \/ Fail(p)
        BY <3>1, ActionOf DEF h
      <3>3. ~ Fail(p)
        BY DEF Fail, TypeOK
      <3> QED
        BY <3>1, <3>2, <3>3 DEF Current, h
    <2>2. BeforeKey(q)
      BY <1>10 DEF Conversation, P
    <2>3. OnlySsrcAndSalt(q, 0)'
      BY <1>2, <2>1, <2>2, ReadsKey
    <2>4. P' = 7
      <3>1. Advance(p)
        BY <2>1 DEF receiveMessage
      <3> QED
        BY <1>2, <1>3, <1>10, <3>1
    <2>5. ~ (P' > 7) /\ ~ (P' + 1 = R) /\ ~ (P' + 2 <= R)
      BY <1>1, <2>4
    <2> QED
      BY <1>1, <2>3, <2>5 DEF Conversation, P, R
  <1>11. CASE P <= 7 /\ h.do # "recv"
    <2>1. chan'[q] = chan[q] /\ got' = got
      BY <1>6, <1>11, ThreadGot DEF h
    <2>2. P # R /\ P + 1 # R
      BY <1>4, <1>11
    <2>3. CASE P > R
      <3>1. OnlySsrcAndSalt(q, 0)
        BY <1>1, <1>11, <2>3 DEF Conversation, P, R
      <3>2. OnlySsrcAndSalt(q, 0)'
        BY <1>3, <1>7, <1>8, <2>1, <3>1, OnlySame
      <3>3. P' <= 7 /\ P' >= R
        BY <1>1, <1>2, <1>11, <2>3
      <3>4. ~ (P' > 7) /\ ~ (P' + 1 = R) /\ ~ (P' + 2 <= R)
        BY <1>1, <3>3
      <3> QED
        BY <1>1, <3>2, <3>3, <3>4 DEF Conversation, P, R
    <2>4. CASE P + 2 <= R
      <3>1. AfterSalt(p, q)
        BY <2>4 DEF Conversation, P, R
      <3>2. AfterSalt(p, q)'
        BY <1>2, <2>1, <3>1, Positions DEF AfterSalt, SentSalt
      <3>3. ~ (P' > 7) /\ ~ (P' + 1 = R) /\ ~ (P' >= R)
        BY <1>1, <1>2, <2>4
      <3> QED
        BY <1>1, <3>2, <3>3 DEF Conversation, P, R
    <2> QED
      BY <1>1, <2>2, <2>3, <2>4
  <1>12. CASE P <= 7 /\ h.do = "recv" /\ P = R
    <2>1. OnlySsrcAndSalt(q, 0)
      BY <1>1, <1>12 DEF Conversation, P, R
    <2>2. (receiveSsrc(p) \/ endOfStream(p)) /\ Current(p) = "SSRC"
      BY <1>4, <1>5, <1>12, ActionOf DEF h, Current
    <2>3. AfterSsrc(p, q)'
      BY <1>2, <2>1, <2>2, ReadsSsrc, ReadsNothing
    <2>4. P' = P - 1
      <3>1. Advance(p)
        BY <2>2 DEF receiveSsrc, endOfStream, ReadError
      <3> QED
        BY <1>1, <1>2, <1>3, <1>12, <3>1
    <2>5. ~ (P' > 7) /\ ~ (P' >= R) /\ ~ (P' + 2 <= R)
      BY <1>1, <1>12, <2>4
    <2> QED
      BY <1>1, <2>3, <2>5 DEF Conversation, P, R
  <1>13. CASE P <= 7 /\ h.do = "recv" /\ P + 1 = R
    <2>1. AfterSsrc(p, q)
      BY <1>13 DEF Conversation, P, R
    <2>2. (receiveSalt(p) \/ endOfStream(p)) /\ Current(p) = "SALT"
      BY <1>4, <1>5, <1>13, ActionOf DEF h, Current
    <2>3. AfterSalt(p, q)'
      BY <1>0, <1>2, <2>1, <2>2, ReadsSalt, ReadsNothing
    <2>4. P' = P - 1
      <3>1. Advance(p)
        BY <2>2 DEF receiveSalt, endOfStream, ReadError
      <3> QED
        BY <1>1, <1>2, <1>3, <1>13, <3>1
    <2>5. ~ (P' > 7) /\ ~ (P' >= R) /\ ~ (P' + 1 = R)
      BY <1>1, <1>13, <2>4
    <2> QED
      BY <1>1, <2>3, <2>5 DEF Conversation, P, R
  <1> QED
    <2>1. P <= 7 /\ h.do = "recv" => P = R \/ P + 1 = R
      BY <1>0, <1>3, LateReads DEF P, R, h
    <2> QED
      BY <1>1, <1>9, <1>10, <1>11, <1>12, <1>13, <2>1

\* The conversation of p goes on when the call thread of the other party makes a step.
LEMMA ConversationOther ==
    ASSUME TypeOK, TypeOK', ReadyInv, NEW p \in Party, NEW q \in Party, q = Other(p),
           ThreadStep(q), Conversation(p, q)
    PROVE  Conversation(p, q)'
  <1>0. ProgramInv /\ DoneInv /\ Written(q) /\ p # q /\ Other(q) = p
    BY Positions DEF ReadyInv, ControlInv, WrittenInv
  <1>1. /\ Pos(q) \in 0 .. 12 /\ Pos(q)' \in 0 .. 12 /\ SendSsrcAt(q) \in 4 .. 6
    BY PosType, PosTypeNext, Positions
  <1>2. /\ \/ Pos(q)' = Pos(q)
           \/ Pos(q)' = Pos(q) - 1
           \/ Pos(q) = SendSsrcAt(q) /\ Pos(q)' = Pos(q) - 2
        /\ UNCHANGED todo => Pos(q)' = Pos(q)
        /\ Advance(q) /\ todo[q] # << >> /\ Pos(q) <= 11 => Pos(q)' = Pos(q) - 1
        /\ Pos(p)' = Pos(p)
    BY <1>0, ThreadPos
  <1>3. /\ todo[q] # << >> /\ status[q] = "running"
        /\ link' = link /\ got'[p] = got[p] /\ status'[p] = status[p]
    BY <1>0, ActionOf, ThreadFrame
  <1>4. Broken(p) => Broken(p)'
    BY <1>3 DEF Broken, Other
  <1>5. CASE chan'[q] # chan[q]
    <2>1. sendMessage(q) /\ chan'[q] = Append(chan[q], MessageOf(q, Current(q)))
      BY <1>5, ThreadWrites
    <2>2. Advance(q)
      BY <2>1 DEF sendMessage
    <2>3. /\ Pos(q) <= 11 => Pos(q)' = Pos(q) - 1
          /\ Pos(q)' <= Pos(q)
          /\ Pos(q) = 12 => Pos(q)' >= 11
      BY <1>1, <1>2, <1>3, <2>2
    <2> QED
      BY <1>0, <1>2, <1>3, <2>1, <2>3, ConversationWrite
  <1>6. CASE chan'[q] = chan[q]
    <2>1. Pos(q)' <= Pos(q)
      BY <1>1, <1>2
    <2>2. ASSUME Pos(q)' + 1 = SendSsrcAt(q), Pos(q)' # Pos(q) PROVE FALSE
      <3>1. Pos(q) = SendSsrcAt(q) /\ Pos(q)' = Pos(q) - 1
        BY <1>1, <1>2, <2>2
      <3>2. Head(todo[q]).do = "send" /\ Head(todo[q]).kind = "SSRC"
        BY <1>0, <1>3, <3>1, NextCall
      <3>3. ~ sendMessage(q)
        <4> SUFFICES ASSUME sendMessage(q) PROVE FALSE
          OBVIOUS
        <4>1. chan \in [Party -> Seq(Message)] /\ chan[q] \in Seq(Message)
          BY DEF TypeOK
        <4>2. chan'[q] = Append(chan[q], MessageOf(q, Current(q)))
          BY <4>1 DEF sendMessage
        <4>3. Len(chan'[q]) = Len(chan[q]) + 1 /\ Len(chan[q]) \in Nat
          BY <4>1, <4>2
        <4> QED
          BY <1>6, <4>3
      <3>4. sendFails(q)
        BY <3>2, <3>3, ActionOf
      <3>5. todo'[q] = SubSeq(todo[q], 3, Len(todo[q]))
        BY <3>2, <3>4 DEF sendFails, Current, TypeOK
      <3>6. Left(q)' = Left(q) - 2
        <4>1. todo[q] \in Seq(Op) /\ Left(q) >= 4
          <5>1. todo[q] \in Seq(Op)
            BY DEF TypeOK
          <5>2. Pos(q) = Left(q)
            BY <1>1, <3>1 DEF Pos
          <5> QED
            BY <1>1, <3>1, <5>1, <5>2
        <4>2. Len(todo'[q]) = Len(todo[q]) - 2
          BY <3>5, <4>1 DEF Left
        <4> QED
          BY <4>2 DEF Left
      <3>7. Pos(q)' = Pos(q) - 2
        <4>1. Going(q) /\ Left(q) <= 11 /\ Pos(q) = Left(q)
          BY <1>1, <3>1 DEF Pos
        <4>2. Going(q)'
          BY <1>0, <4>1, ThreadPos
        <4> QED
          BY <1>1, <3>6, <4>1, <4>2 DEF Pos
      <3> QED
        BY <1>1, <3>1, <3>7
    <2> QED
      BY <1>2, <1>3, <1>4, <1>6, <2>1, <2>2, ConversationSame
  <1> QED
    BY <1>5, <1>6

\* A step of neither call thread, nor of the user, leaves an undisturbed conversation going on.
LEMMA ConversationOutside ==
    ASSUME TypeOK, TypeOK', ReadyInv, ReadyInv', NEW p \in Party, NEW q \in Party,
           q = Other(p), OutsideStep, ~ Disturbed(p)', Conversation(p, q)
    PROVE  Conversation(p, q)'
  <1>1. /\ got' = got /\ (\A r \in Party : status'[r] \in {status[r], "failed"})
        /\ Pos(p)' = Pos(p) /\ Pos(q)' = Pos(q) /\ Pos(q) \in 0 .. 12
    BY OutsideFrame, PosType
  <1>2. CASE chan'[q] = chan[q]
    <2>1. link' \in {link, "down"}
      BY DEF OutsideStep, KeepAliveWorker, workerChecks, workerSendsWait, workerSendFails,
             workerWakes, Fail, linkBreaks, Terminated, vars
    <2>2. Broken(p) => Broken(p)'
      BY <1>1, <2>1 DEF Broken, Other
    <2> QED
      BY <1>1, <1>2, <2>1, <2>2, ConversationSame
  <1>3. CASE chan'[q] # chan[q] /\ workerSendsWait
    <2>1. q = Callee /\ p = Caller
      <3>1. chan' = [chan EXCEPT ![Callee] = Append(@, MessageOf(Callee, "WAIT"))]
        BY <1>3 DEF workerSendsWait
      <3>2. q = Callee
        BY <1>3, <3>1 DEF TypeOK
      <3> QED
        BY <3>2 DEF Other, Party, Caller, Callee
    <2>2. link = "up" /\ status[q] # "failed"
      BY <1>3, <2>1 DEF workerSendsWait, WorkerAlive
    <2>3. ~ Broken(p)
      BY <2>2 DEF Broken
    <2>4. answer = None
      <3>1. strays \in Nat /\ strays' = IF answer # None THEN strays + 1 ELSE strays
        BY <1>3 DEF workerSendsWait, TypeOK
      <3>2. ~ (strays' > 0)
        BY <2>1 DEF Disturbed
      <3> QED
        BY <3>1, <3>2
    <2>5. Pos(q) = 12
      <3>1. ~ Going(Callee) \/ Left(Callee) >= 12
        BY <2>4 DEF ReadyInv, ControlInv, AnswerInv, None
      <3>2. Left(q) \in Nat
        BY PosType
      <3> QED
        BY <2>1, <3>1, <3>2 DEF Pos
    <2>6. Written(q)'
      BY DEF ReadyInv, WrittenInv
    <2> QED
      BY <1>1, <2>3, <2>5, <2>6, ConversationWait
  <1>4. CASE chan'[q] # chan[q] /\ ~ workerSendsWait
    <2>1. linkBreaks
      BY <1>4 DEF OutsideStep, KeepAliveWorker, workerChecks, workerSendFails,
                  workerWakes, Fail, Terminated, vars
    <2>2. PICK k \in 0 .. Len(chan[q]) : chan'[q] = SubSeq(chan[q], 1, k)
      BY <1>4, OutsideStreams
    <2>3. link' = "down"
      BY <2>1 DEF linkBreaks
    <2> QED
      BY <1>1, <2>2, <2>3, ConversationCut
  <1> QED
    BY <1>2, <1>3, <1>4

\* Nothing makes good a disturbance, and a party that has failed stays so.
LEMMA DisturbedStays ==
    ASSUME IInv, TypeOK', [Next]_vars, NEW p \in Party
    PROVE  /\ Disturbed(p) => Disturbed(p)'
           /\ status[p] = "failed" => status'[p] = "failed"
  <1> USE DEF workerVars
  <1>0. TypeOK
    BY DEF IInv
  <1>1. strays \in Nat /\ strays' \in Nat /\ strays' >= strays
    <2>1. strays' = strays \/ strays' = strays + 1
      <3>1. ASSUME NEW r \in Party, CallThread(r) PROVE strays' = strays
        BY <3>1, CallThreadRunning
      <3>2. CASE KeepAliveWorker
        BY <3>2 DEF KeepAliveWorker, workerChecks, workerSendsWait, workerSendFails,
                    workerWakes, Fail
      <3>3. CASE User \/ readTimesOut \/ linkBreaks \/ Terminated \/ UNCHANGED vars
        BY <3>3 DEF User, UserAccepts, UserRejects, readTimesOut, ReadError, Fail, linkBreaks,
                    Terminated, vars
      <3> QED
        BY <3>1, <3>2, <3>3 DEF Next
    <2> QED
      BY <1>0, <2>1 DEF TypeOK
  <1>2. timedOut => timedOut'
    BY DEF Next, CallThread, KeepAliveWorker, User, readTimesOut, Terminated, vars
  <1>3. Disturbed(p) => Disturbed(p)'
    <2>1. strays > 0 => strays' > 0
      BY <1>1
    <2> QED
      BY <1>2, <2>1, Zenon DEF Disturbed, Caller
  <1>4. status[p] = "failed" => status'[p] = "failed"
    <2> SUFFICES ASSUME status[p] = "failed" PROVE status'[p] = "failed"
      OBVIOUS
    <2>1. ASSUME NEW r \in Party, ThreadStep(r) PROVE status'[p] = "failed"
      <3>1. r # p
        BY <2>1, ActionOf
      <3> QED
        BY <1>0, <2>1, <3>1, ThreadFrame
    <2>2. CASE OutsideStep
      BY <1>0, <2>2, OutsideFrame
    <2>3. CASE User
      BY <1>0, <2>3 DEF User, UserAccepts, UserRejects, TypeOK
    <2> QED
      BY <2>1, <2>2, <2>3 DEF Next, ThreadStep, OutsideStep, Party
  <1> QED
    BY <1>3, <1>4

\* A context that p has made is the one q sends with, and q has made its own before.
LEMMA ContextStep ==
    ASSUME IInv, TypeOK', ReadyInv, NEW p \in Party, NEW q \in Party, q = Other(p),
           [Next]_vars, recvCtx[p] # NoContext => recvCtx[p] = sendCtx[q],
           status[p] # "failed" => Conversation(p, q), recvCtx'[p] # NoContext
    PROVE  recvCtx'[p] = sendCtx'[q]
  <1>0. TypeOK /\ MessageOrigin /\ ProgramInv /\ DoneInv /\ q # p /\ Other(q) = p
    BY Positions DEF IInv, ReadyInv, ControlInv
  <1>1. ASSUME NEW r \in Party, ThreadStep(r), recvCtx'[p] # recvCtx[p]
        PROVE  recvCtx'[p] = sendCtx'[q]
    <2>1. r = p
      BY <1>0, <1>1, ThreadFrame
    <2>2. /\ Doing(p, "initReceiver") /\ got[p]["SALT"] # None /\ sendCtx' = sendCtx
          /\ recvCtx'[p] = [key |-> keys[p].rx, ssrc |-> got[p]["SSRC"],
                            salt |-> got[p]["SALT"]]
      BY <1>0, <1>1, <2>1, ThreadRecvCtx
    <2>3. Pos(p) = 2 /\ status[p] = "running"
      BY <1>0, <2>2, NextCall DEF Doing
    <2>4. got[p]["SSRC"] = q /\ got[p]["SALT"] = q /\ SentSalt(q)
      <3>1. RecvSsrcAt(p) \in 4 .. 7
        BY Positions
      <3>2. AfterSalt(p, q)
        BY <2>3, <3>1 DEF Conversation
      <3> QED
        BY <2>2, <3>2 DEF AfterSalt
    <2>5. Pos(q) <= 7 /\ Pos(q) <= SendSsrcAt(q)
      BY <1>0, <2>4, Positions, PosType DEF SentSalt
    <2>6. keys[p] = DerivedKeys(p, q) /\ keys[q] = DerivedKeys(q, p)
      BY <1>0, <2>3, <2>5 DEF DoneInv, KeysDone
    <2>7. sendCtx[q] = [key |-> keys[q].tx, ssrc |-> q, salt |-> q]
      BY <2>5, <1>0 DEF DoneInv, SenderDone
    <2>8. DerivedKeys(p, q).rx = DerivedKeys(q, p).tx
      <3>1. {p, q} = {q, p}
        OBVIOUS
      <3> QED
        BY <1>0, <3>1 DEF DerivedKeys, Party, Caller, Callee
    <2> QED
      BY <2>2, <2>4, <2>6, <2>7, <2>8
  <1>2. ASSUME NEW r \in Party, ThreadStep(r), recvCtx'[p] = recvCtx[p]
        PROVE  recvCtx'[p] = sendCtx'[q]
    <2>1. recvCtx[p] # NoContext
      BY <1>2 DEF NoContext, NoSrtpKey, SrtpKey
    <2>2. SentSalt(q)
      <3>1. ReceiverDone(p)
        BY <1>0 DEF DoneInv
      <3>2. got[p]["SALT"] # None
        BY <2>1, <3>1 DEF ReceiverDone
      <3> QED
        BY <1>0, <3>2 DEF ReadyInv, WrittenInv
    <2>3. sendCtx'[q] = sendCtx[q]
      <3>1. CASE r = q
        <4>1. Pos(q) # SendSsrcAt(q) + 1
          BY <1>0, <2>2, Positions, PosType DEF SentSalt
        <4>2. Head(todo[q]).do # "initSender"
          BY <1>0, <1>2, <3>1, <4>1, NextCall, ActionOf
        <4> QED
          BY <1>0, <1>2, <3>1, <4>2, ThreadSendCtx
      <3>2. CASE r # q
        BY <1>0, <1>2, <3>2, ThreadFrame
      <3> QED
        BY <3>1, <3>2
    <2> QED
      BY <1>2, <2>1, <2>3
  <1>3. CASE OutsideStep
    <2>1. recvCtx' = recvCtx /\ sendCtx' = sendCtx
      BY <1>0, <1>3, OutsideFrame
    <2> QED
      BY <2>1 DEF NoContext, NoSrtpKey, SrtpKey
  <1>4. CASE User
    <2>1. recvCtx' = recvCtx /\ sendCtx' = sendCtx
      BY <1>0, <1>4, UserPos
    <2> QED
      BY <2>1 DEF NoContext, NoSrtpKey, SrtpKey
  <1> QED
    BY <1>1, <1>2, <1>3, <1>4 DEF Next, ThreadStep, OutsideStep, Party

\* Every step keeps ConversationInv.
LEMMA ConversationStep ==
    ASSUME IInv, TypeOK', ReadyInv, ReadyInv', ConversationInv, [Next]_vars
    PROVE  ConversationInv'
  <1>0. TypeOK /\ MessageOrigin
    BY DEF IInv
  <1> SUFFICES ASSUME NEW p \in Party, ~ Disturbed(p)'
               PROVE  /\ status'[p] # "failed" => Conversation(p, Other(p))'
                      /\ recvCtx'[p] # NoContext => recvCtx'[p] = sendCtx'[Other(p)]
    BY DEF ConversationInv, Other, NoContext, NoSrtpKey, SrtpKey
  <1> DEFINE q == Other(p)
  <1>1. q \in Party /\ q # p /\ Other(q) = p /\ q' = q
    BY Positions
  <1>2. ~ Disturbed(p)
    BY DisturbedStays
  <1>3. /\ status[p] # "failed" => Conversation(p, q)
        /\ recvCtx[p] # NoContext => recvCtx[p] = sendCtx[q]
    BY <1>2 DEF ConversationInv
  <1> HIDE DEF q
  <1>4. ASSUME status'[p] # "failed" PROVE Conversation(p, q)'
    <2>1. status[p] # "failed" /\ Conversation(p, q)
      BY <1>3, <1>4, DisturbedStays
    <2>2. ASSUME NEW r \in Party, ThreadStep(r) PROVE Conversation(p, q)'
      <3>1. r = p \/ r = q
        BY <1>1 DEF Party, Other, q
      <3>2. CASE r = p
        BY <1>0, <1>1, <1>4, <2>1, <2>2, <3>2, ConversationOwn DEF q
      <3>3. CASE r = q
        BY <1>0, <1>1, <2>1, <2>2, <3>3, ConversationOther DEF q
      <3> QED
        BY <3>1, <3>2, <3>3
    <2>3. CASE OutsideStep
      BY <1>0, <1>1, <2>1, <2>3, ConversationOutside DEF q
    <2>4. CASE User
      <3>1. /\ UNCHANGED <<got, chan, link>> /\ Pos(p)' = Pos(p) /\ Pos(q)' = Pos(q)
            /\ status[Callee] = "initialized" /\ status'[Callee] = "running"
            /\ status'[Caller] = status[Caller]
        BY <1>0, <1>1, <2>4, UserPos
      <3>2. Broken(p) => Broken(p)'
        BY <1>1, <3>1 DEF Broken, Other, Party
      <3>3. Pos(q)' <= Pos(q)
        BY <1>0, <1>1, <3>1, PosType
      <3> QED
        BY <1>0, <1>1, <2>1, <3>1, <3>2, <3>3, ConversationSame
    <2> QED
      BY <2>2, <2>3, <2>4 DEF Next, ThreadStep, OutsideStep, Party
  <1>5. recvCtx'[p] # NoContext => recvCtx'[p] = sendCtx'[q]
    BY <1>1, <1>3, ContextStep DEF q
  <1> QED
    BY <1>1, <1>4, <1>5 DEF q

\* Before the first step nothing is written.
LEMMA ConversationInit == Init => ConversationInv
  <1> SUFFICES ASSUME Init, NEW p \in Party
               PROVE  Conversation(p, Other(p)) /\ recvCtx[p] = NoContext
    BY DEF ConversationInv
  <1> DEFINE q == Other(p)
  <1>1. q \in Party /\ RecvSsrcAt(p) \in 4 .. 7
    BY Positions
  <1>2. Len(chan[q]) = 0 /\ recvCtx[p] = NoContext /\ recvCtx[q] = NoContext
    BY <1>1 DEF Init
  <1>3. BeforeKey(q)
    BY <1>2 DEF BeforeKey
  <1>4. Pos(p) > 7
    <2>1. ReceiverDone(p) /\ KeysDone(p) /\ TypeOK /\ keys[p].tx = NoSrtpKey
      BY ReadyInit, TypeInit DEF ReadyInv, DoneInv, Init
    <2>2. keys[p] # DerivedKeys(p, q)
      BY <2>1 DEF DerivedKeys, NoSrtpKey, SrtpKey
    <2> QED
      BY <2>1, <2>2, PosType DEF KeysDone
  <1>5. Pos(p) \in 0 .. 12
    BY TypeInit, PosType
  <1>6. ~ (Pos(p) <= 7) /\ ~ (Pos(p) + 1 = RecvSsrcAt(p)) /\ ~ (Pos(p) + 2 <= RecvSsrcAt(p))
    BY <1>1, <1>4, <1>5
  <1> QED
    BY <1>2, <1>3, <1>6 DEF Conversation

\* ConversationInv is an invariant of the call set-up.
THEOREM ConversationInvariance == Spec => []ConversationInv
  <1>1. /\ IInv /\ IInv' /\ ReadyInv /\ ReadyInv' /\ ConversationInv /\ [Next]_vars
        => ConversationInv'
    BY ConversationStep DEF IInv
  <1> QED
    BY Invariance, ReadyInvariance, ConversationInit, <1>1, PTL DEF Spec

\* SrtpProtocol: p receives with the key, SSRC and salt that the other party sends with,
\* however the two threads interleave and wherever the connection breaks, unless a stray
\* WAIT or a swallowed timeout disturbed the exchange.
THEOREM ContextsAlwaysAgree == Spec => []ContextsAgree
  <1>1. ConversationInv => ContextsAgree
    BY DEF ConversationInv, ContextsAgree
  <1> QED
    BY ConversationInvariance, <1>1, PTL

\* CallHandler: when the media of p starts, p has read the last message of the handshake.
THEOREM MediaAlwaysAligned == Spec => []MediaAligned
  <1>1. TypeOK /\ ReadyInv /\ ConversationInv => MediaAligned
    <2> SUFFICES ASSUME TypeOK, ReadyInv, ConversationInv, NEW p \in Party,
                        status[p] = "ongoing", ~ Disturbed(p)
                 PROVE  chan[Other(p)] = << >>
      BY DEF MediaAligned, Inbox
    <2>0. Other(p) \in Party /\ RecvSsrcAt(p) \in 4 .. 7
      BY Positions
    <2>1. Pos(p) = 0 /\ got[p]["SALT"] # None
      <3>1. MediaDone(p) /\ ReceiverDone(p)
        BY DEF ReadyInv, DoneInv
      <3>2. Pos(p) = 0
        BY <3>1 DEF MediaDone
      <3> QED
        BY <3>1, <3>2 DEF ReceiverDone
    <2>2. AfterSalt(p, Other(p))
      BY <2>0, <2>1 DEF ConversationInv, Conversation
    <2>3. Len(chan[Other(p)]) = 0 /\ chan[Other(p)] \in Seq(Message)
      BY <2>0, <2>1, <2>2 DEF AfterSalt, TypeOK
    <2> QED
      BY <2>3
  <1> QED
    BY TypeCorrect, ReadyInvariance, ConversationInvariance, <1>1, PTL

-----------------------------------------------------------------------------
(* The introductions. *)

\* The caller's last calls when it requires an introduction.
ProofCalls == receiveAndVerifyPublicKey \o << do("validateKey"), do("setPublicKey") >>
IntroducedCalls == ProofCalls \o LastCalls(Caller)

\* Calls that neither read nor use the key of the other party.
PlainOp == {o \in Op : o.do \notin {"validateKey", "setPublicKey"} /\ o # recv("PUBLIC_KEY")}

\* What a caller with the CallInfo ci may write about introductions; it reads nothing of them.
Truthful(ci, k) ==
    /\ k = "INTRODUCTION" => ci.shouldIntroduce
    /\ k = "NO_INTRODUCTION" => ~ ci.shouldIntroduce
    /\ k = "INTRODUCTION_REQ" => ci.requiresIntroduction
    /\ k = "NO_INTRODUCTION_REQ" => ~ ci.requiresIntroduction
TruthfulOp(ci) == {o \in Op : /\ o.do = "send" => Truthful(ci, o.kind)
                              /\ o # recv("INTRODUCTION") /\ o # recv("INTRODUCTION_REQ")}
TruthfulMessage(ci) == {m \in Message : Truthful(ci, m.kind)}

TruthInv == /\ todo[Caller] \in Seq(TruthfulOp(callInfo))
            /\ chan[Caller] \in Seq(TruthfulMessage(callInfo))

\* How far a caller that requires an introduction has come.
CallerInv ==
    callInfo.requiresIntroduction =>
        /\ EndsLike(todo[Caller], IntroducedCalls, PlainOp)
        /\ Left(Caller) <= 16 => got[Caller]["PUBLIC_KEY"] = Callee
        /\ Left(Caller) >= 12 => peerKey[Caller] = callInfo.publicKey
        /\ Left(Caller) <= 12 => callInfo.publicKey \in {None, Callee}
        /\ Left(Caller) <= 11 => peerKey[Caller] = Callee

\* The callee's calls from the request on, those of an introduction before it, and the
\* calls that have nothing to do with either.
AskCalls == << recv("INTRODUCTION_REQ"), do("startKeepAliveWorker") >>
IntroCalls == receiveAndSetPublicKey \o AskCalls
SettledOp == {o \in Op : /\ o.do # "setPublicKey"
                         /\ o # recv("INTRODUCTION") /\ o # recv("INTRODUCTION_REQ")}

\* The key the callee is to know, if any.
CallerKey == IF callInfo.shouldIntroduce THEN Caller ELSE None

\* The callee has not yet read whether there is an introduction, is in it, is about to
\* read whether it has to introduce itself, or has done with all that.
Opening == /\ Left(Callee) \in 3 .. 9
           /\ EndsLike(todo[Callee], initiateIncomingSession, {})
           /\ peerKey[Callee] = None
Proving == /\ Left(Callee) \in 3 .. 8
           /\ EndsLike(todo[Callee], IntroCalls, {})
           /\ callInfo.shouldIntroduce
           /\ Left(Callee) <= 6 => got[Callee]["PUBLIC_KEY"] = Caller
Asking == /\ Left(Callee) = 2
          /\ EndsLike(todo[Callee], AskCalls, {})
          /\ peerKey[Callee] = CallerKey
Settled == /\ todo[Callee] \in Seq(SettledOp)
           /\ peerKey[Callee] = CallerKey
           /\ requested = callInfo.requiresIntroduction

CalleeInv == /\ Opening \/ Proving \/ Asking \/ Settled
             /\ status[Callee] = "initialized" => Settled

IdentityInv == TruthInv /\ CallerInv /\ CalleeInv

-----------------------------------------------------------------------------
(* The calls that deal with the introduction. *)

\* The calls of an introduction.
LEMMA VerifyCalls ==
    LET v == receiveAndVerifyPublicKey IN
    /\ v \in Seq(Op) /\ Len(v) = 5
    /\ v[1] = recv("SIZE") /\ v[2] = recv("PUBLIC_KEY") /\ v[3] = send("CHALLENGE")
    /\ v[4] = recv("SIZE") /\ v[5] = recv("SIGNATURE")
  <1>1. /\ recv("SIZE") \in Op /\ recv("PUBLIC_KEY") \in Op /\ send("CHALLENGE") \in Op
        /\ recv("SIGNATURE") \in Op
    BY OpTypes DEF Kind, Carriers, QuietOp
  <1> QED
    BY <1>1 DEF receiveAndVerifyPublicKey, receiveMessageWithSizeFirst

\* The seven calls of a required introduction.
LEMMA ProofCallsAre ==
    LET v == ProofCalls IN
    /\ v \in Seq(Op) /\ Len(v) = 7
    /\ v[1] = recv("SIZE") /\ v[2] = recv("PUBLIC_KEY") /\ v[3] = send("CHALLENGE")
    /\ v[4] = recv("SIZE") /\ v[5] = recv("SIGNATURE")
    /\ v[6] = do("validateKey") /\ v[7] = do("setPublicKey")
  <1> DEFINE a == receiveAndVerifyPublicKey
             b == << do("validateKey"), do("setPublicKey") >>
             v == ProofCalls
  <1>1. a \in Seq(Op) /\ b \in Seq(Op) /\ v = a \o b
    BY VerifyCalls, OpTypes DEF ProofCalls, QuietOp
  <1>2. Len(b) = 2 /\ b[1] = do("validateKey") /\ b[2] = do("setPublicKey")
    OBVIOUS
  <1> HIDE DEF b, v
  <1>3. /\ v \in Seq(Op) /\ Len(v) = Len(a) + Len(b)
        /\ \A i \in 1 .. Len(a) : v[i] = a[i]
        /\ \A i \in 1 .. Len(b) : v[Len(a) + i] = b[i]
    BY <1>1, Joined
  <1> HIDE DEF a
  <1>4. /\ Len(a) = 5 /\ a[1] = recv("SIZE") /\ a[2] = recv("PUBLIC_KEY")
        /\ a[3] = send("CHALLENGE") /\ a[4] = recv("SIZE") /\ a[5] = recv("SIGNATURE")
    BY VerifyCalls DEF a
  <1>5. v[1] = a[1] /\ v[2] = a[2] /\ v[3] = a[3] /\ v[4] = a[4] /\ v[5] = a[5]
    BY <1>3, <1>4
  <1>6. v[6] = b[1] /\ v[7] = b[2]
    BY <1>2, <1>3, <1>4
  <1> QED
    BY <1>2, <1>3, <1>4, <1>5, <1>6 DEF v

\* Which of the caller's last calls read or use the key of the callee.
LEMMA IntroducedTable ==
    LET e == IntroducedCalls IN
    /\ e \in Seq(Op) /\ Len(e) = 18
    /\ e[2] = recv("PUBLIC_KEY") /\ e[6] = do("validateKey") /\ e[7] = do("setPublicKey")
    /\ \A i \in 1 .. 18 : i \notin {2, 6, 7} => e[i] \in PlainOp
  <1> DEFINE a == ProofCalls
             b == LastCalls(Caller)
             e == IntroducedCalls
  <1>0. Caller \in Party
    BY DEF Party
  <1>1. a \in Seq(Op) /\ b \in Seq(Op) /\ e = a \o b
    BY <1>0, ProofCallsAre, LastCallsAre DEF IntroducedCalls
  <1> HIDE DEF a, b, e
  <1>2. /\ e \in Seq(Op) /\ Len(e) = Len(a) + Len(b)
        /\ \A i \in 1 .. Len(a) : e[i] = a[i]
        /\ \A i \in 1 .. Len(b) : e[Len(a) + i] = b[i]
    BY <1>1, Joined
  <1>3. Len(a) = 7 /\ Len(b) = 11
    BY <1>0, ProofCallsAre, LastCallsAre DEF a, b
  <1>4. ASSUME NEW i \in 1 .. 7, i \notin {2, 6, 7} PROVE e[i] \in PlainOp
    <2>1. e[i] = a[i] /\ i \in {1, 3, 4, 5}
      BY <1>2, <1>3, <1>4
    <2>2. a[1] \in PlainOp /\ a[3] \in PlainOp /\ a[4] \in PlainOp /\ a[5] \in PlainOp
      <3>1. /\ a[1] = recv("SIZE") /\ a[3] = send("CHALLENGE") /\ a[4] = recv("SIZE")
            /\ a[5] = recv("SIGNATURE")
        BY ProofCallsAre DEF a
      <3> QED
        BY <3>1 DEF PlainOp, Op, send, recv, Kind, Carriers
    <2> QED
      BY <2>1, <2>2
  <1>5. ASSUME NEW i \in 1 .. 11 PROVE b[i] \in PlainOp
    <2>1. /\ b[1] = send("SIZE") /\ b[2] = send("DH_KEY") /\ b[3] = recv("SIZE")
          /\ b[4] = recv("DH_KEY") /\ b[5] = do("initSender") /\ b[6] = send("SSRC")
          /\ b[7] = send("SALT") /\ b[8] = recv("SSRC") /\ b[9] = recv("SALT")
          /\ b[10] = do("initReceiver") /\ b[11] = do("startMedia")
      BY <1>0, LastCallsTable DEF b
    <2>2. /\ b[1] \in PlainOp /\ b[2] \in PlainOp /\ b[3] \in PlainOp /\ b[4] \in PlainOp
          /\ b[5] \in PlainOp /\ b[6] \in PlainOp /\ b[7] \in PlainOp /\ b[8] \in PlainOp
          /\ b[9] \in PlainOp /\ b[10] \in PlainOp /\ b[11] \in PlainOp
      BY <2>1 DEF PlainOp, Op, send, recv, do, Kind, Carriers
    <2>3. i \in {1, 2, 3, 4, 5, 6, 7, 8, 9, 10, 11}
      OBVIOUS
    <2> QED
      BY <2>2, <2>3
  <1>6. ASSUME NEW i \in 8 .. 18 PROVE e[i] \in PlainOp
    <2>1. i - 7 \in 1 .. 11 /\ Len(a) + (i - 7) = i
      BY <1>3
    <2>2. e[i] = b[i - 7]
      BY <1>2, <1>3, <2>1
    <2> QED
      BY <1>5, <2>1, <2>2
  <1>7. e[2] = recv("PUBLIC_KEY") /\ e[6] = do("validateKey") /\ e[7] = do("setPublicKey")
    <2>1. e[2] = a[2] /\ e[6] = a[6] /\ e[7] = a[7]
      BY <1>2, <1>3
    <2> QED
      BY <2>1, ProofCallsAre DEF a
  <1>8. \A i \in 1 .. 18 : i \in 1 .. 7 \/ i \in 8 .. 18
    OBVIOUS
  <1>9. Len(e) = 18
    BY <1>2, <1>3
  <1> QED
    BY <1>2, <1>4, <1>6, <1>7, <1>8, <1>9 DEF e

\* The callee's two calls about the request.
LEMMA AskTable ==
    /\ AskCalls \in Seq(Op) /\ Len(AskCalls) = 2
    /\ AskCalls[1] = recv("INTRODUCTION_REQ") /\ AskCalls[2] = do("startKeepAliveWorker")
  <1>1. recv("INTRODUCTION_REQ") \in Op /\ do("startKeepAliveWorker") \in Op
    BY OpTypes DEF Kind, QuietOp
  <1> QED
    BY <1>1 DEF AskCalls

\* The callee's calls of an introduction, and the two that follow.
LEMMA IntroTable ==
    LET e == IntroCalls IN
    /\ e \in Seq(Op) /\ Len(e) = 8
    /\ e[1] = recv("SIZE") /\ e[2] = recv("PUBLIC_KEY") /\ e[3] = send("CHALLENGE")
    /\ e[4] = recv("SIZE") /\ e[5] = recv("SIGNATURE") /\ e[6] = do("setPublicKey")
    /\ e[7] = recv("INTRODUCTION_REQ") /\ e[8] = do("startKeepAliveWorker")
  <1> DEFINE a == receiveAndVerifyPublicKey
             w == << do("setPublicKey") >>
             b == a \o w
             c == AskCalls
             e == IntroCalls
  <1>1. a \in Seq(Op) /\ w \in Seq(Op) /\ c \in Seq(Op)
    BY VerifyCalls, OpTypes, AskTable DEF QuietOp
  <1>2. Len(w) = 1 /\ w[1] = do("setPublicKey")
    OBVIOUS
  <1>3. e = b \o c
    BY DEF IntroCalls, receiveAndSetPublicKey
  <1> HIDE DEF a, w, c, e
  <1>4. /\ b \in Seq(Op) /\ Len(b) = Len(a) + Len(w)
        /\ \A i \in 1 .. Len(a) : b[i] = a[i]
        /\ \A i \in 1 .. Len(w) : b[Len(a) + i] = w[i]
    BY <1>1, Joined
  <1> HIDE DEF b
  <1>5. /\ e \in Seq(Op) /\ Len(e) = Len(b) + Len(c)
        /\ \A i \in 1 .. Len(b) : e[i] = b[i]
        /\ \A i \in 1 .. Len(c) : e[Len(b) + i] = c[i]
    <2>1. b \in Seq(Op)
      BY <1>4
    <2> QED
      BY <1>1, <1>3, <2>1, Joined
  <1>6. Len(a) = 5 /\ Len(c) = 2
    BY VerifyCalls, AskTable DEF a, c
  <1>7. Len(b) = 6 /\ b[6] = w[1] /\ \A i \in 1 .. 5 : b[i] = a[i]
    BY <1>2, <1>4, <1>6
  <1>8. /\ Len(e) = 8 /\ e[7] = c[1] /\ e[8] = c[2] /\ e[6] = w[1]
        /\ \A i \in 1 .. 5 : e[i] = a[i]
    BY <1>5, <1>6, <1>7
  <1>9. e[1] = a[1] /\ e[2] = a[2] /\ e[3] = a[3] /\ e[4] = a[4] /\ e[5] = a[5]
    BY <1>8
  <1>10. /\ a[1] = recv("SIZE") /\ a[2] = recv("PUBLIC_KEY") /\ a[3] = send("CHALLENGE")
         /\ a[4] = recv("SIZE") /\ a[5] = recv("SIGNATURE")
         /\ c[1] = recv("INTRODUCTION_REQ") /\ c[2] = do("startKeepAliveWorker")
    BY VerifyCalls, AskTable DEF a, c
  <1> QED
    BY <1>2, <1>5, <1>8, <1>9, <1>10 DEF e

\* The callee's first calls.
LEMMA OpeningTable ==
    LET e == initiateIncomingSession IN
    /\ e \in Seq(Op) /\ Len(e) = 9
    /\ \A i \in 1 .. 6 : e[i] \in SettledOp /\ e[i].do \in {"send", "recv"} /\ e[i].kind # "SSRC"
    /\ e[7] = recv("INTRODUCTION") /\ e[8] = recv("INTRODUCTION_REQ")
    /\ e[9] = do("startKeepAliveWorker")
  <1> DEFINE a == receiveAndSendHello
             b == receiveAndSendVersion
             x == a \o b
             w == << recv("INTRODUCTION"), recv("INTRODUCTION_REQ"),
                     do("startKeepAliveWorker") >>
             e == initiateIncomingSession
  <1>1. /\ recv("HELLO") \in Op /\ send("HELLO_ACK") \in Op /\ send("HELLO") \in Op
        /\ recv("HELLO_ACK") \in Op /\ recv("VERSION") \in Op /\ send("VERSION") \in Op
        /\ recv("INTRODUCTION") \in Op /\ recv("INTRODUCTION_REQ") \in Op
        /\ do("startKeepAliveWorker") \in Op
    BY OpTypes DEF Kind, QuietOp
  <1>2. a \in Seq(Op) /\ b \in Seq(Op) /\ w \in Seq(Op)
    BY <1>1 DEF receiveAndSendHello, receiveAndSendVersion
  <1>3. /\ Len(a) = 4 /\ Len(b) = 2 /\ Len(w) = 3
        /\ w[1] = recv("INTRODUCTION") /\ w[2] = recv("INTRODUCTION_REQ")
        /\ w[3] = do("startKeepAliveWorker")
    BY DEF receiveAndSendHello, receiveAndSendVersion
  <1>4. /\ a[1] \in SettledOp /\ a[2] \in SettledOp /\ a[3] \in SettledOp /\ a[4] \in SettledOp
        /\ b[1] \in SettledOp /\ b[2] \in SettledOp
    BY <1>1 DEF receiveAndSendHello, receiveAndSendVersion, SettledOp, send, recv
  <1>5. /\ a[1].do \in {"send", "recv"} /\ a[2].do \in {"send", "recv"}
        /\ a[3].do \in {"send", "recv"} /\ a[4].do \in {"send", "recv"}
        /\ b[1].do \in {"send", "recv"} /\ b[2].do \in {"send", "recv"}
        /\ a[1].kind # "SSRC" /\ a[2].kind # "SSRC" /\ a[3].kind # "SSRC"
        /\ a[4].kind # "SSRC" /\ b[1].kind # "SSRC" /\ b[2].kind # "SSRC"
    BY DEF receiveAndSendHello, receiveAndSendVersion, send, recv
  <1>6. e = x \o w
    BY DEF initiateIncomingSession
  <1> HIDE DEF a, b, w, e
  <1>7. /\ x \in Seq(Op) /\ Len(x) = Len(a) + Len(b)
        /\ \A i \in 1 .. Len(a) : x[i] = a[i]
        /\ \A i \in 1 .. Len(b) : x[Len(a) + i] = b[i]
    BY <1>2, Joined
  <1> HIDE DEF x
  <1>8. /\ e \in Seq(Op) /\ Len(e) = Len(x) + Len(w)
        /\ \A i \in 1 .. Len(x) : e[i] = x[i]
        /\ \A i \in 1 .. Len(w) : e[Len(x) + i] = w[i]
    <2>1. x \in Seq(Op)
      BY <1>7
    <2> QED
      BY <1>2, <1>6, <2>1, Joined
  <1>9. /\ Len(x) = 6 /\ x[1] = a[1] /\ x[2] = a[2] /\ x[3] = a[3] /\ x[4] = a[4]
        /\ x[5] = b[1] /\ x[6] = b[2]
    BY <1>3, <1>7
  <1>10. /\ Len(e) = 9 /\ e[7] = w[1] /\ e[8] = w[2] /\ e[9] = w[3]
         /\ \A i \in 1 .. 6 : e[i] = x[i]
    BY <1>3, <1>8, <1>9
  <1>11. ASSUME NEW i \in 1 .. 6 
         PROVE  e[i] \in SettledOp /\ e[i].do \in {"send", "recv"} /\ e[i].kind # "SSRC"
    <2>1. i \in {1, 2, 3, 4, 5, 6} /\ e[i] = x[i]
      BY <1>10
    <2> QED
      BY <1>4, <1>5, <1>9, <2>1
  <1> QED
    BY <1>3, <1>8, <1>10, <1>11 DEF e

\* What the callee does after the user's decision has nothing to do with the caller's key.
LEMMA DecisionCalls ==
    /\ \A b \in BOOLEAN : acceptCall(b) \in Seq(SettledOp)
    /\ rejectCall \in Seq(SettledOp)
  <1>1. \A k \in Kind : send(k) \in SettledOp
    BY OpTypes DEF SettledOp, send, recv, Kind
  <1>2. \A k \in {"CHALLENGE", "SIZE", "SIGNATURE", "DH_KEY", "SSRC", "SALT"} :
            recv(k) \in SettledOp
    BY OpTypes DEF SettledOp, QuietOp, recv, Kind, Carriers
  <1>3. \A n \in {"initSender", "initReceiver", "startMedia", "return"} : do(n) \in SettledOp
    BY OpTypes DEF SettledOp, QuietOp, recv, do
  <1>4. /\ "PUBLIC_KEY" \in Kind /\ "SIGNATURE" \in Kind /\ "SIZE" \in Kind
        /\ "ACCEPT" \in Kind /\ "REJECT" \in Kind
        /\ "DH_KEY" \in Kind /\ "SSRC" \in Kind /\ "SALT" \in Kind
    BY DEF Kind, Carriers
  <1>5. proveIdentityToOtherParty \in Seq(SettledOp)
    <2>1. /\ sendMessageWithSizeFirst("PUBLIC_KEY") \in Seq(SettledOp)
          /\ sendMessageWithSizeFirst("SIGNATURE") \in Seq(SettledOp)
      BY <1>1, <1>4 DEF sendMessageWithSizeFirst
    <2>2. << recv("CHALLENGE") >> \in Seq(SettledOp)
      BY <1>2
    <2> QED
      BY <2>1, <2>2, ConcatOps DEF proveIdentityToOtherParty
  <1>6. exchangeKeys \in Seq(SettledOp)
    <2>1. sendMessageWithSizeFirst("DH_KEY") \in Seq(SettledOp)
      BY <1>1, <1>4 DEF sendMessageWithSizeFirst
    <2>2. receiveMessageWithSizeFirst("DH_KEY") \in Seq(SettledOp)
      BY <1>2 DEF receiveMessageWithSizeFirst
    <2> QED
      BY <2>1, <2>2, ConcatOps DEF exchangeKeys
  <1>7. initiateIncomingSrtp \in Seq(SettledOp)
    <2>1. << recv("SSRC"), recv("SALT"), do("initSender") >> \in Seq(SettledOp)
      BY <1>2, <1>3
    <2>2. sendSsrcAndSalt \in Seq(SettledOp)
      BY <1>1, <1>4 DEF sendSsrcAndSalt
    <2>3. << do("initReceiver") >> \in Seq(SettledOp)
      BY <1>3
    <2> QED
      BY <2>1, <2>2, <2>3, ConcatOps DEF initiateIncomingSrtp
  <1>8. ASSUME NEW b \in BOOLEAN PROVE acceptCall(b) \in Seq(SettledOp)
    <2>1. << send("ACCEPT") >> \in Seq(SettledOp) /\ << do("startMedia") >> \in Seq(SettledOp)
      BY <1>1, <1>3, <1>4
    <2>2. handleOutgoingIntroductionIfRequested(b) \in Seq(SettledOp)
      BY <1>5 DEF handleOutgoingIntroductionIfRequested
    <2> QED
      BY <1>6, <1>7, <2>1, <2>2, ConcatOps DEF acceptCall
  <1>9. rejectCall \in Seq(SettledOp)
    BY <1>1, <1>3, <1>4 DEF rejectCall
  <1> QED
    BY <1>8, <1>9

\* The caller writes about introductions what its user has chosen, ...
LEMMA CallerTruthful ==
    ASSUME NEW ci \in CallInfo
    PROVE  startCall(ci) \in Seq(TruthfulOp(ci))
  <1> DEFINE S == TruthfulOp(ci)
  <1>1. /\ \A k \in {"HELLO", "HELLO_ACK", "VERSION", "PUBLIC_KEY", "CHALLENGE", "SIGNATURE",
                     "SIZE", "DH_KEY", "SSRC", "SALT"} : send(k) \in S
        /\ \A k \in Kind \ {"INTRODUCTION", "INTRODUCTION_REQ"} : recv(k) \in S
        /\ \A n \in {"validateKey", "setPublicKey", "initSender", "initReceiver", "startMedia"} :
               do(n) \in S
    <2>1. \A k \in {"HELLO", "HELLO_ACK", "VERSION", "PUBLIC_KEY", "CHALLENGE", "SIGNATURE",
                    "SIZE", "DH_KEY", "SSRC", "SALT"} : k \in Kind /\ Truthful(ci, k)
      BY DEF Kind, Carriers, Truthful
    <2> QED
      BY <2>1 DEF TruthfulOp, Op, send, recv, do
  <1>2. /\ send(IF ci.requiresIntroduction
                THEN "INTRODUCTION_REQ" ELSE "NO_INTRODUCTION_REQ") \in S
        /\ ci.shouldIntroduce => send("INTRODUCTION") \in S
        /\ ~ ci.shouldIntroduce => send("NO_INTRODUCTION") \in S
    BY DEF TruthfulOp, Truthful, Op, send, recv, Kind
  <1>3. {"HELLO", "HELLO_ACK", "VERSION", "PUBLIC_KEY", "CHALLENGE", "SIGNATURE",
         "SIZE", "DH_KEY", "SSRC", "SALT", "ACCEPT"}
            \subseteq Kind \ {"INTRODUCTION", "INTRODUCTION_REQ"}
    BY DEF Kind, Carriers
  <1> HIDE DEF S
  <1>4. /\ sendAndReceiveHello \in Seq(S) /\ sendAndReceiveVersion \in Seq(S)
        /\ waitForAccept \in Seq(S)
    BY <1>1, <1>3 DEF sendAndReceiveHello, sendAndReceiveVersion, waitForAccept
  <1>5. /\ \A k \in {"PUBLIC_KEY", "SIGNATURE", "DH_KEY"} : sendMessageWithSizeFirst(k) \in Seq(S)
        /\ \A k \in {"PUBLIC_KEY", "SIGNATURE", "DH_KEY"} : receiveMessageWithSizeFirst(k) \in Seq(S)
    BY <1>1, <1>3 DEF sendMessageWithSizeFirst, receiveMessageWithSizeFirst
  <1>6. << recv("CHALLENGE") >> \in Seq(S) /\ << send("CHALLENGE") >> \in Seq(S)
    BY <1>1, <1>3
  <1>7. handleOutgoingIntroduction(ci) \in Seq(S)
    <2>1. proveIdentityToOtherParty \in Seq(S)
      BY <1>5, <1>6, ConcatOps DEF proveIdentityToOtherParty
    <2>2. CASE ci.shouldIntroduce
      <3>1. << send("INTRODUCTION") >> \in Seq(S)
        BY <1>2, <2>2
      <3> QED
        BY <2>1, <2>2, <3>1, ConcatOps DEF handleOutgoingIntroduction
    <2>3. CASE ~ ci.shouldIntroduce
      <3>1. << send("NO_INTRODUCTION") >> \in Seq(S)
        BY <1>2, <2>3
      <3> QED
        BY <2>3, <3>1 DEF handleOutgoingIntroduction
    <2> QED
      BY <2>2, <2>3
  <1>8. handleOutgoingRequestForIntroduction(ci) \in Seq(S)
    BY <1>2 DEF handleOutgoingRequestForIntroduction
  <1>9. handleIncomingIntroductionIfRequested(ci) \in Seq(S)
    <2>1. receiveAndVerifyPublicKey \in Seq(S)
      BY <1>5, <1>6, ConcatOps DEF receiveAndVerifyPublicKey
    <2>2. << do("validateKey"), do("setPublicKey") >> \in Seq(S) /\ << >> \in Seq(S)
      BY <1>1
    <2> QED
      BY <2>1, <2>2, ConcatOps DEF handleIncomingIntroductionIfRequested
  <1>10. exchangeKeys \in Seq(S)
    BY <1>5, ConcatOps DEF exchangeKeys
  <1>11. initiateOutgoingSession(ci) \in Seq(S)
    BY <1>4, <1>7, <1>8, <1>9, <1>10, ConcatOps DEF initiateOutgoingSession
  <1>12. initiateOutgoingSrtp \in Seq(S)
    <2>1. << do("initSender") >> \in Seq(S) /\ sendSsrcAndSalt \in Seq(S)
      BY <1>1 DEF sendSsrcAndSalt
    <2>2. << recv("SSRC"), recv("SALT"), do("initReceiver") >> \in Seq(S)
      BY <1>1, <1>3
    <2> QED
      BY <2>1, <2>2, ConcatOps DEF initiateOutgoingSrtp
  <1>13. << do("startMedia") >> \in Seq(S)
    BY <1>1
  <1> QED
    BY <1>11, <1>12, <1>13, ConcatOps DEF startCall, S

\* ... and deals with the callee's key at the end, if it requires one.
LEMMA CallerIntroduced ==
    ASSUME NEW ci \in CallInfo, ci.requiresIntroduction
    PROVE  /\ EndsLike(startCall(ci), IntroducedCalls, PlainOp)
           /\ Len(startCall(ci)) >= 19
  <1> DEFINE b == UpToAccept(ci)
             c == ProofCalls
             e == LastCalls(Caller)
             f == IntroducedCalls
             s == startCall(ci)
  <1>0. Caller \in Party
    BY DEF Party
  <1>1. handleIncomingIntroductionIfRequested(ci) = c
    BY DEF handleIncomingIntroductionIfRequested, ProofCalls
  <1>2. /\ b \in Seq(CallOp) /\ Len(b) \in Nat /\ Len(b) >= 1
        /\ s = (b \o c) \o e /\ f = c \o e
    BY <1>1, CallerSplit DEF IntroducedCalls
  <1>3. c \in Seq(Op) /\ e \in Seq(Op) /\ f \in Seq(Op)
    BY <1>0, ProofCallsAre, LastCallsAre, IntroducedTable
  <1>4. b \in Seq(PlainOp)
    <2>1. \A k \in Kind : send(k) \in PlainOp
      BY DEF PlainOp, Op, send, recv
    <2>2. \A k \in Kind \ {"PUBLIC_KEY"} : recv(k) \in PlainOp
      BY DEF PlainOp, Op, recv
    <2>3. /\ {"HELLO", "HELLO_ACK", "VERSION", "CHALLENGE", "ACCEPT"} \subseteq Kind \ {"PUBLIC_KEY"}
          /\ {"HELLO", "HELLO_ACK", "VERSION", "SIZE", "PUBLIC_KEY", "SIGNATURE", "INTRODUCTION",
              "NO_INTRODUCTION", "INTRODUCTION_REQ", "NO_INTRODUCTION_REQ"} \subseteq Kind
      BY DEF Kind, Carriers
    <2>4. /\ sendAndReceiveHello \in Seq(PlainOp) /\ sendAndReceiveVersion \in Seq(PlainOp)
          /\ waitForAccept \in Seq(PlainOp)
      BY <2>1, <2>2, <2>3 DEF sendAndReceiveHello, sendAndReceiveVersion, waitForAccept
    <2>5. proveIdentityToOtherParty \in Seq(PlainOp)
      <3>1. /\ sendMessageWithSizeFirst("PUBLIC_KEY") \in Seq(PlainOp)
            /\ sendMessageWithSizeFirst("SIGNATURE") \in Seq(PlainOp)
        BY <2>1, <2>3 DEF sendMessageWithSizeFirst
      <3>2. << recv("CHALLENGE") >> \in Seq(PlainOp)
        BY <2>2, <2>3
      <3> QED
        BY <3>1, <3>2, ConcatOps DEF proveIdentityToOtherParty
    <2>6. << send("INTRODUCTION") >> \in Seq(PlainOp) /\ << send("NO_INTRODUCTION") >> \in Seq(PlainOp)
      BY <2>1, <2>3
    <2>7. handleOutgoingIntroduction(ci) \in Seq(PlainOp)
      BY <2>5, <2>6, ConcatOps DEF handleOutgoingIntroduction
    <2>8. handleOutgoingRequestForIntroduction(ci) \in Seq(PlainOp)
      BY <2>1, <2>3 DEF handleOutgoingRequestForIntroduction
    <2> QED
      BY <2>4, <2>7, <2>8, ConcatOps DEF UpToAccept
  <1>5. b \in Seq(Op)
    BY <1>4 DEF PlainOp
  <1>6. Len(f) = 18
    BY IntroducedTable
  <1> HIDE DEF b, c, e, f, s
  <1>7. s = b \o f
    BY <1>2, <1>3, <1>5, ConcatAssociative, SMTT(30)
  <1>8. EndsLike(s, f, PlainOp)
    BY <1>3, <1>4, <1>7, EndsJoin
  <1>9. Len(s) = Len(b) + Len(f)
    BY <1>3, <1>5, <1>7, Joined
  <1>10. Len(s) >= 19
    BY <1>2, <1>6, <1>9
  <1> QED
    BY <1>8, <1>10 DEF s, f

-----------------------------------------------------------------------------
(* What a step does to what the parties know of each other. *)

\* The keys are set, the request is read and the key is read by one call each.
LEMMA ThreadPeerKey ==
    ASSUME TypeOK, NEW p \in Party, ThreadStep(p)
    PROVE  LET h == Head(todo[p]) IN
           /\ h.do # "setPublicKey" => UNCHANGED peerKey
           /\ h.do = "setPublicKey" => /\ peerKey'[p] = got[p]["PUBLIC_KEY"]
                                       /\ peerKey'[Other(p)] = peerKey[Other(p)]
           /\ h # recv("INTRODUCTION_REQ") => UNCHANGED requested
           /\ h.do = "validateKey" /\ ~ UNCHANGED todo => peerKey[p] \in {None, got[p]["PUBLIC_KEY"]}
  <1> USE DEF callVars
  <1>0. peerKey \in [Party -> Value] /\ Other(p) \in Party /\ Other(p) # p
    BY OtherParty DEF TypeOK
  <1>1. CASE setPublicKey(p)
    BY <1>0, <1>1 DEF setPublicKey, Doing, recv
  <1>2. CASE validateKeyAgainstExpected(p)
    BY <1>2 DEF validateKeyAgainstExpected, Doing, Fail, recv
  <1>3. CASE handleIncomingRequestForIntroduction(p)
    <2>1. todo[p] # << >> /\ Head(todo[p]).do = "recv" /\ Head(todo[p]).kind = "INTRODUCTION_REQ"
      BY <1>3 DEF handleIncomingRequestForIntroduction, Reading, Doing, Current
    <2>2. Head(todo[p]) = recv("INTRODUCTION_REQ")
      BY <2>1, TodoType DEF Op, recv
    <2> QED
      BY <1>3, <2>1, <2>2 DEF handleIncomingRequestForIntroduction
  <1>4. CASE \/ sendMessage(p) \/ sendFails(p) \/ receiveMessage(p) \/ receiveWrongMessage(p)
             \/ endOfStream(p) \/ isOtherPartyIntroducing(p) \/ receiveAnswer(p)
             \/ receiveSsrc(p) \/ receiveSalt(p) \/ (p = Caller /\ readTimesOut)
    <2>1. Head(todo[p]).do \in {"send", "recv"}
      BY <1>4 DEF sendMessage, sendFails, receiveMessage, receiveWrongMessage, endOfStream,
                  isOtherPartyIntroducing, receiveAnswer, receiveSsrc, receiveSalt,
                  readTimesOut, Reading, Doing
    <2>2. UNCHANGED <<peerKey, requested>>
      BY <1>4 DEF sendMessage, sendFails, receiveMessage, receiveWrongMessage, endOfStream,
                  isOtherPartyIntroducing, receiveAnswer, receiveSsrc, receiveSalt,
                  readTimesOut, ReadError, Fail
    <2> QED
      BY <2>1, <2>2
  <1>5. CASE \/ initSender(p) \/ initReceiver(p) \/ startMedia(p)
             \/ returnFromReject(p) \/ startKeepAliveWorker(p)
    BY <1>5 DEF initSender, initReceiver, startMedia, returnFromReject,
                startKeepAliveWorker, Doing, Fail
  <1> QED
    BY <1>1, <1>2, <1>3, <1>4, <1>5 DEF ThreadStep, CallThread

\* The public key that p has read is the one of the other party, and is not read twice.
LEMMA ThreadGotKey ==
    ASSUME TypeOK, MessageOrigin, NEW p \in Party, ThreadStep(p)
    PROVE  LET h == Head(todo[p]) IN
           /\ h # recv("PUBLIC_KEY") => got'[p]["PUBLIC_KEY"] = got[p]["PUBLIC_KEY"]
           /\ h = recv("PUBLIC_KEY") /\ ~ UNCHANGED todo => got'[p]["PUBLIC_KEY"] = Other(p)
           /\ UNCHANGED todo => got'[p]["PUBLIC_KEY"] = got[p]["PUBLIC_KEY"]
  <1> DEFINE h == Head(todo[p])
             q == Other(p)
  <1>0. /\ got \in [Party -> [Received -> Value]] /\ "PUBLIC_KEY" \in Received
        /\ q \in Party /\ todo[p] # << >> /\ todo \in [Party -> Seq(Op)]
    BY OtherParty, ActionOf DEF TypeOK, Received
  <1>1. CASE receiveMessage(p)
    <2>1. h.do = "recv" /\ Current(p) = h.kind /\ h \in Op
      BY <1>0, <1>1, TodoType DEF receiveMessage, Reading, Doing, Current
    <2>2. CASE Current(p) = "PUBLIC_KEY"
      <3>1. h = recv("PUBLIC_KEY")
        BY <2>1, <2>2 DEF Op, recv
      <3>2. Inbox(p) = chan[q] /\ chan[q] # << >>
        BY <1>1, AvailableMeans DEF receiveMessage, Reading, Inbox
      <3>3. Head(chan[q]).kind = "PUBLIC_KEY"
        BY <1>1, <2>2, <3>2 DEF receiveMessage, Reading, Acceptable
      <3>4. Head(chan[q]).val = q
        BY <1>0, <3>2, <3>3, HeadOwn DEF Carriers
      <3>5. got' = [got EXCEPT ![p]["PUBLIC_KEY"] = q]
        BY <1>0, <1>1, <2>2, <3>2, <3>4 DEF receiveMessage
      <3>6. got'[p]["PUBLIC_KEY"] = q
        BY <1>0, <3>5
      <3>7. ~ UNCHANGED todo
        <4>1. todo'[p] = Tail(todo[p]) /\ todo[p] \in Seq(Op)
          BY <1>0, <1>1 DEF receiveMessage, Advance
        <4>2. Len(todo'[p]) = Len(todo[p]) - 1 /\ Len(todo[p]) \in Nat
          BY <1>0, <4>1, HeadTailProperties
        <4>3. todo'[p] # todo[p]
          BY <4>2
        <4> QED
          BY <4>3
      <3> QED
        BY <3>1, <3>6, <3>7
    <2>3. CASE Current(p) # "PUBLIC_KEY"
      <3>1. got'[p]["PUBLIC_KEY"] = got[p]["PUBLIC_KEY"]
        BY <1>0, <1>1, <2>3 DEF receiveMessage
      <3>2. h # recv("PUBLIC_KEY")
        BY <2>1, <2>3 DEF recv
      <3> QED
        BY <3>1, <3>2
    <2> QED
      BY <2>2, <2>3
  <1>2. CASE receiveWrongMessage(p)
    BY <1>2 DEF receiveWrongMessage, Fail
  <1>3. CASE endOfStream(p) \/ (p = Caller /\ readTimesOut)
    <2>1. ReadError(p)
      BY <1>3 DEF endOfStream, readTimesOut
    <2>2. CASE Current(p) \in {"SSRC", "SALT"}
      <3>1. got'[p]["PUBLIC_KEY"] = got[p]["PUBLIC_KEY"]
        BY <1>0, <2>1, <2>2 DEF ReadError
      <3>2. h # recv("PUBLIC_KEY")
        BY <2>2 DEF recv, Current
      <3> QED
        BY <3>1, <3>2
    <2>3. CASE Current(p) \notin {"SSRC", "SALT"}
      BY <2>1, <2>3 DEF ReadError, Fail
    <2> QED
      BY <2>2, <2>3
  <1>4. CASE receiveSsrc(p) \/ receiveSalt(p)
    <2>1. got'[p]["PUBLIC_KEY"] = got[p]["PUBLIC_KEY"]
      BY <1>0, <1>4, SMTT(30) DEF receiveSsrc, receiveSalt
    <2>2. h # recv("PUBLIC_KEY")
      BY <1>4 DEF receiveSsrc, receiveSalt, Reading, Current, recv
    <2> QED
      BY <2>1, <2>2
  <1>5. CASE \/ isOtherPartyIntroducing(p) \/ receiveAnswer(p)
             \/ handleIncomingRequestForIntroduction(p)
    <2>1. got' = got /\ h # recv("PUBLIC_KEY")
      BY <1>5 DEF isOtherPartyIntroducing, receiveAnswer, Reading, Current, recv,
                  handleIncomingRequestForIntroduction
    <2> QED
      BY <2>1
  <1>6. CASE \/ sendMessage(p) \/ sendFails(p)
             \/ validateKeyAgainstExpected(p) \/ setPublicKey(p)
             \/ initSender(p) \/ initReceiver(p) \/ startMedia(p)
             \/ returnFromReject(p) \/ startKeepAliveWorker(p)
    <2>1. h.do # "recv"
      BY <1>6 DEF sendMessage, sendFails, validateKeyAgainstExpected, setPublicKey, initSender,
                  initReceiver, startMedia, returnFromReject, startKeepAliveWorker, Doing
    <2>2. got' = got /\ h # recv("PUBLIC_KEY")
      BY <2>1, ThreadGot DEF recv
    <2> QED
      BY <2>2
  <1> QED
    BY <1>1, <1>2, <1>3, <1>4, <1>5, <1>6 DEF ThreadStep, CallThread

\* A step that leaves the list of calls alone leaves all this alone too.
LEMMA ThreadStays ==
    ASSUME TypeOK, NEW p \in Party, ThreadStep(p), UNCHANGED todo
    PROVE  UNCHANGED <<peerKey, requested>>
  <1> USE DEF callVars
  <1>0. todo[p] # << >> /\ todo[p] \in Seq(Op)
    BY ActionOf DEF TypeOK
  <1>1. ~ Advance(p)
    <2> SUFFICES ASSUME Advance(p) PROVE FALSE
      OBVIOUS
    <2> DEFINE s == todo[p]
    <2>1. s = Tail(s)
      BY DEF Advance, TypeOK
    <2>2. s # << >> /\ s \in Seq(Op)
      BY <1>0
    <2> HIDE DEF s
    <2>3. Len(Tail(s)) = Len(s) - 1 /\ Len(s) \in Nat
      BY <2>2, HeadTailProperties
    <2>4. Len(s) = Len(s) - 1
      BY <2>1, <2>3
    <2> QED
      BY <2>3, <2>4
  <1> QED
    BY <1>1 DEF ThreadStep, readTimesOut, CallThread, sendMessage, sendFails, receiveMessage,
           receiveWrongMessage, endOfStream,
           isOtherPartyIntroducing, handleIncomingRequestForIntroduction,
           receiveAnswer, receiveSsrc, receiveSalt, validateKeyAgainstExpected,
           setPublicKey, initSender, initReceiver, startMedia, returnFromReject,
           startKeepAliveWorker, ReadError, Fail

-----------------------------------------------------------------------------
(* The caller's steps. *)

\* A caller drops the call it has made, or the two writes of sendSsrcAndSalt.
LEMMA CallerDrops ==
    ASSUME TypeOK, ReadyInv, TruthInv, ThreadStep(Caller)
    PROVE  \/ UNCHANGED todo
           \/ \E k \in 1 .. 2 :
                 /\ k <= Left(Caller) /\ (k = 2 => Left(Caller) = 6) /\ ~ UNCHANGED todo
                 /\ todo'[Caller] = SubSeq(todo[Caller], k + 1, Len(todo[Caller]))
  <1> DEFINE s == todo[Caller]
             h == Head(s)
  <1>0. Caller \in Party /\ ProgramInv /\ Going(Caller) /\ todo \in [Party -> Seq(Op)]
    BY DEF Party, ReadyInv, ControlInv, TypeOK
  <1>1. s # << >> /\ s \in Seq(Op) /\ Left(Caller) \in Nat /\ Left(Caller) >= 1
    BY <1>0, ActionOf DEF Left
  <1>2. h # recv("INTRODUCTION")
    <2>1. h \in TruthfulOp(callInfo)
      BY <1>1 DEF TruthInv
    <2> QED
      BY <2>1 DEF TruthfulOp
  <1>3. CASE todo' = [todo EXCEPT ![Caller] = SubSeq(@, 2, Len(@))] /\ ~ UNCHANGED todo
    <2>1. todo'[Caller] = SubSeq(s, 1 + 1, Len(s))
      BY <1>0, <1>3
    <2> QED
      BY <1>1, <1>3, <2>1
  <1>4. CASE /\ h.do = "send" /\ h.kind = "SSRC" /\ ~ UNCHANGED todo
             /\ todo' = [todo EXCEPT ![Caller] = SubSeq(@, 3, Len(@))]
    <2>1. todo'[Caller] = SubSeq(s, 2 + 1, Len(s))
      BY <1>0, <1>4
    <2>2. Pos(Caller) = 6
      BY <1>0, <1>1, <1>4, NextCall DEF SendSsrcAt
    <2>3. Left(Caller) = 6
      BY <2>2 DEF Pos
    <2> QED
      BY <1>1, <1>4, <2>1, <2>3
  <1>5. ~ (h.do = "recv" /\ h.kind = "INTRODUCTION")
    BY <1>0, <1>1, <1>2, TodoType DEF Op, recv
  <1> QED
    BY <1>0, <1>3, <1>4, <1>5, ThreadTodo

\* A caller that requires an introduction reads the key, compares it and stores it at
\* fixed places of its program.
LEMMA CallerHead ==
    ASSUME TypeOK, todo[Caller] # << >>, EndsLike(todo[Caller], IntroducedCalls, PlainOp)
    PROVE  LET h == Head(todo[Caller]) IN
           /\ h = recv("PUBLIC_KEY") <=> Left(Caller) = 17
           /\ h.do = "validateKey" <=> Left(Caller) = 13
           /\ h.do = "setPublicKey" <=> Left(Caller) = 12
  <1> DEFINE h == Head(todo[Caller])
             n == Left(Caller)
             e == IntroducedCalls
  <1>1. todo[Caller] \in Seq(Op)
    BY DEF TypeOK, Party
  <1>2. n \in Nat /\ n >= 1 /\ h = todo[Caller][1]
    BY <1>1 DEF Left
  <1>3. IF n - 1 < Len(e) THEN h = e[Len(e) - (n - 1)] ELSE h \in PlainOp
    <2>1. 1 \in 1 .. Len(todo[Caller])
      BY <1>2 DEF Left
    <2> QED
      BY <1>2, <2>1 DEF EndsLike, Left
  <1>4. IF n <= 18 THEN h = e[19 - n] ELSE h \in PlainOp
    <2>1. Len(e) = 18
      BY IntroducedTable
    <2>2. (n - 1 < 18 <=> n <= 18) /\ 18 - (n - 1) = 19 - n
      BY <1>2
    <2> QED
      BY <1>3, <2>1, <2>2
  <1>5. /\ e[2] = recv("PUBLIC_KEY") /\ e[6] = do("validateKey") /\ e[7] = do("setPublicKey")
        /\ \A i \in 1 .. 18 : i \notin {2, 6, 7} => e[i] \in PlainOp
    BY IntroducedTable
  <1> HIDE DEF h, n, e
  <1>6. n \notin {12, 13, 17} => h \in PlainOp
    <2>1. CASE n > 18
      BY <1>2, <1>4, <2>1
    <2>2. CASE n <= 18 /\ n \notin {12, 13, 17}
      <3>1. 19 - n \in 1 .. 18 /\ 19 - n \notin {2, 6, 7}
        BY <1>2, <2>2
      <3> QED
        BY <1>4, <1>5, <2>2, <3>1
    <2> QED
      BY <1>2, <2>1, <2>2
  <1>7. /\ n = 17 => h = recv("PUBLIC_KEY")
        /\ n = 13 => h = do("validateKey")
        /\ n = 12 => h = do("setPublicKey")
    BY <1>4, <1>5
  <1>8. /\ h \in PlainOp => /\ h # recv("PUBLIC_KEY") /\ h.do # "validateKey"
                            /\ h.do # "setPublicKey"
        /\ h = recv("PUBLIC_KEY") => h.do # "validateKey" /\ h.do # "setPublicKey"
        /\ h = do("validateKey") =>
              h.do = "validateKey" /\ h.do # "setPublicKey" /\ h # recv("PUBLIC_KEY")
        /\ h = do("setPublicKey") =>
              h.do = "setPublicKey" /\ h.do # "validateKey" /\ h # recv("PUBLIC_KEY")
    BY DEF PlainOp, recv, do
  <1>9. /\ h = recv("PUBLIC_KEY") <=> n = 17
        /\ h.do = "validateKey" <=> n = 13
        /\ h.do = "setPublicKey" <=> n = 12
    <2>1. CASE n \notin {12, 13, 17}
      BY <1>6, <1>8, <2>1
    <2>2. CASE n \in {12, 13, 17}
      BY <1>7, <1>8, <2>2
    <2> QED
      BY <2>1, <2>2
  <1> QED
    BY <1>9 DEF h, n

\* A step of the caller keeps CallerInv.
LEMMA CallerThread ==
    ASSUME TypeOK, MessageOrigin, ReadyInv, TruthInv, CallerInv, ThreadStep(Caller)
    PROVE  CallerInv'
  <1> DEFINE n == Left(Caller)
             h == Head(todo[Caller])
             pk == got[Caller]["PUBLIC_KEY"]
             k0 == peerKey[Caller]
             u == callInfo.publicKey
  <1>0. Caller \in Party /\ Callee \in Party /\ Callee # Caller /\ Other(Caller) = Callee
    BY DEF Party, Caller, Callee, Other
  <1>1. callInfo' = callInfo
    BY <1>0, ThreadFrame
  <1> SUFFICES ASSUME callInfo.requiresIntroduction
               PROVE  /\ EndsLike(todo'[Caller], IntroducedCalls, PlainOp)
                      /\ n' <= 16 => pk' = Callee
                      /\ n' >= 12 => k0' = u
                      /\ n' <= 12 => u \in {None, Callee}
                      /\ n' <= 11 => k0' = Callee
    BY <1>1 DEF CallerInv, IntroducedCalls, ProofCalls, LastCalls, initiateSrtp
  <1>2. /\ EndsLike(todo[Caller], IntroducedCalls, PlainOp)
        /\ n <= 16 => pk = Callee
        /\ n >= 12 => k0 = u
        /\ n <= 12 => u \in {None, Callee}
        /\ n <= 11 => k0 = Callee
    BY DEF CallerInv
  <1>3. todo[Caller] # << >> /\ todo[Caller] \in Seq(Op)
    BY <1>0, ActionOf DEF TypeOK
  <1>4. /\ h = recv("PUBLIC_KEY") <=> n = 17
        /\ h.do = "validateKey" <=> n = 13
        /\ h.do = "setPublicKey" <=> n = 12
    BY <1>2, <1>3, CallerHead
  <1>5. CASE UNCHANGED todo
    <2>1. pk' = pk /\ k0' = k0
      BY <1>0, <1>5, ThreadGotKey, ThreadStays
    <2>2. n' = n
      BY <1>5 DEF Left
    <2> QED
      BY <1>2, <1>5, <2>1, <2>2
  <1>6. CASE ~ UNCHANGED todo
    <2>1. PICK k \in 1 .. 2 : /\ k <= n /\ (k = 2 => n = 6)
                              /\ todo'[Caller] = SubSeq(todo[Caller], k + 1, Len(todo[Caller]))
      BY <1>6, CallerDrops
    <2>2. n' = n - k /\ n \in Nat
      <3>1. Len(todo[Caller]) \in Nat /\ k <= Len(todo[Caller])
        BY <1>3, <2>1 DEF Left
      <3>2. Len(todo'[Caller]) = Len(todo[Caller]) - k
        BY <1>3, <2>1, <3>1
      <3> QED
        BY <3>1, <3>2 DEF Left
    <2>3. EndsLike(todo'[Caller], IntroducedCalls, PlainOp)
      <3>1. Len(IntroducedCalls) \in Nat /\ k + 1 \in 1 .. Len(todo[Caller]) + 1
        BY <2>1, <2>2, IntroducedTable, SMTT(30) DEF Left
      <3> QED
        BY <1>2, <1>3, <2>1, <3>1, EndsDrop
    <2>4. /\ h # recv("PUBLIC_KEY") => pk' = pk
          /\ h = recv("PUBLIC_KEY") => pk' = Callee
      BY <1>0, <1>6, ThreadGotKey
    <2>5. /\ h.do # "setPublicKey" => k0' = k0
          /\ h.do = "setPublicKey" => k0' = pk
          /\ h.do = "validateKey" => k0 \in {None, pk}
      BY <1>0, <1>6, ThreadPeerKey
    <2> HIDE DEF n, h, pk, k0, u
    <2>6. n' <= 16 => pk' = Callee
      BY <1>2, <1>4, <2>1, <2>2, <2>4
    <2>7. n' >= 12 => k0' = u
      BY <1>2, <1>4, <2>1, <2>2, <2>5
    <2>8. n' <= 12 => u \in {None, Callee}
      BY <1>2, <1>4, <2>1, <2>2, <2>5
    <2>9. n' <= 11 => k0' = Callee
      BY <1>2, <1>4, <2>1, <2>2, <2>5
    <2> QED
      BY <2>3, <2>6, <2>7, <2>8, <2>9
  <1> QED
    BY <1>5, <1>6

-----------------------------------------------------------------------------
(* The callee's steps. *)

\* A list that is only the end of another one.
LEMMA SuffixIs ==
    ASSUME NEW s \in Seq(Op), NEW e, Len(e) \in Nat, EndsLike(s, e, {}), s # << >>
    PROVE  /\ Head(s) = e[Len(e) + 1 - Len(s)] /\ Len(s) >= 1
           /\ \A i \in 1 .. Len(s) : s[i] = e[Len(e) - (Len(s) - i)]
  <1>1. Len(s) \in Nat /\ Len(s) >= 1 /\ Head(s) = s[1]
    OBVIOUS
  <1>2. \A i \in 1 .. Len(s) : s[i] = e[Len(e) - (Len(s) - i)]
    BY DEF EndsLike
  <1>3. 1 \in 1 .. Len(s) /\ Len(e) - (Len(s) - 1) = Len(e) + 1 - Len(s)
    BY <1>1
  <1> QED
    BY <1>1, <1>2, <1>3

\* The two calls about the request are AskCalls.
LEMMA AskEnds ==
    ASSUME NEW s \in Seq(Op), Len(s) = 2, s[1] = recv("INTRODUCTION_REQ"),
           s[2] = do("startKeepAliveWorker")
    PROVE  s = AskCalls /\ EndsLike(s, AskCalls, {})
  <1>1. \A i \in 1 .. 2 : i \in {1, 2}
    OBVIOUS
  <1>2. s = AskCalls
    <2>1. \A i \in 1 .. Len(s) : s[i] = AskCalls[i]
      BY <1>1, AskTable
    <2>2. Len(s) = Len(AskCalls) /\ AskCalls \in Seq(Op)
      BY AskTable
    <2> QED
      BY <2>1, <2>2, SeqEqual
  <1>3. ASSUME NEW i \in 1 .. 2 PROVE 2 - i < 2 /\ 2 - (2 - i) = i
    OBVIOUS
  <1> QED
    BY <1>2, <1>3, AskTable DEF EndsLike

\* Every list ends like itself.
LEMMA EndsItself ==
    ASSUME NEW s \in Seq(Op)
    PROVE  EndsLike(s, s, {})
  <1>1. Len(s) \in Nat
    OBVIOUS
  <1>2. \A i \in 1 .. Len(s) : Len(s) - i < Len(s) /\ Len(s) - (Len(s) - i) = i
    BY <1>1
  <1> QED
    BY <1>2 DEF EndsLike

\* Reading whether there is an introduction, or a request, is an action of its own.
LEMMA IntroductionRead ==
    ASSUME TypeOK, TruthInv, ThreadStep(Callee), ~ UNCHANGED todo
    PROVE  LET h == Head(todo[Callee]) IN
           /\ h = recv("INTRODUCTION") =>
                 \/ /\ callInfo.shouldIntroduce
                    /\ todo'[Callee] = receiveAndSetPublicKey \o Tail(todo[Callee])
                 \/ ~ callInfo.shouldIntroduce /\ todo'[Callee] = Tail(todo[Callee])
           /\ h = recv("INTRODUCTION_REQ") => requested' = callInfo.requiresIntroduction
  <1> DEFINE h == Head(todo[Callee])
             m == Head(chan[Caller])
  <1>0. Callee \in Party /\ Other(Callee) = Caller /\ Callee # Caller
    BY DEF Party, Other, Caller, Callee
  <1>1. /\ h = recv("INTRODUCTION") => isOtherPartyIntroducing(Callee)
        /\ h = recv("INTRODUCTION_REQ") => handleIncomingRequestForIntroduction(Callee)
    <2> SUFFICES ASSUME \/ h.do = "recv" /\ h.kind = "INTRODUCTION"
                        \/ h.do = "recv" /\ h.kind = "INTRODUCTION_REQ"
                 PROVE  /\ h.kind = "INTRODUCTION" => isOtherPartyIntroducing(Callee)
                        /\ h.kind = "INTRODUCTION_REQ" =>
                              handleIncomingRequestForIntroduction(Callee)
      BY DEF recv
    <2>1. CASE \/ sendMessage(Callee) \/ sendFails(Callee)
               \/ validateKeyAgainstExpected(Callee) \/ setPublicKey(Callee)
               \/ initSender(Callee) \/ initReceiver(Callee) \/ startMedia(Callee)
               \/ returnFromReject(Callee) \/ startKeepAliveWorker(Callee)
      BY <2>1 DEF sendMessage, sendFails, validateKeyAgainstExpected, setPublicKey, initSender,
                  initReceiver, startMedia, returnFromReject, startKeepAliveWorker, Doing
    <2>2. CASE \/ receiveMessage(Callee) \/ receiveAnswer(Callee) \/ receiveSsrc(Callee)
               \/ receiveSalt(Callee)
      BY <2>2 DEF receiveMessage, receiveAnswer, receiveSsrc, receiveSalt, Reading, Choices, Current
    <2>3. CASE receiveWrongMessage(Callee) \/ endOfStream(Callee)
      BY <2>3 DEF receiveWrongMessage, endOfStream, ReadError, Fail, Current
    <2>4. CASE isOtherPartyIntroducing(Callee) \/ handleIncomingRequestForIntroduction(Callee)
      BY <2>4 DEF isOtherPartyIntroducing, handleIncomingRequestForIntroduction, Reading, Current
    <2> QED
      BY <1>0, <2>1, <2>2, <2>3, <2>4 DEF ThreadStep, CallThread
  <1>2. ASSUME Reading(Callee, {"INTRODUCTION", "INTRODUCTION_REQ"})
        PROVE  /\ Inbox(Callee) = chan[Caller] /\ Truthful(callInfo, m.kind)
               /\ Acceptable(Callee, h.kind, m)
    <2>1. Inbox(Callee) = chan[Caller] /\ chan[Caller] # << >>
      BY <1>0, <1>2, AvailableMeans DEF Reading, Inbox
    <2>2. m \in TruthfulMessage(callInfo)
      BY <2>1 DEF TruthInv
    <2> QED
      BY <1>2, <2>1, <2>2 DEF TruthfulMessage, Reading, Current
  <1>3. ASSUME h = recv("INTRODUCTION")
        PROVE  \/ /\ callInfo.shouldIntroduce
                  /\ todo'[Callee] = receiveAndSetPublicKey \o Tail(todo[Callee])
               \/ ~ callInfo.shouldIntroduce /\ todo'[Callee] = Tail(todo[Callee])
    <2>1. isOtherPartyIntroducing(Callee) /\ h.kind = "INTRODUCTION"
      BY <1>1, <1>3 DEF recv
    <2>2. Inbox(Callee) = chan[Caller] /\ Truthful(callInfo, m.kind) /\ Acceptable(Callee, h.kind, m)
      BY <1>2, <2>1 DEF isOtherPartyIntroducing, Reading
    <2>3. m.kind \in {"INTRODUCTION", "NO_INTRODUCTION"}
      BY <2>1, <2>2 DEF Acceptable
    <2>4. todo'[Callee] = IF m.kind = "INTRODUCTION"
                          THEN receiveAndSetPublicKey \o Tail(todo[Callee])
                          ELSE Tail(todo[Callee])
      BY <1>0, <2>1, <2>2 DEF isOtherPartyIntroducing, TypeOK
    <2> QED
      BY <2>2, <2>3, <2>4 DEF Truthful
  <1>4. ASSUME h = recv("INTRODUCTION_REQ")
        PROVE  requested' = callInfo.requiresIntroduction
    <2>1. handleIncomingRequestForIntroduction(Callee) /\ h.kind = "INTRODUCTION_REQ"
      BY <1>1, <1>4 DEF recv
    <2>2. Inbox(Callee) = chan[Caller] /\ Truthful(callInfo, m.kind) /\ Acceptable(Callee, h.kind, m)
      BY <1>2, <2>1 DEF handleIncomingRequestForIntroduction, Reading
    <2>3. m.kind \in {"INTRODUCTION_REQ", "NO_INTRODUCTION_REQ"}
      BY <2>1, <2>2 DEF Acceptable
    <2>4. requested' = (m.kind = "INTRODUCTION_REQ")
      BY <2>1, <2>2 DEF handleIncomingRequestForIntroduction
    <2>5. callInfo.requiresIntroduction \in BOOLEAN
      BY DEF TypeOK, CallInfo
    <2> QED
      BY <2>2, <2>3, <2>4, <2>5 DEF Truthful
  <1> QED
    BY <1>3, <1>4

\* A step of the callee keeps CalleeInv.
LEMMA CalleeThread ==
    ASSUME TypeOK, TypeOK', MessageOrigin, TruthInv, CalleeInv, ThreadStep(Callee)
    PROVE  CalleeInv'
  <1> DEFINE s == todo[Callee]
             t == todo'[Callee]
             n == Left(Callee)
             h == Head(s)
  <1>0. Callee \in Party /\ Caller \in Party /\ Caller # Callee /\ Other(Callee) = Caller
    BY DEF Party, Other, Caller, Callee
  <1>1. /\ s # << >> /\ s \in Seq(Op) /\ n = Len(s) /\ n \in Nat /\ t \in Seq(Op)
        /\ h \in Op /\ n' = Len(t)
    BY <1>0, ActionOf, TodoType DEF TypeOK, Left
  <1>2. callInfo' = callInfo /\ CallerKey' = CallerKey
    BY <1>0, ThreadFrame DEF CallerKey
  <1>3. \/ UNCHANGED todo
        \/ t = SubSeq(s, 2, Len(s)) /\ ~ UNCHANGED todo
        \/ t = SubSeq(s, 3, Len(s)) /\ h.do = "send" /\ h.kind = "SSRC"
        \/ h = recv("INTRODUCTION") /\ ~ UNCHANGED todo
    <2>1. h.do = "recv" /\ h.kind = "INTRODUCTION" => h = recv("INTRODUCTION")
      BY <1>1 DEF Op, recv
    <2>2. todo \in [Party -> Seq(Op)]
      BY DEF TypeOK
    <2>3. CASE todo' = [todo EXCEPT ![Callee] = SubSeq(@, 2, Len(@))]
      BY <1>0, <2>2, <2>3
    <2>4. CASE /\ h.do = "send" /\ h.kind = "SSRC"
               /\ todo' = [todo EXCEPT ![Callee] = SubSeq(@, 3, Len(@))]
      BY <1>0, <2>2, <2>4
    <2>5. CASE h.do = "recv" /\ h.kind = "INTRODUCTION"
      BY <2>1, <2>5
    <2> QED
      BY <1>0, <2>3, <2>4, <2>5, ThreadTodo
  <1>4. status'[Callee] = "initialized" => h.do = "startKeepAliveWorker"
    BY <1>0, ThreadStatus
  <1>5. /\ h.do # "setPublicKey" => peerKey'[Callee] = peerKey[Callee]
        /\ h.do = "setPublicKey" => peerKey'[Callee] = got[Callee]["PUBLIC_KEY"]
        /\ h # recv("INTRODUCTION_REQ") => requested' = requested
        /\ h # recv("PUBLIC_KEY") => got'[Callee]["PUBLIC_KEY"] = got[Callee]["PUBLIC_KEY"]
        /\ h = recv("PUBLIC_KEY") /\ ~ UNCHANGED todo => got'[Callee]["PUBLIC_KEY"] = Caller
    BY <1>0, ThreadPeerKey, ThreadGotKey
  <1>6. ASSUME UNCHANGED todo
        PROVE  /\ peerKey'[Callee] = peerKey[Callee] /\ requested' = requested
               /\ got'[Callee]["PUBLIC_KEY"] = got[Callee]["PUBLIC_KEY"] /\ n' = n /\ t = s
    BY <1>0, <1>6, ThreadStays, ThreadGotKey DEF Left
  <1>7. ASSUME t = SubSeq(s, 2, Len(s))
        PROVE  n' = n - 1 /\ \A i \in 1 .. n - 1 : t[i] = s[i + 1]
    <2>1. s # << >> /\ s \in Seq(Op) /\ n = Len(s) /\ n \in Nat
      BY <1>1
    <2> HIDE DEF s, n, t
    <2>2. Len(t) = n - 1 /\ \A i \in 1 .. n - 1 : t[i] = s[i + 1]
      BY <1>7, <2>1
    <2> QED
      BY <1>1, <2>2
  <1>7a. ASSUME t = SubSeq(s, 2, Len(s)), NEW e, Len(e) \in Nat, EndsLike(s, e, {})
         PROVE  EndsLike(t, e, {})
    <2>1. 2 \in 1 .. Len(s) + 1
      BY <1>1
    <2> HIDE DEF s, t
    <2> QED
      BY <1>1, <1>7a, <2>1, EndsDrop
  <1>8. CASE Settled
    <2>1. h \in SettledOp /\ s \in Seq(SettledOp)
      BY <1>1, <1>8 DEF Settled
    <2>2. peerKey'[Callee] = peerKey[Callee] /\ requested' = requested
      BY <1>5, <2>1 DEF SettledOp
    <2>3. t \in Seq(SettledOp)
      <3>1. h # recv("INTRODUCTION")
        BY <2>1 DEF SettledOp
      <3> HIDE DEF s, t
      <3>2. SubSeq(s, 2, Len(s)) \in Seq(SettledOp) /\ SubSeq(s, 3, Len(s)) \in Seq(SettledOp)
        BY <1>1, <2>1
      <3> QED
        BY <1>3, <1>6, <2>1, <3>1, <3>2
    <2>4. Settled'
      BY <1>2, <1>8, <2>2, <2>3 DEF Settled, SettledOp, recv
    <2> QED
      BY <2>4 DEF CalleeInv
  <1>9. CASE Opening
    <2> DEFINE e == initiateIncomingSession
    <2>1. n \in 3 .. 9 /\ EndsLike(s, e, {}) /\ peerKey[Callee] = None
      BY <1>9 DEF Opening
    <2>2. Len(e) = 9 /\ Len(e) \in Nat
      BY OpeningTable
    <2>3. h = e[10 - n] /\ \A i \in 1 .. n : s[i] = e[9 - (n - i)]
      <3>1. /\ h = e[Len(e) + 1 - Len(s)]
            /\ \A i \in 1 .. Len(s) : s[i] = e[Len(e) - (Len(s) - i)]
        BY <1>1, <2>1, <2>2, SuffixIs
      <3>2. Len(e) + 1 - n = 10 - n
        BY <1>1, <2>2
      <3> QED
        BY <1>1, <2>2, <3>1, <3>2
    <2>4. /\ \A i \in 1 .. 6 : e[i] \in SettledOp /\ e[i].do \in {"send", "recv"} /\ e[i].kind # "SSRC"
          /\ e[7] = recv("INTRODUCTION") /\ e[8] = recv("INTRODUCTION_REQ")
          /\ e[9] = do("startKeepAliveWorker")
      BY OpeningTable
    <2> HIDE DEF e
    <2>5. CASE n > 3
      <3>1. 10 - n \in 1 .. 6
        BY <2>1, <2>5
      <3>2. h \in SettledOp /\ h.do \in {"send", "recv"} /\ h.kind # "SSRC"
        BY <2>3, <2>4, <3>1
      <3>3. h # recv("INTRODUCTION") /\ h.do # "setPublicKey" /\ h.do # "startKeepAliveWorker"
        BY <3>2 DEF SettledOp
      <3>4. peerKey'[Callee] = None /\ status'[Callee] # "initialized"
        BY <1>4, <1>5, <2>1, <3>3
      <3>5. n' \in 3 .. 9 /\ EndsLike(t, e, {})
        <4>1. CASE UNCHANGED todo
          BY <1>6, <2>1, <4>1
        <4>2. CASE t = SubSeq(s, 2, Len(s))
          <5>1. EndsLike(t, e, {})
            BY <1>7a, <2>1, <2>2, <4>2
          <5>2. n' = n - 1
            BY <1>7, <4>2
          <5>3. n' \in 3 .. 9
            BY <2>1, <2>5, <5>2
          <5> QED
            BY <5>1, <5>3
        <4> QED
          BY <1>3, <3>2, <3>3, <4>1, <4>2
      <3>6. Opening'
        BY <3>4, <3>5 DEF Opening, e, initiateIncomingSession
      <3> QED
        BY <3>4, <3>6 DEF CalleeInv
    <2>6. CASE n = 3
      <3>1. h = recv("INTRODUCTION")
        BY <2>3, <2>4, <2>6
      <3>2. /\ h.do # "setPublicKey" /\ h.do # "startKeepAliveWorker"
            /\ peerKey'[Callee] = None /\ status'[Callee] # "initialized"
        BY <1>4, <1>5, <2>1, <3>1 DEF recv
      <3>3. CASE UNCHANGED todo
        <4>1. Opening'
          BY <1>6, <2>1, <3>2, <3>3 DEF Opening, e, initiateIncomingSession
        <4> QED
          BY <3>2, <4>1 DEF CalleeInv
      <3>4. Tail(s) = AskCalls /\ EndsLike(Tail(s), AskCalls, {}) /\ Len(Tail(s)) = 2
        <4> DEFINE u == Tail(s)
        <4>1. u \in Seq(Op) /\ Len(u) = n - 1 /\ \A i \in 1 .. Len(u) : u[i] = s[i + 1]
          BY <1>1, HeadTailProperties
        <4>2. s[2] = e[8] /\ s[3] = e[9]
          BY <2>3, <2>6
        <4> HIDE DEF u
        <4>3. Len(u) = 2
          BY <2>6, <4>1
        <4>4. u[1] = recv("INTRODUCTION_REQ") /\ u[2] = do("startKeepAliveWorker")
          <5>1. 1 \in 1 .. Len(u) /\ 2 \in 1 .. Len(u)
            BY <4>3
          <5>2. u[1] = s[1 + 1] /\ u[2] = s[2 + 1]
            BY <4>1, <5>1
          <5> QED
            BY <2>4, <4>2, <5>2
        <4> QED
          BY <4>1, <4>3, <4>4, AskEnds DEF u
      <3>5. CASE ~ UNCHANGED todo /\ callInfo.shouldIntroduce
        <4>1. t = receiveAndSetPublicKey \o Tail(s)
          BY <3>1, <3>5, IntroductionRead
        <4>2. t = IntroCalls
          BY <3>4, <4>1 DEF IntroCalls
        <4>3. n' = 8 /\ EndsLike(t, IntroCalls, {})
          BY <1>1, <4>2, IntroTable, EndsItself
        <4>4. callInfo'.shouldIntroduce
          BY <1>2, <3>5
        <4>5. Proving'
          BY <4>3, <4>4 DEF Proving, IntroCalls, AskCalls, receiveAndSetPublicKey
        <4> QED
          BY <3>2, <4>5 DEF CalleeInv
      <3>6. CASE ~ UNCHANGED todo /\ ~ callInfo.shouldIntroduce
        <4>1. t = Tail(s)
          BY <3>1, <3>6, IntroductionRead
        <4>2. n' = 2 /\ EndsLike(t, AskCalls, {})
          BY <1>1, <3>4, <4>1
        <4>3. CallerKey' = None
          BY <1>2, <3>6 DEF CallerKey
        <4>4. Asking'
          BY <3>2, <4>2, <4>3 DEF Asking, AskCalls
        <4> QED
          BY <3>2, <4>4 DEF CalleeInv
      <3> QED
        BY <3>3, <3>5, <3>6
    <2> QED
      BY <2>1, <2>5, <2>6
  <1>10. CASE Proving
    <2> DEFINE e == IntroCalls
               k == got[Callee]["PUBLIC_KEY"]
    <2>1. /\ n \in 3 .. 8 /\ EndsLike(s, e, {}) /\ callInfo.shouldIntroduce
          /\ n <= 6 => k = Caller
      BY <1>10 DEF Proving
    <2>2. Len(e) = 8 /\ Len(e) \in Nat
      BY IntroTable
    <2>3. h = e[9 - n] /\ \A i \in 1 .. n : s[i] = e[8 - (n - i)]
      <3>1. /\ h = e[Len(e) + 1 - Len(s)]
            /\ \A i \in 1 .. Len(s) : s[i] = e[Len(e) - (Len(s) - i)]
        BY <1>1, <2>1, <2>2, SuffixIs
      <3>2. Len(e) + 1 - n = 9 - n
        BY <1>1, <2>2
      <3> QED
        BY <1>1, <2>2, <3>1, <3>2
    <2>4. /\ e[1] = recv("SIZE") /\ e[2] = recv("PUBLIC_KEY") /\ e[3] = send("CHALLENGE")
          /\ e[4] = recv("SIZE") /\ e[5] = recv("SIGNATURE") /\ e[6] = do("setPublicKey")
          /\ e[7] = recv("INTRODUCTION_REQ") /\ e[8] = do("startKeepAliveWorker")
      BY IntroTable
    <2> HIDE DEF e
    <2>5. /\ n = 8 => h = recv("SIZE")
          /\ n = 7 => h = recv("PUBLIC_KEY")
          /\ n = 6 => h = send("CHALLENGE")
          /\ n = 5 => h = recv("SIZE")
          /\ n = 4 => h = recv("SIGNATURE")
          /\ n = 3 => h = do("setPublicKey")
      BY <2>3, <2>4
    <2>6. n \in {3, 4, 5, 6, 7, 8}
      BY <2>1
    <2> HIDE DEF n, h, s, t, k
    <2>7. /\ h # recv("INTRODUCTION") /\ h.do # "startKeepAliveWorker"
          /\ h.kind # "SSRC"
          /\ n # 7 => h # recv("PUBLIC_KEY")
          /\ n # 3 => h.do # "setPublicKey"
          /\ n = 3 => h.do = "setPublicKey"
      BY <2>5, <2>6 DEF recv, send, do
    <2>8. status'[Callee] # "initialized" /\ callInfo'.shouldIntroduce
      BY <1>2, <1>4, <2>1, <2>7
    <2>9. CASE UNCHANGED todo
      <3>1. n' = n /\ t = s /\ k' = k
        BY <1>6, <2>9 DEF n, t, s, k
      <3>2. Proving'
        BY <2>1, <2>8, <3>1 DEF Proving, e, IntroCalls, AskCalls, receiveAndSetPublicKey, n, s, t, k
      <3> QED
        BY <2>8, <3>2 DEF CalleeInv
    <2>10. CASE t = SubSeq(s, 2, Len(s)) /\ ~ UNCHANGED todo
      <3>1. EndsLike(t, e, {}) /\ n' = n - 1 /\ \A i \in 1 .. n - 1 : t[i] = s[i + 1]
        BY <1>7, <1>7a, <2>1, <2>2, <2>10
      <3>2. /\ n # 7 => k' = k
            /\ n = 7 => k' = Caller
        BY <1>5, <2>5, <2>7, <2>10 DEF k, h, s
      <3>3. CASE n > 3
        <4>1. n' \in 3 .. 8 /\ (n' <= 6 => k' = Caller)
          BY <2>1, <2>6, <3>1, <3>2, <3>3
        <4>2. Proving'
          BY <2>8, <3>1, <4>1 DEF Proving, e, IntroCalls, AskCalls, receiveAndSetPublicKey, n, t, k
        <4> QED
          BY <2>8, <4>2 DEF CalleeInv
      <3>4. CASE n = 3
        <4>1. n' = 2 /\ t[1] = s[2] /\ t[2] = s[3]
          BY <3>1, <3>4
        <4>2. s[2] = e[7] /\ s[3] = e[8]
          BY <2>3, <3>4
        <4>3. EndsLike(t, AskCalls, {})
          <5>1. t \in Seq(Op) /\ Len(t) = 2
            BY <1>1, <4>1 DEF n, t
          <5> QED
            BY <2>4, <4>1, <4>2, <5>1, AskEnds
        <4>4. peerKey'[Callee] = Caller
          BY <1>5, <2>1, <2>7, <3>4 DEF k, h, s
        <4>5. CallerKey' = Caller
          BY <1>2, <2>1 DEF CallerKey
        <4>6. Asking'
          BY <4>1, <4>3, <4>4, <4>5 DEF Asking, AskCalls, n, t
        <4> QED
          BY <2>8, <4>6 DEF CalleeInv
      <3> QED
        BY <2>6, <3>3, <3>4
    <2> QED
      BY <1>3, <2>7, <2>9, <2>10
  <1>11. CASE Asking
    <2>1. n = 2 /\ EndsLike(s, AskCalls, {}) /\ peerKey[Callee] = CallerKey
      BY <1>11 DEF Asking
    <2>2. /\ Len(AskCalls) = 2 /\ Len(AskCalls) \in Nat /\ AskCalls[1] = recv("INTRODUCTION_REQ")
          /\ AskCalls[2] = do("startKeepAliveWorker")
      BY AskTable
    <2>3. h = AskCalls[3 - n] /\ \A i \in 1 .. n : s[i] = AskCalls[2 - (n - i)]
      <3>1. /\ h = AskCalls[Len(AskCalls) + 1 - Len(s)]
            /\ \A i \in 1 .. Len(s) : s[i] = AskCalls[Len(AskCalls) - (Len(s) - i)]
        BY <1>1, <2>1, <2>2, SuffixIs
      <3>2. Len(AskCalls) + 1 - n = 3 - n
        BY <1>1, <2>2
      <3> QED
        BY <1>1, <2>2, <3>1, <3>2
    <2>4. h = recv("INTRODUCTION_REQ") /\ s[2] = do("startKeepAliveWorker")
      BY <2>1, <2>2, <2>3
    <2>5. /\ h # recv("INTRODUCTION") /\ h.do # "startKeepAliveWorker" /\ h.do # "send"
          /\ h.do # "setPublicKey"
      BY <2>4 DEF recv
    <2>6. status'[Callee] # "initialized" /\ peerKey'[Callee] = CallerKey'
      BY <1>2, <1>4, <1>5, <2>1, <2>5
    <2>7. CASE UNCHANGED todo
      <3>1. Asking'
        BY <1>6, <2>1, <2>6, <2>7 DEF Asking, AskCalls
      <3> QED
        BY <2>6, <3>1 DEF CalleeInv
    <2>8. CASE t = SubSeq(s, 2, Len(s)) /\ ~ UNCHANGED todo
      <3>1. Len(t) = 1 /\ t[1] = do("startKeepAliveWorker")
        <4>1. n' = n - 1 /\ \A i \in 1 .. n - 1 : t[i] = s[i + 1]
          BY <1>7, <2>8
        <4> QED
          BY <1>1, <2>1, <2>4, <4>1
      <3>2. t \in Seq(SettledOp)
        <4>1. do("startKeepAliveWorker") \in SettledOp
          BY OpTypes DEF SettledOp, QuietOp, do, recv
        <4>2. \A i \in 1 .. Len(t) : t[i] \in SettledOp
          BY <3>1, <4>1
        <4> HIDE DEF t
        <4> QED
          BY <1>1, <4>2
      <3>3. requested' = callInfo.requiresIntroduction
        BY <2>4, <2>8, IntroductionRead
      <3>4. Settled'
        BY <1>2, <2>6, <3>2, <3>3 DEF Settled, SettledOp, recv
      <3> QED
        BY <3>4 DEF CalleeInv
    <2> QED
      BY <1>3, <2>5, <2>7, <2>8
  <1> QED
    BY <1>8, <1>9, <1>10, <1>11 DEF CalleeInv

-----------------------------------------------------------------------------
(* All steps together. *)

\* A step of the caller leaves what the callee knows alone.
LEMMA CalleeFrame ==
    ASSUME TypeOK, TruthInv, CalleeInv, ThreadStep(Caller)
    PROVE  CalleeInv'
  <1> DEFINE h == Head(todo[Caller])
  <1>0. Callee \in Party /\ Caller \in Party /\ Caller # Callee /\ Other(Caller) = Callee
    BY DEF Party, Other, Caller, Callee
  <1>1. /\ todo'[Callee] = todo[Callee] /\ status'[Callee] = status[Callee]
        /\ got'[Callee] = got[Callee] /\ callInfo' = callInfo
    BY <1>0, ThreadFrame
  <1>2. h # recv("INTRODUCTION_REQ")
    <2>1. todo[Caller] # << >>
      BY <1>0, ActionOf
    <2>2. h \in TruthfulOp(callInfo)
      BY <2>1 DEF TruthInv
    <2> QED
      BY <2>2 DEF TruthfulOp
  <1>3. peerKey'[Callee] = peerKey[Callee] /\ requested' = requested
    BY <1>0, <1>2, ThreadPeerKey
  <1>4. Left(Callee)' = Left(Callee) /\ CallerKey' = CallerKey
    BY <1>1 DEF Left, CallerKey
  <1>5. Opening => Opening'
    BY <1>1, <1>3, <1>4 DEF Opening, initiateIncomingSession
  <1>6. Proving => Proving'
    BY <1>1, <1>4 DEF Proving, IntroCalls, AskCalls, receiveAndSetPublicKey
  <1>7. Asking => Asking'
    BY <1>1, <1>3, <1>4 DEF Asking, AskCalls
  <1>8. Settled => Settled'
    BY <1>1, <1>3, <1>4 DEF Settled, SettledOp, recv
  <1> QED
    BY <1>1, <1>5, <1>6, <1>7, <1>8 DEF CalleeInv

\* A step of the callee leaves what the caller knows alone.
LEMMA CallerFrame ==
    ASSUME TypeOK, CallerInv, ThreadStep(Callee)
    PROVE  CallerInv'
  <1>0. Callee \in Party /\ Caller \in Party /\ Caller # Callee /\ Other(Callee) = Caller
    BY DEF Party, Other, Caller, Callee
  <1>1. todo'[Caller] = todo[Caller] /\ got'[Caller] = got[Caller] /\ callInfo' = callInfo
    BY <1>0, ThreadFrame
  <1>2. peerKey'[Caller] = peerKey[Caller]
    BY <1>0, ThreadPeerKey
  <1>3. Left(Caller)' = Left(Caller)
    BY <1>1 DEF Left
  <1> QED
    BY <1>1, <1>2, <1>3 DEF CallerInv, IntroducedCalls, ProofCalls, LastCalls, initiateSrtp

\* A stream of which every message is REST or was there before stays truthful.
LEMMA TruthRemains ==
    ASSUME NEW ci, NEW s \in Seq(TruthfulMessage(ci)), NEW t \in Seq(Message), Remains(t, s)
    PROVE  t \in Seq(TruthfulMessage(ci))
  <1>1. ASSUME NEW i \in 1 .. Len(t) PROVE t[i] \in TruthfulMessage(ci)
    <2>1. t[i] \in Message
      OBVIOUS
    <2>2. CASE t[i].kind = "REST"
      BY <2>1, <2>2 DEF TruthfulMessage, Truthful
    <2>3. CASE \E j \in 1 .. Len(s) : t[i] = s[j]
      BY <2>3
    <2> QED
      BY <2>2, <2>3 DEF Remains
  <1> QED
    BY <1>1

\* The steps of the call threads keep TruthInv.
LEMMA TruthThread ==
    ASSUME TypeOK, TypeOK', ReadyInv, TruthInv, NEW p \in Party, ThreadStep(p)
    PROVE  TruthInv'
  <1> DEFINE S == TruthfulOp(callInfo)
             M == TruthfulMessage(callInfo)
  <1>0. Callee \in Party /\ Caller \in Party /\ Caller # Callee /\ Other(Callee) = Caller
    BY DEF Party, Other, Caller, Callee
  <1>1. callInfo' = callInfo
    BY <1>0, ThreadFrame DEF Party
  <1>2. todo[Caller] \in Seq(S) /\ chan[Caller] \in Seq(M)
    BY DEF TruthInv
  <1>3. todo'[Caller] \in Seq(S)
    <2>1. CASE p # Caller
      BY <1>0, <1>2, <2>1, ThreadFrame
    <2>2. CASE p = Caller /\ ~ UNCHANGED todo
      <3>1. PICK k \in 1 .. 2 : /\ k <= Left(Caller)
                                /\ todo'[Caller] = SubSeq(todo[Caller], k + 1, Len(todo[Caller]))
        BY <2>2, CallerDrops
      <3> DEFINE s == todo[Caller]
      <3>2. s \in Seq(S) /\ k <= Len(s) /\ todo'[Caller] = SubSeq(s, k + 1, Len(s))
        BY <1>2, <3>1 DEF Left
      <3> HIDE DEF s, S
      <3>3. SubSeq(s, k + 1, Len(s)) \in Seq(S)
        BY <3>2
      <3> QED
        BY <3>2, <3>3
    <2>3. CASE UNCHANGED todo
      BY <1>2, <2>3
    <2> QED
      BY <2>1, <2>2, <2>3
  <1>4. chan'[Caller] \in Seq(M)
    <2>0. chan'[Caller] \in Seq(Message) /\ chan[Caller] \in Seq(Message)
      BY <1>0 DEF TypeOK
    <2>1. CASE p = Caller
      <3>1. CASE chan'[Caller] = chan[Caller]
        BY <1>2, <3>1
      <3>2. CASE /\ sendMessage(Caller)
                 /\ chan'[Caller] = Append(chan[Caller], MessageOf(Caller, Current(Caller)))
        <4> DEFINE m == MessageOf(Caller, Current(Caller))
        <4>1. todo[Caller] # << >> /\ Head(todo[Caller]).do = "send"
          BY <3>2 DEF sendMessage, Doing
        <4>2. Head(todo[Caller]) \in S
          BY <1>2, <4>1
        <4>3. Truthful(callInfo, Current(Caller)) /\ Current(Caller) \in Kind
          BY <1>0, <4>1, <4>2, TodoType DEF TruthfulOp, Current
        <4>4. m \in Message /\ m.kind = Current(Caller)
          BY <1>0, <4>3, MessageOfType DEF MessageOf
        <4>5. m \in M
          BY <4>3, <4>4 DEF TruthfulMessage
        <4> HIDE DEF m, M
        <4>6. Append(chan[Caller], m) \in Seq(M)
          BY <1>2, <4>5
        <4> QED
          BY <3>2, <4>6 DEF m
      <3> QED
        BY <1>0, <2>1, <3>1, <3>2, ThreadWrites
    <2>2. CASE p = Callee
      <3>1. Remains(chan'[Caller], chan[Caller])
        <4>1. \/ chan'[Caller] = chan[Caller]
              \/ chan[Caller] # << >> /\ chan'[Caller] = Tail(chan[Caller])
              \/ Remains(chan'[Caller], chan[Caller])
          BY <1>0, <2>2, ThreadReads
        <4>2. CASE chan'[Caller] = chan[Caller]
          BY <1>0, <4>2, SameRemains
        <4>3. CASE chan[Caller] # << >> /\ chan'[Caller] = Tail(chan[Caller])
          BY <2>0, <4>3, TailRemains
        <4> QED
          BY <4>1, <4>2, <4>3
      <3> QED
        BY <1>2, <2>0, <3>1, TruthRemains
    <2> QED
      BY <2>1, <2>2 DEF Party
  <1> QED
    BY <1>1, <1>3, <1>4 DEF TruthInv, TruthfulOp, TruthfulMessage, Truthful, recv

\* The steps of the keep-alive thread and of the network keep IdentityInv.
LEMMA IdentityOutside ==
    ASSUME TypeOK, IdentityInv, OutsideStep
    PROVE  IdentityInv'
  <1>0. Callee \in Party /\ Caller \in Party /\ Caller # Callee
    BY DEF Party, Caller, Callee
  <1>1. /\ UNCHANGED <<todo, got, callInfo>>
        /\ \A r \in Party : status'[r] \in {status[r], "failed"}
    BY OutsideFrame
  <1>2. UNCHANGED <<peerKey, requested>>
    BY DEF OutsideStep, KeepAliveWorker, workerChecks, workerSendsWait, workerSendFails,
           workerWakes, Fail, linkBreaks, Terminated, vars, callVars
  <1>3. chan'[Caller] = chan[Caller]
        \/ \E n \in 0 .. Len(chan[Caller]) : chan'[Caller] = SubSeq(chan[Caller], 1, n)
    <2>1. workerSendsWait => chan'[Caller] = chan[Caller]
      BY <1>0 DEF workerSendsWait, TypeOK
    <2> QED
      BY <1>0, <2>1, OutsideStreams
  <1>4. TruthInv'
    <2> DEFINE M == TruthfulMessage(callInfo)
               s == chan[Caller]
    <2>1. s \in Seq(M) /\ todo[Caller] \in Seq(TruthfulOp(callInfo))
      BY DEF IdentityInv, TruthInv
    <2> HIDE DEF M, s
    <2>2. \A n \in 0 .. Len(s) : SubSeq(s, 1, n) \in Seq(M)
      BY <2>1
    <2>3. chan'[Caller] \in Seq(M)
      BY <1>3, <2>1, <2>2 DEF s
    <2> QED
      BY <1>1, <2>1, <2>3 DEF TruthInv, TruthfulOp, TruthfulMessage, Truthful, recv, M
  <1>5. \A r \in Party : Left(r)' = Left(r)
    BY <1>1 DEF Left
  <1>6. CallerInv'
    BY <1>0, <1>1, <1>2, <1>5
       DEF IdentityInv, CallerInv, IntroducedCalls, ProofCalls, LastCalls, initiateSrtp
  <1>7. CalleeInv'
    <2>1. CallerKey' = CallerKey
      BY <1>1 DEF CallerKey
    <2>2. Opening => Opening'
      BY <1>0, <1>1, <1>2, <1>5 DEF Opening, initiateIncomingSession
    <2>3. Proving => Proving'
      BY <1>0, <1>1, <1>5 DEF Proving, IntroCalls, AskCalls, receiveAndSetPublicKey
    <2>4. Asking => Asking'
      BY <1>0, <1>1, <1>2, <1>5, <2>1 DEF Asking, AskCalls
    <2>5. Settled => Settled'
      BY <1>0, <1>1, <1>2, <2>1 DEF Settled, SettledOp, recv
    <2>6. status'[Callee] = "initialized" => status[Callee] = "initialized"
      BY <1>0, <1>1
    <2> QED
      BY <2>2, <2>3, <2>4, <2>5, <2>6 DEF IdentityInv, CalleeInv
  <1> QED
    BY <1>4, <1>6, <1>7 DEF IdentityInv

\* The user decides when the callee has settled whom it talks to.
LEMMA IdentityUser ==
    ASSUME TypeOK, IdentityInv, User
    PROVE  IdentityInv'
  <1> USE DEF callVars
  <1>0. Callee \in Party /\ Caller \in Party /\ Caller # Callee
    BY DEF Party, Caller, Callee
  <1>1. /\ UNCHANGED <<callInfo, chan, got, peerKey, requested>>
        /\ status[Callee] = "initialized" /\ status' = [status EXCEPT ![Callee] = "running"]
    BY DEF User, UserAccepts, UserRejects
  <1>2. \/ todo' = [todo EXCEPT ![Callee] = acceptCall(requested)]
        \/ todo' = [todo EXCEPT ![Callee] = rejectCall]
    BY DEF User, UserAccepts, UserRejects
  <1>3. requested \in BOOLEAN /\ todo \in [Party -> Seq(Op)] /\ status \in [Party -> Status]
    BY DEF TypeOK
  <1>4. todo'[Caller] = todo[Caller]
    BY <1>0, <1>2, <1>3
  <1>5. todo'[Callee] \in Seq(SettledOp)
    BY <1>0, <1>2, <1>3, DecisionCalls
  <1>6. Settled
    BY <1>1 DEF IdentityInv, CalleeInv
  <1>7. Settled'
    <2>1. CallerKey' = CallerKey
      BY <1>1 DEF CallerKey
    <2> QED
      BY <1>1, <1>5, <1>6, <2>1 DEF Settled, SettledOp, recv
  <1>8. TruthInv'
    BY <1>1, <1>4 DEF IdentityInv, TruthInv, TruthfulOp, TruthfulMessage, Truthful, recv
  <1>9. CallerInv'
    <2>1. Left(Caller)' = Left(Caller)
      BY <1>4 DEF Left
    <2> QED
      BY <1>1, <1>4, <2>1
         DEF IdentityInv, CallerInv, IntroducedCalls, ProofCalls, LastCalls, initiateSrtp
  <1> QED
    BY <1>7, <1>8, <1>9 DEF IdentityInv, CalleeInv

\* Both parties start without a proved key.
LEMMA IdentityInit == Init => IdentityInv
  <1> SUFFICES ASSUME Init PROVE IdentityInv
    OBVIOUS
  <1>0. Callee \in Party /\ Caller \in Party /\ Caller # Callee /\ callInfo \in CallInfo
    BY DEF Party, Caller, Callee, Init
  <1>1. /\ todo[Caller] = startCall(callInfo) /\ todo[Callee] = initiateIncomingSession
        /\ peerKey[Caller] = callInfo.publicKey /\ peerKey[Callee] = None
        /\ status[Callee] = "running" /\ chan[Caller] = << >>
    BY <1>0 DEF Init
  <1>2. TruthInv
    <2>1. << >> \in Seq(TruthfulMessage(callInfo))
      OBVIOUS
    <2> QED
      BY <1>0, <1>1, <2>1, CallerTruthful DEF TruthInv
  <1>3. CallerInv
    <2> SUFFICES ASSUME callInfo.requiresIntroduction
                 PROVE  /\ EndsLike(todo[Caller], IntroducedCalls, PlainOp)
                        /\ peerKey[Caller] = callInfo.publicKey
                        /\ ~ (Left(Caller) <= 16) /\ ~ (Left(Caller) <= 12) /\ ~ (Left(Caller) <= 11)
      BY DEF CallerInv
    <2>1. Left(Caller) >= 19 /\ Left(Caller) \in Nat
      BY <1>0, <1>1, CallerIntroduced, TypeInit, PosType DEF Left
    <2>2. ~ (Left(Caller) <= 16) /\ ~ (Left(Caller) <= 12) /\ ~ (Left(Caller) <= 11)
      BY <2>1
    <2> QED
      BY <1>0, <1>1, <2>2, CallerIntroduced
  <1>4. Opening
    <2>1. Left(Callee) = 9
      BY <1>1, OpeningTable DEF Left
    <2>2. EndsLike(todo[Callee], initiateIncomingSession, {})
      BY <1>1, OpeningTable, EndsItself
    <2> QED
      BY <1>1, <2>1, <2>2 DEF Opening
  <1> QED
    BY <1>1, <1>2, <1>3, <1>4 DEF IdentityInv, CalleeInv

\* Every step keeps IdentityInv.
LEMMA IdentityStep ==
    ASSUME IInv, TypeOK', ReadyInv, IdentityInv, [Next]_vars
    PROVE  IdentityInv'
  <1>0. TypeOK /\ MessageOrigin /\ TruthInv /\ CallerInv /\ CalleeInv
    BY DEF IInv, IdentityInv
  <1>1. ASSUME NEW p \in Party, ThreadStep(p) PROVE IdentityInv'
    <2>1. TruthInv'
      BY <1>0, <1>1, TruthThread
    <2>2. CallerInv'
      BY <1>0, <1>1, CallerThread, CallerFrame DEF Party
    <2>3. CalleeInv'
      BY <1>0, <1>1, CalleeThread, CalleeFrame DEF Party
    <2> QED
      BY <2>1, <2>2, <2>3 DEF IdentityInv
  <1>2. CASE OutsideStep
    BY <1>0, <1>2, IdentityOutside
  <1>3. CASE User
    BY <1>0, <1>3, IdentityUser
  <1> QED
    BY <1>1, <1>2, <1>3 DEF Next, ThreadStep, OutsideStep, Party

\* IdentityInv is an invariant of the call set-up.
THEOREM IdentityInvariance == Spec => []IdentityInv
  <1>1. IInv /\ IInv' /\ ReadyInv /\ IdentityInv /\ [Next]_vars => IdentityInv'
    BY IdentityStep DEF IInv
  <1> QED
    BY Invariance, ReadyInvariance, IdentityInit, <1>1, PTL DEF Spec

\* TheOnionPhoneProtocol: whatever WAIT, timeout or broken connection comes between, an ongoing
\* call has the public key that the other party proved to own, if one was asked for or
\* offered, and no other one than the user expected.
THEOREM IdentityAlwaysProven == Spec => []IdentityProven
  <1>1. TypeOK /\ ReadyInv /\ IdentityInv => IdentityProven
    <2> SUFFICES ASSUME TypeOK, ReadyInv, IdentityInv PROVE IdentityProven
      OBVIOUS
    <2>0. Callee \in Party /\ Caller \in Party
      BY DEF Party
    <2>1. ASSUME NEW p \in Party, status[p] = "ongoing" PROVE Left(p) = 0
      <3>1. Pos(p) = 0
        BY <2>1 DEF ReadyInv, DoneInv, MediaDone
      <3> QED
        BY <3>1 DEF Pos
    <2>2. ASSUME status[Caller] = "ongoing", callInfo.requiresIntroduction
          PROVE  peerKey[Caller] = Callee /\ callInfo.publicKey \in {None, Callee}
      <3>1. Left(Caller) <= 11 /\ Left(Caller) <= 12
        BY <2>0, <2>1, <2>2
      <3> QED
        BY <2>2, <3>1 DEF IdentityInv, CallerInv
    <2>3. ASSUME status[Callee] = "ongoing" PROVE Settled
      <3>1. Left(Callee) = 0
        BY <2>0, <2>1, <2>3
      <3>2. ~ Opening /\ ~ Proving /\ ~ Asking
        BY <3>1 DEF Opening, Proving, Asking
      <3> QED
        BY <3>2 DEF IdentityInv, CalleeInv
    <2> QED
      BY <2>2, <2>3 DEF IdentityProven, Settled, CallerKey
  <1> QED
    BY TypeCorrect, ReadyInvariance, IdentityInvariance, <1>1, PTL
=============================================================================
