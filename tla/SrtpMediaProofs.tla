--------------------------- MODULE SrtpMediaProofs ---------------------------
(***************************************************************************)
(* Proofs about SrtpMedia, for every width of the sequence number, of the  *)
(* rollover counter and of the replay window, every key limit below the    *)
(* number of packet indices and every capacity of the connection.          *)
(*                                                                         *)
(* The argument: the database of either side holds the untruncated index   *)
(* of the last packet it took, and the phone numbers its packets           *)
(* consecutively, so the next packet is always estimated one further       *)
(* (LEMMA EstimateNext), is never refused, and its truncated index differs *)
(* from the ones of the SeqMax * RocMax - 1 packets before it (LEMMA       *)
(* IndexDistinct), which is more than a key may protect.                   *)
(***************************************************************************)
EXTENDS SrtpMedia, SrtpStreamProofs

-----------------------------------------------------------------------------
(* The inductive invariant                                                 *)

Started(st) == st.direction # "unknown"

\* The sender numbers its packets consecutively: its database holds the number
\* of the last one, and every index used belongs to one of the packets counted
\* against the key.
SenderInv ==
    /\ tx.ssrc = Sender
    /\ tx.limit.num_left <= KeyLimit
    /\ ~ Started(tx) => /\ tx.rdbx = rdbx_init /\ tx.limit = key_limit_set
                        /\ used = {} /\ wire = << >> /\ ~ Started(rx)
    /\ Started(tx) =>
         \A x \in used : \E i \in Nat :
             /\ i <= tx.rdbx.index
             /\ tx.rdbx.index - i < KeyLimit - tx.limit.num_left
             /\ x = IndexOf(i)
    /\ wrapper = "running" =>
         /\ tx.limit.num_left >= 1
         /\ Started(tx) => mSequence = tx.rdbx.index % SeqMax

\* The packets on their way carry the numbers after b, the last one the
\* receiver has taken (or the one before the first, when it has taken none).
Chain(b) ==
    /\ ~ Started(rx) => rx.rdbx = rdbx_init /\ b \in -1 .. SeqMax - 2
    /\ Started(rx) => rx.rdbx.index = b
    /\ \A k \in 1 .. Len(wire) : /\ wire[k].seq = (b + k) % SeqMax
                                 /\ wire[k].index = IndexOf(b + k)
                                 /\ wire[k].frame = heard + k
    /\ rx.limit.num_left >= 1 + Len(wire)
    /\ link = "open" =>
         /\ frames = heard + Len(wire)
         /\ rx.limit.num_left = tx.limit.num_left + Len(wire)
         /\ Started(tx) => tx.rdbx.index = b + Len(wire)

ReceiverInv ==
    RightContext /\ unwrapper = "running" => \E b \in Int : b >= -1 /\ Chain(b)

SentBySender == \A k \in 1 .. Len(wire) : wire[k].ssrc = Sender /\ wire[k].key = Sender

MInv == /\ TypeOK
        /\ SenderInv
        /\ ReceiverInv
        /\ SentBySender
        /\ WrongContextIsSilent
        /\ NoPacketRefused

\* unwrapPacketNative leaves a stream with the same SSRC and key, and accepts only
\* packets that carry them.
LEMMA UnwrapType ==
    ASSUME TypeOK, Head(wire) \in Packet
    PROVE  LET r == unwrapPacketNative IN
             /\ r.stream \in StreamType(Material, Material)
             /\ r.stream.ssrc = rx.ssrc /\ r.stream.key = rx.key
             /\ r.status \in Statuses
             /\ r.status = "ok" => Head(wire).ssrc = rx.ssrc /\ Head(wire).key = rx.key
<1>1. Head(wire).seq \in Seqs
  BY DEF Packet
<1>2. rx \in StreamType(Material, Material)
  BY DEF TypeOK
<1> QED BY <1>1, <1>2, UnprotectType DEF unwrapPacketNative, Statuses

\* What wrapPayloadNative does in a state of the invariant: it refuses the
\* packet only when the key is used up, and otherwise gives it the next number.
LEMMA ProtectStep ==
    ASSUME TypeOK, SenderInv, wrapper = "running"
    PROVE  LET r == wrapPayloadNative
               s == getNextPacketHeader.seq
           IN  /\ s \in Seqs
               /\ r.stream \in StreamType(Material, Material)
               /\ r.stream.ssrc = Sender /\ Started(r.stream)
               /\ r.stream.limit.num_left = tx.limit.num_left - 1
               /\ r.status = IF tx.limit.num_left = 1 THEN "key_expired" ELSE "ok"
               /\ r.status # "ok" => r.stream.rdbx = tx.rdbx
               /\ r.status = "ok" =>
                    \E n \in Nat : /\ n = IF Started(tx) THEN tx.rdbx.index + 1 ELSE s
                                   /\ r.stream.rdbx.index = n
                                   /\ s = n % SeqMax
                                   /\ r.index = IndexOf(n)
<1> DEFINE s == getNextPacketHeader.seq
           est == rdbx_estimate_index(tx.rdbx, s)
           use == key_limit_update(tx.limit)
           counted == [SetDirection(tx, "sender") EXCEPT !.limit = use.limit]
           n == IF Started(tx) THEN tx.rdbx.index + 1 ELSE s
           added == [counted EXCEPT !.rdbx = rdbx_add_index(@, est.delta)]
<1>1. SeqMax \in Nat /\ SeqMax >= 4
  BY SeqMaxAssumption
<1>2. mSequence \in Nat /\ s = (mSequence + 1) % SeqMax /\ getNextPacketHeader.ssrc = Sender
  BY DEF TypeOK, Seqs, getNextPacketHeader
<1>3. s \in Seqs
  BY <1>1, <1>2, DivMod DEF Seqs
<1>4. tx \in StreamType(Material, Material)
  BY DEF TypeOK
<1>5. tx.rdbx \in RdbxType /\ tx.limit \in LimitType /\ tx.rdbx.index \in Nat
  BY <1>4, StreamFields DEF RdbxType
<1>6. /\ use.limit \in LimitType /\ use.limit.num_left = tx.limit.num_left - 1
      /\ use.event = "hard_limit" <=> tx.limit.num_left = 1
  BY <1>5, KeyUse DEF SenderInv
<1>7. /\ counted \in StreamType(Material, Material)
      /\ counted.ssrc = Sender /\ counted.direction # "unknown"
      /\ counted.rdbx = tx.rdbx /\ counted.limit = use.limit
  BY <1>4, <1>6, StreamFields DEF SetDirection, StreamType, SenderInv
<1>8. /\ n \in Nat /\ s = n % SeqMax /\ est.guess = IndexOf(n)
      /\ est.delta \in Nat /\ tx.rdbx.index + est.delta = n
      /\ rdbx_check(tx.rdbx, est.delta) = "ok"
  <2>1. CASE Started(tx)
    <3>1. mSequence = tx.rdbx.index % SeqMax
      BY <2>1 DEF SenderInv
    <3>2. s = (tx.rdbx.index + 1) % SeqMax
      BY <1>2, <1>5, <3>1, NextSeq
    <3>3. est = [guess |-> IndexOf(tx.rdbx.index + 1), delta |-> 1]
      BY <1>5, <3>2, EstimateNext
    <3>4. rdbx_check(tx.rdbx, 1) = "ok"
      BY DEF rdbx_check
    <3> QED BY <1>5, <2>1, <3>2, <3>3, <3>4
  <2>2. CASE ~ Started(tx)
    <3>1. tx.rdbx = rdbx_init /\ tx.rdbx.index = 0
      BY <2>2 DEF SenderInv, rdbx_init
    <3>2. est = [guess |-> IndexOf(s), delta |-> s] /\ rdbx_check(tx.rdbx, s) = "ok"
      BY <1>3, <3>1, EstimateFirst
    <3>3. s \in Nat /\ s < SeqMax
      BY <1>1, <1>3 DEF Seqs
    <3>4. s = s % SeqMax
      BY <1>1, <3>3, SmallMod
    <3> QED BY <2>2, <3>1, <3>2, <3>3, <3>4
  <2> QED BY <2>1, <2>2
<1>9. rdbx_add_index(tx.rdbx, est.delta) \in RdbxType
        /\ rdbx_add_index(tx.rdbx, est.delta).index = n
  <2>1. rdbx_add_index(tx.rdbx, est.delta) \in RdbxType
    BY <1>5, <1>8, AddType
  <2>2. rdbx_add_index(tx.rdbx, est.delta).index = tx.rdbx.index + est.delta
    <3> HIDE DEF est, n
    <3>1. tx.rdbx = [index |-> tx.rdbx.index, bitmask |-> tx.rdbx.bitmask]
      BY <1>5 DEF RdbxType
    <3> QED BY <1>5, <1>8, <3>1 DEF rdbx_add_index
  <2> QED BY <1>8, <2>1, <2>2
<1>10. /\ added \in StreamType(Material, Material)
       /\ added.ssrc = Sender /\ added.direction # "unknown"
       /\ added.limit = use.limit /\ added.rdbx.index = n
  <2> HIDE DEF counted, est, use, n
  <2> QED BY <1>7, <1>9 DEF StreamType
<1> HIDE DEF s, est, use, counted, added, n
<1>11. wrapPayloadNative = IF use.event = "hard_limit" THEN Failed("key_expired", counted)
                           ELSE Done(added, est.guess)
  BY <1>2, <1>8 DEF wrapPayloadNative, srtp_protect, SenderInv, s, est, use, counted, added
<1>12. n = IF Started(tx) THEN tx.rdbx.index + 1 ELSE s
  BY DEF n
<1>13. s = getNextPacketHeader.seq
  BY DEF s
<1> QED BY <1>3, <1>6, <1>7, <1>8, <1>10, <1>11, <1>12, <1>13 DEF Failed, Done, Started

\* What unwrapPacketNative does in a state of the invariant: the receiver
\* estimates the index the packet was encrypted under, and takes it.
LEMMA UnprotectStep ==
    ASSUME TypeOK, SentBySender, RightContext, wire # << >>,
           NEW b \in Int, b >= -1, Chain(b)
    PROVE  LET r == unwrapPacketNative
               p == Head(wire)
           IN  /\ r.status = "ok"
               /\ r.stream.rdbx.index = b + 1
               /\ Started(r.stream)
               /\ r.stream.limit.num_left = rx.limit.num_left - 1
               /\ rdbx_estimate_index(rx.rdbx, p.seq).guess = p.index
               /\ p.frame = heard + 1
<1> DEFINE p == Head(wire)
           est == rdbx_estimate_index(rx.rdbx, p.seq)
           use == key_limit_update(rx.limit)
           counted == [rx EXCEPT !.limit = use.limit]
           added == [SetDirection(counted, "receiver")
                        EXCEPT !.rdbx = rdbx_add_index(@, est.delta)]
<1>1. SeqMax \in Nat /\ SeqMax >= 4
  BY SeqMaxAssumption
<1>2. wire \in Seq(Packet) /\ Len(wire) \in Nat /\ Len(wire) >= 1 /\ p = wire[1]
  BY DEF TypeOK
<1>3. /\ p.seq = (b + 1) % SeqMax /\ p.index = IndexOf(b + 1) /\ p.frame = heard + 1
      /\ p.ssrc = Sender /\ p.key = Sender
  BY <1>2 DEF Chain, SentBySender
<1>4. rx \in StreamType(Material, Material) /\ rx.rdbx \in RdbxType
        /\ rx.limit \in LimitType /\ rx.rdbx.index \in Nat
  BY StreamFields DEF TypeOK, RdbxType
<1>5. rx.limit.num_left \in Nat /\ rx.limit.num_left >= 2
  BY <1>2, <1>4, KeyLimitAssumption DEF Chain, LimitType
<1>6. /\ use.limit \in LimitType /\ use.limit.num_left = rx.limit.num_left - 1
      /\ use.event # "hard_limit"
  BY <1>4, <1>5, KeyUse
<1>7. /\ est.guess = p.index /\ est.delta \in Nat /\ rx.rdbx.index + est.delta = b + 1
      /\ rdbx_check(rx.rdbx, est.delta) = "ok"
  <2>1. CASE Started(rx)
    <3>1. rx.rdbx.index = b /\ b \in Nat
      BY <1>4, <2>1 DEF Chain
    <3>2. est = [guess |-> IndexOf(b + 1), delta |-> 1]
      BY <1>3, <3>1, EstimateNext
    <3>3. rdbx_check(rx.rdbx, 1) = "ok"
      BY DEF rdbx_check
    <3> QED BY <1>3, <3>1, <3>2, <3>3
  <2>2. CASE ~ Started(rx)
    <3>1. rx.rdbx = rdbx_init /\ rx.rdbx.index = 0 /\ b \in -1 .. SeqMax - 2
      BY <2>2 DEF Chain, rdbx_init
    <3>2. b + 1 \in Seqs /\ b + 1 \in Nat /\ b + 1 < SeqMax
      BY <1>1, <3>1 DEF Seqs
    <3>3. p.seq = b + 1
      BY <1>1, <1>3, <3>2, SmallMod
    <3>4. est = [guess |-> IndexOf(b + 1), delta |-> b + 1]
            /\ rdbx_check(rx.rdbx, b + 1) = "ok"
      BY <3>1, <3>2, <3>3, EstimateFirst
    <3> QED BY <1>3, <3>1, <3>2, <3>4
  <2> QED BY <2>1, <2>2
<1>8. rdbx_add_index(rx.rdbx, est.delta).index = b + 1
  <2> HIDE DEF est
  <2>1. rx.rdbx = [index |-> rx.rdbx.index, bitmask |-> rx.rdbx.bitmask]
    BY <1>4 DEF RdbxType
  <2> QED BY <1>4, <1>7, <2>1 DEF rdbx_add_index
<1>9. rdbx_add_index(rx.rdbx, est.delta) \in RdbxType
  BY <1>4, <1>7, AddType
<1>10. /\ counted \in StreamType(Material, Material)
       /\ counted.rdbx = rx.rdbx /\ counted.limit = use.limit
  BY <1>4, <1>6, StreamFields DEF StreamType
<1>11. /\ added.rdbx.index = b + 1 /\ added.direction # "unknown"
       /\ added.limit = use.limit
  <2> HIDE DEF counted, est, use
  <2> QED BY <1>8, <1>9, <1>10, StreamFields DEF SetDirection, StreamType
<1> HIDE DEF est, use, counted, added, p
<1>12. TagMatches(rx, p, est.guess)
  BY <1>3, <1>7 DEF TagMatches, RightContext
<1>13. unwrapPacketNative = Done(added, est.guess)
  BY <1>3, <1>6, <1>7, <1>12
     DEF unwrapPacketNative, srtp_unprotect, RightContext, p, est, use, counted, added
<1>14. rdbx_estimate_index(rx.rdbx, p.seq).guess = p.index
  BY <1>7 DEF est
<1> QED BY <1>3, <1>6, <1>11, <1>13, <1>14 DEF Done, Started, p

-----------------------------------------------------------------------------
(* Initial states and steps                                                *)

\* The initial states satisfy the invariant.
LEMMA MediaInit == Init => MInv
<1> SUFFICES ASSUME Init PROVE MInv
  OBVIOUS
<1>1. PICK ssrc \in Material, key \in Material : rx = srtp_stream_init(ssrc, key)
  BY DEF Init
<1>2. tx \in StreamType(Material, Material) /\ rx \in StreamType(Material, Material)
  BY <1>1, InitType DEF Init, Material
<1>3. TypeOK
  BY <1>2 DEF TypeOK, Init, ThreadStates, Statuses
<1>4. /\ ~ Started(tx) /\ ~ Started(rx)
      /\ tx.rdbx = rdbx_init /\ rx.rdbx = rdbx_init
      /\ tx.limit = key_limit_set /\ rx.limit = key_limit_set /\ tx.ssrc = Sender
      /\ Len(wire) = 0 /\ key_limit_set.num_left = KeyLimit
  BY <1>1 DEF Init, srtp_stream_init, Started, key_limit_set
<1>5. SenderInv
  BY <1>4, KeyLimitAssumption DEF SenderInv, Init
<1>6. Chain(-1)
  BY <1>4, KeyLimitAssumption, SeqMaxAssumption DEF Chain, Init
<1>7. ReceiverInv
  BY <1>6 DEF ReceiverInv
<1>8. SentBySender /\ WrongContextIsSilent /\ NoPacketRefused
  BY <1>4 DEF SentBySender, WrongContextIsSilent, NoPacketRefused, Init
<1> QED BY <1>3, <1>5, <1>7, <1>8 DEF MInv

\* Indices are naturals.
LEMMA IndexOfType ==
    ASSUME NEW i \in Nat PROVE IndexOf(i) \in Nat
<1>1. SeqMax \in Nat /\ SeqMax > 0 /\ RocMax \in Nat /\ RocMax > 0
  BY SeqMaxAssumption, RocMaxAssumption
<1>2. i \div SeqMax \in Nat /\ i % SeqMax \in Nat
  BY <1>1, DivMod
<1>3. (i \div SeqMax) % RocMax \in Nat
  BY <1>1, <1>2, DivMod
<1> QED BY <1>1, <1>2, <1>3 DEF IndexOf, Index

\* The indices in use after a packet with number n was encrypted.
LEMMA UsedStep ==
    ASSUME TypeOK, SenderInv, NEW n \in Nat,
           n = IF Started(tx) THEN tx.rdbx.index + 1 ELSE n
    PROVE  \A x \in used \cup {IndexOf(n)} : \E i \in Nat :
               /\ i <= n
               /\ n - i < KeyLimit - (tx.limit.num_left - 1)
               /\ x = IndexOf(i)
<1>1. tx.rdbx.index \in Nat /\ tx.limit.num_left \in Nat /\ KeyLimit \in Nat
        /\ tx.limit.num_left <= KeyLimit
  BY StreamFields, KeyLimitAssumption DEF TypeOK, RdbxType, LimitType, SenderInv
<1>2. ASSUME NEW x \in used
      PROVE  \E i \in Nat : /\ i <= n
                            /\ n - i < KeyLimit - (tx.limit.num_left - 1)
                            /\ x = IndexOf(i)
  <2>1. Started(tx) /\ n = tx.rdbx.index + 1
    BY DEF SenderInv
  <2>2. PICK i \in Nat : /\ i <= tx.rdbx.index
                         /\ tx.rdbx.index - i < KeyLimit - tx.limit.num_left
                         /\ x = IndexOf(i)
    BY <2>1 DEF SenderInv
  <2>3. i <= n /\ n - i < KeyLimit - (tx.limit.num_left - 1)
    BY <1>1, <2>1, <2>2
  <2> QED BY <2>2, <2>3
<1>3. n <= n /\ n - n < KeyLimit - (tx.limit.num_left - 1)
  BY <1>1
<1> QED BY <1>2, <1>3

\* A frame wrapped and written.
LEMMA WrapStep == MInv /\ wrapAndWrite => MInv'
<1> SUFFICES ASSUME MInv, wrapAndWrite PROVE MInv'
  OBVIOUS
<1> USE DEF MInv
<1> DEFINE r == wrapPayloadNative
           s == getNextPacketHeader.seq
           pk == [ssrc |-> Sender, key |-> Sender, seq |-> s, index |-> r.index,
                  frame |-> frames + 1]
<1>1. /\ s \in Seqs
      /\ r.stream \in StreamType(Material, Material)
      /\ r.stream.ssrc = Sender /\ Started(r.stream)
      /\ r.stream.limit.num_left = tx.limit.num_left - 1
      /\ r.status = IF tx.limit.num_left = 1 THEN "key_expired" ELSE "ok"
  BY ProtectStep DEF wrapAndWrite
<1>2. PICK n \in Nat : /\ n = IF Started(tx) THEN tx.rdbx.index + 1 ELSE s
                       /\ r.stream.rdbx.index = n
                       /\ s = n % SeqMax
                       /\ r.index = IndexOf(n)
  BY ProtectStep DEF wrapAndWrite
<1>3. /\ mSequence' = s /\ tx' = r.stream /\ wire' = Append(wire, pk)
      /\ used' = used \cup {IndexOf(n)} /\ frames' = frames + 1
      /\ r.status = "ok" /\ wrapper = "running" /\ link = "open"
      /\ UNCHANGED <<rx, link, wrapper, unwrapper, heard>>
  BY <1>2 DEF wrapAndWrite, Wrapped
<1> HIDE DEF r, s
<1>4. tx.limit.num_left \in Nat /\ tx.limit.num_left >= 2 /\ tx.limit.num_left <= KeyLimit
        /\ KeyLimit \in Nat
  BY <1>1, <1>3, StreamFields, KeyLimitAssumption DEF TypeOK, LimitType, SenderInv
<1>5. wire \in Seq(Packet) /\ Len(wire) \in Nat
  BY DEF TypeOK
<1>6. pk \in Packet
  <2>1. frames \in Nat
    BY DEF TypeOK
  <2>2. r.index \in Nat
    BY <1>2, IndexOfType
  <2>3. Sender \in Material
    BY DEF Material
  <2> QED BY <1>1, <2>1, <2>2, <2>3 DEF Packet
<1>7. /\ wire' \in Seq(Packet) /\ Len(wire') = Len(wire) + 1
      /\ \A k \in 1 .. Len(wire) : wire'[k] = wire[k]
      /\ wire'[Len(wire) + 1] = pk
  BY <1>3, <1>5, <1>6
<1>8. TypeOK'
  <2>1. IndexOf(n) \in Nat
    BY <1>2, IndexOfType
  <2>2. frames \in Nat /\ used \subseteq Nat
    BY DEF TypeOK
  <2>3. frames' \in Nat
    BY <1>3, <2>2
  <2>4. used' \subseteq Nat
    BY <1>3, <2>1, <2>2
  <2> QED BY <1>1, <1>3, <1>7, <2>3, <2>4 DEF TypeOK
<1>9. SenderInv'
  <2>1. \A x \in used' : \E i \in Nat : /\ i <= n
                                         /\ n - i < KeyLimit - (tx.limit.num_left - 1)
                                         /\ x = IndexOf(i)
    <3>1. n = IF Started(tx) THEN tx.rdbx.index + 1 ELSE n
      BY <1>2
    <3> QED BY <1>3, <3>1, UsedStep
  <2>2. tx'.rdbx.index = n /\ tx'.limit.num_left = tx.limit.num_left - 1
          /\ Started(tx') /\ tx'.ssrc = Sender /\ mSequence' = n % SeqMax
    BY <1>1, <1>2, <1>3
  <2> QED BY <1>4, <2>1, <2>2 DEF SenderInv
<1>10. ReceiverInv'
  <2> SUFFICES ASSUME RightContext, unwrapper = "running"
               PROVE  \E b \in Int : b >= -1 /\ Chain(b)'
    BY <1>3 DEF ReceiverInv, RightContext
  <2>1. PICK c \in Int : c >= -1 /\ Chain(c)
    BY DEF ReceiverInv
  <2>2. PICK b \in Int :
            /\ b >= -1 /\ n = b + Len(wire) + 1
            /\ ~ Started(rx) => rx.rdbx = rdbx_init /\ b \in -1 .. SeqMax - 2
            /\ Started(rx) => rx.rdbx.index = b
            /\ \A k \in 1 .. Len(wire) : /\ wire[k].seq = (b + k) % SeqMax
                                         /\ wire[k].index = IndexOf(b + k)
                                         /\ wire[k].frame = heard + k
    <3>1. CASE Started(tx)
      <4>1. tx.rdbx.index = c + Len(wire)
        BY <1>3, <2>1, <3>1 DEF Chain
      <4> WITNESS c \in Int
      <4> QED BY <1>2, <1>5, <2>1, <3>1, <4>1 DEF Chain
    <3>2. CASE ~ Started(tx)
      <4>1. wire = << >> /\ Len(wire) = 0 /\ ~ Started(rx)
        BY <3>2 DEF SenderInv
      <4>2. s \in Nat /\ s - 1 \in Int /\ s - 1 \in -1 .. SeqMax - 2
        BY <1>1, SeqMaxAssumption DEF Seqs
      <4>3. n = s - 1 + Len(wire) + 1
        BY <1>2, <3>2, <4>1, <4>2
      <4>4. rx.rdbx = rdbx_init
        BY <2>1, <4>1 DEF Chain
      <4> QED BY <4>1, <4>2, <4>3, <4>4
    <3> QED BY <3>1, <3>2
  <2>3. frames = heard + Len(wire) /\ rx.limit.num_left = tx.limit.num_left + Len(wire)
    BY <1>3, <2>1 DEF Chain
  <2>4. frames \in Nat /\ heard \in Nat
    BY DEF TypeOK
  <2>5. ASSUME NEW k \in 1 .. Len(wire')
        PROVE  /\ wire'[k].seq = (b + k) % SeqMax
               /\ wire'[k].index = IndexOf(b + k)
               /\ wire'[k].frame = heard + k
    <3>1. CASE k \in 1 .. Len(wire)
      BY <1>7, <2>2, <3>1
    <3>2. CASE k = Len(wire) + 1
      <4>1. frames + 1 = heard + k /\ n = b + k
        BY <1>5, <2>2, <2>3, <2>4, <3>2
      <4>2. wire'[k] = pk
        BY <1>7, <3>2
      <4>3. pk.seq = n % SeqMax /\ pk.index = IndexOf(n) /\ pk.frame = heard + k
        BY <1>2, <4>1
      <4> QED BY <4>1, <4>2, <4>3
    <3> QED BY <1>5, <1>7, <3>1, <3>2
  <2>6. ~ Started(rx') => rx'.rdbx = rdbx_init /\ b \in -1 .. SeqMax - 2
    BY <1>3, <2>2
  <2>7. Started(rx') => rx'.rdbx.index = b
    BY <1>3, <2>2
  <2>8. rx'.limit.num_left >= 1 + Len(wire')
    BY <1>3, <1>4, <1>5, <1>7, <2>3
  <2>9. frames' = heard' + Len(wire')
    BY <1>3, <1>5, <1>7, <2>3, <2>4
  <2>10. rx'.limit.num_left = tx'.limit.num_left + Len(wire')
    <3>1. tx'.limit.num_left = tx.limit.num_left - 1 /\ rx' = rx
      BY <1>1, <1>3
    <3>2. tx.limit.num_left + Len(wire) = (tx.limit.num_left - 1) + (Len(wire) + 1)
      BY <1>4, <1>5
    <3> QED BY <1>7, <2>3, <3>1, <3>2
  <2>11. tx'.rdbx.index = b + Len(wire')
    BY <1>2, <1>3, <1>5, <1>7, <2>2
  <2>12. Chain(b)'
    BY <1>3, <2>5, <2>6, <2>7, <2>8, <2>9, <2>10, <2>11 DEF Chain
  <2> QED BY <2>2, <2>12
<1>11. SentBySender'
  <2>1. ASSUME NEW k \in 1 .. Len(wire') PROVE wire'[k].ssrc = Sender /\ wire'[k].key = Sender
    <3>1. CASE k \in 1 .. Len(wire)
      BY <1>7, <3>1 DEF SentBySender
    <3>2. CASE k = Len(wire) + 1
      BY <1>7, <3>2
    <3> QED BY <1>5, <1>7, <3>1, <3>2
  <2> QED BY <2>1 DEF SentBySender
<1>12. WrongContextIsSilent' /\ NoPacketRefused'
  BY <1>3 DEF WrongContextIsSilent, NoPacketRefused, RightContext
<1> QED BY <1>8, <1>9, <1>10, <1>11, <1>12

\* When the connection is not open any more, the invariant on the receiver's
\* side only depends on the receiver and the packets on their way.
LEMMA ReceiverFrame ==
    ASSUME ReceiverInv, UNCHANGED <<rx, wire, heard, unwrapper>>, link' # "open"
    PROVE  ReceiverInv'
<1> SUFFICES ASSUME RightContext, unwrapper = "running"
             PROVE  \E b \in Int : b >= -1 /\ Chain(b)'
  BY DEF ReceiverInv, RightContext
<1>1. PICK b \in Int : b >= -1 /\ Chain(b)
  BY DEF ReceiverInv
<1>2. Chain(b)'
  BY <1>1 DEF Chain, Started
<1> QED BY <1>1, <1>2

\* The same when the packets on their way are cut after one of them.
LEMMA TruncateFrame ==
    ASSUME TypeOK, ReceiverInv, SentBySender, Truncate,
           UNCHANGED <<rx, heard, unwrapper>>, link' # "open"
    PROVE  /\ ReceiverInv' /\ SentBySender'
           /\ wire' \in Seq(Packet)
           /\ wire = << >> => wire' = << >>
<1>1. PICK n \in 0 .. Len(wire) : wire' = SubSeq(wire, 1, n)
  BY DEF Truncate
<1>2. wire \in Seq(Packet) /\ Len(wire) \in Nat
  BY DEF TypeOK
<1>3. /\ wire' \in Seq(Packet) /\ Len(wire') = n
      /\ \A k \in 1 .. Len(wire') : wire'[k] = wire[k]
      /\ wire = << >> => wire' = << >>
  BY <1>1, <1>2
<1>4. ReceiverInv'
  <2> SUFFICES ASSUME RightContext, unwrapper = "running"
               PROVE  \E b \in Int : b >= -1 /\ Chain(b)'
    BY DEF ReceiverInv, RightContext
  <2>1. PICK b \in Int : b >= -1 /\ Chain(b)
    BY DEF ReceiverInv
  <2>2. rx.limit.num_left \in Nat
    BY StreamFields DEF TypeOK, LimitType
  <2>3. rx'.limit.num_left >= 1 + Len(wire')
    BY <1>1, <1>2, <1>3, <2>1, <2>2 DEF Chain
  <2>4. ASSUME NEW k \in 1 .. Len(wire')
        PROVE  /\ wire'[k].seq = (b + k) % SeqMax
               /\ wire'[k].index = IndexOf(b + k)
               /\ wire'[k].frame = heard' + k
    <3>1. k \in 1 .. Len(wire) /\ wire'[k] = wire[k]
      BY <1>1, <1>2, <1>3
    <3> QED BY <2>1, <3>1 DEF Chain
  <2>5. Chain(b)'
    BY <2>1, <2>3, <2>4 DEF Chain, Started
  <2> QED BY <2>1, <2>5
<1>5. SentBySender'
  <2>1. ASSUME NEW k \in 1 .. Len(wire') PROVE wire'[k].ssrc = Sender /\ wire'[k].key = Sender
    <3>1. k \in 1 .. Len(wire) /\ wire'[k] = wire[k]
      BY <1>1, <1>2, <1>3
    <3> QED BY <3>1 DEF SentBySender
  <2> QED BY <2>1 DEF SentBySender
<1> QED BY <1>3, <1>4, <1>5

\* The key is used up.
LEMMA WrapFailsStep == MInv /\ wrapFails => MInv'
<1> SUFFICES ASSUME MInv, wrapFails PROVE MInv'
  OBVIOUS
<1> USE DEF MInv
<1> DEFINE r == wrapPayloadNative
           s == getNextPacketHeader.seq
<1>1. /\ s \in Seqs
      /\ r.stream \in StreamType(Material, Material)
      /\ r.stream.ssrc = Sender /\ Started(r.stream)
      /\ r.stream.limit.num_left = tx.limit.num_left - 1
      /\ r.status = "key_expired" /\ r.stream.rdbx = tx.rdbx
  BY ProtectStep DEF wrapFails
<1>2. /\ mSequence' = s /\ tx' = r.stream /\ wrapper' = "key_expired"
      /\ wrapper = "running" /\ link' \in {"closed", "lost"}
      /\ Truncate
      /\ UNCHANGED <<rx, unwrapper, used, frames, heard>>
  BY <1>1 DEF wrapFails, Wrapped, Close, TypeOK
<1> HIDE DEF r, s
<1>3. ReceiverInv' /\ SentBySender' /\ wire' \in Seq(Packet)
  BY <1>2, TruncateFrame
<1>4. TypeOK'
  BY <1>1, <1>2, <1>3 DEF TypeOK, ThreadStates, Statuses
<1>5. SenderInv'
  <2>1. tx.limit.num_left \in Nat /\ tx.limit.num_left <= KeyLimit /\ KeyLimit \in Nat
    BY StreamFields, KeyLimitAssumption DEF TypeOK, LimitType, SenderInv
  <2>2. tx'.rdbx = tx.rdbx /\ tx'.limit.num_left = tx.limit.num_left - 1
          /\ Started(tx') /\ tx'.ssrc = Sender
    BY <1>1, <1>2
  <2>3. ASSUME NEW x \in used
        PROVE  \E i \in Nat : /\ i <= tx.rdbx.index
                              /\ tx.rdbx.index - i < KeyLimit - (tx.limit.num_left - 1)
                              /\ x = IndexOf(i)
    <3>1. PICK i \in Nat : /\ i <= tx.rdbx.index
                           /\ tx.rdbx.index - i < KeyLimit - tx.limit.num_left
                           /\ x = IndexOf(i)
      BY DEF SenderInv
    <3>2. tx.rdbx.index \in Nat
      BY StreamFields DEF TypeOK, RdbxType
    <3>3. tx.rdbx.index - i < KeyLimit - (tx.limit.num_left - 1)
      BY <2>1, <3>1, <3>2
    <3> QED BY <3>1, <3>3
  <2> QED BY <1>2, <2>1, <2>2, <2>3 DEF SenderInv
<1>6. WrongContextIsSilent' /\ NoPacketRefused'
  BY <1>2 DEF WrongContextIsSilent, NoPacketRefused, RightContext
<1> QED BY <1>3, <1>4, <1>5, <1>6

\* A frame encrypted and not written.
LEMMA WriteFailsStep == MInv /\ writeFails => MInv'
<1> SUFFICES ASSUME MInv, writeFails PROVE MInv'
  OBVIOUS
<1> USE DEF MInv
<1> DEFINE r == wrapPayloadNative
           s == getNextPacketHeader.seq
<1>1. /\ s \in Seqs
      /\ r.stream \in StreamType(Material, Material)
      /\ r.stream.ssrc = Sender /\ Started(r.stream)
      /\ r.stream.limit.num_left = tx.limit.num_left - 1
  BY ProtectStep DEF writeFails
<1>2. PICK n \in Nat : /\ n = IF Started(tx) THEN tx.rdbx.index + 1 ELSE s
                       /\ r.stream.rdbx.index = n
                       /\ r.index = IndexOf(n)
  BY ProtectStep DEF writeFails
<1>3. /\ mSequence' = s /\ tx' = r.stream /\ wrapper' = "io_error"
      /\ used' = used \cup {IndexOf(n)} /\ link' # "open"
      /\ UNCHANGED <<rx, wire, link, unwrapper, frames, heard>>
  BY <1>2 DEF writeFails, Wrapped
<1> HIDE DEF r, s
<1>4. TypeOK'
  <2>1. IndexOf(n) \in Nat /\ used \subseteq Nat
    BY IndexOfType DEF TypeOK
  <2>2. used' \subseteq Nat
    BY <1>3, <2>1
  <2> QED BY <1>1, <1>3, <2>2 DEF TypeOK, ThreadStates
<1>5. SenderInv'
  <2>1. \A x \in used' : \E i \in Nat : /\ i <= n
                                         /\ n - i < KeyLimit - (tx.limit.num_left - 1)
                                         /\ x = IndexOf(i)
    <3>1. n = IF Started(tx) THEN tx.rdbx.index + 1 ELSE n
      BY <1>2
    <3> QED BY <1>3, <3>1, UsedStep
  <2>2. tx'.rdbx.index = n /\ tx'.limit.num_left = tx.limit.num_left - 1
          /\ Started(tx') /\ tx'.ssrc = Sender
    BY <1>1, <1>2, <1>3
  <2>3. tx.limit.num_left \in Nat /\ tx.limit.num_left <= KeyLimit /\ KeyLimit \in Nat
    BY StreamFields, KeyLimitAssumption DEF TypeOK, LimitType, SenderInv
  <2> QED BY <1>3, <2>1, <2>2, <2>3 DEF SenderInv
<1>6. ReceiverInv'
  BY <1>3, ReceiverFrame
<1>7. SentBySender' /\ WrongContextIsSilent' /\ NoPacketRefused'
  BY <1>3 DEF SentBySender, WrongContextIsSilent, NoPacketRefused, RightContext
<1> QED BY <1>4, <1>5, <1>6, <1>7

\* A frame written into a pipe that leads nowhere.
LEMMA WriteLostStep == MInv /\ writeLost => MInv'
<1> SUFFICES ASSUME MInv, writeLost PROVE MInv'
  OBVIOUS
<1> USE DEF MInv
<1> DEFINE r == wrapPayloadNative
           s == getNextPacketHeader.seq
<1>1. /\ s \in Seqs
      /\ r.stream \in StreamType(Material, Material)
      /\ r.stream.ssrc = Sender /\ Started(r.stream)
      /\ r.stream.limit.num_left = tx.limit.num_left - 1
      /\ r.status = IF tx.limit.num_left = 1 THEN "key_expired" ELSE "ok"
  BY ProtectStep DEF writeLost
<1>2. PICK n \in Nat : /\ n = IF Started(tx) THEN tx.rdbx.index + 1 ELSE s
                       /\ r.stream.rdbx.index = n
                       /\ s = n % SeqMax
                       /\ r.index = IndexOf(n)
  BY ProtectStep DEF writeLost
<1>3. /\ mSequence' = s /\ tx' = r.stream /\ wrapper = "running"
      /\ frames' = frames + 1 /\ r.status = "ok"
      /\ used' = used \cup {IndexOf(n)} /\ link' # "open"
      /\ UNCHANGED <<rx, wire, link, wrapper, unwrapper, heard>>
  BY <1>2 DEF writeLost, Wrapped
<1> HIDE DEF r, s
<1>4. TypeOK'
  <2>1. IndexOf(n) \in Nat /\ used \subseteq Nat
    BY IndexOfType DEF TypeOK
  <2>2. used' \subseteq Nat
    BY <1>3, <2>1
  <2>3. frames' \in Nat
    BY <1>3 DEF TypeOK
  <2> QED BY <1>1, <1>3, <2>2, <2>3 DEF TypeOK
<1>5. SenderInv'
  <2>1. \A x \in used' : \E i \in Nat : /\ i <= n
                                         /\ n - i < KeyLimit - (tx.limit.num_left - 1)
                                         /\ x = IndexOf(i)
    <3>1. n = IF Started(tx) THEN tx.rdbx.index + 1 ELSE n
      BY <1>2
    <3> QED BY <1>3, <3>1, UsedStep
  <2>2. tx'.rdbx.index = n /\ tx'.limit.num_left = tx.limit.num_left - 1
          /\ Started(tx') /\ tx'.ssrc = Sender /\ mSequence' = n % SeqMax
    BY <1>1, <1>2, <1>3
  <2>3. tx.limit.num_left \in Nat /\ tx.limit.num_left <= KeyLimit /\ KeyLimit \in Nat
          /\ tx.limit.num_left # 1 /\ tx.limit.num_left >= 1
    BY <1>1, <1>3, StreamFields, KeyLimitAssumption DEF TypeOK, LimitType, SenderInv
  <2> QED BY <1>3, <2>1, <2>2, <2>3 DEF SenderInv
<1>6. ReceiverInv'
  BY <1>3, ReceiverFrame
<1>7. SentBySender' /\ WrongContextIsSilent' /\ NoPacketRefused'
  BY <1>3 DEF SentBySender, WrongContextIsSilent, NoPacketRefused, RightContext
<1> QED BY <1>4, <1>5, <1>6, <1>7

\* The audio pipe ends.
LEMMA AudioEndsStep == MInv /\ audioEnds => MInv'
<1> SUFFICES ASSUME MInv, audioEnds PROVE MInv'
  OBVIOUS
<1> USE DEF MInv
<1>1. /\ wrapper' = "io_error" /\ link' \in {"closed", "lost"} /\ Truncate
      /\ UNCHANGED <<mSequence, tx, rx, unwrapper, used, frames, heard>>
  BY DEF audioEnds, Close, TypeOK
<1>2. /\ ReceiverInv' /\ SentBySender' /\ wire' \in Seq(Packet)
      /\ wire = << >> => wire' = << >>
  BY <1>1, TruncateFrame
<1>3. TypeOK'
  BY <1>1, <1>2 DEF TypeOK, ThreadStates
<1>4. SenderInv'
  BY <1>1, <1>2 DEF SenderInv, Started
<1>5. WrongContextIsSilent' /\ NoPacketRefused'
  BY <1>1 DEF WrongContextIsSilent, NoPacketRefused, RightContext
<1> QED BY <1>2, <1>3, <1>4, <1>5

\* The packet at the head of the wire and what is left after it.
LEMMA TakeHead ==
    ASSUME TypeOK, wire # << >>
    PROVE  /\ Head(wire) \in Packet /\ Tail(wire) \in Seq(Packet)
           /\ Len(wire) \in Nat /\ Len(Tail(wire)) = Len(wire) - 1
           /\ Head(wire) = wire[1]
           /\ \A k \in 1 .. Len(Tail(wire)) : Tail(wire)[k] = wire[k + 1]
BY DEF TypeOK

\* A packet taken by the receiver.
LEMMA UnwrapStep == MInv /\ unwrapAndWrite => MInv'
<1> SUFFICES ASSUME MInv, unwrapAndWrite PROVE MInv'
  OBVIOUS
<1> USE DEF MInv
<1> DEFINE r == unwrapPacketNative
<1>1. /\ wire # << >> /\ r.status = "ok" /\ unwrapper = "running"
      /\ rx' = r.stream /\ wire' = Tail(wire) /\ heard' = heard + 1
      /\ UNCHANGED <<mSequence, tx, link, wrapper, unwrapper, used, frames>>
  BY DEF unwrapAndWrite
<1>2. /\ Head(wire) \in Packet /\ Tail(wire) \in Seq(Packet)
      /\ Len(wire) \in Nat /\ Len(Tail(wire)) = Len(wire) - 1
      /\ Head(wire) = wire[1]
      /\ \A k \in 1 .. Len(Tail(wire)) : Tail(wire)[k] = wire[k + 1]
  BY <1>1, TakeHead
<1>3. Len(wire) >= 1
  BY <1>1, <1>2 DEF TypeOK
<1>4. /\ r.stream \in StreamType(Material, Material)
      /\ r.stream.ssrc = rx.ssrc /\ r.stream.key = rx.key
      /\ Head(wire).ssrc = rx.ssrc /\ Head(wire).key = rx.key
  BY <1>1, <1>2, UnwrapType DEF MInv
<1>5. RightContext /\ RightContext'
  BY <1>1, <1>2, <1>3, <1>4 DEF SentBySender, RightContext
<1>6. heard \in Nat /\ frames \in Nat
  BY DEF TypeOK
<1>7. TypeOK'
  BY <1>1, <1>2, <1>4, <1>6 DEF TypeOK
<1>8. PICK b \in Int : b >= -1 /\ Chain(b)
  BY <1>1, <1>5 DEF ReceiverInv
<1>9. /\ r.stream.rdbx.index = b + 1 /\ Started(r.stream)
      /\ r.stream.limit.num_left = rx.limit.num_left - 1
  BY <1>1, <1>5, <1>8, UnprotectStep
<1> HIDE DEF r
<1>10. SenderInv'
  <2>1. Started(tx)
    BY <1>1 DEF SenderInv
  <2> QED BY <1>1, <2>1 DEF SenderInv, Started
<1>11. ReceiverInv'
  <2>1. rx.limit.num_left \in Nat /\ tx.limit.num_left \in Nat /\ tx.rdbx.index \in Nat
    BY StreamFields DEF TypeOK, LimitType, RdbxType
  <2>2. ASSUME NEW k \in 1 .. Len(wire')
        PROVE  /\ wire'[k].seq = (b + 1 + k) % SeqMax
               /\ wire'[k].index = IndexOf(b + 1 + k)
               /\ wire'[k].frame = heard' + k
    <3>1. k + 1 \in 1 .. Len(wire) /\ wire'[k] = wire[k + 1]
      BY <1>1, <1>2
    <3>2. /\ wire[k + 1].seq = (b + (k + 1)) % SeqMax
          /\ wire[k + 1].index = IndexOf(b + (k + 1))
          /\ wire[k + 1].frame = heard + (k + 1)
      BY <1>8, <3>1 DEF Chain
    <3>3. b + (k + 1) = b + 1 + k /\ heard + (k + 1) = heard' + k
      BY <1>1, <1>6
    <3> QED BY <3>1, <3>2, <3>3
  <2>3. Started(rx') /\ rx'.rdbx.index = b + 1
    BY <1>1, <1>9
  <2>4. rx'.limit.num_left >= 1 + Len(wire')
    BY <1>1, <1>2, <1>8, <1>9, <2>1 DEF Chain
  <2>5. ASSUME link' = "open"
        PROVE  /\ frames' = heard' + Len(wire')
               /\ rx'.limit.num_left = tx'.limit.num_left + Len(wire')
               /\ tx'.rdbx.index = b + 1 + Len(wire')
    <3>1. Started(tx)
      BY <1>1 DEF SenderInv
    <3>2. /\ frames = heard + Len(wire)
          /\ rx.limit.num_left = tx.limit.num_left + Len(wire)
          /\ tx.rdbx.index = b + Len(wire)
      BY <1>1, <1>8, <2>5, <3>1 DEF Chain
    <3>3. rx'.limit.num_left = rx.limit.num_left - 1
      BY <1>1, <1>9
    <3> QED BY <1>1, <1>2, <1>6, <2>1, <3>2, <3>3
  <2>6. Chain(b + 1)'
    BY <2>2, <2>3, <2>4, <2>5 DEF Chain
  <2>7. b + 1 \in Int /\ b + 1 >= -1
    BY <1>8
  <2> QED BY <2>6, <2>7 DEF ReceiverInv
<1>12. SentBySender'
  BY <1>1, <1>2 DEF SentBySender
<1>13. WrongContextIsSilent' /\ NoPacketRefused'
  BY <1>1, <1>5 DEF WrongContextIsSilent, NoPacketRefused
<1> QED BY <1>7, <1>10, <1>11, <1>12, <1>13

\* A packet refused: only a wrong context does that.
LEMMA UnwrapFailsStep == MInv /\ unwrapFails => MInv'
<1> SUFFICES ASSUME MInv, unwrapFails PROVE MInv'
  OBVIOUS
<1> USE DEF MInv
<1> DEFINE r == unwrapPacketNative
<1>1. /\ wire # << >> /\ r.status # "ok" /\ unwrapper = "running"
      /\ rx' = r.stream /\ wire' = Tail(wire) /\ unwrapper' = r.status
      /\ UNCHANGED <<mSequence, tx, link, wrapper, used, frames, heard>>
  BY DEF unwrapFails
<1>2. /\ Head(wire) \in Packet /\ Tail(wire) \in Seq(Packet)
      /\ Len(wire) \in Nat /\ Len(Tail(wire)) = Len(wire) - 1
      /\ \A k \in 1 .. Len(Tail(wire)) : Tail(wire)[k] = wire[k + 1]
  BY <1>1, TakeHead
<1>3. /\ r.stream \in StreamType(Material, Material)
      /\ r.stream.ssrc = rx.ssrc /\ r.stream.key = rx.key
      /\ r.status \in Statuses
  BY <1>1, <1>2, UnwrapType DEF MInv
<1>4. ~ RightContext
  <2> SUFFICES ASSUME RightContext PROVE FALSE
    OBVIOUS
  <2>1. PICK b \in Int : b >= -1 /\ Chain(b)
    BY <1>1 DEF ReceiverInv
  <2> QED BY <1>1, <2>1, UnprotectStep
<1> HIDE DEF r
<1>5. ~ RightContext'
  BY <1>1, <1>3, <1>4 DEF RightContext
<1>6. r.status \in ThreadStates
  BY <1>1, <1>3 DEF ThreadStates
<1>7. TypeOK'
  BY <1>1, <1>2, <1>3, <1>6 DEF TypeOK
<1>8. SenderInv'
  <2>1. Started(tx)
    BY <1>1 DEF SenderInv
  <2> QED BY <1>1, <2>1 DEF SenderInv, Started
<1>9. ReceiverInv'
  BY <1>5 DEF ReceiverInv
<1>10. SentBySender'
  BY <1>1, <1>2 DEF SentBySender
<1>11. WrongContextIsSilent' /\ NoPacketRefused'
  BY <1>1, <1>4, <1>5 DEF WrongContextIsSilent, NoPacketRefused
<1> QED BY <1>7, <1>8, <1>9, <1>10, <1>11

\* A frame decrypted and not passed on.
LEMMA WritePayloadFailsStep == MInv /\ writePayloadFails => MInv'
<1> SUFFICES ASSUME MInv, writePayloadFails PROVE MInv'
  OBVIOUS
<1> USE DEF MInv
<1> DEFINE r == unwrapPacketNative
<1>1. /\ wire # << >> /\ unwrapper = "running"
      /\ rx' = r.stream /\ wire' = Tail(wire) /\ unwrapper' = "no_playback"
      /\ UNCHANGED <<mSequence, tx, link, wrapper, used, frames, heard>>
  BY DEF writePayloadFails
<1>2. /\ Head(wire) \in Packet /\ Tail(wire) \in Seq(Packet)
      /\ Len(wire) \in Nat /\ Len(Tail(wire)) = Len(wire) - 1
      /\ \A k \in 1 .. Len(Tail(wire)) : Tail(wire)[k] = wire[k + 1]
  BY <1>1, TakeHead
<1>3. /\ r.stream \in StreamType(Material, Material)
      /\ r.stream.ssrc = rx.ssrc /\ r.stream.key = rx.key
  BY <1>1, <1>2, UnwrapType DEF MInv
<1> HIDE DEF r
<1>4. RightContext' <=> RightContext
  BY <1>1, <1>3 DEF RightContext
<1>5. TypeOK'
  BY <1>1, <1>2, <1>3 DEF TypeOK, ThreadStates
<1>6. SenderInv'
  <2>1. Started(tx)
    BY <1>1 DEF SenderInv
  <2> QED BY <1>1, <2>1 DEF SenderInv, Started
<1>7. ReceiverInv'
  BY <1>1 DEF ReceiverInv
<1>8. SentBySender'
  BY <1>1, <1>2 DEF SentBySender
<1>9. WrongContextIsSilent' /\ NoPacketRefused'
  BY <1>1, <1>4 DEF WrongContextIsSilent, NoPacketRefused
<1> QED BY <1>5, <1>6, <1>7, <1>8, <1>9

\* The path closes behind an unwrapper that has ended.
LEMMA PathClosesStep == MInv /\ pathCloses => MInv'
<1> SUFFICES ASSUME MInv, pathCloses PROVE MInv'
  OBVIOUS
<1> USE DEF MInv
<1>1. /\ link' = "closed"
      /\ UNCHANGED <<mSequence, tx, rx, wire, wrapper, unwrapper, used, frames, heard>>
  BY DEF pathCloses
<1>2. TypeOK'
  BY <1>1 DEF TypeOK
<1>3. SenderInv'
  BY <1>1 DEF SenderInv, Started
<1>4. ReceiverInv'
  BY <1>1, ReceiverFrame
<1>5. SentBySender' /\ WrongContextIsSilent' /\ NoPacketRefused'
  BY <1>1 DEF SentBySender, WrongContextIsSilent, NoPacketRefused, RightContext
<1> QED BY <1>2, <1>3, <1>4, <1>5

\* The end of the stream is noticed.
LEMMA ReadFailsStep == MInv /\ readFails => MInv'
<1> SUFFICES ASSUME MInv, readFails PROVE MInv'
  OBVIOUS
<1> USE DEF MInv
<1>1. /\ unwrapper' = "io_error"
      /\ UNCHANGED <<mSequence, tx, rx, wire, link, wrapper, used, frames, heard>>
  BY DEF readFails
<1>2. TypeOK'
  BY <1>1 DEF TypeOK, ThreadStates
<1>3. SenderInv'
  BY <1>1 DEF SenderInv, Started
<1>4. ReceiverInv'
  BY <1>1 DEF ReceiverInv
<1>5. SentBySender' /\ WrongContextIsSilent' /\ NoPacketRefused'
  BY <1>1 DEF SentBySender, WrongContextIsSilent, NoPacketRefused, RightContext
<1> QED BY <1>2, <1>3, <1>4, <1>5

\* The network loses the connection and some of the packets.
LEMMA LinkBreaksStep == MInv /\ linkBreaks => MInv'
<1> SUFFICES ASSUME MInv, linkBreaks PROVE MInv'
  OBVIOUS
<1> USE DEF MInv
<1>1. /\ link' = "lost" /\ Truncate
      /\ UNCHANGED <<mSequence, tx, rx, wrapper, unwrapper, used, frames, heard>>
  BY DEF linkBreaks
<1>2. /\ ReceiverInv' /\ SentBySender' /\ wire' \in Seq(Packet)
      /\ wire = << >> => wire' = << >>
  BY <1>1, TruncateFrame
<1>3. TypeOK'
  BY <1>1, <1>2 DEF TypeOK
<1>4. SenderInv'
  BY <1>1, <1>2 DEF SenderInv, Started
<1>5. WrongContextIsSilent' /\ NoPacketRefused'
  BY <1>1 DEF WrongContextIsSilent, NoPacketRefused, RightContext
<1> QED BY <1>2, <1>3, <1>4, <1>5

-----------------------------------------------------------------------------
(* Theorems                                                                *)

\* Every step preserves the invariant.
LEMMA MediaNext == MInv /\ [Next]_vars => MInv'
<1> SUFFICES ASSUME MInv, [Next]_vars PROVE MInv'
  OBVIOUS
<1>1. CASE UNCHANGED vars
  <2>1. TypeOK' /\ SenderInv' /\ SentBySender' /\ WrongContextIsSilent' /\ NoPacketRefused'
    BY <1>1 DEF MInv, vars, TypeOK, SenderInv, Started, SentBySender,
                WrongContextIsSilent, NoPacketRefused, RightContext
  <2>2. ReceiverInv'
    BY <1>1 DEF MInv, vars, ReceiverInv, Chain, Started, RightContext
  <2> QED BY <2>1, <2>2 DEF MInv
<1>2. CASE Next
  BY <1>1, <1>2, WrapStep, WrapFailsStep, WriteFailsStep, WriteLostStep, AudioEndsStep,
     UnwrapStep, WritePayloadFailsStep, UnwrapFailsStep, ReadFailsStep, PathClosesStep,
     LinkBreaksStep DEF Next, Terminated
<1> QED BY <1>1, <1>2

\* The invariant holds in every reachable state.
THEOREM MediaInvariance == Spec => []MInv
<1>1. Init => MInv
  BY MediaInit
<1>2. MInv /\ [Next]_vars => MInv'
  BY MediaNext
<1> QED BY <1>1, <1>2, PTL DEF Spec

\* The media threads and the two streams keep their types, in particular the
\* widths of the packet index and of the key's count (SrtpWrapper, SrtpUnwrapper).
THEOREM MediaTypeCorrect == Spec => []TypeOK
<1>1. MInv => TypeOK
  BY DEF MInv
<1> QED BY <1>1, MediaInvariance, PTL

\* A receiver whose context was made from wrong values plays nothing of what it
\* is sent (initReceiver, unwrapPacketNative).
THEOREM WrongContextPlaysNothing == Spec => []WrongContextIsSilent
<1>1. MInv => WrongContextIsSilent
  BY DEF MInv
<1> QED BY <1>1, MediaInvariance, PTL

\* The library refuses none of the packets of a call whose contexts agree,
\* whatever the first sequence number and however often it wraps
\* (srtp_protect, srtp_unprotect).
THEOREM PacketsAreNeverRefused == Spec => []NoPacketRefused
<1>1. MInv => NoPacketRefused
  BY DEF MInv
<1> QED BY <1>1, MediaInvariance, PTL

\* The receiver estimates for every packet the index it was encrypted under
\* (rdbx_estimate_index).
THEOREM ReceiverInLockstep == Spec => []Lockstep
<1>1. MInv => Lockstep
  <2> SUFFICES ASSUME MInv, RightContext, unwrapper = "running", wire # << >>
               PROVE  /\ rdbx_estimate_index(rx.rdbx, Head(wire).seq).guess = Head(wire).index
                      /\ Head(wire).frame = heard + 1
    BY DEF Lockstep
  <2>1. PICK b \in Int : b >= -1 /\ Chain(b)
    BY DEF MInv, ReceiverInv
  <2> QED BY <2>1, UnprotectStep DEF MInv
<1> QED BY <1>1, MediaInvariance, PTL

\* No two frames are encrypted under the same packet index, not even when the
\* index wraps around: the key limit comes first (key_limit_update).
THEOREM KeystreamUsedOnce == Spec => NoKeystreamReuse
<1>1. MInv /\ [Next]_vars =>
        [wrapPayloadNative.status = "ok" /\ tx' # tx
             => wrapPayloadNative.index \notin used]_vars
  <2> SUFFICES ASSUME MInv, [Next]_vars, wrapPayloadNative.status = "ok", tx' # tx,
                      wrapPayloadNative.index \in used
               PROVE  FALSE
    OBVIOUS
  <2>1. wrapper = "running"
    BY DEF Next, vars, wrapAndWrite, wrapFails, writeFails, writeLost, audioEnds,
           unwrapAndWrite, writePayloadFails, unwrapFails, readFails, pathCloses,
           linkBreaks, Terminated
  <2>2. Started(tx)
    BY DEF MInv, SenderInv
  <2>3. wrapPayloadNative.index = IndexOf(tx.rdbx.index + 1)
    BY <2>1, <2>2, ProtectStep DEF MInv
  <2>4. PICK i \in Nat : /\ i <= tx.rdbx.index
                         /\ tx.rdbx.index - i < KeyLimit - tx.limit.num_left
                         /\ wrapPayloadNative.index = IndexOf(i)
    BY <2>2 DEF MInv, SenderInv
  <2>5. tx.rdbx.index \in Nat /\ tx.limit.num_left \in Nat /\ tx.limit.num_left >= 1
    BY <2>1, StreamFields DEF MInv, SenderInv, TypeOK, RdbxType, LimitType
  <2>6. KeyLimit \in Nat /\ SeqMax * RocMax \in Nat /\ KeyLimit < SeqMax * RocMax
    BY KeyLimitAssumption, SeqMaxAssumption, RocMaxAssumption
  <2>7. i < tx.rdbx.index + 1 /\ tx.rdbx.index + 1 - i < SeqMax * RocMax
    BY <2>4, <2>5, <2>6
  <2> QED BY <2>3, <2>4, <2>5, <2>7, IndexDistinct
<1> QED BY <1>1, MediaInvariance, PTL DEF Spec, NoKeystreamReuse
=============================================================================
