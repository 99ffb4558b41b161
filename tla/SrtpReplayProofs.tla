-------------------------- MODULE SrtpReplayProofs ---------------------------
(***************************************************************************)
(* Proofs about SrtpReplay, for every width of the sequence number, of the *)
(* rollover counter and of the replay window, every key limit below the    *)
(* number of packet indices and every number of packets.                   *)
(*                                                                         *)
(* The argument: an index the library computes has the sequence number of  *)
(* its packet in its low part (LEMMA EstimateSeq) and the tag compares the *)
(* rest, so an accepted packet has its own index; and an index less than   *)
(* half the sequence numbers ahead of the database is estimated right      *)
(* whatever wrap lies between (LEMMA EstimateAhead).                       *)
(***************************************************************************)
EXTENDS SrtpReplay, SrtpStreamProofs

\* Types of the variables.
RType == /\ next \in Seqs
         /\ tx \in StreamType({Ssrc}, {Key})
         /\ rx \in StreamType({Ssrc}, {Key})
         /\ sent \subseteq Packet

\* The packets that were sent carry the low part of their index as their
\* sequence number, and no index is wider than a packet index.
SentInv == \A p \in sent : p.index % SeqMax = p.seq /\ p.index < SeqMax * RocMax

RInv == RType /\ SentInv /\ AcceptedUnderTrueIndex

\* The initial states satisfy the invariant.
LEMMA ReplayInit == Init => RInv
<1> SUFFICES ASSUME Init PROVE RInv
  OBVIOUS
<1>1. Ssrc \in {Ssrc} /\ Key \in {Key}
  OBVIOUS
<1>2. srtp_stream_init(Ssrc, Key) \in StreamType({Ssrc}, {Key})
  BY <1>1, InitType
<1> QED BY <1>2, FirstSeqsAssumption DEF Init, RInv, RType, SentInv, AcceptedUnderTrueIndex

\* A packet that is protected gets an index with its sequence number.
LEMMA ProtectStep == RInv /\ protect => RInv'
<1> SUFFICES ASSUME RInv, protect PROVE RInv'
  OBVIOUS
<1> DEFINE h == [ssrc |-> Ssrc, seq |-> next]
           r == srtp_protect(tx, h)
           p == [ssrc |-> Ssrc, key |-> Key, seq |-> next, index |-> r.index]
<1>1. h.seq = next /\ next \in Seqs /\ tx \in StreamType({Ssrc}, {Key})
  BY DEF RInv, RType
<1>2. /\ r.stream \in StreamType({Ssrc}, {Key})
      /\ r.status = "ok" => r.index = rdbx_estimate_index(tx.rdbx, next).guess
  <2> HIDE DEF h
  <2> QED BY <1>1, ProtectType
<1>3. tx.rdbx \in RdbxType
  BY <1>1, StreamFields
<1>4. r.status = "ok" => /\ r.index \in Nat /\ r.index % SeqMax = next
                         /\ r.index < SeqMax * RocMax
  <2> HIDE DEF r
  <2> QED BY <1>1, <1>2, <1>3, EstimateType, EstimateSeq
<1>5. (next + 1) % SeqMax \in Seqs
  BY <1>1, SeqMaxAssumption, DivMod DEF Seqs
<1> HIDE DEF r
<1>6. /\ next' = (next + 1) % SeqMax /\ tx' = r.stream /\ rx' = rx /\ accepted' = accepted
      /\ sent' = IF r.status = "ok" THEN sent \cup {p} ELSE sent
  BY DEF protect, r
<1>7. r.status = "ok" => p \in Packet /\ p.index % SeqMax = p.seq /\ p.index < SeqMax * RocMax
  BY <1>1, <1>4 DEF Packet
<1> HIDE DEF p
<1>8. RType'
  BY <1>2, <1>5, <1>6, <1>7 DEF RInv, RType
<1>9. SentInv'
  BY <1>6, <1>7 DEF RInv, SentInv
<1>10. AcceptedUnderTrueIndex'
  BY <1>6 DEF RInv, AcceptedUnderTrueIndex
<1> QED BY <1>8, <1>9, <1>10 DEF RInv

\* The estimate of an accepted packet agrees with its index in the low part, the
\* sequence number, and in the rest, which the tag covers.
LEMMA UnprotectStep ==
    ASSUME NEW p \in sent, RInv, unprotect(p)
    PROVE  RInv'
<1> DEFINE r == srtp_unprotect(rx, p)
           guess == rdbx_estimate_index(rx.rdbx, p.seq).guess
           a == [index |-> p.index, estimate |-> r.index,
                 times |-> IF Times(p) = 0 THEN 1 ELSE 2]
<1>1. /\ p \in Packet /\ p.seq \in Seqs /\ p.index \in Nat /\ p.index % SeqMax = p.seq
      /\ rx \in StreamType({Ssrc}, {Key})
  BY DEF RInv, RType, SentInv, Packet
<1>2. /\ r.stream \in StreamType({Ssrc}, {Key})
      /\ r.status = "ok" => p.index \div SeqMax = guess \div SeqMax /\ r.index = guess
  BY <1>1, UnprotectType
<1>3. rx.rdbx \in RdbxType
  BY <1>1, StreamFields
<1>4. guess \in Nat /\ guess % SeqMax = p.seq
  BY <1>1, <1>3, EstimateType, EstimateSeq
<1> HIDE DEF r, guess
<1>5. r.status = "ok" => r.index = p.index
  <2>1. SeqMax \in Nat /\ SeqMax > 0
    BY SeqMaxAssumption
  <2>2. /\ guess = (guess \div SeqMax) * SeqMax + (guess % SeqMax)
        /\ p.index = (p.index \div SeqMax) * SeqMax + (p.index % SeqMax)
    BY <1>1, <1>4, <2>1, DivMod
  <2> QED BY <1>1, <1>2, <1>4, <2>2
<1>6. /\ rx' = r.stream /\ next' = next /\ tx' = tx /\ sent' = sent
      /\ accepted' = IF r.status = "ok"
                       THEN {b \in accepted : b.index # p.index} \cup {a} ELSE accepted
  BY DEF unprotect, r
<1>7. a.index = p.index /\ a.estimate = r.index
  OBVIOUS
<1> HIDE DEF a
<1>8. RType' /\ SentInv'
  BY <1>2, <1>6 DEF RInv, RType, SentInv
<1>9. AcceptedUnderTrueIndex'
  BY <1>5, <1>6, <1>7 DEF RInv, AcceptedUnderTrueIndex
<1> QED BY <1>8, <1>9 DEF RInv

\* The invariant holds in every reachable state.
THEOREM ReplayInvariance == Spec => []RInv
<1>1. RInv /\ [Next]_vars => RInv'
  <2> SUFFICES ASSUME RInv, [Next]_vars PROVE RInv'
    OBVIOUS
  <2>1. CASE protect
    BY <2>1, ProtectStep
  <2>2. CASE \E p \in sent : unprotect(p)
    BY <2>2, UnprotectStep
  <2>3. CASE UNCHANGED vars
    BY <2>3 DEF vars, RInv, RType, SentInv, AcceptedUnderTrueIndex
  <2> QED BY <2>1, <2>2, <2>3 DEF Next
<1> QED BY <1>1, ReplayInit, PTL DEF Spec

\* However late, often or disordered packets arrive, each one that is accepted
\* is decrypted under the index it was encrypted under (srtp_unprotect).
THEOREM IndexIsNeverMistaken == Spec => []AcceptedUnderTrueIndex
<1>1. RInv => AcceptedUnderTrueIndex
  BY DEF RInv
<1> QED BY <1>1, ReplayInvariance, PTL

\* What srtp_unprotect does with a packet ahead of the database.  It does so in the expired
\* state too, against srtp.h (see ExpiredKeyIsUnusable), so the state is no hypothesis.
LEMMA NewerPacket ==
    ASSUME RInv, NEW p \in sent, rx.limit.num_left # 1,
           p.index > rx.rdbx.index, p.index - rx.rdbx.index < seq_num_median
    PROVE  srtp_unprotect(rx, p).status = "ok" /\ srtp_unprotect(rx, p).index = p.index
<1> DEFINE i == rx.rdbx.index
           est == rdbx_estimate_index(rx.rdbx, p.seq)
           use == key_limit_update(rx.limit)
<1>1. /\ p.ssrc = Ssrc /\ p.key = Key /\ p.index \in Nat
      /\ p.index % SeqMax = p.seq /\ p.index < SeqMax * RocMax
      /\ rx \in StreamType({Ssrc}, {Key})
  BY DEF RInv, RType, SentInv, Packet
<1>2. rx.rdbx \in RdbxType /\ rx.limit \in LimitType /\ rx.ssrc = Ssrc /\ rx.key = Key
  BY <1>1, StreamFields
<1>3. i \in Nat
  BY <1>2 DEF RdbxType
<1>4. est = [guess |-> p.index, delta |-> p.index - i]
  <2> DEFINE db == rx.rdbx
  <2>1. db.index = i
    OBVIOUS
  <2> HIDE DEF i, db
  <2>2. rdbx_estimate_index(db, p.index % SeqMax) = [guess |-> p.index, delta |-> p.index - i]
    BY <1>1, <1>3, <2>1, EstimateAhead DEF i
  <2> QED BY <1>1, <2>2 DEF db
<1>5. rdbx_check(rx.rdbx, est.delta) = "ok"
  BY <1>1, <1>3, <1>4 DEF rdbx_check
<1>6. use.event # "hard_limit"
  BY <1>2, HardLimitOnce
<1>7. TagMatches(rx, p, est.guess)
  BY <1>1, <1>2, <1>4 DEF TagMatches
<1> HIDE DEF est, use
<1>8. est.guess = p.index
  BY <1>4
<1> QED BY <1>1, <1>2, <1>5, <1>6, <1>7, <1>8 DEF srtp_unprotect, Done, est, use

\* While the key has not expired, a packet less than half the sequence numbers ahead of
\* the database is accepted
\* under its own index, whatever was lost, disordered or repeated before and whatever
\* wrap lies between (rdbx_estimate_index, index_guess).
THEOREM NewerPacketsAccepted == Spec => []FreshPacketAccepted
<1>1. RInv => FreshPacketAccepted
  BY NewerPacket DEF FreshPacketAccepted
<1> QED BY <1>1, ReplayInvariance, PTL
=============================================================================
