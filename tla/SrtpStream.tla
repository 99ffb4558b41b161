----------------------------- MODULE SrtpStream -----------------------------
(***************************************************************************)
(* The per-stream state of the SRTP library the phone links in, as pure    *)
(* operators: the extended replay database (crypto/replay/rdbx.c), the key *)
(* usage limit (crypto/kernel/key.c) and srtp_protect / srtp_unprotect     *)
(* (srtp/srtp.c) for a session with one stream of a specific SSRC and no   *)
(* template, which is the only kind of session srtp_jni.c creates.         *)
(*                                                                         *)
(* Ciphering is abstracted to what it depends on: a payload encrypted      *)
(* under (key, ssrc, index) decrypts only under the same three, and the    *)
(* authentication tag covers the header, the payload and the rollover      *)
(* counter under the key.                                                  *)
(***************************************************************************)
EXTENDS Integers

CONSTANTS SeqMax,      \* seq_num_max, 2^16: values of a sequence number
          RocMax,      \* 2^32: values of a rollover counter
          WindowSize,  \* 128: bits of the replay bitmask
          KeyLimit,    \* 0xffffffffffff: packets a key may protect
          SoftLimit,   \* 0x10000: soft_limit
          CountMax     \* 2^64: values of key_limit_ctx_t.num_left

ASSUME SeqMaxAssumption == SeqMax \in Nat /\ SeqMax >= 4 /\ SeqMax % 2 = 0
ASSUME RocMaxAssumption == RocMax \in Nat /\ RocMax >= 1
ASSUME WindowSizeAssumption == WindowSize \in Nat /\ WindowSize >= 1
\* key_limit_set refuses a limit below soft_limit
ASSUME KeyLimitAssumption == /\ KeyLimit \in Nat /\ SoftLimit \in Nat
                             /\ CountMax \in Nat
                             /\ SoftLimit >= 1 /\ SoftLimit <= KeyLimit
                             /\ KeyLimit < CountMax
                             /\ KeyLimit < SeqMax * RocMax

seq_num_median == SeqMax \div 2
rdbx_high_bit_in_bitmask == WindowSize - 1

Seqs == 0 .. SeqMax - 1

-----------------------------------------------------------------------------
(* rdbx.c                                                                  *)

rdbx_init == [index |-> 0, bitmask |-> {}]

\* The 48-bit index with rollover counter roc (32 bits) and sequence number s.
Index(roc, s) == (roc % RocMax) * SeqMax + s

\* index_guess when the rollover is not noticed
index_guess_noRollover(local, s) ==
    [guess |-> Index(local \div SeqMax, s), delta |-> s - (local % SeqMax)]

\* index_guess that sees a rollover only in the last quarter of the numbers
index_guess_lastQuarter(local, s) ==
    LET roc == local \div SeqMax
        seq == local % SeqMax
    IN  IF seq - (3 * SeqMax) \div 4 > s
          THEN [guess |-> Index(roc + 1, s), delta |-> SeqMax - seq + s]
          ELSE [guess |-> Index(roc, s), delta |-> s - seq]

\* The guess of the index of a packet with sequence number s and the
\* difference the function returns.  The difference of the first branch has
\* the sign the code gives it.
index_guess(local, s) ==
    LET roc == local \div SeqMax
        seq == local % SeqMax
    IN  CASE seq < seq_num_median /\ s - seq > seq_num_median ->
                 [guess |-> Index(roc - 1, s), delta |-> SeqMax - s + seq]
          [] seq >= seq_num_median /\ seq - seq_num_median > s ->
                 [guess |-> Index(roc + 1, s), delta |-> SeqMax - seq + s]
          [] OTHER ->
                 [guess |-> Index(roc, s), delta |-> s - seq]

rdbx_estimate_index(rdbx, s) ==
    IF rdbx.index > seq_num_median
      THEN index_guess(rdbx.index, s)
      ELSE [guess |-> s, delta |-> s - (rdbx.index % SeqMax)]

rdbx_check(rdbx, delta) ==
    IF delta > 0 THEN "ok"
    ELSE IF rdbx_high_bit_in_bitmask + delta < 0 THEN "replay_old"
    ELSE IF rdbx_high_bit_in_bitmask + delta \in rdbx.bitmask THEN "replay_fail"
    ELSE "ok"

\* Bits move towards bit 0 and the ones below it are lost.
v128_left_shift(mask, n) == {b - n : b \in {c \in mask : c >= n}}

\* For delta <= 0 the bit set is -delta, as in the code, whereas rdbx_check
\* tests rdbx_high_bit_in_bitmask + delta.
rdbx_add_index(rdbx, delta) ==
    IF delta > 0
      THEN [index |-> rdbx.index + delta,
            bitmask |-> v128_left_shift(rdbx.bitmask, delta)
                            \cup {rdbx_high_bit_in_bitmask}]
      ELSE [rdbx EXCEPT !.bitmask = @ \cup {-delta}]

-----------------------------------------------------------------------------
(* key.c                                                                   *)

key_limit_set == [num_left |-> KeyLimit, state |-> "normal"]

\* key_limit_update without the hard limit
key_limit_update_noHardLimit(limit) ==
    [event |-> "normal", limit |-> [limit EXCEPT !.num_left = (@ - 1) % CountMax]]

\* num_left is unsigned: it wraps below zero.
key_limit_update(limit) ==
    LET left == (limit.num_left - 1) % CountMax
    IN  CASE left >= SoftLimit ->
                 [event |-> "normal", limit |-> [limit EXCEPT !.num_left = left]]
          [] left < SoftLimit /\ left < 1 ->
                 [event |-> "hard_limit",
                  limit |-> [num_left |-> left, state |-> "expired"]]
          [] OTHER ->
                 [event |-> "soft_limit",
                  limit |-> [num_left |-> left,
                             state |-> IF limit.state = "normal"
                                         THEN "past_soft_limit" ELSE limit.state]]

-----------------------------------------------------------------------------
(* srtp.c                                                                  *)

srtp_stream_init(ssrc, key) ==
    [ssrc |-> ssrc, key |-> key, rdbx |-> rdbx_init, limit |-> key_limit_set,
     direction |-> "unknown"]

\* An unknown direction becomes the one of the call; any other one stays, and
\* a collision is only reported to the event handler.
SetDirection(stream, direction) ==
    [stream EXCEPT !.direction = IF @ = "unknown" THEN direction ELSE @]

\* The result of a call that stops with an error, and of one that succeeds
\* with the packet index it used.
Failed(status, stream) == [status |-> status, stream |-> stream, index |-> 0]
Done(stream, index) == [status |-> "ok", stream |-> stream, index |-> index]

\* The key usage is counted before the index is looked at.
srtp_protect(session, hdr) ==
    LET use     == key_limit_update(session.limit)
        counted == [SetDirection(session, "sender") EXCEPT !.limit = use.limit]
        est     == rdbx_estimate_index(session.rdbx, hdr.seq)
        status  == rdbx_check(session.rdbx, est.delta)
    IN  IF hdr.ssrc # session.ssrc THEN Failed("no_ctx", session)
        ELSE IF use.event = "hard_limit" THEN Failed("key_expired", counted)
        ELSE IF status # "ok" THEN Failed(status, counted)
        ELSE Done([counted EXCEPT !.rdbx = rdbx_add_index(@, est.delta)], est.guess)

\* TagMatches that ignores the key
TagMatches_anyKey(session, packet, guess) ==
    packet.index \div SeqMax = guess \div SeqMax

\* TagMatches that leaves the rollover counter out of the tag
TagMatches_noRoc(session, packet, guess) == packet.key = session.key

\* The tag the sender computed is the one the receiver computes: same key and
\* the rollover counter of the estimate.  (The header travels in clear.)
TagMatches(session, packet, guess) ==
    /\ packet.key = session.key
    /\ packet.index \div SeqMax = guess \div SeqMax

\* srtp_unprotect that forgets to add the index to the database
srtp_unprotect_noAdd(session, packet) ==
    LET est == rdbx_estimate_index(session.rdbx, packet.seq)
    IN  IF packet.ssrc # session.ssrc THEN Failed("no_ctx", session)
        ELSE IF ~ TagMatches(session, packet, est.guess) THEN Failed("auth_fail", session)
        ELSE Done(SetDirection(session, "receiver"), est.guess)

\* The replay check, then the tag, then the key usage, then the direction; the
\* index enters the database last.
srtp_unprotect(session, packet) ==
    LET est     == rdbx_estimate_index(session.rdbx, packet.seq)
        status  == rdbx_check(session.rdbx, est.delta)
        use     == key_limit_update(session.limit)
        counted == [session EXCEPT !.limit = use.limit]
    IN  IF packet.ssrc # session.ssrc THEN Failed("no_ctx", session)
        ELSE IF status # "ok" THEN Failed(status, session)
        ELSE IF ~ TagMatches(session, packet, est.guess) THEN Failed("auth_fail", session)
        ELSE IF use.event = "hard_limit" THEN Failed("key_expired", counted)
        ELSE Done([SetDirection(counted, "receiver")
                      EXCEPT !.rdbx = rdbx_add_index(@, est.delta)], est.guess)

-----------------------------------------------------------------------------
(* Types                                                                   *)

RdbxType == [index : Nat, bitmask : SUBSET (0 .. WindowSize - 1)]
LimitType == [num_left : 0 .. CountMax - 1,
              state : {"normal", "past_soft_limit", "expired"}]
StreamType(Ssrcs, Keys) ==
    [ssrc : Ssrcs, key : Keys, rdbx : RdbxType, limit : LimitType,
     direction : {"unknown", "sender", "receiver"}]
=============================================================================
