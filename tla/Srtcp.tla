-------------------------------- MODULE Srtcp --------------------------------
(***************************************************************************)
(* The SRTCP side of libsrtp: srtp_protect_rtcp and srtp_unprotect_rtcp    *)
(* (srtp.c) over the replay database rdb.c.  One session sends and one     *)
(* receives; the network may lose, repeat and reorder packets.  Both       *)
(* sessions have a template, so a stream is cloned for an SSRC they have   *)
(* not seen, with an empty replay database.                                *)
(*                                                                         *)
(* A packet carries the 31-bit index and the E bit of its trailer, and in  *)
(* iv the number its cipher was set to.  The width of the index and of the *)
(* window are parameters.                                                  *)
(***************************************************************************)
EXTENDS Integers, FiniteSets

CONSTANTS Ssrcs,
          Bits,      \* rdb_bits_in_bitmask (128)
          IndexMax,  \* SRTCP_INDEX_MASK, 2^31 - 1
          MaxCalls,  \* bound on the calls of srtp_protect_rtcp per stream
          Conf       \* rtcp_services has sec_serv_conf

\* The window is shorter than the numbers go.
SrtcpAssumption == /\ {Bits, IndexMax} \subseteq Nat \ {0} /\ Bits <= IndexMax
                   /\ MaxCalls \in Nat /\ Conf \in BOOLEAN

\* The values of a uint32_t, whose top bit is SRTCP_E_BIT.
Word == 2 * (IndexMax + 1)

VARIABLES window_start, \* sender's streams: the value of the rdb, by SSRC
          calls,        \* calls of srtp_protect_rtcp so far
          network,      \* packets that were sent
          rdb,          \* receiver's streams: [window_start, bitmask], by SSRC
          known,        \* SSRCs the receiver has a stream for
          accepted,     \* history: <<ssrc, index>> of the packets let pass
          last          \* history: the last packet let pass, and how often before

vars == <<window_start, calls, network, rdb, known, accepted, last>>

\* rdb_init
rdb_init == [window_start |-> 0, bitmask |-> {}]
None == [none |-> TRUE]

Init == /\ window_start = [s \in Ssrcs |-> 0] /\ calls = [s \in Ssrcs |-> 0]
        /\ network = {} /\ accepted = {} /\ last = None
        /\ rdb = [s \in Ssrcs |-> rdb_init] /\ known = {}

-----------------------------------------------------------------------------
\* rdb_check with a window one packet short
rdb_check_short(r, index) ==
    IF index >= (r.window_start + Bits - 1) % Word THEN "ok"
    ELSE IF index < r.window_start THEN "replay_old"
    ELSE IF index - r.window_start \in r.bitmask THEN "replay_fail"
    ELSE "ok"

\* rdb_check: after the window good, before it old, else as the bit says.
rdb_check(r, index) ==
    IF index >= (r.window_start + Bits) % Word THEN "ok"
    ELSE IF index < r.window_start THEN "replay_old"
    ELSE IF index - r.window_start \in r.bitmask THEN "replay_fail"
    ELSE "ok"

\* rdb_add_index: a bit in the window, or the window moves so that it is the last.
rdb_add_index(r, index) ==
    LET delta == index - r.window_start
        shift == delta - (Bits - 1)
    IN  IF delta < Bits THEN [r EXCEPT !.bitmask = @ \cup {delta}]
        ELSE [window_start |-> r.window_start + shift,
              bitmask |-> {b - shift : b \in {c \in r.bitmask : c >= shift}} \cup {Bits - 1}]

\* rdb_increment and rdb_get_value: the counter goes up even when it is too high.
rdb_increment(s) == window_start' = [window_start EXCEPT ![s] = (@ + 1) % Word]
TooHigh(s) == window_start[s] > IndexMax

-----------------------------------------------------------------------------
\* The trailer: the E bit, and the sequence number ored into it.
Packet(s, seq_num) ==
    [ssrc |-> s, index |-> seq_num % (IndexMax + 1), e |-> (Conf \/ seq_num > IndexMax),
     iv |-> seq_num, encrypted |-> Conf]

\* srtp_protect_rtcp: increment, then the packet under the new number.
srtp_protect_rtcp(s) ==
    /\ calls[s] < MaxCalls /\ calls' = [calls EXCEPT ![s] = @ + 1]
    /\ rdb_increment(s)
    /\ network' = IF TooHigh(s) THEN network ELSE network \cup {Packet(s, window_start'[s])}
    /\ UNCHANGED <<rdb, known, accepted, last>>

\* The stream of an SSRC, or the template, whose database stays empty.
StreamOf(s) == IF s \in known THEN rdb[s] ELSE rdb_init

\* srtp_unprotect_rtcp of a packet whose tag is right: the replay check, on the
\* template for a new SSRC, and after the decryption the clone and the entry.
srtp_unprotect_rtcp(m) ==
    /\ rdb_check(StreamOf(m.ssrc), m.index) = "ok"
    /\ accepted' = accepted \cup {<<m.ssrc, m.index>>}
    /\ last' = [packet |-> m, again |-> <<m.ssrc, m.index>> \in accepted]
    /\ known' = known \cup {m.ssrc}
    /\ rdb' = [rdb EXCEPT ![m.ssrc] = rdb_add_index(StreamOf(m.ssrc), m.index)]
    /\ UNCHANGED <<window_start, calls, network>>

\* The clone cannot be allocated: the packet is lost to the caller.
CloneFails(m) ==
    /\ m.ssrc \notin known /\ rdb_check(StreamOf(m.ssrc), m.index) = "ok"
    /\ UNCHANGED vars

Next == \/ \E s \in Ssrcs : srtp_protect_rtcp(s)
        \/ \E m \in network : srtp_unprotect_rtcp(m) \/ CloneFails(m)

Spec == Init /\ [][Next]_vars

-----------------------------------------------------------------------------
Packets == [ssrc : Ssrcs, index : 0 .. IndexMax, e : BOOLEAN, iv : 0 .. (Word - 1),
            encrypted : BOOLEAN]

\* Types of the variables.
TypeOK == /\ window_start \in [Ssrcs -> 0 .. (Word - 1)]
          /\ calls \in [Ssrcs -> 0 .. MaxCalls]
          /\ network \subseteq Packets
          /\ rdb \in [Ssrcs -> [window_start : Nat, bitmask : SUBSET (0 .. (Bits - 1))]]
          /\ known \subseteq Ssrcs

\* No packet is let pass twice, however the network repeats and reorders, from
\* the first packet of an SSRC on, which is checked against the template.
\* (srtp_unprotect_rtcp, rdb_check, rdb_add_index)
AcceptedOnce == last # None => ~ last.again

\* The window holds exactly the packets that were accepted, and ends with the
\* newest: a packet that is in the window and was not seen is let pass.
WindowRemembers ==
    \A s \in known :
        /\ \A b \in 0 .. (Bits - 1) :
               b \in rdb[s].bitmask <=> <<s, rdb[s].window_start + b>> \in accepted
        /\ \A i \in 0 .. IndexMax : <<s, i>> \in accepted => i < rdb[s].window_start + Bits
        /\ rdb[s].window_start > 0 => Bits - 1 \in rdb[s].bitmask

\* The receiver undoes what the sender did: it deciphers with the number the
\* packet was enciphered with, and only a packet that was.
DeciphersAlike ==
    last # None => /\ last.packet.index = last.packet.iv
                   /\ last.packet.e = last.packet.encrypted

\* rdb.h:74, "rdb_increment(db) increments the sequence number in db, if it is not
\* too high": no two packets of a stream have the same number.
IndexNotReused ==
    [][\A s \in Ssrcs : calls'[s] > calls[s] /\ ~ TooHigh(s)
            => ~ \E m \in network : m.ssrc = s /\ m.iv = window_start'[s]]_vars

\* srtp_priv.h:129, "unsigned int index:31": the number fits beside the E bit.
IndexFits == \A m \in network : m.iv <= IndexMax
=============================================================================
