----------------------------- MODULE SrtpReplay -----------------------------
(***************************************************************************)
(* The contract of the SRTP library's two packet functions towards a       *)
(* caller on a datagram network: packets of one stream are protected in    *)
(* order and reach srtp_unprotect late, out of order, several times or     *)
(* never.  The phone itself runs SRTP over TCP (module SrtpMedia); this    *)
(* module states what the library's own comments promise.                  *)
(***************************************************************************)
EXTENDS SrtpStream

CONSTANTS FirstSeqs,   \* sequence numbers a stream may start at
          MaxPackets   \* calls of srtp_protect

ASSUME FirstSeqsAssumption == FirstSeqs \subseteq Seqs
ASSUME MaxPacketsAssumption == MaxPackets \in Nat

Ssrc == "ssrc"
Key == "key"

VARIABLES next,      \* sequence number of the next packet
          calls,     \* calls of srtp_protect so far
          tx, rx,    \* the streams of the two sessions
          sent,      \* packets protected
          accepted   \* indices of the packets srtp_unprotect accepted, each with
                     \* how often (up to twice) and under which estimate

vars == <<next, calls, tx, rx, sent, accepted>>

Packet == [ssrc : {Ssrc}, key : {Key}, seq : Seqs, index : Nat]

Init == /\ next \in FirstSeqs
        /\ calls = 0
        /\ tx = srtp_stream_init(Ssrc, Key)
        /\ rx = srtp_stream_init(Ssrc, Key)
        /\ sent = {}
        /\ accepted = {}

\* The sending application calls srtp_protect with consecutive sequence
\* numbers, again also after an error.
protect ==
    LET r == srtp_protect(tx, [ssrc |-> Ssrc, seq |-> next])
    IN  /\ calls < MaxPackets
        /\ calls' = calls + 1
        /\ next' = (next + 1) % SeqMax
        /\ tx' = r.stream
        /\ sent' = IF r.status = "ok"
                     THEN sent \cup {[ssrc |-> Ssrc, key |-> Key, seq |-> next,
                                      index |-> r.index]}
                     ELSE sent
        /\ UNCHANGED <<rx, accepted>>

\* The times packet p was accepted so far.
Times(p) == IF \E a \in accepted : a.index = p.index
              THEN (CHOOSE a \in accepted : a.index = p.index).times
              ELSE 0

\* Any packet sent arrives, for the first time or again.
unprotect(p) ==
    LET r == srtp_unprotect(rx, p)
    IN  /\ rx' = r.stream
        /\ accepted' = IF r.status = "ok"
                         THEN {a \in accepted : a.index # p.index}
                                \cup {[index |-> p.index, estimate |-> r.index,
                                       times |-> IF Times(p) = 0 THEN 1 ELSE 2]}
                         ELSE accepted
        /\ UNCHANGED <<next, calls, tx, sent>>

Next == protect \/ \E p \in sent : unprotect(p)

Spec == Init /\ [][Next]_vars

-----------------------------------------------------------------------------
\* However late a packet arrives, it is only accepted under the index it was
\* encrypted under: an estimate with the wrong rollover counter fails the tag.
\* (srtp_unprotect, the tag over the rollover counter)
AcceptedUnderTrueIndex == \A a \in accepted : a.estimate = a.index

\* srtp.h: err_status_replay_fail "if the SRTP packet is a replay (e.g. packet
\* has already been processed and accepted)": no packet is accepted twice.
NoPacketAcceptedTwice == \A a \in accepted : a.times = 1

\* rdbx.c: "The index is highest sequence number that has been received".
IndexIsHighestReceived ==
    accepted # {} =>
        /\ \E a \in accepted : a.index = rx.rdbx.index
        /\ \A a \in accepted : a.index <= rx.rdbx.index

\* Whatever was lost, disordered or repeated before: while the key has not expired, a
\* packet ahead of the index the database holds by fewer than half the sequence numbers
\* is accepted, under its own index, whatever wrap lies between, unless it is the use
\* that exhausts the key.  (rdbx_estimate_index, index_guess, rdbx_check)
FreshPacketAccepted ==
    rx.limit.state # "expired" /\ rx.limit.num_left # 1 =>
        \A p \in sent :
            p.index > rx.rdbx.index /\ p.index - rx.rdbx.index < seq_num_median =>
                /\ srtp_unprotect(rx, p).status = "ok"
                /\ srtp_unprotect(rx, p).index = p.index

\* srtp.h: after the hard limit "an SRTP stream will enter an `expired' state
\* in which no more packets can be protected or unprotected".
ExpiredKeyIsUnusable == [][/\ tx.limit.state = "expired" => sent' = sent
                          /\ rx.limit.state = "expired" => accepted' = accepted]_vars
=============================================================================
