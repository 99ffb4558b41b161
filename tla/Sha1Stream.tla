------------------------------ MODULE Sha1Stream ------------------------------
(***************************************************************************)
(* A context of module Sha1 in use: messages are fed in pieces and finished   *)
(* one after the other.  The octets of the messages are numbers that occur    *)
(* nowhere else, so that an octet in the wrong place, or one left in the      *)
(* buffer by the message before, shows.                                       *)
(***************************************************************************)
EXTENDS Sha1

CONSTANTS Pieces,       \* sizes of the pieces
          MaxOctets,    \* bound on the length of a message
          MaxMessages   \* bound on the messages

VARIABLES ctx, fed,     \* the context, and the message so far
          messages,     \* messages begun
          digest        \* what the last sha1_final gave: blocks, and its message

vars == <<ctx, fed, messages, digest>>

None == [none |-> TRUE]
MessageOctet(k) == -(1000 * messages + k)
Empty == [i \in 0 .. (BlockOctets - 1) |-> -1]

Init == ctx = sha1_init(Empty) /\ fed = <<>> /\ messages = 1 /\ digest = None

Feed(n) ==
    /\ Len(fed) + n <= MaxOctets /\ digest = None
    /\ LET piece == [k \in 1 .. n |-> MessageOctet(Len(fed) + k)]
       IN  ctx' = sha1_update(ctx, piece) /\ fed' = fed \o piece
    /\ UNCHANGED <<messages, digest>>

Final == /\ digest = None
         /\ ctx' = sha1_final(ctx) /\ digest' = [blocks |-> sha1_final(ctx).H, msg |-> fed]
         /\ UNCHANGED <<fed, messages>>

Again == /\ digest # None /\ messages < MaxMessages
         /\ ctx' = sha1_init(ctx.M) /\ fed' = <<>> /\ messages' = messages + 1 /\ digest' = None

Next == (\E n \in Pieces : Feed(n)) \/ Final \/ Again
Spec == Init /\ [][Next]_vars

-----------------------------------------------------------------------------
\* The buffer never holds a whole block between calls, and the bit count is that
\* of the message.  (sha1_update)
TypeOK == /\ ctx.octets_in_buffer \in 0 .. (BlockOctets - 1)
          /\ DOMAIN ctx.M = 0 .. (BlockOctets - 1)
          /\ ctx.num_bits_in_msg = 8 * Len(fed)

\* Whatever the pieces and wherever the message ends, the blocks that were hashed
\* are the padded message: nothing of an earlier message that is still in the
\* buffer, no octet twice, the marker and the length in their places.
\* (sha1_update, sha1_final)
HashesMessage == digest # None => digest.blocks = Reference(digest.msg)
=============================================================================
