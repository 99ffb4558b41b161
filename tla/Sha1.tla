--------------------------------- MODULE Sha1 ---------------------------------
(***************************************************************************)
(* SHA-1 of libsrtp (sha1.c) as its callers see it: sha1_init, sha1_update    *)
(* with pieces of any size, sha1_final with its padding.  The compression is  *)
(* module Sha1Core; here the chaining value H is the sequence of the blocks   *)
(* that were compressed into it, a block being its sixteen words of four      *)
(* octets in network order.                                                   *)
(***************************************************************************)
EXTENDS Integers, Sequences

BlockOctets == 64

\* A number below 2^31 as the octets of a word.
WordOf(n) == <<n \div 16777216, (n \div 65536) % 256, (n \div 256) % 256, n % 256>>
ZeroWord == WordOf(0)

\* The context: H, the message buffer, how much of it is filled, the bit count.
sha1_init(M) == [H |-> <<>>, M |-> M, octets_in_buffer |-> 0, num_bits_in_msg |-> 0]

\* be32_to_cpu(M[i]) of the words of the buffer, i from 0.
MWord(M, i) == <<M[4 * i], M[4 * i + 1], M[4 * i + 2], M[4 * i + 3]>>
sha1_core(M, H) == Append(H, [i \in 1 .. 16 |-> MWord(M, i - 1)])

\* The loop of sha1_update: fill the buffer and compress it while the message
\* reaches to its end, else keep what there is.
RECURSIVE Absorb(_, _)
Absorb(ctx, msg) ==
    LET n == ctx.octets_in_buffer
        room == BlockOctets - n
        copied(k) == [i \in 0 .. (BlockOctets - 1) |->
                         IF i \in n .. (n + k - 1) THEN msg[i - n + 1] ELSE ctx.M[i]]
    IN  IF msg = <<>> THEN ctx
        ELSE IF Len(msg) + n >= BlockOctets
        THEN Absorb([ctx EXCEPT !.M = copied(room), !.octets_in_buffer = 0,
                                !.H = sha1_core(copied(room), ctx.H)],
                    SubSeq(msg, room + 1, Len(msg)))
        ELSE [ctx EXCEPT !.M = copied(Len(msg)), !.octets_in_buffer = @ + Len(msg)]
sha1_update(ctx, msg) == Absorb([ctx EXCEPT !.num_bits_in_msg = @ + 8 * Len(msg)], msg)

\* The word with the end marker behind the first `tail` octets of w.
Marked(w, tail) == [i \in 1 .. 4 |-> IF i <= tail THEN w[i] ELSE IF i = tail + 1 THEN 128 ELSE 0]

\* LastWords that has room for the length up to octet 59
LastWords_roomy(ctx) ==
    LET n == ctx.octets_in_buffer
        i == n \div 4
    IN  [w \in 1 .. 16 |->
            IF w - 1 < i THEN MWord(ctx.M, w - 1)
            ELSE IF w - 1 = i THEN Marked(MWord(ctx.M, i), n % 4)
            ELSE IF w = 16 /\ n < 60 THEN WordOf(ctx.num_bits_in_msg)
            ELSE ZeroWord]

\* The word array that sha1_final compresses first: the words of the buffer, the
\* marker, zeros, and the bit count if there is room for it.
LastWords(ctx) ==
    LET n == ctx.octets_in_buffer
        i == n \div 4
    IN  [w \in 1 .. 16 |->
            IF w - 1 < i THEN MWord(ctx.M, w - 1)
            ELSE IF w - 1 = i THEN Marked(MWord(ctx.M, i), n % 4)
            ELSE IF w = 16 /\ n < 56 THEN WordOf(ctx.num_bits_in_msg)
            ELSE ZeroWord]
LengthWords(ctx) ==
    [w \in 1 .. 16 |-> IF w = 16 THEN WordOf(ctx.num_bits_in_msg) ELSE ZeroWord]

\* sha1_final: one block, or two when the count does not fit.
sha1_final(ctx) ==
    [ctx EXCEPT !.H = @ \o <<LastWords(ctx)>> \o
                      (IF ctx.octets_in_buffer >= 56 THEN <<LengthWords(ctx)>> ELSE <<>>),
                !.octets_in_buffer = 0]

\* FIPS 180: the message, a marker, zeros and the length, in whole blocks.
Reference(msg) ==
    LET n == Len(msg)
        total == BlockOctets * ((n + 8) \div BlockOctets + 1)
        octet(k) == IF k <= n THEN msg[k] ELSE IF k = n + 1 THEN 128
                    ELSE IF k > total - 4 THEN WordOf(8 * n)[k - total + 4] ELSE 0
    IN  [b \in 1 .. (total \div BlockOctets) |->
            [w \in 1 .. 16 |-> [i \in 1 .. 4 |->
                octet((b - 1) * BlockOctets + (w - 1) * 4 + i)]]]
=============================================================================
