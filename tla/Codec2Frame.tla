----------------------------- MODULE Codec2Frame -----------------------------
(***************************************************************************)
(* The bit string of a speech frame: codec2_encode packs thirteen fields   *)
(* into seven octets, each in Gray code, and codec2_decode unpacks them    *)
(* (codec2.c, pack.c).  A field is the index its quantiser chose.          *)
(***************************************************************************)
EXTENDS Integers, Sequences, SequencesExt, Octets, Codebook

CODEC2_BITS_PER_FRAME == 50
WordSize == 8
FrameOctets == (CODEC2_BITS_PER_FRAME + 7) \div 8

\* The widths of the fields: Wo, the LSPs, the energy, the two voicing bits.
Widths == <<WO_BITS>> \o [k \in 1 .. LPC_ORD |-> lsp_bits(k - 1)] \o <<E_BITS, 1, 1>>
Fields == DOMAIN Widths
Top(k) == 2 ^ Widths[k] - 1

VARIABLES fields,   \* what the encoder packs
          bits,     \* the buffer of the caller
          nbit,     \* the bit index where the last pack or unpack ended
          got,      \* what the decoder unpacked
          phase     \* "new", "encoded" or "decoded"

vars == <<fields, bits, nbit, got, phase>>

-----------------------------------------------------------------------------
(* pack.c                                                                  *)

Or(a, b) == LET bit(k) == IF HasBit(a, k) \/ HasBit(b, k) THEN k ELSE 0
            IN bit(1) + bit(2) + bit(4) + bit(8) + bit(16) + bit(32) + bit(64) + bit(128)

\* The part of a field of the given width that goes into the octet of bit bI.
bitsLeft(bI) == WordSize - (bI % WordSize)
sliceWidth(bI, width) == IF bitsLeft(bI) < width THEN bitsLeft(bI) ELSE width

\* (field >> 1) ^ field
ToGray(field) == Xor(field \div 2, field)

RECURSIVE PackSlices(_, _, _, _)
PackSlices(b, bI, gray, width) ==
    LET slice == sliceWidth(bI, width)
        octet == ((gray \div 2 ^ (width - slice)) * 2 ^ (bitsLeft(bI) - slice)) % 256
        packed == [b EXCEPT ![bI \div WordSize] = Or(@, octet)]
    IN IF width = slice THEN packed
       ELSE PackSlices(packed, bI + slice, gray, width - slice)

pack(b, bI, field, width) == PackSlices(b, bI, ToGray(field), width)

RECURSIVE UnpackSlices(_, _, _)
UnpackSlices(b, bI, width) ==
    LET slice == sliceWidth(bI, width)
        part == (b[bI \div WordSize] \div 2 ^ (bitsLeft(bI) - slice)) % 2 ^ slice
    IN part * 2 ^ (width - slice)
       + (IF width = slice THEN 0 ELSE UnpackSlices(b, bI + slice, width - slice))

\* t ^= t >> 8, 4, 2, 1: fields have at most eight bits.
FromGray(field) == LET t4 == Xor(field, field \div 16)
                       t2 == Xor(t4, t4 \div 4)
                   IN Xor(t2, t2 \div 2)

unpack(b, bI, width) == FromGray(UnpackSlices(b, bI, width))

-----------------------------------------------------------------------------
(* codec2.c                                                                *)

\* The bit index of field k.
RECURSIVE Start(_)
Start(k) == IF k = 1 THEN 0 ELSE Start(k - 1) + Widths[k - 1]

RECURSIVE PackTo(_, _, _)
PackTo(b, f, k) == IF k = 0 THEN b ELSE pack(PackTo(b, f, k - 1), Start(k), f[k], Widths[k])

memset == [w \in 0 .. (FrameOctets - 1) |-> 0]
Packed(f) == PackTo(memset, f, Len(Widths))

\* The frames: one field takes every value, the others are all 0, all at their top, or
\* in between.
Others == {[k \in Fields |-> 0], [k \in Fields |-> Top(k)],
           [k \in Fields |-> (2 * Top(k)) \div 3]}
Frames == {[f EXCEPT ![n[1]] = n[2]] :
              f \in Others, n \in UNION {{<<k, v>> : v \in 0 .. Top(k)} : k \in Fields}}

\* The buffer still holds the frame before.
Init == /\ fields \in Frames
        /\ bits \in {memset, [w \in 0 .. (FrameOctets - 1) |-> 255]}
        /\ nbit = 0 /\ got = << >> /\ phase = "new"

\* codec2_encode that packs into the buffer as it is
codec2_encode_dirty ==
    /\ phase = "new" /\ phase' = "encoded"
    /\ bits' = PackTo(bits, fields, Len(Widths))
    /\ nbit' = Start(Len(Widths)) + Widths[Len(Widths)]
    /\ UNCHANGED <<fields, got>>

codec2_encode ==
    /\ phase = "new" /\ phase' = "encoded"
    /\ bits' = Packed(fields)
    /\ nbit' = Start(Len(Widths)) + Widths[Len(Widths)]
    /\ UNCHANGED <<fields, got>>

codec2_decode ==
    /\ phase = "encoded" /\ phase' = "decoded"
    /\ got' = [k \in Fields |-> unpack(bits, Start(k), Widths[k])]
    /\ nbit' = Start(Len(Widths)) + Widths[Len(Widths)]
    /\ UNCHANGED <<fields, bits>>

Next == codec2_encode \/ codec2_decode

Spec == Init /\ [][Next]_vars

-----------------------------------------------------------------------------
\* Types of the variables; the bit index never leaves the frame.
TypeOK == /\ \A k \in Fields : fields[k] \in 0 .. Top(k)
          /\ bits \in [0 .. (FrameOctets - 1) -> Octet]
          /\ nbit \in 0 .. (WordSize * FrameOctets)
          /\ got = << >> \/ \A k \in Fields : got[k] \in 0 .. Top(k)
          /\ phase \in {"new", "encoded", "decoded"}

\* codec2.c:193, "assert(nbit == CODEC2_BITS_PER_FRAME)": encoder and decoder have gone
\* through the fields that make up a frame.
BitsCounted == phase # "new" => nbit = CODEC2_BITS_PER_FRAME

\* The decoder gets every field back, whatever the buffer held before and however a
\* field is cut by the bounds of octets.  (pack, unpack, the memset of codec2_encode)
RoundTrip == phase = "decoded" => got = fields

\* pack.c:35, "The Gray coding is a naive attempt to reduce the effect of single-bit
\* errors": frames one step apart in one field differ in one bit.
BitsOf(b) == {n \in 0 .. (WordSize * FrameOctets - 1) :
                 HasBit(b[n \div WordSize], 2 ^ (WordSize - 1 - (n % WordSize)))}
GrayNeighbours ==
    phase = "encoded" =>
        \A k \in Fields : fields[k] < Top(k) =>
            LET next == BitsOf(Packed([fields EXCEPT ![k] = @ + 1]))
                this == BitsOf(Packed(fields))
            IN \E n \in next \cup this :
                   (next \ this) \cup (this \ next) = {n}

\* codec2.c:134, "Encodes 160 speech samples (20ms of speech) into 51 bits".
FiftyOneBits == phase = "encoded" => nbit = 51
=============================================================================
