------------------------------ MODULE Quantise ------------------------------
(***************************************************************************)
(* The quantisers of the speech codec (quantise.c, codebook.c): the pitch  *)
(* Wo, the energy and the line spectrum pairs (LSPs), all whole numbers in *)
(* the units of module Codebook.                                           *)
(***************************************************************************)
EXTENDS Integers, Codebook

Abs(n) == IF n < 0 THEN 0 - n ELSE n

\* The first codeword of those nearest to v ("if (e < beste)").
quantise(cb, v) ==
    CHOOSE j \in DOMAIN cb :
        /\ \A k \in DOMAIN cb : Abs(cb[j] - v) <= Abs(cb[k] - v)
        /\ \A k \in 0 .. (j - 1) : Abs(cb[j] - v) < Abs(cb[k] - v)

encode_lsps(i, lsp) == quantise(lsp_cb[i], lsp)
decode_lsps(i, index) == lsp_cb[i][index]

-----------------------------------------------------------------------------
(* Uniform quantisers                                                      *)

Clamp(v, hi) == IF v < 0 THEN 0 ELSE IF v > hi THEN hi ELSE v

\* floor(levels * (v - min)/(max - min) + 0.5), for v around the range
Level(v, min, max, levels) ==
    (2 * levels * (v - min) + (max - min)) \div (2 * (max - min))

encode_Wo(Wo) == Clamp(Level(Wo, Wo_min, Wo_max, WO_LEVELS), WO_LEVELS - 1)

decode_Wo(index) == Wo_min + index * ((Wo_max - Wo_min) \div WO_LEVELS)

encode_energy(e) == Clamp(Level(e, E_MIN_DB, E_MAX_DB, E_LEVELS), E_LEVELS - 1)
decode_energy(index) == E_MIN_DB + index * ((E_MAX_DB - E_MIN_DB) \div E_LEVELS)

-----------------------------------------------------------------------------
(* decode_amplitudes: the LSPs of a frame, from the first to the last      *)

\* The least distance of LSP i from the one below it.
MinDistance(i) == CASE i \in 1 .. 4 -> 25 [] i \in 5 .. 7 -> Hz(25) [] OTHER -> Hz(75)

\* bw_expand_lsps for LSP i, the one below having been expanded already.
bw_expand_lsps(i, lsp, below) ==
    IF lsp - below < MinDistance(i) THEN below + MinDistance(i) ELSE lsp

-----------------------------------------------------------------------------
(* One parameter goes through encoder and decoder, or a decoder gets the   *)
(* LSPs of a frame of the peer, each quantised for itself.                 *)

WO == 0 - 2
ENERGY == 0 - 1
Parameters == (0 - 2) .. (LPC_ORD - 1)
None == 0 - 1000000

encode(p, v) == CASE p = WO -> encode_Wo(v)
                  [] p = ENERGY -> encode_energy(v)
                  [] OTHER -> encode_lsps(p, v)
Indexes(p) == CASE p = WO -> 0 .. (WO_LEVELS - 1)
                [] p = ENERGY -> 0 .. (E_LEVELS - 1)
                [] OTHER -> 0 .. (2 ^ lsp_bits(p) - 1)
decode(p, n) == CASE p = WO -> decode_Wo(n)
                  [] p = ENERGY -> decode_energy(n)
                  [] OTHER -> decode_lsps(p, n)

\* What the analysis finds: pitch and energy in and around their ranges, LSPs up to
\* half of the sample rate.
Inputs(p) == CASE p = WO -> (Wo_min - 80) .. (Wo_max + 80)
               [] p = ENERGY -> (E_MIN_DB - 100) .. (E_MAX_DB + 100)
               [] OTHER -> {5 * k : k \in 0 .. 1600}

VARIABLES param,    \* the parameter: WO, ENERGY or the number of an LSP
          value,    \* what the analysis found, None in a decoder's run
          index,    \* the index on the line
          out,      \* what the decoder made of it
          below     \* the LSP below, as the decoder left it; 0 at first

vars == <<param, value, index, out, below>>

Init == /\ \/ param \in Parameters /\ value \in Inputs(param)
           \/ param = 0 /\ value = None
        /\ index = None /\ out = None /\ below = 0

Encode == /\ value # None /\ index = None
          /\ index' = encode(param, value)
          /\ UNCHANGED <<param, value, out, below>>

\* A frame of the peer has any index.
Received == /\ value = None /\ index = None
           /\ index' \in Indexes(param)
           /\ UNCHANGED <<param, value, out, below>>

\* In a frame every LSP but the first is expanded against the one below.
Decode == /\ index # None /\ out = None
          /\ out' = (IF value = None /\ param > 0
                     THEN bw_expand_lsps(param, decode(param, index), below)
                     ELSE decode(param, index))
          /\ UNCHANGED <<param, value, index, below>>

NextLsp == /\ value = None /\ out # None /\ param < LPC_ORD - 1
           /\ param' = param + 1 /\ below' = out
           /\ index' = None /\ out' = None
           /\ UNCHANGED value

Next == Encode \/ Received \/ Decode \/ NextLsp

Spec == Init /\ [][Next]_vars

-----------------------------------------------------------------------------
\* Types of the variables: an index always fits the bits it is packed into, and what a
\* decoder makes of any index is a pitch, an energy or a frequency of its range.
TypeOK == /\ param \in Parameters
          /\ value \in Inputs(param) \cup {None}
          /\ index \in Indexes(param) \cup {None}
          /\ out \in Int /\ below \in Nat

\* A parameter that is decoded and encoded again, as on a line through two codecs, keeps
\* its index.  (encode_Wo, decode_Wo, encode_energy, decode_energy, encode_lsps, decode_lsps)
Tandem == value # None /\ out # None => encode(param, out) = index

\* quantise.c:111, "choosing the nearest vector in codebook": no index would have brought
\* the decoder nearer to what the encoder saw, at the ends of the ranges too, where the
\* encoder clamps.
NearestLevel ==
    value # None /\ out # None =>
        \A n \in Indexes(param) : Abs(decode(param, n) - value) >= Abs(out - value)

\* quantise.c:693, "Prevents any two LSPs getting too close together": the codebooks
\* of neighbours overlap, yet whatever indexes a frame has, its decoded LSPs rise by the least
\* distances and stay below half of the sample rate, so the filter made from them is stable.
RisingLsps ==
    value = None /\ out # None =>
        /\ 0 < out /\ out < Hz(4000)
        /\ param > 0 => out - below >= (IF param <= 4 THEN 25 ELSE IF param <= 7 THEN Hz(25) ELSE Hz(75))
=============================================================================
