---------------------------- MODULE Codec2Decode ----------------------------
(***************************************************************************)
(* The decoder of the speech codec between the bits and the sound          *)
(* (codec2_decode, interp.c, quantise.c, phase.c): the models of the two   *)
(* halves of a frame, their harmonics, and the bins of the spectrum each   *)
(* harmonic reads and writes.  Frequencies are whole numbers in the units  *)
(* of module Codebook; amplitudes and phases are left out.                 *)
(***************************************************************************)
EXTENDS Integers, Codebook

CONSTANT WoIndexes      \* the pitches that arrive

IndexAssumption == WoIndexes \subseteq 0 .. (WO_LEVELS - 1)

MAX_AMP == 80
FFT_DEC == 512
PI == (P_MAX \div 2) * Wo_min
BinWidth == (2 * PI) \div FFT_DEC       \* r: the frequency of one bin

\* "model_interp.Wo = P_MAX/2": 80 radians, where PI is 3.14.
PlaceHolder == (PI * 8000) \div 314

VARIABLES model,    \* the second half of the last frame
          interp,   \* its first half
          prev,     \* c2->prev_model
          last      \* history: Wo and voicing of the frame before

vars == <<model, interp, prev, last>>

decode_Wo(index) == Wo_min + index * ((Wo_max - Wo_min) \div WO_LEVELS)

\* L = PI/Wo: the float that stands for 2*PI/P_MAX lies above it, so the one quotient
\* that would be whole falls short of it.
Harmonics(Wo) == (PI - 1) \div Wo

Model(Wo, voiced) == [Wo |-> Wo, L |-> Harmonics(Wo), voiced |-> voiced]

\* The first half of a frame: if it is voiced it has the pitch of its voiced neighbours;
\* between two that are not, it keeps the value it had.
interpolate_lsp(before, next, voiced) ==
    Model(CASE ~ voiced -> Wo_min
            [] voiced /\ before.voiced /\ next.voiced -> (before.Wo + next.Wo) \div 2
            [] voiced /\ ~ before.voiced /\ next.voiced -> next.Wo
            [] voiced /\ before.voiced /\ ~ next.voiced -> before.Wo
            [] OTHER -> PlaceHolder,
          voiced)

\* codec2_create
Init == /\ prev = Model(Wo_min, FALSE)
        /\ model = prev /\ interp = prev
        /\ last = [Wo |-> Wo_min, voiced |-> FALSE]

\* codec2_decode that does not update its memories
codec2_decode_forgets(Wo_index, voiced1, voiced2) ==
    /\ model' = Model(decode_Wo(Wo_index), voiced2)
    /\ interp' = interpolate_lsp(prev, model', voiced1)
    /\ last' = [Wo |-> model.Wo, voiced |-> model.voiced]
    /\ UNCHANGED prev

codec2_decode(Wo_index, voiced1, voiced2) ==
    /\ model' = Model(decode_Wo(Wo_index), voiced2)
    /\ interp' = interpolate_lsp(prev, model', voiced1)
    /\ prev' = model'
    /\ last' = [Wo |-> model.Wo, voiced |-> model.voiced]

Next == \E i \in WoIndexes, v1 \in BOOLEAN, v2 \in BOOLEAN : codec2_decode(i, v1, v2)

Spec == Init /\ [][Next]_vars

-----------------------------------------------------------------------------
(* The bins of a model's harmonics                                         *)

Halves == {model, interp}

\* floor(twice/(2 * BinWidth) + 0.5); at a tie the float may lie on either side.
Bins(twice) == LET n == twice + BinWidth
                   q == n \div (2 * BinWidth)
               IN IF n % (2 * BinWidth) = 0 THEN {q - 1, q} ELSE {q}

\* The band of harmonic m, am .. (bm - 1), in aks_to_M2 and aks_to_H.
am(h, m) == Bins((2 * m - 1) * h.Wo)
bm(h, m) == Bins((2 * m + 1) * h.Wo)

\* The bin of harmonic l in synthesise and of its pulse in phase_synth_zero_order.
CentreBin(h, l) == LET top == FFT_DEC \div 2 - 1
                   IN {IF b > top THEN top ELSE b : b \in Bins(2 * l * h.Wo)}

Powers == 0 .. (FFT_DEC \div 2 - 1)     \* the bins aks_to_M2 turns into a power

-----------------------------------------------------------------------------
\* Types of the variables.
TypeOK == LET Models == [Wo : Wo_min .. PlaceHolder, L : Nat, voiced : BOOLEAN]
          IN /\ model \in Models /\ interp \in Models /\ prev \in Models
             /\ last \in [Wo : Nat, voiced : BOOLEAN]

\* defines.h:40, "maximum number of harmonics": A, phi, Ex, A_ and H have MAX_AMP elements
\* and are used from 1 to L, so L must stay below MAX_AMP at every pitch that can be
\* received, interpolated or set, the lowest one too.
HarmonicsFit == \A h \in Halves : h.L < MAX_AMP

\* Every harmonic of a frame reads bins of the spectrum and is written to a bin of its own
\* in the lower half, whose mirror is in the upper half.  (aks_to_H, synthesise)
OwnBins ==
    \A h \in Halves : \A m \in 1 .. h.L :
        /\ \A a \in am(h, m), b \in bm(h, m) : 0 < a /\ a < b /\ b <= FFT_DEC
        /\ \A c \in CentreBin(h, m) :
               /\ 0 < c /\ c < FFT_DEC - c
               /\ m > 1 => \A d \in CentreBin(h, m - 1) : d < c

\* A voiced first half next to a voiced frame has a pitch between those of its voiced
\* neighbours, the earlier being the frame decoded in the call before.
FollowsNeighbours ==
    LET voiced == {n \in {last, [Wo |-> model.Wo, voiced |-> model.voiced]} : n.voiced}
    IN interp.voiced /\ voiced # {} =>
           /\ \E n \in voiced : n.Wo <= interp.Wo
           /\ \E n \in voiced : n.Wo >= interp.Wo

\* interp.c:418-421, "determines the model parameters of the 10ms frame between them ...
\* Outputs are amplitudes and Wo for the interpolated frame": it has a pitch of the codec's
\* range and harmonics that sound.
MiddleHasPitch == Wo_min <= interp.Wo /\ interp.Wo <= Wo_max /\ interp.L > 0

\* quantise.c:462-463, "determines A(m) from the average energy per band": every bin that is
\* summed holds a power.
BandsArePower ==
    \A h \in Halves : \A m \in 1 .. h.L : \A b \in bm(h, m) : b - 1 \in Powers
=============================================================================
