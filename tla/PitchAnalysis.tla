---------------------------- MODULE PitchAnalysis ----------------------------
(***************************************************************************)
(* The analysis of one half of a speech frame (analyse_one_frame): the     *)
(* pitch estimate of nlp.c, its refinement, the bins of the harmonics and  *)
(* the voicing decision of sine.c.  What the spectra hold is open: any bin *)
(* may be a peak and any candidate the best.  A pitch of p samples is the  *)
(* fraction num/(4 * cmax_bin); a fundamental is in eighths of 1 Hz.       *)
(***************************************************************************)
EXTENDS Integers

CONSTANTS PeakBins,     \* where the global peak of the squared speech may lie
          CoarseSteps,  \* the samples a coarse refinement moves the pitch by
          FineSteps,    \* the quarters of a sample a fine one moves it by
          Halves        \* bound: the halves that are analysed

N == 80
MAX_AMP == 80
FFT_ENC == 512
P_MIN == 20
P_MAX == 160
PE_FFT_SIZE == 512
DEC == 5
SAMPLE_RATE == 8000
PeakSpan == PE_FFT_SIZE * DEC           \* bins per sample of pitch

min_bin == PeakSpan \div P_MAX
max_bin == PeakSpan \div P_MIN

StepsAssumption == /\ PeakBins \subseteq min_bin .. max_bin
                   /\ CoarseSteps \subseteq (0 - 5) .. 5
                   /\ FineSteps \subseteq (0 - 4) .. 4
                   /\ Halves \in Nat

VARIABLES stage,        \* "nlp", "coarse", "fine" or "voicing"
          cmax_bin,     \* the peak that was chosen
          num,          \* the pitch times 4 * cmax_bin
          Wo,           \* the fundamental of this half
          prev_Wo,      \* c2->prev_Wo; 0 at first
          voiced,       \* the decision on the last half
          before,       \* history: the fundamental of the half before the last
          halves        \* the halves that have been analysed

vars == <<stage, cmax_bin, num, Wo, prev_Wo, voiced, before, halves>>

Hz(f) == 8 * f
Quarter == cmax_bin                     \* a quarter of a sample, as num counts
Sample == 4 * cmax_bin

-----------------------------------------------------------------------------
(* nlp.c                                                                   *)

\* The submultiples of the global peak that are searched, and their intervals.
Multiples(g) == {m \in 2 .. max_bin : g \div m >= min_bin}
\* bmin = 0.8*b, but not below the lowest bin; bmax = 1.2*b
bmin(g, mult) == LET b == (8 * (g \div mult)) \div 10
                 IN IF b < min_bin THEN min_bin ELSE b
bmax(g, mult) == (12 * (g \div mult)) \div 10

\* The last submultiple with a peak that is high enough, or else the global peak.
post_process_sub_multiples(g) ==
    {g} \cup UNION {bmin(g, m) .. bmax(g, m) : m \in Multiples(g)}

\* nlp, and the pitch it estimates: SAMPLE_RATE/best_f0 = PeakSpan/cmax_bin.
nlp == /\ stage = "nlp" /\ halves < Halves
       /\ \E g \in PeakBins : cmax_bin' \in post_process_sub_multiples(g)
       /\ num' = 4 * PeakSpan
       /\ stage' = "coarse"
       /\ UNCHANGED <<Wo, prev_Wo, voiced, before, halves>>

-----------------------------------------------------------------------------
(* sine.c: refinement                                                      *)

\* L = TWO_PI/Wo, twice as many harmonics as lie below half the sampling rate
Harmonics_all(p) == p \div Sample

\* L = PI/Wo of a pitch
Harmonics(p) == p \div (2 * Sample)

\* The bin of harmonic m at pitch p: floor(m*FFT_ENC/p + 0.5)
Bin(m, p) == (2 * m * FFT_ENC * Sample + p) \div (2 * p)

\* One of the candidates has the highest harmonic sum, or none has any.
hs_pitch_refinement(offsets) == num' \in {num} \cup {num + o : o \in offsets}

coarse == /\ stage = "coarse" /\ stage' = "fine"
          /\ hs_pitch_refinement({k * Sample : k \in CoarseSteps})
          /\ UNCHANGED <<cmax_bin, Wo, prev_Wo, voiced, before, halves>>

\* The pitch within P_MIN .. P_MAX.
Limited(p) == CASE p > P_MAX * Sample -> P_MAX * Sample
                [] p < P_MIN * Sample -> P_MIN * Sample
                [] OTHER -> p

Fundamental(p) == (Hz(SAMPLE_RATE) * Sample) \div p

\* The fine refinement and the limits.  num stays: L and the bins of the bands follow from it.
fine == /\ stage = "fine" /\ stage' = "voicing"
        /\ \E o \in {k * Quarter : k \in FineSteps} \cup {0} :
               /\ num' = Limited(num + o)
               /\ Wo' = Fundamental(Limited(num + o))
        /\ UNCHANGED <<cmax_bin, prev_Wo, voiced, before, halves>>

-----------------------------------------------------------------------------
(* sine.c: voicing                                                         *)

Ratios == {"below -10", "below -4", "middle", "above 10"}      \* eratio in dB
Abs(n) == IF n < 0 THEN 0 - n ELSE n

\* snr > V_THRESH, then the corrections of errors of type 1 and 2.
Decision(snr, eratio) ==
    /\ snr \/ eratio = "above 10"
    /\ eratio # "below -10"
    /\ Abs(Wo - prev_Wo) <= Hz(15)
    /\ ~ (eratio \in {"below -10", "below -4"} /\ Wo <= Hz(60))

\* est_voicing_mbe, and analyse_one_frame keeps the pitch for the next half.
est_voicing_mbe ==
    /\ stage = "voicing" /\ stage' = "nlp"
    /\ \E snr \in BOOLEAN, eratio \in Ratios : voiced' = Decision(snr, eratio)
    /\ before' = prev_Wo /\ halves' = halves + 1
    /\ prev_Wo' = Wo
    /\ cmax_bin' = min_bin /\ num' = 4 * PeakSpan
    /\ UNCHANGED Wo

Init == /\ stage = "nlp" /\ cmax_bin = min_bin /\ num = 4 * PeakSpan
        /\ Wo = 0 /\ prev_Wo = 0 /\ voiced = FALSE /\ before = 0 /\ halves = 0

Next == nlp \/ coarse \/ fine \/ est_voicing_mbe

Spec == Init /\ [][Next]_vars

-----------------------------------------------------------------------------
\* Types of the variables.
TypeOK == /\ stage \in {"nlp", "coarse", "fine", "voicing"}
          /\ cmax_bin \in min_bin .. max_bin
          /\ num \in Nat \ {0}
          /\ Wo \in 0 .. Hz(SAMPLE_RATE) /\ prev_Wo \in 0 .. Hz(SAMPLE_RATE)
          /\ before \in 0 .. Hz(SAMPLE_RATE) /\ halves \in 0 .. Halves /\ voiced \in BOOLEAN

\* The bins of all arrays that are read at a stage.
Spectrum == 0 .. (FFT_ENC - 1)
Read(p, offsets) == \A m \in 1 .. Harmonics(p), o \in offsets :
                        Bin(m, p + o) \in Spectrum
Bands == \A m \in 1 .. Harmonics(num) :
    LET a == (2 * (2 * m - 1) * FFT_ENC * Sample + 2 * num) \div (4 * num)
        b == (2 * (2 * m + 1) * FFT_ENC * Sample + 2 * num) \div (4 * num)
    IN \A i \in a .. (b - 1) : i \in Spectrum
                               /\ i + FFT_ENC \div 2 - Bin(m, num) \in Spectrum

\* A refinement counts the harmonics of the pitch it starts from and places them at the
\* pitch it tries, which may be a quarter shorter: every bin it sums, and every bin and
\* window element of the bands of the final pitch, is one of the arrays'.
\* (hs_pitch_refinement, estimate_amplitudes)
BinsInSpectrum ==
    /\ stage = "coarse" => Read(num, {k * Sample : k \in (0 - 5) .. 5})
    /\ stage = "fine" => Read(num, {k * Quarter : k \in (0 - 4) .. 4})
    /\ stage = "voicing" => Bands

\* Whatever peak is chosen and however it is refined, the pitch that is encoded is within
\* its limits and its harmonics fit the arrays of a model, where L = MAX_AMP is the one case
\* the floats decide.  (nlp, two_stage_pitch_refinement; defines.h:40)
PitchInRange == stage = "voicing" => /\ Hz(50) <= Wo /\ Wo <= Hz(400)
                                     /\ Harmonics(num) <= MAX_AMP

\* sine.c:488, "If pitch is jumping about it's likely this is UV": a half is declared voiced
\* only if its pitch is within 15 Hz of the half before, so never the first one, and no
\* strong low frequencies bring it back.
VoicedIsSteady == stage = "nlp" /\ voiced => before # 0 /\ Abs(prev_Wo - before) <= Hz(15)
=============================================================================
