------------------------------ MODULE Synthesis ------------------------------
(***************************************************************************)
(* The synthesis memory of the speech decoder (make_synthesis_window,      *)
(* synthesise and the excitation phase of phase_synth_zero_order): each    *)
(* call turns a spectrum into a stretch of sound, weighs it with the       *)
(* window and adds it to what is left of the call before.  A sample is the *)
(* set of its parts, each the call it is of, its time relative to that     *)
(* call's centre and its weight in units of 1/(2*TW).                      *)
(***************************************************************************)
EXTENDS Integers

CONSTANTS N,        \* samples of a synthesis frame
          TW,       \* half of the overlap of the windows
          FFT_DEC,
          Circle,   \* the parts of a turn in which phases are measured
          Pitches   \* the values of Wo in these parts

SynthesisAssumption == /\ N \in Nat /\ TW \in 1 .. (N \div 2) /\ N % 2 = 0
                       /\ FFT_DEC \in Nat /\ FFT_DEC % 2 = 0 /\ 2 * N <= FFT_DEC
                       /\ Circle \in Nat \ {0} /\ Pitches \subseteq 1 .. Circle

VARIABLES Sn_,      \* the memory of 2*N samples
          ex_phase, \* the phase of the fundamental
          calls     \* how many calls were made, up to 2

vars == <<Sn_, ex_phase, calls>>

-----------------------------------------------------------------------------
\* make_synthesis_window: nothing, a rise, one, a fall, nothing.
make_synthesis_window(i) ==
    CASE i < N \div 2 - TW -> 0
      [] i >= N \div 2 - TW /\ i < N \div 2 + TW -> i - (N \div 2 - TW)
      [] i >= N \div 2 + TW /\ i < (3 * N) \div 2 - TW -> 2 * TW
      [] i >= (3 * N) \div 2 - TW /\ i < (3 * N) \div 2 + TW -> (3 * N) \div 2 + TW - i
      [] OTHER -> 0

\* The time a sample of the inverse transform stands for: the upper half is negative.
Time(j) == IF j < FFT_DEC \div 2 THEN j ELSE j - FFT_DEC

\* A part of the call that is age calls back; one without weight is no part.
Part(j, i) == IF make_synthesis_window(i) = 0 THEN {}
              ELSE {[age |-> 0, time |-> Time(j), weight |-> make_synthesis_window(i)]}
Older(parts) == {[p EXCEPT !.age = @ + 1] : p \in parts}

\* The memory shifted by one sample too few
Shifted_short(i) == IF i < N - 1 THEN Older(Sn_[i + N - 1]) ELSE {}

\* "if (shift)": N - 1 samples move down, and sample N - 1 is cleared.
Shifted(i) == IF i < N - 1 THEN Older(Sn_[i + N]) ELSE {}

\* The lower samples are added to what the memory holds, the others replace it.
synthesise == [i \in 0 .. (2 * N - 1) |->
    IF i < N - 1 THEN Shifted(i) \cup Part(FFT_DEC - N + 1 + i, i)
    ELSE Part(i - (N - 1), i)]

\* ex_phase += Wo*N, brought back into one turn around 0
advance(Wo) == LET x == ex_phase + Wo * N
               IN x - Circle * ((2 * x + Circle) \div (2 * Circle))

Init == /\ Sn_ = [i \in 0 .. (2 * N - 1) |-> {}]
        /\ ex_phase = 0 /\ calls = 0

\* synthesise_one_frame: the first N samples of Sn_ go to the caller.
synthesise_one_frame(Wo) ==
    /\ ex_phase' = advance(Wo)
    /\ Sn_' = synthesise
    /\ calls' = IF calls = 2 THEN 2 ELSE calls + 1

Next == \E Wo \in Pitches : synthesise_one_frame(Wo)

Spec == Init /\ [][Next]_vars

-----------------------------------------------------------------------------
\* Types of the variables: a sample has at most one part of each of two calls.
TypeOK == /\ \A i \in DOMAIN Sn_ : Sn_[i] \subseteq
                 [age : 0 .. 1, time : (0 - N) .. N, weight : 1 .. (2 * TW)]
          /\ DOMAIN Sn_ = 0 .. (2 * N - 1)
          /\ ex_phase \in Int /\ calls \in 0 .. 2

\* phase.c:178, "the excitation phases are continuous": the phase stays within half a turn
\* of 0 however long the call lasts, so a float never loses its fraction.
PhaseBounded == (0 - Circle) <= 2 * ex_phase /\ 2 * ex_phase < Circle

\* The weight of the part of a sample that is of the call age calls back.
Weight(i, age) == LET old == {p \in Sn_[i] : p.age = age}
                  IN  IF old = {} THEN 0 ELSE (CHOOSE p \in old : TRUE).weight

\* sine.c:548, "Uses overlap-add with a trapezoidal window to smoothly interpolate betwen
\* frames": once there are two calls the weights of every sample that is played add up to
\* one, but for the one sample of a frame that has lost the end of the window before,
\* which misses one step of the window, and never to more; no call is added twice.
WeightsAddUp ==
    /\ \A i \in 0 .. (2 * N - 1) : \A p \in Sn_[i], q \in Sn_[i] : p.age = q.age => p = q
    /\ calls = 2 => \A i \in 0 .. (N - 1) :
           LET sum == Weight(i, 0) + Weight(i, 1)
           IN  sum = 2 * TW \/ (i = N - 1 /\ sum = 2 * TW - 1)

\* The parts of a sample stand for one time: a frame's centre is N samples after the
\* centre of the frame before.
PartsMeet == \A i \in 0 .. (2 * N - 1) : \A p \in Sn_[i], q \in Sn_[i] :
                 p.time - p.age * N = q.time - q.age * N
=============================================================================
