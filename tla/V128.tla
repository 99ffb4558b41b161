--------------------------------- MODULE V128 ---------------------------------
(***************************************************************************)
(* The 128-bit shifts of libsrtp (datatypes.c), which the SRTCP replay window *)
(* moves with: four words shifted in place, a word at a time, by a number of  *)
(* whole words and of bits.  A word is the set of its bits that are one, bit  *)
(* 0 the lowest; words have WordBits bits (32 in the code).                   *)
(***************************************************************************)
EXTENDS Integers

CONSTANTS WordBits,
          Shifts      \* numbers of bits to shift by

V128Assumption == WordBits \in Nat \ {0} /\ Shifts \subseteq Nat

Total == 4 * WordBits
Words == SUBSET (0 .. (WordBits - 1))

\* v128_get_bit, v128_set_bit and v128_clear_bit.
v128_get_bit(x, bit) == (bit % WordBits) \in x[bit \div WordBits]
v128_set_bit(x, bit) == [x EXCEPT ![bit \div WordBits] = @ \cup {bit % WordBits}]
v128_clear_bit(x, bit) == [x EXCEPT ![bit \div WordBits] = @ \ {bit % WordBits}]
BitsOf(x) == {bit \in 0 .. (Total - 1) : v128_get_bit(x, bit)}

\* C's shifts of a word.
Up(w, n) == {b + n : b \in {c \in w : c + n < WordBits}}
Down(w, n) == {b - n : b \in {c \in w : c >= n}}

VARIABLES x, index,   \* the vector and the shift
          op,         \* "left", "right", "wrap", "done" or "idle"
          dir,        \* history: the direction of the shift
          i,          \* loop variable
          before      \* history: the bits before the shift

vars == <<x, index, op, dir, i, before>>

base_index == index \div WordBits
bit_index == index % WordBits

Init == /\ x \in [0 .. 3 -> Words] /\ index \in Shifts
        /\ op = "idle" /\ dir = "none" /\ i = 0 /\ before = BitsOf(x)

\* A caller sets or clears a bit, or shifts.
SetBit(bit) == /\ op = "idle" /\ x' = v128_set_bit(x, bit) /\ before' = before \cup {bit}
               /\ UNCHANGED <<index, op, dir, i>>
ClearBit(bit) == /\ op = "idle" /\ x' = v128_clear_bit(x, bit) /\ before' = before \ {bit}
                 /\ UNCHANGED <<index, op, dir, i>>

\* The start of either shift: all bits go when there are more than there are.
Start(d) ==
    /\ op = "idle" /\ dir' = d /\ UNCHANGED <<index, before>>
    /\ IF index > Total - 1
       THEN x' = [w \in 0 .. 3 |-> {}] /\ op' = "done" /\ UNCHANGED i
       ELSE UNCHANGED x /\ op' = d /\ i' = IF d = "left" THEN 0 ELSE 4

\* The loop of v128_left_shift, from the low words up.
LeftStep ==
    /\ op = "left"
    /\ LET last == 4 - base_index - 1
       IN  IF bit_index = 0
           THEN IF i < 4 - base_index
                THEN x' = [x EXCEPT ![i] = x[i + base_index]] /\ i' = i + 1 /\ UNCHANGED op
                ELSE op' = "wrap" /\ UNCHANGED <<x, i>>
           ELSE IF i < last
                THEN /\ x' = [x EXCEPT ![i] = Down(x[i + base_index], bit_index)
                                         \cup Up(x[i + base_index + 1], WordBits - bit_index)]
                     /\ i' = i + 1 /\ UNCHANGED op
                ELSE /\ x' = [x EXCEPT ![last] = Down(x[3], bit_index)]
                     /\ op' = "wrap" /\ UNCHANGED i
    /\ UNCHANGED <<index, dir, before>>

\* The loop of v128_right_shift, from the high words down.
RightStep ==
    /\ op = "right"
    /\ LET from == i - 1 - base_index
       IN  IF i > base_index
           THEN /\ x' = [x EXCEPT ![i - 1] =
                            IF bit_index = 0 THEN x[from]
                            ELSE Up(x[from], bit_index) \cup
                                 (IF from > 0 THEN Down(x[from - 1], WordBits - bit_index) ELSE {})]
                /\ i' = i - 1 /\ UNCHANGED op
           ELSE op' = "wrap" /\ UNCHANGED <<x, i>>
    /\ UNCHANGED <<index, dir, before>>

\* Wrap up the final portion: the words that were moved away are zero.
Wrap ==
    /\ op = "wrap" /\ op' = "done"
    /\ x' = [w \in 0 .. 3 |->
                IF (dir = "left" /\ w >= 4 - base_index) \/ (dir = "right" /\ w < base_index)
                THEN {} ELSE x[w]]
    /\ UNCHANGED <<index, dir, i, before>>

Next == \/ \E bit \in 0 .. (Total - 1) : SetBit(bit) \/ ClearBit(bit)
        \/ Start("left") \/ Start("right") \/ LeftStep \/ RightStep \/ Wrap
Spec == Init /\ [][Next]_vars

-----------------------------------------------------------------------------
\* Types of the variables.
TypeOK == x \in [0 .. 3 -> Words] /\ i \in 0 .. 4

\* A shift moves every bit by its number and loses those that leave, although it
\* works in place and in the order of its loop; "left" is towards bit 0, where the
\* replay window starts.  (v128_left_shift, v128_right_shift)
ShiftsBits ==
    op = "done" =>
        BitsOf(x) = IF dir = "left" THEN {b - index : b \in {c \in before : c >= index}}
                    ELSE {b + index : b \in {c \in before : c + index < Total}}
=============================================================================
