------------------------------- MODULE Octets -------------------------------
(***************************************************************************)
(* Octets, 128-bit blocks and the field GF(2^8) of libsrtp (datatypes.h,   *)
(* gf2_8.h, gf2_8.c).  An octet is a number below 256; a v128_t is the     *)
(* function of its sixteen octets v8[0..15].                               *)
(***************************************************************************)
EXTENDS Naturals

Octet == 0 .. 255

\* Bit k (a power of two) of x.
HasBit(x, k) == (x \div k) % 2 = 1

\* The exclusive or, by a table over half octets.
XorNibble ==
    [a \in 0 .. 15, b \in 0 .. 15 |->
        LET bit(k) == k * ((a \div k + b \div k) % 2)
        IN  bit(8) + bit(4) + bit(2) + bit(1)]
Xor(a, b) == 16 * XorNibble[a \div 16, b \div 16] + XorNibble[a % 16, b % 16]

v128_xor(x, y) == [i \in 0 .. 15 |-> Xor(x[i], y[i])]

-----------------------------------------------------------------------------
\* gf2_8_shift(z): z times x modulo the field polynomial 0x1B, in a gf2_8.
Shifted == [z \in Octet |-> IF HasBit(z, 128) THEN Xor((2 * z) % 256, 27) ELSE 2 * z]
gf2_8_shift(z) == Shifted[z]

\* gf2_8_multiply: the sum of the shifted x at the bits of y
gf2_8_multiply(x, y) ==
    LET shifted[n \in 0 .. 7] == IF n = 0 THEN x ELSE gf2_8_shift(shifted[n - 1])
        z[n \in 0 .. 8] == IF n = 0 THEN 0
                           ELSE Xor(z[n - 1], IF HasBit(y, 2^(n - 1)) THEN shifted[n - 1] ELSE 0)
    IN  z[8]

\* gf2_8_compute_inverse: the first i with i x = 1, and 0 for 0.
gf2_8_compute_inverse(x) ==
    IF x = 0 THEN 0
    ELSE CHOOSE i \in Octet : /\ gf2_8_multiply(i, x) = 1
                              /\ \A j \in 0 .. (i - 1) : gf2_8_multiply(j, x) # 1
=============================================================================
