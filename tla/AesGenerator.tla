---------------------------- MODULE AesGenerator ----------------------------
(***************************************************************************)
(* tables/aes_tables.c, the program that computes the tables of aes.c: the *)
(* substitution box from the inverses of GF(2^8) and an affine map, then   *)
(* the tables of words.  One step per entry.  A word is written as its     *)
(* four octets in memory (v32_t.v8).                                       *)
(***************************************************************************)
EXTENDS AesTables

VARIABLES pc, i, sbox, inv_sbox, T, U

vars == <<pc, i, sbox, inv_sbox, T, U>>

A == << 31, 62, 124, 248, 241, 227, 199, 143 >>

\* math.c: A_times_x_plus_b, with the columns A and the vector b of the program
A_times_x_plus_b(x) ==
    LET col(n) == IF HasBit(x, 2^n) THEN A[n + 1] ELSE 0
    IN  Xor(99, Xor(Xor(Xor(col(0), col(1)), Xor(col(2), col(3))),
                    Xor(Xor(col(4), col(5)), Xor(col(6), col(7)))))

Init == /\ pc = "sbox" /\ i = 0
        /\ sbox = << >> /\ inv_sbox = [x \in Octet |-> 0]
        /\ T = << >> /\ U = << >>

\* The loops run over i = 0 .. 255, one after the other.
Loop(next) == IF i < 255 THEN i' = i + 1 /\ pc' = pc ELSE i' = 0 /\ pc' = next

aes_init_sbox ==
    /\ pc = "sbox"
    /\ LET x == A_times_x_plus_b(gf2_8_compute_inverse(i))
       IN  /\ sbox' = Append(sbox, x)
           /\ inv_sbox' = [inv_sbox EXCEPT ![x] = i]
    /\ Loop("tables")
    /\ UNCHANGED <<T, U>>

aes_compute_tables ==
    /\ pc = "tables"
    /\ LET x1 == sbox[i + 1]  x2 == gf2_8_shift(x1)  x3 == Xor(x2, x1)
       IN  T' = Append(T, << << x2, x1, x1, x3 >>, << x3, x2, x1, x1 >>,
                             << x1, x3, x2, x1 >>, << x1, x1, x3, x2 >> >>)
    /\ Loop("inv_tables")
    /\ UNCHANGED <<sbox, inv_sbox, U>>

aes_compute_inv_tables ==
    /\ pc = "inv_tables"
    /\ LET x == inv_sbox[i]
           xe == gf2_8_multiply(14, x)  x9 == gf2_8_multiply(9, x)
           xd == gf2_8_multiply(13, x)  xb == gf2_8_multiply(11, x)
       IN  U' = Append(U, << << xe, x9, xd, xb >>, << xb, xe, x9, xd >>,
                             << xd, xb, xe, x9 >>, << x9, xd, xb, xe >>, << x, x, x, x >> >>)
    /\ Loop("done")
    /\ UNCHANGED <<sbox, inv_sbox, T>>

Next == aes_init_sbox \/ aes_compute_tables \/ aes_compute_inv_tables

Spec == Init /\ [][Next]_vars

-----------------------------------------------------------------------------
\* The newest entry of a table that has been computed so far.
Newest(t) == Len(t) - 1

\* "these tables are computed using the program tables/aes_tables" (aes.c): the
\* substitution box written out in aes.c is the one the program computes, and
\* the inverse box is its inverse.
SboxAgrees ==
    /\ sbox # << >> => sbox[Len(sbox)] = Sbox(Newest(sbox))
    /\ pc # "sbox" => \A x \in Octet : inv_sbox[x] = InvSbox(x)

\* The words written out in aes.c are the computed octets, read in the byte order of a
\* little-endian and of a big-endian processor; those of T4 and U4 are four times one
\* octet of the boxes.
WordsAgree ==
    LET le(m) == << m[4], m[3], m[2], m[1] >>
    IN  /\ T # << >> =>
             LET n == Newest(T) t == T[Len(T)]
             IN  /\ t = << Word(T0_be, n), Word(T1_be, n), Word(T2_be, n), Word(T3_be, n) >>
                 /\ << le(t[1]), le(t[2]), le(t[3]), le(t[4]) >>
                       = << Word(T0_le, n), Word(T1_le, n), Word(T2_le, n), Word(T3_le, n) >>
                 /\ Word(T4, n) = [k \in 1 .. 4 |-> sbox[n + 1]]
        /\ U # << >> =>
             LET n == Newest(U) u == U[Len(U)]
             IN  /\ u = << Word(U0_be, n), Word(U1_be, n), Word(U2_be, n), Word(U3_be, n),
                           Word(U4, n) >>
                 /\ << le(u[1]), le(u[2]), le(u[3]), le(u[4]) >>
                       = << Word(U0_le, n), Word(U1_le, n), Word(U2_le, n), Word(U3_le, n) >>
=============================================================================
