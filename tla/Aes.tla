-------------------------------- MODULE Aes --------------------------------
(***************************************************************************)
(* AES-128 of libsrtp (aes.c): the expansion of a key, the encryption of a *)
(* block with it, the expansion for decryption, and the decryption of what *)
(* came out.  One step per round key and per round.                        *)
(*                                                                         *)
(* A build is a choice of the options CPU and WORDS_BIGENDIAN of config.h, *)
(* which select variants of the code; the phone is CISC, little endian.    *)
(* The CPU_16 variant does not compile and is left out.                    *)
(***************************************************************************)
EXTENDS AesTables, SequencesExt

CONSTANTS Builds,            \* the builds, keys and plaintexts that are tried
          Keys, Blocks

BuildsAssumption ==
    Builds \subseteq [CPU : {"CISC", "RISC"}, WORDS_BIGENDIAN : BOOLEAN]

VARIABLES build, pc, key, plaintext,
          expanded_key,      \* expanded_key[0..10], round keys
          rc,                \* the round constant
          i,                 \* the round key or the round that is next
          block              \* the v128_t that is encrypted in place

vars == <<build, pc, key, plaintext, expanded_key, rc, i, block>>

CPU == build.CPU
WORDS_BIGENDIAN == build.WORDS_BIGENDIAN

-----------------------------------------------------------------------------
(* Words: tuples of octets, the most significant first.                    *)
WordXor(a, b) == [n \in 1 .. 4 |-> Xor(a[n], b[n])]
WordXor4(a, b, c, d) == WordXor(WordXor(a, b), WordXor(c, d))

\* x->v32[j], and the v128_t with given words
v32(x, j) ==
    LET m == << x[4*j], x[4*j + 1], x[4*j + 2], x[4*j + 3] >>
    IN  IF WORDS_BIGENDIAN THEN m ELSE Reverse(m)
FromWords(w) ==
    [n \in 0 .. 15 |-> w[n \div 4][IF WORDS_BIGENDIAN THEN (n % 4) + 1 ELSE 4 - (n % 4)]]

T(k, x) ==
    Word(IF WORDS_BIGENDIAN
         THEN CASE k = 0 -> T0_be [] k = 1 -> T1_be [] k = 2 -> T2_be [] k = 3 -> T3_be
         ELSE CASE k = 0 -> T0_le [] k = 1 -> T1_le [] k = 2 -> T2_le [] k = 3 -> T3_le, x)
U(k, x) ==
    Word(IF WORDS_BIGENDIAN
         THEN CASE k = 0 -> U0_be [] k = 1 -> U1_be [] k = 2 -> U2_be [] k = 3 -> U3_be
         ELSE CASE k = 0 -> U0_le [] k = 1 -> U1_le [] k = 2 -> U2_le [] k = 3 -> U3_le, x)

-----------------------------------------------------------------------------
(* Key expansion.                                                          *)

\* aes_expand_encryption_key: a round key from the one before.  (The words are
\* exored whole, so the order of their octets does not matter.)
NextRoundKey(p, c) ==
    LET w0 == << Xor(Xor(Sbox(p[13]), c), p[0]), Xor(Sbox(p[14]), p[1]),
                 Xor(Sbox(p[15]), p[2]), Xor(Sbox(p[12]), p[3]) >>
        w1 == WordXor(w0, << p[4], p[5], p[6], p[7] >>)
        w2 == WordXor(w1, << p[8], p[9], p[10], p[11] >>)
        w3 == WordXor(w2, << p[12], p[13], p[14], p[15] >>)
    IN  [n \in 0 .. 15 |-> (w0 \o w1 \o w2 \o w3)[n + 1]]

\* aes_expand_decryption_key: the inverse MixColumns of one round key.
InvMixKey(k) ==
    FromWords([j \in 0 .. 3 |->
        IF CPU = "CISC"
        THEN WordXor4(U(0, Sbox(k[4*j])), U(1, Sbox(k[4*j + 1])),
                      U(2, Sbox(k[4*j + 2])), U(3, Sbox(k[4*j + 3])))
        ELSE LET t == v32(k, j)
             IN  WordXor4(U(0, Word(T4, t[1])[4]), U(1, Word(T4, t[2])[4]),
                          U(2, Word(T4, t[3])[4]), U(3, Word(T4, t[4])[4]))])

\* aes_expand_decryption_key: the round keys in the opposite order, all but the
\* first and the last transformed.
aes_expand_decryption_key(e) ==
    [n \in 0 .. 10 |-> IF n \in 1 .. 9 THEN InvMixKey(e[10 - n]) ELSE e[10 - n]]

-----------------------------------------------------------------------------
(* The rounds of a CISC build.                                             *)

\* aes_round that takes the rows unshifted
aes_round_unshifted(s, k) ==
    FromWords([j \in 0 .. 3 |->
        WordXor(v32(k, j), WordXor4(T(0, s[4*j]), T(1, s[4*j + 1]),
                                    T(2, s[4*j + 2]), T(3, s[4*j + 3]))) ])

aes_round(s, k) ==
    FromWords([j \in 0 .. 3 |->
        WordXor(v32(k, j), WordXor4(T(0, s[4*j]), T(1, s[(4*j + 5) % 16]),
                                    T(2, s[(4*j + 10) % 16]), T(3, s[(4*j + 15) % 16]))) ])

aes_inv_round(s, k) ==
    FromWords([j \in 0 .. 3 |->
        WordXor(v32(k, j), WordXor4(U(0, s[4*j]), U(1, s[(4*j + 13) % 16]),
                                    U(2, s[(4*j + 10) % 16]), U(3, s[(4*j + 7) % 16]))) ])

\* Row r of the square is shifted r octets to the left: octet n comes from
\* column n \div 4 + r.
aes_final_round(s, k) ==
    [n \in 0 .. 15 |-> Xor(Sbox(s[(n + 4 * (n % 4)) % 16]), k[n])]

aes_inv_final_round(s, k) ==
    [n \in 0 .. 15 |-> Xor(InvSbox(s[(n + 12 * (n % 4)) % 16]), k[n])]

-----------------------------------------------------------------------------
(* The rounds of a RISC build, which takes the octets out of the words.    *)

risc_round(s, k) ==
    FromWords([j \in 0 .. 3 |->
        LET w(n) == v32(s, (j + n) % 4)
            at(n) == IF WORDS_BIGENDIAN THEN w(n)[n + 1] ELSE w(n)[4 - n]
        IN  WordXor(v32(k, j), WordXor4(T(0, at(0)), T(1, at(1)), T(2, at(2)), T(3, at(3)))) ])

\* The little-endian branch walks through the words in the wrong direction.  The comment
\* "FIX!  WRong indexes" (aes.c:1679) stands at the big-endian branch, whose indexes are
\* right: DecryptInverts holds of that build and not of the little-endian one.
risc_inv_round(s, k) ==
    FromWords([j \in 0 .. 3 |->
        LET at(n) == IF WORDS_BIGENDIAN THEN v32(s, (j + 4 - n) % 4)[n + 1]
                                        ELSE v32(s, (j + n) % 4)[4 - n]
        IN  WordXor(v32(k, j), WordXor4(U(0, at(0)), U(1, at(1)), U(2, at(2)), U(3, at(3)))) ])

risc_final_round(s, k) ==
    FromWords([j \in 0 .. 3 |->
        LET at(n) == Word(T4, v32(s, (j + n) % 4)[n + 1])[n + 1]
        IN  WordXor(v32(k, j), << at(0), at(1), at(2), at(3) >>) ])

risc_inv_final_round(s, k) ==
    FromWords([j \in 0 .. 3 |->
        LET at(n) == Word(U4, v32(s, (j + 4 - n) % 4)[n + 1])[n + 1]
        IN  WordXor(v32(k, j), << at(0), at(1), at(2), at(3) >>) ])

-----------------------------------------------------------------------------
Zero128 == [n \in 0 .. 15 |-> 0]

Init ==
    /\ build \in Builds
    /\ pc = "expand" /\ i = 1 /\ rc = 1
    /\ key \in Keys /\ plaintext \in Blocks
    /\ expanded_key = [n \in 0 .. 10 |-> IF n = 0 THEN key ELSE Zero128]
    /\ block = plaintext

aes_expand_encryption_key ==
    /\ pc = "expand"
    /\ expanded_key' = [expanded_key EXCEPT ![i] = NextRoundKey(expanded_key[i - 1], rc)]
    /\ rc' = gf2_8_shift(rc)
    /\ IF i < 10 THEN i' = i + 1 /\ pc' = pc ELSE i' = 0 /\ pc' = "encrypt"
    /\ UNCHANGED <<build, key, plaintext, block>>

\* The i-th step of an encryption, in the variant the build compiles.
EncryptStep ==
    CASE i = 0 -> v128_xor(block, expanded_key[0])
      [] i \in 1 .. 9 /\ CPU = "CISC" -> aes_round(block, expanded_key[i])
      [] i \in 1 .. 9 /\ CPU = "RISC" -> risc_round(block, expanded_key[i])
      [] i = 10 /\ CPU = "CISC" -> aes_final_round(block, expanded_key[10])
      [] i = 10 /\ CPU = "RISC" -> risc_final_round(block, expanded_key[10])

aes_encrypt ==
    /\ pc = "encrypt"
    /\ block' = EncryptStep
    /\ IF i < 10 THEN i' = i + 1 /\ pc' = pc ELSE i' = 0 /\ pc' = "invert"
    /\ UNCHANGED <<build, key, plaintext, expanded_key, rc>>

\* The peer expands the same key for decryption.
InvertKey ==
    /\ pc = "invert"
    /\ expanded_key' = aes_expand_decryption_key(expanded_key)
    /\ pc' = "decrypt"
    /\ UNCHANGED <<build, key, plaintext, rc, i, block>>

aes_decrypt ==
    /\ pc = "decrypt"
    /\ block' = CASE i = 0 -> v128_xor(block, expanded_key[0])
                  [] i \in 1 .. 9 /\ CPU = "CISC" -> aes_inv_round(block, expanded_key[i])
                  [] i \in 1 .. 9 /\ CPU = "RISC" -> risc_inv_round(block, expanded_key[i])
                  [] i = 10 /\ CPU = "CISC" -> aes_inv_final_round(block, expanded_key[10])
                  [] i = 10 /\ CPU = "RISC" -> risc_inv_final_round(block, expanded_key[10])
    /\ IF i < 10 THEN i' = i + 1 /\ pc' = pc ELSE i' = 0 /\ pc' = "done"
    /\ UNCHANGED <<build, key, plaintext, expanded_key, rc>>

Next == aes_expand_encryption_key \/ aes_encrypt \/ InvertKey \/ aes_decrypt

Spec == Init /\ [][Next]_vars

-----------------------------------------------------------------------------
(* The standard (FIPS 197), stated on the square of octets.                *)
SubShift(s) == [n \in 0 .. 15 |-> Sbox(s[(n + 4 * (n % 4)) % 16])]

MixColumns(s) ==
    [n \in 0 .. 15 |->
        LET a(r) == s[4 * (n \div 4) + ((n + r) % 4)]
        IN  Xor(Xor(gf2_8_multiply(2, a(0)), gf2_8_multiply(3, a(1))), Xor(a(2), a(3)))]

FipsRound(s, k) == v128_xor(MixColumns(SubShift(s)), k)

\* Every round that is taken from the tables is SubBytes, ShiftRows, MixColumns
\* and AddRoundKey of the standard, and the last one leaves MixColumns out.
\* (aes.c: aes_encrypt)
RoundsAreFips ==
    pc = "encrypt" =>
        EncryptStep = CASE i = 0 -> v128_xor(block, key)
                        [] i \in 1 .. 9 -> FipsRound(block, expanded_key[i])
                        [] i = 10 -> v128_xor(SubShift(block), expanded_key[10])

\* Column c of the key schedule, and the key expansion of the standard: each
\* column is the exclusive or of the one before and the one four before, with a
\* substitution, a rotation and a constant at every fourth.  (aes.c:
\* aes_expand_encryption_key)
Column(c) == LET k == expanded_key[c \div 4] IN [r \in 0 .. 3 |-> k[4 * (c % 4) + r]]
Rcon == << 1, 2, 4, 8, 16, 32, 64, 128, 27, 54 >>
KeyScheduleIsFips ==
    pc = "encrypt" =>
        \A c \in 4 .. 43 : \A r \in 0 .. 3 :
            Xor(Column(c)[r], Column(c - 4)[r]) =
                IF c % 4 # 0 THEN Column(c - 1)[r]
                ELSE Xor(Sbox(Column(c - 1)[(r + 1) % 4]), IF r = 0 THEN Rcon[c \div 4] ELSE 0)

\* What one side encrypts the other decrypts, through the inverse tables and
\* the transformed round keys.  (aes.c: aes_decrypt, aes_expand_decryption_key)
DecryptInverts == pc = "done" => block = plaintext

\* The known answer of the self-test (aes_cbc.c, aes_cbc_test_case_0).
KnownAnswer ==
    (pc = "invert" /\ key = [n \in 0 .. 15 |-> n] /\ plaintext = [n \in 0 .. 15 |-> 17 * n])
        => block = [n \in 0 .. 15 |-> << 105, 196, 224, 216, 106, 123, 4, 48,
                                         216, 205, 183, 128, 112, 180, 197, 90 >>[n + 1]]
=============================================================================
