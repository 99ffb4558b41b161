------------------------------- MODULE Sha1Core -------------------------------
(***************************************************************************)
(* The SHA-1 compression of libsrtp (sha1.c), round by round, and the keyed   *)
(* hash hmac.c builds with it, run on the test case of hmac.c.  A 32-bit word *)
(* is the pair of its halves.  sha1_final contains two more copies of the     *)
(* rounds; they differ in nothing but where the words come from.              *)
(***************************************************************************)
EXTENDS Sha1, Octets

Half == 0 .. 65535
Word(octets) == <<256 * octets[1] + octets[2], 256 * octets[3] + octets[4]>>
OctetsOf(w) == <<w[1] \div 256, w[1] % 256, w[2] \div 256, w[2] % 256>>

XorHalf(a, b) == 256 * Xor(a \div 256, b \div 256) + Xor(a % 256, b % 256)
\* a & b, from a + b = (a ^ b) + 2 (a & b).
AndHalf(a, b) == (a + b - XorHalf(a, b)) \div 2
XorWord(x, y) == <<XorHalf(x[1], y[1]), XorHalf(x[2], y[2])>>
AndWord(x, y) == <<AndHalf(x[1], y[1]), AndHalf(x[2], y[2])>>
NotWord(x) == <<65535 - x[1], 65535 - x[2]>>
OrWord(x, y) == NotWord(AndWord(NotWord(x), NotWord(y)))
AddWord(x, y) == LET low == x[2] + y[2]
                 IN  <<(x[1] + y[1] + low \div 65536) % 65536, low % 65536>>

\* Rotations: S1, S5, S30.
Rotl(x, n) == <<((x[1] * 2^n) % 65536) + (x[2] \div 2^(16 - n)),
                ((x[2] * 2^n) % 65536) + (x[1] \div 2^(16 - n))>>
S1(x) == Rotl(x, 1)
S5(x) == Rotl(x, 5)
S30(x) == LET y == Rotl(x, 14) IN <<y[2], y[1]>>

f0(b, c, d) == OrWord(AndWord(b, c), AndWord(NotWord(b), d))
f1(b, c, d) == XorWord(b, XorWord(c, d))
f2(b, c, d) == OrWord(OrWord(AndWord(b, c), AndWord(b, d)), AndWord(c, d))
f3(b, c, d) == f1(b, c, d)

SHA_K == << <<23170, 31129>>, <<28377, 60321>>, <<36635, 48348>>, <<51810, 49622>> >>
H0 == << <<26437, 8961>>, <<61389, 43913>>, <<39098, 56574>>, <<4146, 21622>>, <<50130, 57840>> >>

-----------------------------------------------------------------------------
\* hmac_test_case_0
Key == [i \in 1 .. 20 |-> 11]
HiThere == <<72, 105, 32, 84, 104, 101, 114, 101>>
Tag == <<182, 23, 49, 134, 85, 5, 114, 100, 226, 139, 192, 182, 251, 55, 140, 142, 241, 70, 190, 0>>

\* hmac_init: ipad and opad.
Pad(c) == [i \in 1 .. BlockOctets |-> IF i <= Len(Key) THEN Xor(Key[i], c) ELSE c]
ipad == Pad(54)
opad == Pad(92)

\* The blocks of a hash of msg.
Blank == [i \in 0 .. (BlockOctets - 1) |-> 0]
Blocks(msg) == sha1_final(sha1_update(sha1_init(Blank), msg)).H

VARIABLES phase,      \* "inner", then "outer" hash of hmac_compute, then "done"
          todo,       \* blocks that are not compressed yet
          t, W,       \* the round, and the words so far, from W[0]
          ABCDE, H    \* working words and chaining value

vars == <<phase, todo, t, W, ABCDE, H>>

WordsOf(block) == [i \in 0 .. 15 |-> Word(block[i + 1])]

Init == /\ phase = "inner" /\ t = 0 /\ H = H0 /\ ABCDE = H0
        /\ LET blocks == Blocks(ipad \o HiThere)
           IN  todo = Tail(blocks) /\ W = WordsOf(Head(blocks))

\* The word of the schedule: for t above 15 from the words before it.
Scheduled(n) ==
    IF n < 16 THEN W[n]
    ELSE S1(XorWord(XorWord(W[n - 3], W[n - 8]), XorWord(W[n - 14], W[n - 16])))

Round ==
    /\ phase # "done" /\ t < 80
    /\ LET A == ABCDE[1] B == ABCDE[2] C == ABCDE[3] D == ABCDE[4] E == ABCDE[5]
           k == t \div 20
           f == CASE k = 0 -> f0(B, C, D) [] k = 1 -> f1(B, C, D)
                  [] k = 2 -> f2(B, C, D) [] k = 3 -> f3(B, C, D)
           TEMP == AddWord(AddWord(AddWord(S5(A), f), AddWord(E, Scheduled(t))), SHA_K[k + 1])
       IN  ABCDE' = <<TEMP, A, S30(B), C, D>>
    /\ W' = [i \in 0 .. (IF t < 16 THEN 15 ELSE t) |-> IF i = t THEN Scheduled(t) ELSE W[i]]
    /\ t' = t + 1
    /\ UNCHANGED <<phase, todo, H>>

Output(h) == OctetsOf(h[1]) \o OctetsOf(h[2]) \o OctetsOf(h[3]) \o OctetsOf(h[4]) \o OctetsOf(h[5])

\* The end of a compression; the next block, the outer hash, or the tag.
EndBlock ==
    /\ phase # "done" /\ t = 80 /\ t' = 0
    /\ LET h == [i \in 1 .. 5 |-> AddWord(H[i], ABCDE[i])]
           outer == Blocks(opad \o Output(h))
       IN  \/ /\ todo # <<>> /\ H' = h /\ ABCDE' = h
              /\ W' = WordsOf(Head(todo)) /\ todo' = Tail(todo) /\ UNCHANGED phase
           \/ /\ todo = <<>> /\ phase = "inner" /\ phase' = "outer" /\ H' = H0 /\ ABCDE' = H0
              /\ W' = WordsOf(Head(outer)) /\ todo' = Tail(outer)
           \/ /\ todo = <<>> /\ phase = "outer" /\ phase' = "done" /\ H' = h
              /\ UNCHANGED <<ABCDE, W, todo>>

Next == Round \/ EndBlock
Spec == Init /\ [][Next]_vars

-----------------------------------------------------------------------------
\* The words keep their 32 bits.
TypeOK == /\ \A i \in 1 .. 5 : {ABCDE[i], H[i]} \subseteq Half \X Half
          /\ \A i \in DOMAIN W : W[i] \in Half \X Half

\* hmac.c:229, the tag of its test case, from the compression, the padding and the
\* two hashes as the code does them.
KnownAnswer == phase = "done" => Output(H) = Tag
=============================================================================
