-------------------------------- MODULE AesCbc --------------------------------
(***************************************************************************)
(* AES in cipher block chaining mode (aes_cbc.c): one context that enciphers  *)
(* and one that deciphers, with messages in order between them.  The block    *)
(* cipher is an arbitrary permutation E of the blocks, of any block length;   *)
(* octets are numbers below 16, with the exclusive or of module Octets.       *)
(*                                                                         *)
(* A caller sets the initialization vector of each side when it likes, so     *)
(* messages also follow each other without a new one.                         *)
(***************************************************************************)
EXTENDS Octets, Integers, Sequences

CONSTANTS BlockLen,  \* 16 in the code
          E,         \* block -> block, aes_encrypt under the key
          IVs, Messages,
          MaxSent    \* bound on the messages enciphered

CbcOctet == 0 .. 15
Blocks == [1 .. BlockLen -> CbcOctet]
CbcAssumption ==
    /\ BlockLen \in Nat \ {0} /\ MaxSent \in Nat
    /\ E \in [Blocks -> Blocks] /\ \A x, y \in Blocks : E[x] = E[y] => x = y
    /\ IVs \subseteq Blocks /\ Messages \subseteq Seq(CbcOctet)

\* aes_decrypt
D == [y \in Blocks |-> CHOOSE x \in Blocks : E[x] = y]

VARIABLES enc,      \* the first context: [state, previous]
          dec,      \* the second
          sent,     \* messages enciphered so far
          wire,     \* enciphered messages, with the text and the chaining value
          status,   \* what the last call returned
          got,      \* history: the last message deciphered
          written   \* history: octets of padding written by the last call

vars == <<enc, dec, sent, wire, status, got, written>>

None == [none |-> TRUE]
BlockXor(x, y) == [i \in 1 .. BlockLen |-> XorNibble[x[i], y[i]]]
\* Block k of an octet string, and the string of n blocks.
BlockOf(s, k) == [i \in 1 .. BlockLen |-> s[(k - 1) * BlockLen + i]]
Flat(b, n) == [i \in 1 .. (n * BlockLen) |->
                  b[((i - 1) \div BlockLen) + 1][((i - 1) % BlockLen) + 1]]
Aligned(s) == Len(s) % BlockLen = 0

\* aes_cbc_alloc and aes_cbc_context_init, one context for each direction; the
\* vector is zero until it is set.
Zero == [i \in 1 .. BlockLen |-> 0]
Init == /\ enc = [state |-> Zero, previous |-> Zero]
        /\ dec = [state |-> Zero, previous |-> Zero]
        /\ sent = 0 /\ wire = <<>> /\ status = "ok" /\ got = None /\ written = 0

\* aes_cbc_set_iv
aes_cbc_set_iv(iv) == [state |-> iv, previous |-> iv]
SetIvEnc(iv) == enc' = aes_cbc_set_iv(iv) /\ UNCHANGED <<dec, sent, wire, status, got, written>>
SetIvDec(iv) == dec' = aes_cbc_set_iv(iv) /\ UNCHANGED <<enc, sent, wire, status, got, written>>

-----------------------------------------------------------------------------
\* The blocks of ciphertext: the text is exored into the state, which is enciphered.
Chain(state, text) ==
    LET c[k \in 0 .. (Len(text) \div BlockLen)] ==
            IF k = 0 THEN state ELSE E[BlockXor(c[k - 1], BlockOf(text, k))]
    IN  c

\* The blocks of plaintext: deciphered, and exored with the ciphertext block before.
Unchain(previous, data) ==
    LET before(k) == IF k = 1 THEN previous ELSE BlockOf(data, k - 1)
    IN  [k \in 0 .. (Len(data) \div BlockLen) |->
            IF k = 0 THEN previous ELSE BlockXor(D[BlockOf(data, k)], before(k))]

\* nist padding: a marker and zeros up to the next block.
num_pad_bytes(text) == BlockLen - (Len(text) % BlockLen)
\* The marker 0xa0, cut to an octet of the model.
Marker == 10
Padded(text) == text \o <<Marker>> \o [i \in 1 .. (num_pad_bytes(text) - 1) |-> 0]

Encipher(text, all, padded) ==
    LET n == Len(all) \div BlockLen
        c == Chain(enc.state, all)
    IN  /\ enc' = [enc EXCEPT !.state = c[n]]
        /\ wire' = Append(wire, [data |-> Flat(c, n), text |-> text, chain |-> enc.state,
                                 padded |-> padded])

\* aes_cbc_encrypt
aes_cbc_encrypt(text) ==
    /\ sent < MaxSent /\ sent' = sent + 1
    /\ \/ Aligned(text) /\ Encipher(text, text, FALSE) /\ status' = "ok"
       \/ ~ Aligned(text) /\ status' = "bad_param" /\ UNCHANGED <<enc, wire>>
    /\ UNCHANGED <<dec, got, written>>

\* aes_cbc_nist_encrypt: the marker, and then num_pad_bytes zeros more, of which
\* the last is behind the padded text.
aes_cbc_nist_encrypt(text) ==
    /\ sent < MaxSent /\ sent' = sent + 1
    /\ Encipher(text, Padded(text), TRUE)
    /\ written' = 1 + num_pad_bytes(text) /\ status' = "ok"
    /\ UNCHANGED <<dec, got>>

\* aes_cbc_decrypt leaves the context alone: what it chains with is a local copy.
Deciphered(m) == Flat([k \in 1 .. (Len(m.data) \div BlockLen) |->
                           Unchain(dec.previous, m.data)[k]], Len(m.data) \div BlockLen)

\* aes_cbc_nist_decrypt: the padding reaches back to the last marker; without one
\* the search leaves the buffer.
Markers(s) == {i \in DOMAIN s : s[i] = Marker}
NumPadBytes(s) == LET last == CHOOSE i \in Markers(s) : \A j \in Markers(s) : j <= i
                  IN  Len(s) - last + 1
Got(m, out, pads) == [text |-> m.text, out |-> out, pads |-> pads, padded |-> m.padded,
                      inStep |-> dec.previous = m.chain]

aes_cbc_decrypt ==
    /\ wire # <<>> /\ ~ Head(wire).padded /\ wire' = Tail(wire)
    /\ got' = Got(Head(wire), Deciphered(Head(wire)), 0) /\ status' = "ok"
    /\ UNCHANGED <<enc, dec, sent, written>>
aes_cbc_nist_decrypt ==
    /\ wire # <<>> /\ Head(wire).padded /\ wire' = Tail(wire) /\ status' = "ok"
    /\ LET all == Deciphered(Head(wire))
       IN  got' = IF Markers(all) = {} THEN Got(Head(wire), <<>>, Len(all) + 1)
                  ELSE Got(Head(wire), SubSeq(all, 1, Len(all) - NumPadBytes(all)),
                           NumPadBytes(all))
    /\ UNCHANGED <<enc, dec, sent, written>>

Next == \/ \E iv \in IVs : SetIvEnc(iv) \/ SetIvDec(iv)
        \/ \E t \in Messages : aes_cbc_encrypt(t) \/ aes_cbc_nist_encrypt(t)
        \/ aes_cbc_decrypt \/ aes_cbc_nist_decrypt

Spec == Init /\ [][Next]_vars

-----------------------------------------------------------------------------
Contexts == [state : Blocks, previous : Blocks]

\* Types of the variables.
TypeOK == /\ {enc, dec} \subseteq Contexts
          /\ \A n \in DOMAIN wire : Aligned(wire[n].data) /\ wire[n].text \in Messages
          /\ status \in {"ok", "bad_param"} /\ written \in 0 .. (BlockLen + 1)
          /\ sent \in 0 .. MaxSent
          /\ got # None => got.text \in Messages

\* The text comes back whole, padding removed, whatever its length and whatever
\* it ends with, when the receiver's vector is the value the sender's chain had.
\* (aes_cbc_encrypt, aes_cbc_decrypt and the nist variants)
TextComesBack == (got # None /\ got.inStep) => got.out = got.text

\* A receiver that is out of step, because its vector was set earlier or later
\* than the sender's or because decrypting does not carry the chain on to the next
\* message, loses the first block and no other.
OnlyFirstBlockLost ==
    (got # None /\ Len(got.text) > BlockLen) =>
        SubSeq(got.out, BlockLen + 1, Len(got.out)) = SubSeq(got.text, BlockLen + 1, Len(got.text))

\* aes_cbc.c:273, of the padding octets to add: "this value is always between 1 and
\* 16, inclusive".  (aes_cbc_nist_encrypt)
PaddingFits == written \in 0 .. BlockLen

\* aes_cbc.c:315, of the padding octets found: "this value is always between 1 and
\* 16, inclusive".  (aes_cbc_nist_decrypt)
PaddingFound == (got # None /\ got.padded) => got.pads \in 1 .. BlockLen
=============================================================================
