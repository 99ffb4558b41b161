--------------------------- MODULE LibrariesProofs ---------------------------
(***************************************************************************)
(* For every value of the constants: counter mode serves its keystream in  *)
(* order, the keys of a stream do not mix, the generators hand out no      *)
(* octet twice, the kernel is trusted only when it is complete, a session  *)
(* holds exactly the memory allocated for it, no SRTCP packet is let pass  *)
(* twice, the shared codec is freed with its last user, and of the codec   *)
(* the harmonics of a model fit their arrays, the parts of the sound meet  *)
(* and the pitch analysis reads only bins of the spectrum.                 *)
(***************************************************************************)
EXTENDS MCLibraries, SequenceTheorems, FiniteSetTheorems, TLAPS

-----------------------------------------------------------------------------
(* Numbers.                                                                *)

\* The parts of the division of a number.
LEMMA Divided ==
    ASSUME NEW m \in Nat, m > 0, NEW a \in Nat
    PROVE  /\ a = (a \div m) * m + (a % m)
           /\ a % m \in 0 .. m - 1
           /\ a \div m \in Nat
OBVIOUS

\* Quotient and remainder are determined by the number.
LEMMA DividedOnce ==
    ASSUME NEW m \in Nat, m > 0, NEW q \in Nat, NEW r \in 0 .. m - 1,
           NEW t \in Nat, NEW u \in 0 .. m - 1, q * m + r = t * m + u
    PROVE  q = t /\ r = u
<1>1. ASSUME NEW a \in Nat, NEW b \in Nat, NEW c \in 0 .. m - 1, NEW d \in 0 .. m - 1,
             a < b, a * m + c = b * m + d
      PROVE  FALSE
  <2>1. PICK e \in Nat : b = a + 1 + e
    BY <1>1
  <2>2. (a + 1 + e) * m = a * m + m + e * m
    OBVIOUS
  <2>3. e * m >= 0
    OBVIOUS
  <2> QED
    BY <1>1, <2>1, <2>2, <2>3
<1>2. ~ q < t /\ ~ t < q
  BY <1>1
<1> QED
  BY <1>2

\* A number below the divisor is its own remainder.
LEMMA SmallMod ==
    ASSUME NEW m \in Nat, NEW a \in Nat, a < m
    PROVE  a % m = a
OBVIOUS

\* A factor is compared as its products are.
LEMMA CompareFactors ==
    ASSUME NEW n \in Nat, n > 0, NEW e \in Int, NEW k \in Int, n * e < n * k
    PROVE  e < k
<1> SUFFICES ASSUME e >= k PROVE FALSE
  OBVIOUS
<1>1. PICK f \in Nat : e = k + f
  <2>1. e - k \in Nat /\ e = k + (e - k)
    OBVIOUS
  <2> QED
    BY <2>1
<1>2. n * e = n * k + n * f /\ n * f >= 0
  BY <1>1
<1>3. n * e \in Int /\ n * k \in Int /\ n * f \in Int
  OBVIOUS
<1> QED
  BY <1>2, <1>3

\* A quotient between its multiples.
LEMMA QuotientBounds ==
    ASSUME NEW a \in Nat, NEW d \in Nat, d > 0
    PROVE  a \div d \in Nat /\ d * (a \div d) <= a /\ a < d * (a \div d) + d
<1>1. PICK q \in Nat, r \in Nat : q = a \div d /\ a = q * d + r /\ r < d
  BY Divided
<1>2. q * d = d * q /\ d * q \in Nat
  OBVIOUS
<1>3. q \in Nat /\ d * q <= a /\ a < d * q + d
  BY <1>1, <1>2
<1> QED
  BY <1>1, <1>3

\* A quotient is below a number whose multiple is above.
LEMMA QuotientBelow ==
    ASSUME NEW a \in Nat, NEW d \in Nat, d > 0, NEW k \in Nat, a < d * k
    PROVE  a \div d \in Nat /\ a \div d < k
<1>1. PICK q \in Nat : q = a \div d /\ d * q <= a
  BY QuotientBounds
<1>2. d * q \in Nat /\ d * k \in Nat
  OBVIOUS
<1>3. d * q < d * k
  BY <1>1, <1>2
<1> QED
  BY <1>1, <1>3, CompareFactors

-----------------------------------------------------------------------------
(***************************************************************************)
(* Counter mode                                                            *)
(***************************************************************************)

\* The buffer holds the end of the block before the counter's, and what was served
\* ends where the buffer begins.
Position == /\ counter.hi = 0
            /\ start <= counter.ctr
            /\ served = BlockLen * (counter.ctr - start) - bytes_in_buffer
            /\ bytes_in_buffer > 0 =>
                   /\ counter.ctr > start
                   /\ keystream_buffer = Counter(0, counter.iv, counter.ctr - 1)

IInv == TypeOK /\ Position /\ InOrder

\* The remainder of a division by the length of a block.
LEMMA BlockDivision ==
    ASSUME NEW n \in Nat
    PROVE  /\ n \div BlockLen \in Nat /\ n % BlockLen \in 0 .. (BlockLen - 1)
           /\ n = BlockLen * (n \div BlockLen) + (n % BlockLen)
BY DEF BlockLen

\* A quotient and a remainder are determined by their sum.
LEMMA BlockDivisionUnique ==
    ASSUME NEW q \in Nat, NEW r \in 0 .. (BlockLen - 1)
    PROVE  /\ (BlockLen * q + r) \div BlockLen = q
           /\ (BlockLen * q + r) % BlockLen = r
BY DEF BlockLen

\* The initial state satisfies the invariant.
LEMMA InitIInv == Init => IInv
BY IcmAssumption DEF Init, IInv, TypeOK, Position, InOrder, Counters, Counter, Nothing,
   BlockLen

\* As long as the counter does not wrap, the octets a call takes are the next ones
\* of the keystream, from the buffer as well as from new blocks.
LEMMA OctetsFollow ==
    ASSUME TypeOK, Position,
           NEW k \in Nat,
           k >= bytes_in_buffer =>
               counter.ctr + ((k - bytes_in_buffer) \div BlockLen) <= CtrMax
    PROVE  Octet(k) = [block |-> Counter(0, counter.iv, start + ((served + k) \div BlockLen)),
                       at |-> (served + k) % BlockLen]
<1> DEFINE c == counter.ctr - start
           b == bytes_in_buffer
<1>1. /\ counter.ctr \in Nat /\ start \in Nat /\ served \in Nat /\ c \in Nat
      /\ b \in 0 .. (BlockLen - 1) /\ CtrMax \in Nat
      /\ served = BlockLen * c - b
  BY IcmAssumption DEF TypeOK, Position, Counters, BlockLen
<1>2. CASE k < b
  <2>1. /\ c >= 1 /\ c - 1 \in Nat
        /\ keystream_buffer = Counter(0, counter.iv, start + (c - 1))
    BY <1>1, <1>2 DEF Position, BlockLen
  <2>2. /\ BlockLen - b + k \in 0 .. (BlockLen - 1)
        /\ served + k = BlockLen * (c - 1) + (BlockLen - b + k)
    BY <1>1, <1>2, <2>1 DEF BlockLen
  <2>3. /\ (served + k) \div BlockLen = c - 1
        /\ (served + k) % BlockLen = BlockLen - b + k
    BY <2>1, <2>2, BlockDivisionUnique
  <2> QED BY <1>2, <2>1, <2>3 DEF Octet
<1>3. CASE k >= b
  <2> DEFINE r == k - b
             q == r \div BlockLen
             m == r % BlockLen
  <2>1. r \in Nat
    BY <1>1, <1>3 DEF BlockLen
  <2>2. q \in Nat /\ m \in 0 .. (BlockLen - 1) /\ r = BlockLen * q + m
    BY <2>1, BlockDivision
  <2>3. served + k = BlockLen * (c + q) + m /\ c + q \in Nat
    BY <1>1, <2>1, <2>2, SMTT(30) DEF BlockLen
  <2>4. (served + k) \div BlockLen = c + q /\ (served + k) % BlockLen = m
    BY <2>2, <2>3, BlockDivisionUnique
  <2>5. (counter.ctr + q) % (CtrMax + 1) = counter.ctr + q
    <3>1. counter.ctr + q \in 0 .. CtrMax
      BY <1>1, <1>3, <2>2
    <3> HIDE DEF q
    <3> QED BY <3>1, <1>1
  <2>6. Advanced(q) = Counter(0, counter.iv, start + (c + q))
    BY <2>5, <1>1, <2>2 DEF Advanced, Counter, TypeOK, Counters, Position
  <2>7. Octet(k) = [block |-> Advanced(q), at |-> m]
    BY <1>1, <1>3 DEF Octet, BlockLen
  <2> HIDE DEF q, m, c
  <2> QED BY <2>4, <2>6, <2>7
<1> QED BY <1>1, <1>2, <1>3 DEF BlockLen

\* A call that is served from the buffer.
LEMMA FromBufferIInv ==
    ASSUME IInv, NEW len \in Lengths, FromBuffer(len)
    PROVE  IInv'
<1>1. /\ len \in Nat /\ served \in Nat /\ bytes_in_buffer \in 0 .. (BlockLen - 1)
      /\ counter.ctr \in Nat /\ start \in Nat
  BY IcmAssumption DEF IInv, TypeOK, Counters
<1>2. TypeOK'
  BY <1>1 DEF IInv, TypeOK, FromBuffer, BlockLen
<1>3. Position'
  <2>1. /\ counter' = counter /\ start' = start /\ keystream_buffer' = keystream_buffer
        /\ bytes_in_buffer' = bytes_in_buffer - len /\ served' = served + len
        /\ bytes_in_buffer' > 0 => bytes_in_buffer > 0
    BY <1>1 DEF FromBuffer, BlockLen
  <2>2. served' = BlockLen * (counter.ctr - start) - bytes_in_buffer'
    BY <1>1, <2>1 DEF IInv, Position, BlockLen
  <2> QED BY <2>1, <2>2 DEF IInv, Position
<1>4. InOrder'
  <2> SUFFICES ASSUME NEW n \in DOMAIN out'
               PROVE  out'[n] = [block |-> Counter(0, counter.iv, start + (n \div BlockLen)),
                                 at |-> n % BlockLen]
    BY DEF InOrder, FromBuffer
  <2>1. n \in served .. (served + len - 1) /\ out'[n] = Octet(n - served)
    BY DEF FromBuffer
  <2>2. /\ n - served \in Nat /\ n - served < bytes_in_buffer
        /\ served + (n - served) = n
    BY <1>1, <2>1 DEF FromBuffer
  <2>3. ~ (n - served >= bytes_in_buffer)
    BY <1>1, <2>2 DEF BlockLen
  <2> QED BY <2>1, <2>2, <2>3, OctetsFollow DEF IInv
<1> QED BY <1>2, <1>3, <1>4 DEF IInv

\* A call that needs new blocks: the check of the segment keeps the counter from
\* wrapping.
LEMMA FromBlocksIInv ==
    ASSUME IInv, NEW len \in Lengths, FromBlocks(len)
    PROVE  IInv'
<1> DEFINE rest == len - bytes_in_buffer
           blocks == (rest + BlockLen - 1) \div BlockLen
           tail == rest % BlockLen
<1>1. /\ len \in Nat /\ served \in Nat /\ bytes_in_buffer \in 0 .. (BlockLen - 1)
      /\ counter.ctr \in Nat /\ start \in Nat /\ CtrMax \in Nat
      /\ rest \in Nat /\ rest >= 1 /\ rest <= len
      /\ len + counter.ctr <= CtrMax
  BY IcmAssumption DEF IInv, TypeOK, Counters, FromBlocks, EnoughLeft, BlockLen
<1>2. /\ blocks \in Nat /\ blocks >= 1 /\ blocks <= rest
      /\ tail \in 0 .. (BlockLen - 1)
      /\ tail = 0 => BlockLen * blocks = rest
      /\ tail # 0 => BlockLen * blocks - (BlockLen - tail) = rest
  BY <1>1 DEF BlockLen
<1>3. /\ counter' = Advanced(blocks) /\ keystream_buffer' = Advanced(blocks - 1)
      /\ bytes_in_buffer' = IF tail = 0 THEN 0 ELSE BlockLen - tail
      /\ status' = "ok" /\ served' = served + len /\ start' = start
      /\ out' = [n \in served .. (served + len - 1) |-> Octet(n - served)]
  BY DEF FromBlocks
<1>4. \A j \in 0 .. blocks :
         Advanced(j) = Counter(0, counter.iv, counter.ctr + j) /\ counter.ctr + j \in 0 .. CtrMax
  <2> SUFFICES ASSUME NEW j \in 0 .. blocks
               PROVE  Advanced(j) = Counter(0, counter.iv, counter.ctr + j)
                      /\ counter.ctr + j \in 0 .. CtrMax
    OBVIOUS
  <2>1. counter.ctr + j \in 0 .. CtrMax
    <3> HIDE DEF blocks, rest
    <3> QED BY <1>1, <1>2
  <2>2. (counter.ctr + j) % (CtrMax + 1) = counter.ctr + j
    BY <2>1, <1>1
  <2> HIDE DEF blocks
  <2> QED BY <2>1, <2>2 DEF Advanced, Counter, IInv, TypeOK, Counters, Position
<1>5. /\ counter' = Counter(0, counter.iv, counter.ctr + blocks)
      /\ keystream_buffer' = Counter(0, counter.iv, counter.ctr + blocks - 1)
      /\ counter.ctr + blocks \in 0 .. CtrMax /\ counter.ctr + blocks - 1 \in 0 .. CtrMax
  <2>1. blocks \in 0 .. blocks /\ blocks - 1 \in 0 .. blocks
        /\ counter.ctr + (blocks - 1) = counter.ctr + blocks - 1
    <3> HIDE DEF blocks
    <3> QED BY <1>1, <1>2
  <2> HIDE DEF blocks
  <2> QED BY <1>3, <1>4, <2>1
<1> HIDE DEF blocks, tail
<1>6. TypeOK'
  BY <1>1, <1>2, <1>3, <1>5 DEF IInv, TypeOK, Counters, Counter, BlockLen
<1>7. Position'
  <2> HIDE DEF rest
  <2>1. /\ counter'.hi = 0 /\ counter'.iv = counter.iv
        /\ counter'.ctr = counter.ctr + blocks
    BY <1>5 DEF Counter
  <2>2. rest = BlockLen * blocks - bytes_in_buffer' /\ bytes_in_buffer' \in Nat
    BY <1>1, <1>2, <1>3 DEF BlockLen
  <2>3. len = rest + bytes_in_buffer /\ bytes_in_buffer \in Nat
    BY <1>1 DEF rest, BlockLen
  <2>4. /\ served' = BlockLen * (counter'.ctr - start') - bytes_in_buffer'
        /\ start' <= counter'.ctr /\ counter'.ctr > start'
    <3>1. served' = BlockLen * (counter.ctr - start) - bytes_in_buffer + (rest + bytes_in_buffer)
      BY <1>3, <2>3 DEF IInv, Position
    <3>2. served' = BlockLen * ((counter.ctr + blocks) - start) - bytes_in_buffer'
      <4>1. counter.ctr \in Nat /\ start \in Nat /\ rest \in Nat /\ blocks \in Nat
        BY <1>1, <1>2
      <4>2. BlockLen * (counter.ctr - start) - bytes_in_buffer + (rest + bytes_in_buffer)
               = BlockLen * ((counter.ctr + blocks) - start) - bytes_in_buffer'
        BY <4>1, <2>2, <2>3 DEF BlockLen
      <4> QED BY <3>1, <4>2
    <3>3. start <= counter.ctr
      BY DEF IInv, Position
    <3>4. /\ counter.ctr \in Nat /\ start \in Nat /\ blocks \in Nat /\ blocks >= 1
          /\ start' = start
      BY <1>1, <1>2, <1>3
    <3> QED BY <2>1, <3>2, <3>3, <3>4
  <2>5. keystream_buffer' = Counter(0, counter'.iv, counter'.ctr - 1)
    BY <1>1, <1>2, <1>5, <2>1
  <2> QED BY <2>1, <2>4, <2>5 DEF Position
<1>8. InOrder'
  <2> SUFFICES ASSUME NEW n \in DOMAIN out'
               PROVE  out'[n] = [block |-> Counter(0, counter.iv, start + (n \div BlockLen)),
                                 at |-> n % BlockLen]
    BY <1>3, <1>5 DEF InOrder, Counter
  <2>1. n \in served .. (served + len - 1) /\ out'[n] = Octet(n - served)
    BY <1>3
  <2>2. n - served \in Nat /\ n - served < len /\ served + (n - served) = n
    BY <1>1, <2>1
  <2>3. n - served >= bytes_in_buffer =>
            counter.ctr + ((n - served - bytes_in_buffer) \div BlockLen) <= CtrMax
    BY <1>1, <2>2 DEF BlockLen
  <2> QED BY <2>1, <2>2, <2>3, OctetsFollow DEF IInv
<1> QED BY <1>6, <1>7, <1>8 DEF IInv

\* Every step keeps the invariant.
LEMMA NextIInv ==
    ASSUME IInv, [Next]_vars
    PROVE  IInv'
<1>1. ASSUME NEW v \in IVs, NEW c \in FirstCtrs, aes_icm_set_iv(v, c)
      PROVE  IInv'
  <2>1. c \in 0 .. CtrMax
    BY IcmAssumption
  <2>2. TypeOK' /\ Position'
    BY <1>1, <2>1, IcmAssumption
    DEF IInv, TypeOK, Position, Counters, Counter, aes_icm_set_iv, BlockLen
  <2>3. InOrder'
    BY <1>1 DEF InOrder, aes_icm_set_iv, Nothing
  <2> QED BY <2>2, <2>3 DEF IInv
<1>2. ASSUME NEW len \in Lengths, Terminus(len)
      PROVE  IInv'
  BY <1>2 DEF IInv, TypeOK, Position, InOrder, Terminus, ctxVars, Nothing
<1>3. CASE UNCHANGED vars
  BY <1>3 DEF IInv, TypeOK, Position, InOrder, vars, ctxVars
<1> QED BY <1>1, <1>2, <1>3, FromBufferIInv, FromBlocksIInv DEF Next, aes_icm_encrypt

\* The buffer never holds a whole block and the counter stays in its 16 bits
\* (aes_icm_encrypt_ismacryp).
THEOREM IcmTypeCorrect == Spec => []TypeOK
<1>1. IInv => TypeOK
  BY DEF IInv
<1> QED BY <1>1, InitIInv, NextIInv, PTL DEF Spec

\* The keystream of a nonce is served in order and no octet of it twice, whatever
\* the lengths of the calls (aes_icm_encrypt_ismacryp).
THEOREM KeystreamInOrder == Spec => []InOrder
<1>1. IInv => InOrder
  BY DEF IInv
<1> QED BY <1>1, InitIInv, NextIInv, PTL DEF Spec

-----------------------------------------------------------------------------
(***************************************************************************)
(* Key derivation                                                          *)
(***************************************************************************)

\* The octets a part's key consists of, and the parts behind which a step is.
KeySet(p) == IF Kdf!KeyLen(p) = Kdf!MasterKeyLen
             THEN Kdf!Prefix(Kdf!KeyLabel(p), Kdf!BaseKeyLen) \cup Kdf!Prefix(Kdf!SaltLabel(p), 14)
             ELSE Kdf!Prefix(Kdf!KeyLabel(p), Kdf!KeyLen(p))
Behind(p) == CASE p = "rtp_cipher" -> {"rtp_auth", "rtcp_cipher", "rtcp_auth", "done", "ready"}
               [] p = "rtp_auth" -> {"rtcp_cipher", "rtcp_auth", "done", "ready"}
               [] p = "rtcp_cipher" -> {"rtcp_auth", "done", "ready"}
               [] p = "rtcp_auth" -> {"done", "ready"}

\* A key is whole or not there, and there once its step is past; the policies and the
\* master key are there from the first step on.
KdfInv ==
    /\ step \in Kdf!Parts \cup {"idle", "done", "ready", "failed"}
    /\ Kdf!TypeOK /\ keys \in [Kdf!Parts -> SUBSET Kdf!KeyOctets]
    /\ rtp # Kdf!NoPolicy => /\ rtp \in Kdf!Policies /\ rtcp \in Kdf!Policies
                             /\ \A n \in DOMAIN master : master[n] # "unset"
    /\ step # "idle" => rtp # Kdf!NoPolicy
    /\ step = "idle" => \A p \in Kdf!Parts : keys[p] = {}
    /\ \A p \in Kdf!Parts : keys[p] \in {{}, KeySet(p)}
    /\ \A p \in Kdf!Parts : step \in Behind(p) => keys[p] = KeySet(p)
    /\ Kdf!BufferCleared

\* The lengths of the keys in the policies: those of counter mode are whole.
LEMMA PolicyLengths ==
    ASSUME NEW p \in Kdf!Policies
    PROVE  /\ p.cipher_key_len \in {0, 30} /\ p.auth_key_len \in {0, 20}
           /\ p.cipher_type = "AES_128_ICM" <=> p.cipher_key_len = 30
           /\ p # Kdf!NoPolicy
BY DEF Kdf!Policies, Kdf!Policy, Kdf!rtp_default, Kdf!rtcp_default,
   Kdf!aes_cm_128_hmac_sha1_80,
       Kdf!aes_cm_128_hmac_sha1_32, Kdf!aes_cm_128_null_auth, Kdf!null_cipher_hmac_sha1_80,
       Kdf!NoPolicy

\* The length of a part's key.
LEMMA KeyLengths ==
    ASSUME rtp \in Kdf!Policies, rtcp \in Kdf!Policies, NEW p \in Kdf!Parts
    PROVE  /\ Kdf!KeyLen(p) \in {0, 20, 30}
           /\ Kdf!KeyLen(p) = 30 <=> /\ p \in {"rtp_cipher", "rtcp_cipher"}
                                     /\ Kdf!PolicyOf(p).cipher_type = "AES_128_ICM"
<1>1. Kdf!PolicyOf(p) \in Kdf!Policies
  BY DEF Kdf!PolicyOf
<1> QED
  BY <1>1, PolicyLengths DEF Kdf!KeyLen, Kdf!Parts

\* The labels are numbers, and no two parts share one.
LEMMA LabelsApart ==
    /\ \A p \in Kdf!Parts : Kdf!KeyLabel(p) \in 0 .. 5
    /\ \A p \in {"rtp_cipher", "rtcp_cipher"} : Kdf!SaltLabel(p) \in 0 .. 5
    /\ \A p, q \in Kdf!Parts : p # q => Kdf!KeyLabel(p) # Kdf!KeyLabel(q)
    /\ \A p \in Kdf!Parts, q \in {"rtp_cipher", "rtcp_cipher"} : Kdf!KeyLabel(p) # Kdf!SaltLabel(q)
    /\ Kdf!SaltLabel("rtp_cipher") # Kdf!SaltLabel("rtcp_cipher")
<1>1. /\ Kdf!KeyLabel("rtp_cipher") = 0 /\ Kdf!KeyLabel("rtp_auth") = 1
      /\ Kdf!KeyLabel("rtcp_cipher") = 3 /\ Kdf!KeyLabel("rtcp_auth") = 4
  BY DEF Kdf!KeyLabel
<1>2. Kdf!SaltLabel("rtp_cipher") = 2 /\ Kdf!SaltLabel("rtcp_cipher") = 5
  BY DEF Kdf!SaltLabel
<1> QED
  BY <1>1, <1>2 DEF Kdf!Parts

\* A step puts the part's whole key into the buffer and takes it from there.
LEMMA KeyDerived ==
    ASSUME rtp \in Kdf!Policies, rtcp \in Kdf!Policies, Kdf!TypeOK, NEW p \in Kdf!Parts
    PROVE  /\ Kdf!Derived(p) \in [0 .. (Kdf!MasterKeyLen - 1) -> Kdf!KeyOctets]
           /\ {Kdf!Derived(p)[n] : n \in 0 .. (Kdf!KeyLen(p) - 1)} = KeySet(p)
<1> DEFINE l == Kdf!KeyLabel(p)
           s == Kdf!SaltLabel(p)
           len == Kdf!KeyLen(p)
           b == tmp_key
<1>1. /\ len \in {0, 20, 30} /\ l \in 0 .. 5
      /\ b \in [0 .. 29 -> Kdf!KeyOctets]
      /\ len = 30 => s \in 0 .. 5
  BY KeyLengths, LabelsApart DEF Kdf!TypeOK, Kdf!MasterKeyLen
<1>2. CASE len = 30
  <2>1. Kdf!Derived(p) = [n \in 0 .. 29 |-> IF n \in 16 .. 29 THEN Kdf!At(s, n - 16)
                                            ELSE Kdf!At(l, n)]
    <3>1. Kdf!srtp_kdf_generate(tmp_key, l, 0, len) = [n \in 0 .. 29 |-> Kdf!At(l, n)]
      BY <1>1, <1>2 DEF Kdf!srtp_kdf_generate
    <3>2. Kdf!Derived(p) = Kdf!srtp_kdf_generate(Kdf!srtp_kdf_generate(tmp_key, l, 0, len), s, 16, 14)
      BY <1>2, KeyLengths DEF Kdf!Derived, Kdf!BaseKeyLen
    <3> QED
      BY <3>1, <3>2 DEF Kdf!srtp_kdf_generate
  <2>2. KeySet(p) = {Kdf!At(l, n) : n \in 0 .. 15} \cup {Kdf!At(s, n) : n \in 0 .. 13}
    BY <1>2 DEF KeySet, Kdf!MasterKeyLen, Kdf!Prefix, Kdf!BaseKeyLen
  <2> HIDE DEF l, s
  <2>3. Kdf!Derived(p) \in [0 .. 29 -> Kdf!KeyOctets]
    BY <1>1, <1>2, <2>1 DEF Kdf!At, Kdf!KeyOctets, Kdf!MasterKeyLen
  <2>4. \A n \in 0 .. 29 : Kdf!Derived(p)[n] \in KeySet(p)
    BY <2>1, <2>2
  <2>5. ASSUME NEW o \in KeySet(p)
        PROVE  \E n \in 0 .. 29 : Kdf!Derived(p)[n] = o
    <3>1. CASE \E n \in 0 .. 15 : o = Kdf!At(l, n)
      BY <2>1, <3>1
    <3>2. CASE \E n \in 0 .. 13 : o = Kdf!At(s, n)
      <4>1. PICK n \in 0 .. 13 : o = Kdf!At(s, n)
        BY <3>2
      <4>2. n + 16 \in 16 .. 29 /\ (n + 16) - 16 = n
        BY <4>1
      <4> QED
        BY <2>1, <4>1, <4>2
    <3> QED
      BY <2>2, <2>5, <3>1, <3>2
  <2> QED
    BY <1>2, <2>3, <2>4, <2>5 DEF Kdf!MasterKeyLen
<1>3. CASE len # 30
  <2>1. Kdf!Derived(p) = [n \in 0 .. 29 |-> IF n \in 0 .. (len - 1) THEN Kdf!At(l, n) ELSE b[n]]
    <3>1. Kdf!Derived(p) = Kdf!srtp_kdf_generate(tmp_key, l, 0, len)
      BY <1>3, KeyLengths DEF Kdf!Derived
    <3> QED
      BY <1>1, <3>1 DEF Kdf!srtp_kdf_generate
  <2>2. KeySet(p) = {Kdf!At(l, n) : n \in 0 .. (len - 1)}
    BY <1>3 DEF KeySet, Kdf!MasterKeyLen, Kdf!Prefix
  <2> HIDE DEF l, s, len
  <2>3. Kdf!Derived(p) \in [0 .. 29 -> Kdf!KeyOctets]
    BY <1>1, <2>1 DEF Kdf!At, Kdf!KeyOctets, Kdf!MasterKeyLen
  <2>4. \A n \in 0 .. (len - 1) : Kdf!Derived(p)[n] = Kdf!At(l, n)
    BY <1>1, <2>1
  <2>5. {Kdf!Derived(p)[n] : n \in 0 .. (len - 1)} = KeySet(p)
    BY <2>2, <2>4
  <2> QED
    BY <2>3, <2>5 DEF len, Kdf!MasterKeyLen
<1> QED
  BY <1>2, <1>3

\* The keys of a stream: types, and no octet in common.
LEMMA KeySets ==
    ASSUME rtp \in Kdf!Policies, rtcp \in Kdf!Policies
    PROVE  /\ \A p \in Kdf!Parts :
                  KeySet(p) \subseteq [label : 0 .. 5, at : 0 .. (Kdf!MasterKeyLen - 1)]
           /\ \A p, q \in Kdf!Parts : p # q => KeySet(p) \cap KeySet(q) = {}
<1>1. ASSUME NEW p \in Kdf!Parts, NEW o \in KeySet(p)
      PROVE  /\ o \in [label : 0 .. 5, at : 0 .. 29]
             /\ \/ o.label = Kdf!KeyLabel(p)
                \/ p \in {"rtp_cipher", "rtcp_cipher"} /\ o.label = Kdf!SaltLabel(p)
  <2> DEFINE len == Kdf!KeyLen(p)
  <2>1. len \in {0, 20, 30} /\ (len = 30 => p \in {"rtp_cipher", "rtcp_cipher"})
    BY KeyLengths
  <2>2. CASE \E n \in 0 .. 29 : o = Kdf!At(Kdf!KeyLabel(p), n)
    BY <2>2, LabelsApart DEF Kdf!At
  <2>3. CASE len = 30 /\ \E n \in 0 .. 29 : o = Kdf!At(Kdf!SaltLabel(p), n)
    BY <2>1, <2>3, LabelsApart DEF Kdf!At
  <2> QED
    BY <1>1, <2>1, <2>2, <2>3 DEF KeySet, Kdf!Prefix, Kdf!MasterKeyLen, Kdf!BaseKeyLen
<1>2. ASSUME NEW p \in Kdf!Parts, NEW q \in Kdf!Parts, p # q, NEW o \in KeySet(p), o \in KeySet(q)
      PROVE  FALSE
  BY <1>1, <1>2, LabelsApart
<1> QED
  BY <1>1, <1>2 DEF Kdf!MasterKeyLen

\* Nothing is derived at the beginning.
LEMMA KdfInit == Kdf!Init => KdfInv
<1> SUFFICES ASSUME Kdf!Init
             PROVE  KdfInv
  OBVIOUS
<1>1. Kdf!TypeOK
  BY DEF Kdf!Init, Kdf!TypeOK, Kdf!NoKeys, Kdf!Garbage, Kdf!KeyOctets, Kdf!MasterKeyLen,
     Kdf!Parts
<1>2. /\ keys \in [Kdf!Parts -> SUBSET Kdf!KeyOctets] /\ \A p \in Kdf!Parts : keys[p] = {}
  BY DEF Kdf!Init, Kdf!NoKeys
<1>3. \A p \in Kdf!Parts : "idle" \notin Behind(p)
  BY DEF Kdf!Parts, Behind
<1> QED
  BY <1>1, <1>2, <1>3 DEF Kdf!Init, KdfInv, Kdf!BufferCleared, Kdf!Returned

\* The policies of the profiles are policies, or none for both directions, and the
\* lengths fill the master key where there is one.
LEMMA ProfilePolicies ==
    ASSUME NEW f \in Kdf!Profiles
    PROVE  /\ Kdf!from_profile_for_rtp(f) \in Kdf!Policies \cup {Kdf!NoPolicy}
           /\ Kdf!from_profile_for_rtcp(f) = Kdf!from_profile_for_rtp(f)
           /\ Kdf!from_profile_for_rtp(f) # Kdf!NoPolicy =>
                  /\ Kdf!srtp_profile_get_master_key_length(f) = 16
                  /\ Kdf!srtp_profile_get_master_salt_length(f) = 14
BY DEF Kdf!Profiles, Kdf!from_profile_for_rtp, Kdf!from_profile_for_rtcp, Kdf!Policies,
       Kdf!srtp_profile_get_master_key_length, Kdf!srtp_profile_get_master_salt_length,
       Kdf!Supported

\* A caller that names policies, by profile or one by one.
LEMMA KdfCalled ==
    ASSUME KdfInv,
           (\E f \in Kdf!Profiles : Kdf!ByProfile(f)) \/ (\E p, q \in Kdf!Policies : Kdf!ByPolicy(p, q))
    PROVE  KdfInv'
<1>1. /\ rtp' \in Kdf!Policies \cup {Kdf!NoPolicy} /\ rtcp' \in Kdf!Policies \cup {Kdf!NoPolicy}
      /\ rtp' # Kdf!NoPolicy => rtcp' \in Kdf!Policies /\ master' = Kdf!append_salt_to_key(16, 14)
      /\ step = "idle" /\ step' = step /\ tmp_key' = tmp_key /\ keys' = keys
  <2>1. CASE \E f \in Kdf!Profiles : Kdf!ByProfile(f)
    BY <2>1, ProfilePolicies DEF Kdf!ByProfile
  <2>2. CASE \E p, q \in Kdf!Policies : Kdf!ByPolicy(p, q)
    BY <2>2 DEF Kdf!ByPolicy
  <2> QED
    BY <2>1, <2>2
<1>2. \A n \in DOMAIN Kdf!append_salt_to_key(16, 14) : Kdf!append_salt_to_key(16, 14)[n] # "unset"
  BY DEF Kdf!append_salt_to_key, Kdf!MasterKeyLen
<1>3. Kdf!TypeOK'
  BY <1>1 DEF KdfInv, Kdf!TypeOK, Kdf!Parts, Kdf!KeyOctets, Kdf!MasterKeyLen, Kdf!Policies
<1>4. \A p \in Kdf!Parts : "idle" \notin Behind(p)
  BY DEF Kdf!Parts, Behind
<1>5. /\ rtp' # Kdf!NoPolicy => /\ rtp' \in Kdf!Policies /\ rtcp' \in Kdf!Policies
                                /\ \A n \in DOMAIN master' : master'[n] # "unset"
  BY <1>1, <1>2
<1> QED
  BY <1>1, <1>3, <1>4, <1>5 DEF KdfInv, Kdf!BufferCleared, Kdf!Returned

\* A part's key is derived.
LEMMA KdfInstalled ==
    ASSUME KdfInv, NEW p \in Kdf!Parts, Kdf!Install(p)
    PROVE  KdfInv'
<1>1. rtp \in Kdf!Policies /\ rtcp \in Kdf!Policies /\ step # "idle" /\ step = p
  BY DEF KdfInv, Kdf!Install, Kdf!Parts
<1>2. /\ tmp_key' \in [0 .. (Kdf!MasterKeyLen - 1) -> Kdf!KeyOctets]
      /\ keys' = [keys EXCEPT ![p] = KeySet(p)]
      /\ step' = Kdf!Then(p) /\ UNCHANGED <<master, rtp, rtcp>>
  BY <1>1, KeyDerived DEF Kdf!Install, KdfInv
<1>3. \A q \in Kdf!Parts : KeySet(q)' = KeySet(q)
  BY <1>2 DEF KeySet, Kdf!KeyLen, Kdf!PolicyOf
<1>4. /\ step' \in Kdf!Parts \cup {"done"}
      /\ \A q \in Kdf!Parts : step' \in Behind(q) => q = p \/ step \in Behind(q)
  BY <1>1, <1>2 DEF Kdf!Then, Kdf!Parts, Behind
<1>5. /\ keys' \in [Kdf!Parts -> SUBSET Kdf!KeyOctets]
      /\ \A q \in Kdf!Parts : keys'[q] = IF q = p THEN KeySet(p) ELSE keys[q]
      /\ \A q \in Kdf!Parts : keys'[q] \subseteq [label : 0 .. 5, at : 0 .. (Kdf!MasterKeyLen - 1)]
  <2>1. KeySet(p) \subseteq [label : 0 .. 5, at : 0 .. (Kdf!MasterKeyLen - 1)]
    BY <1>1, KeySets
  <2>2. [label : 0 .. 5, at : 0 .. (Kdf!MasterKeyLen - 1)] \subseteq Kdf!KeyOctets
    BY DEF Kdf!KeyOctets
  <2> HIDE DEF KdfInv
  <2>3. keys \in [Kdf!Parts -> SUBSET Kdf!KeyOctets]
    BY DEF KdfInv
  <2>4. \A q \in Kdf!Parts : keys[q] \subseteq [label : 0 .. 5, at : 0 .. (Kdf!MasterKeyLen - 1)]
    BY DEF KdfInv, Kdf!TypeOK
  <2> QED
    BY <1>2, <2>1, <2>2, <2>3, <2>4
<1>6. Kdf!TypeOK'
  BY <1>2, <1>5 DEF KdfInv, Kdf!TypeOK
<1>7. \A q \in Kdf!Parts : step' \in Behind(q) => keys'[q] = KeySet(q)
  BY <1>4, <1>5 DEF KdfInv
<1>8. \A q \in Kdf!Parts : keys'[q] \in {{}, KeySet(q)}
  BY <1>5 DEF KdfInv
<1>9. step' # "idle" /\ ~ Kdf!Returned'
  BY <1>4 DEF Kdf!Parts, Kdf!Returned
<1>10. rtp' = rtp /\ rtcp' = rtcp /\ master' = master
  BY <1>2
<1>11. Kdf!BufferCleared'
  BY <1>9 DEF Kdf!BufferCleared
<1>12. /\ rtp' \in Kdf!Policies /\ rtcp' \in Kdf!Policies
       /\ \A n \in DOMAIN master' : master'[n] # "unset"
  BY <1>1, <1>10, PolicyLengths DEF KdfInv
<1> QED
  BY <1>1, <1>3, <1>4, <1>5, <1>6, <1>7, <1>8, <1>9, <1>11, <1>12, PolicyLengths DEF KdfInv

\* Every step keeps the invariant.
LEMMA KdfStep == KdfInv /\ [Kdf!Next]_Kdf!vars => KdfInv'
<1> SUFFICES ASSUME KdfInv, [Kdf!Next]_Kdf!vars
             PROVE  KdfInv'
  OBVIOUS
<1>1. CASE Kdf!srtp_kdf_init
  <2>1. /\ step' = "rtp_cipher" /\ rtp # Kdf!NoPolicy /\ step = "idle"
        /\ UNCHANGED <<master, rtp, rtcp, tmp_key, keys>>
    BY <1>1 DEF Kdf!srtp_kdf_init, Kdf!Then
  <2>2. \A p \in Kdf!Parts : "rtp_cipher" \notin Behind(p)
    BY DEF Kdf!Parts, Behind
  <2> QED
    BY <2>1, <2>2 DEF KdfInv, Kdf!TypeOK, Kdf!BufferCleared, Kdf!Returned, KeySet,
       Kdf!KeyLen,
                      Kdf!PolicyOf, Kdf!Parts
<1>2. ASSUME NEW p \in Kdf!Parts, Kdf!Refused(p)
      PROVE  KdfInv'
  <2>1. /\ step = p /\ step' = "failed" /\ tmp_key' = Kdf!Zeroized
        /\ UNCHANGED <<master, rtp, rtcp, keys>>
    BY <1>2 DEF Kdf!Refused
  <2>2. \A q \in Kdf!Parts : "failed" \notin Behind(q)
    BY DEF Kdf!Parts, Behind
  <2>3. tmp_key' \in [0 .. (Kdf!MasterKeyLen - 1) -> Kdf!KeyOctets]
    BY <2>1 DEF Kdf!Zeroized, Kdf!Zero, Kdf!KeyOctets, Kdf!MasterKeyLen
  <2>4. Kdf!TypeOK'
    BY <2>1, <2>3 DEF KdfInv, Kdf!TypeOK
  <2>5. \A q \in Kdf!Parts : KeySet(q)' = KeySet(q)
    BY <2>1 DEF KeySet, Kdf!KeyLen, Kdf!PolicyOf
  <2>6. step # "idle"
    BY <2>1 DEF Kdf!Parts
  <2> QED
    BY <2>1, <2>2, <2>4, <2>5, <2>6 DEF KdfInv, Kdf!BufferCleared
<1>3. CASE Kdf!Finish
  <2>1. /\ step = "done" /\ step' = "ready" /\ tmp_key' = Kdf!Zeroized
        /\ UNCHANGED <<master, rtp, rtcp, keys>>
    BY <1>3 DEF Kdf!Finish
  <2>2. \A q \in Kdf!Parts : "done" \in Behind(q)
    BY DEF Kdf!Parts, Behind
  <2>3. tmp_key' \in [0 .. (Kdf!MasterKeyLen - 1) -> Kdf!KeyOctets]
    BY <2>1 DEF Kdf!Zeroized, Kdf!Zero, Kdf!KeyOctets, Kdf!MasterKeyLen
  <2>4. Kdf!TypeOK'
    BY <2>1, <2>3 DEF KdfInv, Kdf!TypeOK
  <2>5. \A q \in Kdf!Parts : KeySet(q)' = KeySet(q)
    BY <2>1 DEF KeySet, Kdf!KeyLen, Kdf!PolicyOf
  <2> QED
    BY <2>1, <2>2, <2>4, <2>5 DEF KdfInv, Kdf!BufferCleared
<1>4. CASE UNCHANGED Kdf!vars
  BY <1>4 DEF Kdf!vars, KdfInv, Kdf!TypeOK, Kdf!BufferCleared, Kdf!Returned, KeySet,
     Kdf!KeyLen,
              Kdf!PolicyOf
<1> QED
  BY <1>1, <1>2, <1>3, <1>4, KdfCalled, KdfInstalled DEF Kdf!Next

\* The six keys of a stream share no octet although one buffer and one cipher context
\* derive them one after the other, each is whole, and none is left in the buffer
\* when the derivation returns: for every pair of policies and every step that is
\* refused.  (srtp_stream_init_keys, srtp_kdf_generate)
THEOREM KeysNeverMix == PartSpec => []KeysApart
<1> DEFINE Inv == part = "kdf" => KdfInv
<1>1. PartInit => Inv
  BY KdfInit DEF PartInit
<1>2. Inv /\ [PartNext]_partVars => Inv'
  <2> SUFFICES ASSUME KdfInv, part = "kdf", part' = "kdf", [PartNext]_partVars
               PROVE  KdfInv'
    BY DEF PartNext, partVars
  <2>1. [Kdf!Next]_Kdf!vars
    BY DEF PartNext, partVars, kdfVars, Kdf!vars
  <2> QED
    BY <2>1, KdfStep
<1>3. Inv => KeysApart
  <2> SUFFICES ASSUME KdfInv
               PROVE  Kdf!TypeOK /\ Kdf!KeysSeparate /\ Kdf!KeysComplete /\ Kdf!BufferCleared
    BY DEF KeysApart
  <2>1. Kdf!KeysSeparate
    <3>1. CASE step = "idle"
      BY <3>1 DEF KdfInv, Kdf!KeysSeparate
    <3>2. CASE step # "idle"
      <4>1. rtp \in Kdf!Policies /\ rtcp \in Kdf!Policies
        BY <3>2 DEF KdfInv
      <4> QED
        BY <4>1, KeySets DEF KdfInv, Kdf!KeysSeparate
    <3> QED
      BY <3>1, <3>2
  <2>2. Kdf!KeysComplete
    <3>1. step # "idle" => \A n \in DOMAIN master : master[n] # "unset"
      BY DEF KdfInv
    <3>2. \A p \in Kdf!Parts : "ready" \in Behind(p)
      BY DEF Kdf!Parts, Behind
    <3> QED
      BY <3>1, <3>2 DEF KdfInv, Kdf!KeysComplete, KeySet
  <2> QED
    BY <2>1, <2>2 DEF KdfInv
<1> QED
  BY <1>1, <1>2, <1>3, PTL DEF PartSpec

-----------------------------------------------------------------------------
(***************************************************************************)
(* The random generators                                                   *)
(***************************************************************************)

\* An octet of the counter mode generator is one before the next to be drawn; one of
\* the other is of a block before the next; and the count bounds the octets of the
\* seed.
PrngInv ==
    /\ Random!TypeOK /\ gen \in {"ctr", "x917"} /\ drawn \in Nat /\ block \in Nat
    /\ again = FALSE
    /\ given \subseteq Nat \X Nat \X Nat
    /\ \A o \in given : o[1] <= seed
    /\ gen = "ctr" => \A o \in Random!OfSeed : o[2] * PrngBlockLen + o[3] < drawn
    /\ gen = "x917" => \A o \in Random!OfSeed : o[2] < block
    /\ IsFiniteSet(Random!OfSeed) /\ Random!CountCovers

\* The generators count with the cardinality of the library.
LEMMA SameCount == \A S : Random!Cardinality(S) = Cardinality(S)
BY DEF Random!Cardinality, Cardinality, Random!IsFiniteSet, IsFiniteSet

\* The octets of a keystream, and those of blocks that the state is stepped to.
Drawn(s, from, len) ==
    {Random!Octet(s, n \div PrngBlockLen, n % PrngBlockLen) : n \in from .. (from + len - 1)}
Stepped(s, from, len) ==
    {Random!Octet(s, from + n \div PrngBlockLen, n % PrngBlockLen) : n \in 0 .. (len - 1)}

\* A call draws no more octets than it was asked for.
LEMMA DrawnCounted ==
    ASSUME NEW s, NEW from \in Nat, NEW len \in Nat
    PROVE  IsFiniteSet(Drawn(s, from, len)) /\ Cardinality(Drawn(s, from, len)) <= len
<1> DEFINE S == from .. (from + len - 1)
           f == [n \in S |-> Random!Octet(s, n \div PrngBlockLen, n % PrngBlockLen)]
<1>1. f \in Surjection(S, Drawn(s, from, len))
  BY DEF Surjection, Drawn
<1>2. IsFiniteSet(S) /\ Cardinality(S) = len
  BY FS_Interval, from \in Int, from + len - 1 \in Int
<1> QED
  BY <1>1, <1>2, FS_Surjection

\* Nor does a call that steps the state.
LEMMA SteppedCounted ==
    ASSUME NEW s, NEW from \in Nat, NEW len \in Nat
    PROVE  IsFiniteSet(Stepped(s, from, len)) /\ Cardinality(Stepped(s, from, len)) <= len
<1> DEFINE S == 0 .. (len - 1)
           f == [n \in S |-> Random!Octet(s, from + n \div PrngBlockLen, n % PrngBlockLen)]
<1>1. f \in Surjection(S, Stepped(s, from, len))
  BY DEF Surjection, Stepped
<1>2. IsFiniteSet(S) /\ Cardinality(S) = len
  BY FS_Interval, 0 \in Int, len - 1 \in Int
<1> QED
  BY <1>1, <1>2, FS_Surjection

\* The keystream from an octet on, as triples.
LEMMA DrawnOctets ==
    ASSUME PrngBlockLen \in Nat \ {0}, NEW s \in Nat, NEW from \in Nat, NEW len \in Nat,
           NEW o \in Drawn(s, from, len)
    PROVE  /\ o \in Nat \X Nat \X Nat /\ o[1] = s
           /\ o[2] * PrngBlockLen + o[3] \in from .. (from + len - 1)
<1>1. PICK n \in from .. (from + len - 1) :
           o = <<s, n \div PrngBlockLen, n % PrngBlockLen>>
  BY DEF Drawn, Random!Octet
<1>2. n \in Nat
  BY <1>1
<1>3. /\ n = (n \div PrngBlockLen) * PrngBlockLen + (n % PrngBlockLen)
      /\ n % PrngBlockLen \in Nat /\ n \div PrngBlockLen \in Nat
  BY <1>2, Divided
<1> QED
  BY <1>1, <1>3

\* The blocks that are stepped to lie between the old state and the new one.
LEMMA SteppedOctets ==
    ASSUME PrngBlockLen \in Nat \ {0}, NEW s \in Nat, NEW from \in Nat, NEW len \in Nat,
           NEW o \in Stepped(s, from, len)
    PROVE  /\ o \in Nat \X Nat \X Nat /\ o[1] = s
           /\ from <= o[2] /\ o[2] < from + Random!Blocks(len)
<1>1. PICK n \in 0 .. (len - 1) :
           o = <<s, from + n \div PrngBlockLen, n % PrngBlockLen>>
  BY DEF Stepped, Random!Octet
<1> DEFINE B == PrngBlockLen
           q == n \div B
           r == n % B
           t == (len + B - 1) \div B
           u == (len + B - 1) % B
<1>2. n \in Nat /\ n < len /\ len + B - 1 \in Nat
  BY <1>1
<1>3. n = q * B + r /\ q \in Nat /\ r \in 0 .. B - 1
  BY <1>2, Divided
<1>4. len + B - 1 = t * B + u /\ t \in Nat /\ u \in 0 .. B - 1
  BY <1>2, Divided
<1>5. B \in Nat /\ B > 0
  OBVIOUS
<1>6. Random!Blocks(len) = t
  BY DEF Random!Blocks
<1>7. o = <<s, from + q, r>>
  BY <1>1
<1> HIDE DEF B, q, r, t, u
<1>8. q < t
  <2>1. SUFFICES ASSUME t <= q PROVE FALSE
    BY <1>3, <1>4
  <2>2. PICK d \in Nat : q = t + d
    BY <2>1, <1>3, <1>4
  <2>3. (t + d) * B = t * B + d * B /\ d * B >= 0 /\ t * B \in Nat /\ d * B \in Nat
    BY <1>4, <1>5
  <2> QED
    BY <2>2, <2>3, <1>2, <1>3, <1>4, <1>5
<1> QED
  BY <1>3, <1>4, <1>6, <1>7, <1>8

\* The octets of a seed stay within the count when a call hands out no more than it was
\* asked for, be it under the present seed or the next.
LEMMA SeedCounted ==
    ASSUME PrngInv, NEW len \in Nat, NEW new, IsFiniteSet(new), Cardinality(new) <= len,
           given' = given \cup new, \A o \in new : o[1] = seed',
           \/ seed' = seed /\ octet_count' = octet_count + len
           \/ seed' = seed + 1 /\ octet_count' = len
    PROVE  IsFiniteSet(Random!OfSeed') /\ Random!CountCovers'
<1>1. octet_count \in Nat /\ seed \in Nat
  BY DEF PrngInv, Random!TypeOK
<1>2. Cardinality(new) \in Nat
  BY FS_CardinalityType
<1>3. CASE seed' = seed /\ octet_count' = octet_count + len
  <2>1. Random!OfSeed' = Random!OfSeed \cup new
    BY <1>3 DEF Random!OfSeed
  <2>2. IsFiniteSet(Random!OfSeed) /\ Cardinality(Random!OfSeed) <= octet_count
    BY SameCount DEF PrngInv, Random!CountCovers
  <2>3. IsFiniteSet(Random!OfSeed \cap new)
    BY <2>2, FS_Subset, Random!OfSeed \cap new \in SUBSET Random!OfSeed
  <2>4. Cardinality(Random!OfSeed \cap new) \in Nat /\ Cardinality(Random!OfSeed) \in Nat
    BY <2>2, <2>3, FS_CardinalityType
  <2>5. /\ IsFiniteSet(Random!OfSeed \cup new)
        /\ Cardinality(Random!OfSeed \cup new)
             = Cardinality(Random!OfSeed) + Cardinality(new) - Cardinality(Random!OfSeed \cap new)
    BY <2>2, FS_Union
  <2>6. Cardinality(Random!OfSeed \cup new) <= octet_count + len
    BY <1>1, <1>2, <2>2, <2>4, <2>5
  <2> QED
    BY <1>3, <2>1, <2>5, <2>6, SameCount DEF Random!CountCovers
<1>4. CASE seed' = seed + 1 /\ octet_count' = len
  <2>1. Random!OfSeed' = new
    BY <1>1, <1>4 DEF Random!OfSeed, PrngInv
  <2> QED
    BY <1>4, <2>1, SameCount DEF Random!CountCovers
<1> QED
  BY <1>3, <1>4

\* The generators begin without a seed.
LEMMA PrngInit == PartsAssumption /\ Random!Init => PrngInv
<1> SUFFICES ASSUME PartsAssumption, Random!Init PROVE PrngInv
  OBVIOUS
<1>1. MaxSeeds \in Nat /\ MaxOutLen \in Nat
  BY DEF PartsAssumption, Random!PrngAssumption
<1>2. Random!OfSeed = {}
  BY DEF Random!Init, Random!OfSeed
<1>3. IsFiniteSet(Random!OfSeed) /\ Random!CountCovers
  BY <1>2, FS_EmptySet, SameCount DEF Random!Init, Random!CountCovers
<1>4. Random!TypeOK
  <2>1. octet_count \in 0 .. MaxOutLen /\ seed \in 0 .. MaxSeeds
    BY <1>1 DEF Random!Init
  <2> QED
    BY <2>1 DEF Random!Init, Random!TypeOK
<1>5. drawn \in Nat /\ block \in Nat
  BY DEF Random!Init
<1> QED
  BY <1>2, <1>3, <1>4, <1>5 DEF Random!Init, PrngInv

\* A seed that is taken has handed out nothing.
LEMMA PrngSeeds ==
    PartsAssumption /\ PrngInv
        /\ (Random!rand_source_init \/ Random!rand_source_deinit \/ Random!prng_init)
        => PrngInv'
<1> SUFFICES ASSUME PartsAssumption, PrngInv,
                    Random!rand_source_init \/ Random!rand_source_deinit \/ Random!prng_init
             PROVE  PrngInv'
  OBVIOUS
<1>1. MaxSeeds \in Nat /\ MaxOutLen \in Nat
  BY DEF PartsAssumption, Random!PrngAssumption
<1>2. CASE Random!prng_init
  <2>1. Random!OfSeed' = {}
    BY <1>2 DEF Random!OfSeed, Random!prng_init, PrngInv, Random!TypeOK
  <2>2. IsFiniteSet(Random!OfSeed') /\ Random!CountCovers'
    BY <1>2, <2>1, FS_EmptySet, SameCount DEF Random!prng_init, Random!CountCovers
  <2>3. Random!TypeOK'
    BY <1>1, <1>2 DEF Random!TypeOK, Random!prng_init, PrngInv
  <2>4. \A o \in given' : o[1] <= seed'
    BY <1>2 DEF Random!TypeOK, Random!prng_init, PrngInv
  <2> QED
    BY <1>2, <2>1, <2>2, <2>3, <2>4 DEF Random!prng_init, PrngInv
<1>3. CASE Random!rand_source_init
  <2>1. Random!OfSeed' = Random!OfSeed
    BY <1>3 DEF Random!rand_source_init, Random!OfSeed
  <2>2. Random!TypeOK' /\ (Random!CountCovers' <=> Random!CountCovers)
    BY <1>3, <2>1 DEF Random!rand_source_init, PrngInv, Random!TypeOK, Random!CountCovers
  <2> QED
    BY <1>3, <2>1, <2>2 DEF Random!rand_source_init, PrngInv
<1>4. CASE Random!rand_source_deinit
  <2>1. Random!OfSeed' = Random!OfSeed
    BY <1>4 DEF Random!rand_source_deinit, Random!OfSeed
  <2>2. Random!TypeOK' /\ (Random!CountCovers' <=> Random!CountCovers)
    BY <1>4, <2>1 DEF Random!rand_source_deinit, PrngInv, Random!TypeOK, Random!CountCovers
  <2> QED
    BY <1>4, <2>1, <2>2 DEF Random!rand_source_deinit, PrngInv
<1> QED
  BY <1>2, <1>3, <1>4

\* The counter mode generator goes on where it stopped, or begins a new keystream.
LEMMA PrngDraws ==
    ASSUME PartsAssumption, PrngInv, NEW len \in Asked, Random!ctr_prng_get_octet_string(len)
    PROVE  PrngInv'
<1>1. /\ MaxSeeds \in Nat /\ MaxOutLen \in Nat /\ PrngBlockLen \in Nat \ {0}
      /\ len \in Nat /\ len <= MaxOutLen
  BY DEF PartsAssumption, Random!PrngAssumption
<1>2. octet_count \in Nat /\ octet_count <= MaxOutLen /\ seed \in Nat
  BY <1>1 DEF PrngInv, Random!TypeOK
<1> DEFINE from == IF Random!Reseeds(len) THEN 0 ELSE drawn
           s == IF Random!Reseeds(len) THEN seed + 1 ELSE seed
           new == IF Random!Exhausted(from, len) THEN {} ELSE Drawn(s, from, len)
<1>3. /\ gen = "ctr" /\ gen' = gen /\ s <= MaxSeeds /\ seed' = s
      /\ ready' = ready /\ block' = block
      /\ octet_count' = (IF Random!Reseeds(len) THEN 0 ELSE octet_count) + len
      /\ prng_status' \in {"ok", "terminus"}
  BY DEF Random!ctr_prng_get_octet_string
<1>4. /\ given' = given \cup new
      /\ new = {} \/ new = Drawn(s, from, len)
      /\ drawn' = IF Random!Exhausted(from, len) THEN from ELSE from + len
      /\ again' = again \/ again' = (new \cap given # {})
  BY DEF Random!ctr_prng_get_octet_string, Random!Hand, Drawn
<1>5. from \in Nat /\ s \in Nat
  BY <1>2 DEF PrngInv
<1>6. \/ seed' = seed /\ s = seed /\ octet_count' = octet_count + len /\ from = drawn
         /\ octet_count + len <= MaxOutLen
      \/ seed' = seed + 1 /\ s = seed + 1 /\ octet_count' = len /\ from = 0
  BY <1>1, <1>2, <1>3 DEF Random!Reseeds
<1>7. \A o \in new : /\ o \in Nat \X Nat \X Nat /\ o[1] = s
                     /\ o[2] * PrngBlockLen + o[3] \in from .. (from + len - 1)
  BY <1>1, <1>4, <1>5, DrawnOctets
<1>8. IsFiniteSet(new) /\ Cardinality(new) <= len
  BY <1>1, <1>4, <1>5, DrawnCounted, FS_EmptySet
<1>9. drawn' \in Nat /\ drawn' >= from /\ (new # {} => drawn' = from + len)
  BY <1>1, <1>4, <1>5
<1> HIDE DEF from, s, new
<1>10. Random!TypeOK'
  <2>1. octet_count' \in 0 .. MaxOutLen /\ seed' \in 0 .. MaxSeeds
    BY <1>1, <1>2, <1>3, <1>5, <1>6
  <2> QED
    BY <1>3, <2>1 DEF Random!TypeOK, PrngInv
<1>11. \A o \in Random!OfSeed : s = seed => o[2] * PrngBlockLen + o[3] < from
  BY <1>3, <1>2, <1>6 DEF PrngInv
<1>12. new \cap given = {}
  <2>1. SUFFICES ASSUME NEW o \in new, o \in given PROVE FALSE
    OBVIOUS
  <2>2. o[1] = s /\ o[1] <= seed
    BY <1>7, <2>1 DEF PrngInv
  <2>3. s = seed /\ o \in Random!OfSeed
    BY <1>2, <1>6, <2>1, <2>2 DEF Random!OfSeed
  <2>4. o[2] * PrngBlockLen + o[3] < from
    BY <1>11, <2>3
  <2>5. o[2] * PrngBlockLen + o[3] \in from .. (from + len - 1)
    BY <1>7, <2>1
  <2> QED
    BY <1>1, <1>5, <2>4, <2>5
<1>13. again' = FALSE
  BY <1>4, <1>12 DEF PrngInv
<1>14. given' \subseteq Nat \X Nat \X Nat /\ \A o \in given' : o[1] <= seed'
  BY <1>2, <1>4, <1>5, <1>6, <1>7 DEF PrngInv
<1>15. IsFiniteSet(Random!OfSeed') /\ Random!CountCovers'
  BY <1>1, <1>3, <1>4, <1>6, <1>7, <1>8, SeedCounted
<1>16. \A o \in Random!OfSeed' : o[2] * PrngBlockLen + o[3] < drawn'
  <2>1. SUFFICES ASSUME NEW o \in given', o[1] = seed'
                 PROVE  o[2] * PrngBlockLen + o[3] < drawn'
    BY DEF Random!OfSeed
  <2>2. CASE o \in new
    <3>1. o[2] * PrngBlockLen + o[3] \in from .. (from + len - 1)
      BY <1>7, <2>2
    <3> QED
      BY <1>1, <1>5, <1>9, <2>2, <3>1
  <2>3. CASE o \in given
    <3>1. s = seed /\ o \in Random!OfSeed
      BY <1>2, <1>3, <1>6, <2>1, <2>3 DEF Random!OfSeed, PrngInv
    <3>2. o[2] * PrngBlockLen + o[3] < from
      BY <1>11, <3>1
    <3>3. o[2] * PrngBlockLen + o[3] \in Int
      BY <1>1, <2>3 DEF PrngInv
    <3> QED
      BY <1>5, <1>9, <3>2, <3>3
  <2> QED
    BY <1>4, <2>1, <2>2, <2>3
<1> QED
  BY <1>3, <1>9, <1>10, <1>13, <1>14, <1>15, <1>16 DEF PrngInv

\* The other generator steps its state past every block it has given octets of.
LEMMA PrngSteps ==
    ASSUME PartsAssumption, PrngInv, NEW len \in Asked, Random!x917_prng_get_octet_string(len)
    PROVE  PrngInv'
<1>1. /\ MaxSeeds \in Nat /\ MaxOutLen \in Nat /\ PrngBlockLen \in Nat \ {0}
      /\ len \in Nat /\ len <= MaxOutLen
  BY DEF PartsAssumption, Random!PrngAssumption
<1>2. octet_count \in Nat /\ octet_count <= MaxOutLen /\ seed \in Nat
  BY <1>1 DEF PrngInv, Random!TypeOK
<1> DEFINE from == IF Random!Reseeds(len) THEN 0 ELSE block
           s == IF Random!Reseeds(len) THEN seed + 1 ELSE seed
           new == Stepped(s, from, len)
<1>3. /\ gen = "x917" /\ gen' = gen /\ s <= MaxSeeds /\ seed' = s
      /\ ready' = ready /\ drawn' = drawn
      /\ octet_count' = (IF Random!Reseeds(len) THEN 0 ELSE octet_count) + len
      /\ prng_status' = "ok"
  BY DEF Random!x917_prng_get_octet_string
<1>4. /\ given' = given \cup new /\ again' = (new \cap given # {})
      /\ block' = from + Random!Blocks(len)
  BY DEF Random!x917_prng_get_octet_string, Random!Hand, Stepped
<1>5. from \in Nat /\ s \in Nat
  BY <1>2 DEF PrngInv
<1>6. \/ seed' = seed /\ s = seed /\ octet_count' = octet_count + len /\ from = block
         /\ octet_count + len <= MaxOutLen
      \/ seed' = seed + 1 /\ s = seed + 1 /\ octet_count' = len /\ from = 0
  BY <1>1, <1>2, <1>3 DEF Random!Reseeds
<1>7. \A o \in new : /\ o \in Nat \X Nat \X Nat /\ o[1] = s
                     /\ from <= o[2] /\ o[2] < from + Random!Blocks(len)
  BY <1>1, <1>5, SteppedOctets
<1>8. IsFiniteSet(new) /\ Cardinality(new) <= len
  BY <1>1, <1>5, SteppedCounted
<1>9. Random!Blocks(len) \in Nat
  <2>1. len + PrngBlockLen - 1 \in Nat
    BY <1>1
  <2> QED
    BY <1>1, <2>1, Divided DEF Random!Blocks
<1> HIDE DEF from, s, new
<1>10. Random!TypeOK'
  <2>1. octet_count' \in 0 .. MaxOutLen /\ seed' \in 0 .. MaxSeeds
    BY <1>1, <1>2, <1>3, <1>5, <1>6
  <2> QED
    BY <1>3, <2>1 DEF Random!TypeOK, PrngInv
<1>11. \A o \in Random!OfSeed : s = seed => o[2] < from
  BY <1>3, <1>2, <1>6 DEF PrngInv
<1>12. new \cap given = {}
  <2>1. SUFFICES ASSUME NEW o \in new, o \in given PROVE FALSE
    OBVIOUS
  <2>2. o[1] = s /\ o[1] <= seed
    BY <1>7, <2>1 DEF PrngInv
  <2>3. s = seed /\ o \in Random!OfSeed
    BY <1>2, <1>6, <2>1, <2>2 DEF Random!OfSeed
  <2>4. o[2] < from /\ from <= o[2] /\ o[2] \in Nat
    BY <1>7, <1>11, <2>1, <2>3
  <2> QED
    BY <1>5, <2>4
<1>13. again' = FALSE
  BY <1>4, <1>12
<1>14. given' \subseteq Nat \X Nat \X Nat /\ \A o \in given' : o[1] <= seed'
  BY <1>2, <1>4, <1>5, <1>6, <1>7 DEF PrngInv
<1>15. IsFiniteSet(Random!OfSeed') /\ Random!CountCovers'
  BY <1>1, <1>3, <1>4, <1>6, <1>7, <1>8, SeedCounted
<1>16. \A o \in Random!OfSeed' : o[2] < block'
  <2>1. SUFFICES ASSUME NEW o \in given', o[1] = seed' PROVE o[2] < block'
    BY DEF Random!OfSeed
  <2>2. CASE o \in new
    BY <1>4, <1>7, <2>2
  <2>3. CASE o \in given
    <3>1. s = seed /\ o \in Random!OfSeed
      BY <1>2, <1>3, <1>6, <2>1, <2>3 DEF Random!OfSeed, PrngInv
    <3>2. o[2] < from /\ o[2] \in Nat
      BY <1>11, <2>3, <3>1 DEF PrngInv
    <3> QED
      BY <1>4, <1>5, <1>9, <3>2
  <2> QED
    BY <1>4, <2>1, <2>2, <2>3
<1>17. block' \in Nat
  BY <1>4, <1>5, <1>9
<1> QED
  BY <1>3, <1>10, <1>13, <1>14, <1>15, <1>16, <1>17 DEF PrngInv

\* Every call of the generators keeps the invariant.
LEMMA PrngStep == PartsAssumption /\ PrngInv /\ [Random!Next]_(Random!vars) => PrngInv'
<1> SUFFICES ASSUME PartsAssumption, PrngInv, [Random!Next]_(Random!vars) PROVE PrngInv'
  OBVIOUS
<1>1. ASSUME NEW len \in Asked, Random!Get(len) PROVE PrngInv'
  BY <1>1, PrngDraws, PrngSteps DEF Random!Get
<1>2. CASE UNCHANGED Random!vars
  <2>1. /\ given' = given /\ seed' = seed /\ octet_count' = octet_count /\ drawn' = drawn
        /\ block' = block /\ again' = again /\ gen' = gen /\ ready' = ready
        /\ prng_status' = prng_status
    BY <1>2 DEF Random!vars
  <2>2. Random!OfSeed' = Random!OfSeed
    BY <2>1 DEF Random!OfSeed
  <2>3. Random!TypeOK' /\ (Random!CountCovers' <=> Random!CountCovers)
    BY <2>1, <2>2 DEF PrngInv, Random!TypeOK, Random!CountCovers
  <2> QED
    BY <2>1, <2>2, <2>3 DEF PrngInv
<1> QED
  BY <1>1, <1>2, PrngSeeds DEF Random!Next

\* However the generators are seeded, refused and asked for octets of any length, none
\* is handed out twice, and a seed is replaced before it gives more than it may.
THEOREM OctetsStayFresh == PartSpec => []OctetsFresh
<1> DEFINE Inv == part = "prng" => PrngInv
<1>1. PartInit => Inv
  BY PrngInit, PartsAssumption DEF PartInit
<1>2. Inv /\ [PartNext]_partVars => Inv'
  <2> SUFFICES ASSUME Inv, [PartNext]_partVars, part' = "prng" PROVE PrngInv'
    OBVIOUS
  <2>1. part = "prng"
    BY DEF PartNext, partVars
  <2>2. [Random!Next]_(Random!vars)
    BY <2>1 DEF PartNext, partVars, prngVars, Random!vars
  <2> QED
    BY <2>1, <2>2, PrngStep, PartsAssumption
<1>3. Inv => OctetsFresh
  BY DEF PrngInv, OctetsFresh, Random!OctetsFresh
<1> QED
  BY <1>1, <1>2, <1>3, PTL DEF PartSpec

-----------------------------------------------------------------------------
(***************************************************************************)
(* The crypto kernel                                                       *)
(***************************************************************************)

\* The counts of the instances.
KernelTyped == Kernel!TypeOK /\ Kernel!AuthCounted

\* The states and the history: steps 2 to 15 run in the insecure state only, and on
\* lists that were empty before.
KernelPhase ==
    /\ state = "secure" => boot \in {0, 16} /\ "mod_crypto_kernel" \in debug_module_list
    /\ boot = 16 => state = "secure"
    /\ boot \in 2 .. 15 => ~ failed
    /\ failed \/ boot > 1 \/ debug_module_list # {} => "mod_crypto_kernel" \in debug_module_list

\* What the steps before this one have loaded and started.
KernelLoaded ==
    /\ Kernel!SecureIsComplete
    /\ boot > 6 => dev_random_ready
    /\ boot > 8 => prng_seeded
    /\ boot > 10 => "NULL_CIPHER" \in cipher_type_list
    /\ boot > 11 => "AES_128_ICM" \in cipher_type_list
    /\ boot > 12 => "AES_128_CBC" \in cipher_type_list
    /\ boot > 13 => "NULL_AUTH" \in auth_type_list
    /\ boot > 14 => "HMAC_SHA1" \in auth_type_list

KernelInv == KernelTyped /\ KernelPhase /\ KernelLoaded

\* What the steps of an initialisation are.
LEMMA BootSteps ==
    /\ Len(Kernel!Boot) = 16
    /\ \A n \in 1 .. 16 :
           LET o == Kernel!Boot[n][1]
               a == Kernel!Boot[n][2]
           IN  /\ o = "debug" => /\ n \in {1, 2, 3, 4, 5, 16} /\ a \in Kernel!Modules
                                 /\ (n = 1) <=> (a = "mod_crypto_kernel")
               /\ o = "rand_source_init" => n = 6
               /\ o = "stat_test" => n \in {7, 9}
               /\ o = "ctr_prng_init" => n = 8
               /\ o = "cipher" => \/ n = 10 /\ a = "NULL_CIPHER"
                                  \/ n = 11 /\ a = "AES_128_ICM"
                                  \/ n = 12 /\ a = "AES_128_CBC"
               /\ o = "auth" => \/ n = 13 /\ a = "NULL_AUTH"
                                \/ n = 14 /\ a = "HMAC_SHA1"
               /\ o = "secure" => n = 15
BY DEF Kernel!Boot, Kernel!Modules

\* Nothing is loaded at the beginning.
LEMMA KernelInit == Kernel!Init => KernelInv
<1> SUFFICES ASSUME Kernel!Init
             PROVE  KernelInv
  OBVIOUS
<1>1. MaxHeld \in Nat
  BY PartsAssumption DEF Kernel!KernelAssumption
<1>2. Kernel!TypeOK
  <2>1. /\ ref_count \in [Kernel!Types -> Int] /\ held \in [Kernel!Types -> 0 .. MaxHeld]
        /\ boot \in 0 .. Len(Kernel!Boot)
    BY <1>1, BootSteps DEF Kernel!Init
  <2> QED
    BY <2>1 DEF Kernel!Init, Kernel!TypeOK
<1> QED
  BY <1>2 DEF Kernel!Init, KernelInv, KernelTyped, KernelPhase, KernelLoaded,
     Kernel!SecureIsComplete, Kernel!AuthCounted, Kernel!AuthTypes,
              Kernel!Types

\* A step of the initialisation: it adds to the lists and the sources what is its own.
LEMMA KernelBoots ==
    ASSUME KernelInv,
           \/ Kernel!rand_source_init \/ Kernel!ctr_prng_init \/ Kernel!BecomeSecure
           \/ \E m : Kernel!LoadDebug(m) \/ Kernel!stat_test(m)
    PROVE  KernelInv'
<1> USE DEF KernelInv
<1>0. boot \in 0 .. 16 /\ Len(Kernel!Boot) = 16
  BY BootSteps DEF KernelTyped, Kernel!TypeOK
<1>1. CASE Kernel!rand_source_init
  <2>1. boot = 6
    BY <1>0, <1>1, BootSteps DEF Kernel!rand_source_init, Kernel!At, Kernel!Returned
  <2>2. /\ boot' = 7 /\ dev_random_ready' = TRUE
        /\ UNCHANGED <<state, cipher_type_list, auth_type_list, debug_module_list,
                       prng_seeded, ref_count, held, exited, boot_status, failed>>
    BY <1>1, <2>1, <1>0 DEF Kernel!Returned, Kernel!rand_source_init, Kernel!lists
  <2>3. KernelTyped'
    BY <1>0, <2>1, <2>2
       DEF KernelTyped, Kernel!TypeOK, Kernel!AuthCounted
  <2>4. KernelPhase'
    BY <1>0, <2>1, <2>2
       DEF KernelTyped, KernelPhase, Kernel!TypeOK
  <2>5. KernelLoaded'
    BY <1>0, <2>1, <2>2
       DEF KernelTyped, KernelPhase, KernelLoaded, Kernel!TypeOK, Kernel!SecureIsComplete
  <2> QED
    BY <2>3, <2>4, <2>5
<1>2. CASE Kernel!ctr_prng_init
  <2>1. boot = 8
    BY <1>0, <1>2, BootSteps DEF Kernel!ctr_prng_init, Kernel!At, Kernel!Returned
  <2>2. /\ boot' = 9 /\ prng_seeded' = TRUE
        /\ UNCHANGED <<state, cipher_type_list, auth_type_list, debug_module_list,
                       dev_random_ready, ref_count, held, exited, boot_status, failed>>
    BY <1>2, <2>1, <1>0 DEF Kernel!Returned, Kernel!ctr_prng_init, Kernel!lists
  <2>3. KernelTyped'
    BY <1>0, <2>1, <2>2
       DEF KernelTyped, Kernel!TypeOK, Kernel!AuthCounted
  <2>4. KernelPhase'
    BY <1>0, <2>1, <2>2
       DEF KernelTyped, KernelPhase, Kernel!TypeOK
  <2>5. KernelLoaded'
    BY <1>0, <2>1, <2>2
       DEF KernelTyped, KernelPhase, KernelLoaded, Kernel!TypeOK, Kernel!SecureIsComplete
  <2> QED
    BY <2>3, <2>4, <2>5
<1>3. CASE Kernel!BecomeSecure
  <2>1. boot = 15
    BY <1>0, <1>3, BootSteps DEF Kernel!BecomeSecure, Kernel!At, Kernel!Returned
  <2>2. /\ boot' = 16 /\ state' = "secure"
        /\ UNCHANGED <<cipher_type_list, auth_type_list, debug_module_list, dev_random_ready,
                       prng_seeded, ref_count, held, exited, boot_status, failed>>
    BY <1>3, <2>1, <1>0 DEF Kernel!Returned, Kernel!BecomeSecure, Kernel!lists,
       Kernel!sources
  <2>3. cipher_type_list = Kernel!CipherTypes /\ auth_type_list = Kernel!AuthTypes
    <3>1. cipher_type_list \subseteq Kernel!CipherTypes /\ auth_type_list \subseteq Kernel!AuthTypes
      BY DEF KernelTyped, Kernel!TypeOK
    <3>2. Kernel!CipherTypes \subseteq cipher_type_list /\ Kernel!AuthTypes \subseteq auth_type_list
      BY <2>1 DEF KernelLoaded, Kernel!CipherTypes, Kernel!AuthTypes
    <3> QED
      BY <3>1, <3>2
  <2>4. KernelTyped'
    BY <1>0, <2>1, <2>2, <2>3
       DEF KernelTyped, Kernel!TypeOK, Kernel!AuthCounted
  <2>5. KernelPhase'
    BY <1>0, <2>1, <2>2, <2>3
       DEF KernelTyped, KernelPhase, Kernel!TypeOK
  <2>6. KernelLoaded'
    BY <1>0, <2>1, <2>2, <2>3
       DEF KernelTyped, KernelPhase, KernelLoaded, Kernel!TypeOK, Kernel!SecureIsComplete
  <2> QED
    BY <2>4, <2>5, <2>6
<1>4. ASSUME NEW m, Kernel!LoadDebug(m)
      PROVE  KernelInv'
  <2>1. /\ boot \in {1, 2, 3, 4, 5, 16} /\ m \in Kernel!Modules
        /\ boot = 1 <=> m = "mod_crypto_kernel"
    BY <1>0, <1>4, BootSteps DEF Kernel!LoadDebug, Kernel!At, Kernel!Modules
  <2>2. /\ UNCHANGED <<state, cipher_type_list, auth_type_list, dev_random_ready,
                       prng_seeded, ref_count, held, exited>>
    BY <1>4 DEF Kernel!LoadDebug, Kernel!sources
  <2>3. PICK s \in {"ok", "bad_param", "alloc_fail"} :
             Kernel!crypto_kernel_load_debug_module(m, s) /\ Kernel!Returned(s)
    BY <1>4 DEF Kernel!LoadDebug
  <2>4. CASE s = "ok"
    <3>1. m \notin debug_module_list /\ debug_module_list' = debug_module_list \cup {m}
      BY <2>3, <2>4 DEF Kernel!crypto_kernel_load_debug_module
    <3>2. /\ failed' = failed
          /\ boot = 16 => boot' = 0 /\ boot_status' = "ok"
          /\ boot # 16 => boot' = boot + 1 /\ boot_status' = boot_status
      BY <2>1, <2>3, <2>4, <1>0 DEF Kernel!Returned
    <3>3. KernelTyped'
      BY <1>0, <2>1, <2>2, <3>1, <3>2
         DEF KernelTyped, Kernel!TypeOK, Kernel!AuthCounted
    <3>4. KernelPhase'
      BY <1>0, <2>1, <2>2, <3>1, <3>2
         DEF KernelTyped, KernelPhase, Kernel!TypeOK
    <3>5. KernelLoaded'
      BY <1>0, <2>1, <2>2, <3>1, <3>2
         DEF KernelTyped, KernelPhase, KernelLoaded, Kernel!TypeOK, Kernel!SecureIsComplete
    <3> QED
      BY <3>3, <3>4, <3>5
  <2>5. CASE s # "ok"
    <3>1. debug_module_list' = debug_module_list
      BY <2>3, <2>5 DEF Kernel!crypto_kernel_load_debug_module
    <3>2. /\ boot' = 0 /\ boot_status' = s
          /\ failed' = (failed \/ debug_module_list # {})
      BY <2>1, <2>3, <2>5, <1>0 DEF Kernel!Returned
    <3>3. KernelTyped'
      BY <1>0, <2>1, <2>2, <3>1, <3>2
         DEF KernelTyped, Kernel!TypeOK, Kernel!AuthCounted
    <3>4. KernelPhase'
      BY <1>0, <2>1, <2>2, <3>1, <3>2
         DEF KernelTyped, KernelPhase, Kernel!TypeOK
    <3>5. KernelLoaded'
      BY <1>0, <2>1, <2>2, <3>1, <3>2
         DEF KernelTyped, KernelPhase, KernelLoaded, Kernel!TypeOK, Kernel!SecureIsComplete
    <3> QED
      BY <3>3, <3>4, <3>5
  <2> QED
    BY <2>4, <2>5
<1>5. ASSUME NEW m, Kernel!stat_test(m)
      PROVE  KernelInv'
  <2>1. boot \in {7, 9}
    BY <1>0, <1>5, BootSteps DEF Kernel!stat_test, Kernel!At
  <2>2. /\ UNCHANGED <<state, cipher_type_list, auth_type_list, debug_module_list,
                       dev_random_ready, prng_seeded, ref_count, held, exited>>
    BY <1>5 DEF Kernel!stat_test, Kernel!sources, Kernel!lists
  <2>3. PICK s \in {"ok", "algo_fail"} : Kernel!Returned(s)
    BY <1>5 DEF Kernel!stat_test
  <2>4. /\ s = "ok" => boot' = boot + 1 /\ failed' = failed /\ boot_status' = boot_status
        /\ s # "ok" => /\ boot' = 0 /\ boot_status' = s
                       /\ failed' = (failed \/ debug_module_list # {})
    BY <2>1, <2>3, <1>0 DEF Kernel!Returned
  <2>5. /\ failed' \in BOOLEAN /\ boot' \in 0 .. 16
        /\ boot_status' \in {boot_status, "algo_fail"}
    <3>1. failed \in BOOLEAN
      BY DEF KernelTyped, Kernel!TypeOK
    <3>2. CASE s = "ok"
      BY <2>1, <2>4, <3>1, <3>2
    <3>3. CASE s # "ok"
      BY <2>1, <2>3, <2>4, <3>3
    <3> QED
      BY <3>2, <3>3
  <2>6. KernelTyped'
    BY <1>0, <2>2, <2>5
       DEF KernelTyped, Kernel!TypeOK, Kernel!AuthCounted
  <2>7. KernelPhase'
    BY <1>0, <2>1, <2>2, <2>4
       DEF KernelTyped, KernelPhase, Kernel!TypeOK
  <2>8. KernelLoaded'
    BY <1>0, <2>1, <2>2, <2>4
       DEF KernelTyped, KernelPhase, KernelLoaded, Kernel!TypeOK, Kernel!SecureIsComplete
  <2> QED
    BY <2>6, <2>7, <2>8
<1> QED
  BY <1>1, <1>2, <1>3, <1>4, <1>5

\* A step that loads a type: it joins its list, or the initialisation ends.
LEMMA KernelLoads ==
    ASSUME KernelInv,
           \/ \E t \in Kernel!CipherTypes : Kernel!crypto_kernel_load_cipher_type(t)
           \/ \E t \in Kernel!AuthTypes : Kernel!crypto_kernel_load_auth_type(t)
    PROVE  KernelInv'
<1> USE DEF KernelInv
<1>0. boot \in 0 .. 16 /\ Len(Kernel!Boot) = 16
  BY BootSteps DEF KernelTyped, Kernel!TypeOK
<1>1. \A t \in Kernel!Types : Kernel!debug[t] \subseteq Kernel!Modules
  BY DEF Kernel!debug, Kernel!Modules
<1>2. ASSUME NEW t \in Kernel!Types, Kernel!LoadDebugOf(t)
      PROVE  /\ debug_module_list \subseteq debug_module_list'
             /\ debug_module_list' \subseteq Kernel!Modules
  BY <1>1, <1>2 DEF KernelTyped, Kernel!LoadDebugOf, Kernel!TypeOK
<1>3. ASSUME NEW t \in Kernel!CipherTypes, Kernel!crypto_kernel_load_cipher_type(t)
      PROVE  KernelInv'
  <2>1. /\ boot \in {10, 11, 12} /\ t \in Kernel!Types
        /\ boot = 10 <=> t = "NULL_CIPHER"
        /\ boot = 11 <=> t = "AES_128_ICM"
        /\ boot = 12 <=> t = "AES_128_CBC"
    BY <1>0, <1>3, BootSteps DEF Kernel!crypto_kernel_load_cipher_type, Kernel!At,
       Kernel!CipherTypes, Kernel!Types
  <2>2. UNCHANGED <<state, auth_type_list, dev_random_ready, prng_seeded, held, exited>>
    BY <1>3 DEF Kernel!crypto_kernel_load_cipher_type, Kernel!sources
  <2>3. PICK o \in Kernel!Outcomes(t), s \in {"ok", "algo_fail", "bad_param", "alloc_fail"} :
             /\ Kernel!Joins(t, cipher_type_list, o, s)
             /\ ref_count' = [ref_count EXCEPT ![t] = @ + o[2]]
             /\ IF s = "ok" THEN /\ cipher_type_list' = cipher_type_list \cup {t}
                                 /\ Kernel!LoadDebugOf(t)
                ELSE UNCHANGED <<cipher_type_list, debug_module_list>>
             /\ Kernel!Returned(s)
    BY <1>3 DEF Kernel!crypto_kernel_load_cipher_type
  <2>4. o[2] \in {0, 1}
    <3>1. o \in {<<TRUE, 0>>, <<FALSE, 0>>, <<FALSE, 1>>}
      BY <2>3 DEF Kernel!Outcomes
    <3>2. CASE o = <<TRUE, 0>>
      BY <3>2
    <3>3. CASE o = <<FALSE, 0>>
      BY <3>3
    <3>4. CASE o = <<FALSE, 1>>
      BY <3>4
    <3> QED
      BY <3>1, <3>2, <3>3, <3>4
  <2>5. /\ ref_count' \in [Kernel!Types -> Int]
        /\ \A a \in Kernel!AuthTypes : ref_count'[a] = ref_count[a]
    BY <2>3, <2>4 DEF KernelTyped, Kernel!TypeOK, Kernel!Types, Kernel!AuthTypes,
       Kernel!CipherTypes
  <2>6. CASE s = "ok"
    <3>1. /\ boot' = boot + 1 /\ failed' = failed /\ boot_status' = boot_status
          /\ cipher_type_list' = cipher_type_list \cup {t}
          /\ debug_module_list \subseteq debug_module_list'
          /\ debug_module_list' \subseteq Kernel!Modules
      BY <1>2, <2>1, <2>3, <2>6, <1>0 DEF Kernel!Returned
    <3>2. KernelTyped'
      BY <1>0, <2>1, <2>2, <2>5, <3>1
         DEF KernelTyped, Kernel!TypeOK, Kernel!AuthCounted
    <3>3. KernelPhase'
      BY <1>0, <2>1, <2>2, <2>5, <3>1
         DEF KernelTyped, KernelPhase, Kernel!TypeOK
    <3>4. KernelLoaded'
      BY <1>0, <2>1, <2>2, <2>5, <3>1
         DEF KernelTyped, KernelPhase, KernelLoaded, Kernel!TypeOK, Kernel!SecureIsComplete
    <3> QED
      BY <3>2, <3>3, <3>4
  <2>7. CASE s # "ok"
    <3>1. /\ boot' = 0 /\ boot_status' = s /\ failed' = (failed \/ debug_module_list # {})
          /\ cipher_type_list' = cipher_type_list /\ debug_module_list' = debug_module_list
      BY <2>1, <2>3, <2>7, <1>0 DEF Kernel!Returned
    <3>2. KernelTyped'
      BY <1>0, <2>1, <2>2, <2>5, <3>1
         DEF KernelTyped, Kernel!TypeOK, Kernel!AuthCounted
    <3>3. KernelPhase'
      BY <1>0, <2>1, <2>2, <2>5, <3>1
         DEF KernelTyped, KernelPhase, Kernel!TypeOK
    <3>4. KernelLoaded'
      BY <1>0, <2>1, <2>2, <2>5, <3>1
         DEF KernelTyped, KernelPhase, KernelLoaded, Kernel!TypeOK, Kernel!SecureIsComplete
    <3> QED
      BY <3>2, <3>3, <3>4
  <2> QED
    BY <2>6, <2>7
<1>4. ASSUME NEW t \in Kernel!AuthTypes, Kernel!crypto_kernel_load_auth_type(t)
      PROVE  KernelInv'
  <2>1. /\ boot \in {13, 14} /\ t \in Kernel!Types
        /\ boot = 13 <=> t = "NULL_AUTH"
        /\ boot = 14 <=> t = "HMAC_SHA1"
    BY <1>0, <1>4, BootSteps DEF Kernel!crypto_kernel_load_auth_type, Kernel!At,
       Kernel!AuthTypes, Kernel!Types
  <2>2. UNCHANGED <<state, cipher_type_list, dev_random_ready, prng_seeded, ref_count, held, exited>>
    BY <1>4 DEF Kernel!crypto_kernel_load_auth_type, Kernel!sources
  <2>3. PICK s \in {"ok", "algo_fail", "bad_param", "alloc_fail"} :
             /\ IF s = "ok" THEN /\ auth_type_list' = auth_type_list \cup {t}
                                 /\ Kernel!LoadDebugOf(t)
                ELSE UNCHANGED <<auth_type_list, debug_module_list>>
             /\ Kernel!Returned(s)
    BY <1>4 DEF Kernel!crypto_kernel_load_auth_type
  <2>6. CASE s = "ok"
    <3>1. /\ boot' = boot + 1 /\ failed' = failed /\ boot_status' = boot_status
          /\ auth_type_list' = auth_type_list \cup {t}
          /\ debug_module_list \subseteq debug_module_list'
          /\ debug_module_list' \subseteq Kernel!Modules
      BY <1>2, <2>1, <2>3, <2>6, <1>0 DEF Kernel!Returned
    <3>2. KernelTyped'
      BY <1>0, <2>1, <2>2, <3>1
         DEF KernelTyped, Kernel!TypeOK, Kernel!AuthCounted
    <3>3. KernelPhase'
      BY <1>0, <2>1, <2>2, <3>1
         DEF KernelTyped, KernelPhase, Kernel!TypeOK
    <3>4. KernelLoaded'
      BY <1>0, <2>1, <2>2, <3>1
         DEF KernelTyped, KernelPhase, KernelLoaded, Kernel!TypeOK, Kernel!SecureIsComplete
    <3> QED
      BY <3>2, <3>3, <3>4
  <2>7. CASE s # "ok"
    <3>1. /\ boot' = 0 /\ boot_status' = s /\ failed' = (failed \/ debug_module_list # {})
          /\ auth_type_list' = auth_type_list /\ debug_module_list' = debug_module_list
      BY <2>1, <2>3, <2>7, <1>0 DEF Kernel!Returned
    <3>2. KernelTyped'
      BY <1>0, <2>1, <2>2, <3>1
         DEF KernelTyped, Kernel!TypeOK, Kernel!AuthCounted
    <3>3. KernelPhase'
      BY <1>0, <2>1, <2>2, <3>1
         DEF KernelTyped, KernelPhase, Kernel!TypeOK
    <3>4. KernelLoaded'
      BY <1>0, <2>1, <2>2, <3>1
         DEF KernelTyped, KernelPhase, KernelLoaded, Kernel!TypeOK, Kernel!SecureIsComplete
    <3> QED
      BY <3>2, <3>3, <3>4
  <2> QED
    BY <2>6, <2>7
<1> QED
  BY <1>3, <1>4

\* The calls on a kernel that is not being initialised.
LEMMA KernelCalls ==
    ASSUME KernelInv,
           \/ Kernel!srtp_init \/ Kernel!crypto_kernel_status \/ Kernel!crypto_kernel_shutdown
    PROVE  KernelInv'
<1> USE DEF KernelInv
<1>0. boot \in 0 .. 16 /\ Len(Kernel!Boot) = 16
  BY BootSteps DEF KernelTyped, Kernel!TypeOK
<1>1. CASE Kernel!srtp_init \/ Kernel!crypto_kernel_status
  <2>1. UNCHANGED <<cipher_type_list, auth_type_list, debug_module_list, dev_random_ready,
                    prng_seeded, ref_count, held>>
    BY <1>1 DEF Kernel!srtp_init, Kernel!crypto_kernel_status, Kernel!TestsPass,
       Kernel!SourceTestFails, Kernel!TypeTestFails, Kernel!lists, Kernel!sources
  <2>2. /\ boot = 0 /\ boot' \in {0, 1, 16} /\ state' \in {"insecure", state}
        /\ boot_status' \in {boot_status, "algo_fail"}
        /\ boot' = 1 => state = "insecure"
        /\ boot' = 16 => state = "secure" /\ state' = "secure"
    BY <1>1, <1>0 DEF Kernel!srtp_init, Kernel!crypto_kernel_status, Kernel!TestsPass,
       Kernel!SourceTestFails, Kernel!TypeTestFails, Kernel!Idle
  <2>3. /\ exited' \in BOOLEAN /\ failed' \in BOOLEAN
        /\ failed' => failed \/ state = "secure"
    <3>1. failed \in BOOLEAN /\ exited \in BOOLEAN
      BY DEF KernelTyped, Kernel!TypeOK
    <3>2. exited' = exited \/ exited' = TRUE
      BY <1>1 DEF Kernel!srtp_init, Kernel!crypto_kernel_status, Kernel!TestsPass,
         Kernel!SourceTestFails, Kernel!TypeTestFails
    <3>3. failed' = failed \/ (failed' = TRUE /\ state = "secure")
      BY <1>1 DEF Kernel!srtp_init, Kernel!crypto_kernel_status
    <3>4. exited' \in BOOLEAN
      BY <3>1, <3>2
    <3>5. CASE failed' = failed
      BY <3>1, <3>4, <3>5
    <3>6. CASE failed' = TRUE /\ state = "secure"
      BY <3>4, <3>6
    <3> QED
      BY <3>3, <3>5, <3>6
  <2>4. KernelTyped'
    BY <1>0, <2>1, <2>2, <2>3
       DEF KernelTyped, Kernel!TypeOK, Kernel!AuthCounted
  <2>5. KernelPhase'
    BY <1>0, <2>1, <2>2, <2>3
       DEF KernelTyped, KernelPhase, KernelLoaded, Kernel!TypeOK, Kernel!SecureIsComplete
  <2>6. KernelLoaded'
    BY <1>0, <2>1, <2>2, <2>3
       DEF KernelTyped, KernelPhase, KernelLoaded, Kernel!TypeOK, Kernel!SecureIsComplete,
          Kernel!CipherTypes,
           Kernel!AuthTypes
  <2> QED
    BY <2>4, <2>5, <2>6
<1>2. CASE Kernel!crypto_kernel_shutdown
  <2>1. /\ cipher_type_list' = {} /\ auth_type_list' = {} /\ debug_module_list' = {}
        /\ UNCHANGED <<dev_random_ready, prng_seeded, ref_count, held, boot, exited>>
        /\ boot = 0 /\ failed' = FALSE
        /\ boot_status' \in {"ok", "dealloc_fail"}
    BY <1>2 DEF Kernel!crypto_kernel_shutdown, Kernel!Idle, Kernel!sources
  <2>2. state' = "insecure"
    BY <1>2 DEF Kernel!crypto_kernel_shutdown, KernelTyped, Kernel!TypeOK, KernelLoaded,
                Kernel!SecureIsComplete
  <2>3. KernelTyped'
    BY <1>0, <2>1, <2>2
       DEF KernelTyped, Kernel!TypeOK, Kernel!AuthCounted
  <2>4. KernelPhase'
    BY <1>0, <2>1, <2>2
       DEF KernelTyped, KernelPhase, KernelLoaded, Kernel!TypeOK, Kernel!SecureIsComplete
  <2>5. KernelLoaded'
    BY <1>0, <2>1, <2>2
       DEF KernelTyped, KernelPhase, KernelLoaded, Kernel!TypeOK, Kernel!SecureIsComplete
  <2> QED
    BY <2>3, <2>4, <2>5
<1> QED
  BY <1>1, <1>2

\* Instances that are handed out and released.
LEMMA KernelHands ==
    ASSUME KernelInv,
           \/ \E t \in Kernel!Types : \E l, k : Kernel!HandOut(t, l, k)
           \/ \E t \in Kernel!Types : Kernel!dealloc(t)
    PROVE  KernelInv'
<1>0. MaxHeld \in Nat
  BY PartsAssumption DEF Kernel!KernelAssumption
<1>1. UNCHANGED <<state, cipher_type_list, auth_type_list, debug_module_list,
                  dev_random_ready, prng_seeded, boot, boot_status, exited, failed>>
  BY DEF Kernel!HandOut, Kernel!dealloc, Kernel!lists, Kernel!sources
<1>2. /\ ref_count' \in [Kernel!Types -> Int] /\ held' \in [Kernel!Types -> 0 .. MaxHeld]
      /\ \A a \in Kernel!AuthTypes : ref_count'[a] = held'[a]
  <2>1. /\ ref_count \in [Kernel!Types -> Int] /\ held \in [Kernel!Types -> 0 .. MaxHeld]
        /\ \A a \in Kernel!AuthTypes : a \in Kernel!Types /\ ref_count[a] = held[a]
    BY DEF KernelInv, KernelTyped, Kernel!TypeOK, Kernel!AuthCounted, Kernel!Types
  <2>2. CASE \E t \in Kernel!Types : \E l, k : Kernel!HandOut(t, l, k)
    BY <1>0, <2>1, <2>2 DEF Kernel!HandOut
  <2>3. CASE \E t \in Kernel!Types : Kernel!dealloc(t)
    BY <1>0, <2>1, <2>3 DEF Kernel!dealloc
  <2> QED
    BY <2>2, <2>3
<1>3. Kernel!TypeOK'
  BY <1>1, <1>2 DEF KernelInv, KernelTyped, Kernel!TypeOK
<1> QED
  BY <1>1, <1>2, <1>3 DEF KernelInv, KernelTyped, KernelPhase, KernelLoaded,
     Kernel!SecureIsComplete, Kernel!AuthCounted

\* Every step keeps the invariant.
LEMMA KernelStep == KernelInv /\ [Kernel!Next]_Kernel!vars => KernelInv'
<1> SUFFICES ASSUME KernelInv, [Kernel!Next]_Kernel!vars
             PROVE  KernelInv'
  OBVIOUS
<1>1. CASE UNCHANGED Kernel!vars
  BY <1>1 DEF Kernel!vars, Kernel!lists, Kernel!sources, KernelInv, KernelTyped,
     KernelPhase, KernelLoaded, Kernel!TypeOK,
              Kernel!SecureIsComplete, Kernel!AuthCounted
<1>2. Kernel!CipherTypes \subseteq Kernel!Types /\ Kernel!AuthTypes \subseteq Kernel!Types
  BY DEF Kernel!Types
<1>3. \/ Kernel!rand_source_init \/ Kernel!ctr_prng_init \/ Kernel!BecomeSecure
      \/ \E m : Kernel!LoadDebug(m) \/ Kernel!stat_test(m)
      \/ \E t \in Kernel!CipherTypes : Kernel!crypto_kernel_load_cipher_type(t)
      \/ \E t \in Kernel!AuthTypes : Kernel!crypto_kernel_load_auth_type(t)
      \/ Kernel!srtp_init \/ Kernel!crypto_kernel_status \/ Kernel!crypto_kernel_shutdown
      \/ \E t \in Kernel!Types : \E l, k : Kernel!HandOut(t, l, k)
      \/ \E t \in Kernel!Types : Kernel!dealloc(t)
      \/ UNCHANGED Kernel!vars
  BY <1>2, Zenon DEF Kernel!Next, Kernel!crypto_kernel_alloc_cipher,
     Kernel!crypto_kernel_alloc_auth
<1> QED
  BY <1>1, <1>3, KernelBoots, KernelLoads, KernelCalls, KernelHands

-----------------------------------------------------------------------------
(***************************************************************************)
(* The self-tests                                                          *)
(***************************************************************************)

\* Two sequences joined.
LEMMA Joined ==
    ASSUME NEW S, NEW a \in Seq(S), NEW b \in Seq(S)
    PROVE  /\ a \o b \in Seq(S) /\ Len(a \o b) = Len(a) + Len(b)
           /\ \A k \in 1 .. Len(a) : (a \o b)[k] = a[k]
           /\ \A k \in 1 .. Len(b) : (a \o b)[Len(a) + k] = b[k]
OBVIOUS

\* A sequence and an element.
LEMMA Follows ==
    ASSUME NEW S, NEW a \in Seq(S), NEW e \in S
    PROVE  /\ a \o <<e>> \in Seq(S) /\ Len(a \o <<e>>) = Len(a) + 1
           /\ \A k \in 1 .. Len(a) : (a \o <<e>>)[k] = a[k]
           /\ (a \o <<e>>)[Len(a) + 1] = e
OBVIOUS

\* The steps that allocate and release.
Alloc == <<"alloc", "none">>
Dealloc == <<"dealloc", "none">>
\* The steps of all scripts.
Steps == {Self!cipher_known_answer[k] : k \in 1 .. 14} \cup {Alloc, Dealloc}
             \cup {Self!cipher_invertibility[k] : k \in 1 .. 12}
             \cup {Self!auth_known_answer[k] : k \in 1 .. 6}

\* The steps of the scripts: where they allocate and release, and where they would
\* release on an error.
LEMMA ScriptSteps ==
    /\ Len(Self!cipher_known_answer) = 14
    /\ \A k \in 1 .. 14 : LET s == Self!cipher_known_answer[k] IN
           /\ s[1] = "alloc" <=> k = 1
           /\ s[1] = "dealloc" <=> k = 14
           /\ s[2] = "dealloc" => k # 1
    /\ Len(Self!cipher_invertibility) = 12
    /\ \A k \in 1 .. 12 : Self!cipher_invertibility[k][1] \notin {"alloc", "dealloc"}
    /\ Len(Self!auth_known_answer) = 6
    /\ \A k \in 1 .. 6 : LET s == Self!auth_known_answer[k] IN
           /\ s[1] = "alloc" <=> k = 2
           /\ s[1] = "dealloc" <=> k = 6
           /\ s[2] = "dealloc" <=> k \in 3 .. 5
<1>1. Len(Self!cipher_known_answer) = 14
  BY DEF Self!cipher_known_answer
<1>2. \A k \in 1 .. 14 : LET s == Self!cipher_known_answer[k] IN
           /\ s[1] = "alloc" <=> k = 1
           /\ s[1] = "dealloc" <=> k = 14
           /\ s[2] = "dealloc" => k # 1
  BY DEF Self!cipher_known_answer
<1>3. Len(Self!cipher_invertibility) = 12
  BY DEF Self!cipher_invertibility
<1>4. \A k \in 1 .. 12 : Self!cipher_invertibility[k][1] \notin {"alloc", "dealloc"}
  BY DEF Self!cipher_invertibility
<1>5. Len(Self!auth_known_answer) = 6
  BY DEF Self!auth_known_answer
<1>6. \A k \in 1 .. 6 : LET s == Self!auth_known_answer[k] IN
           /\ s[1] = "alloc" <=> k = 2
           /\ s[1] = "dealloc" <=> k = 6
           /\ s[2] = "dealloc" <=> k \in 3 .. 5
  BY DEF Self!auth_known_answer
<1> QED
  BY <1>1, <1>2, <1>3, <1>4, <1>5, <1>6

\* The whole script of a cipher.
LEMMA CipherScript ==
    LET w == Self!cipher_type_self_test
        c == Cases * 14
        r == RandTests * 12
    IN  /\ c \in Nat /\ c % 14 = 0 /\ r \in Nat /\ w \in Seq(Steps) /\ Len(w) = c + r + 2
        /\ \A k \in 1 .. c : w[k] = Self!cipher_known_answer[1 + ((k - 1) % 14)]
        /\ w[c + 1] = Alloc /\ w[c + r + 2] = Dealloc
        /\ \A k \in (c + 2) .. (c + r + 1) :
               \E j \in 1 .. 12 : w[k] = Self!cipher_invertibility[j]
<1> DEFINE w == Self!cipher_type_self_test
           c == Cases * 14
           r == RandTests * 12
           a == Self!Times(Self!cipher_known_answer, Cases)
           b == Self!Times(Self!cipher_invertibility, RandTests)
<1>1. Cases \in Nat /\ RandTests \in Nat /\ c \in Nat /\ r \in Nat /\ c % 14 = 0
  BY PartsAssumption DEF Self!SelfTestAssumption
<1>2. /\ a \in Seq(Steps) /\ Len(a) = c
      /\ \A k \in 1 .. c : a[k] = Self!cipher_known_answer[1 + ((k - 1) % 14)]
  <2>1. a = [k \in 1 .. c |-> Self!cipher_known_answer[1 + ((k - 1) % 14)]]
    BY ScriptSteps DEF Self!Times
  <2> HIDE DEF a, c
  <2>2. \A k \in 1 .. c : 1 + ((k - 1) % 14) \in 1 .. 14
    BY <1>1
  <2>3. a \in [1 .. c -> Steps]
    BY <2>1, <2>2 DEF Steps
  <2> QED
    BY <1>1, <2>1, <2>3
<1>3. /\ b \in Seq(Steps) /\ Len(b) = r
      /\ \A k \in 1 .. r : b[k] = Self!cipher_invertibility[1 + ((k - 1) % 12)]
  <2>1. b = [k \in 1 .. r |-> Self!cipher_invertibility[1 + ((k - 1) % 12)]]
    BY ScriptSteps DEF Self!Times
  <2> HIDE DEF b, r
  <2>2. \A k \in 1 .. r : 1 + ((k - 1) % 12) \in 1 .. 12
    BY <1>1
  <2>3. b \in [1 .. r -> Steps]
    BY <2>1, <2>2 DEF Steps
  <2> QED
    BY <1>1, <2>1, <2>3
<1>4. w = a \o <<Alloc>> \o b \o <<Dealloc>>
  BY DEF Self!cipher_type_self_test, Alloc, Dealloc
<1>5. Alloc \in Steps /\ Dealloc \in Steps
  BY DEF Steps
<1> DEFINE u == a \o <<Alloc>>
           v == u \o b
<1>6. w = v \o <<Dealloc>>
  BY <1>4
<1> HIDE DEF w, c, r, a, b
<1>7. /\ u \in Seq(Steps) /\ Len(u) = c + 1
      /\ \A k \in 1 .. c : u[k] = a[k]
      /\ u[c + 1] = Alloc
  BY <1>2, <1>5, Follows
<1> HIDE DEF u
<1>8. /\ v \in Seq(Steps) /\ Len(v) = c + 1 + r
      /\ \A k \in 1 .. (c + 1) : v[k] = u[k]
      /\ \A k \in 1 .. r : v[c + 1 + k] = b[k]
  BY <1>3, <1>7, Joined
<1> HIDE DEF v
<1>9. /\ w \in Seq(Steps) /\ Len(w) = c + 1 + r + 1
      /\ \A k \in 1 .. (c + 1 + r) : w[k] = v[k]
      /\ w[c + 1 + r + 1] = Dealloc
  BY <1>5, <1>6, <1>8, Follows
<1>10. \A k \in 1 .. r : 1 + ((k - 1) % 12) \in 1 .. 12
  BY <1>1
<1>11. \A k \in (c + 2) .. (c + r + 1) :
               \E j \in 1 .. 12 : w[k] = Self!cipher_invertibility[j]
  <2> SUFFICES ASSUME NEW k \in (c + 2) .. (c + r + 1)
               PROVE  \E j \in 1 .. 12 : w[k] = Self!cipher_invertibility[j]
    OBVIOUS
  <2> DEFINE n == k - c - 1
  <2>1. n \in 1 .. r /\ k = c + 1 + n /\ k \in 1 .. (c + 1 + r)
    BY <1>1
  <2>2. w[k] = b[n]
    BY <1>8, <1>9, <2>1
  <2> HIDE DEF n
  <2> QED
    BY <1>3, <1>10, <2>1, <2>2
<1>12. (\A k \in 1 .. c : w[k] = a[k]) /\ w[c + 1] = Alloc
  BY <1>1, <1>7, <1>8, <1>9
<1> QED
  BY <1>1, <1>2, <1>9, <1>11, <1>12 DEF w, c, r

\* The whole script of an authentication function.
LEMMA AuthScript ==
    LET w == Self!auth_type_self_test
        c == Cases * 6
    IN  /\ c \in Nat /\ c % 6 = 0 /\ w \in Seq(Steps) /\ Len(w) = c
        /\ \A k \in 1 .. c : w[k] = Self!auth_known_answer[1 + ((k - 1) % 6)]
<1> DEFINE w == Self!auth_type_self_test
           c == Cases * 6
<1>1. c \in Nat /\ c % 6 = 0
  BY PartsAssumption DEF Self!SelfTestAssumption
<1>2. /\ w \in Seq(Steps) /\ Len(w) = c
      /\ \A k \in 1 .. c : w[k] = Self!auth_known_answer[1 + ((k - 1) % 6)]
  <2>1. w = [k \in 1 .. c |-> Self!auth_known_answer[1 + ((k - 1) % 6)]]
    BY ScriptSteps DEF Self!auth_type_self_test, Self!Times
  <2> HIDE DEF w, c
  <2>2. \A k \in 1 .. c : 1 + ((k - 1) % 6) \in 1 .. 6
    BY <1>1
  <2>3. w \in [1 .. c -> Steps]
    BY <2>1, <2>2 DEF Steps
  <2> QED
    BY <1>1, <2>1, <2>3
<1> QED
  BY <1>1, <1>2

-----------------------------------------------------------------------------
\* The instances held when k steps of a script are over, and the step after them.
Whole == IF kind = "cipher" THEN Self!cipher_type_self_test ELSE Self!auth_type_self_test
Over == Len(Whole) - Len(script)
HeldAfter(k) == IF kind = "cipher"
                THEN IF k <= Cases * 14 THEN IF k % 14 = 0 THEN 0 ELSE 1
                     ELSE IF k = Len(Whole) THEN 0 ELSE 1
                ELSE IF k % 6 \in {0, 1} THEN 0 ELSE 1

\* While a test runs, what is left is the end of its script and the count is the one
\* of that place; afterwards it is what the outcome allows.
SelfInv ==
    /\ Self!TypeOK /\ script \in Seq(Steps) /\ refs \in {0, 1}
    /\ test_status = "running" =>
           /\ Over \in 0 .. Len(Whole)
           /\ \A j \in 1 .. Len(script) : script[j] = Whole[Over + j]
           /\ refs = HeldAfter(Over)
    /\ test_status \in {"ok", "cant_check"} => refs = 0
    /\ test_status = "fail" /\ kind = "auth" => refs = 0

\* The place within a repeated script after one more step.
LEMMA NextPlace ==
    ASSUME NEW k \in Nat, NEW L \in {6, 14}
    PROVE  /\ k % L \in 0 .. (L - 1)
           /\ k % L = L - 1 => (k + 1) % L = 0
           /\ k % L # L - 1 => (k + 1) % L = (k % L) + 1
<1>1. CASE L = 6
  BY <1>1
<1>2. CASE L = 14
  BY <1>2
<1> QED
  BY <1>1, <1>2

\* The script of a test: it begins and ends with no instance held, and its steps
\* change the count as they say.
LEMMA ScriptPlaces ==
    ASSUME kind \in {"cipher", "auth"}
    PROVE  /\ Whole \in Seq(Steps) /\ HeldAfter(0) = 0 /\ HeldAfter(Len(Whole)) = 0
           /\ \A k \in 0 .. (Len(Whole) - 1) :
                  /\ HeldAfter(k) \in {0, 1}
                  /\ Whole[k + 1][1] = "alloc" => HeldAfter(k) = 0 /\ HeldAfter(k + 1) = 1
                  /\ Whole[k + 1][1] = "dealloc" => HeldAfter(k) = 1 /\ HeldAfter(k + 1) = 0
                  /\ Whole[k + 1][1] \notin {"alloc", "dealloc"} => HeldAfter(k + 1) = HeldAfter(k)
                  /\ Whole[k + 1][2] = "dealloc" => HeldAfter(k) = 1
                  /\ kind = "auth" /\ Whole[k + 1][1] # "dealloc" /\ Whole[k + 1][2] # "dealloc"
                         => HeldAfter(k) = 0
<1>1. CASE kind = "cipher"
  <2> DEFINE w == Self!cipher_type_self_test
             c == Cases * 14
             r == RandTests * 12
             h(k) == IF k <= c THEN IF k % 14 = 0 THEN 0 ELSE 1
                     ELSE IF k = c + r + 2 THEN 0 ELSE 1
  <2>1. /\ c \in Nat /\ c % 14 = 0 /\ r \in Nat /\ w \in Seq(Steps) /\ Len(w) = c + r + 2
        /\ \A k \in 1 .. c : w[k] = Self!cipher_known_answer[1 + ((k - 1) % 14)]
        /\ w[c + 1] = Alloc /\ w[c + r + 2] = Dealloc
        /\ \A k \in (c + 2) .. (c + r + 1) :
               \E j \in 1 .. 12 : w[k] = Self!cipher_invertibility[j]
    BY CipherScript
  <2>2. Whole = w /\ \A k : HeldAfter(k) = h(k)
    BY <1>1, <2>1 DEF Whole, HeldAfter
  <2> HIDE DEF w, c, r
  <2>3. h(0) = 0 /\ h(Len(w)) = 0
    BY <2>1
  <2>4. ASSUME NEW k \in 0 .. (Len(w) - 1)
        PROVE  /\ h(k) \in {0, 1}
               /\ w[k + 1][1] = "alloc" => h(k) = 0 /\ h(k + 1) = 1
               /\ w[k + 1][1] = "dealloc" => h(k) = 1 /\ h(k + 1) = 0
               /\ w[k + 1][1] \notin {"alloc", "dealloc"} => h(k + 1) = h(k)
               /\ w[k + 1][2] = "dealloc" => h(k) = 1
    <3>1. CASE k < c
      <4> DEFINE m == k % 14
                 s == Self!cipher_known_answer[m + 1]
      <4>1. /\ m \in 0 .. 13 /\ k + 1 \in 1 .. c /\ (k + 1) - 1 = k
            /\ (k + 1) % 14 = IF m = 13 THEN 0 ELSE m + 1
        <5>0. c \in Nat
          BY <2>1
        <5>1. k \in Nat /\ k + 1 \in 1 .. c /\ (k + 1) - 1 = k
          BY <3>1, <5>0
        <5> QED
          BY <5>1, NextPlace
      <4>2. w[k + 1] = s
        BY <2>1, <4>1
      <4>3. /\ s[1] = "alloc" <=> m + 1 = 1
            /\ s[1] = "dealloc" <=> m + 1 = 14
            /\ s[2] = "dealloc" => m + 1 # 1
        <5>1. m + 1 \in 1 .. 14
          BY <4>1
        <5> HIDE DEF m
        <5> QED
          BY <5>1, ScriptSteps
      <4>4. h(k) = (IF m = 0 THEN 0 ELSE 1) /\ h(k + 1) = (IF m = 13 THEN 0 ELSE 1)
        BY <2>1, <3>1, <4>1
      <4> HIDE DEF m, s, h
      <4> QED
        BY <4>1, <4>2, <4>3, <4>4
    <3>2. CASE k = c
      <4>1. h(k) = 0 /\ h(k + 1) = 1
        BY <2>1, <3>2
      <4>2. w[k + 1][1] = "alloc" /\ w[k + 1][2] = "none"
        BY <2>1, <3>2 DEF Alloc
      <4> HIDE DEF h
      <4> QED
        BY <4>1, <4>2
    <3>3. CASE k \in (c + 1) .. (c + r)
      <4>1. h(k) = 1 /\ h(k + 1) = 1 /\ k + 1 \in (c + 2) .. (c + r + 1)
        BY <2>1, <3>3
      <4>2. w[k + 1][1] \notin {"alloc", "dealloc"}
        <5>1. PICK j \in 1 .. 12 : w[k + 1] = Self!cipher_invertibility[j]
          BY <2>1, <4>1
        <5> QED
          BY <5>1, ScriptSteps
      <4> HIDE DEF h
      <4> QED
        BY <4>1, <4>2
    <3>4. CASE k = c + r + 1
      <4>1. h(k) = 1 /\ h(k + 1) = 0
        BY <2>1, <3>4
      <4>2. w[k + 1][1] = "dealloc" /\ w[k + 1][2] = "none"
        BY <2>1, <3>4 DEF Dealloc
      <4> HIDE DEF h
      <4> QED
        BY <4>1, <4>2
    <3> QED
      BY <2>1, <3>1, <3>2, <3>3, <3>4
  <2> HIDE DEF h
  <2> QED
    BY <1>1, <2>1, <2>2, <2>3, <2>4
<1>2. CASE kind = "auth"
  <2> DEFINE w == Self!auth_type_self_test
             c == Cases * 6
             h(k) == IF k % 6 \in {0, 1} THEN 0 ELSE 1
  <2>1. /\ c \in Nat /\ c % 6 = 0 /\ w \in Seq(Steps) /\ Len(w) = c
        /\ \A k \in 1 .. c : w[k] = Self!auth_known_answer[1 + ((k - 1) % 6)]
    BY AuthScript
  <2>2. Whole = w /\ \A k : HeldAfter(k) = h(k)
    BY <1>2, <2>1 DEF Whole, HeldAfter
  <2> HIDE DEF w, c
  <2>3. h(0) = 0 /\ h(Len(w)) = 0
    BY <2>1
  <2>4. ASSUME NEW k \in 0 .. (Len(w) - 1)
        PROVE  /\ h(k) \in {0, 1}
               /\ w[k + 1][1] = "alloc" => h(k) = 0 /\ h(k + 1) = 1
               /\ w[k + 1][1] = "dealloc" => h(k) = 1 /\ h(k + 1) = 0
               /\ w[k + 1][1] \notin {"alloc", "dealloc"} => h(k + 1) = h(k)
               /\ w[k + 1][2] = "dealloc" => h(k) = 1
               /\ w[k + 1][1] # "dealloc" /\ w[k + 1][2] # "dealloc" => h(k) = 0
    <3> DEFINE m == k % 6
               s == Self!auth_known_answer[m + 1]
    <3>1. /\ m \in 0 .. 5 /\ k + 1 \in 1 .. c /\ (k + 1) - 1 = k
          /\ (k + 1) % 6 = IF m = 5 THEN 0 ELSE m + 1
      <4>0. c \in Nat /\ Len(w) = c
        BY <2>1
      <4>1. k \in Nat /\ k + 1 \in 1 .. c /\ (k + 1) - 1 = k
        BY <4>0
      <4> QED
        BY <4>1, NextPlace
    <3>2. w[k + 1] = s
      BY <2>1, <3>1
    <3>3. /\ s[1] = "alloc" <=> m + 1 = 2
          /\ s[1] = "dealloc" <=> m + 1 = 6
          /\ s[2] = "dealloc" <=> m + 1 \in 3 .. 5
      <4>1. m + 1 \in 1 .. 6
        BY <3>1
      <4> HIDE DEF m
      <4> QED
        BY <4>1, ScriptSteps
    <3>4. h(k) = (IF m \in {0, 1} THEN 0 ELSE 1) /\ h(k + 1) = (IF m \in {5, 0} THEN 0 ELSE 1)
      BY <3>1
    <3> HIDE DEF m, s, h
    <3> QED
      BY <3>1, <3>2, <3>3, <3>4
  <2> HIDE DEF h
  <2> QED
    BY <1>2, <2>1, <2>2, <2>3, <2>4
<1> QED
  BY <1>1, <1>2

\* A test begins with its whole script, or without test data.
LEMMA SelfInit == Self!Init => SelfInv
<1> SUFFICES ASSUME Self!Init
             PROVE  SelfInv
  OBVIOUS
<1>1. kind \in {"cipher", "auth"} /\ refs = 0
  BY DEF Self!Init
<1>2. Whole \in Seq(Steps) /\ HeldAfter(0) = 0 /\ Len(Whole) \in Nat
  BY <1>1, ScriptPlaces
<1>3. CASE script = <<>> /\ test_status = "cant_check"
  <2>1. script \in Seq(Steps)
    BY <1>3
  <2> QED
    BY <1>1, <1>3, <2>1 DEF SelfInv, Self!TypeOK
<1>4. CASE script = Whole /\ test_status = "running"
  <2>1. Over = 0
    BY <1>2, <1>4 DEF Over
  <2>2. \A j \in 1 .. Len(script) : script[j] = Whole[Over + j]
    BY <1>2, <1>4, <2>1
  <2> QED
    BY <1>1, <1>2, <1>4, <2>1, <2>2 DEF SelfInv, Self!TypeOK
<1> QED
  BY <1>3, <1>4 DEF Self!Init, Whole

\* Every step keeps the invariant.
LEMMA SelfStep == SelfInv /\ [Self!Next]_Self!vars => SelfInv'
<1> SUFFICES ASSUME SelfInv, [Self!Next]_Self!vars
             PROVE  SelfInv'
  OBVIOUS
<1> USE DEF SelfInv
<1>1. kind \in {"cipher", "auth"} /\ kind' = kind
  BY DEF Self!TypeOK, Self!Next, Self!Passes, Self!Fails, Self!Succeeds, Self!vars
<1>2. Whole' = Whole /\ \A k : HeldAfter(k)' = HeldAfter(k)
  BY <1>1 DEF Whole, HeldAfter
<1> DEFINE k == Over
           s == Whole[k + 1]
<1>3. ASSUME test_status = "running", script # <<>>
      PROVE  /\ k \in 0 .. (Len(Whole) - 1) /\ Head(script) = s
             /\ Whole \in Seq(Steps) /\ refs = HeldAfter(k)
  <2>1. Len(script) \in Nat /\ Len(script) > 0 /\ Head(script) = script[1]
    BY <1>3
  <2>2. Whole \in Seq(Steps) /\ Len(Whole) \in Nat
    BY <1>1, ScriptPlaces
  <2> QED
    BY <1>3, <2>1, <2>2 DEF Over
<1>4. ASSUME test_status = "running", script # <<>>
      PROVE  /\ refs \in {0, 1}
             /\ s[1] = "alloc" => refs = 0 /\ HeldAfter(k + 1) = 1
             /\ s[1] = "dealloc" => refs = 1 /\ HeldAfter(k + 1) = 0
             /\ s[1] \notin {"alloc", "dealloc"} => HeldAfter(k + 1) = refs
             /\ s[2] = "dealloc" => refs = 1
             /\ kind = "auth" /\ s[1] # "dealloc" /\ s[2] # "dealloc" => refs = 0
  BY <1>1, <1>3, <1>4, ScriptPlaces
<1>5. CASE Self!Passes
  <2>1. /\ test_status = "running" /\ script # <<>> /\ script' = Tail(script)
        /\ test_status' = "running"
    BY <1>5 DEF Self!Passes
  <2>2. refs' = HeldAfter(k + 1)
    <3>1. /\ s[1] = "alloc" => refs' = refs + 1
          /\ s[1] = "dealloc" => refs' = refs - 1
          /\ s[1] \notin {"alloc", "dealloc"} => refs' = refs
      BY <1>3, <1>5, <2>1 DEF Self!Passes
    <3> HIDE DEF s, k
    <3> QED
      BY <1>4, <2>1, <3>1
  <2>3. /\ script' \in Seq(Steps) /\ Len(script') = Len(script) - 1
        /\ \A j \in 1 .. Len(script') : script'[j] = script[j + 1]
    BY <2>1, HeadTailProperties
  <2>4. Len(script) \in Nat /\ Len(Whole) \in Nat /\ Len(Whole) - Len(script) = k
        /\ Len(script) > 0 /\ k \in 0 .. (Len(Whole) - 1)
    BY <1>3, <2>1 DEF Over
  <2>5. Over' = k + 1
    BY <1>2, <2>3, <2>4 DEF Over
  <2>6. \A j \in 1 .. Len(script') : script'[j] = Whole[(k + 1) + j]
    <3> SUFFICES ASSUME NEW j \in 1 .. Len(script')
                 PROVE  script'[j] = Whole[(k + 1) + j]
      OBVIOUS
    <3>1. j + 1 \in 1 .. Len(script) /\ k + (j + 1) = (k + 1) + j
      BY <2>3, <2>4
    <3> QED
      BY <2>1, <2>3, <3>1
  <2>7. refs' \in {0, 1}
    BY <1>3, <1>4, <2>1, <2>2
  <2>8. Self!TypeOK'
    BY <1>1, <2>1, <2>7 DEF Self!TypeOK
  <2>9. k + 1 \in 0 .. Len(Whole)
    BY <2>4
  <2> HIDE DEF k
  <2> QED
    BY <1>2, <2>1, <2>2, <2>3, <2>5, <2>6, <2>7, <2>8, <2>9
<1>6. CASE Self!Fails
  <2>1. /\ test_status = "running" /\ script # <<>> /\ script' = script
        /\ test_status' = "fail" /\ s[1] # "dealloc"
        /\ refs' = IF s[2] = "dealloc" THEN refs - 1 ELSE refs
    BY <1>3, <1>6 DEF Self!Fails
  <2>2. refs' \in {0, 1} /\ (kind = "auth" => refs' = 0)
    <3> HIDE DEF s, k
    <3> QED
      BY <1>4, <2>1
  <2> QED
    BY <1>1, <2>1, <2>2 DEF Self!TypeOK
<1>7. CASE Self!Succeeds
  <2>1. Over = Len(Whole) /\ Len(Whole) \in Nat
    <3>1. Whole \in Seq(Steps)
      BY <1>1, ScriptPlaces
    <3> QED
      BY <1>7, <3>1 DEF Self!Succeeds, Over
  <2>2. refs = 0
    BY <1>1, <1>7, <2>1, ScriptPlaces DEF Self!Succeeds
  <2> QED
    BY <1>1, <1>7, <2>2 DEF Self!Succeeds, Self!TypeOK
<1>8. CASE UNCHANGED Self!vars
  BY <1>2, <1>8 DEF Self!vars, Over, Self!TypeOK
<1> QED
  BY <1>5, <1>6, <1>7, <1>8 DEF Self!Next

\* What the invariant says of the two properties.
LEMMA SelfKeeps == SelfInv => Self!TypeOK /\ Self!ReleasedOnce /\ Self!OutcomeKnown
<1> SUFFICES ASSUME SelfInv
             PROVE  Self!TypeOK /\ Self!ReleasedOnce /\ Self!OutcomeKnown
  OBVIOUS
<1>1. kind \in {"cipher", "auth"}
  BY DEF SelfInv, Self!TypeOK
<1>2. ASSUME test_status = "running", script # <<>>, Head(script)[1] = "alloc"
      PROVE  refs = 0
  <2> DEFINE k == Over
  <2>1. Len(script) \in Nat /\ Len(script) > 0 /\ Head(script) = script[1]
    BY <1>2 DEF SelfInv
  <2>2. Whole \in Seq(Steps) /\ Len(Whole) \in Nat
    BY <1>1, ScriptPlaces
  <2>3. k \in 0 .. (Len(Whole) - 1) /\ Head(script) = Whole[k + 1] /\ refs = HeldAfter(k)
    BY <1>2, <2>1, <2>2 DEF SelfInv, Over
  <2> HIDE DEF k
  <2> QED
    BY <1>1, <1>2, <2>3, ScriptPlaces
<1>3. Self!ReleasedOnce
  BY <1>2 DEF Self!ReleasedOnce, SelfInv
<1>4. Self!OutcomeKnown
  BY DEF Self!OutcomeKnown, SelfInv, Self!TypeOK
<1> QED
  BY <1>3, <1>4 DEF SelfInv

\* The kernel is secure only with all its types and its random sources, through every
\* sequence of failed initialisations, shutdowns and repeated tests, an initialisation
\* that failed is refused from its first step on until a shutdown, and the instances
\* of the authentication functions are counted exactly; a self-test releases what it
\* allocated once, wherever it fails, for every number of test cases.
\* (crypto_kernel.c, cipher.c: cipher_type_self_test, auth.c: auth_type_self_test)
THEOREM KernelIsTrusted == PartSpec => []KernelTrusted
<1> DEFINE Inv == (part = "kernel" => KernelInv) /\ (part = "test" => SelfInv)
<1>1. PartInit => Inv
  BY KernelInit, SelfInit DEF PartInit
<1>2. Inv /\ [PartNext]_partVars => Inv'
  <2> SUFFICES ASSUME Inv, part' = part, [PartNext]_partVars
               PROVE  Inv'
    BY DEF PartNext, partVars
  <2>1. part = "kernel" => [Kernel!Next]_Kernel!vars
    BY DEF PartNext, partVars, kernelVars, Kernel!vars, Kernel!lists, Kernel!sources
  <2>2. part = "test" => [Self!Next]_Self!vars
    BY DEF PartNext, partVars, testVars, Self!vars
  <2>3. part = "kernel" => KernelInv'
    BY <2>1, KernelStep
  <2>4. part = "test" => SelfInv'
    BY <2>2, SelfStep
  <2> QED
    BY <2>3, <2>4
<1>3. Inv => KernelTrusted
  <2>1. KernelInv => /\ Kernel!TypeOK /\ Kernel!SecureIsComplete
                     /\ Kernel!AuthCounted /\ Kernel!FailureSticks
    <3> SUFFICES ASSUME KernelInv
                 PROVE  Kernel!FailureSticks
      BY DEF KernelInv, KernelTyped, KernelLoaded
    <3>1. boot \in 0 .. 16
      BY BootSteps DEF KernelInv, KernelTyped, Kernel!TypeOK
    <3> QED
      BY <3>1 DEF Kernel!FailureSticks, KernelInv, KernelPhase
  <2> QED
    BY <2>1, SelfKeeps DEF KernelTrusted
<1> QED
  BY <1>1, <1>2, <1>3, PTL DEF PartSpec

-----------------------------------------------------------------------------
(***************************************************************************)
(* The memory of a session                                                 *)
(***************************************************************************)

\* The streams of the session and its template, those that own their parts, and what
\* a stream may have on the heap.
Live == Session!List \cup ({stream_template} \ {0})
Own == {k \in Live : owner[k] = k}
Things == Session!Parts \cup {"context"}

\* Types; and a handle that is not in use has no streams.
SessionTyped ==
    /\ Session!TypeOK /\ todo \in Seq(Session!Policy)
    /\ ~ session => stream_list = 0 /\ stream_template = 0 /\ todo = <<>>

\* Links lead to streams that were allocated; a stream points to its own parts or to
\* those of the template, which points to its own; and of the streams with one SSRC
\* one comes first.
SessionLinks ==
    /\ stream_list <= allocated /\ stream_template <= allocated
    /\ \A k \in Session!Ids : next[k] <= allocated
    /\ Session!List \subseteq 1 .. allocated /\ rejected \subseteq 1 .. allocated
    /\ stream_template \notin Session!List /\ rejected \cap Live = {}
    /\ \A k \in Live : owner[k] \in {k, stream_template} /\ owner[k] # 0
    /\ \A v \in Ssrcs : \A k \in Session!List : ssrc[k] = v =>
           \E f \in Session!List : /\ ssrc[f] = v
                                   /\ {j \in Session!List : ssrc[j] = v} \subseteq Session!From(f)

\* Beside the streams that were refused the heap is what the session holds.
Outside == heap \ (rejected \X (Session!Parts \cup {"context"})) = Session!Held
SessionHolds == Outside /\ misused = FALSE

\* Of the streams that were refused exactly what they left behind is on it.
SessionLeft == heap \cap (rejected \X Things) = Session!LeftBehind

\* A stream without a collision served one kind of packet, and has that direction.
SessionUses ==
    \A k \in Session!Ids :
        /\ k > allocated => used[k] = {}
        /\ k \notin reported => /\ "protect" \in used[k] => direction[k] = "sender"
                                /\ "unprotect" \in used[k] => direction[k] = "receiver"

SessionInv == SessionTyped /\ SessionLinks /\ SessionHolds /\ SessionLeft /\ SessionUses

\* The constants.
LEMMA SessionConstants ==
    ASSUME PartsAssumption
    PROVE  /\ MaxStreams \in Nat /\ Ssrcs # {} /\ PolicyLists \subseteq Seq(Session!Policy)
           /\ Session!Ids = 1 .. MaxStreams /\ Session!Ids \subseteq Nat \ {0}
BY DEF PartsAssumption, Session!SessionAssumption, Session!Ids

\* No streams are linked from the end of the list, before or after a step.
LEMMA NoneFromNil == Session!From(0) = {} /\ Session!From(0)' = {}
<1>1. 0 \notin Session!Ids /\ {0} \in SUBSET (Session!Ids \cup {Session!Nil})
  BY DEF Session!Ids, Session!Nil
<1>2. Session!Linked({0}) /\ Session!Linked({0})'
  BY DEF Session!Linked, Session!Nil
<1>3. \A j \in Session!Ids : j \notin {0}
  BY <1>1
<1>4. Session!From(0) = {}
  BY <1>1, <1>2, <1>3 DEF Session!From
<1>5. Session!From(0)' = {}
  BY <1>1, <1>2, <1>3 DEF Session!From
<1> QED
  BY <1>4, <1>5

\* A stream that nothing links to, put before the list, leaves what is linked from the
\* others as it is, and has the list behind it.
LEMMA PushedFrom ==
    ASSUME PartsAssumption, NEW n \in Session!Ids, NEW h \in Session!Ids \cup {0}, h # n,
           next \in [Session!Ids -> Session!Ids \cup {0}],
           \A k \in Session!Ids : next[k] # n,
           next' = [next EXCEPT ![n] = h]
    PROVE  /\ \A k \in (Session!Ids \cup {0}) \ {n} : Session!From(k)' = Session!From(k)
           /\ Session!From(n)' = {n} \cup Session!From(h)
<1> DEFINE All == Session!Ids \cup {0}
<1>1. 0 \notin Session!Ids /\ Session!Nil = 0
  BY DEF Session!Ids, Session!Nil
<1>2. /\ next'[n] = h
      /\ \A k \in Session!Ids \ {n} : next'[k] = next[k] /\ next[k] # n
  OBVIOUS
<1>3. ASSUME NEW S \in SUBSET All, Session!Linked(S)
      PROVE  Session!Linked(S \ {n}) /\ Session!Linked(S \ {n})'
  BY <1>1, <1>2, <1>3 DEF Session!Linked
<1>4. ASSUME NEW S \in SUBSET All, Session!Linked(S)'
      PROVE  /\ Session!Linked(S \ {n}) /\ Session!Linked(S \ {n})'
             /\ n \in S => h \in S
  BY <1>1, <1>2, <1>4 DEF Session!Linked
<1>5. ASSUME NEW S \in SUBSET All, Session!Linked(S), h \in S
      PROVE  Session!Linked(S \cup {n})'
  BY <1>1, <1>2, <1>5 DEF Session!Linked
<1>6. ASSUME NEW k, NEW j
      PROVE  /\ j \in Session!From(k) <=>
                    /\ j \in Session!Ids
                    /\ \A S \in SUBSET All : k \in S /\ Session!Linked(S) => j \in S
             /\ j \in Session!From(k)' <=>
                    /\ j \in Session!Ids
                    /\ \A S \in SUBSET All : k \in S /\ Session!Linked(S)' => j \in S
  BY <1>1 DEF Session!From
<1>7. ASSUME NEW k \in All \ {n}, NEW j \in Session!From(k)' PROVE j \in Session!From(k)
  <2>1. SUFFICES ASSUME NEW S \in SUBSET All, k \in S, Session!Linked(S) PROVE j \in S
    BY <1>6, <1>7
  <2>2. S \ {n} \in SUBSET All /\ k \in S \ {n} /\ Session!Linked(S \ {n})'
    BY <1>3, <1>7, <2>1
  <2> QED
    BY <1>6, <1>7, <2>2
<1>8. ASSUME NEW k \in All \ {n}, NEW j \in Session!From(k) PROVE j \in Session!From(k)'
  <2>1. SUFFICES ASSUME NEW S \in SUBSET All, k \in S, Session!Linked(S)' PROVE j \in S
    BY <1>6, <1>8
  <2>2. S \ {n} \in SUBSET All /\ k \in S \ {n} /\ Session!Linked(S \ {n})
    BY <1>4, <1>8, <2>1
  <2> QED
    BY <1>6, <1>8, <2>2
<1>9. ASSUME NEW j \in Session!From(n)', j # n PROVE j \in Session!From(h)
  <2>1. SUFFICES ASSUME NEW S \in SUBSET All, h \in S, Session!Linked(S) PROVE j \in S
    BY <1>6, <1>9
  <2>2. S \cup {n} \in SUBSET All /\ n \in S \cup {n} /\ Session!Linked(S \cup {n})'
    BY <1>5, <2>1
  <2> QED
    BY <1>6, <1>9, <2>2
<1>10. ASSUME NEW j \in Session!From(h) PROVE j \in Session!From(n)'
  <2>1. SUFFICES ASSUME NEW S \in SUBSET All, n \in S, Session!Linked(S)' PROVE j \in S
    BY <1>6, <1>10
  <2>2. S \ {n} \in SUBSET All /\ h \in S \ {n} /\ Session!Linked(S \ {n})
    BY <1>4, <2>1
  <2> QED
    BY <1>6, <1>10, <2>2
<1>11. n \in Session!From(n)'
  BY <1>6
<1>12. \A k \in All \ {n} : Session!From(k)' = Session!From(k)
  BY <1>7, <1>8
<1> QED
  BY <1>9, <1>10, <1>11, <1>12

\* What is linked does not depend on anything but the links.
LEMMA SameFrom ==
    ASSUME next' = next PROVE \A k : Session!From(k)' = Session!From(k)
BY DEF Session!From, Session!Linked

\* The objects of streams that point to their own parts or to one stream's, which points
\* to its own: the contexts, and the parts of those that own them.
LEMMA ObjectsAre ==
    ASSUME NEW S, NEW own, NEW t,
           \A k \in S : own[k] = k \/ (own[k] = t /\ t \in S)
    PROVE  UNION {{<<k, "context">>} \cup {<<own[k], p>> : p \in Session!Parts} : k \in S}
               = (S \X {"context"}) \cup ({k \in S : own[k] = k} \X Session!Parts)
<1> DEFINE Each == UNION {{<<k, "context">>} \cup {<<own[k], p>> : p \in Session!Parts} : k \in S}
           Self0 == {k \in S : own[k] = k}
<1>1. ASSUME NEW o \in Each PROVE o \in (S \X {"context"}) \cup (Self0 \X Session!Parts)
  <2>1. PICK k \in S : o = <<k, "context">> \/ \E p \in Session!Parts : o = <<own[k], p>>
    BY <1>1
  <2>2. CASE o = <<k, "context">>
    BY <2>1, <2>2
  <2>3. ASSUME NEW p \in Session!Parts, o = <<own[k], p>> PROVE o \in Self0 \X Session!Parts
    <3>1. own[k] \in S /\ own[own[k]] = own[k]
      OBVIOUS
    <3> QED
      BY <2>3, <3>1
  <2> QED
    BY <2>1, <2>2, <2>3
<1>2. ASSUME NEW k \in S PROVE <<k, "context">> \in Each
  OBVIOUS
<1>3. ASSUME NEW k \in Self0, NEW p \in Session!Parts PROVE <<k, p>> \in Each
  OBVIOUS
<1> QED
  BY <1>1, <1>2, <1>3

\* What the session holds, before and after a step.
LEMMA HeldIs ==
    /\ (\A k \in Live : owner[k] \in {k, stream_template} /\ owner[k] # 0) =>
           Session!Held = IF session
                          THEN {<<0, "session">>} \cup (Live \X {"context"})
                                   \cup (Own \X Session!Parts)
                          ELSE {}
    /\ (\A k \in Live' : owner'[k] \in {k, stream_template'} /\ owner'[k] # 0) =>
           Session!Held' = IF session'
                           THEN {<<0, "session">>} \cup (Live' \X {"context"})
                                    \cup (Own' \X Session!Parts)
                           ELSE {}
<1>1. ASSUME \A k \in Live : owner[k] \in {k, stream_template} /\ owner[k] # 0
      PROVE  Session!Held = IF session
                            THEN {<<0, "session">>} \cup (Live \X {"context"})
                                     \cup (Own \X Session!Parts)
                            ELSE {}
  <2>1. Session!Held = IF session
                       THEN {<<0, "session">>} \cup
                            UNION {{<<k, "context">>} \cup
                                   {<<owner[k], p>> : p \in Session!Parts} : k \in Live}
                       ELSE {}
    BY DEF Session!Held, Live, Session!Nil, Session!Session, Session!Object, Session!Context
  <2>2. \A k \in Live : owner[k] = k \/ (owner[k] = stream_template /\ stream_template \in Live)
    BY <1>1 DEF Live
  <2>3. UNION {{<<k, "context">>} \cup {<<owner[k], p>> : p \in Session!Parts} : k \in Live}
            = (Live \X {"context"}) \cup ({k \in Live : owner[k] = k} \X Session!Parts)
    BY <2>2, ObjectsAre
  <2> QED
    BY <2>1, <2>3 DEF Own
<1>2. ASSUME \A k \in Live' : owner'[k] \in {k, stream_template'} /\ owner'[k] # 0
      PROVE  Session!Held' = IF session'
                             THEN {<<0, "session">>} \cup (Live' \X {"context"})
                                      \cup (Own' \X Session!Parts)
                             ELSE {}
  <2>1. Session!Held' = IF session'
                        THEN {<<0, "session">>} \cup
                             UNION {{<<k, "context">>} \cup
                                    {<<owner'[k], p>> : p \in Session!Parts} : k \in Live'}
                        ELSE {}
    BY DEF Session!Held, Live, Session!Nil, Session!Session, Session!Object, Session!Context
  <2>2. \A k \in Live' :
            owner'[k] = k \/ (owner'[k] = stream_template' /\ stream_template' \in Live')
    BY <1>2 DEF Live
  <2>3. UNION {{<<k, "context">>} \cup {<<owner'[k], p>> : p \in Session!Parts} : k \in Live'}
            = (Live' \X {"context"}) \cup ({k \in Live' : owner'[k] = k} \X Session!Parts)
    BY <2>2, ObjectsAre
  <2> QED
    BY <2>1, <2>3 DEF Own
<1> QED
  BY <1>1, <1>2

\* The heap, stream by stream: nothing of a stream that was not allocated is on it.
LEMMA HeapIs ==
    ASSUME PartsAssumption, SessionLinks, SessionHolds, SessionTyped
    PROVE  /\ Live \subseteq 1 .. allocated /\ allocated \in Nat /\ allocated <= MaxStreams
           /\ \A q : <<0, q>> \in heap <=> session /\ q = "session"
           /\ \A k \in 1 .. allocated : k \notin rejected =>
                  \A q : <<k, q>> \in heap <=> /\ session
                                               /\ \/ k \in Live /\ q = "context"
                                                  \/ k \in Own /\ q \in Session!Parts
           /\ heap \subseteq {<<0, "session">>} \cup ((1 .. allocated) \X Things)
<1>1. allocated \in Nat /\ allocated <= MaxStreams /\ stream_template \in Nat
  <2>1. allocated \in 0 .. MaxStreams /\ stream_template \in Session!Ids \cup {0}
    BY DEF SessionTyped, Session!TypeOK, Session!Nil
  <2> QED
    BY <2>1, SessionConstants
<1>2. Live \subseteq 1 .. allocated
  BY <1>1 DEF SessionLinks, Live
<1>3. Own \subseteq Live
  BY DEF Own
<1> DEFINE H == IF session
                THEN {<<0, "session">>} \cup (Live \X {"context"}) \cup (Own \X Session!Parts)
                ELSE {}
<1>4. heap \ (rejected \X Things) = H
  <2>1. Session!Held = H
    BY HeldIs DEF SessionLinks
  <2> QED
    BY <2>1 DEF SessionHolds, Outside, Things
<1>5. rejected \subseteq 1 .. allocated
  BY DEF SessionLinks
<1>6. H \subseteq {<<0, "session">>} \cup ((1 .. allocated) \X Things)
  BY <1>2, <1>3 DEF Things
<1>7. heap \subseteq {<<0, "session">>} \cup ((1 .. allocated) \X Things)
  <2>1. rejected \X Things \subseteq (1 .. allocated) \X Things
    BY <1>5
  <2> HIDE DEF H
  <2> QED
    BY <1>4, <1>6, <2>1
<1>8. 0 \notin 1 .. allocated
  OBVIOUS
<1>9. ASSUME NEW q PROVE <<0, q>> \in heap <=> session /\ q = "session"
  <2>1. <<0, q>> \in heap <=> <<0, q>> \in H
    BY <1>4, <1>5, <1>8
  <2>2. <<0, q>> \in H <=> session /\ q = "session"
    BY <1>2, <1>3, <1>8
  <2> QED
    BY <2>1, <2>2
<1>10. ASSUME NEW k \in 1 .. allocated, k \notin rejected, NEW q
       PROVE  <<k, q>> \in heap <=> /\ session
                                    /\ \/ k \in Live /\ q = "context"
                                       \/ k \in Own /\ q \in Session!Parts
  <2>1. <<k, q>> \in heap <=> <<k, q>> \in H
    BY <1>4, <1>10
  <2>2. <<k, q>> \in H <=> /\ session
                           /\ \/ k \in Live /\ q = "context"
                              \/ k \in Own /\ q \in Session!Parts
    BY <1>8
  <2> QED
    BY <2>1, <2>2
<1> QED
  BY <1>1, <1>2, <1>7, <1>9, <1>10

\* An allocation that fails leaves the heap as it was, and one that does not takes the
\* context and the parts.
LEMMA AllocIs ==
    ASSUME PartsAssumption, SessionInv
    PROVE  /\ Session!srtp_stream_alloc_fails(Session!New) = {heap}
           /\ Session!srtp_stream_alloc(Session!New) = heap \cup ({Session!New} \X Things)
<1> DEFINE n == Session!New
<1>1. allocated \in Nat /\ heap \subseteq {<<0, "session">>} \cup ((1 .. allocated) \X Things)
  BY HeapIs DEF SessionInv
<1>2. n \in Nat /\ n # 0 /\ n \notin 1 .. allocated
  BY <1>1 DEF Session!New
<1>3. \A q : <<n, q>> \notin heap
  BY <1>1, <1>2
<1> HIDE DEF n
<1>4. ASSUME NEW k \in DOMAIN Session!Order
      PROVE  (heap \cup {Session!Object(n, Session!Order[j]) : j \in 1 .. (k - 1)})
                 \ {Session!Object(n, p) : p \in Session!FreedWhenFails(k)} = heap
  BY <1>3 DEF Session!Object, Session!FreedWhenFails
<1>5. Session!srtp_stream_alloc_fails(n) = {heap}
  BY <1>4 DEF Session!srtp_stream_alloc_fails
<1>6. Session!srtp_stream_alloc(n) = heap \cup ({n} \X Things)
  BY DEF Session!srtp_stream_alloc, Session!Context, Session!Object, Things
<1> QED
  BY <1>5, <1>6 DEF n

\* A stream that owns its parts, or shares the template's, becomes the head of the list.
LEMMA LinksPushed ==
    ASSUME PartsAssumption, SessionInv, allocated < MaxStreams,
           NEW n, n = Session!New, allocated' = n,
           next' = [next EXCEPT ![n] = stream_list], stream_list' = n,
           stream_template' = stream_template, rejected' = rejected,
           NEW o \in {n, stream_template}, o # 0,
           owner' = [owner EXCEPT ![n] = o],
           NEW v \in Ssrcs, ssrc' = [ssrc EXCEPT ![n] = v]
    PROVE  /\ SessionLinks' /\ Live' = Live \cup {n}
           /\ Own' = IF o = n THEN Own \cup {n} ELSE Own
<1> DEFINE L == Session!List
<1>1. /\ allocated \in Nat /\ Live \subseteq 1 .. allocated /\ MaxStreams \in Nat
      /\ Session!Ids = 1 .. MaxStreams
  BY HeapIs, SessionConstants DEF SessionInv
<1>2. n = allocated + 1 /\ n \in Session!Ids /\ n \notin 1 .. allocated /\ n # 0
  BY <1>1 DEF Session!New
<1>3. /\ stream_list \in Session!Ids \cup {0} /\ stream_template \in Session!Ids \cup {0}
      /\ next \in [Session!Ids -> Session!Ids \cup {0}]
      /\ owner \in [Session!Ids -> Session!Ids] /\ ssrc \in [Session!Ids -> Ssrcs]
  BY DEF SessionInv, SessionTyped, Session!TypeOK, Session!Nil
<1>4. /\ stream_list <= allocated /\ stream_template <= allocated
      /\ \A k \in Session!Ids : next[k] <= allocated
      /\ L \subseteq 1 .. allocated /\ rejected \subseteq 1 .. allocated
      /\ stream_template \notin L /\ rejected \cap Live = {}
      /\ \A k \in Live : owner[k] \in {k, stream_template} /\ owner[k] # 0
  BY DEF SessionInv, SessionLinks
<1>5. stream_list # n /\ stream_template # n /\ \A k \in Session!Ids : next[k] # n
  BY <1>1, <1>2, <1>3, <1>4
<1>6. /\ \A k \in (Session!Ids \cup {0}) \ {n} : Session!From(k)' = Session!From(k)
      /\ Session!From(n)' = {n} \cup Session!From(stream_list)
  BY <1>2, <1>3, <1>5, PushedFrom
<1>7. L' = L \cup {n}
  <2>1. L' = Session!From(n)'
    BY DEF Session!List, Session!From, Session!Linked
  <2> QED
    BY <1>6, <2>1 DEF Session!List
<1>8. Live' = Live \cup {n}
  BY <1>7 DEF Live
<1>9. /\ owner'[n] = o /\ ssrc'[n] = v
      /\ \A k \in Session!Ids \ {n} : owner'[k] = owner[k] /\ ssrc'[k] = ssrc[k]
                                      /\ next'[k] = next[k]
      /\ next'[n] = stream_list
  BY <1>2, <1>3
<1>10. Live \subseteq Session!Ids \ {n} /\ L \subseteq Session!Ids \ {n}
  <2>1. 1 .. allocated \subseteq Session!Ids \ {n}
    BY <1>1, <1>2
  <2> QED
    BY <1>1, <1>4, <2>1
<1>11. Own' = IF o = n THEN Own \cup {n} ELSE Own
  BY <1>8, <1>9, <1>10 DEF Own
<1>12. 1 .. allocated \subseteq 1 .. n /\ n \in 1 .. n
  BY <1>1, <1>2
<1>13. /\ L' \subseteq 1 .. n /\ rejected' \subseteq 1 .. n
       /\ stream_template' \notin L' /\ rejected' \cap Live' = {}
  <2>1. n \notin rejected
    BY <1>2, <1>4
  <2> QED
    BY <1>4, <1>5, <1>7, <1>8, <1>12, <2>1
<1>14. \A k \in Live' : owner'[k] \in {k, stream_template'} /\ owner'[k] # 0
  BY <1>4, <1>8, <1>9, <1>10
<1>15. stream_list' <= n /\ stream_template' <= n /\ \A k \in Session!Ids : next'[k] <= n
  <2>1. ASSUME NEW k \in Session!Ids PROVE next'[k] <= allocated /\ next'[k] \in Nat
    <3>1. next'[k] = stream_list \/ next'[k] = next[k]
      BY <1>9
    <3>2. next[k] \in Nat /\ stream_list \in Nat
      BY <1>1, <1>3
    <3> QED
      BY <1>4, <3>1, <3>2
  <2>2. stream_template \in Nat
    BY <1>1, <1>3
  <2> QED
    BY <1>1, <1>2, <1>4, <2>1, <2>2
<1>16. ASSUME NEW u \in Ssrcs, NEW k \in L', ssrc'[k] = u
       PROVE  \E f \in L' : /\ ssrc'[f] = u
                            /\ {j \in L' : ssrc'[j] = u} \subseteq Session!From(f)'
  <2>1. CASE u = v
    <3>1. L' \subseteq Session!From(n)'
      BY <1>6, <1>7 DEF Session!List
    <3> QED
      BY <1>7, <1>9, <2>1, <3>1
  <2>2. CASE u # v
    <3>1. k \in L /\ ssrc[k] = u
      BY <1>7, <1>9, <1>10, <1>16, <2>2
    <3>2. PICK f \in L : ssrc[f] = u /\ {j \in L : ssrc[j] = u} \subseteq Session!From(f)
      BY <3>1 DEF SessionInv, SessionLinks
    <3>3. {j \in L' : ssrc'[j] = u} = {j \in L : ssrc[j] = u}
      BY <1>7, <1>9, <1>10, <2>2
    <3>4. f \in L' /\ ssrc'[f] = u /\ Session!From(f)' = Session!From(f)
      BY <1>6, <1>7, <1>9, <1>10, <3>2
    <3> QED
      BY <3>2, <3>3, <3>4
  <2> QED
    BY <2>1, <2>2
<1>17. SessionLinks'
  BY <1>13, <1>14, <1>15, <1>16 DEF SessionLinks
<1> QED
  BY <1>8, <1>11, <1>17

\* A stream that owns its parts becomes the template, where there was none.
LEMMA LinksTemplate ==
    ASSUME PartsAssumption, SessionInv, allocated < MaxStreams,
           NEW n, n = Session!New, allocated' = n,
           next' = next, stream_list' = stream_list, stream_template = 0,
           stream_template' = n, rejected' = rejected,
           owner' = [owner EXCEPT ![n] = n],
           NEW v \in Ssrcs, ssrc' = [ssrc EXCEPT ![n] = v]
    PROVE  /\ SessionLinks' /\ Live' = Live \cup {n}
           /\ Own' = Own \cup {n}
<1> DEFINE L == Session!List
<1>1. /\ allocated \in Nat /\ Live \subseteq 1 .. allocated /\ MaxStreams \in Nat
      /\ Session!Ids = 1 .. MaxStreams
  BY HeapIs, SessionConstants DEF SessionInv
<1>2. n = allocated + 1 /\ n \in Session!Ids /\ n \notin 1 .. allocated /\ n # 0
  BY <1>1 DEF Session!New
<1>3. /\ stream_list \in Session!Ids \cup {0} /\ next \in [Session!Ids -> Session!Ids \cup {0}]
      /\ owner \in [Session!Ids -> Session!Ids] /\ ssrc \in [Session!Ids -> Ssrcs]
  BY DEF SessionInv, SessionTyped, Session!TypeOK, Session!Nil
<1>4. /\ stream_list <= allocated
      /\ \A k \in Session!Ids : next[k] <= allocated
      /\ L \subseteq 1 .. allocated /\ rejected \subseteq 1 .. allocated
      /\ rejected \cap Live = {}
      /\ \A k \in Live : owner[k] \in {k, stream_template} /\ owner[k] # 0
  BY DEF SessionInv, SessionLinks
<1>5. \A k : Session!From(k)' = Session!From(k)
  BY SameFrom
<1>6. L' = L
  BY <1>5 DEF Session!List
<1>7. Live = L /\ Live' = Live \cup {n}
  BY <1>2, <1>6 DEF Live
<1>8. /\ owner'[n] = n /\ ssrc'[n] = v
      /\ \A k \in Session!Ids \ {n} : owner'[k] = owner[k] /\ ssrc'[k] = ssrc[k]
  BY <1>2, <1>3
<1>9. L \subseteq Session!Ids \ {n}
  <2>1. 1 .. allocated \subseteq Session!Ids \ {n}
    BY <1>1, <1>2
  <2> QED
    BY <1>4, <2>1
<1>10. Own' = Own \cup {n}
  BY <1>7, <1>8, <1>9 DEF Own
<1>11. 1 .. allocated \subseteq 1 .. n /\ n \in 1 .. n
  BY <1>1, <1>2
<1>12. /\ L' \subseteq 1 .. n /\ rejected' \subseteq 1 .. n
       /\ stream_template' \notin L' /\ rejected' \cap Live' = {}
  <2>1. n \notin rejected /\ n \notin L /\ stream_template' = n
    BY <1>2, <1>4
  <2> QED
    BY <1>4, <1>6, <1>7, <1>11, <2>1
<1>13. \A k \in Live' : owner'[k] \in {k, stream_template'} /\ owner'[k] # 0
  BY <1>2, <1>4, <1>7, <1>8, <1>9
<1>14. stream_list' <= n /\ stream_template' <= n /\ \A k \in Session!Ids : next'[k] <= n
  <2>1. \A k \in Session!Ids : next'[k] <= allocated /\ next'[k] \in Nat
    BY <1>1, <1>3, <1>4
  <2>2. stream_list \in Nat /\ stream_template' = n
    BY <1>1, <1>3
  <2> QED
    BY <1>1, <1>2, <1>4, <2>1, <2>2
<1>15. ASSUME NEW u \in Ssrcs, NEW k \in L', ssrc'[k] = u
       PROVE  \E f \in L' : /\ ssrc'[f] = u
                            /\ {j \in L' : ssrc'[j] = u} \subseteq Session!From(f)'
  <2>1. k \in L /\ ssrc[k] = u
    BY <1>6, <1>8, <1>9, <1>15
  <2>2. PICK f \in L : ssrc[f] = u /\ {j \in L : ssrc[j] = u} \subseteq Session!From(f)
    BY <2>1 DEF SessionInv, SessionLinks
  <2>3. {j \in L' : ssrc'[j] = u} = {j \in L : ssrc[j] = u}
    BY <1>6, <1>8, <1>9
  <2> QED
    BY <1>5, <1>6, <1>8, <1>9, <2>2, <2>3
<1>16. SessionLinks'
  BY <1>12, <1>13, <1>14, <1>15 DEF SessionLinks
<1> QED
  BY <1>7, <1>10, <1>16

\* A new stream and its objects on the heap: what is held grows by them.
LEMMA HeapGrows ==
    ASSUME PartsAssumption, SessionInv, session, session' = session, rejected' = rejected,
           NEW n, n = Session!New, SessionLinks', Live' = Live \cup {n},
           \/ Own' = Own \cup {n} /\ heap' = heap \cup ({n} \X Things)
           \/ Own' = Own /\ heap' = heap \cup {<<n, "context">>}
    PROVE  Outside'
<1>1. /\ allocated \in Nat /\ rejected \subseteq 1 .. allocated
  BY HeapIs DEF SessionInv, SessionLinks
<1>2. n \notin rejected
  BY <1>1 DEF Session!New
<1>3. \A k \in Live' : owner'[k] \in {k, stream_template'} /\ owner'[k] # 0
  BY DEF SessionLinks
<1>4. Session!Held' = {<<0, "session">>} \cup (Live' \X {"context"}) \cup (Own' \X Session!Parts)
  <2>1. Session!Held' = IF session'
                        THEN {<<0, "session">>} \cup (Live' \X {"context"})
                                   \cup (Own' \X Session!Parts)
                        ELSE {}
    BY <1>3, HeldIs
  <2> QED
    BY <2>1
<1>5. Session!Held = {<<0, "session">>} \cup (Live \X {"context"}) \cup (Own \X Session!Parts)
  BY HeldIs DEF SessionInv, SessionLinks
<1>6. heap \ (rejected \X Things) = Session!Held
  BY DEF SessionInv, SessionHolds, Outside, Things
<1>7. heap' \ (rejected \X Things) = Session!Held'
  <2>1. CASE Own' = Own \cup {n} /\ heap' = heap \cup ({n} \X Things)
    <3>1. heap' \ (rejected \X Things) = Session!Held \cup ({n} \X Things)
      BY <1>2, <1>6, <2>1
    <3> QED
      BY <1>4, <1>5, <2>1, <3>1 DEF Things
  <2>2. CASE Own' = Own /\ heap' = heap \cup {<<n, "context">>}
    <3>1. heap' \ (rejected \X Things) = Session!Held \cup {<<n, "context">>}
      BY <1>2, <1>6, <2>2
    <3> QED
      BY <1>4, <1>5, <2>2, <3>1
  <2> QED
    BY <2>1, <2>2
<1> QED
  BY <1>7 DEF Outside, Things

\* srtp_dealloc frees what the session holds, each object once.
LEMMA Deallocates ==
    ASSUME PartsAssumption, SessionInv, session, NEW h, NEW n, Session!srtp_dealloc(h, n),
           heap \subseteq h
    PROVE  /\ heap' = h \ Session!Held /\ misused' = FALSE /\ session' = FALSE
           /\ stream_list' = 0 /\ stream_template' = 0 /\ allocated' = n
           /\ UNCHANGED <<next, owner, ssrc, direction>>
<1>1. /\ Session!Nil = 0 /\ Session!Session = <<0, "session">>
      /\ \A k, p : Session!Object(k, p) = <<k, p>> /\ Session!Context(k) = <<k, "context">>
  BY DEF Session!Nil, Session!Session, Session!Object, Session!Context
<1> DEFINE L == Session!List
           t == stream_template
<1>2. /\ Live = L \cup ({t} \ {0}) /\ t \notin L
      /\ \A k \in Live : owner[k] \in {k, t} /\ owner[k] # 0
  BY DEF SessionInv, SessionLinks, Live
<1>3. Session!Held = {<<0, "session">>} \cup (Live \X {"context"}) \cup (Own \X Session!Parts)
  BY HeldIs DEF SessionInv, SessionLinks
<1>4. Session!Held \subseteq heap
  BY DEF SessionInv, SessionHolds, Outside
<1>5. t # 0 => owner[t] = t
  BY <1>2
<1>6. "context" \notin Session!Parts
  BY DEF Session!Parts
<1>7. ASSUME NEW k \in L
      PROVE  /\ Session!srtp_stream_dealloc(k)
                    = {<<k, "context">>} \cup (IF owner[k] = k THEN {k} \X Session!Parts ELSE {})
             /\ owner[k] # k => t # 0
  <2>1. CASE owner[k] = k
    BY <1>1, <1>2, <1>5, <2>1 DEF Session!srtp_stream_dealloc
  <2>2. CASE owner[k] # k
    <3>1. owner[k] = t /\ t # 0
      BY <1>2, <2>2
    <3> QED
      BY <1>1, <1>5, <2>2, <3>1 DEF Session!srtp_stream_dealloc
  <2> QED
    BY <2>1, <2>2
<1> DEFINE list == UNION {Session!srtp_stream_dealloc(k) : k \in L}
           template == IF t = 0 THEN {} ELSE {t} \X Things
           twice == \/ \E k, j \in L :
                           /\ k # j
                           /\ Session!srtp_stream_dealloc(k) \cap Session!srtp_stream_dealloc(j) # {}
                    \/ list \cap template # {}
<1>8. (IF t = 0 THEN {} ELSE {Session!Context(t)} \cup {Session!Object(t, p) : p \in Session!Parts})
          = template
  <2>1. {<<t, "context">>} \cup {<<t, p>> : p \in Session!Parts} = {t} \X Things
    BY DEF Things
  <2> QED
    BY <1>1, <2>1
<1>9. /\ heap' = h \ (list \cup template \cup {<<0, "session">>})
      /\ misused' = (misused \/ twice \/ ~ (list \cup template) \subseteq h)
      /\ session' = FALSE /\ stream_list' = 0 /\ stream_template' = 0 /\ allocated' = n
      /\ UNCHANGED <<next, owner, ssrc, direction>>
  BY <1>1, <1>8 DEF Session!srtp_dealloc
<1>10. list = (L \X {"context"}) \cup ({k \in L : owner[k] = k} \X Session!Parts)
  <2>1. ASSUME NEW o \in list
        PROVE  o \in (L \X {"context"}) \cup ({k \in L : owner[k] = k} \X Session!Parts)
    <3>1. PICK k \in L : o \in Session!srtp_stream_dealloc(k)
      BY <2>1
    <3>2. o = <<k, "context">> \/ (owner[k] = k /\ o \in {k} \X Session!Parts)
      BY <1>7, <3>1
    <3> QED
      BY <3>2
  <2>2. ASSUME NEW k \in L PROVE <<k, "context">> \in list
    <3>1. <<k, "context">> \in Session!srtp_stream_dealloc(k)
      BY <1>7
    <3> QED
      BY <3>1
  <2>3. ASSUME NEW k \in L, owner[k] = k, NEW p \in Session!Parts PROVE <<k, p>> \in list
    <3>1. <<k, p>> \in Session!srtp_stream_dealloc(k)
      BY <1>7, <2>3
    <3> QED
      BY <3>1
  <2> HIDE DEF list
  <2> QED
    BY <2>1, <2>2, <2>3
<1>11. ASSUME NEW k \in L, NEW j \in L, k # j
       PROVE  Session!srtp_stream_dealloc(k) \cap Session!srtp_stream_dealloc(j) = {}
  <2>1. \A o \in Session!srtp_stream_dealloc(k) : o[1] = k
    BY <1>7
  <2>2. \A o \in Session!srtp_stream_dealloc(j) : o[1] = j
    BY <1>7
  <2> QED
    BY <1>11, <2>1, <2>2
<1> HIDE DEF list, template
<1>12. list \cap template = {}
  BY <1>2, <1>10 DEF template
<1>13. list \cup template \cup {<<0, "session">>} = Session!Held
  <2>1. CASE t = 0
    <3>1. Live = L /\ Own = {k \in L : owner[k] = k} /\ template = {}
      BY <1>2, <2>1 DEF Own, template
    <3> QED
      BY <1>3, <1>10, <3>1
  <2>2. CASE t # 0
    <3>1. /\ Live = L \cup {t} /\ Own = {k \in L : owner[k] = k} \cup {t}
          /\ template = {t} \X Things
      BY <1>2, <1>5, <2>2 DEF Own, template
    <3> QED
      BY <1>3, <1>10, <3>1 DEF Things
  <2> QED
    BY <2>1, <2>2
<1>14. misused' = FALSE
  <2>1. ~ twice
    BY <1>11, <1>12
  <2>2. (list \cup template) \subseteq h
    BY <1>4, <1>13
  <2>3. misused = FALSE
    BY DEF SessionInv, SessionHolds
  <2> HIDE DEF twice
  <2> QED
    BY <1>9, <2>1, <2>2, <2>3
<1> QED
  BY <1>9, <1>13, <1>14

\* A step that leaves the links and the owners alone leaves the list as it is.
LEMMA LinksKept ==
    ASSUME UNCHANGED <<next, stream_list, stream_template, owner>>
    PROVE  /\ Session!List' = Session!List /\ Live' = Live /\ Own' = Own
           /\ \A k : Session!From(k)' = Session!From(k)
           /\ session' = session => Session!Held' = Session!Held
<1>1. \A k : Session!From(k)' = Session!From(k)
  BY SameFrom
<1>2. Session!List' = Session!List
  BY <1>1 DEF Session!List
<1>3. Live' = Live
  BY <1>2 DEF Live
<1>4. Own' = Own
  BY <1>3 DEF Own
<1>5. ASSUME session' = session PROVE Session!Held' = Session!Held
  BY <1>2, <1>5 DEF Session!Held, Session!Nil, Session!Session, Session!Object,
     Session!Context
<1> QED
  BY <1>1, <1>2, <1>3, <1>4, <1>5

\* A step that adds to the heap, or takes from it, nothing of the streams that were
\* refused leaves what they left behind as it is.
LEMMA LeftKept ==
    ASSUME SessionLeft, UNCHANGED <<rejected, stripped>>,
           \A k \in rejected : \A q \in Things : <<k, q>> \in heap' <=> <<k, q>> \in heap
    PROVE  SessionLeft'
<1>1. Session!LeftBehind' = Session!LeftBehind
  BY DEF Session!LeftBehind
<1>2. heap' \cap (rejected \X Things) = heap \cap (rejected \X Things)
  OBVIOUS
<1> QED
  BY <1>1, <1>2 DEF SessionLeft

\* Nothing is allocated at first.
LEMMA SessionInit == PartsAssumption /\ Session!Init => SessionInv
<1> SUFFICES ASSUME PartsAssumption, Session!Init PROVE SessionInv
  OBVIOUS
<1>1. MaxStreams \in Nat /\ Ssrcs # {} /\ Session!Ids = 1 .. MaxStreams
  BY SessionConstants
<1>2. Session!List = {} /\ Live = {}
  BY NoneFromNil DEF Session!List, Live, Session!Init, Session!Nil
<1>3. Session!TypeOK
  <2>1. allocated \in 0 .. MaxStreams
    BY <1>1 DEF Session!Init
  <2>2. (CHOOSE v \in Ssrcs : TRUE) \in Ssrcs
    BY <1>1
  <2> QED
    BY <2>1, <2>2 DEF Session!Init, Session!TypeOK, Session!Nil
<1>4. SessionTyped
  BY <1>3 DEF Session!Init, SessionTyped, Session!Nil
<1>5. SessionLinks
  <2>1. \A k \in Session!Ids : next[k] = 0
    BY DEF Session!Init, Session!Nil
  <2>2. allocated = 0 /\ stream_list = 0 /\ stream_template = 0 /\ rejected = {}
    BY DEF Session!Init, Session!Nil
  <2> QED
    BY <1>2, <2>1, <2>2 DEF SessionLinks
<1>6. SessionHolds
  BY DEF Session!Init, SessionHolds, Outside, Session!Held
<1>7. SessionUses
  BY DEF Session!Init, SessionUses
<1>8. SessionLeft
  BY DEF Session!Init, SessionLeft, Session!LeftBehind
<1> QED
  BY <1>4, <1>5, <1>6, <1>7, <1>8 DEF SessionInv

\* A new session, or none when there is no memory for it.
LEMMA SessionCreates ==
    ASSUME PartsAssumption, SessionInv, NEW ps \in PolicyLists, Session!srtp_create(ps)
    PROVE  SessionInv'
<1>1. /\ ~ session
      /\ UNCHANGED <<stream_list, next, stream_template, owner, ssrc, direction, allocated>>
      /\ UNCHANGED <<misused, used, reported, rejected, stripped>>
      /\ \/ session_status' = "alloc_fail" /\ UNCHANGED <<heap, session, todo>>
         \/ /\ heap' = heap \cup {<<0, "session">>} /\ session' = TRUE /\ todo' = ps
            /\ session_status' = "ok"
  BY DEF Session!srtp_create, Session!streams, Session!history, Session!refusals,
     Session!Session, Session!Object
<1>2. /\ Session!List' = Session!List /\ Live' = Live /\ Own' = Own
      /\ \A k : Session!From(k)' = Session!From(k)
      /\ session' = session => Session!Held' = Session!Held
  BY <1>1, LinksKept
<1>3. ps \in Seq(Session!Policy)
  BY SessionConstants
<1>4. SessionTyped'
  <2>1. session' \in BOOLEAN
    BY <1>1 DEF SessionInv, SessionTyped, Session!TypeOK
  <2>2. heap' \subseteq {Session!Session} \cup (Session!Ids \X (Session!Parts \cup {"context"}))
    BY <1>1 DEF SessionInv, SessionTyped, Session!TypeOK, Session!Session, Session!Object
  <2>3. Session!TypeOK'
    BY <1>1, <2>1, <2>2 DEF SessionInv, SessionTyped, Session!TypeOK, Session!Session,
       Session!Object
  <2> QED
    BY <1>1, <1>3, <2>3 DEF SessionInv, SessionTyped
<1>5. SessionLinks'
  BY <1>1, <1>2 DEF SessionInv, SessionLinks
<1>6. SessionHolds'
  <2>1. CASE UNCHANGED <<heap, session>>
    BY <1>1, <1>2, <2>1 DEF SessionInv, SessionHolds, Outside
  <2>2. CASE heap' = heap \cup {<<0, "session">>} /\ session' = TRUE
    <3>1. heap \ (rejected \X Things) = {}
      BY <1>1 DEF SessionInv, SessionHolds, Outside, Session!Held, Things
    <3>2. Session!List = {} /\ stream_template = 0
      BY <1>1, NoneFromNil DEF SessionInv, SessionTyped, Session!List
    <3>3. Live' = {} /\ Own' = {}
      BY <1>2, <3>2 DEF Live, Own
    <3>4. Session!Held' = {<<0, "session">>}
      BY <2>2, <3>3, HeldIs
    <3>5. 0 \notin rejected
      BY DEF SessionInv, SessionLinks
    <3> QED
      BY <1>1, <2>2, <3>1, <3>4, <3>5 DEF SessionInv, SessionHolds, Outside,
         Things
  <2> QED
    BY <1>1, <2>1, <2>2
<1>7. SessionUses'
  BY <1>1 DEF SessionInv, SessionUses
<1>8. SessionLeft'
  <2>1. 0 \notin rejected
    BY DEF SessionInv, SessionLinks
  <2>2. \A k \in rejected : \A q \in Things : <<k, q>> \in heap' <=> <<k, q>> \in heap
    BY <1>1, <2>1
  <2> QED
    BY <1>1, <2>2, LeftKept DEF SessionInv
<1> QED
  BY <1>4, <1>5, <1>6, <1>7, <1>8 DEF SessionInv

\* A stream of a policy that is in order is entered.
LEMMA SessionEnters ==
    ASSUME PartsAssumption, SessionInv, session, allocated < MaxStreams,
           NEW p \in Session!Policy, ~ Session!Inconsistent(p), Session!Entered(p),
           rejected' = rejected, stripped' = stripped, used' = used, reported' = reported,
           todo' \in Seq(Session!Policy), session_status' = "ok"
    PROVE  SessionInv'
<1>1. PICK n : n = Session!New
  OBVIOUS
<1>2. /\ allocated \in Nat /\ MaxStreams \in Nat /\ Session!Ids = 1 .. MaxStreams
  BY HeapIs, SessionConstants DEF SessionInv
<1>3. n \in Session!Ids /\ n = allocated + 1
  BY <1>1, <1>2 DEF Session!New
<1>4. p.ssrc \in Ssrcs /\ p.type \in {"specific", "any_outbound", "any_inbound"}
      /\ (p.type # "specific" => stream_template = 0)
  BY DEF Session!Policy, Session!Inconsistent, Session!Nil
<1>5. PICK d \in {"unknown", "sender", "receiver"} : direction' = [direction EXCEPT ![n] = d]
  BY <1>1, <1>4 DEF Session!Entered
<1>6. /\ heap' = heap \cup ({n} \X Things) /\ allocated' = n
      /\ owner' = [owner EXCEPT ![n] = n] /\ ssrc' = [ssrc EXCEPT ![n] = p.ssrc]
      /\ UNCHANGED <<misused, session>>
  BY <1>1, AllocIs DEF Session!Entered
<1>7. SessionLinks' /\ Live' = Live \cup {n} /\ Own' = Own \cup {n}
      /\ stream_list' \in {stream_list, n} /\ stream_template' \in {stream_template, n}
      /\ (next' = next \/ next' = [next EXCEPT ![n] = stream_list])
  <2>1. CASE p.type = "specific"
    <3>1. /\ next' = [next EXCEPT ![n] = stream_list] /\ stream_list' = n
          /\ stream_template' = stream_template
      BY <1>1, <2>1 DEF Session!Entered
    <3>2. n # 0 /\ n \in {n, stream_template}
      BY <1>2, <1>3
    <3>3. SessionLinks' /\ Live' = Live \cup {n} /\ Own' = Own \cup {n}
      BY <1>1, <1>4, <1>6, <3>1, <3>2, LinksPushed
    <3> QED
      BY <3>1, <3>3
  <2>2. CASE p.type # "specific"
    <3>1. UNCHANGED <<next, stream_list>> /\ stream_template' = n /\ stream_template = 0
      BY <1>1, <1>4, <2>2 DEF Session!Entered
    <3>2. SessionLinks' /\ Live' = Live \cup {n} /\ Own' = Own \cup {n}
      BY <1>1, <1>4, <1>6, <3>1, LinksTemplate
    <3> QED
      BY <3>1, <3>2
  <2> QED
    BY <2>1, <2>2
<1>8. SessionHolds'
  <2>1. Outside'
    BY <1>1, <1>6, <1>7, HeapGrows
  <2> QED
    BY <1>6, <2>1 DEF SessionInv, SessionHolds
<1>9. SessionUses'
  <2>1. used[n] = {}
    BY <1>2, <1>3 DEF SessionInv, SessionUses
  <2> SUFFICES ASSUME NEW k \in Session!Ids
               PROVE  /\ k > n => used[k] = {}
                      /\ k \notin reported =>
                             /\ "protect" \in used[k] => direction'[k] = "sender"
                             /\ "unprotect" \in used[k] => direction'[k] = "receiver"
    BY <1>6 DEF SessionUses
  <2>2. CASE k = n
    BY <2>1, <2>2
  <2>3. CASE k # n
    <3>1. direction'[k] = direction[k]
      BY <1>5, <2>3 DEF SessionInv, SessionTyped, Session!TypeOK
    <3>2. k > n => k > allocated
      BY <1>2, <1>3
    <3> QED
      BY <3>1, <3>2 DEF SessionInv, SessionUses
  <2> QED
    BY <2>2, <2>3
<1>10. SessionTyped'
  <2>1. Session!TypeOK
    BY DEF SessionInv, SessionTyped
  <2>2. heap' \subseteq {Session!Session} \cup (Session!Ids \X (Session!Parts \cup {"context"}))
    BY <1>3, <1>6, <2>1 DEF Session!TypeOK, Things
  <2>3. {stream_list', stream_template'} \subseteq Session!Ids \cup {Session!Nil}
        /\ next' \in [Session!Ids -> Session!Ids \cup {Session!Nil}]
    <3>1. /\ {stream_list, stream_template} \subseteq Session!Ids \cup {Session!Nil}
          /\ next \in [Session!Ids -> Session!Ids \cup {Session!Nil}]
      BY <2>1 DEF Session!TypeOK
    <3>2. next' \in [Session!Ids -> Session!Ids \cup {Session!Nil}]
      BY <1>3, <1>7, <3>1
    <3> QED
      BY <1>3, <1>7, <3>1, <3>2
  <2>4. /\ owner' \in [Session!Ids -> Session!Ids] /\ ssrc' \in [Session!Ids -> Ssrcs]
        /\ direction' \in [Session!Ids -> {"unknown", "sender", "receiver"}]
    BY <1>3, <1>4, <1>5, <1>6, <2>1 DEF Session!TypeOK
  <2>5. allocated' \in 0 .. MaxStreams
    BY <1>2, <1>3, <1>6
  <2>6. Session!TypeOK'
    BY <1>6, <2>1, <2>2, <2>3, <2>4, <2>5 DEF Session!TypeOK, Session!Session,
       Session!Object,
       Session!Nil
  <2> QED
    BY <1>6, <2>6 DEF SessionTyped
<1>11. SessionLeft'
  <2>1. n \notin rejected
    BY <1>2, <1>3 DEF SessionInv, SessionLinks
  <2>2. \A k \in rejected : \A q \in Things : <<k, q>> \in heap' <=> <<k, q>> \in heap
    BY <1>6, <2>1
  <2> QED
    BY <2>2, LeftKept DEF SessionInv
<1> QED
  BY <1>7, <1>8, <1>9, <1>10, <1>11 DEF SessionInv

\* What a stream that is refused after its allocation adds to the heap: its parts, and
\* the context unless it was freed.
LEMMA RejectedIs ==
    ASSUME PartsAssumption, SessionInv, NEW p, NEW st
    PROVE  Session!Rejected(p, st) =
               heap \cup ({Session!New} \X (IF Session!ContextFreed(p, st) THEN Session!Parts
                                            ELSE Things))
<1>1. allocated \in Nat /\ heap \subseteq {<<0, "session">>} \cup ((1 .. allocated) \X Things)
  BY HeapIs DEF SessionInv
<1>2. PICK n : n = Session!New
  OBVIOUS
<1>3. n \in Nat /\ n # 0 /\ n \notin 1 .. allocated
  BY <1>1, <1>2 DEF Session!New
<1>4. Session!Context(n) = <<n, "context">>
  BY DEF Session!Context, Session!Object
<1>5. <<n, "context">> \notin heap /\ "context" \notin Session!Parts
  BY <1>1, <1>3 DEF Session!Parts
<1>6. (heap \cup ({n} \X Things)) \ {<<n, "context">>} = heap \cup ({n} \X Session!Parts)
  BY <1>5 DEF Things
<1>7. Session!Rejected(p, st) =
          (heap \cup ({n} \X Things))
              \ (IF Session!ContextFreed(p, st) THEN {<<n, "context">>} ELSE {})
  BY <1>2, <1>4, AllocIs DEF Session!Rejected
<1>8. CASE Session!ContextFreed(p, st)
  BY <1>2, <1>6, <1>7, <1>8
<1>9. CASE ~ Session!ContextFreed(p, st)
  BY <1>2, <1>7, <1>9
<1> QED
  BY <1>8, <1>9

\* The stream that is refused is remembered with exactly what it left, on a heap from
\* which, beside it, only objects of streams that were not refused have gone.
LEMMA LeftGrows ==
    ASSUME PartsAssumption, SessionInv, NEW p, NEW st, Session!Remembered(p, st),
           NEW gone, heap' = Session!Rejected(p, st) \ gone,
           \A k \in rejected \cup {Session!New} : \A q : <<k, q>> \notin gone
    PROVE  SessionLeft' /\ stripped' \subseteq rejected'
<1>1. PICK n : n = Session!New
  OBVIOUS
<1>2. /\ allocated \in Nat
      /\ heap \subseteq {<<0, "session">>} \cup ((1 .. allocated) \X Things)
      /\ rejected \subseteq 1 .. allocated /\ stripped \subseteq rejected
  BY HeapIs DEF SessionInv, SessionLinks, SessionTyped, Session!TypeOK
<1>3. n \notin 1 .. allocated /\ n # 0
  BY <1>1, <1>2 DEF Session!New
<1>4. n \notin rejected /\ n \notin stripped /\ \A q : <<n, q>> \notin heap
  BY <1>2, <1>3
<1> DEFINE some == IF Session!ContextFreed(p, st) THEN Session!Parts ELSE Things
<1>5. heap' = (heap \cup ({n} \X some)) \ gone
  BY <1>1, RejectedIs
<1>6. /\ rejected' = rejected \cup {n}
      /\ stripped' = IF Session!ContextFreed(p, st) THEN stripped \cup {n} ELSE stripped
  BY <1>1 DEF Session!Remembered
<1>7. "context" \notin Session!Parts /\ some \subseteq Things
  BY DEF Session!Parts, Things
<1>8. heap' \cap (rejected' \X Things)
          = (heap \cap (rejected \X Things)) \cup ({n} \X some)
  <2> HIDE DEF some
  <2>1. \A k \in rejected : \A q : <<k, q>> \in heap' <=> <<k, q>> \in heap
    BY <1>4, <1>5
  <2>2. \A q : <<n, q>> \in heap' <=> q \in some
    BY <1>1, <1>4, <1>5
  <2> QED
    BY <1>4, <1>6, <1>7, <2>1, <2>2
<1>9. Session!LeftBehind' = Session!LeftBehind \cup ({n} \X some)
  <2>1. CASE Session!ContextFreed(p, st)
    <3>1. rejected' \ stripped' = rejected \ stripped
      BY <1>4, <1>6, <2>1
    <3> QED
      BY <1>6, <2>1, <3>1 DEF Session!LeftBehind
  <2>2. CASE ~ Session!ContextFreed(p, st)
    <3>1. rejected' \ stripped' = (rejected \ stripped) \cup {n}
      BY <1>4, <1>6, <2>2
    <3> QED
      BY <1>6, <2>2, <3>1 DEF Session!LeftBehind, Things
  <2> QED
    BY <2>1, <2>2
<1>10. stripped' \subseteq rejected'
  BY <1>2, <1>6
<1> QED
  BY <1>8, <1>9, <1>10 DEF SessionInv, SessionLeft

\* A rejected stream is remembered as one, and the session goes on without it.
LEMMA SessionRejects ==
    ASSUME PartsAssumption, SessionInv, allocated < MaxStreams,
           NEW p, NEW st \in {"init_fail", "bad_param"}, heap' = Session!Rejected(p, st),
           allocated' = Session!New, Session!Remembered(p, st),
           UNCHANGED <<misused, session, stream_list, next, stream_template, owner, ssrc,
                       direction, todo, used, reported>>,
           session_status' = st
    PROVE  SessionInv'
<1>1. PICK n : n = Session!New
  OBVIOUS
<1>2. /\ allocated \in Nat /\ MaxStreams \in Nat /\ Session!Ids = 1 .. MaxStreams
      /\ Live \subseteq 1 .. allocated
      /\ heap \subseteq {<<0, "session">>} \cup ((1 .. allocated) \X Things)
  BY HeapIs, SessionConstants DEF SessionInv
<1>3. n \in Session!Ids /\ n = allocated + 1 /\ n \notin 1 .. allocated /\ n # 0
  BY <1>1, <1>2 DEF Session!New
<1>4. heap \subseteq heap' /\ heap' \subseteq heap \cup ({n} \X Things)
  BY <1>1, RejectedIs DEF Things
<1>5. /\ Session!List' = Session!List /\ Live' = Live
      /\ \A k : Session!From(k)' = Session!From(k) /\ Session!Held' = Session!Held
  BY LinksKept
<1>6. allocated' = n /\ rejected' = rejected \cup {n}
  BY <1>1 DEF Session!Remembered
<1>7. Session!TypeOK
  BY DEF SessionInv, SessionTyped
<1>8. SessionLeft' /\ stripped' \subseteq rejected'
  <2>1. PICK gone : gone = {}
    OBVIOUS
  <2>2. /\ heap' = Session!Rejected(p, st) \ gone
        /\ \A k \in rejected \cup {Session!New} : \A q : <<k, q>> \notin gone
    BY <2>1
  <2> QED
    BY <2>2, LeftGrows
<1>9. SessionTyped'
  <2>1. heap' \subseteq {Session!Session} \cup (Session!Ids \X (Session!Parts \cup {"context"}))
    BY <1>3, <1>4, <1>7 DEF Session!TypeOK, Things
  <2>2. allocated' \in 0 .. MaxStreams /\ rejected' \subseteq Session!Ids
    BY <1>2, <1>3, <1>6, <1>7 DEF Session!TypeOK
  <2>3. Session!TypeOK'
    BY <1>7, <1>8, <2>1, <2>2 DEF Session!TypeOK, Session!Session, Session!Object, Session!Nil
  <2> QED
    BY <2>3 DEF SessionInv, SessionTyped
<1>10. SessionLinks'
  <2>1. 1 .. allocated \subseteq 1 .. n /\ n \in 1 .. n /\ n \notin Live
    BY <1>2, <1>3
  <2>2. /\ stream_list \in Nat /\ stream_template \in Nat
        /\ \A k \in Session!Ids : next[k] \in Nat
    <3>1. /\ stream_list \in Session!Ids \cup {0} /\ stream_template \in Session!Ids \cup {0}
          /\ next \in [Session!Ids -> Session!Ids \cup {0}]
      BY <1>7 DEF Session!TypeOK, Session!Nil
    <3> QED
      BY <1>2, <3>1
  <2>3. /\ stream_list <= n /\ stream_template <= n
        /\ \A k \in Session!Ids : next[k] <= n
    BY <1>2, <1>3, <2>2 DEF SessionInv, SessionLinks
  <2>4. /\ Session!List \subseteq 1 .. n /\ rejected' \subseteq 1 .. n
        /\ rejected' \cap Live = {}
    BY <1>6, <2>1 DEF SessionInv, SessionLinks
  <2> QED
    BY <1>5, <1>6, <2>3, <2>4 DEF SessionInv, SessionLinks
<1>11. SessionHolds'
  <2>1. heap \ (rejected \X Things) = Session!Held
    BY DEF SessionInv, SessionHolds, Outside, Things
  <2>2. \A q : <<n, q>> \notin heap
    BY <1>2, <1>3
  <2>3. heap' \ (rejected' \X Things) = heap \ (rejected \X Things)
    BY <1>4, <1>6, <2>2
  <2> QED
    BY <1>5, <2>1, <2>3 DEF SessionInv, SessionHolds, Outside, Things
<1>12. SessionUses'
  <2> SUFFICES ASSUME NEW k \in Session!Ids
               PROVE  /\ k > n => used[k] = {}
                      /\ k \notin reported =>
                             /\ "protect" \in used[k] => direction[k] = "sender"
                             /\ "unprotect" \in used[k] => direction[k] = "receiver"
    BY <1>6 DEF SessionUses
  <2>1. k > n => k > allocated
    BY <1>2, <1>3
  <2> QED
    BY <2>1 DEF SessionInv, SessionUses
<1> QED
  BY <1>9, <1>10, <1>11, <1>12, <1>8 DEF SessionInv

\* A session that is given back, by its owner or by a creation that fails, leaves
\* nothing but what refused streams left.
LEMMA SessionFrees ==
    ASSUME PartsAssumption, SessionInv, session, NEW h, NEW n, Session!srtp_dealloc(h, n),
           \/ h = heap /\ n = allocated /\ UNCHANGED <<rejected, stripped>>
           \/ /\ allocated < MaxStreams /\ n = Session!New
              /\ \E p, st : h = Session!Rejected(p, st) /\ Session!Remembered(p, st),
           todo' = <<>>, session_status' \in {"ok", "alloc_fail", "init_fail", "bad_param", "no_ctx"},
           UNCHANGED <<used, reported>>
    PROVE  SessionInv'
<1>1. \/ h = heap /\ n = allocated /\ rejected' = rejected
      \/ /\ allocated < MaxStreams /\ n = Session!New /\ rejected' = rejected \cup {n}
         /\ heap \subseteq h /\ h \subseteq heap \cup ({n} \X Things)
  BY RejectedIs DEF Session!Remembered, Things
<1>2. heap \subseteq h
  BY <1>1
<1>3. /\ allocated \in Nat /\ MaxStreams \in Nat /\ Session!Ids = 1 .. MaxStreams
      /\ heap \subseteq {<<0, "session">>} \cup ((1 .. allocated) \X Things)
      /\ allocated <= MaxStreams
  BY HeapIs, SessionConstants DEF SessionInv
<1>4. /\ heap' = h \ Session!Held /\ misused' = FALSE /\ session' = FALSE
      /\ stream_list' = 0 /\ stream_template' = 0 /\ allocated' = n
      /\ UNCHANGED <<next, owner, ssrc, direction>>
  BY <1>2, Deallocates
<1>5. n \in Nat /\ n >= allocated /\ n <= MaxStreams
      /\ (n # allocated => n = allocated + 1 /\ n \in Session!Ids)
  BY <1>3, <1>1 DEF Session!New
<1>6. Session!List' = {} /\ Live' = {} /\ Session!Held' = {}
  <2>1. Session!List' = Session!From(0)'
    BY <1>4 DEF Session!List, Session!From, Session!Linked
  <2>2. Session!List' = {}
    BY <2>1, NoneFromNil
  <2> QED
    BY <1>4, <2>2 DEF Live, Session!Held
<1>7. Session!TypeOK
  BY DEF SessionInv, SessionTyped
<1>8. rejected \subseteq 1 .. allocated /\ rejected \subseteq Session!Ids
  BY <1>7 DEF SessionInv, SessionLinks, Session!TypeOK
<1>9. SessionLeft' /\ stripped' \subseteq rejected'
  <2>1. \A k \in rejected \cup {Session!New} : \A q : <<k, q>> \notin Session!Held
    <3>1. Session!Held = {<<0, "session">>} \cup (Live \X {"context"}) \cup (Own \X Session!Parts)
      BY HeldIs DEF SessionInv, SessionLinks
    <3>2. Own \subseteq Live /\ Live \subseteq 1 .. allocated /\ rejected \cap Live = {}
      BY HeapIs DEF Own, SessionInv, SessionLinks
    <3>3. Session!New \notin 1 .. allocated /\ Session!New # 0 /\ 0 \notin rejected
      BY <1>3, <1>8 DEF Session!New
    <3> QED
      BY <3>1, <3>2, <3>3
  <2>2. CASE h = heap /\ UNCHANGED <<rejected, stripped>>
    <3>1. \A k \in rejected : \A q \in Things : <<k, q>> \in heap' <=> <<k, q>> \in heap
      BY <1>4, <2>1, <2>2
    <3>2. SessionLeft'
      BY <2>2, <3>1, LeftKept DEF SessionInv
    <3> QED
      BY <1>7, <2>2, <3>2 DEF Session!TypeOK
  <2>3. ASSUME NEW p, NEW st, h = Session!Rejected(p, st), Session!Remembered(p, st)
        PROVE  SessionLeft' /\ stripped' \subseteq rejected'
    <3>1. heap' = Session!Rejected(p, st) \ Session!Held
      BY <1>4, <2>3
    <3> QED
      BY <2>1, <2>3, <3>1, LeftGrows
  <2> QED
    BY <2>2, <2>3
<1>10. SessionTyped'
  <2>1. heap' \subseteq {Session!Session} \cup (Session!Ids \X (Session!Parts \cup {"context"}))
    <3>1. heap \subseteq {Session!Session} \cup (Session!Ids \X (Session!Parts \cup {"context"}))
      BY <1>7 DEF Session!TypeOK
    <3>2. CASE h = heap
      BY <1>4, <3>1, <3>2
    <3>3. CASE n = allocated + 1 /\ n \in Session!Ids /\ h \subseteq heap \cup ({n} \X Things)
      BY <1>4, <3>1, <3>3 DEF Things
    <3> QED
      BY <1>3, <1>5, <1>1, <3>2, <3>3 DEF Session!New
  <2>2. allocated' \in 0 .. MaxStreams /\ rejected' \subseteq Session!Ids
    <3>1. allocated' \in 0 .. MaxStreams
      BY <1>3, <1>4, <1>5
    <3>2. n = Session!New => n # allocated
      BY <1>3 DEF Session!New
    <3> QED
      BY <1>5, <1>8, <1>1, <3>1, <3>2
  <2>3. Session!TypeOK'
    BY <1>4, <1>7, <1>9, <2>1, <2>2 DEF Session!TypeOK, Session!Session, Session!Object,
       Session!Nil
  <2>4. todo' \in Seq(Session!Policy)
    OBVIOUS
  <2> QED
    BY <1>4, <2>3, <2>4 DEF SessionTyped
<1>11. SessionLinks'
  <2>1. \A k \in Session!Ids : next[k] \in Nat
    BY <1>3, <1>7 DEF Session!TypeOK, Session!Nil
  <2>2. \A k \in Session!Ids : next[k] <= n
    BY <1>3, <1>5, <2>1 DEF SessionInv, SessionLinks
  <2>3. rejected' \subseteq 1 .. n
    <3>1. 1 .. allocated \subseteq 1 .. n
      BY <1>3, <1>5
    <3>2. n = Session!New => n \in 1 .. n
      BY <1>3 DEF Session!New
    <3> QED
      BY <1>8, <1>1, <3>1, <3>2
  <2>4. 0 <= n
    BY <1>5
  <2> QED
    BY <1>4, <1>6, <2>2, <2>3, <2>4 DEF SessionLinks
<1>12. SessionHolds'
  <2>1. heap \ (rejected \X Things) = Session!Held
    BY DEF SessionInv, SessionHolds, Outside, Things
  <2>2. heap' \ (rejected' \X Things) = {}
    BY <1>4, <1>1, <2>1
  <2> QED
    BY <1>4, <1>6, <2>2 DEF SessionHolds, Outside, Things
<1>13. SessionUses'
  <2> SUFFICES ASSUME NEW k \in Session!Ids
               PROVE  /\ k > n => used[k] = {}
                      /\ k \notin reported =>
                             /\ "protect" \in used[k] => direction[k] = "sender"
                             /\ "unprotect" \in used[k] => direction[k] = "receiver"
    BY <1>4 DEF SessionUses
  <2>1. k > n => k > allocated
    BY <1>3, <1>5
  <2> QED
    BY <2>1 DEF SessionInv, SessionUses
<1> QED
  BY <1>10, <1>11, <1>12, <1>13, <1>9 DEF SessionInv

\* A policy that is added to a session.
LEMMA SessionAdds ==
    ASSUME PartsAssumption, SessionInv, NEW p \in Session!Policy, Session!srtp_add_stream(p)
    PROVE  SessionInv'
<1>1. /\ session /\ todo = <<>> /\ allocated < MaxStreams /\ UNCHANGED <<todo, used, reported>>
  BY DEF Session!srtp_add_stream, Session!history
<1>2. todo' \in Seq(Session!Policy)
  BY <1>1
<1>3. CASE /\ heap' \in Session!srtp_stream_alloc_fails(Session!New)
           /\ session_status' = "alloc_fail"
           /\ UNCHANGED <<Session!streams, misused, session, Session!refusals>>
  <2>1. /\ heap' = heap
        /\ UNCHANGED <<stream_list, next, stream_template, owner, ssrc, direction, allocated>>
        /\ UNCHANGED <<misused, session, rejected, stripped>>
    BY <1>3, AllocIs DEF Session!streams, Session!refusals
  <2>2. /\ Session!List' = Session!List /\ Live' = Live
        /\ \A k : Session!From(k)' = Session!From(k) /\ Session!Held' = Session!Held
    BY <2>1, LinksKept
  <2>3. SessionTyped'
    BY <1>1, <1>3, <2>1 DEF SessionInv, SessionTyped, Session!TypeOK, Session!Session,
       Session!Object, Session!Nil
  <2>4. SessionLinks'
    BY <2>1, <2>2 DEF SessionInv, SessionLinks
  <2>5. SessionHolds' /\ SessionUses'
    BY <1>1, <2>1, <2>2 DEF SessionInv, SessionHolds, Outside, SessionUses
  <2>6. SessionLeft'
    BY <2>1, LeftKept DEF SessionInv
  <2> QED
    BY <2>3, <2>4, <2>5, <2>6 DEF SessionInv
<1>4. ASSUME NEW st \in {"init_fail", "bad_param"},
             heap' = Session!Rejected(p, st), session_status' = st,
             allocated' = Session!New, Session!Remembered(p, st),
             UNCHANGED <<misused, session, stream_list, next, stream_template, owner, ssrc,
                         direction>>
      PROVE  SessionInv'
  BY <1>1, <1>4, SessionRejects
<1>5. CASE /\ ~ Session!Inconsistent(p) /\ Session!Entered(p) /\ session_status' = "ok"
           /\ UNCHANGED Session!refusals
  BY <1>1, <1>2, <1>5, SessionEnters DEF Session!refusals
<1> QED
  BY <1>3, <1>4, <1>5 DEF Session!srtp_add_stream

\* A policy that srtp_create comes to.
LEMMA SessionCreating ==
    ASSUME PartsAssumption, SessionInv, Session!CreateAdds
    PROVE  SessionInv'
<1>1. /\ todo # <<>> /\ allocated < MaxStreams /\ UNCHANGED <<used, reported>>
  BY DEF Session!CreateAdds, Session!history
<1>2. session /\ todo \in Seq(Session!Policy)
  BY <1>1 DEF SessionInv, SessionTyped
<1>3. Head(todo) \in Session!Policy /\ Tail(todo) \in Seq(Session!Policy)
  BY <1>1, <1>2
<1>4. CASE /\ \E h \in Session!srtp_stream_alloc_fails(Session!New) :
                  Session!srtp_dealloc(h, allocated)
           /\ todo' = <<>> /\ session_status' = "alloc_fail" /\ UNCHANGED Session!refusals
  <2>1. Session!srtp_dealloc(heap, allocated) /\ UNCHANGED <<rejected, stripped>>
    BY <1>4, AllocIs DEF Session!refusals
  <2> QED
    BY <1>1, <1>2, <1>4, <2>1, SessionFrees
<1>5. ASSUME NEW st \in {"init_fail", "bad_param"},
             Session!srtp_dealloc(Session!Rejected(Head(todo), st), Session!New),
             todo' = <<>>, session_status' = st, Session!Remembered(Head(todo), st)
      PROVE  SessionInv'
  <2> DEFINE h == Session!Rejected(Head(todo), st)
             n == Session!New
  <2>1. \E p, s : h = Session!Rejected(p, s) /\ Session!Remembered(p, s)
    BY <1>5
  <2>2. Session!srtp_dealloc(h, n)
    BY <1>5
  <2>3. n = Session!New
    OBVIOUS
  <2> HIDE DEF h, n
  <2> QED
    BY <1>1, <1>2, <1>5, <2>1, <2>2, <2>3, SessionFrees
<1>6. CASE /\ ~ Session!Inconsistent(Head(todo)) /\ Session!Entered(Head(todo))
           /\ todo' = Tail(todo) /\ session_status' = "ok" /\ UNCHANGED Session!refusals
  BY <1>1, <1>2, <1>3, <1>6, SessionEnters DEF Session!refusals
<1> QED
  BY <1>4, <1>5, <1>6 DEF Session!CreateAdds

\* The stream that is found for an SSRC is one of the list.
LEMMA StreamFound ==
    ASSUME SessionInv, NEW v \in Ssrcs, Session!srtp_get_stream(v) # 0
    PROVE  Session!srtp_get_stream(v) \in Session!List
<1> DEFINE found == {k \in Session!List : ssrc[k] = v}
<1>1. found # {}
  BY DEF Session!srtp_get_stream, Session!Nil
<1>2. PICK f \in found : found \subseteq Session!From(f)
  BY <1>1 DEF SessionInv, SessionLinks
<1>3. Session!srtp_get_stream(v) = CHOOSE k \in found : found \subseteq Session!From(k)
  BY <1>1 DEF Session!srtp_get_stream
<1> HIDE DEF found
<1>4. Session!srtp_get_stream(v) \in found
  BY <1>2, <1>3
<1> QED
  BY <1>4 DEF found

\* No walk down the list reads a stream that was freed.
LEMMA WalkIsGood ==
    ASSUME PartsAssumption, SessionInv, session, Session!Read
    PROVE  misused' = FALSE /\ UNCHANGED <<todo, rejected, stripped>>
<1>1. ~ Session!WalkIsBad
  <2>1. SUFFICES ASSUME NEW k \in Session!List PROVE <<k, "context">> \in heap
    BY DEF Session!WalkIsBad, Session!Context, Session!Object
  <2>2. k \in 1 .. allocated /\ k \in Live /\ k \notin rejected
    BY DEF SessionInv, SessionLinks, Live
  <2> QED
    BY <2>2, HeapIs DEF SessionInv
<1>2. misused = FALSE
  BY DEF SessionInv, SessionHolds
<1>3. misused' = (misused \/ Session!WalkIsBad) /\ UNCHANGED <<todo, rejected, stripped>>
  BY DEF Session!Read, Session!refusals
<1>4. misused' = FALSE
  BY <1>1, <1>2, <1>3
<1> QED
  BY <1>3, <1>4

\* A packet of a stream of the list sets its direction or is reported.
LEMMA SessionPasses ==
    ASSUME PartsAssumption, SessionInv, session, NEW v \in Ssrcs,
           NEW fn, NEW d, <<fn, d>> \in {<<"protect", "sender">>, <<"unprotect", "receiver">>},
           Session!Read, Session!Through(v, fn, d), session_status' = "ok"
    PROVE  SessionInv'
<1>1. misused' = FALSE /\ UNCHANGED <<todo, rejected, stripped>>
  BY WalkIsGood
<1>2. PICK s : s = Session!srtp_get_stream(v)
  OBVIOUS
<1>3. /\ s # 0 /\ UNCHANGED <<heap, session, stream_list, next, stream_template, owner, ssrc, allocated>>
      /\ direction' = IF direction[s] = "unknown" THEN [direction EXCEPT ![s] = d] ELSE direction
      /\ reported' = IF direction[s] \in {"unknown", d} THEN reported ELSE reported \cup {s}
      /\ used' = [used EXCEPT ![s] = used[s] \cup {fn}]
  BY <1>2 DEF Session!Through, Session!Nil
<1>4. s \in Session!List
  BY <1>2, <1>3, StreamFound
<1>5. /\ allocated \in Nat /\ MaxStreams \in Nat /\ Session!Ids = 1 .. MaxStreams
      /\ allocated <= MaxStreams
  BY HeapIs, SessionConstants DEF SessionInv
<1>6. s \in 1 .. allocated /\ s \in Session!Ids
  BY <1>4, <1>5 DEF SessionInv, SessionLinks
<1>7. Session!TypeOK
  BY DEF SessionInv, SessionTyped
<1>8. /\ fn \in {"protect", "unprotect"} /\ d \in {"unknown", "sender", "receiver"}
      /\ \/ fn = "protect" /\ d = "sender"
         \/ fn = "unprotect" /\ d = "receiver"
  OBVIOUS
<1>9. /\ Session!List' = Session!List /\ Live' = Live
      /\ \A k : Session!From(k)' = Session!From(k) /\ Session!Held' = Session!Held
  BY <1>3, LinksKept
<1>10. SessionTyped'
  <2>1. direction' \in [Session!Ids -> {"unknown", "sender", "receiver"}]
    BY <1>3, <1>6, <1>7, <1>8 DEF Session!TypeOK
  <2>2. reported' \subseteq Session!Ids
    BY <1>3, <1>6, <1>7 DEF Session!TypeOK
  <2>3. used' \in [Session!Ids -> SUBSET {"protect", "unprotect"}]
    BY <1>3, <1>6, <1>7, <1>8 DEF Session!TypeOK
  <2>4. Session!TypeOK'
    BY <1>1, <1>3, <1>7, <2>1, <2>2, <2>3 DEF Session!TypeOK, Session!Session,
       Session!Object,
       Session!Nil
  <2> QED
    BY <1>1, <1>3, <2>4 DEF SessionInv, SessionTyped
<1>11. SessionLinks'
  BY <1>1, <1>3, <1>9 DEF SessionInv, SessionLinks
<1>12. SessionHolds'
  BY <1>1, <1>3, <1>9 DEF SessionInv, SessionHolds, Outside
<1>13. SessionUses'
  <2> SUFFICES ASSUME NEW k \in Session!Ids
               PROVE  /\ k > allocated => used'[k] = {}
                      /\ k \notin reported' =>
                             /\ "protect" \in used'[k] => direction'[k] = "sender"
                             /\ "unprotect" \in used'[k] => direction'[k] = "receiver"
    BY <1>3 DEF SessionUses
  <2>1. /\ k > allocated => used[k] = {}
        /\ k \notin reported => /\ "protect" \in used[k] => direction[k] = "sender"
                                /\ "unprotect" \in used[k] => direction[k] = "receiver"
    BY DEF SessionInv, SessionUses
  <2>2. /\ used \in [Session!Ids -> SUBSET {"protect", "unprotect"}]
        /\ direction \in [Session!Ids -> {"unknown", "sender", "receiver"}]
    BY <1>7 DEF Session!TypeOK
  <2>3. k \notin reported' => k \notin reported
    BY <1>3
  <2>4. CASE k # s
    <3>1. used'[k] = used[k] /\ direction'[k] = direction[k]
      BY <1>3, <2>2, <2>4
    <3> QED
      BY <2>1, <2>3, <3>1
  <2>5. CASE k = s
    <3>1. used'[k] = used[k] \cup {fn} /\ ~ k > allocated
      BY <1>3, <1>5, <1>6, <2>2, <2>5
    <3>2. ASSUME k \notin reported' PROVE direction'[k] = d /\ direction[k] \in {"unknown", d}
      BY <1>3, <1>6, <2>2, <2>5, <3>2
    <3>3. ASSUME k \notin reported'
          PROVE  /\ "protect" \in used'[k] => direction'[k] = "sender"
                 /\ "unprotect" \in used'[k] => direction'[k] = "receiver"
      BY <1>8, <2>1, <2>3, <3>1, <3>2, <3>3
    <3> QED
      BY <3>1, <3>3
  <2> QED
    BY <2>4, <2>5
<1>14. SessionLeft'
  BY <1>1, <1>3, LeftKept DEF SessionInv
<1> QED
  BY <1>10, <1>11, <1>12, <1>13, <1>14 DEF SessionInv

\* A packet of a new SSRC makes a clone of the template.
LEMMA SessionClones ==
    ASSUME PartsAssumption, SessionInv, session, NEW v \in Ssrcs, stream_template # 0,
           NEW d \in {"unknown", "sender", "receiver"}, Session!Read, Session!Cloned(v, d),
           \/ /\ d = "sender" /\ used' = [used EXCEPT ![Session!New] = {"protect"}]
              /\ reported' = reported
           \/ /\ used' = [used EXCEPT ![Session!New] = {"unprotect"}]
              /\ reported' = IF d = "receiver" THEN reported
                             ELSE reported \cup {Session!New},
           session_status' = "ok"
    PROVE  SessionInv'
<1>1. misused' = FALSE /\ UNCHANGED <<todo, rejected, stripped>>
  BY WalkIsGood
<1>2. PICK n : n = Session!New
  OBVIOUS
<1>3. owner[stream_template] = stream_template
  BY DEF SessionInv, SessionLinks, Live
<1>4. /\ allocated < MaxStreams /\ heap' = heap \cup {<<n, "context">>} /\ allocated' = n
      /\ owner' = [owner EXCEPT ![n] = stream_template] /\ ssrc' = [ssrc EXCEPT ![n] = v]
      /\ next' = [next EXCEPT ![n] = stream_list] /\ stream_list' = n
      /\ direction' = [direction EXCEPT ![n] = d] /\ UNCHANGED <<stream_template, session>>
  BY <1>2, <1>3 DEF Session!Cloned, Session!Context, Session!Object
<1>5. /\ allocated \in Nat /\ MaxStreams \in Nat /\ Session!Ids = 1 .. MaxStreams
  BY HeapIs, SessionConstants DEF SessionInv
<1>6. n \in Session!Ids /\ n = allocated + 1
  BY <1>2, <1>4, <1>5 DEF Session!New
<1>7. Session!TypeOK
  BY DEF SessionInv, SessionTyped
<1>8. /\ stream_template \in Session!Ids /\ stream_template <= allocated
      /\ stream_list \in Session!Ids \cup {0}
  BY <1>7 DEF SessionInv, SessionLinks, Session!TypeOK, Session!Nil
<1>9. stream_template # n
  BY <1>5, <1>6, <1>8
<1>10. PICK t : t = stream_template
  OBVIOUS
<1>11. SessionLinks' /\ Live' = Live \cup {n} /\ Own' = Own
  <2>1. t \in {n, stream_template} /\ t # 0 /\ t # n /\ owner' = [owner EXCEPT ![n] = t]
    BY <1>4, <1>9, <1>10
  <2> QED
    BY <1>1, <1>2, <1>4, <2>1, LinksPushed
<1>12. SessionHolds'
  <2>1. Outside'
    BY <1>1, <1>2, <1>4, <1>11, HeapGrows
  <2> QED
    BY <1>1, <2>1 DEF SessionHolds
<1>13. PICK fn \in {"protect", "unprotect"} :
           /\ used' = [used EXCEPT ![n] = {fn}]
           /\ fn = "protect" => d = "sender" /\ reported' = reported
           /\ fn = "unprotect" =>
                  reported' = IF d = "receiver" THEN reported ELSE reported \cup {n}
  BY <1>2
<1>14. reported \subseteq reported' /\ reported' \subseteq reported \cup {n}
  BY <1>13
<1>15. SessionTyped'
  <2>1. /\ direction' \in [Session!Ids -> {"unknown", "sender", "receiver"}]
        /\ owner' \in [Session!Ids -> Session!Ids] /\ ssrc' \in [Session!Ids -> Ssrcs]
    BY <1>4, <1>6, <1>7, <1>8 DEF Session!TypeOK
  <2>2. next' \in [Session!Ids -> Session!Ids \cup {Session!Nil}]
    BY <1>4, <1>6, <1>7, <1>8 DEF Session!TypeOK, Session!Nil
  <2>3. used' \in [Session!Ids -> SUBSET {"protect", "unprotect"}] /\ reported' \subseteq Session!Ids
    BY <1>6, <1>7, <1>13, <1>14 DEF Session!TypeOK
  <2>4. heap' \subseteq {Session!Session} \cup (Session!Ids \X (Session!Parts \cup {"context"}))
    BY <1>4, <1>6, <1>7 DEF Session!TypeOK
  <2>5. allocated' \in 0 .. MaxStreams
    BY <1>4, <1>5, <1>6
  <2>6. {stream_list', stream_template'} \subseteq Session!Ids \cup {Session!Nil}
    BY <1>4, <1>6, <1>8
  <2>7. Session!TypeOK'
    BY <1>1, <1>4, <1>7, <2>1, <2>2, <2>3, <2>4, <2>5, <2>6 DEF Session!TypeOK,
       Session!Session,
       Session!Object, Session!Nil
  <2> QED
    BY <1>1, <1>4, <2>7 DEF SessionInv, SessionTyped
<1>16. SessionUses'
  <2> SUFFICES ASSUME NEW k \in Session!Ids
               PROVE  /\ k > n => used'[k] = {}
                      /\ k \notin reported' =>
                             /\ "protect" \in used'[k] => direction'[k] = "sender"
                             /\ "unprotect" \in used'[k] => direction'[k] = "receiver"
    BY <1>4 DEF SessionUses
  <2>1. /\ used \in [Session!Ids -> SUBSET {"protect", "unprotect"}]
        /\ direction \in [Session!Ids -> {"unknown", "sender", "receiver"}]
    BY <1>7 DEF Session!TypeOK
  <2>2. CASE k = n
    <3>1. used'[k] = {fn} /\ direction'[k] = d /\ ~ k > n
      BY <1>4, <1>5, <1>6, <1>13, <2>1, <2>2
    <3>2. fn = "unprotect" /\ k \notin reported' => d = "receiver"
      BY <1>13, <2>2
    <3> QED
      BY <1>13, <3>1, <3>2
  <2>3. CASE k # n
    <3>1. used'[k] = used[k] /\ direction'[k] = direction[k] /\ (k > n => k > allocated)
      BY <1>4, <1>5, <1>6, <1>13, <2>1, <2>3
    <3> QED
      BY <1>14, <3>1 DEF SessionInv, SessionUses
  <2> QED
    BY <2>2, <2>3
<1>17. SessionLeft'
  <2>1. n \notin rejected
    BY <1>5, <1>6 DEF SessionInv, SessionLinks
  <2>2. \A k \in rejected : \A q \in Things : <<k, q>> \in heap' <=> <<k, q>> \in heap
    BY <1>4, <2>1
  <2> QED
    BY <1>1, <2>2, LeftKept DEF SessionInv
<1> QED
  BY <1>11, <1>12, <1>15, <1>16, <1>17 DEF SessionInv

\* A packet that cannot be served changes nothing but the status.
LEMMA SessionRefuses ==
    ASSUME PartsAssumption, SessionInv, session, Session!Read,
           UNCHANGED <<heap, session, Session!streams, Session!history>>,
           session_status' \in {"alloc_fail", "no_ctx"}
    PROVE  SessionInv'
<1>1. misused' = FALSE /\ UNCHANGED <<todo, rejected, stripped>>
  BY WalkIsGood
<1>2. /\ UNCHANGED <<stream_list, next, stream_template, owner, ssrc, direction, allocated>>
      /\ UNCHANGED <<heap, session, used, reported>>
  BY DEF Session!streams, Session!history
<1>3. /\ Session!List' = Session!List /\ Live' = Live
      /\ \A k : Session!From(k)' = Session!From(k) /\ Session!Held' = Session!Held
  BY <1>2, LinksKept
<1>4. SessionTyped'
  <2>1. Session!TypeOK
    BY DEF SessionInv, SessionTyped
  <2>2. misused' \in BOOLEAN
    BY <1>1
  <2>3. Session!TypeOK'
    BY <1>1, <1>2, <2>1, <2>2 DEF Session!TypeOK, Session!Session, Session!Object,
       Session!Nil
  <2> QED
    BY <1>1, <1>2, <2>3 DEF SessionInv, SessionTyped
<1>5. SessionLinks'
  BY <1>1, <1>2, <1>3 DEF SessionInv, SessionLinks
<1>6. SessionHolds' /\ SessionUses'
  BY <1>1, <1>2, <1>3 DEF SessionInv, SessionHolds, Outside, SessionUses
<1>7. SessionLeft'
  BY <1>1, <1>2, LeftKept DEF SessionInv
<1> QED
  BY <1>4, <1>5, <1>6, <1>7 DEF SessionInv

\* A packet that is sent or received keeps the invariant.
LEMMA SessionServes ==
    ASSUME PartsAssumption, SessionInv, NEW v \in Ssrcs,
           Session!srtp_protect(v) \/ Session!srtp_unprotect(v)
    PROVE  SessionInv'
<1>1. session /\ Session!Read
  BY DEF Session!srtp_protect, Session!srtp_unprotect
<1>2. CASE Session!srtp_protect(v)
  <2>1. CASE Session!Through(v, "protect", "sender") /\ session_status' = "ok"
    BY <1>1, <2>1, SessionPasses
  <2>2. CASE /\ stream_template # 0 /\ Session!Cloned(v, "sender") /\ session_status' = "ok"
             /\ used' = [used EXCEPT ![Session!New] = {"protect"}] /\ UNCHANGED reported
    BY <1>1, <2>2, SessionClones
  <2>3. CASE /\ session_status' \in {"alloc_fail", "no_ctx"}
             /\ UNCHANGED <<heap, session, Session!streams, Session!history>>
    BY <1>1, <2>3, SessionRefuses
  <2> QED
    BY <1>2, <2>1, <2>2, <2>3 DEF Session!srtp_protect, Session!Nil
<1>3. CASE Session!srtp_unprotect(v)
  <2>1. CASE Session!Through(v, "unprotect", "receiver") /\ session_status' = "ok"
    BY <1>1, <2>1, SessionPasses
  <2>2. CASE /\ stream_template # 0 /\ session_status' = "ok"
             /\ Session!Cloned(v, direction[stream_template])
             /\ used' = [used EXCEPT ![Session!New] = {"unprotect"}]
             /\ reported' = IF direction[stream_template] = "receiver" THEN reported
                            ELSE reported \cup {Session!New}
    <3>1. direction[stream_template] \in {"unknown", "sender", "receiver"}
      BY <2>2 DEF SessionInv, SessionTyped, Session!TypeOK, Session!Nil
    <3> QED
      BY <1>1, <2>2, <3>1, SessionClones
  <2>3. CASE /\ session_status' \in {"alloc_fail", "no_ctx"}
             /\ UNCHANGED <<heap, session, Session!streams, Session!history>>
    BY <1>1, <2>3, SessionRefuses
  <2> QED
    BY <1>3, <2>1, <2>2, <2>3 DEF Session!srtp_unprotect, Session!Nil
<1> QED
  BY <1>2, <1>3

\* Every call keeps the invariant.
LEMMA SessionStep == PartsAssumption /\ SessionInv /\ [Session!Next]_(Session!vars) => SessionInv'
<1> SUFFICES ASSUME PartsAssumption, SessionInv, [Session!Next]_(Session!vars) PROVE SessionInv'
  OBVIOUS
<1>1. CASE UNCHANGED Session!vars
  <2>1. /\ UNCHANGED <<stream_list, next, stream_template, owner, ssrc, direction, allocated>>
        /\ UNCHANGED <<heap, misused, session, todo, session_status, used, reported>>
        /\ UNCHANGED <<rejected, stripped>>
    BY <1>1 DEF Session!vars, Session!memory, Session!streams, Session!history,
       Session!refusals
  <2>2. /\ Session!List' = Session!List /\ Live' = Live
        /\ \A k : Session!From(k)' = Session!From(k) /\ Session!Held' = Session!Held
    BY <2>1, LinksKept
  <2>3. SessionTyped'
    BY <2>1 DEF SessionInv, SessionTyped, Session!TypeOK, Session!Session, Session!Object,
       Session!Nil
  <2>4. SessionLinks'
    BY <2>1, <2>2 DEF SessionInv, SessionLinks
  <2>5. SessionHolds' /\ SessionUses'
    BY <2>1, <2>2 DEF SessionInv, SessionHolds, Outside, SessionUses
  <2>6. SessionLeft'
    BY <2>1, LeftKept DEF SessionInv
  <2> QED
    BY <2>3, <2>4, <2>5, <2>6 DEF SessionInv
<1>2. Session!Policies \subseteq Session!Policy
  <2>1. SUFFICES ASSUME NEW ps \in PolicyLists, NEW n \in DOMAIN ps PROVE ps[n] \in Session!Policy
    BY DEF Session!Policies
  <2>2. ps \in Seq(Session!Policy)
    BY SessionConstants
  <2> QED
    BY <2>2
<1>3. CASE Session!Dealloc
  <2>1. /\ session /\ Session!srtp_dealloc(heap, allocated) /\ session_status' = "ok"
        /\ todo' = <<>> /\ UNCHANGED <<used, reported, rejected, stripped>>
    BY <1>3 DEF Session!Dealloc, Session!history, Session!refusals
  <2> QED
    BY <2>1, SessionFrees
<1> QED
  BY <1>1, <1>2, <1>3, SessionCreates, SessionCreating, SessionAdds, SessionServes
     DEF Session!Next

\* The invariant gives what is promised of the session.
LEMMA SessionPromised ==
    SessionInv => /\ Session!TypeOK /\ Session!HeapIsHeld /\ Session!MemorySafe
                  /\ Session!CollisionReported
<1> SUFFICES ASSUME SessionInv
             PROVE  Session!HeapIsHeld /\ Session!MemorySafe /\ Session!CollisionReported
  BY DEF SessionInv, SessionTyped
<1>1. Session!HeapIsHeld
  <2>1. heap = (heap \ (rejected \X Things)) \cup (heap \cap (rejected \X Things))
    OBVIOUS
  <2>2. heap \ (rejected \X Things) = Session!Held
    BY DEF SessionInv, SessionHolds, Outside, Things
  <2>3. heap \cap (rejected \X Things) = Session!LeftBehind
    BY DEF SessionInv, SessionLeft
  <2> QED
    BY <2>1, <2>2, <2>3 DEF Session!HeapIsHeld
<1>2. Session!MemorySafe
  BY DEF SessionInv, SessionHolds, Session!MemorySafe
<1>3. Session!CollisionReported
  BY DEF SessionInv, SessionUses, Session!CollisionReported
<1> QED
  BY <1>2, <1>3, <1>1

\* Through allocations, clones and creations that fail half way the memory is exactly
\* what the session holds, and the objects that streams refused after their allocation
\* leave behind for good; none is freed twice or read after it was freed.
THEOREM SessionMemoryHolds == PartSpec => []SessionMemory
<1> DEFINE Inv == part = "session" => SessionInv
<1>1. PartInit => Inv
  BY SessionInit, PartsAssumption DEF PartInit
<1>2. Inv /\ [PartNext]_partVars => Inv'
  <2> SUFFICES ASSUME Inv, [PartNext]_partVars, part' = "session" PROVE SessionInv'
    OBVIOUS
  <2>1. part = "session"
    BY DEF PartNext, partVars
  <2>2. [Session!Next]_(Session!vars)
    BY <2>1 DEF PartNext, partVars, sessionVars, Session!vars, Session!memory,
       Session!streams, Session!history, Session!refusals
  <2> QED
    BY <2>1, <2>2, SessionStep, PartsAssumption
<1>3. Inv => SessionMemory
  BY SessionPromised DEF SessionMemory
<1> QED
  BY <1>1, <1>2, <1>3, PTL DEF PartSpec

-----------------------------------------------------------------------------
(***************************************************************************)
(* SRTCP                                                                   *)
(***************************************************************************)

\* The window of an SSRC: its bits are the packets accepted, none lies behind its
\* end, and when it has moved the last of it was accepted.
Remembers(s) ==
    /\ \A b \in 0 .. (Bits - 1) :
           b \in rdb[s].bitmask <=> <<s, rdb[s].window_start + b>> \in accepted
    /\ \A n \in 0 .. IndexMax : <<s, n>> \in accepted => n < rdb[s].window_start + Bits
    /\ rdb[s].window_start > 0 => Bits - 1 \in rdb[s].bitmask

\* A packet is numbered by the calls before it, and ciphered under that number.
Sound(m) == m.index = m.iv /\ m.e = m.encrypted

RtcpInv ==
    /\ Rtcp!TypeOK
    /\ \A s \in Ssrcs : window_start[s] = sent[s]
    /\ \A m \in network : Sound(m)
    /\ accepted \subseteq Ssrcs \X (0 .. IndexMax)
    /\ \A s \in Ssrcs : Remembers(s)
    /\ \A s \in Ssrcs : s \notin known => rdb[s] = Rtcp!rdb_init
    /\ last # Rtcp!None => last.again = FALSE /\ Sound(last.packet)

\* The bounds of the numbers.
LEMMA RtcpBounds ==
    ASSUME PartsAssumption
    PROVE  /\ Bits \in Nat /\ Bits > 0 /\ IndexMax \in Nat /\ Bits <= IndexMax
           /\ MaxSent \in Nat /\ MaxSent <= IndexMax /\ Conf \in BOOLEAN
           /\ Rtcp!Word = 2 * IndexMax + 2
BY DEF PartsAssumption, Rtcp!SrtcpAssumption, Rtcp!Word

\* Before the first packet every window is empty.
LEMMA RtcpInit == PartsAssumption /\ Rtcp!Init => RtcpInv
<1> SUFFICES ASSUME PartsAssumption, Rtcp!Init PROVE RtcpInv
  OBVIOUS
<1>1. /\ Bits \in Nat /\ Bits > 0 /\ IndexMax \in Nat /\ MaxSent \in Nat
      /\ Rtcp!Word = 2 * IndexMax + 2
  BY RtcpBounds
<1>2. Rtcp!TypeOK
  <2>1. 0 \in 0 .. (Rtcp!Word - 1) /\ 0 \in 0 .. MaxSent
    BY <1>1
  <2> QED
    BY <2>1 DEF Rtcp!Init, Rtcp!TypeOK, Rtcp!rdb_init
<1>3. \A s \in Ssrcs : Remembers(s)
  BY <1>1 DEF Rtcp!Init, Remembers, Rtcp!rdb_init
<1> QED
  BY <1>2, <1>3 DEF Rtcp!Init, RtcpInv, Rtcp!rdb_init

\* A packet that is sent carries the next number.
LEMMA RtcpSends ==
    ASSUME PartsAssumption, RtcpInv, NEW s \in Ssrcs, Rtcp!srtp_protect_rtcp(s)
    PROVE  RtcpInv'
<1>1. /\ Bits \in Nat /\ Bits > 0 /\ IndexMax \in Nat /\ MaxSent \in Nat
      /\ MaxSent <= IndexMax /\ Conf \in BOOLEAN /\ Rtcp!Word = 2 * IndexMax + 2
  BY RtcpBounds
<1>2. /\ sent[s] \in Nat /\ sent[s] < MaxSent /\ window_start[s] = sent[s]
      /\ sent' = [sent EXCEPT ![s] = sent[s] + 1]
      /\ window_start' = [window_start EXCEPT ![s] = (sent[s] + 1) % Rtcp!Word]
      /\ network' = network \/ network' = network \cup {Rtcp!Packet(s, window_start'[s])}
      /\ UNCHANGED <<rdb, known, accepted, last>>
  <2>1. sent[s] \in Nat /\ window_start[s] = sent[s]
    BY <1>1 DEF RtcpInv, Rtcp!TypeOK
  <2> QED
    BY <2>1 DEF Rtcp!srtp_protect_rtcp, Rtcp!rdb_increment
<1>3. (sent[s] + 1) % Rtcp!Word = sent[s] + 1
  <2>1. sent[s] + 1 \in Nat /\ sent[s] + 1 < Rtcp!Word /\ Rtcp!Word \in Nat
    BY <1>1, <1>2
  <2> QED
    BY <2>1, SmallMod
<1> DEFINE q == sent[s] + 1
<1>4. /\ q \in Nat /\ q <= IndexMax /\ q <= MaxSent /\ sent' = [sent EXCEPT ![s] = q]
      /\ window_start' = [window_start EXCEPT ![s] = q]
  <2>1. q \in Nat /\ q <= IndexMax /\ q <= MaxSent
    BY <1>1, <1>2
  <2>2. window_start' = [window_start EXCEPT ![s] = q]
    BY <1>2, <1>3
  <2> QED
    BY <1>2, <2>1, <2>2
<1>5. q % (IndexMax + 1) = q
  BY <1>1, <1>4, SmallMod
<1> HIDE DEF q
<1>6. window_start \in [Ssrcs -> 0 .. (Rtcp!Word - 1)] /\ sent \in [Ssrcs -> 0 .. MaxSent]
  BY DEF RtcpInv, Rtcp!TypeOK
<1>7. /\ window_start' \in [Ssrcs -> 0 .. (Rtcp!Word - 1)] /\ window_start'[s] = q
      /\ sent' \in [Ssrcs -> 0 .. MaxSent]
      /\ \A t \in Ssrcs : window_start'[t] = sent'[t]
  <2>1. q \in 0 .. (Rtcp!Word - 1) /\ q \in 0 .. MaxSent
    BY <1>1, <1>4
  <2> QED
    BY <1>4, <1>6, <2>1 DEF RtcpInv
<1>8. Rtcp!Packet(s, q) \in Rtcp!Packets /\ Sound(Rtcp!Packet(s, q))
  <2>1. q \in 0 .. IndexMax /\ q \in 0 .. (Rtcp!Word - 1) /\ (Conf \/ q > IndexMax) = Conf
    BY <1>1, <1>4
  <2>2. Rtcp!Packet(s, q) = [ssrc |-> s, index |-> q, e |-> Conf, iv |-> q, encrypted |-> Conf]
    BY <1>5, <2>1 DEF Rtcp!Packet
  <2> QED
    BY <1>1, <2>1, <2>2 DEF Rtcp!Packets, Sound
<1>9. network' \subseteq Rtcp!Packets /\ \A m \in network' : Sound(m)
  BY <1>2, <1>7, <1>8 DEF RtcpInv, Rtcp!TypeOK
<1>10. Rtcp!TypeOK'
  BY <1>2, <1>7, <1>9 DEF RtcpInv, Rtcp!TypeOK, Rtcp!Packets
<1>11. \A t \in Ssrcs : Remembers(t)'
  BY <1>2 DEF RtcpInv, Remembers
<1>12. last' # Rtcp!None => last'.again = FALSE /\ Sound(last'.packet)
  BY <1>2 DEF RtcpInv
<1> QED
  BY <1>2, <1>7, <1>9, <1>10, <1>11, <1>12 DEF RtcpInv, Rtcp!rdb_init

\* The check of a window lets pass only what was not accepted before.
LEMMA CheckIsSafe ==
    ASSUME PartsAssumption, NEW r, NEW m,
           r \in [window_start : Nat, bitmask : SUBSET (0 .. (Bits - 1))],
           m \in 0 .. IndexMax,
           r.window_start + Bits - 1 <= IndexMax,
           Rtcp!rdb_check(r, m) = "ok"
    PROVE  \/ m >= r.window_start + Bits
           \/ /\ m >= r.window_start /\ m < r.window_start + Bits
              /\ m - r.window_start \notin r.bitmask
<1>1. /\ Bits \in Nat /\ Bits > 0 /\ IndexMax \in Nat /\ Rtcp!Word = 2 * IndexMax + 2
  BY RtcpBounds
<1>2. r.window_start \in Nat /\ m \in Nat
  BY <1>1
<1>3. (r.window_start + Bits) % Rtcp!Word = r.window_start + Bits
  <2>1. r.window_start + Bits \in Nat /\ Rtcp!Word \in Nat /\ r.window_start + Bits < Rtcp!Word
    BY <1>1, <1>2
  <2> QED
    BY <2>1, SmallMod
<1> QED
  BY <1>1, <1>2, <1>3 DEF Rtcp!rdb_check

\* The entry of a number moves the window so that it holds the number and what it held.
LEMMA EntryIsKept ==
    ASSUME PartsAssumption, NEW r, NEW m, NEW S, NEW T,
           r \in [window_start : Nat, bitmask : SUBSET (0 .. (Bits - 1))],
           m \in 0 .. IndexMax, m >= r.window_start,
           \A b \in 0 .. (Bits - 1) : b \in r.bitmask <=> r.window_start + b \in S,
           \A n \in S : n \in Nat /\ n < r.window_start + Bits,
           r.window_start > 0 => Bits - 1 \in r.bitmask,
           T = S \cup {m}
    PROVE  LET q == Rtcp!rdb_add_index(r, m)
           IN  /\ q \in [window_start : Nat, bitmask : SUBSET (0 .. (Bits - 1))]
               /\ \A b \in 0 .. (Bits - 1) : b \in q.bitmask <=> q.window_start + b \in T
               /\ \A n \in T : n < q.window_start + Bits
               /\ q.window_start > 0 => Bits - 1 \in q.bitmask
<1> DEFINE q == Rtcp!rdb_add_index(r, m)
           w == r.window_start
           delta == m - w
           shift == delta - (Bits - 1)
           moved == {b - shift : b \in {c \in r.bitmask : c >= shift}} \cup {Bits - 1}
<1>1. /\ Bits \in Nat /\ Bits > 0 /\ IndexMax \in Nat /\ m \in Nat /\ w \in Nat /\ delta \in Nat
  BY RtcpBounds
<1>2. r.bitmask \subseteq 0 .. (Bits - 1)
  OBVIOUS
<1>3. CASE delta < Bits
  <2>1. q.window_start = w /\ q.bitmask = r.bitmask \cup {delta}
        /\ q \in [window_start : Nat, bitmask : SUBSET (0 .. (Bits - 1))]
    BY <1>1, <1>3 DEF Rtcp!rdb_add_index
  <2>2. ASSUME NEW b \in 0 .. (Bits - 1)
        PROVE  b \in q.bitmask <=> q.window_start + b \in T
    <3>1. b = delta <=> w + b = m
      BY <1>1
    <3>2. b \in r.bitmask <=> w + b \in S
      OBVIOUS
    <3> QED
      BY <2>1, <3>1, <3>2
  <2>3. ASSUME NEW n \in T PROVE n < q.window_start + Bits
    <3>1. CASE n \in S
      BY <2>1, <3>1
    <3>2. CASE n = m
      BY <1>1, <1>3, <2>1, <3>2
    <3> QED
      BY <3>1, <3>2
  <2>4. q.window_start > 0 => Bits - 1 \in q.bitmask
    BY <2>1
  <2> QED
    BY <2>1, <2>2, <2>3, <2>4
<1>4. CASE ~ delta < Bits
  <2>1. shift \in Nat /\ shift > 0 /\ w + shift + (Bits - 1) = m
    BY <1>1, <1>4
  <2>2. q = [window_start |-> w + shift, bitmask |-> moved]
    BY <1>4 DEF Rtcp!rdb_add_index
  <2>3. moved \subseteq 0 .. (Bits - 1)
    BY <1>1, <1>2, <2>1
  <2>4. q \in [window_start : Nat, bitmask : SUBSET (0 .. (Bits - 1))]
    BY <1>1, <2>1, <2>2, <2>3
  <2>5. ASSUME NEW b \in 0 .. (Bits - 1)
        PROVE  b \in moved <=> (w + shift) + b \in T
    <3>1. CASE b = Bits - 1
      BY <1>1, <2>1, <3>1
    <3>2. CASE b # Bits - 1
      <4>1. (w + shift) + b # m
        BY <1>1, <2>1, <3>2
      <4>2. b \in moved <=> b + shift \in r.bitmask
        <5>1. b \in Int /\ b + shift >= shift /\ (b + shift) - shift = b
          BY <1>1, <2>1
        <5>2. ASSUME NEW c \in r.bitmask, c >= shift, b = c - shift PROVE c = b + shift
          BY <1>1, <1>2, <2>1, <5>2
        <5> QED
          BY <3>2, <5>1, <5>2
      <4>3. CASE b + shift <= Bits - 1
        <5>1. b + shift \in 0 .. (Bits - 1) /\ w + (b + shift) = (w + shift) + b
          BY <1>1, <2>1, <4>3
        <5>2. b + shift \in r.bitmask <=> w + (b + shift) \in S
          BY <5>1
        <5> QED
          BY <4>1, <4>2, <5>1, <5>2
      <4>4. CASE ~ b + shift <= Bits - 1
        <5>1. b + shift \notin r.bitmask
          BY <1>1, <1>2, <2>1, <4>4
        <5>2. (w + shift) + b \notin S
          <6>1. SUFFICES ASSUME (w + shift) + b \in S PROVE FALSE
            OBVIOUS
          <6>2. (w + shift) + b < w + Bits
            BY <6>1
          <6> QED
            BY <1>1, <2>1, <4>4, <6>2
        <5> QED
          BY <4>1, <4>2, <5>1, <5>2
      <4> QED
        BY <4>3, <4>4
    <3> QED
      BY <3>1, <3>2
  <2>6. ASSUME NEW n \in T PROVE n < (w + shift) + Bits
    <3>1. CASE n \in S
      <4>1. n \in Nat /\ n < w + Bits
        BY <3>1
      <4> QED
        BY <1>1, <2>1, <4>1
    <3>2. CASE n = m
      BY <1>1, <2>1, <3>2
    <3> QED
      BY <3>1, <3>2
  <2> HIDE DEF moved, shift, w
  <2> QED
    BY <2>2, <2>4, <2>5, <2>6 DEF moved
<1> QED
  BY <1>3, <1>4

\* A packet that is let pass was not let pass before, and is remembered.
LEMMA RtcpAccepts ==
    ASSUME PartsAssumption, RtcpInv, NEW m \in network, Rtcp!srtp_unprotect_rtcp(m)
    PROVE  RtcpInv'
<1> DEFINE s == m.ssrc
           n == m.index
           r == rdb[s]
           S == {k \in 0 .. IndexMax : <<s, k>> \in accepted}
           Wins == [window_start : Nat, bitmask : SUBSET (0 .. (Bits - 1))]
           q == Rtcp!rdb_add_index(r, n)
<1>1. /\ Bits \in Nat /\ Bits > 0 /\ IndexMax \in Nat /\ Bits <= IndexMax
  BY RtcpBounds
<1>2. s \in Ssrcs /\ n \in 0 .. IndexMax /\ n \in Nat /\ Sound(m)
  BY <1>1 DEF RtcpInv, Rtcp!TypeOK, Rtcp!Packets
<1>3. r \in Wins /\ r.window_start \in Nat /\ r.bitmask \subseteq 0 .. (Bits - 1)
  BY <1>2 DEF RtcpInv, Rtcp!TypeOK
<1>4. Rtcp!StreamOf(s) = r
  BY <1>2 DEF RtcpInv, Rtcp!StreamOf
<1>5. /\ Rtcp!rdb_check(r, n) = "ok"
      /\ accepted' = accepted \cup {<<s, n>>}
      /\ last' = [packet |-> m, again |-> <<s, n>> \in accepted]
      /\ known' = known \cup {s} /\ rdb' = [rdb EXCEPT ![s] = q]
      /\ UNCHANGED <<window_start, sent, network>>
  BY <1>4 DEF Rtcp!srtp_unprotect_rtcp
<1>6. Remembers(s) /\ accepted \subseteq Ssrcs \X (0 .. IndexMax)
  BY <1>2 DEF RtcpInv
<1>7. /\ \A b \in 0 .. (Bits - 1) : b \in r.bitmask <=> r.window_start + b \in S
      /\ \A k \in S : k \in Nat /\ k < r.window_start + Bits
      /\ r.window_start > 0 => Bits - 1 \in r.bitmask
  <2>1. ASSUME NEW b \in 0 .. (Bits - 1)
        PROVE  <<s, r.window_start + b>> \in accepted <=> r.window_start + b \in S
    BY <1>6
  <2>2. \A k \in S : k \in Nat /\ k < r.window_start + Bits
    BY <1>1, <1>6 DEF Remembers
  <2> QED
    BY <1>6, <2>1, <2>2 DEF Remembers
<1>8. r.window_start + Bits - 1 <= IndexMax
  <2>1. CASE r.window_start = 0
    BY <1>1, <2>1
  <2>2. CASE r.window_start > 0
    <3>1. Bits - 1 \in 0 .. (Bits - 1)
      BY <1>1
    <3>2. r.window_start + (Bits - 1) \in S
      BY <1>7, <2>2, <3>1
    <3>3. r.window_start + (Bits - 1) <= IndexMax
      BY <1>1, <3>2
    <3> QED
      BY <1>1, <1>3, <3>3
  <2> QED
    BY <1>3, <2>1, <2>2
<1>9. \/ n >= r.window_start + Bits
      \/ /\ n >= r.window_start /\ n < r.window_start + Bits
         /\ n - r.window_start \notin r.bitmask
  BY <1>2, <1>3, <1>5, <1>8, CheckIsSafe
<1>10. n \notin S /\ n >= r.window_start
  <2>1. CASE n >= r.window_start + Bits
    BY <1>1, <1>2, <1>3, <1>7, <2>1
  <2>2. CASE /\ n >= r.window_start /\ n < r.window_start + Bits
             /\ n - r.window_start \notin r.bitmask
    <3>1. n - r.window_start \in 0 .. (Bits - 1) /\ r.window_start + (n - r.window_start) = n
      BY <1>1, <1>2, <1>3, <2>2
    <3> QED
      BY <1>7, <2>2, <3>1
  <2> QED
    BY <1>9, <2>1, <2>2
<1>11. /\ q \in Wins
       /\ \A b \in 0 .. (Bits - 1) : b \in q.bitmask <=> q.window_start + b \in S \cup {n}
       /\ \A k \in S \cup {n} : k < q.window_start + Bits
       /\ q.window_start > 0 => Bits - 1 \in q.bitmask
  BY <1>2, <1>3, <1>7, <1>10, EntryIsKept
<1>12. rdb \in [Ssrcs -> Wins]
  BY DEF RtcpInv, Rtcp!TypeOK
<1>13. \A k \in 0 .. IndexMax : <<s, k>> \in accepted' <=> k \in S \cup {n}
  BY <1>2, <1>5
<1>14. accepted' \subseteq Ssrcs \X (0 .. IndexMax)
  BY <1>2, <1>5, <1>6
<1> HIDE DEF s, n, r, S, q, Wins
<1>15. rdb' \in [Ssrcs -> Wins] /\ rdb'[s] = q /\ \A t \in Ssrcs \ {s} : rdb'[t] = rdb[t]
  BY <1>2, <1>5, <1>11, <1>12
<1>16. Remembers(s)'
  <2>1. ASSUME NEW b \in 0 .. (Bits - 1)
        PROVE  b \in q.bitmask <=> <<s, q.window_start + b>> \in accepted'
    <3>1. b \in q.bitmask <=> q.window_start + b \in S \cup {n}
      BY <1>11
    <3>2. q.window_start + b \in S \cup {n} => q.window_start + b \in 0 .. IndexMax
      BY <1>2 DEF S
    <3>3. <<s, q.window_start + b>> \in accepted' => q.window_start + b \in 0 .. IndexMax
      BY <1>14
    <3> QED
      BY <1>13, <3>1, <3>2, <3>3
  <2> QED
    BY <1>11, <1>13, <1>15, <2>1 DEF Remembers
<1>17. ASSUME NEW t \in Ssrcs, t # s PROVE Remembers(t)'
  <2>1. \A k : <<t, k>> \in accepted' <=> <<t, k>> \in accepted
    BY <1>5, <1>17
  <2>2. Remembers(t) /\ rdb'[t] = rdb[t]
    BY <1>15, <1>17 DEF RtcpInv
  <2> QED
    BY <2>1, <2>2 DEF Remembers
<1>18. \A t \in Ssrcs : t \notin known' => rdb'[t] = Rtcp!rdb_init
  BY <1>5, <1>15 DEF RtcpInv
<1>19. Rtcp!TypeOK'
  BY <1>2, <1>5, <1>15 DEF RtcpInv, Rtcp!TypeOK, Wins, Rtcp!Packets
<1>20. last'.again = FALSE /\ Sound(last'.packet)
  <2>1. <<s, n>> \notin accepted
    BY <1>2, <1>10 DEF S
  <2>2. (<<s, n>> \in accepted) = FALSE
    BY <2>1
  <2>3. last' = [packet |-> m, again |-> FALSE]
    BY <1>5, <2>2, Zenon
  <2> QED
    BY <1>2, <2>3
<1> QED
  BY <1>5, <1>14, <1>16, <1>17, <1>18, <1>19, <1>20 DEF RtcpInv, Sound, Rtcp!rdb_init

\* Every call of the sender and of the receiver keeps the invariant.
LEMMA RtcpStep == PartsAssumption /\ RtcpInv /\ [Rtcp!Next]_(Rtcp!vars) => RtcpInv'
<1> SUFFICES ASSUME PartsAssumption, RtcpInv, [Rtcp!Next]_(Rtcp!vars) PROVE RtcpInv'
  OBVIOUS
<1>1. CASE UNCHANGED Rtcp!vars
  <2>1. UNCHANGED <<window_start, sent, network, rdb, known, accepted, last>>
    BY <1>1 DEF Rtcp!vars
  <2>2. Rtcp!TypeOK' /\ \A s \in Ssrcs : Remembers(s)'
    BY <2>1 DEF RtcpInv, Remembers, Rtcp!TypeOK, Rtcp!Packets
  <2> QED
    BY <2>1, <2>2 DEF RtcpInv, Sound, Rtcp!rdb_init, Rtcp!None
<1>2. ASSUME NEW m \in network, Rtcp!CloneFails(m) PROVE UNCHANGED Rtcp!vars
  BY <1>2 DEF Rtcp!CloneFails
<1> QED
  BY <1>1, <1>2, RtcpSends, RtcpAccepts DEF Rtcp!Next

\* The invariant gives what is promised of the receiver.
LEMMA RtcpPromised ==
    RtcpInv => /\ Rtcp!TypeOK /\ Rtcp!AcceptedOnce /\ Rtcp!WindowRemembers
               /\ Rtcp!DeciphersAlike
<1> SUFFICES ASSUME RtcpInv
             PROVE  Rtcp!AcceptedOnce /\ Rtcp!WindowRemembers /\ Rtcp!DeciphersAlike
  BY DEF RtcpInv
<1>1. Rtcp!AcceptedOnce /\ Rtcp!DeciphersAlike
  BY DEF RtcpInv, Rtcp!AcceptedOnce, Rtcp!DeciphersAlike, Sound
<1>2. \A s \in known : Remembers(s)
  BY DEF RtcpInv, Rtcp!TypeOK
<1> QED
  BY <1>1, <1>2 DEF Rtcp!WindowRemembers, Remembers

-----------------------------------------------------------------------------
(***************************************************************************)
(* The shifts of a window                                                  *)
(***************************************************************************)

\* Word w of a set of bits, and the set after either shift.
WordOf(B, w) == {b \in 0 .. (WordBits - 1) : w * WordBits + b \in B}
LeftOf == {b - index : b \in {c \in before : c >= index}}
RightOf == {b + index : b \in {c \in before : c + index < Shift!Total}}

\* The words the loop has come to are those of the result, the others are as before.
ShiftInv ==
    /\ Shift!TypeOK /\ index \in Nat /\ before \subseteq 0 .. (Shift!Total - 1)
    /\ op \in {"idle", "left", "right", "wrap", "done"}
    /\ op \in {"left", "right", "wrap"} => index < Shift!Total
    /\ op = "idle" => \A w \in 0 .. 3 : x[w] = WordOf(before, w)
    /\ op = "left" => /\ dir = "left" /\ i <= 4 - Shift!base_index
                      /\ Shift!bit_index # 0 => i <= 3 - Shift!base_index
                      /\ \A w \in 0 .. 3 : x[w] = WordOf(IF w < i THEN LeftOf ELSE before, w)
    /\ op = "right" => /\ dir = "right" /\ i >= Shift!base_index
                       /\ \A w \in 0 .. 3 : x[w] = WordOf(IF w >= i THEN RightOf ELSE before, w)
    /\ op = "wrap" =>
           \/ /\ dir = "left"
              /\ \A w \in 0 .. 3 : w < 4 - Shift!base_index => x[w] = WordOf(LeftOf, w)
           \/ /\ dir = "right"
              /\ \A w \in 0 .. 3 : w >= Shift!base_index => x[w] = WordOf(RightOf, w)
    /\ op = "done" =>
           \A w \in 0 .. 3 : x[w] = WordOf(IF dir = "left" THEN LeftOf ELSE RightOf, w)

\* A word has bits, and a vector has four words.
LEMMA ShiftBounds ==
    ASSUME PartsAssumption
    PROVE  /\ WordBits \in Nat /\ WordBits > 0 /\ Shift!Total = 4 * WordBits
           /\ Shifts \subseteq Nat
BY DEF PartsAssumption, Shift!V128Assumption, Shift!Total

\* A bit's number determines its word and its place there.
LEMMA BitPlace ==
    ASSUME PartsAssumption, NEW bit \in 0 .. (Shift!Total - 1)
    PROVE  /\ bit \in Nat
           /\ bit \div WordBits \in 0 .. 3 /\ bit % WordBits \in 0 .. (WordBits - 1)
           /\ bit = (bit \div WordBits) * WordBits + (bit % WordBits)
<1>1. WordBits \in Nat /\ WordBits > 0 /\ bit \in Nat /\ bit < 4 * WordBits
  BY ShiftBounds
<1> DEFINE q == bit \div WordBits
           r == bit % WordBits
<1>2. bit = q * WordBits + r /\ r \in 0 .. (WordBits - 1) /\ q \in Nat
  BY <1>1, Divided
<1> HIDE DEF q, r
<1>3. q < 4
  <2>1. SUFFICES ASSUME q >= 4 PROVE FALSE
    BY <1>2
  <2>2. PICK d \in Nat : q = 4 + d
    BY <1>2, <2>1
  <2>3. (4 + d) * WordBits = 4 * WordBits + d * WordBits /\ d * WordBits >= 0
    BY <1>1
  <2> QED
    BY <1>1, <1>2, <2>2, <2>3
<1>4. q \in 0 .. 3
  BY <1>2, <1>3
<1> QED
  BY <1>1, <1>2, <1>4 DEF q, r

\* The number of a place in a word.
LEMMA PlaceBit ==
    ASSUME PartsAssumption, NEW w \in 0 .. 3, NEW b \in 0 .. (WordBits - 1)
    PROVE  /\ w * WordBits + b \in 0 .. (Shift!Total - 1)
           /\ (w * WordBits + b) \div WordBits = w /\ (w * WordBits + b) % WordBits = b
<1>1. WordBits \in Nat /\ WordBits > 0 /\ Shift!Total = 4 * WordBits
  BY ShiftBounds
<1>2. w \in {0, 1, 2, 3} /\ b \in Nat /\ b < WordBits
  BY <1>1
<1> DEFINE bit == w * WordBits + b
<1>3. bit \in 0 .. (Shift!Total - 1)
  BY <1>1, <1>2
<1>4. bit = w * WordBits + b
  OBVIOUS
<1> HIDE DEF bit
<1>5. /\ bit \div WordBits \in 0 .. 3 /\ bit % WordBits \in 0 .. (WordBits - 1)
      /\ bit = (bit \div WordBits) * WordBits + (bit % WordBits)
  BY <1>3, BitPlace
<1> DEFINE q == bit \div WordBits
           r == bit % WordBits
<1>6. q * WordBits + r = w * WordBits + b /\ q \in Nat /\ r \in 0 .. (WordBits - 1) /\ w \in Nat
  BY <1>4, <1>5, <1>2
<1>7. b \in 0 .. (WordBits - 1) /\ WordBits \in Nat /\ WordBits > 0
  BY <1>1
<1> HIDE DEF q, r
<1>8. q = w /\ r = b
  BY <1>6, <1>7, DividedOnce
<1> QED
  BY <1>3, <1>8 DEF bit, q, r

\* The words of a vector are the words of its bits, and the bits of the words of a set
\* are the set.
LEMMA WordsAndBits ==
    ASSUME PartsAssumption
    PROVE  /\ \A v \in [0 .. 3 -> Shift!Words] : \A w \in 0 .. 3 :
                  v[w] = WordOf(Shift!BitsOf(v), w)
           /\ \A v, B : B \subseteq 0 .. (Shift!Total - 1)
                            /\ (\A w \in 0 .. 3 : v[w] = WordOf(B, w))
                        => Shift!BitsOf(v) = B
<1>1. ASSUME NEW v \in [0 .. 3 -> Shift!Words], NEW w \in 0 .. 3
      PROVE  v[w] = WordOf(Shift!BitsOf(v), w)
  <2>1. v[w] \subseteq 0 .. (WordBits - 1)
    BY DEF Shift!Words
  <2>2. ASSUME NEW b \in 0 .. (WordBits - 1)
        PROVE  w * WordBits + b \in Shift!BitsOf(v) <=> b \in v[w]
    BY PlaceBit DEF Shift!BitsOf, Shift!v128_get_bit
  <2> QED
    BY <2>1, <2>2 DEF WordOf
<1>2. ASSUME NEW v, NEW B \in SUBSET (0 .. (Shift!Total - 1)),
             \A w \in 0 .. 3 : v[w] = WordOf(B, w)
      PROVE  Shift!BitsOf(v) = B
  <2>1. ASSUME NEW bit \in 0 .. (Shift!Total - 1)
        PROVE  bit \in Shift!BitsOf(v) <=> bit \in B
    <3> DEFINE q == bit \div WordBits
               r == bit % WordBits
    <3>1. q \in 0 .. 3 /\ r \in 0 .. (WordBits - 1) /\ bit = q * WordBits + r
      BY BitPlace
    <3>2. bit \in Shift!BitsOf(v) <=> r \in v[q]
      BY DEF Shift!BitsOf, Shift!v128_get_bit
    <3> HIDE DEF q, r
    <3>3. r \in v[q] <=> q * WordBits + r \in B
      BY <1>2, <3>1 DEF WordOf
    <3> QED
      BY <3>1, <3>2, <3>3
  <2> QED
    BY <2>1 DEF Shift!BitsOf
<1> QED
  BY <1>1, <1>2

\* What the shifts of a word move to a place.
LEMMA DownBit ==
    ASSUME PartsAssumption, NEW A \in Shift!Words, NEW n \in Nat
    PROVE  /\ Shift!Down(A, n) \in Shift!Words
           /\ \A b \in 0 .. (WordBits - 1) : b \in Shift!Down(A, n) <=> b + n \in A
<1>1. WordBits \in Nat /\ WordBits > 0 /\ A \subseteq 0 .. (WordBits - 1)
  BY ShiftBounds DEF Shift!Words
<1>2. ASSUME NEW b \in 0 .. (WordBits - 1)
      PROVE  b \in Shift!Down(A, n) <=> b + n \in A
  <2>1. ASSUME NEW c \in A, b = c - n PROVE c = b + n
    BY <1>1, <2>1
  <2>2. b + n >= n /\ (b + n) - n = b
    BY <1>1
  <2> QED
    BY <2>1, <2>2 DEF Shift!Down
<1>3. Shift!Down(A, n) \subseteq 0 .. (WordBits - 1)
  <2>1. ASSUME NEW c \in A, c >= n PROVE c - n \in 0 .. (WordBits - 1)
    BY <1>1, <2>1
  <2> QED
    BY <2>1 DEF Shift!Down
<1> QED
  BY <1>2, <1>3 DEF Shift!Words

\* The same for the other direction.
LEMMA UpBit ==
    ASSUME PartsAssumption, NEW A \in Shift!Words, NEW n \in Nat
    PROVE  /\ Shift!Up(A, n) \in Shift!Words
           /\ \A b \in 0 .. (WordBits - 1) : b \in Shift!Up(A, n) <=> b - n \in A
<1>1. WordBits \in Nat /\ WordBits > 0 /\ A \subseteq 0 .. (WordBits - 1)
  BY ShiftBounds DEF Shift!Words
<1>2. ASSUME NEW b \in 0 .. (WordBits - 1)
      PROVE  b \in Shift!Up(A, n) <=> b - n \in A
  <2>1. ASSUME NEW c \in A, b = c + n PROVE c = b - n
    BY <1>1, <2>1
  <2>2. (b - n) + n < WordBits /\ (b - n) + n = b
    BY <1>1
  <2> QED
    BY <2>1, <2>2 DEF Shift!Up
<1>3. Shift!Up(A, n) \subseteq 0 .. (WordBits - 1)
  <2>1. ASSUME NEW c \in A, c + n < WordBits PROVE c + n \in 0 .. (WordBits - 1)
    BY <1>1, <2>1
  <2> QED
    BY <2>1 DEF Shift!Up
<1> QED
  BY <1>2, <1>3 DEF Shift!Words

\* The result of a shift, bit by bit.
LEMMA ShiftedBits ==
    ASSUME PartsAssumption, index \in Nat, before \subseteq 0 .. (Shift!Total - 1)
    PROVE  /\ LeftOf \subseteq 0 .. (Shift!Total - 1) /\ RightOf \subseteq 0 .. (Shift!Total - 1)
           /\ \A c \in 0 .. (Shift!Total - 1) : /\ c \in LeftOf <=> c + index \in before
                                                /\ c \in RightOf <=> c - index \in before
<1>1. Shift!Total \in Nat
  BY ShiftBounds
<1>2. ASSUME NEW c \in 0 .. (Shift!Total - 1) PROVE c \in LeftOf <=> c + index \in before
  <2>1. ASSUME NEW b \in before, c = b - index PROVE b = c + index
    BY <1>1, <2>1
  <2>2. c + index >= index /\ (c + index) - index = c
    BY <1>1
  <2> QED
    BY <2>1, <2>2 DEF LeftOf
<1>3. ASSUME NEW c \in 0 .. (Shift!Total - 1) PROVE c \in RightOf <=> c - index \in before
  <2>1. ASSUME NEW b \in before, c = b + index PROVE b = c - index
    BY <1>1, <2>1
  <2>2. (c - index) + index < Shift!Total /\ (c - index) + index = c
    BY <1>1
  <2> QED
    BY <2>1, <2>2 DEF RightOf
<1>4. LeftOf \subseteq 0 .. (Shift!Total - 1)
  <2>1. ASSUME NEW b \in before, b >= index PROVE b - index \in 0 .. (Shift!Total - 1)
    BY <1>1, <2>1
  <2> QED
    BY <2>1 DEF LeftOf
<1>5. RightOf \subseteq 0 .. (Shift!Total - 1)
  <2>1. ASSUME NEW b \in before, b + index < Shift!Total
        PROVE  b + index \in 0 .. (Shift!Total - 1)
    BY <1>1, <2>1
  <2> QED
    BY <2>1 DEF RightOf
<1> QED
  BY <1>2, <1>3, <1>4, <1>5

\* The whole words and the bits of the number a shift moves by.
LEMMA ShiftIndex ==
    ASSUME PartsAssumption, index \in Nat
    PROVE  /\ Shift!base_index \in Nat /\ Shift!bit_index \in Nat
           /\ Shift!bit_index < WordBits
           /\ index = Shift!base_index * WordBits + Shift!bit_index
           /\ index < Shift!Total => Shift!base_index <= 3
<1>1. WordBits \in Nat /\ WordBits > 0
  BY ShiftBounds
<1>2. /\ Shift!base_index \in Nat /\ Shift!bit_index \in 0 .. (WordBits - 1)
      /\ index = Shift!base_index * WordBits + Shift!bit_index
  BY <1>1, Divided DEF Shift!base_index, Shift!bit_index
<1>3. ASSUME index < Shift!Total PROVE Shift!base_index <= 3
  <2>1. index \in 0 .. (Shift!Total - 1)
    BY <1>1, <1>3, ShiftBounds
  <2> QED
    BY <2>1, BitPlace DEF Shift!base_index
<1> QED
  BY <1>1, <1>2, <1>3

\* The words of the left shift's result: parts of the words that many further up, and
\* nothing where there is none.
LEMMA LeftWord ==
    ASSUME PartsAssumption, index \in Nat, before \subseteq 0 .. (Shift!Total - 1),
           NEW w \in 0 .. 3
    PROVE  LET v == w + Shift!base_index
               r == Shift!bit_index
           IN  /\ v > 3 => WordOf(LeftOf, w) = {}
               /\ v <= 3 /\ r = 0 => WordOf(LeftOf, w) = WordOf(before, v)
               /\ v < 3 /\ r # 0 =>
                      WordOf(LeftOf, w) = Shift!Down(WordOf(before, v), r)
                          \cup Shift!Up(WordOf(before, v + 1), WordBits - r)
               /\ v = 3 /\ r # 0 => WordOf(LeftOf, w) = Shift!Down(WordOf(before, 3), r)
<1> DEFINE v == w + Shift!base_index
           r == Shift!bit_index
           B == WordBits
<1>1. /\ B \in Nat /\ B > 0 /\ Shift!Total = 4 * B /\ Shift!base_index \in Nat
      /\ r \in Nat /\ r < B /\ index = Shift!base_index * B + r /\ v \in Nat /\ w \in Nat
  BY ShiftBounds, ShiftIndex
<1>2. (w * B + index) = v * B + r
  <2>1. (w + Shift!base_index) * B = w * B + Shift!base_index * B
    BY <1>1
  <2>2. w * B \in Nat /\ Shift!base_index * B \in Nat
    BY <1>1
  <2> QED
    BY <1>1, <2>1, <2>2
<1>3. \A u : WordOf(before, u) \in Shift!Words /\ WordOf(LeftOf, u) \in Shift!Words
  BY DEF WordOf, Shift!Words
<1>4. ASSUME NEW b \in 0 .. (B - 1)
      PROVE  /\ b \in Nat /\ b < B
             /\ b \in WordOf(LeftOf, w) <=> v * B + (b + r) \in before
             /\ \A u : b \in WordOf(before, u) <=> u * B + b \in before
  <2>1. w * B + b \in 0 .. (Shift!Total - 1)
    BY PlaceBit
  <2>2. w * B + b \in LeftOf <=> (w * B + b) + index \in before
    BY <2>1, ShiftedBits
  <2>3. (w * B + b) + index = v * B + (b + r)
    <3>1. w * B \in Nat /\ v * B \in Nat /\ b \in Nat
      BY <1>1
    <3> QED
      BY <1>1, <1>2, <3>1
  <2> QED
    BY <1>1, <2>2, <2>3 DEF WordOf
<1>5. \A u : \A c : c \in WordOf(before, u) => c \in 0 .. (B - 1)
  BY DEF WordOf
<1> DEFINE vB == v * B
<1>6. vB \in Nat /\ vB = v * B /\ (v + 1) * B = vB + B
  BY <1>1
<1>7. ASSUME v > 3 PROVE WordOf(LeftOf, w) = {}
  <2>1. vB >= 4 * B
    <3>1. PICK d \in Nat : v = 4 + d
      BY <1>1, <1>7
    <3>2. (4 + d) * B = 4 * B + d * B /\ d * B >= 0
      BY <1>1
    <3> QED
      BY <1>1, <1>6, <3>1, <3>2
  <2>2. ASSUME NEW b \in 0 .. (B - 1) PROVE b \notin WordOf(LeftOf, w)
    <3>1. vB + (b + r) \notin 0 .. (Shift!Total - 1)
      BY <1>1, <1>6, <2>1
    <3> QED
      BY <1>4, <1>6, <3>1
  <2> QED
    BY <1>3, <2>2 DEF Shift!Words
<1>8. ASSUME v <= 3, r = 0 PROVE WordOf(LeftOf, w) = WordOf(before, v)
  <2>1. ASSUME NEW b \in 0 .. (B - 1)
        PROVE  b \in WordOf(LeftOf, w) <=> b \in WordOf(before, v)
    BY <1>4, <1>8
  <2> QED
    BY <1>3, <2>1 DEF Shift!Words
<1>9. ASSUME NEW b \in 0 .. (B - 1)
      PROVE  /\ b \in Shift!Down(WordOf(before, v), r)
                    <=> (b + r < B /\ vB + (b + r) \in before)
             /\ b \in Shift!Up(WordOf(before, v + 1), B - r)
                    <=> (b + r >= B /\ vB + (b + r) \in before)
  <2>1. b \in Shift!Down(WordOf(before, v), r) <=> b + r \in WordOf(before, v)
    BY <1>1, <1>3, DownBit
  <2>2. b + r \in WordOf(before, v) <=> b + r < B /\ vB + (b + r) \in before
    <3>1. b + r \in 0 .. (B - 1) <=> b + r < B
      BY <1>1
    <3> QED
      BY <3>1 DEF WordOf
  <2>3. B - r \in Nat
    BY <1>1
  <2>4. b \in Shift!Up(WordOf(before, v + 1), B - r) <=> b - (B - r) \in WordOf(before, v + 1)
    BY <1>3, <2>3, UpBit
  <2>5. b - (B - r) \in WordOf(before, v + 1) <=> b + r >= B /\ vB + (b + r) \in before
    <3>1. b - (B - r) \in 0 .. (B - 1) <=> b + r >= B
      BY <1>1
    <3>2. (v + 1) * B + (b - (B - r)) = vB + (b + r)
      <4> HIDE DEF vB
      <4> QED
        BY <1>1, <1>6
    <3> QED
      BY <3>1, <3>2 DEF WordOf
  <2> QED
    BY <2>1, <2>2, <2>4, <2>5
<1>10. ASSUME v < 3, r # 0
       PROVE  WordOf(LeftOf, w) = Shift!Down(WordOf(before, v), r)
                  \cup Shift!Up(WordOf(before, v + 1), B - r)
  <2>1. ASSUME NEW b \in 0 .. (B - 1)
        PROVE  b \in WordOf(LeftOf, w) <=>
                   \/ b \in Shift!Down(WordOf(before, v), r)
                   \/ b \in Shift!Up(WordOf(before, v + 1), B - r)
    <3>1. b + r < B \/ b + r >= B
      BY <1>1
    <3> QED
      BY <1>4, <1>9, <3>1
  <2>2. /\ Shift!Down(WordOf(before, v), r) \in Shift!Words
        /\ Shift!Up(WordOf(before, v + 1), B - r) \in Shift!Words
    <3>1. B - r \in Nat
      BY <1>1
    <3> QED
      BY <1>1, <1>3, <3>1, DownBit, UpBit
  <2> QED
    BY <1>3, <2>1, <2>2 DEF Shift!Words
<1>11. ASSUME v = 3, r # 0
       PROVE  WordOf(LeftOf, w) = Shift!Down(WordOf(before, 3), r)
  <2>1. ASSUME NEW b \in 0 .. (B - 1)
        PROVE  b \in WordOf(LeftOf, w) <=> b \in Shift!Down(WordOf(before, v), r)
    <3>1. CASE b + r < B
      BY <1>4, <1>9, <3>1
    <3>2. CASE ~ b + r < B
      <4>1. vB = 3 * B
        BY <1>11
      <4>2. vB + (b + r) \notin 0 .. (Shift!Total - 1)
        BY <1>1, <3>2, <4>1
      <4> QED
        BY <1>4, <1>9, <3>2, <4>2
    <3> QED
      BY <3>1, <3>2
  <2>2. Shift!Down(WordOf(before, v), r) \in Shift!Words
    BY <1>1, <1>3, DownBit
  <2> QED
    BY <1>3, <1>11, <2>1, <2>2 DEF Shift!Words
<1> QED
  BY <1>7, <1>8, <1>10, <1>11

\* The words of the right shift's result, in the same way.
LEMMA RightWord ==
    ASSUME PartsAssumption, index \in Nat, before \subseteq 0 .. (Shift!Total - 1),
           NEW w \in 0 .. 3
    PROVE  LET v == w - Shift!base_index
               r == Shift!bit_index
           IN  /\ v < 0 => WordOf(RightOf, w) = {}
               /\ v >= 0 /\ r = 0 => WordOf(RightOf, w) = WordOf(before, v)
               /\ v > 0 /\ r # 0 =>
                      WordOf(RightOf, w) = Shift!Up(WordOf(before, v), r)
                          \cup Shift!Down(WordOf(before, v - 1), WordBits - r)
               /\ v = 0 /\ r # 0 => WordOf(RightOf, w) = Shift!Up(WordOf(before, 0), r)
<1> DEFINE v == w - Shift!base_index
           r == Shift!bit_index
           B == WordBits
<1>1. /\ B \in Nat /\ B > 0 /\ Shift!Total = 4 * B /\ Shift!base_index \in Nat
      /\ r \in Nat /\ r < B /\ index = Shift!base_index * B + r /\ v \in Int /\ w \in Nat
  BY ShiftBounds, ShiftIndex
<1>2. (w * B - index) = v * B - r
  <2>1. (w - Shift!base_index) * B = w * B - Shift!base_index * B
    BY <1>1
  <2>2. w * B \in Nat /\ Shift!base_index * B \in Nat
    BY <1>1
  <2> QED
    BY <1>1, <2>1, <2>2
<1>3. \A u : WordOf(before, u) \in Shift!Words /\ WordOf(RightOf, u) \in Shift!Words
  BY DEF WordOf, Shift!Words
<1>4. ASSUME NEW b \in 0 .. (B - 1)
      PROVE  /\ b \in Nat /\ b < B
             /\ b \in WordOf(RightOf, w) <=> v * B + (b - r) \in before
             /\ \A u : b \in WordOf(before, u) <=> u * B + b \in before
  <2>1. w * B + b \in 0 .. (Shift!Total - 1)
    BY PlaceBit
  <2>2. w * B + b \in RightOf <=> (w * B + b) - index \in before
    BY <2>1, ShiftedBits
  <2>3. (w * B + b) - index = v * B + (b - r)
    <3>1. w * B \in Nat /\ v * B \in Int /\ b \in Nat
      BY <1>1
    <3> QED
      BY <1>1, <1>2, <3>1
  <2> QED
    BY <1>1, <2>2, <2>3 DEF WordOf
<1> DEFINE vB == v * B
<1>6. vB \in Int /\ vB = v * B /\ (v - 1) * B = vB - B
  BY <1>1
<1>7. ASSUME v < 0 PROVE WordOf(RightOf, w) = {}
  <2>1. vB <= - B
    <3>1. PICK d \in Nat : v = - 1 - d
      BY <1>1, <1>7
    <3>2. (- 1 - d) * B = - B - d * B /\ d * B >= 0
      BY <1>1
    <3> QED
      BY <1>1, <1>6, <3>1, <3>2
  <2>2. ASSUME NEW b \in 0 .. (B - 1) PROVE b \notin WordOf(RightOf, w)
    <3>1. vB + (b - r) \notin 0 .. (Shift!Total - 1)
      BY <1>1, <1>6, <2>1
    <3> QED
      BY <1>4, <1>6, <3>1
  <2> QED
    BY <1>3, <2>2 DEF Shift!Words
<1>8. ASSUME v >= 0, r = 0 PROVE WordOf(RightOf, w) = WordOf(before, v)
  <2>1. ASSUME NEW b \in 0 .. (B - 1)
        PROVE  b \in WordOf(RightOf, w) <=> b \in WordOf(before, v)
    BY <1>4, <1>8
  <2> QED
    BY <1>3, <2>1 DEF Shift!Words
<1>9. ASSUME NEW b \in 0 .. (B - 1)
      PROVE  /\ b \in Shift!Up(WordOf(before, v), r)
                    <=> (b >= r /\ vB + (b - r) \in before)
             /\ b \in Shift!Down(WordOf(before, v - 1), B - r)
                    <=> (b < r /\ vB + (b - r) \in before)
  <2>1. b \in Shift!Up(WordOf(before, v), r) <=> b - r \in WordOf(before, v)
    BY <1>1, <1>3, UpBit
  <2>2. b - r \in WordOf(before, v) <=> b >= r /\ vB + (b - r) \in before
    <3>1. b - r \in 0 .. (B - 1) <=> b >= r
      BY <1>1
    <3> QED
      BY <3>1 DEF WordOf
  <2>3. B - r \in Nat
    BY <1>1
  <2>4. b \in Shift!Down(WordOf(before, v - 1), B - r) <=> b + (B - r) \in WordOf(before, v - 1)
    BY <1>3, <2>3, DownBit
  <2>5. b + (B - r) \in WordOf(before, v - 1) <=> b < r /\ vB + (b - r) \in before
    <3>1. b + (B - r) \in 0 .. (B - 1) <=> b < r
      BY <1>1
    <3>2. (v - 1) * B + (b + (B - r)) = vB + (b - r)
      <4> HIDE DEF vB
      <4> QED
        BY <1>1, <1>6
    <3> QED
      BY <3>1, <3>2 DEF WordOf
  <2> QED
    BY <2>1, <2>2, <2>4, <2>5
<1>10. ASSUME v > 0, r # 0
       PROVE  WordOf(RightOf, w) = Shift!Up(WordOf(before, v), r)
                  \cup Shift!Down(WordOf(before, v - 1), B - r)
  <2>1. ASSUME NEW b \in 0 .. (B - 1)
        PROVE  b \in WordOf(RightOf, w) <=>
                   \/ b \in Shift!Up(WordOf(before, v), r)
                   \/ b \in Shift!Down(WordOf(before, v - 1), B - r)
    <3>1. b >= r \/ b < r
      BY <1>1
    <3> QED
      BY <1>4, <1>9, <3>1
  <2>2. /\ Shift!Up(WordOf(before, v), r) \in Shift!Words
        /\ Shift!Down(WordOf(before, v - 1), B - r) \in Shift!Words
    <3>1. B - r \in Nat
      BY <1>1
    <3> QED
      BY <1>1, <1>3, <3>1, DownBit, UpBit
  <2> QED
    BY <1>3, <2>1, <2>2 DEF Shift!Words
<1>11. ASSUME v = 0, r # 0
       PROVE  WordOf(RightOf, w) = Shift!Up(WordOf(before, 0), r)
  <2>1. ASSUME NEW b \in 0 .. (B - 1)
        PROVE  b \in WordOf(RightOf, w) <=> b \in Shift!Up(WordOf(before, v), r)
    <3>1. CASE b >= r
      BY <1>4, <1>9, <3>1
    <3>2. CASE ~ b >= r
      <4>1. vB = 0
        BY <1>1, <1>11
      <4>2. vB + (b - r) \notin 0 .. (Shift!Total - 1)
        BY <1>1, <3>2, <4>1
      <4> QED
        BY <1>4, <1>9, <3>2, <4>2
    <3> QED
      BY <3>1, <3>2
  <2>2. Shift!Up(WordOf(before, v), r) \in Shift!Words
    BY <1>1, <1>3, UpBit
  <2> QED
    BY <1>3, <1>11, <2>1, <2>2 DEF Shift!Words
<1> QED
  BY <1>7, <1>8, <1>10, <1>11

\* A vector begins with the words of its bits.
LEMMA ShiftInit == PartsAssumption /\ Shift!Init => ShiftInv
<1> SUFFICES ASSUME PartsAssumption, Shift!Init PROVE ShiftInv
  OBVIOUS
<1>1. /\ x \in [0 .. 3 -> Shift!Words] /\ index \in Nat /\ i \in 0 .. 4 /\ op = "idle"
      /\ before = Shift!BitsOf(x)
  BY ShiftBounds DEF Shift!Init
<1>2. before \subseteq 0 .. (Shift!Total - 1)
  BY <1>1 DEF Shift!BitsOf
<1>3. \A w \in 0 .. 3 : x[w] = WordOf(before, w)
  BY <1>1, WordsAndBits
<1> QED
  BY <1>1, <1>2, <1>3 DEF ShiftInv, Shift!TypeOK

\* Setting or clearing a bit changes that bit alone.
LEMMA BitsSet ==
    ASSUME PartsAssumption, ShiftInv, NEW bit \in 0 .. (Shift!Total - 1),
           Shift!SetBit(bit) \/ Shift!ClearBit(bit)
    PROVE  ShiftInv'
<1> DEFINE q == bit \div WordBits
           r == bit % WordBits
<1>1. q \in 0 .. 3 /\ r \in 0 .. (WordBits - 1) /\ bit = q * WordBits + r
  BY BitPlace
<1>2. /\ x \in [0 .. 3 -> Shift!Words] /\ i \in 0 .. 4 /\ index \in Nat /\ op = "idle"
      /\ before \subseteq 0 .. (Shift!Total - 1)
      /\ \A w \in 0 .. 3 : x[w] = WordOf(before, w)
  BY DEF ShiftInv, Shift!TypeOK, Shift!SetBit, Shift!ClearBit
<1>3. /\ UNCHANGED <<index, op, dir, i>>
      /\ \/ x' = [x EXCEPT ![q] = x[q] \cup {r}] /\ before' = before \cup {bit}
         \/ x' = [x EXCEPT ![q] = x[q] \ {r}] /\ before' = before \ {bit}
  BY DEF Shift!SetBit, Shift!ClearBit, Shift!v128_set_bit, Shift!v128_clear_bit
<1> HIDE DEF q, r
<1>4. ASSUME NEW w \in 0 .. 3, NEW b \in 0 .. (WordBits - 1)
      PROVE  w * WordBits + b = bit <=> w = q /\ b = r
  <2>1. WordBits \in Nat /\ WordBits > 0 /\ w \in Nat /\ q \in Nat
    BY <1>1, ShiftBounds
  <2>2. w * WordBits + b = q * WordBits + r => w = q /\ b = r
    BY <1>1, <2>1, DividedOnce
  <2> QED
    BY <1>1, <2>2
<1>5. x' \in [0 .. 3 -> Shift!Words]
  BY <1>1, <1>2, <1>3 DEF Shift!Words
<1>6. before' \subseteq 0 .. (Shift!Total - 1)
  BY <1>2, <1>3
<1>7. ASSUME NEW w \in 0 .. 3 PROVE x'[w] = WordOf(before', w)
  <2>1. x[w] = WordOf(before, w)
    BY <1>2
  <2>2. CASE w = q
    BY <1>1, <1>2, <1>3, <1>4, <2>1, <2>2 DEF WordOf
  <2>3. CASE w # q
    BY <1>1, <1>2, <1>3, <1>4, <2>1, <2>3 DEF WordOf
  <2> QED
    BY <2>2, <2>3
<1> QED
  BY <1>2, <1>3, <1>5, <1>6, <1>7 DEF ShiftInv, Shift!TypeOK

\* A shift begins with the words as they are, and by too many bits leaves none.
LEMMA ShiftStarts ==
    ASSUME PartsAssumption, ShiftInv, NEW d \in {"left", "right"}, Shift!Start(d)
    PROVE  ShiftInv'
<1>1. /\ x \in [0 .. 3 -> Shift!Words] /\ i \in 0 .. 4 /\ index \in Nat /\ op = "idle"
      /\ before \subseteq 0 .. (Shift!Total - 1)
      /\ \A w \in 0 .. 3 : x[w] = WordOf(before, w)
  BY DEF ShiftInv, Shift!TypeOK, Shift!Start
<1>2. dir' = d /\ index' = index /\ before' = before
  BY DEF Shift!Start
<1>3. LeftOf' = LeftOf /\ RightOf' = RightOf /\ Shift!base_index' = Shift!base_index
      /\ Shift!bit_index' = Shift!bit_index
  BY <1>2 DEF LeftOf, RightOf, Shift!base_index, Shift!bit_index
<1>4. Shift!Total \in Nat
  BY ShiftBounds
<1>5. CASE index > Shift!Total - 1
  <2>1. x' = [w \in 0 .. 3 |-> {}] /\ op' = "done" /\ i' = i
    BY <1>5 DEF Shift!Start
  <2>2. LeftOf = {} /\ RightOf = {}
    BY <1>1, <1>4, <1>5 DEF LeftOf, RightOf
  <2>3. \A w \in 0 .. 3 : x'[w] = WordOf(IF dir' = "left" THEN LeftOf' ELSE RightOf', w)
    BY <1>3, <2>1, <2>2 DEF WordOf
  <2>4. x' \in [0 .. 3 -> Shift!Words]
    BY <2>1 DEF Shift!Words
  <2> QED
    BY <1>1, <1>2, <2>1, <2>3, <2>4 DEF ShiftInv, Shift!TypeOK
<1>6. CASE ~ index > Shift!Total - 1
  <2>1. x' = x /\ op' = d /\ i' = IF d = "left" THEN 0 ELSE 4
    BY <1>6 DEF Shift!Start
  <2>2. index < Shift!Total
    BY <1>1, <1>4, <1>6
  <2>3. Shift!base_index \in Nat /\ Shift!base_index <= 3
    BY <1>1, <2>2, ShiftIndex
  <2>4. CASE d = "left"
    <3>1. i' = 0 /\ 0 <= 4 - Shift!base_index /\ 0 <= 3 - Shift!base_index
      BY <2>1, <2>3, <2>4
    <3>2. \A w \in 0 .. 3 : x'[w] = WordOf(IF w < i' THEN LeftOf' ELSE before', w)
      BY <1>1, <1>2, <2>1, <3>1
    <3> QED
      BY <1>1, <1>2, <1>3, <2>1, <2>2, <2>4, <3>1, <3>2 DEF ShiftInv, Shift!TypeOK
  <2>5. CASE d = "right"
    <3>1. i' = 4 /\ 4 >= Shift!base_index
      BY <2>1, <2>3, <2>5
    <3>2. \A w \in 0 .. 3 : x'[w] = WordOf(IF w >= i' THEN RightOf' ELSE before', w)
      BY <1>1, <1>2, <2>1, <3>1
    <3> QED
      BY <1>1, <1>2, <1>3, <2>1, <2>2, <2>5, <3>1, <3>2 DEF ShiftInv, Shift!TypeOK
  <2> QED
    BY <2>4, <2>5
<1> QED
  BY <1>5, <1>6

\* The loop of the left shift reads only words it has not written.
LEMMA LeftSteps ==
    ASSUME PartsAssumption, ShiftInv, Shift!LeftStep PROVE ShiftInv'
<1> DEFINE n == Shift!base_index
           r == Shift!bit_index
<1>1. /\ x \in [0 .. 3 -> Shift!Words] /\ i \in 0 .. 4 /\ index \in Nat /\ op = "left"
      /\ before \subseteq 0 .. (Shift!Total - 1) /\ index < Shift!Total /\ dir = "left"
      /\ i <= 4 - n /\ (r # 0 => i <= 3 - n)
      /\ \A w \in 0 .. 3 : x[w] = WordOf(IF w < i THEN LeftOf ELSE before, w)
  BY DEF ShiftInv, Shift!TypeOK, Shift!LeftStep
<1>2. dir' = dir /\ index' = index /\ before' = before
  BY DEF Shift!LeftStep
<1>3. /\ LeftOf' = LeftOf /\ RightOf' = RightOf /\ Shift!base_index' = n
      /\ Shift!bit_index' = r
  BY <1>2 DEF LeftOf, RightOf, Shift!base_index, Shift!bit_index
<1>4. n \in Nat /\ n <= 3 /\ r \in Nat
  BY <1>1, ShiftIndex
<1>5. \A u : WordOf(LeftOf, u) \in Shift!Words
  BY DEF WordOf, Shift!Words
<1>6. ASSUME NEW w \in 0 .. 3, w >= i PROVE x[w] = WordOf(before, w)
  <2>1. ~ w < i
    BY <1>1, <1>6
  <2> QED
    BY <1>1, <2>1
<1> HIDE DEF n, r
\* A word of the loop's body.
<1>7. ASSUME i \in 0 .. 3, i' = i + 1, op' = op, x' = [x EXCEPT ![i] = WordOf(LeftOf, i)],
             i + 1 <= 4 - n, r # 0 => i + 1 <= 3 - n
      PROVE  ShiftInv'
  <2>1. x' \in [0 .. 3 -> Shift!Words]
    BY <1>1, <1>5, <1>7
  <2>2. ASSUME NEW w \in 0 .. 3
        PROVE  x'[w] = WordOf(IF w < i' THEN LeftOf ELSE before, w)
    <3>1. CASE w = i
      BY <1>1, <1>7, <3>1
    <3>2. CASE w # i
      <4>1. w < i' <=> w < i
        BY <1>1, <1>7, <3>2
      <4>2. x'[w] = x[w]
        BY <1>1, <1>7, <3>2
      <4> QED
        BY <1>1, <4>1, <4>2
    <3> QED
      BY <3>1, <3>2
  <2>3. i' \in 0 .. 4
    BY <1>7
  <2> QED
    BY <1>1, <1>2, <1>3, <1>7, <2>1, <2>2, <2>3 DEF ShiftInv, Shift!TypeOK
\* The words below the end are written.
<1>8. ASSUME op' = "wrap", i' = i, x' \in [0 .. 3 -> Shift!Words],
             \A w \in 0 .. 3 : w < 4 - n => x'[w] = WordOf(LeftOf, w)
      PROVE  ShiftInv'
  BY <1>1, <1>2, <1>3, <1>8 DEF ShiftInv, Shift!TypeOK
<1>9. CASE r = 0 /\ i < 4 - n
  <2>1. x' = [x EXCEPT ![i] = x[i + n]] /\ i' = i + 1 /\ op' = op
    BY <1>9 DEF Shift!LeftStep, n, r
  <2>2. i \in 0 .. 3 /\ i + n \in 0 .. 3 /\ i + n >= i /\ i + n <= 3 /\ i + 1 <= 4 - n
    BY <1>1, <1>4, <1>9
  <2>3. x[i + n] = WordOf(LeftOf, i)
    BY <1>1, <1>6, <1>9, <2>2, LeftWord DEF n, r
  <2> QED
    BY <1>7, <1>9, <2>1, <2>2, <2>3
<1>10. CASE r = 0 /\ ~ i < 4 - n
  <2>1. x' = x /\ i' = i /\ op' = "wrap"
    BY <1>10 DEF Shift!LeftStep, n, r
  <2>2. i = 4 - n
    BY <1>1, <1>4, <1>10
  <2>3. \A w \in 0 .. 3 : w < 4 - n => x'[w] = WordOf(LeftOf, w)
    BY <1>1, <2>1, <2>2
  <2> QED
    BY <1>1, <1>8, <2>1, <2>3
<1>11. CASE r # 0 /\ i < 4 - n - 1
  <2>1. /\ x' = [x EXCEPT ![i] = Shift!Down(x[i + n], r)
                                   \cup Shift!Up(x[i + n + 1], WordBits - r)]
        /\ i' = i + 1 /\ op' = op
    BY <1>11 DEF Shift!LeftStep, n, r
  <2>2. /\ i \in 0 .. 3 /\ i + n \in 0 .. 3 /\ i + n >= i /\ i + n < 3 /\ i + 1 <= 4 - n
        /\ i + n + 1 \in 0 .. 3 /\ i + n + 1 >= i /\ i + 1 <= 3 - n
    BY <1>1, <1>4, <1>11
  <2>3. x[i + n] = WordOf(before, i + n) /\ x[i + n + 1] = WordOf(before, i + n + 1)
    BY <1>6, <2>2
  <2>4. WordOf(LeftOf, i) = Shift!Down(WordOf(before, i + n), r)
                              \cup Shift!Up(WordOf(before, i + n + 1), WordBits - r)
    BY <1>1, <1>11, <2>2, LeftWord DEF n, r
  <2> QED
    BY <1>7, <1>11, <2>1, <2>2, <2>3, <2>4
<1>12. CASE r # 0 /\ ~ i < 4 - n - 1
  <2>1. x' = [x EXCEPT ![4 - n - 1] = Shift!Down(x[3], r)] /\ i' = i /\ op' = "wrap"
    BY <1>12 DEF Shift!LeftStep, n, r
  <2>2. i = 3 - n /\ 4 - n - 1 = 3 - n /\ 3 - n \in 0 .. 3 /\ (3 - n) + n = 3 /\ 3 >= i
    BY <1>1, <1>4, <1>12
  <2>3. x[3] = WordOf(before, 3)
    BY <1>6, <2>2
  <2>4. WordOf(LeftOf, 3 - n) = Shift!Down(WordOf(before, 3), r)
    BY <1>1, <1>12, <2>2, LeftWord DEF n, r
  <2>5. x' = [x EXCEPT ![3 - n] = WordOf(LeftOf, 3 - n)]
    BY <2>1, <2>2, <2>3, <2>4
  <2>6. x' \in [0 .. 3 -> Shift!Words]
    BY <1>1, <1>5, <2>2, <2>5
  <2>7. ASSUME NEW w \in 0 .. 3, w < 4 - n PROVE x'[w] = WordOf(LeftOf, w)
    <3>1. CASE w = 3 - n
      BY <1>1, <2>2, <2>5, <3>1
    <3>2. CASE w # 3 - n
      <4>1. w < i
        BY <1>4, <2>2, <2>7, <3>2
      <4>2. x'[w] = x[w]
        BY <1>1, <2>5, <3>2
      <4> QED
        BY <1>1, <4>1, <4>2
    <3> QED
      BY <3>1, <3>2
  <2> QED
    BY <1>8, <2>1, <2>6, <2>7
<1> QED
  BY <1>9, <1>10, <1>11, <1>12

\* Nor does that of the right shift, from the other end.
LEMMA RightSteps ==
    ASSUME PartsAssumption, ShiftInv, Shift!RightStep PROVE ShiftInv'
<1> DEFINE n == Shift!base_index
           r == Shift!bit_index
           from == i - 1 - n
<1>1. /\ x \in [0 .. 3 -> Shift!Words] /\ i \in 0 .. 4 /\ index \in Nat /\ op = "right"
      /\ before \subseteq 0 .. (Shift!Total - 1) /\ index < Shift!Total /\ dir = "right"
      /\ i >= n
      /\ \A w \in 0 .. 3 : x[w] = WordOf(IF w >= i THEN RightOf ELSE before, w)
  BY DEF ShiftInv, Shift!TypeOK, Shift!RightStep
<1>2. dir' = dir /\ index' = index /\ before' = before
  BY DEF Shift!RightStep
<1>3. /\ LeftOf' = LeftOf /\ RightOf' = RightOf /\ Shift!base_index' = n
      /\ Shift!bit_index' = r
  BY <1>2 DEF LeftOf, RightOf, Shift!base_index, Shift!bit_index
<1>4. n \in Nat /\ n <= 3 /\ r \in Nat
  BY <1>1, ShiftIndex
<1>5. \A u : WordOf(RightOf, u) \in Shift!Words
  BY DEF WordOf, Shift!Words
<1>6. ASSUME NEW w \in 0 .. 3, w < i PROVE x[w] = WordOf(before, w)
  <2>1. ~ w >= i
    BY <1>1, <1>6
  <2> QED
    BY <1>1, <2>1
<1> HIDE DEF n, r
<1>7. CASE i > n
  <2>1. /\ x' = [x EXCEPT ![i - 1] =
                    IF r = 0 THEN x[from]
                    ELSE Shift!Up(x[from], r) \cup
                         (IF from > 0 THEN Shift!Down(x[from - 1], WordBits - r) ELSE {})]
        /\ i' = i - 1 /\ op' = op
    BY <1>7 DEF Shift!RightStep, n, r
  <2>2. i - 1 \in 0 .. 3 /\ from \in 0 .. 3 /\ from < i /\ i - 1 >= n
        /\ (i - 1) - n = from /\ (from > 0 => from - 1 \in 0 .. 3 /\ from - 1 < i)
    BY <1>1, <1>4, <1>7
  <2>3. x[from] = WordOf(before, from)
        /\ (from > 0 => x[from - 1] = WordOf(before, from - 1))
    BY <1>6, <2>2
  <2> HIDE DEF from
  <2>4. x' = [x EXCEPT ![i - 1] = WordOf(RightOf, i - 1)]
    <3>1. CASE r = 0
      <4>1. (i - 1) - n >= 0
        BY <2>2
      <4>2. WordOf(RightOf, i - 1) = WordOf(before, (i - 1) - n)
        BY <1>1, <2>2, <3>1, <4>1, RightWord DEF n, r
      <4> QED
        BY <2>1, <2>2, <2>3, <3>1, <4>2
    <3>2. CASE r # 0 /\ from > 0
      <4>1. WordOf(RightOf, i - 1) = Shift!Up(WordOf(before, from), r)
                \cup Shift!Down(WordOf(before, from - 1), WordBits - r)
        BY <1>1, <2>2, <3>2, RightWord DEF n, r
      <4> QED
        BY <2>1, <2>3, <3>2, <4>1
    <3>3. CASE r # 0 /\ ~ from > 0
      <4>1. from = 0
        BY <2>2, <3>3
      <4>2. WordOf(RightOf, i - 1) = Shift!Up(WordOf(before, from), r)
        BY <1>1, <2>2, <3>3, <4>1, RightWord DEF n, r
      <4>3. Shift!Up(x[from], r) \cup {} = Shift!Up(x[from], r)
        OBVIOUS
      <4> QED
        BY <2>1, <2>3, <3>3, <4>2, <4>3
    <3> QED
      BY <3>1, <3>2, <3>3
  <2>5. x' \in [0 .. 3 -> Shift!Words]
    BY <1>1, <1>5, <2>2, <2>4
  <2>6. ASSUME NEW w \in 0 .. 3
        PROVE  x'[w] = WordOf(IF w >= i' THEN RightOf ELSE before, w)
    <3>1. CASE w = i - 1
      <4>1. w >= i'
        BY <1>1, <2>1, <3>1
      <4> QED
        BY <1>1, <2>2, <2>4, <3>1, <4>1
    <3>2. CASE w # i - 1
      <4>1. w >= i' <=> w >= i
        BY <1>1, <2>1, <3>2
      <4>2. x'[w] = x[w]
        BY <1>1, <2>4, <3>2
      <4> QED
        BY <1>1, <4>1, <4>2
    <3> QED
      BY <3>1, <3>2
  <2>7. i' \in 0 .. 4 /\ i' >= n
    BY <1>1, <2>1, <2>2
  <2> QED
    BY <1>1, <1>2, <1>3, <2>1, <2>5, <2>6, <2>7 DEF ShiftInv, Shift!TypeOK
<1>8. CASE ~ i > n
  <2>1. x' = x /\ i' = i /\ op' = "wrap"
    BY <1>8 DEF Shift!RightStep, n
  <2>2. i = n
    BY <1>1, <1>4, <1>8
  <2>3. \A w \in 0 .. 3 : w >= n => x'[w] = WordOf(RightOf, w)
    BY <1>1, <2>1, <2>2
  <2> QED
    BY <1>1, <1>2, <1>3, <2>1, <2>3 DEF ShiftInv, Shift!TypeOK
<1> QED
  BY <1>7, <1>8

\* The words that nothing was moved to become empty, as they are in the result.
LEMMA ShiftWraps ==
    ASSUME PartsAssumption, ShiftInv, Shift!Wrap PROVE ShiftInv'
<1> DEFINE n == Shift!base_index
<1>1. /\ x \in [0 .. 3 -> Shift!Words] /\ i \in 0 .. 4 /\ index \in Nat
      /\ before \subseteq 0 .. (Shift!Total - 1) /\ index < Shift!Total
      /\ \/ /\ dir = "left"
            /\ \A w \in 0 .. 3 : w < 4 - n => x[w] = WordOf(LeftOf, w)
         \/ /\ dir = "right"
            /\ \A w \in 0 .. 3 : w >= n => x[w] = WordOf(RightOf, w)
  BY DEF ShiftInv, Shift!TypeOK, Shift!Wrap
<1>2. /\ dir' = dir /\ index' = index /\ before' = before /\ i' = i /\ op' = "done"
      /\ x' = [w \in 0 .. 3 |->
                  IF (dir = "left" /\ w >= 4 - n) \/ (dir = "right" /\ w < n) THEN {} ELSE x[w]]
  BY DEF Shift!Wrap
<1>3. LeftOf' = LeftOf /\ RightOf' = RightOf
  BY <1>2 DEF LeftOf, RightOf
<1>4. n \in Nat /\ n <= 3
  BY <1>1, ShiftIndex
<1>5. x' \in [0 .. 3 -> Shift!Words]
  BY <1>1, <1>2 DEF Shift!Words
<1>6. ASSUME NEW w \in 0 .. 3
      PROVE  x'[w] = WordOf(IF dir = "left" THEN LeftOf ELSE RightOf, w)
  <2>1. CASE dir = "left" /\ w >= 4 - n
    <3>1. w + n > 3
      BY <1>4, <2>1
    <3>2. WordOf(LeftOf, w) = {}
      BY <1>1, <3>1, LeftWord
    <3> QED
      BY <1>2, <2>1, <3>2
  <2>2. CASE dir = "left" /\ ~ w >= 4 - n
    <3>1. w < 4 - n
      BY <1>4, <2>2
    <3> QED
      BY <1>1, <1>2, <2>2, <3>1
  <2>3. CASE dir = "right" /\ w < n
    <3>1. w - n < 0
      BY <1>4, <2>3
    <3>2. WordOf(RightOf, w) = {}
      BY <1>1, <3>1, RightWord
    <3> QED
      BY <1>2, <2>3, <3>2
  <2>4. CASE dir = "right" /\ ~ w < n
    <3>1. w >= n
      BY <1>4, <2>4
    <3> QED
      BY <1>1, <1>2, <2>4, <3>1
  <2> QED
    BY <1>1, <2>1, <2>2, <2>3, <2>4
<1> QED
  BY <1>1, <1>2, <1>3, <1>5, <1>6 DEF ShiftInv, Shift!TypeOK

\* Every step of a shift keeps the invariant.
LEMMA ShiftStep == PartsAssumption /\ ShiftInv /\ [Shift!Next]_(Shift!vars) => ShiftInv'
<1> SUFFICES ASSUME PartsAssumption, ShiftInv, [Shift!Next]_(Shift!vars) PROVE ShiftInv'
  OBVIOUS
<1>1. CASE UNCHANGED Shift!vars
  <2>1. UNCHANGED <<x, index, op, dir, i, before>>
    BY <1>1 DEF Shift!vars
  <2>2. /\ LeftOf' = LeftOf /\ RightOf' = RightOf /\ Shift!base_index' = Shift!base_index
        /\ Shift!bit_index' = Shift!bit_index
    BY <2>1 DEF LeftOf, RightOf, Shift!base_index, Shift!bit_index
  <2> QED
    BY <2>1, <2>2 DEF ShiftInv, Shift!TypeOK
<1> QED
  BY <1>1, BitsSet, ShiftStarts, LeftSteps, RightSteps, ShiftWraps DEF Shift!Next

\* Words that are those of the result are its bits.
LEMMA ShiftDone == PartsAssumption /\ ShiftInv => Shift!TypeOK /\ Shift!ShiftsBits
<1> SUFFICES ASSUME PartsAssumption, ShiftInv, op = "done" PROVE Shift!ShiftsBits
  BY DEF ShiftInv, Shift!ShiftsBits
<1> DEFINE R == IF dir = "left" THEN LeftOf ELSE RightOf
<1>1. \A w \in 0 .. 3 : x[w] = WordOf(R, w)
  BY DEF ShiftInv
<1>2. R \subseteq 0 .. (Shift!Total - 1)
  BY ShiftedBits DEF ShiftInv
<1> HIDE DEF R
<1>3. Shift!BitsOf(x) = R
  BY <1>1, <1>2, WordsAndBits
<1> QED
  BY <1>3 DEF R, Shift!ShiftsBits, LeftOf, RightOf

-----------------------------------------------------------------------------
(* SRTCP and the shifts together.                                          *)

\* However the network repeats and reorders, no SRTCP packet is let pass twice, the
\* window holds exactly those that were accepted, and each is deciphered with the
\* number it was enciphered with; the shift of a window moves every bit by its
\* number: for every number of bits and every number of words a shift spans.
\* (srtp_unprotect_rtcp, rdb_check, rdb_add_index, v128_left_shift, v128_right_shift)
THEOREM RtcpAcceptsOnce == PartSpec => []RtcpOnce
<1> DEFINE Inv == (part = "rtcp" => RtcpInv) /\ (part = "shift" => ShiftInv)
<1>1. PartInit => Inv
  BY RtcpInit, ShiftInit, PartsAssumption DEF PartInit
<1>2. Inv /\ [PartNext]_partVars => Inv'
  <2> SUFFICES ASSUME Inv, [PartNext]_partVars PROVE Inv'
    OBVIOUS
  <2>1. part' = part
    BY DEF PartNext, partVars
  <2>2. part = "rtcp" => [Rtcp!Next]_(Rtcp!vars)
    BY DEF PartNext, partVars, rtcpVars, Rtcp!vars
  <2>3. part = "shift" => [Shift!Next]_(Shift!vars)
    BY DEF PartNext, partVars, shiftVars, Shift!vars
  <2>4. part = "rtcp" => RtcpInv'
    BY <2>2, RtcpStep, PartsAssumption
  <2>5. part = "shift" => ShiftInv'
    BY <2>3, ShiftStep, PartsAssumption
  <2> QED
    BY <2>1, <2>4, <2>5
<1>3. Inv => RtcpOnce
  BY RtcpPromised, ShiftDone, PartsAssumption DEF RtcpOnce
<1> QED
  BY <1>1, <1>2, <1>3, PTL DEF PartSpec

-----------------------------------------------------------------------------
(***************************************************************************)
(* The codec                                                               *)
(***************************************************************************)

\* Where a worker is: making the codec, using it, or counted among its users.
InFft(w) == pc[w] \in {"fft", "cfg_reverse", "fill", "kiss_fft", "read"}
Creating(w) == pc[w] \in {"create", "set"} \/ (InFft(w) /\ ret[w] = "set")
Using(w) == pc[w] = "used" \/ (InFft(w) /\ ret[w] = "used")
Counted(w) == pc[w] \in {"loop", "use", "decrement"} \/ Using(w)
Users(w) == IF Counted(w) THEN 1 ELSE 0

\* How often w has added to the count and taken from it, and made a codec or failed to.
Added(w) ==
    sessions[w] - (IF Creating(w) \/ pc[w] \in {"increment", "incremented"} THEN 1 ELSE 0)
Taken(w) == sessions[w] - (IF pc[w] \in {"idle", "test"} THEN 0 ELSE 1)
Made(w) == sessions[w] - (IF pc[w] = "create" THEN 1 ELSE 0)

\* What holds of w and the other worker, v, also when they meet: counts and pointers
\* stay within bounds, and w reads from the buffers what some worker has put there.
Bounded(w, v) ==
    /\ 0 - (Taken(w) + Taken(v)) <= initializedTimes
    /\ initializedTimes <= Added(w) + Added(v)
    /\ created <= Made(w) + Made(v)
    /\ InFft(w) => ret[w] \in {"set", "used"}
    /\ pc[w] \in {"incremented", "decrement"} => /\ 0 - (Taken(w) + Taken(v)) <= tmp[w]
                                                  /\ tmp[w] <= Added(w) + Added(v)
    /\ Creating(w) /\ pc[w] # "create" => tmp[w] \in 1 .. created
    /\ pc[w] = "kiss_fft" => fin \in Codec!Workers
    /\ pc[w] = "read" => fout \in Codec!Workers
    /\ pc[w] # "idle" => sessions[w] > 0

\* What holds of w and v as long as they have not met.
CallErrors == {Codec!None, "Library returned error", "assertion"}
Plans == {"forward", "reverse"}
Pointed == IF codec2 = Codec!Null THEN {} ELSE {codec2}
Apart(w, v) ==
    /\ ~ (Codec!InLock(w) /\ Codec!InLock(v))
    /\ initializedTimes = Users(w) + Users(v)
    /\ pc[w] \in {"incremented", "decrement"} => tmp[w] = initializedTimes
    /\ Creating(w) => initializedTimes = 0 /\ live = IF pc[w] = "create" THEN {} ELSE {tmp[w]}
    /\ pc[w] # "idle" /\ ~ Creating(w) => live = Pointed
    /\ pc[w] = "idle" /\ pc[v] = "idle" => live = {}
    /\ Using(w) => codec2 # Codec!Null /\ tmp[w] = codec2
    /\ codec2 # Codec!Null => cfg = Plans
    /\ pc[w] \in {"fill", "kiss_fft", "read", "set"} => cfg = Plans
    /\ pc[w] = "cfg_reverse" => cfg = {"forward"} /\ ret[w] = "set"
    /\ cfg # Plans /\ cfg # {} => pc[w] = "cfg_reverse" \/ pc[v] = "cfg_reverse"

CodecInv ==
    /\ Codec!TypeOK
    /\ \A w, v \in Codec!Workers : w # v => Bounded(w, v)
    /\ ~ raced => /\ error \in CallErrors
                  /\ \A w, v \in Codec!Workers : w # v => Apart(w, v)

\* Every step keeps the bounds, whether or not the workers have met.
LEMMA CodecBounded ==
    ASSUME NEW w \in Codec!Workers, NEW v \in Codec!Workers, w # v,
           Codec!CodecAssumption, Codec!TypeOK, Bounded(w, v), Bounded(v, w), Codec!Work(w)
    PROVE  Bounded(w, v)' /\ Bounded(v, w)'
<1>w. Codec!Workers = {w, v}
  BY DEF Codec!Workers
<1> USE <1>w DEF Codec!At, Codec!Goto, Codec!countVars, Codec!fftVars, Codec!TypeOK, Codec!Steps,
           Codec!Null, Codec!None,
           Bounded, Added, Taken, Made, Creating, InFft
<1>1. CASE Codec!fft(w)
  <2>1. Bounded(w, v)'
    BY <1>1 DEF Codec!fft
  <2>2. Bounded(v, w)'
    BY <1>1 DEF Codec!fft
  <2> QED
    BY <2>1, <2>2
<1>2. CASE Codec!initialize_fft(w)
  <2>1. Bounded(w, v)'
    BY <1>2 DEF Codec!initialize_fft
  <2>2. Bounded(v, w)'
    BY <1>2 DEF Codec!initialize_fft
  <2> QED
    BY <2>1, <2>2
<1>3. CASE Codec!fill(w)
  <2>1. Bounded(w, v)'
    BY <1>3 DEF Codec!fill
  <2>2. Bounded(v, w)'
    BY <1>3 DEF Codec!fill
  <2> QED
    BY <2>1, <2>2
<1>4. CASE Codec!kiss_fft(w)
  <2>1. CASE sign[w] \in cfg
    <3>1. Bounded(w, v)'
      BY <1>4, <2>1 DEF Codec!kiss_fft, Codec!Fail
    <3>2. Bounded(v, w)'
      BY <1>4, <2>1 DEF Codec!kiss_fft, Codec!Fail
    <3> QED
      BY <3>1, <3>2
  <2>2. CASE sign[w] \notin cfg
    <3>1. Bounded(w, v)'
      BY <1>4, <2>2 DEF Codec!kiss_fft, Codec!Fail
    <3>2. Bounded(v, w)'
      BY <1>4, <2>2 DEF Codec!kiss_fft, Codec!Fail
    <3> QED
      BY <3>1, <3>2
  <2> QED
    BY <2>1, <2>2
<1>5. CASE Codec!read(w)
  <2>1. Bounded(w, v)'
    BY <1>5 DEF Codec!read
  <2>2. Bounded(v, w)'
    BY <1>5 DEF Codec!read
  <2> QED
    BY <2>1, <2>2
<1>6. CASE Codec!initialize(w)
  <2>1. Bounded(w, v)'
    BY <1>6 DEF Codec!initialize, Codec!Enter
  <2>2. Bounded(v, w)'
    BY <1>6 DEF Codec!initialize, Codec!Enter
  <2> QED
    BY <2>1, <2>2
<1>7. CASE Codec!codec2_create(w)
  <2>1. Bounded(w, v)'
    BY <1>7 DEF Codec!codec2_create, Codec!Call
  <2>2. Bounded(v, w)'
    BY <1>7 DEF Codec!codec2_create, Codec!Call
  <2> QED
    BY <2>1, <2>2
<1>8. CASE Codec!codec2Init(w)
  <2>1. Bounded(w, v)'
    BY <1>8 DEF Codec!codec2Init
  <2>2. Bounded(v, w)'
    BY <1>8 DEF Codec!codec2Init
  <2> QED
    BY <2>1, <2>2
<1>9. CASE Codec!codec2InitFails(w)
  <2>1. Bounded(w, v)'
    BY <1>9 DEF Codec!codec2InitFails
  <2>2. Bounded(v, w)'
    BY <1>9 DEF Codec!codec2InitFails
  <2> QED
    BY <2>1, <2>2
<1>10. CASE Codec!readCount(w)
  <2>1. Bounded(w, v)'
    BY <1>10 DEF Codec!readCount
  <2>2. Bounded(v, w)'
    BY <1>10 DEF Codec!readCount
  <2> QED
    BY <2>1, <2>2
<1>11. CASE Codec!increment(w)
  <2>1. Bounded(w, v)'
    BY <1>11 DEF Codec!increment
  <2>2. Bounded(v, w)'
    BY <1>11 DEF Codec!increment
  <2> QED
    BY <2>1, <2>2
<1>12. CASE Codec!checkIfInitialized(w)
  <2>1. CASE initializedTimes = 0
    <3>1. Bounded(w, v)'
      BY <1>12, <2>1 DEF Codec!checkIfInitialized, Codec!Fail
    <3>2. Bounded(v, w)'
      BY <1>12, <2>1 DEF Codec!checkIfInitialized, Codec!Fail
    <3> QED
      BY <3>1, <3>2
  <2>2. CASE initializedTimes # 0
    <3>1. Bounded(w, v)'
      BY <1>12, <2>2 DEF Codec!checkIfInitialized, Codec!Fail
    <3>2. Bounded(v, w)'
      BY <1>12, <2>2 DEF Codec!checkIfInitialized, Codec!Fail
    <3> QED
      BY <3>1, <3>2
  <2> QED
    BY <2>1, <2>2
<1>13. CASE Codec!codec2Code(w)
  <2>1. CASE codec2 = Codec!Null
    <3>1. Bounded(w, v)'
      BY <1>13, <2>1 DEF Codec!codec2Code, Codec!Fail, Codec!Call
    <3>2. Bounded(v, w)'
      BY <1>13, <2>1 DEF Codec!codec2Code, Codec!Fail, Codec!Call
    <3> QED
      BY <3>1, <3>2
  <2>2. CASE codec2 # Codec!Null
    <3>1. Bounded(w, v)'
      BY <1>13, <2>2 DEF Codec!codec2Code, Codec!Fail, Codec!Call
    <3>2. Bounded(v, w)'
      BY <1>13, <2>2 DEF Codec!codec2Code, Codec!Fail, Codec!Call
    <3> QED
      BY <3>1, <3>2
  <2> QED
    BY <2>1, <2>2
<1>14. CASE Codec!update(w)
  <2>1. CASE tmp[w] \in live
    <3>1. Bounded(w, v)'
      BY <1>14, <2>1 DEF Codec!update, Codec!Fail
    <3>2. Bounded(v, w)'
      BY <1>14, <2>1 DEF Codec!update, Codec!Fail
    <3> QED
      BY <3>1, <3>2
  <2>2. CASE tmp[w] \notin live
    <3>1. Bounded(w, v)'
      BY <1>14, <2>2 DEF Codec!update, Codec!Fail
    <3>2. Bounded(v, w)'
      BY <1>14, <2>2 DEF Codec!update, Codec!Fail
    <3> QED
      BY <3>1, <3>2
  <2> QED
    BY <2>1, <2>2
<1>15. CASE Codec!release(w)
  <2>1. CASE initializedTimes = 0
    <3>1. Bounded(w, v)'
      BY <1>15, <2>1 DEF Codec!release, Codec!Fail, Codec!Enter
    <3>2. Bounded(v, w)'
      BY <1>15, <2>1 DEF Codec!release, Codec!Fail, Codec!Enter
    <3> QED
      BY <3>1, <3>2
  <2>2. CASE initializedTimes # 0
    <3>1. Bounded(w, v)'
      BY <1>15, <2>2 DEF Codec!release, Codec!Fail, Codec!Enter
    <3>2. Bounded(v, w)'
      BY <1>15, <2>2 DEF Codec!release, Codec!Fail, Codec!Enter
    <3> QED
      BY <3>1, <3>2
  <2> QED
    BY <2>1, <2>2
<1>16. CASE Codec!decrement(w)
  <2>1. Bounded(w, v)'
    BY <1>16 DEF Codec!decrement
  <2>2. Bounded(v, w)'
    BY <1>16 DEF Codec!decrement
  <2> QED
    BY <2>1, <2>2
<1>17. CASE Codec!codec2Release(w)
  <2>1. CASE initializedTimes # 0
    <3>1. Bounded(w, v)'
      BY <1>17, <2>1 DEF Codec!codec2Release, Codec!Fail
    <3>2. Bounded(v, w)'
      BY <1>17, <2>1 DEF Codec!codec2Release, Codec!Fail
    <3> QED
      BY <3>1, <3>2
  <2>2. CASE initializedTimes = 0 /\ codec2 = Codec!Null
    <3>1. Bounded(w, v)'
      BY <1>17, <2>2 DEF Codec!codec2Release, Codec!Fail
    <3>2. Bounded(v, w)'
      BY <1>17, <2>2 DEF Codec!codec2Release, Codec!Fail
    <3> QED
      BY <3>1, <3>2
  <2>3. CASE initializedTimes = 0 /\ codec2 # Codec!Null /\ codec2 \notin live
    <3>1. Bounded(w, v)'
      BY <1>17, <2>3 DEF Codec!codec2Release, Codec!Fail
    <3>2. Bounded(v, w)'
      BY <1>17, <2>3 DEF Codec!codec2Release, Codec!Fail
    <3> QED
      BY <3>1, <3>2
  <2>4. CASE initializedTimes = 0 /\ codec2 # Codec!Null /\ codec2 \in live
    <3>1. Bounded(w, v)'
      BY <1>17, <2>4 DEF Codec!codec2Release, Codec!Fail
    <3>2. Bounded(v, w)'
      BY <1>17, <2>4 DEF Codec!codec2Release, Codec!Fail
    <3> QED
      BY <3>1, <3>2
  <2> QED
    BY <2>1, <2>2, <2>3, <2>4
<1> QED
  BY <1>1, <1>2, <1>3, <1>4, <1>5, <1>6, <1>7, <1>8, <1>9, <1>10, <1>11, <1>12, <1>13,
     <1>14, <1>15, <1>16, <1>17 DEF Codec!Work, Codec!Fft

\* A worker outside of initialize and release is counted, or idle.
LEMMA OtherIsIdle ==
    ASSUME NEW w \in Codec!Workers, NEW v \in Codec!Workers, Codec!TypeOK,
           Bounded(v, w), Apart(w, v), ~ Codec!InLock(v), ~ Counted(w)
    PROVE  pc[v] = "idle" <=> initializedTimes = 0
<1>1. initializedTimes = Users(v)
  BY DEF Apart, Users
<1>2. pc[v] = "idle" <=> ~ Counted(v)
  BY DEF Bounded, Counted, Using, InFft, Codec!InLock, Codec!TypeOK, Codec!Steps
<1> QED
  BY <1>1, <1>2 DEF Users

\* Every step after which they have not met keeps them apart.
LEMMA CodecApart ==
    ASSUME NEW w \in Codec!Workers, NEW v \in Codec!Workers, w # v,
           Codec!CodecAssumption, Codec!TypeOK, Bounded(w, v), Bounded(v, w),
           Apart(w, v), Apart(v, w), error \in CallErrors, ~ raced', Codec!Work(w)
    PROVE  Apart(w, v)' /\ Apart(v, w)' /\ error' \in CallErrors
<1>w. Codec!Workers = {w, v}
  BY DEF Codec!Workers
<1>i. ~ Codec!InLock(v) /\ ~ Counted(w) => (pc[v] = "idle" <=> initializedTimes = 0)
  BY OtherIsIdle
<1> USE <1>w DEF Codec!At, Codec!Goto, Codec!countVars, Codec!fftVars, Codec!TypeOK, Codec!Steps,
           Codec!Null, Codec!None,
           Apart, Users, Counted, Using, Creating, InFft, Codec!InLock,
           Pointed, Plans, CallErrors
<1>1. CASE Codec!fft(w)
  <2>0. "forward" \notin cfg => cfg = {} /\ ret[w] = "set"
    BY <1>1 DEF Bounded, Codec!fft
  <2>1. CASE "forward" \in cfg
    <3>1. Apart(w, v)'
      BY <1>1, <2>0, <2>1 DEF Codec!fft
    <3>2. Apart(v, w)'
      BY <1>1, <2>0, <2>1 DEF Codec!fft
    <3>3. error' \in CallErrors
      BY <1>1, <2>0, <2>1 DEF Codec!fft
    <3> QED
      BY <3>1, <3>2, <3>3
  <2>2. CASE "forward" \notin cfg
    <3>1. Apart(w, v)'
      BY <1>1, <2>0, <2>2 DEF Codec!fft
    <3>2. Apart(v, w)'
      BY <1>1, <2>0, <2>2 DEF Codec!fft
    <3>3. error' \in CallErrors
      BY <1>1, <2>0, <2>2 DEF Codec!fft
    <3> QED
      BY <3>1, <3>2, <3>3
  <2> QED
    BY <2>1, <2>2
<1>2. CASE Codec!initialize_fft(w)
  <2>1. Apart(w, v)'
    BY <1>2 DEF Codec!initialize_fft
  <2>2. Apart(v, w)'
    BY <1>2 DEF Codec!initialize_fft
  <2>3. error' \in CallErrors
    BY <1>2 DEF Codec!initialize_fft
  <2> QED
    BY <2>1, <2>2, <2>3
<1>3. CASE Codec!fill(w)
  <2>1. Apart(w, v)'
    BY <1>3 DEF Codec!fill
  <2>2. Apart(v, w)'
    BY <1>3 DEF Codec!fill
  <2>3. error' \in CallErrors
    BY <1>3 DEF Codec!fill
  <2> QED
    BY <2>1, <2>2, <2>3
<1>4. CASE Codec!kiss_fft(w)
  <2>1. CASE sign[w] \in cfg
    <3>1. Apart(w, v)'
      BY <1>4, <2>1 DEF Codec!kiss_fft, Codec!Fail
    <3>2. Apart(v, w)'
      BY <1>4, <2>1 DEF Codec!kiss_fft, Codec!Fail
    <3>3. error' \in CallErrors
      BY <1>4, <2>1 DEF Codec!kiss_fft, Codec!Fail
    <3> QED
      BY <3>1, <3>2, <3>3
  <2>2. CASE sign[w] \notin cfg
    <3>1. Apart(w, v)'
      BY <1>4, <2>2 DEF Codec!kiss_fft, Codec!Fail
    <3>2. Apart(v, w)'
      BY <1>4, <2>2 DEF Codec!kiss_fft, Codec!Fail
    <3>3. error' \in CallErrors
      BY <1>4, <2>2 DEF Codec!kiss_fft, Codec!Fail
    <3> QED
      BY <3>1, <3>2, <3>3
  <2> QED
    BY <2>1, <2>2
<1>5. CASE Codec!read(w)
  <2>0. ret[w] \in {"set", "used"}
    BY <1>5 DEF Bounded, Codec!read
  <2>1. CASE ret[w] = "set"
    <3>1. Apart(w, v)'
      BY <1>5, <2>0, <2>1 DEF Codec!read
    <3>2. Apart(v, w)'
      BY <1>5, <2>0, <2>1 DEF Codec!read
    <3>3. error' \in CallErrors
      BY <1>5, <2>0, <2>1 DEF Codec!read
    <3> QED
      BY <3>1, <3>2, <3>3
  <2>2. CASE ret[w] = "used"
    <3>1. Apart(w, v)'
      BY <1>5, <2>0, <2>2 DEF Codec!read
    <3>2. Apart(v, w)'
      BY <1>5, <2>0, <2>2 DEF Codec!read
    <3>3. error' \in CallErrors
      BY <1>5, <2>0, <2>2 DEF Codec!read
    <3> QED
      BY <3>1, <3>2, <3>3
  <2> QED
    BY <2>1, <2>2, <2>0
<1>6. CASE Codec!initialize(w)
  <2>0. ~ Codec!InLock(v) /\ ~ raced
    BY <1>6 DEF Codec!initialize, Codec!Enter
  <2>a. initializedTimes = 0 => pc[v] = "idle" /\ live = {}
    BY <1>6, <2>0 DEF Bounded, Codec!initialize
  <2>1. CASE initializedTimes = 0
    <3>1. Apart(w, v)'
      BY <1>6, <2>0, <2>a, <2>1 DEF Codec!initialize, Codec!Enter
    <3>2. Apart(v, w)'
      BY <1>6, <2>0, <2>a, <2>1 DEF Codec!initialize, Codec!Enter
    <3>3. error' \in CallErrors
      BY <1>6, <2>0, <2>a, <2>1 DEF Codec!initialize, Codec!Enter
    <3> QED
      BY <3>1, <3>2, <3>3
  <2>2. CASE initializedTimes # 0
    <3>1. Apart(w, v)'
      BY <1>6, <2>0, <2>a, <2>2 DEF Codec!initialize, Codec!Enter
    <3>2. Apart(v, w)'
      BY <1>6, <2>0, <2>a, <2>2 DEF Codec!initialize, Codec!Enter
    <3>3. error' \in CallErrors
      BY <1>6, <2>0, <2>a, <2>2 DEF Codec!initialize, Codec!Enter
    <3> QED
      BY <3>1, <3>2, <3>3
  <2> QED
    BY <2>1, <2>2
<1>7. CASE Codec!codec2_create(w)
  <2>0. pc[v] = "idle"
    BY <1>7 DEF Bounded, Codec!codec2_create
  <2>1. Apart(w, v)'
    BY <1>7, <2>0 DEF Codec!codec2_create, Codec!Call
  <2>2. Apart(v, w)'
    BY <1>7, <2>0 DEF Codec!codec2_create, Codec!Call
  <2>3. error' \in CallErrors
    BY <1>7, <2>0 DEF Codec!codec2_create, Codec!Call
  <2> QED
    BY <2>1, <2>2, <2>3
<1>8. CASE Codec!codec2Init(w)
  <2>1. Apart(w, v)'
    BY <1>8 DEF Codec!codec2Init
  <2>2. Apart(v, w)'
    BY <1>8 DEF Codec!codec2Init
  <2>3. error' \in CallErrors
    BY <1>8 DEF Codec!codec2Init
  <2> QED
    BY <2>1, <2>2, <2>3
<1>9. CASE Codec!codec2InitFails(w)
  <2>1. Apart(w, v)'
    BY <1>9 DEF Codec!codec2InitFails
  <2>2. Apart(v, w)'
    BY <1>9 DEF Codec!codec2InitFails
  <2>3. error' \in CallErrors
    BY <1>9 DEF Codec!codec2InitFails
  <2> QED
    BY <2>1, <2>2, <2>3
<1>10. CASE Codec!readCount(w)
  <2>1. Apart(w, v)'
    BY <1>10 DEF Codec!readCount
  <2>2. Apart(v, w)'
    BY <1>10 DEF Codec!readCount
  <2>3. error' \in CallErrors
    BY <1>10 DEF Codec!readCount
  <2> QED
    BY <2>1, <2>2, <2>3
<1>11. CASE Codec!increment(w)
  <2>1. Apart(w, v)'
    BY <1>11 DEF Codec!increment
  <2>2. Apart(v, w)'
    BY <1>11 DEF Codec!increment
  <2>3. error' \in CallErrors
    BY <1>11 DEF Codec!increment
  <2> QED
    BY <2>1, <2>2, <2>3
<1>12. CASE Codec!checkIfInitialized(w)
  <2>1. CASE initializedTimes = 0
    <3>1. Apart(w, v)'
      BY <1>12, <2>1 DEF Codec!checkIfInitialized, Codec!Fail
    <3>2. Apart(v, w)'
      BY <1>12, <2>1 DEF Codec!checkIfInitialized, Codec!Fail
    <3>3. error' \in CallErrors
      BY <1>12, <2>1 DEF Codec!checkIfInitialized, Codec!Fail
    <3> QED
      BY <3>1, <3>2, <3>3
  <2>2. CASE initializedTimes # 0
    <3>1. Apart(w, v)'
      BY <1>12, <2>2 DEF Codec!checkIfInitialized, Codec!Fail
    <3>2. Apart(v, w)'
      BY <1>12, <2>2 DEF Codec!checkIfInitialized, Codec!Fail
    <3>3. error' \in CallErrors
      BY <1>12, <2>2 DEF Codec!checkIfInitialized, Codec!Fail
    <3> QED
      BY <3>1, <3>2, <3>3
  <2> QED
    BY <2>1, <2>2
<1>13. CASE Codec!codec2Code(w)
  <2>1. CASE codec2 = Codec!Null
    <3>1. Apart(w, v)'
      BY <1>13, <2>1 DEF Codec!codec2Code, Codec!Fail, Codec!Call
    <3>2. Apart(v, w)'
      BY <1>13, <2>1 DEF Codec!codec2Code, Codec!Fail, Codec!Call
    <3>3. error' \in CallErrors
      BY <1>13, <2>1 DEF Codec!codec2Code, Codec!Fail, Codec!Call
    <3> QED
      BY <3>1, <3>2, <3>3
  <2>2. CASE codec2 # Codec!Null
    <3>1. Apart(w, v)'
      BY <1>13, <2>2 DEF Codec!codec2Code, Codec!Fail, Codec!Call
    <3>2. Apart(v, w)'
      BY <1>13, <2>2 DEF Codec!codec2Code, Codec!Fail, Codec!Call
    <3>3. error' \in CallErrors
      BY <1>13, <2>2 DEF Codec!codec2Code, Codec!Fail, Codec!Call
    <3> QED
      BY <3>1, <3>2, <3>3
  <2> QED
    BY <2>1, <2>2
<1>14. CASE Codec!update(w)
  <2>1. CASE tmp[w] \in live
    <3>1. Apart(w, v)'
      BY <1>14, <2>1 DEF Codec!update, Codec!Fail
    <3>2. Apart(v, w)'
      BY <1>14, <2>1 DEF Codec!update, Codec!Fail
    <3>3. error' \in CallErrors
      BY <1>14, <2>1 DEF Codec!update, Codec!Fail
    <3> QED
      BY <3>1, <3>2, <3>3
  <2>2. CASE tmp[w] \notin live
    <3>1. Apart(w, v)'
      BY <1>14, <2>2 DEF Codec!update, Codec!Fail
    <3>2. Apart(v, w)'
      BY <1>14, <2>2 DEF Codec!update, Codec!Fail
    <3>3. error' \in CallErrors
      BY <1>14, <2>2 DEF Codec!update, Codec!Fail
    <3> QED
      BY <3>1, <3>2, <3>3
  <2> QED
    BY <2>1, <2>2
<1>15. CASE Codec!release(w)
  <2>0. initializedTimes # 0 => ~ Codec!InLock(v) /\ ~ raced
    BY <1>15 DEF Codec!release, Codec!Enter
  <2>1. CASE initializedTimes = 0
    <3>1. Apart(w, v)'
      BY <1>15, <2>0, <2>1 DEF Codec!release, Codec!Fail, Codec!Enter
    <3>2. Apart(v, w)'
      BY <1>15, <2>0, <2>1 DEF Codec!release, Codec!Fail, Codec!Enter
    <3>3. error' \in CallErrors
      BY <1>15, <2>0, <2>1 DEF Codec!release, Codec!Fail, Codec!Enter
    <3> QED
      BY <3>1, <3>2, <3>3
  <2>2. CASE initializedTimes # 0
    <3>1. Apart(w, v)'
      BY <1>15, <2>0, <2>2 DEF Codec!release, Codec!Fail, Codec!Enter
    <3>2. Apart(v, w)'
      BY <1>15, <2>0, <2>2 DEF Codec!release, Codec!Fail, Codec!Enter
    <3>3. error' \in CallErrors
      BY <1>15, <2>0, <2>2 DEF Codec!release, Codec!Fail, Codec!Enter
    <3> QED
      BY <3>1, <3>2, <3>3
  <2> QED
    BY <2>1, <2>2
<1>16. CASE Codec!decrement(w)
  <2>1. Apart(w, v)'
    BY <1>16 DEF Codec!decrement
  <2>2. Apart(v, w)'
    BY <1>16 DEF Codec!decrement
  <2>3. error' \in CallErrors
    BY <1>16 DEF Codec!decrement
  <2> QED
    BY <2>1, <2>2, <2>3
<1>17. CASE Codec!codec2Release(w)
  <2>0. pc[v] = "idle" <=> initializedTimes = 0
    BY <1>17, <1>i DEF Codec!codec2Release
  <2>1. CASE initializedTimes # 0
    <3>1. Apart(w, v)'
      BY <1>17, <2>0, <2>1 DEF Codec!codec2Release, Codec!Fail
    <3>2. Apart(v, w)'
      BY <1>17, <2>0, <2>1 DEF Codec!codec2Release, Codec!Fail
    <3>3. error' \in CallErrors
      BY <1>17, <2>0, <2>1 DEF Codec!codec2Release, Codec!Fail
    <3> QED
      BY <3>1, <3>2, <3>3
  <2>2. CASE initializedTimes = 0 /\ codec2 = Codec!Null
    <3>1. Apart(w, v)'
      BY <1>17, <2>0, <2>2 DEF Codec!codec2Release, Codec!Fail
    <3>2. Apart(v, w)'
      BY <1>17, <2>0, <2>2 DEF Codec!codec2Release, Codec!Fail
    <3>3. error' \in CallErrors
      BY <1>17, <2>0, <2>2 DEF Codec!codec2Release, Codec!Fail
    <3> QED
      BY <3>1, <3>2, <3>3
  <2>3. CASE initializedTimes = 0 /\ codec2 # Codec!Null /\ codec2 \notin live
    <3>1. Apart(w, v)'
      BY <1>17, <2>0, <2>3 DEF Codec!codec2Release, Codec!Fail
    <3>2. Apart(v, w)'
      BY <1>17, <2>0, <2>3 DEF Codec!codec2Release, Codec!Fail
    <3>3. error' \in CallErrors
      BY <1>17, <2>0, <2>3 DEF Codec!codec2Release, Codec!Fail
    <3> QED
      BY <3>1, <3>2, <3>3
  <2>4. CASE initializedTimes = 0 /\ codec2 # Codec!Null /\ codec2 \in live
    <3>1. Apart(w, v)'
      BY <1>17, <2>0, <2>4 DEF Codec!codec2Release, Codec!Fail
    <3>2. Apart(v, w)'
      BY <1>17, <2>0, <2>4 DEF Codec!codec2Release, Codec!Fail
    <3>3. error' \in CallErrors
      BY <1>17, <2>0, <2>4 DEF Codec!codec2Release, Codec!Fail
    <3> QED
      BY <3>1, <3>2, <3>3
  <2> QED
    BY <2>1, <2>2, <2>3, <2>4
<1> QED
  BY <1>1, <1>2, <1>3, <1>4, <1>5, <1>6, <1>7, <1>8, <1>9, <1>10, <1>11, <1>12, <1>13,
     <1>14, <1>15, <1>16, <1>17 DEF Codec!Work, Codec!Fft

\* Every step keeps the types.
LEMMA CodecTypes ==
    ASSUME NEW w \in Codec!Workers, NEW v \in Codec!Workers, w # v,
           Codec!CodecAssumption, Codec!TypeOK, Bounded(w, v), Bounded(v, w), Codec!Work(w),
           Bounded(w, v)', Bounded(v, w)'
    PROVE  Codec!TypeOK'
<1>w. Codec!Workers = {w, v} /\ MaxSessions \in Nat /\ MaxSessions' = MaxSessions
  BY DEF Codec!Workers, Codec!CodecAssumption
<1>t. /\ initializedTimes \in Int /\ created \in Nat
      /\ codec2 \in 0 .. created /\ live \subseteq 1 .. created
  BY <1>w DEF Codec!TypeOK
<1>c. /\ codec2' \in 0 .. created' /\ live' \subseteq 1 .. created'
      /\ initializedTimes' \in Int /\ created' \in Nat
  <2> USE <1>t DEF Codec!countVars
  <2>1. CASE Codec!Fft(w)
    BY <2>1 DEF Codec!Fft, Codec!fft, Codec!initialize_fft, Codec!fill, Codec!kiss_fft,
       Codec!read
  <2>2. CASE Codec!initialize(w) \/ Codec!readCount(w) \/ Codec!checkIfInitialized(w)
             \/ Codec!codec2Code(w) \/ Codec!update(w) \/ Codec!release(w)
    BY <2>2 DEF Codec!initialize, Codec!readCount, Codec!checkIfInitialized,
       Codec!codec2Code,
                Codec!update, Codec!release
  <2>3. CASE Codec!codec2_create(w)
    <3>1. created' = created + 1 /\ codec2' = codec2 /\ live' = live \cup {created + 1}
          /\ initializedTimes' = initializedTimes
      BY <2>3 DEF Codec!codec2_create
    <3> QED
      BY <3>1
  <2>4. CASE Codec!codec2Init(w)
    BY <2>4 DEF Codec!codec2Init, Codec!At, Bounded, Creating
  <2>5. CASE Codec!codec2InitFails(w)
    BY <2>5 DEF Codec!codec2InitFails, Codec!Null
  <2>7. CASE Codec!increment(w) \/ Codec!decrement(w)
    <3>1. tmp[w] \in Int
      BY DEF Codec!TypeOK
    <3>2. /\ initializedTimes' = tmp[w] + 1 \/ initializedTimes' = tmp[w] - 1
          /\ codec2' = codec2 /\ live' = live /\ created' = created
      BY <2>7 DEF Codec!increment, Codec!decrement
    <3> QED
      BY <3>1, <3>2
  <2>6. CASE Codec!codec2Release(w)
    BY <2>6 DEF Codec!codec2Release
  <2> QED
    BY <2>1, <2>2, <2>3, <2>4, <2>5, <2>6, <2>7 DEF Codec!Work
<1>p. /\ pc' \in [Codec!Workers -> Codec!Steps] /\ ret' \in [Codec!Workers -> Codec!Steps]
  <2> USE DEF Codec!At, Codec!Goto, Codec!Fail, Codec!Enter, Codec!Call, Codec!TypeOK, Codec!Steps
  <2>1. CASE Codec!Fft(w)
    BY <2>1 DEF Codec!Fft, Codec!fft, Codec!initialize_fft, Codec!fill, Codec!kiss_fft,
       Codec!read
  <2>2. CASE Codec!codec2_create(w) \/ Codec!codec2Init(w) \/ Codec!codec2InitFails(w)
             \/ Codec!initialize(w)
    BY <2>2 DEF Codec!codec2_create, Codec!codec2Init, Codec!codec2InitFails,
       Codec!initialize
  <2>3. CASE Codec!readCount(w) \/ Codec!increment(w) \/ Codec!checkIfInitialized(w)
    BY <2>3 DEF Codec!readCount, Codec!increment, Codec!checkIfInitialized
  <2>4. CASE Codec!codec2Code(w)
    BY <2>4 DEF Codec!codec2Code
  <2>5. CASE Codec!update(w) \/ Codec!decrement(w)
    BY <2>5 DEF Codec!update, Codec!decrement
  <2>6. CASE Codec!release(w)
    BY <2>6 DEF Codec!release
  <2>7. CASE Codec!codec2Release(w)
    BY <2>7 DEF Codec!codec2Release
  <2> QED
    BY <2>1, <2>2, <2>3, <2>4, <2>5, <2>6, <2>7 DEF Codec!Work
<1>m. tmp' \in [Codec!Workers -> Int]
  <2>t. tmp \in [Codec!Workers -> Int]
    BY DEF Codec!TypeOK
  <2> USE <2>t, <1>t
  <2>1. CASE Codec!Fft(w)
    BY <2>1 DEF Codec!Fft, Codec!fft, Codec!initialize_fft, Codec!fill, Codec!kiss_fft,
       Codec!read
  <2>2. CASE Codec!codec2_create(w)
    BY <2>2 DEF Codec!codec2_create
  <2>3. CASE Codec!readCount(w)
    BY <2>3 DEF Codec!readCount
  <2>4. CASE Codec!codec2Code(w)
    <3>1. tmp' = tmp \/ tmp' = [tmp EXCEPT ![w] = codec2]
      BY <2>4 DEF Codec!codec2Code
    <3> QED
      BY <3>1
  <2>5. CASE Codec!release(w)
    BY <2>5 DEF Codec!release
  <2>6. CASE \/ Codec!initialize(w) \/ Codec!codec2Init(w) \/ Codec!codec2InitFails(w)
             \/ Codec!increment(w) \/ Codec!checkIfInitialized(w) \/ Codec!update(w)
             \/ Codec!decrement(w) \/ Codec!codec2Release(w)
    BY <2>6 DEF Codec!initialize, Codec!codec2Init, Codec!codec2InitFails, Codec!increment,
                Codec!checkIfInitialized, Codec!update, Codec!decrement, Codec!codec2Release
  <2> QED
    BY <2>1, <2>2, <2>3, <2>4, <2>5, <2>6 DEF Codec!Work
<1>f. /\ cfg' \subseteq {"forward", "reverse"}
      /\ sign' \in [Codec!Workers -> {"forward", "reverse"}]
      /\ fin' \in Codec!Workers \cup {Codec!None} /\ fout' \in Codec!Workers \cup {Codec!None}
      /\ spectrum' \in [Codec!Workers -> Codec!Workers]
  <2> USE DEF Codec!At, Codec!Call, Codec!TypeOK, Codec!fftVars
  <2>1. CASE Codec!fft(w) \/ Codec!initialize_fft(w) \/ Codec!fill(w) \/ Codec!kiss_fft(w)
    BY <2>1 DEF Codec!fft, Codec!initialize_fft, Codec!fill, Codec!kiss_fft
  <2>2. CASE Codec!read(w)
    <3>1. fout \in Codec!Workers
      BY <2>2 DEF Codec!read, Bounded
    <3> QED
      BY <2>2, <3>1 DEF Codec!read
  <2>3. CASE Codec!codec2_create(w)
    BY <2>3 DEF Codec!codec2_create
  <2>4. CASE Codec!codec2Code(w)
    BY <2>4 DEF Codec!codec2Code
  <2>5. CASE Codec!initialize(w) \/ Codec!codec2Init(w) \/ Codec!codec2InitFails(w)
             \/ Codec!readCount(w) \/ Codec!increment(w) \/ Codec!checkIfInitialized(w)
    BY <2>5 DEF Codec!initialize, Codec!codec2Init, Codec!codec2InitFails, Codec!readCount,
                Codec!increment, Codec!checkIfInitialized
  <2>6. CASE Codec!update(w) \/ Codec!release(w) \/ Codec!decrement(w) \/ Codec!codec2Release(w)
    BY <2>6 DEF Codec!update, Codec!release, Codec!decrement, Codec!codec2Release
  <2> QED
    BY <2>1, <2>2, <2>3, <2>4, <2>5, <2>6 DEF Codec!Work, Codec!Fft
<1>e. error' \in Codec!Errors \cup {Codec!None} /\ raced' \in BOOLEAN
  <2> USE DEF Codec!Goto, Codec!Fail, Codec!Enter, Codec!TypeOK, Codec!Errors, Codec!None
  <2>1. CASE Codec!Fft(w)
    BY <2>1 DEF Codec!Fft, Codec!fft, Codec!initialize_fft, Codec!fill, Codec!kiss_fft,
       Codec!read
  <2>2. CASE Codec!initialize(w)
    BY <2>2 DEF Codec!initialize
  <2>3. CASE Codec!release(w)
    BY <2>3 DEF Codec!release
  <2>4. CASE Codec!codec2_create(w) \/ Codec!codec2Init(w) \/ Codec!codec2InitFails(w)
             \/ Codec!readCount(w) \/ Codec!increment(w) \/ Codec!decrement(w)
    BY <2>4 DEF Codec!codec2_create, Codec!codec2Init, Codec!codec2InitFails,
       Codec!readCount,
                Codec!increment, Codec!decrement
  <2>5. CASE Codec!checkIfInitialized(w) \/ Codec!codec2Code(w) \/ Codec!update(w)
             \/ Codec!codec2Release(w)
    BY <2>5 DEF Codec!checkIfInitialized, Codec!codec2Code, Codec!update,
       Codec!codec2Release
  <2> QED
    BY <2>1, <2>2, <2>3, <2>4, <2>5 DEF Codec!Work
<1>s. sessions' \in [Codec!Workers -> 0 .. MaxSessions]
  <2> USE DEF Codec!TypeOK
  <2>1. CASE Codec!Fft(w)
    BY <2>1 DEF Codec!Fft, Codec!fft, Codec!initialize_fft, Codec!fill, Codec!kiss_fft,
       Codec!read
  <2>2. CASE Codec!initialize(w)
    BY <1>w, <2>2 DEF Codec!initialize
  <2>3. CASE ~ Codec!Fft(w) /\ ~ Codec!initialize(w)
    BY <2>3 DEF Codec!Work, Codec!codec2_create, Codec!codec2Init, Codec!codec2InitFails,
                Codec!readCount, Codec!increment, Codec!checkIfInitialized, Codec!codec2Code,
                Codec!update, Codec!release, Codec!decrement, Codec!codec2Release
  <2> QED
    BY <2>1, <2>2, <2>3
<1>n. /\ initializedTimes' \in (0 - 2 * MaxSessions) .. (2 * MaxSessions)
      /\ created' \in 0 .. (2 * MaxSessions)
  <2>1. sessions'[w] \in 0 .. MaxSessions /\ sessions'[v] \in 0 .. MaxSessions
    BY <1>s
  <2>2. Codec!Workers' = Codec!Workers
    BY DEF Codec!Workers
  <2> HIDE <1>w
  <2>3. /\ Taken(w)' + Taken(v)' <= 2 * MaxSessions /\ Added(w)' + Added(v)' <= 2 * MaxSessions
        /\ Made(w)' + Made(v)' <= 2 * MaxSessions
    BY <1>w, <2>1 DEF Taken, Added, Made
  <2>4. /\ Taken(w)' \in Int /\ Taken(v)' \in Int /\ Added(w)' \in Int /\ Added(v)' \in Int
        /\ Made(w)' \in Int /\ Made(v)' \in Int
    BY <2>1 DEF Taken, Added, Made
  <2> QED
    BY <1>w, <1>c, <2>3, <2>4 DEF Bounded
<1> QED
  BY <1>c, <1>p, <1>m, <1>f, <1>e, <1>s, <1>n
     DEF Codec!TypeOK, Codec!Workers, Codec!Steps, Codec!Errors, Codec!None

\* The codec starts in the invariant.
LEMMA CodecInitially ==
    ASSUME Codec!CodecAssumption, Codec!Init
    PROVE  CodecInv
<1>1. Codec!TypeOK
  <2>1. /\ pc \in [Codec!Workers -> Codec!Steps] /\ ret \in [Codec!Workers -> Codec!Steps]
        /\ sign \in [Codec!Workers -> {"forward", "reverse"}]
    BY DEF Codec!Init, Codec!Steps
  <2>2. /\ tmp \in [Codec!Workers -> Int] /\ spectrum \in [Codec!Workers -> Codec!Workers]
        /\ sessions \in [Codec!Workers -> 0 .. MaxSessions] /\ 2 * MaxSessions \in Nat
    BY DEF Codec!Init, Codec!CodecAssumption
  <2>3. /\ initializedTimes \in (0 - 2 * MaxSessions) .. (2 * MaxSessions)
        /\ created \in 0 .. (2 * MaxSessions) /\ codec2 \in 0 .. created
        /\ live \subseteq 1 .. created
    BY <2>2 DEF Codec!Init, Codec!Null
  <2> QED
    BY <2>1, <2>2, <2>3 DEF Codec!Init, Codec!TypeOK
<1>2. ASSUME NEW w \in Codec!Workers, NEW v \in Codec!Workers, w # v
      PROVE  Bounded(w, v) /\ Apart(w, v)
  <2>1. pc[w] = "idle" /\ pc[v] = "idle" /\ sessions[w] = 0 /\ sessions[v] = 0
    BY <1>2 DEF Codec!Init
  <2>2. Bounded(w, v)
    BY <2>1 DEF Codec!Init, Bounded, Added, Taken, Made, Creating, InFft
  <2>3. Apart(w, v)
    BY <2>1 DEF Codec!Init, Apart, Users, Counted, Using, Creating, InFft, Codec!InLock,
                Pointed, Plans, Codec!Null
  <2> QED
    BY <2>2, <2>3
<1> QED
  BY <1>1, <1>2 DEF CodecInv, CallErrors, Codec!Init

\* Every step keeps the invariant.
LEMMA CodecStep ==
    ASSUME Codec!CodecAssumption, CodecInv, [Codec!Next]_Codec!vars
    PROVE  CodecInv'
<1>1. CASE UNCHANGED Codec!vars
  BY <1>1 DEF CodecInv, Codec!vars, Codec!countVars, Codec!fftVars, Codec!TypeOK, Bounded,
     Apart,
              Added, Taken, Made, Users, Counted, Using, Creating, InFft, Codec!InLock, Pointed
<1>2. CASE Codec!Next
  <2>1. PICK w \in Codec!Workers : Codec!Work(w)
    BY <1>2 DEF Codec!Next
  <2>2. PICK v \in Codec!Workers : w # v
    BY <2>1 DEF Codec!Workers, Codec!CodecAssumption
  <2>3. Codec!TypeOK /\ Bounded(w, v) /\ Bounded(v, w)
    BY <2>2 DEF CodecInv
  <2>4. Bounded(w, v)' /\ Bounded(v, w)'
    BY <2>1, <2>2, <2>3, CodecBounded
  <2>5. Codec!TypeOK'
    BY <2>1, <2>2, <2>3, <2>4, CodecTypes
  <2>6. ASSUME ~ raced'
        PROVE  error' \in CallErrors /\ Apart(w, v)' /\ Apart(v, w)'
    <3>1. ~ raced
      BY <2>1, <2>6 DEF Codec!Work, Codec!Fft, Codec!fft, Codec!initialize_fft, Codec!fill,
            Codec!kiss_fft, Codec!read, Codec!initialize, Codec!codec2_create, Codec!codec2Init,
            Codec!codec2InitFails, Codec!readCount, Codec!increment, Codec!checkIfInitialized,
            Codec!codec2Code, Codec!update, Codec!release, Codec!decrement, Codec!codec2Release,
            Codec!Enter
    <3>2. error \in CallErrors /\ Apart(w, v) /\ Apart(v, w)
      BY <2>2, <3>1 DEF CodecInv
    <3> QED
      BY <2>1, <2>2, <2>3, <2>6, <3>2, CodecApart
  <2>7. \A p, q \in Codec!Workers : p # q => (p = w /\ q = v) \/ (p = v /\ q = w)
    BY <2>2 DEF Codec!Workers
  <2>8. (\A p, q \in Codec!Workers : p # q => Bounded(p, q))'
    BY <2>4, <2>7 DEF Codec!Workers
  <2>9. ~ raced' => /\ error' \in CallErrors
                    /\ (\A p, q \in Codec!Workers : p # q => Apart(p, q))'
    BY <2>6, <2>7 DEF Codec!Workers
  <2> QED
    BY <2>5, <2>8, <2>9 DEF CodecInv, CallErrors
<1> QED
  BY <1>1, <1>2

\* The invariant gives what is promised of the codec.
LEMMA CodecPromised ==
    ASSUME Codec!CodecAssumption, CodecInv
    PROVE  Codec!TypeOK /\ Codec!HeldCodecIsLive /\ Codec!IdleCodecIsFreed
<1>1. PICK w \in Codec!Workers, v \in Codec!Workers :
          w # v /\ (\A p \in Codec!Workers : p = w \/ p = v)
  BY DEF Codec!Workers, Codec!CodecAssumption
<1>2. Bounded(w, v) /\ Bounded(v, w) /\ Codec!TypeOK
  BY <1>1 DEF CodecInv
<1>3. ASSUME ~ raced
      PROVE  error \in CallErrors /\ Apart(w, v) /\ Apart(v, w)
  BY <1>1, <1>3 DEF CodecInv
<1>4. ASSUME NEW p \in Codec!Workers, ~ raced, Codec!Holds(p), codec2 # Codec!Null
      PROVE  codec2 \in live
  <2>1. pc[p] # "idle" /\ ~ Creating(p)
    BY <1>4 DEF Codec!Holds, Codec!InLock, Creating, InFft
  <2>2. live = Pointed
    BY <1>1, <1>3, <1>4, <2>1 DEF Apart
  <2> QED
    BY <1>4, <2>2 DEF Pointed
<1>5. Codec!HeldCodecIsLive
  BY <1>3, <1>4 DEF Codec!HeldCodecIsLive, CallErrors
<1>6. Codec!IdleCodecIsFreed
  <2> SUFFICES ASSUME ~ raced, \A p \in Codec!Workers : pc[p] = "idle"
               PROVE  live = {} /\ initializedTimes = 0
    BY DEF Codec!IdleCodecIsFreed
  <2>1. pc[w] = "idle" /\ pc[v] = "idle"
    OBVIOUS
  <2> QED
    BY <1>3, <2>1 DEF Apart, Users, Counted, Using, InFft
<1> QED
  BY <1>2, <1>5, <1>6

\* The codec that encoder and decoder share: unless the workers meet in initialize or
\* release neither ever runs into a codec that the other has freed, and nothing stays
\* allocated when none runs, however often they start.
\* (Codec2.initialize, release, codec2Init, codec2Release)
THEOREM SharedCodecIsLive == PartSpec => []CodecIsLive
<1> DEFINE Inv == part = "codec" => CodecInv
<1>1. PartInit => Inv
  BY CodecInitially, PartsAssumption DEF PartInit, PartsAssumption
<1>2. Inv /\ [PartNext]_partVars => Inv'
  <2> SUFFICES ASSUME Inv, [PartNext]_partVars, part' = "codec" PROVE CodecInv'
    OBVIOUS
  <2>1. part = "codec"
    BY DEF PartNext, partVars
  <2>2. [Codec!Next]_(Codec!vars)
    BY <2>1 DEF PartNext, partVars, codecVars, Codec!vars, Codec!countVars, Codec!fftVars
  <2> QED
    BY <2>1, <2>2, CodecStep, PartsAssumption DEF PartsAssumption
<1>3. Inv => CodecIsLive
  BY CodecPromised, PartsAssumption DEF CodecIsLive, PartsAssumption
<1> QED
  BY <1>1, <1>2, <1>3, PTL DEF PartSpec

-----------------------------------------------------------------------------
(***************************************************************************)
(* The models the decoder makes of a frame                                 *)
(***************************************************************************)

\* What the units give for the sizes of the code.
LEMMA DecodeUnits ==
    /\ Decode!Wo_min = 1280 /\ Decode!Wo_max = 10240 /\ Decode!PI = 102400
    /\ Decode!BinWidth = 400 /\ Decode!PlaceHolder \in Nat /\ Decode!PlaceHolder > 102400
    /\ Decode!FFT_DEC = 512 /\ Decode!MAX_AMP = 80 /\ Decode!WO_LEVELS = 128
<1>1. /\ Decode!Wo_min = 1280 /\ Decode!FFT_DEC = 512
      /\ Decode!MAX_AMP = 80 /\ Decode!WO_LEVELS = 128
  BY SMT DEF Decode!Wo_min, Decode!FFT_DEC, Decode!MAX_AMP, Decode!WO_LEVELS
<1>2. Decode!Wo_max = 10240 /\ Decode!PI = 102400
  BY <1>1, SMT DEF Decode!Wo_max, Decode!PI, Decode!P_MAX, Decode!P_MIN
<1>3. Decode!BinWidth = 400 /\ Decode!PlaceHolder \in Nat /\ Decode!PlaceHolder > 102400
  BY <1>1, <1>2, SMT DEF Decode!BinWidth, Decode!PlaceHolder
<1> QED
  BY <1>1, <1>2, <1>3, SMT

\* A model is made of its pitch: one of the quantiser's range, or the placeholder.
IsModel(h) == h = Decode!Model(h.Wo, h.voiced) /\ h.voiced \in BOOLEAN
HasPitch(h) == IsModel(h) /\ h.Wo \in Nat /\ h.Wo >= 1280 /\ h.Wo <= 10240
Sounds(h) == /\ IsModel(h) /\ h.Wo \in Nat /\ h.Wo >= 1280
             /\ h.Wo <= 10240 \/ h.Wo = Decode!PlaceHolder

DecodeInv ==
    /\ HasPitch(model) /\ Sounds(interp) /\ prev = model
    /\ frame_before \in [Wo : Nat, voiced : BOOLEAN] /\ Decode!FollowsNeighbours

\* The harmonics of a pitch.
LEMMA HarmonicsOf ==
    ASSUME NEW w \in Nat, w > 0
    PROVE  /\ Decode!Harmonics(w) \in Nat
           /\ Decode!Harmonics(w) * w <= 102399
           /\ w >= 1280 => Decode!Harmonics(w) < 80
           /\ w > 102399 => Decode!Harmonics(w) = 0
<1>1. Decode!Harmonics(w) = 102399 \div w
  BY SMT, DecodeUnits DEF Decode!Harmonics
<1> DEFINE q == 102399 \div w
           r == 102399 % w
<1>2. 102399 = w * q + r /\ r \in 0 .. w - 1 /\ q \in Nat
  BY SMT
<1> HIDE DEF q, r
<1>3. q * w <= 102399
  BY SMT, <1>2
<1>4. ASSUME w >= 1280 PROVE q < 80
  <2>1. q >= 80 => q * w >= 80 * w
    BY SMT, <1>2
  <2> QED
    BY SMT, <1>2, <1>3, <1>4, <2>1
<1>5. ASSUME w > 102399 PROVE q = 0
  <2>1. q >= 1 => q * w >= w
    BY SMT, <1>2
  <2> QED
    BY SMT, <1>2, <1>3, <1>5, <2>1
<1> QED
  BY SMT, <1>1, <1>2, <1>3, <1>4, <1>5 DEF q

\* A model has the harmonics of its pitch.
LEMMA ModelIs ==
    ASSUME NEW w \in Nat, NEW v \in BOOLEAN
    PROVE  /\ IsModel(Decode!Model(w, v)) /\ Decode!Model(w, v).Wo = w
           /\ Decode!Model(w, v).voiced = v
BY DEF Decode!Model, IsModel

\* Where the harmonics of a pitch lie, in one lemma on numbers.
LEMMA HarmonicPlace ==
    ASSUME NEW w \in Nat, NEW L \in Nat, NEW m \in 1 .. L, L * w <= 102399
    PROVE  /\ m * w \in Nat /\ w <= m * w /\ m * w <= 102399 /\ (m > 1 => 2 * w <= m * w)
           /\ (2 * m - 1) * w = 2 * (m * w) - w /\ (2 * m + 1) * w = 2 * (m * w) + w
           /\ 2 * m * w = 2 * (m * w) /\ 2 * (m - 1) * w = 2 * (m * w) - 2 * w
<1>1. PICK e \in Nat : L = m + e
  BY SMT
<1>2. L * w = m * w + e * w /\ e * w >= 0
  BY <1>1, SMT
<1>3. PICK d \in Nat : m = d + 1
  BY SMT
<1>4. m * w = d * w + w /\ d * w \in Nat
  BY <1>3, SMT
<1>5. m > 1 => d * w >= w
  <2> SUFFICES ASSUME m > 1 PROVE d * w >= w
    BY SMT
  <2>1. PICK c \in Nat : d = c + 1
    BY <1>3, SMT
  <2>2. d * w = c * w + w /\ c * w >= 0
    BY <2>1, SMT
  <2> QED
    BY <1>4, <2>2, SMT
<1>6. m * w \in Nat /\ e * w \in Nat
  BY SMT
<1>7. m * w <= 102399
  BY <1>2, <1>6, SMT
<1>8. /\ (2 * m - 1) * w = 2 * (m * w) - w /\ (2 * m + 1) * w = 2 * (m * w) + w
      /\ 2 * m * w = 2 * (m * w) /\ 2 * (m - 1) * w = 2 * (m * w) - 2 * w
  BY SMT
<1> QED
  BY <1>4, <1>5, <1>6, <1>7, <1>8, SMT

\* The types, and the bounds of the arrays, of a model that sounds.
LEMMA SoundsIs ==
    ASSUME NEW h, Sounds(h)
    PROVE  /\ h \in [Wo : Decode!Wo_min .. Decode!PlaceHolder, L : Nat, voiced : BOOLEAN]
           /\ h.L \in Nat /\ h.L < 80 /\ h.L * h.Wo <= 102399
           /\ h.Wo = Decode!PlaceHolder => h.L = 0
           /\ h.L > 0 => h.Wo \in Nat /\ 1280 <= h.Wo /\ h.Wo <= 10240
<1>1. PICK w \in Nat : w = h.Wo /\ w >= 1280 /\ (w <= 10240 \/ w = Decode!PlaceHolder)
  BY SMT DEF Sounds
<1>2. PICK v \in BOOLEAN : h = [Wo |-> w, L |-> Decode!Harmonics(w), voiced |-> v]
  BY <1>1, SMT DEF Sounds, IsModel, Decode!Model
<1>3. h.L = Decode!Harmonics(w)
  BY <1>2, SMT
<1>4. PICK n \in Nat : /\ n = Decode!Harmonics(w) /\ n < 80 /\ n * w <= 102399
                       /\ w > 102399 => n = 0
  BY <1>1, HarmonicsOf, SMT
<1>5. w \in Decode!Wo_min .. Decode!PlaceHolder
  <2>1. Decode!Wo_min = 1280 /\ Decode!PlaceHolder \in Nat /\ Decode!PlaceHolder > 102400
    BY DecodeUnits, SMT
  <2>2. CASE w <= 10240
    BY <1>1, <2>1, <2>2, SMT
  <2>3. CASE w = Decode!PlaceHolder
    BY <1>1, <2>1, <2>3, SMT
  <2> QED
    BY <1>1, <2>2, <2>3, SMT
<1>6. h \in [Wo : Decode!Wo_min .. Decode!PlaceHolder, L : Nat, voiced : BOOLEAN]
  BY <1>2, <1>4, <1>5, SMT
<1>7. h.L = n /\ h.Wo = w
  BY <1>1, <1>3, <1>4, SMT
<1>8. w = Decode!PlaceHolder => n = 0
  BY <1>4, DecodeUnits, SMT
<1>9. n > 0 => w <= 10240
  BY <1>1, <1>4, <1>8, SMT
<1> QED
  BY <1>1, <1>4, <1>6, <1>7, <1>8, <1>9, SMT

\* A frequency falls into a bin within half a bin of it.
LEMMA BinsAre ==
    ASSUME NEW t \in Nat, NEW b \in Decode!Bins(t)
    PROVE  b \in Int /\ 800 * b <= t + 400 /\ t + 400 <= 800 * b + 800
BY DecodeUnits, SMT DEF Decode!Bins

\* The bins of the harmonics of a model that sounds.
LEMMA BinsApart ==
    ASSUME NEW h, Sounds(h), NEW m \in 1 .. h.L
    PROVE  /\ \A a \in Decode!am(h, m), b \in Decode!bm(h, m) : 0 < a /\ a < b /\ b <= 512
           /\ \A c \in Decode!CentreBin(h, m) :
                  /\ 0 < c /\ c < 512 - c
                  /\ m > 1 => \A d \in Decode!CentreBin(h, m - 1) : d < c
<1>1. PICK L \in Nat, w \in Nat : /\ L = h.L /\ w = h.Wo /\ L * w <= 102399
                                  /\ 1280 <= w /\ w <= 10240
  <2>1. h.L \in Nat /\ h.L > 0
    BY SoundsIs, SMT
  <2> QED
    BY <2>1, SoundsIs, SMT
<1>2. m \in 1 .. L /\ w = h.Wo
  BY <1>1, SMT
<1>3. PICK y \in Nat :
          /\ w <= y /\ y <= 102399 /\ (m > 1 => 2 * w <= y)
          /\ (2 * m - 1) * w = 2 * y - w /\ (2 * m + 1) * w = 2 * y + w
          /\ 2 * m * w = 2 * y /\ 2 * (m - 1) * w = 2 * y - 2 * w
  <2> DEFINE p == m * w
  <2>1. /\ p \in Nat /\ w <= p /\ p <= 102399 /\ (m > 1 => 2 * w <= p)
        /\ (2 * m - 1) * w = 2 * p - w /\ (2 * m + 1) * w = 2 * p + w
        /\ 2 * m * w = 2 * p /\ 2 * (m - 1) * w = 2 * p - 2 * w
    BY <1>1, <1>2, HarmonicPlace, SMT
  <2> HIDE DEF p
  <2> QED
    BY <2>1, SMT
<1>4. /\ 2 * y - w \in Nat /\ 2 * y + w \in Nat /\ 2 * y \in Nat
      /\ m > 1 => 2 * y - 2 * w \in Nat
  BY <1>3, SMT
<1>5. /\ Decode!am(h, m) = Decode!Bins(2 * y - w) /\ Decode!bm(h, m) = Decode!Bins(2 * y + w)
      /\ Decode!CentreBin(h, m) = {IF b > 255 THEN 255 ELSE b : b \in Decode!Bins(2 * y)}
      /\ Decode!CentreBin(h, m - 1) =
             {IF b > 255 THEN 255 ELSE b : b \in Decode!Bins(2 * y - 2 * w)}
  <2>1. Decode!FFT_DEC \div 2 - 1 = 255
    BY DecodeUnits, SMT
  <2>2. /\ Decode!am(h, m) = Decode!Bins((2 * m - 1) * w)
        /\ Decode!bm(h, m) = Decode!Bins((2 * m + 1) * w)
        /\ Decode!CentreBin(h, m) = {IF b > 255 THEN 255 ELSE b : b \in Decode!Bins(2 * m * w)}
        /\ Decode!CentreBin(h, m - 1) =
               {IF b > 255 THEN 255 ELSE b : b \in Decode!Bins(2 * (m - 1) * w)}
    BY <1>2, <2>1 DEF Decode!am, Decode!bm, Decode!CentreBin
  <2> QED
    BY <1>3, <2>2, SMT
<1>6. ASSUME NEW a \in Decode!am(h, m), NEW b \in Decode!bm(h, m)
      PROVE  0 < a /\ a < b /\ b <= 512
  <2>1. a \in Int /\ 800 * a <= 2 * y - w + 400 /\ 2 * y - w + 400 <= 800 * a + 800
    BY <1>4, <1>5, <1>6, BinsAre, SMT
  <2>2. b \in Int /\ 800 * b <= 2 * y + w + 400 /\ 2 * y + w + 400 <= 800 * b + 800
    BY <1>4, <1>5, <1>6, BinsAre, SMT
  <2> QED
    BY <1>1, <1>3, <2>1, <2>2, SMT
<1>7. ASSUME NEW c \in Decode!CentreBin(h, m)
      PROVE  /\ 0 < c /\ c < 512 - c
             /\ m > 1 => \A d \in Decode!CentreBin(h, m - 1) : d < c
  <2>1. PICK b \in Decode!Bins(2 * y) : c = IF b > 255 THEN 255 ELSE b
    BY <1>5, <1>7, SMT
  <2>2. b \in Int /\ 2 * y + 400 <= 800 * b + 800
    BY <1>4, BinsAre, SMT
  <2>3. 0 < c /\ c < 512 - c
    BY <1>1, <1>3, <2>1, <2>2, SMT
  <2>4. ASSUME m > 1, NEW d \in Decode!CentreBin(h, m - 1)
        PROVE  d < c
    <3>1. PICK e \in Decode!Bins(2 * y - 2 * w) : d = IF e > 255 THEN 255 ELSE e
      BY <1>5, <2>4, SMT
    <3>2. e \in Int /\ 800 * e <= 2 * y - 2 * w + 400
      BY <1>4, <2>4, BinsAre, SMT
    <3> QED
      BY <1>1, <1>3, <2>1, <2>2, <3>1, <3>2, SMT
  <2> QED
    BY <2>3, <2>4
<1> QED
  BY <1>6, <1>7

\* The middle of two numbers lies between them.
LEMMA MiddlePitch ==
    ASSUME NEW a \in Nat, NEW b \in Nat
    PROVE  /\ (a + b) \div 2 \in Nat
           /\ a <= (a + b) \div 2 \/ b <= (a + b) \div 2
           /\ (a + b) \div 2 <= a \/ (a + b) \div 2 <= b
BY SMT

\* A model of the quantiser's range sounds.
LEMMA PitchSounds == ASSUME NEW h, HasPitch(h) PROVE Sounds(h)
BY SMT DEF HasPitch, Sounds

\* The first half of a frame sounds, and is between its voiced neighbours.
LEMMA FirstHalf ==
    ASSUME NEW p, NEW n, HasPitch(p), HasPitch(n), NEW v \in BOOLEAN,
           NEW h, h = Decode!interpolate_lsp(p, n, v)
    PROVE  /\ Sounds(h) /\ h.voiced = v
           /\ v /\ (p.voiced \/ n.voiced) =>
                  /\ (p.voiced /\ p.Wo <= h.Wo) \/ (n.voiced /\ n.Wo <= h.Wo)
                  /\ (p.voiced /\ p.Wo >= h.Wo) \/ (n.voiced /\ n.Wo >= h.Wo)
<1>1. PICK a \in Nat, b \in Nat : /\ a = p.Wo /\ b = n.Wo
                                  /\ a >= 1280 /\ a <= 10240 /\ b >= 1280 /\ b <= 10240
  BY DEF HasPitch
<1>2. p.voiced \in BOOLEAN /\ n.voiced \in BOOLEAN
  BY DEF HasPitch, IsModel
<1>3. ASSUME NEW w \in Nat, h = Decode!Model(w, v), w >= 1280,
             w <= 10240 \/ w = Decode!PlaceHolder
      PROVE  Sounds(h) /\ h.voiced = v /\ h.Wo = w
  <2>1. IsModel(h) /\ h.Wo = w /\ h.voiced = v
    BY <1>3, ModelIs
  <2> QED
    BY <1>3, <2>1 DEF Sounds
<1>4. CASE ~ v
  <2>1. h = Decode!Model(Decode!Wo_min, v)
    BY <1>4 DEF Decode!interpolate_lsp
  <2>2. Decode!Wo_min \in Nat /\ Decode!Wo_min >= 1280 /\ Decode!Wo_min <= 10240
    BY DecodeUnits, SMT
  <2> QED
    BY <1>3, <1>4, <2>1, <2>2
<1>5. CASE v /\ p.voiced /\ n.voiced
  <2>1. PICK w \in Nat : w = (a + b) \div 2 /\ (a <= w \/ b <= w) /\ (w <= a \/ w <= b)
    BY MiddlePitch
  <2>2. h = Decode!Model(w, v)
    BY <1>1, <1>5, <2>1 DEF Decode!interpolate_lsp
  <2>3. w >= 1280 /\ w <= 10240
    BY <1>1, <2>1
  <2>4. Sounds(h) /\ h.voiced = v /\ h.Wo = w
    BY <1>3, <2>2, <2>3
  <2>5. (p.Wo <= h.Wo \/ n.Wo <= h.Wo) /\ (p.Wo >= h.Wo \/ n.Wo >= h.Wo)
    BY <1>1, <2>1, <2>4, SMT
  <2> QED
    BY <1>5, <2>4, <2>5, Zenon
<1>6. CASE v /\ ~ p.voiced /\ n.voiced
  <2>1. h = Decode!Model(b, v)
    BY <1>1, <1>6 DEF Decode!interpolate_lsp
  <2>2. Sounds(h) /\ h.voiced = v /\ h.Wo = b
    BY <1>1, <1>3, <2>1
  <2>3. n.Wo <= h.Wo /\ n.Wo >= h.Wo
    BY <1>1, <2>2, SMT
  <2> QED
    BY <1>6, <2>2, <2>3, Zenon
<1>7. CASE v /\ p.voiced /\ ~ n.voiced
  <2>1. h = Decode!Model(a, v)
    BY <1>1, <1>7 DEF Decode!interpolate_lsp
  <2>2. Sounds(h) /\ h.voiced = v /\ h.Wo = a
    BY <1>1, <1>3, <2>1
  <2>3. p.Wo <= h.Wo /\ p.Wo >= h.Wo
    BY <1>1, <2>2, SMT
  <2> QED
    BY <1>7, <2>2, <2>3, Zenon
<1>8. CASE v /\ ~ p.voiced /\ ~ n.voiced
  <2>1. h = Decode!Model(Decode!PlaceHolder, v)
    BY <1>8 DEF Decode!interpolate_lsp
  <2>2. Decode!PlaceHolder \in Nat /\ Decode!PlaceHolder >= 1280
    BY DecodeUnits, SMT
  <2>3. Sounds(h) /\ h.voiced = v
    BY <1>3, <2>1, <2>2
  <2> QED
    BY <1>8, <2>3, Zenon
<1> QED
  BY <1>2, <1>4, <1>5, <1>6, <1>7, <1>8

\* A pitch that arrives is one of the range.
LEMMA PitchArrives ==
    ASSUME Decode!IndexAssumption, NEW k \in WoIndexes
    PROVE  /\ Decode!decode_Wo(k) \in Nat
           /\ Decode!decode_Wo(k) >= 1280 /\ Decode!decode_Wo(k) <= 10240
<1>1. k \in 0 .. 127
  <2>1. WoIndexes \subseteq 0 .. (Decode!WO_LEVELS - 1)
    BY DEF Decode!IndexAssumption
  <2>2. Decode!WO_LEVELS - 1 = 127
    BY DecodeUnits, SMT
  <2> QED
    BY <2>1, <2>2
<1>2. Decode!decode_Wo(k) = 1280 + k * 70
  BY DecodeUnits, <1>1, SMT DEF Decode!decode_Wo
<1> QED
  BY <1>1, <1>2, SMT

\* The decoder starts in the invariant.
LEMMA DecodeInit == Decode!Init => DecodeInv
<1> SUFFICES ASSUME Decode!Init PROVE DecodeInv
  OBVIOUS
<1>1. Decode!Wo_min \in Nat /\ Decode!Wo_min >= 1280 /\ Decode!Wo_min <= 10240
  BY DecodeUnits, SMT
<1>2. IsModel(model) /\ model.Wo = Decode!Wo_min /\ model.voiced = FALSE
  <2>1. model = Decode!Model(Decode!Wo_min, FALSE) /\ FALSE \in BOOLEAN
    BY DEF Decode!Init
  <2>2. /\ IsModel(Decode!Model(Decode!Wo_min, FALSE))
        /\ Decode!Model(Decode!Wo_min, FALSE).Wo = Decode!Wo_min
        /\ Decode!Model(Decode!Wo_min, FALSE).voiced = FALSE
    <3>1. Decode!Wo_min \in Nat
      BY <1>1, SMT
    <3> QED
      BY <2>1, <3>1, ModelIs, Zenon
  <2> QED
    BY <2>1, <2>2, Zenon
<1>3. HasPitch(model)
  BY <1>1, <1>2 DEF HasPitch
<1>4. Sounds(interp) /\ interp.voiced = FALSE /\ prev = model
  BY <1>2, <1>3, PitchSounds DEF Decode!Init
<1>5. frame_before \in [Wo : Nat, voiced : BOOLEAN]
  BY <1>1 DEF Decode!Init
<1> QED
  BY <1>3, <1>4, <1>5 DEF DecodeInv, Decode!FollowsNeighbours

\* A frame is decoded.
LEMMA DecodeStep ==
    Decode!IndexAssumption /\ DecodeInv /\ [Decode!Next]_(Decode!vars) => DecodeInv'
<1> SUFFICES ASSUME Decode!IndexAssumption, DecodeInv, [Decode!Next]_(Decode!vars)
             PROVE  DecodeInv'
  OBVIOUS
<1>1. CASE UNCHANGED Decode!vars
  <2>1. model' = model /\ interp' = interp /\ prev' = prev /\ frame_before' = frame_before
    BY <1>1 DEF Decode!vars
  <2> QED
    BY <2>1 DEF DecodeInv, Decode!FollowsNeighbours
<1>2. CASE Decode!Next
  <2>1. PICK k \in WoIndexes, v1 \in BOOLEAN, v2 \in BOOLEAN : Decode!codec2_decode(k, v1, v2)
    BY <1>2 DEF Decode!Next
  <2>2. /\ model' = Decode!Model(Decode!decode_Wo(k), v2) /\ prev' = model'
        /\ interp' = Decode!interpolate_lsp(model, model', v1)
        /\ frame_before' = [Wo |-> model.Wo, voiced |-> model.voiced]
    BY <2>1 DEF Decode!codec2_decode, DecodeInv
  <2>3. HasPitch(model')
    <3>1. /\ Decode!decode_Wo(k) \in Nat
          /\ Decode!decode_Wo(k) >= 1280 /\ Decode!decode_Wo(k) <= 10240
      BY PitchArrives
    <3>2. IsModel(model') /\ model'.Wo = Decode!decode_Wo(k)
      BY <2>2, <3>1, ModelIs
    <3> QED
      BY <3>1, <3>2 DEF HasPitch
  <2>4. HasPitch(model)
    BY DEF DecodeInv
  <2>5. frame_before' \in [Wo : Nat, voiced : BOOLEAN]
    BY <2>2, <2>4 DEF HasPitch, IsModel
  <2>6. /\ Sounds(interp') /\ interp'.voiced = v1
        /\ v1 /\ (model.voiced \/ model'.voiced) =>
               /\ \/ model.voiced /\ model.Wo <= interp'.Wo
                  \/ model'.voiced /\ model'.Wo <= interp'.Wo
               /\ \/ model.voiced /\ model.Wo >= interp'.Wo
                  \/ model'.voiced /\ model'.Wo >= interp'.Wo
    BY <2>2, <2>3, <2>4, FirstHalf
  <2>7. Decode!FollowsNeighbours'
    <3> DEFINE N == {n \in {frame_before', [Wo |-> model'.Wo, voiced |-> model'.voiced]} :
                         n.voiced}
    <3>1. frame_before'.Wo = model.Wo /\ frame_before'.voiced = model.voiced
      BY <2>2
    <3>2. SUFFICES ASSUME interp'.voiced, N # {}
                   PROVE  /\ \E n \in N : n.Wo <= interp'.Wo
                          /\ \E n \in N : n.Wo >= interp'.Wo
      BY DEF Decode!FollowsNeighbours
    <3>3. model.voiced \/ model'.voiced
      BY <3>1, <3>2
    <3>4. /\ model.voiced => frame_before' \in N
          /\ model'.voiced => [Wo |-> model'.Wo, voiced |-> model'.voiced] \in N
      BY <3>1
    <3>5. [Wo |-> model'.Wo, voiced |-> model'.voiced].Wo = model'.Wo
      OBVIOUS
    <3> HIDE DEF N
    <3> QED
      BY <2>6, <3>1, <3>2, <3>3, <3>4, <3>5
  <2> QED
    BY <2>2, <2>3, <2>5, <2>6, <2>7 DEF DecodeInv
<1> QED
  BY <1>1, <1>2

\* What the decoder promises follows from the invariant.
LEMMA DecodePromised ==
    DecodeInv => /\ Decode!TypeOK /\ Decode!HarmonicsFit /\ Decode!OwnBins
                 /\ Decode!FollowsNeighbours
<1> SUFFICES ASSUME DecodeInv
             PROVE  /\ Decode!TypeOK /\ Decode!HarmonicsFit /\ Decode!OwnBins
                    /\ Decode!FollowsNeighbours
  OBVIOUS
<1>1. Sounds(model) /\ Sounds(interp) /\ prev = model
  BY PitchSounds DEF DecodeInv
<1>2. \A h \in Decode!Halves : Sounds(h)
  BY <1>1 DEF Decode!Halves
<1>3. Decode!TypeOK
  BY <1>1, SoundsIs DEF Decode!TypeOK, DecodeInv
<1>4. Decode!MAX_AMP = 80 /\ Decode!FFT_DEC = 512
  BY DecodeUnits, SMT
<1>5. \A h \in Decode!Halves : h.L < 80
  BY <1>2, SoundsIs
<1>6. Decode!HarmonicsFit
  BY <1>4, <1>5 DEF Decode!HarmonicsFit
<1>7. Decode!OwnBins
  <2> SUFFICES ASSUME NEW h \in Decode!Halves, NEW m \in 1 .. h.L
               PROVE  /\ \A a \in Decode!am(h, m), b \in Decode!bm(h, m) :
                             0 < a /\ a < b /\ b <= Decode!FFT_DEC
                      /\ \A c \in Decode!CentreBin(h, m) :
                             /\ 0 < c /\ c < Decode!FFT_DEC - c
                             /\ m > 1 => \A d \in Decode!CentreBin(h, m - 1) : d < c
    BY DEF Decode!OwnBins
  <2>1. Sounds(h)
    BY <1>2
  <2>2. /\ \A a \in Decode!am(h, m), b \in Decode!bm(h, m) : 0 < a /\ a < b /\ b <= 512
        /\ \A c \in Decode!CentreBin(h, m) :
               /\ 0 < c /\ c < 512 - c
               /\ m > 1 => \A d \in Decode!CentreBin(h, m - 1) : d < c
    BY <2>1, BinsApart
  <2> QED
    BY <1>4, <2>2
<1> QED
  BY <1>3, <1>6, <1>7 DEF DecodeInv

\* The models the decoder makes of frames, whatever arrives: their harmonics fit the
\* arrays and have bins of their own, and a voiced first half has a pitch between those
\* of its voiced neighbours.  (codec2_decode, interpolate_lsp, aks_to_M2, synthesise)
THEOREM DecodedModelsHaveHarmonics == PartSpec => []ModelsHaveHarmonics
<1> DEFINE Inv == part = "decode" => DecodeInv
<1>1. PartInit => Inv
  BY DecodeInit DEF PartInit
<1>2. Inv /\ [PartNext]_partVars => Inv'
  <2> SUFFICES ASSUME Inv, [PartNext]_partVars, part' = "decode" PROVE DecodeInv'
    OBVIOUS
  <2>1. part = "decode"
    BY DEF PartNext, partVars
  <2>2. [Decode!Next]_(Decode!vars)
    BY <2>1 DEF PartNext, partVars, decodeVars, Decode!vars
  <2> QED
    BY <2>1, <2>2, DecodeStep, PartsAssumption DEF PartsAssumption
<1>3. Inv => ModelsHaveHarmonics
  BY DecodePromised DEF ModelsHaveHarmonics
<1> QED
  BY <1>1, <1>2, <1>3, PTL DEF PartSpec

-----------------------------------------------------------------------------
(***************************************************************************)
(* The memory of the synthesis                                             *)
(***************************************************************************)

\* Half of a frame.
Half == FrameLen \div 2

\* What the sizes allow.
LEMMA SpeechSizes ==
    ASSUME Speech!SynthesisAssumption
    PROVE  /\ Half \in Nat /\ FrameLen = 2 * Half /\ (3 * FrameLen) \div 2 = 3 * Half
           /\ HalfOverlap \in Nat /\ 1 <= HalfOverlap /\ HalfOverlap <= Half
           /\ FftLen \in Int /\ FftLen \div 2 \in Nat
           /\ FrameLen <= FftLen \div 2 /\ FftLen \div 2 <= FftLen - FrameLen
           /\ 4 * Half <= FftLen /\ FftLen = 2 * (FftLen \div 2)
<1>1. /\ FrameLen \in Nat /\ HalfOverlap \in 1 .. (FrameLen \div 2) /\ FrameLen % 2 = 0
      /\ 2 * FrameLen <= FftLen /\ FftLen \in Nat /\ FftLen % 2 = 0
  BY DEF Speech!SynthesisAssumption
<1> QED
  BY <1>1, SMT DEF Half

\* The window by halves of a frame, the same as the code's.
LEMMA WindowIs ==
    ASSUME Speech!SynthesisAssumption, NEW k \in Int
    PROVE  /\ Speech!make_synthesis_window(k) \in Int
           /\ 0 <= Speech!make_synthesis_window(k)
           /\ Speech!make_synthesis_window(k) <= 2 * HalfOverlap
           /\ k < Half - HalfOverlap => Speech!make_synthesis_window(k) = 0
           /\ Half - HalfOverlap <= k /\ k < Half + HalfOverlap =>
                  Speech!make_synthesis_window(k) = k - (Half - HalfOverlap)
           /\ Half + HalfOverlap <= k /\ k < 3 * Half - HalfOverlap =>
                  Speech!make_synthesis_window(k) = 2 * HalfOverlap
           /\ 3 * Half - HalfOverlap <= k /\ k < 3 * Half + HalfOverlap =>
                  Speech!make_synthesis_window(k) = 3 * Half + HalfOverlap - k
           /\ 3 * Half + HalfOverlap <= k => Speech!make_synthesis_window(k) = 0
<1>1. /\ Half \in Nat /\ (3 * FrameLen) \div 2 = 3 * Half /\ FrameLen \div 2 = Half
      /\ HalfOverlap \in Nat /\ 1 <= HalfOverlap /\ HalfOverlap <= Half
  BY SpeechSizes DEF Half
<1> HIDE DEF Half
<1> QED
  BY <1>1 DEF Speech!make_synthesis_window

\* A part of a sample.
Piece(age, time, weight) == [age |-> age, time |-> time, weight |-> weight]

\* What a call adds to a sample: nothing where the window has no weight.
LEMMA PartIs ==
    ASSUME NEW j, NEW k
    PROVE  LET w == Speech!make_synthesis_window(k)
           IN  /\ Speech!Part(j, k) = IF w = 0 THEN {} ELSE {Piece(0, Speech!Time(j), w)}
               /\ Speech!Older(Speech!Part(j, k)) =
                      IF w = 0 THEN {} ELSE {Piece(1, Speech!Time(j), w)}
<1> DEFINE t == Speech!Time(j)
           w == Speech!make_synthesis_window(k)
<1>1. Speech!Part(j, k) = IF w = 0 THEN {} ELSE {Piece(0, t, w)}
  BY DEF Speech!Part, Piece
<1> HIDE DEF t, w
<1>2. [Piece(0, t, w) EXCEPT !.age = @ + 1] = Piece(1, t, w)
  BY DEF Piece
<1>3. Speech!Older({Piece(0, t, w)}) = {Piece(1, t, w)}
  BY <1>2 DEF Speech!Older
<1>4. Speech!Older({}) = {}
  BY DEF Speech!Older
<1>5. Speech!Older(Speech!Part(j, k)) = IF w = 0 THEN {} ELSE {Piece(1, t, w)}
  BY <1>1, <1>3, <1>4
<1> QED
  BY <1>1, <1>5 DEF t, w

\* The memory: what is left of the call before in the lower samples, and the last call.
Left(k, c) == IF c = 2 THEN Speech!Older(Speech!Part(k + 1, k + FrameLen)) ELSE {}
Memory(k, c) ==
    IF c = 0 THEN {}
    ELSE IF k < FrameLen - 1 THEN Left(k, c) \cup Speech!Part(FftLen - FrameLen + 1 + k, k)
    ELSE Speech!Part(k - (FrameLen - 1), k)

SpeechInv ==
    /\ frames \in 0 .. 2
    /\ Sn_ = [k \in 0 .. (2 * FrameLen - 1) |-> Memory(k, frames)]
    /\ ex_phase \in Int /\ Speech!PhaseBounded

\* The phase is brought back into one turn around 0.
LEMMA PhaseTurns ==
    ASSUME Speech!SynthesisAssumption, SpeechInv, NEW W \in Pitches
    PROVE  /\ Speech!advance(W) \in Int
           /\ (0 - Circle) <= 2 * Speech!advance(W) /\ 2 * Speech!advance(W) < Circle
<1>1. /\ Circle \in Nat /\ Circle > 0 /\ W \in Nat /\ FrameLen \in Nat
      /\ ex_phase \in Int /\ 0 - Circle <= 2 * ex_phase
  BY DEF Speech!SynthesisAssumption, SpeechInv, Speech!PhaseBounded
<1>2. PICK z \in Int : z = ex_phase + W * FrameLen
  BY <1>1
<1>3. 0 - Circle <= 2 * z
  <2>1. W * FrameLen \in Nat
    BY <1>1
  <2> QED
    BY <1>1, <1>2, <2>1
<1>4. PICK y \in Nat, d \in Nat : y = 2 * z + Circle /\ d = 2 * Circle /\ d > 0
  <2>1. 2 * z + Circle \in Nat /\ 2 * Circle \in Nat /\ 2 * Circle > 0
    BY <1>1, <1>3
  <2> QED
    BY <2>1
<1>5. PICK q \in Nat : q = y \div d /\ d * q <= y /\ y < d * q + d
  BY <1>4, QuotientBounds
<1>6. PICK e \in Nat : e = Circle * q /\ d * q = 2 * e
  <2>1. Circle * q \in Nat /\ 2 * Circle * q = 2 * (Circle * q)
    BY <1>1
  <2> QED
    BY <1>4, <2>1
<1>7. Speech!advance(W) = z - e
  BY <1>2, <1>4, <1>5, <1>6 DEF Speech!advance
<1>8. 2 * e <= 2 * z + Circle /\ 2 * z + Circle < 2 * e + 2 * Circle
  BY <1>4, <1>5, <1>6
<1> QED
  BY <1>1, <1>7, <1>8

\* A sample to which two calls may add, by the weights and the times of its parts.
LEMMA LowerSample ==
    ASSUME Speech!SynthesisAssumption, NEW k \in 0 .. (2 * FrameLen - 1), k < FrameLen - 1,
           NEW c \in 1 .. 2
    PROVE  LET u == Speech!make_synthesis_window(k + FrameLen)
               w == Speech!make_synthesis_window(k)
           IN  Memory(k, c) = (IF c = 2 /\ u # 0 THEN {Piece(1, k + 1, u)} ELSE {})
                              \cup (IF w # 0 THEN {Piece(0, k + 1 - FrameLen, w)} ELSE {})
<1> DEFINE u == Speech!make_synthesis_window(k + FrameLen)
           w == Speech!make_synthesis_window(k)
<1>1. /\ FrameLen \in Nat /\ k \in Nat /\ FftLen \in Int /\ FftLen \div 2 \in Nat
      /\ FrameLen <= FftLen \div 2 /\ FftLen \div 2 <= FftLen - FrameLen
  BY SpeechSizes DEF Speech!SynthesisAssumption
<1>2. Speech!Time(k + 1) = k + 1
  BY <1>1 DEF Speech!Time
<1>3. Speech!Time(FftLen - FrameLen + 1 + k) = k + 1 - FrameLen
  BY <1>1 DEF Speech!Time
<1>4. Speech!Older(Speech!Part(k + 1, k + FrameLen)) =
          IF u = 0 THEN {} ELSE {Piece(1, k + 1, u)}
  BY <1>2, PartIs
<1>5. Speech!Part(FftLen - FrameLen + 1 + k, k) =
          IF w = 0 THEN {} ELSE {Piece(0, k + 1 - FrameLen, w)}
  BY <1>3, PartIs
<1>6. Memory(k, c) = Left(k, c) \cup Speech!Part(FftLen - FrameLen + 1 + k, k)
  BY DEF Memory
<1> HIDE DEF u, w
<1>7. Left(k, c) = IF c = 2 /\ u # 0 THEN {Piece(1, k + 1, u)} ELSE {}
  BY <1>4 DEF Left
<1>8. Speech!Part(FftLen - FrameLen + 1 + k, k) =
          IF w # 0 THEN {Piece(0, k + 1 - FrameLen, w)} ELSE {}
  BY <1>5
<1> QED
  BY <1>6, <1>7, <1>8 DEF u, w

\* A sample that only the last call makes.
LEMMA UpperSample ==
    ASSUME Speech!SynthesisAssumption, NEW k \in 0 .. (2 * FrameLen - 1), k >= FrameLen - 1,
           NEW c \in 1 .. 2
    PROVE  \E t \in (0 - FrameLen) .. FrameLen :
               LET w == Speech!make_synthesis_window(k)
               IN  Memory(k, c) = IF w # 0 THEN {Piece(0, t, w)} ELSE {}
<1> DEFINE w == Speech!make_synthesis_window(k)
           t == Speech!Time(k - (FrameLen - 1))
<1>1. /\ FrameLen \in Nat /\ k \in Nat /\ FftLen \in Int /\ FftLen \div 2 \in Nat
      /\ FrameLen <= FftLen \div 2 /\ FftLen = 2 * (FftLen \div 2)
  BY SpeechSizes DEF Speech!SynthesisAssumption
<1>2. t \in (0 - FrameLen) .. FrameLen
  <2>1. PICK j \in Nat : j = k - (FrameLen - 1) /\ j <= FrameLen
    BY <1>1
  <2>2. j < FftLen \div 2 => Speech!Time(j) = j
    BY DEF Speech!Time
  <2>3. ~ j < FftLen \div 2 => Speech!Time(j) = j - FftLen
    BY DEF Speech!Time
  <2>4. ASSUME ~ j < FftLen \div 2
        PROVE  j - FftLen \in (0 - FrameLen) .. FrameLen
    BY <1>1, <2>1, <2>4
  <2>5. Speech!Time(j) \in (0 - FrameLen) .. FrameLen
    BY <1>1, <2>1, <2>2, <2>3, <2>4
  <2> QED
    BY <2>1, <2>5
<1>3. Speech!Part(k - (FrameLen - 1), k) = IF w = 0 THEN {} ELSE {Piece(0, t, w)}
  BY PartIs
<1>4. Memory(k, c) = Speech!Part(k - (FrameLen - 1), k)
  BY <1>1 DEF Memory
<1> HIDE DEF t, w
<1>5. Memory(k, c) = IF w # 0 THEN {Piece(0, t, w)} ELSE {}
  BY <1>3, <1>4
<1> QED
  BY <1>2, <1>5 DEF w

\* A call keeps the invariant.
LEMMA SpeechStep ==
    Speech!SynthesisAssumption /\ SpeechInv /\ [Speech!Next]_(Speech!vars) => SpeechInv'
<1> SUFFICES ASSUME Speech!SynthesisAssumption, SpeechInv, [Speech!Next]_(Speech!vars)
             PROVE  SpeechInv'
  OBVIOUS
<1>1. CASE UNCHANGED Speech!vars
  <2>1. Sn_' = Sn_ /\ ex_phase' = ex_phase /\ frames' = frames
    BY <1>1 DEF Speech!vars
  <2> QED
    BY <2>1 DEF SpeechInv, Speech!PhaseBounded
<1>2. CASE Speech!Next
  <2>1. PICK W \in Pitches : Speech!synthesise_one_frame(W)
    BY <1>2 DEF Speech!Next
  <2>2. /\ ex_phase' = Speech!advance(W) /\ Sn_' = Speech!synthesise
        /\ frames' = IF frames = 2 THEN 2 ELSE frames + 1
    BY <2>1 DEF Speech!synthesise_one_frame
  <2>3. ex_phase' \in Int /\ Speech!PhaseBounded'
    BY <2>2, PhaseTurns DEF Speech!PhaseBounded
  <2>4. frames \in 0 .. 2 /\ frames' \in 1 .. 2 /\ (frames' = 2 <=> frames # 0)
    BY <2>2 DEF SpeechInv
  <2>5. ASSUME NEW k \in 0 .. (2 * FrameLen - 1), k < FrameLen - 1
        PROVE  Speech!Shifted(k) = Left(k, frames')
    <3>1. /\ FrameLen \in Nat /\ k + FrameLen \in 0 .. (2 * FrameLen - 1)
          /\ ~ k + FrameLen < FrameLen - 1 /\ k + FrameLen - (FrameLen - 1) = k + 1
      BY <2>5 DEF Speech!SynthesisAssumption
    <3>2. Sn_[k + FrameLen] = Memory(k + FrameLen, frames)
      BY <3>1 DEF SpeechInv
    <3>3. Speech!Shifted(k) = Speech!Older(Memory(k + FrameLen, frames))
      BY <2>5, <3>2 DEF Speech!Shifted
    <3>4. CASE frames = 0
      <4>1. Speech!Shifted(k) = {}
        BY <3>3, <3>4 DEF Memory, Speech!Older
      <4> QED
        BY <2>4, <3>4, <4>1 DEF Left
    <3>5. CASE frames # 0
      <4>1. Memory(k + FrameLen, frames) = Speech!Part(k + 1, k + FrameLen)
        BY <3>1, <3>5 DEF Memory
      <4> QED
        BY <2>4, <3>3, <3>5, <4>1 DEF Left
    <3> QED
      BY <3>4, <3>5
  <2>6. ASSUME NEW k \in 0 .. (2 * FrameLen - 1)
        PROVE  (IF k < FrameLen - 1
                THEN Speech!Shifted(k) \cup Speech!Part(FftLen - FrameLen + 1 + k, k)
                ELSE Speech!Part(k - (FrameLen - 1), k)) = Memory(k, frames')
    <3>1. frames' # 0
      BY <2>4
    <3> QED
      BY <2>5, <3>1 DEF Memory
  <2>7. Sn_' = [k \in 0 .. (2 * FrameLen - 1) |-> Memory(k, frames')]
    BY <2>2, <2>6 DEF Speech!synthesise
  <2> QED
    BY <2>3, <2>4, <2>7 DEF SpeechInv, Memory, Left, Speech!Part, Speech!Older, Speech!Time,
                            Speech!make_synthesis_window
<1> QED
  BY <1>1, <1>2

\* The memory is empty at first.
LEMMA SpeechInit == Speech!SynthesisAssumption /\ Speech!Init => SpeechInv
<1> SUFFICES ASSUME Speech!SynthesisAssumption, Speech!Init PROVE SpeechInv
  OBVIOUS
<1>1. frames = 0 /\ ex_phase = 0 /\ Sn_ = [k \in 0 .. (2 * FrameLen - 1) |-> {}]
  BY DEF Speech!Init
<1>2. Sn_ = [k \in 0 .. (2 * FrameLen - 1) |-> Memory(k, frames)]
  BY <1>1 DEF Memory
<1>3. Speech!PhaseBounded
  BY <1>1 DEF Speech!PhaseBounded, Speech!SynthesisAssumption
<1> QED
  BY <1>1, <1>2, <1>3 DEF SpeechInv

\* Every sample is made of at most one part of each of the last two calls, at one time.
LEMMA SampleIs ==
    ASSUME Speech!SynthesisAssumption, SpeechInv, NEW k \in 0 .. (2 * FrameLen - 1)
    PROVE  \E t \in (0 - FrameLen) .. FrameLen, u \in 0 .. (2 * HalfOverlap),
              w \in 0 .. (2 * HalfOverlap) :
               /\ Sn_[k] = (IF u # 0 THEN {Piece(1, t + FrameLen, u)} ELSE {})
                           \cup (IF w # 0 THEN {Piece(0, t, w)} ELSE {})
               /\ u # 0 => t + FrameLen <= FrameLen
               /\ k >= FrameLen - 1 => u = 0
               /\ frames = 2 =>
                      /\ w = Speech!make_synthesis_window(k)
                      /\ k < FrameLen - 1 => u = Speech!make_synthesis_window(k + FrameLen)
<1> DEFINE wk == Speech!make_synthesis_window(k)
           uk == Speech!make_synthesis_window(k + FrameLen)
<1>1. Sn_[k] = Memory(k, frames) /\ frames \in 0 .. 2 /\ FrameLen \in Nat /\ k \in Nat
  BY DEF SpeechInv, Speech!SynthesisAssumption
<1>2. HalfOverlap \in Nat /\ wk \in 0 .. (2 * HalfOverlap) /\ uk \in 0 .. (2 * HalfOverlap)
  <2>1. HalfOverlap \in Nat /\ k \in Int /\ k + FrameLen \in Int
    BY <1>1, SpeechSizes
  <2>2. wk \in Int /\ 0 <= wk /\ wk <= 2 * HalfOverlap
    BY <2>1, WindowIs
  <2>3. uk \in Int /\ 0 <= uk /\ uk <= 2 * HalfOverlap
    BY <2>1, WindowIs
  <2> QED
    BY <2>1, <2>2, <2>3
<1> HIDE DEF wk, uk
<1>3. CASE frames = 0
  <2>1. Sn_[k] = {}
    BY <1>1, <1>3 DEF Memory
  <2>2. 0 \in (0 - FrameLen) .. FrameLen /\ 0 \in 0 .. (2 * HalfOverlap)
    BY <1>1, <1>2
  <2> QED
    BY <1>3, <2>1, <2>2
<1>4. CASE frames # 0 /\ k < FrameLen - 1
  <2>1. frames \in 1 .. 2
    BY <1>1, <1>4
  <2>2. Sn_[k] = (IF frames = 2 /\ uk # 0 THEN {Piece(1, k + 1, uk)} ELSE {})
                 \cup (IF wk # 0 THEN {Piece(0, k + 1 - FrameLen, wk)} ELSE {})
    BY <1>1, <1>4, <2>1, LowerSample DEF uk, wk
  <2>3. PICK t \in (0 - FrameLen) .. FrameLen :
            t = k + 1 - FrameLen /\ t + FrameLen = k + 1 /\ k + 1 <= FrameLen
    <3>1. /\ k + 1 - FrameLen \in (0 - FrameLen) .. FrameLen
          /\ k + 1 - FrameLen + FrameLen = k + 1 /\ k + 1 <= FrameLen
      BY <1>1, <1>4
    <3> QED
      BY <3>1
  <2>4. PICK u \in 0 .. (2 * HalfOverlap) : u = IF frames = 2 THEN uk ELSE 0
    BY <1>2
  <2>5. Sn_[k] = (IF u # 0 THEN {Piece(1, t + FrameLen, u)} ELSE {})
                 \cup (IF wk # 0 THEN {Piece(0, t, wk)} ELSE {})
    BY <2>2, <2>3, <2>4
  <2>6. /\ t + FrameLen <= FrameLen /\ ~ k >= FrameLen - 1
        /\ frames = 2 => u = uk
    BY <1>1, <1>4, <2>3, <2>4
  <2> QED
    BY <1>2, <2>5, <2>6 DEF uk, wk
<1>5. CASE frames # 0 /\ k >= FrameLen - 1
  <2>1. frames \in 1 .. 2 /\ ~ k < FrameLen - 1
    BY <1>1, <1>5
  <2>2. PICK t \in (0 - FrameLen) .. FrameLen :
            Sn_[k] = IF wk # 0 THEN {Piece(0, t, wk)} ELSE {}
    BY <1>1, <1>5, <2>1, UpperSample DEF wk
  <2>3. 0 \in 0 .. (2 * HalfOverlap)
    BY <1>2
  <2>4. Sn_[k] = (IF 0 # 0 THEN {Piece(1, t + FrameLen, 0)} ELSE {})
                 \cup (IF wk # 0 THEN {Piece(0, t, wk)} ELSE {})
    BY <2>2
  <2> QED
    BY <1>2, <2>1, <2>3, <2>4 DEF wk
<1> QED
  BY <1>1, <1>3, <1>4, <1>5

\* What the memory promises follows from the shape of its samples.
LEMMA SpeechPromised ==
    Speech!SynthesisAssumption /\ SpeechInv =>
        Speech!TypeOK /\ Speech!PartsMeet /\ Speech!WeightsAddUp /\ Speech!PhaseBounded
<1> SUFFICES ASSUME Speech!SynthesisAssumption, SpeechInv
             PROVE  Speech!TypeOK /\ Speech!PartsMeet /\ Speech!WeightsAddUp
  BY DEF SpeechInv
<1>1. FrameLen \in Nat /\ HalfOverlap \in Nat /\ DOMAIN Sn_ = 0 .. (2 * FrameLen - 1)
  BY SpeechSizes DEF Speech!SynthesisAssumption, SpeechInv
<1>2. ASSUME NEW k \in 0 .. (2 * FrameLen - 1)
      PROVE  /\ Sn_[k] \subseteq [age : 0 .. 1, time : (0 - FrameLen) .. FrameLen,
                                  weight : 1 .. (2 * HalfOverlap)]
             /\ \A p \in Sn_[k], q \in Sn_[k] :
                    /\ p.time - p.age * FrameLen = q.time - q.age * FrameLen
                    /\ p.age = q.age => p = q
  <2>1. PICK t \in (0 - FrameLen) .. FrameLen, u \in 0 .. (2 * HalfOverlap),
             w \in 0 .. (2 * HalfOverlap) :
            /\ Sn_[k] = (IF u # 0 THEN {Piece(1, t + FrameLen, u)} ELSE {})
                        \cup (IF w # 0 THEN {Piece(0, t, w)} ELSE {})
            /\ u # 0 => t + FrameLen <= FrameLen
    BY <1>2, SampleIs
  <2>2. ASSUME NEW p \in Sn_[k]
        PROVE  (u # 0 /\ p = Piece(1, t + FrameLen, u)) \/ (w # 0 /\ p = Piece(0, t, w))
    BY <2>1, <2>2
  <2>3. ASSUME NEW p \in Sn_[k]
        PROVE  /\ p \in [age : 0 .. 1, time : (0 - FrameLen) .. FrameLen,
                         weight : 1 .. (2 * HalfOverlap)]
               /\ p.time - p.age * FrameLen = t
    <3>1. CASE u # 0 /\ p = Piece(1, t + FrameLen, u)
      <4>1. t + FrameLen \in (0 - FrameLen) .. FrameLen /\ u \in 1 .. (2 * HalfOverlap)
        BY <1>1, <2>1, <3>1
      <4>2. PICK a \in Int, b \in Int : a = p.time /\ b = p.age /\ a = t + FrameLen /\ b = 1
        BY <1>1, <3>1 DEF Piece
      <4>3. a - b * FrameLen = t
        BY <1>1, <4>2
      <4>4. p \in [age : 0 .. 1, time : (0 - FrameLen) .. FrameLen,
                   weight : 1 .. (2 * HalfOverlap)]
        BY <3>1, <4>1 DEF Piece
      <4> QED
        BY <4>2, <4>3, <4>4
    <3>2. CASE w # 0 /\ p = Piece(0, t, w)
      <4>1. w \in 1 .. (2 * HalfOverlap)
        BY <1>1, <3>2
      <4>2. p.time = t /\ p.age = 0 /\ t - 0 * FrameLen = t
        BY <1>1, <3>2 DEF Piece
      <4> QED
        BY <3>2, <4>1, <4>2 DEF Piece
    <3> QED
      BY <2>2, <2>3, <3>1, <3>2
  <2>4. ASSUME NEW p \in Sn_[k], NEW q \in Sn_[k], p.age = q.age
        PROVE  p = q
    <3>1. Piece(1, t + FrameLen, u).age = 1 /\ Piece(0, t, w).age = 0
      BY DEF Piece
    <3> QED
      BY <2>2, <2>4, <3>1
  <2> QED
    BY <2>3, <2>4
<1>3. Speech!TypeOK
  BY <1>1, <1>2 DEF Speech!TypeOK, SpeechInv
<1>4. Speech!PartsMeet
  BY <1>2 DEF Speech!PartsMeet
<1>5. ASSUME frames = 2, NEW k \in 0 .. (FrameLen - 1)
      PROVE  \/ Speech!Weight(k, 0) + Speech!Weight(k, 1) = 2 * HalfOverlap
             \/ /\ k = FrameLen - 1
                /\ Speech!Weight(k, 0) + Speech!Weight(k, 1) = 2 * HalfOverlap - 1
  <2>1. k \in 0 .. (2 * FrameLen - 1)
    BY <1>1
  <2>2. PICK t \in (0 - FrameLen) .. FrameLen, u \in 0 .. (2 * HalfOverlap),
             w \in 0 .. (2 * HalfOverlap) :
            /\ Sn_[k] = (IF u # 0 THEN {Piece(1, t + FrameLen, u)} ELSE {})
                        \cup (IF w # 0 THEN {Piece(0, t, w)} ELSE {})
            /\ k >= FrameLen - 1 => u = 0
            /\ w = Speech!make_synthesis_window(k)
            /\ k < FrameLen - 1 => u = Speech!make_synthesis_window(k + FrameLen)
    BY <1>5, <2>1, SampleIs
  <2>3. Speech!Weight(k, 0) = w
    <3>1. {p \in Sn_[k] : p.age = 0} = IF w # 0 THEN {Piece(0, t, w)} ELSE {}
      BY <2>2 DEF Piece
    <3>2. (CHOOSE p \in {Piece(0, t, w)} : TRUE).weight = w
      <4>1. (CHOOSE p \in {Piece(0, t, w)} : TRUE) = Piece(0, t, w)
        OBVIOUS
      <4> QED
        BY <4>1 DEF Piece
    <3> QED
      BY <3>1, <3>2 DEF Speech!Weight
  <2>4. Speech!Weight(k, 1) = u
    <3>1. {p \in Sn_[k] : p.age = 1} = IF u # 0 THEN {Piece(1, t + FrameLen, u)} ELSE {}
      BY <2>2 DEF Piece
    <3>2. (CHOOSE p \in {Piece(1, t + FrameLen, u)} : TRUE).weight = u
      <4>1. (CHOOSE p \in {Piece(1, t + FrameLen, u)} : TRUE) = Piece(1, t + FrameLen, u)
        OBVIOUS
      <4> QED
        BY <4>1 DEF Piece
    <3> QED
      BY <3>1, <3>2 DEF Speech!Weight
  <2>5. /\ Half \in Nat /\ FrameLen = 2 * Half
        /\ HalfOverlap \in Nat /\ 1 <= HalfOverlap /\ HalfOverlap <= Half /\ k \in Nat
    BY SpeechSizes
  <2> HIDE DEF Half
  <2>6. CASE k < FrameLen - 1
    <3>1. /\ k < Half - HalfOverlap => w = 0
          /\ Half - HalfOverlap <= k /\ k < Half + HalfOverlap => w = k - (Half - HalfOverlap)
          /\ Half + HalfOverlap <= k /\ k < 3 * Half - HalfOverlap => w = 2 * HalfOverlap
      BY <2>2, <2>5, WindowIs
    <3>2. PICK j \in Int : j = k + 2 * Half /\ u = Speech!make_synthesis_window(j)
      BY <2>2, <2>5, <2>6
    <3>3. /\ Half + HalfOverlap <= j /\ j < 3 * Half - HalfOverlap => u = 2 * HalfOverlap
          /\ 3 * Half - HalfOverlap <= j /\ j < 3 * Half + HalfOverlap =>
                 u = 3 * Half + HalfOverlap - j
          /\ 3 * Half + HalfOverlap <= j => u = 0
      BY <3>2, WindowIs
    <3>4. w + u = 2 * HalfOverlap
      BY <2>5, <2>6, <3>1, <3>2, <3>3
    <3> QED
      BY <2>3, <2>4, <3>4
  <2>7. CASE k = FrameLen - 1
    <3>1. u = 0
      BY <1>1, <2>2, <2>7
    <3>2. /\ Half - HalfOverlap <= k /\ k < Half + HalfOverlap => w = k - (Half - HalfOverlap)
          /\ Half + HalfOverlap <= k /\ k < 3 * Half - HalfOverlap => w = 2 * HalfOverlap
      BY <2>2, <2>5, WindowIs
    <3>3. w = 2 * HalfOverlap \/ w = 2 * HalfOverlap - 1
      BY <2>5, <2>7, <3>2
    <3> QED
      BY <2>3, <2>4, <2>7, <3>1, <3>3
  <2> QED
    BY <1>1, <2>6, <2>7
<1>6. Speech!WeightsAddUp
  BY <1>2, <1>5 DEF Speech!WeightsAddUp
<1> QED
  BY <1>3, <1>4, <1>6

\* The sound that is played, however long the call lasts: the parts of neighbouring halves
\* stand for one instant and no call is added twice, their weights add up to one but for
\* the last step of the window, and the phase stays within a turn.
\* (synthesise, make_synthesis_window, phase_synth_zero_order)
THEOREM SynthesisOverlaps == PartSpec => []PartsMeet
<1> DEFINE Inv == part = "speech" => SpeechInv
<1>1. PartInit => Inv
  BY SpeechInit, PartsAssumption DEF PartInit, PartsAssumption
<1>2. Inv /\ [PartNext]_partVars => Inv'
  <2> SUFFICES ASSUME Inv, [PartNext]_partVars, part' = "speech" PROVE SpeechInv'
    OBVIOUS
  <2>1. part = "speech"
    BY DEF PartNext, partVars
  <2>2. [Speech!Next]_(Speech!vars)
    BY <2>1 DEF PartNext, partVars, speechVars, Speech!vars
  <2> QED
    BY <2>1, <2>2, SpeechStep, PartsAssumption DEF PartsAssumption
<1>3. Inv => PartsMeet
  BY SpeechPromised, PartsAssumption DEF PartsMeet, PartsAssumption
<1> QED
  BY <1>1, <1>2, <1>3, PTL DEF PartSpec

-----------------------------------------------------------------------------
(***************************************************************************)
(* The pitch the encoder finds                                             *)
(***************************************************************************)

\* What the sizes of the code give.
LEMMA PitchSizes ==
    /\ Pitch!min_bin = 16 /\ Pitch!max_bin = 128 /\ 4 * Pitch!PeakSpan = 10240
    /\ Pitch!P_MIN = 20 /\ Pitch!P_MAX = 160 /\ Pitch!FFT_ENC = 512 /\ Pitch!MAX_AMP = 80
    /\ Pitch!SAMPLE_RATE = 8000 /\ Pitch!Quarter = cmax_bin /\ Pitch!Sample = 4 * cmax_bin
<1>1. 4 * Pitch!PeakSpan = 10240 /\ Pitch!PeakSpan = 2560
  BY SMT DEF Pitch!PeakSpan, Pitch!PE_FFT_SIZE, Pitch!DEC
<1>2. Pitch!P_MIN = 20 /\ Pitch!P_MAX = 160 /\ Pitch!FFT_ENC = 512 /\ Pitch!MAX_AMP = 80
  BY SMT DEF Pitch!P_MIN, Pitch!P_MAX, Pitch!FFT_ENC, Pitch!MAX_AMP
<1>3. Pitch!min_bin = 16 /\ Pitch!max_bin = 128
  BY <1>1, <1>2, SMT DEF Pitch!min_bin, Pitch!max_bin
<1>4. Pitch!SAMPLE_RATE = 8000 /\ Pitch!Quarter = cmax_bin /\ Pitch!Sample = 4 * cmax_bin
  BY SMT DEF Pitch!SAMPLE_RATE, Pitch!Quarter, Pitch!Sample
<1> QED
  BY <1>1, <1>2, <1>3, <1>4, SMT

\* A fundamental is that of a pitch within the limits, or 0 where there is none yet.
Fundamentals == {f \in Nat : f = 0 \/ (400 <= f /\ f <= 3200)}

\* At every stage the pitch is within the limits that its refinements so far allow.
PitchAt(s) ==
    CASE s = "fine" -> 10240 - 20 * cmax_bin <= num /\ num <= 10240 + 20 * cmax_bin
      [] s = "voicing" -> /\ 80 * cmax_bin <= num /\ num <= 640 * cmax_bin
                          /\ 400 <= Wo
      [] OTHER -> num = 10240

PitchInv ==
    /\ stage \in {"nlp", "coarse", "fine", "voicing"}
    /\ cmax_bin \in Nat /\ 16 <= cmax_bin /\ cmax_bin <= 128
    /\ num \in Nat /\ PitchAt(stage)
    /\ Wo \in Fundamentals /\ prev_Wo \in Fundamentals /\ earlier_Wo \in Fundamentals
    /\ halves \in Nat /\ halves <= MaxHalves /\ (stage # "nlp" => halves < MaxHalves)
    /\ voiced \in BOOLEAN
    /\ Pitch!VoicedIsSteady

\* The bin of harmonic m, counted at pitch p, lies in the spectrum at any pitch p + o that
\* is more than half of p.
LEMMA BinInside ==
    ASSUME NEW c \in Nat, NEW p \in Nat, NEW r \in Nat, c > 0, r > 0, 512 * p < 1023 * r,
           NEW m \in 1 .. (p \div (8 * c))
    PROVE  (4096 * (m * c) + r) \div (2 * r) \in 0 .. 511
<1>1. PICK L \in Nat : L = p \div (8 * c) /\ 8 * c * L <= p
  BY QuotientBounds
<1>2. PICK e \in Nat : L = m + e /\ m \in Nat
  BY <1>1
<1>3. 8 * c * L = 8 * (m * c) + 8 * (e * c) /\ m * c \in Nat /\ e * c \in Nat
  BY <1>2
<1>4. PICK y \in Nat : y = m * c /\ 8 * y <= p
  BY <1>1, <1>3
<1>5. 4096 * y + r < 2 * r * 512
  BY <1>4
<1>6. (4096 * y + r) \div (2 * r) \in Nat /\ (4096 * y + r) \div (2 * r) < 512
  BY <1>5, QuotientBelow
<1> QED
  BY <1>4, <1>6

\* The bins a refinement reads.
LEMMA ReadInside ==
    ASSUME cmax_bin \in Nat, cmax_bin > 0, NEW p \in Nat, NEW m \in 1 .. Pitch!Harmonics(p),
           NEW o \in Int, p + o > 0, 512 * p < 1023 * (p + o)
    PROVE  Pitch!Bin(m, p + o) \in Pitch!Spectrum
<1>1. PICK c \in Nat, r \in Nat : c = cmax_bin /\ r = p + o /\ c > 0 /\ r > 0
  OBVIOUS
<1>2. /\ Pitch!FFT_ENC = 512 /\ Pitch!Sample = 4 * c
      /\ Pitch!Spectrum = 0 .. 511
  <2>1. Pitch!FFT_ENC = 512 /\ Pitch!Sample = 4 * c
    BY <1>1, PitchSizes, SMT
  <2> QED
    BY <2>1 DEF Pitch!Spectrum
<1>3. Pitch!Harmonics(p) = p \div (8 * c)
  <2>1. 2 * Pitch!Sample = 8 * c
    BY <1>2
  <2> QED
    BY <2>1 DEF Pitch!Harmonics
<1>4. m \in 1 .. (p \div (8 * c)) /\ m \in Nat
  <2>1. p \div (8 * c) \in Nat
    BY <1>1, QuotientBounds
  <2> QED
    BY <1>3, <2>1
<1>5. Pitch!Bin(m, p + o) = (4096 * (m * c) + r) \div (2 * r)
  <2>1. 2 * m * 512 * (4 * c) = 4096 * (m * c)
    BY <1>1, <1>4
  <2> QED
    BY <1>1, <1>2, <2>1 DEF Pitch!Bin
<1>6. (4096 * (m * c) + r) \div (2 * r) \in 0 .. 511
  BY <1>1, <1>4, BinInside
<1> QED
  BY <1>2, <1>5, <1>6

\* The bands of a pitch within the limits.
LEMMA BandsInside ==
    ASSUME cmax_bin \in Nat, cmax_bin > 0, num \in Nat, 80 * cmax_bin <= num
    PROVE  Pitch!Bands
<1>1. PICK c \in Nat, n \in Nat : c = cmax_bin /\ n = num /\ c > 0 /\ n > 0 /\ 80 * c <= n
  OBVIOUS
<1>2. Pitch!FFT_ENC = 512 /\ Pitch!Sample = 4 * c /\ Pitch!FFT_ENC \div 2 = 256
  BY <1>1, PitchSizes, SMT
<1>3. Pitch!Spectrum = 0 .. 511
  BY <1>2 DEF Pitch!Spectrum
<1>4. Pitch!Harmonics(num) = n \div (8 * c)
  <2>1. 2 * Pitch!Sample = 8 * c
    BY <1>2
  <2> QED
    BY <1>1, <2>1 DEF Pitch!Harmonics
<1> DEFINE from(m) == (2 * (2 * m - 1) * 512 * (4 * c) + 2 * n) \div (4 * n)
           upto(m) == (2 * (2 * m + 1) * 512 * (4 * c) + 2 * n) \div (4 * n)
<1>5. SUFFICES ASSUME NEW m \in 1 .. (n \div (8 * c))
               PROVE  \A k \in from(m) .. (upto(m) - 1) :
                          k \in 0 .. 511 /\ k + 256 - Pitch!Bin(m, n) \in 0 .. 511
  BY <1>1, <1>2, <1>3, <1>4, SMTT(40) DEF Pitch!Bands
<1>6. PICK L \in Nat : L = n \div (8 * c) /\ 8 * c * L <= n
  BY <1>1, QuotientBounds
<1>7. PICK g \in Nat, l \in Nat : L = m + g /\ m = 1 + l /\ m \in Nat
  BY <1>6
<1>8. /\ 8 * c * L = 8 * (m * c) + 8 * (g * c) /\ m * c = c + l * c
      /\ m * c \in Nat /\ g * c \in Nat /\ l * c \in Nat
  BY <1>7
<1>9. PICK y \in Nat : y = m * c /\ c <= y /\ 8 * y <= n
  BY <1>6, <1>8
<1>10. /\ 2 * (2 * m - 1) * 512 * (4 * c) = 8192 * y - 4096 * c
       /\ 2 * (2 * m + 1) * 512 * (4 * c) = 8192 * y + 4096 * c
       /\ 2 * m * 512 * (4 * c) = 4096 * y
  BY <1>7, <1>9
<1>11. Pitch!Bin(m, n) = (4096 * y + n) \div (2 * n)
  BY <1>2, <1>10 DEF Pitch!Bin
<1>12. PICK lo \in Nat, hi \in Nat, mid \in Nat, d4 \in Nat, d2 \in Nat :
           /\ lo = 8192 * y - 4096 * c + 2 * n /\ hi = 8192 * y + 4096 * c + 2 * n
           /\ mid = 4096 * y + n /\ d4 = 4 * n /\ d2 = 2 * n /\ d4 > 0 /\ d2 > 0
  BY <1>1, <1>9
<1>13. PICK a \in Nat : a = lo \div d4 /\ lo < d4 * a + d4
  BY <1>12, QuotientBounds
<1>14. PICK b \in Nat : b = hi \div d4 /\ d4 * b <= hi
  BY <1>12, QuotientBounds
<1>15. PICK d \in Nat : d = mid \div d2 /\ d2 * d <= mid /\ mid < d2 * d + d2
  BY <1>12, QuotientBounds
<1>16. from(m) = a /\ upto(m) = b /\ Pitch!Bin(m, n) = d
  BY <1>10, <1>11, <1>12, <1>13, <1>14, <1>15
<1>17. ASSUME NEW k \in a .. (b - 1)
       PROVE  k \in 0 .. 511 /\ k + 256 - d \in 0 .. 511
  <2>1. /\ 8192 * y - 4096 * c + 2 * n < 4 * n * a + 4 * n
        /\ 4 * n * b <= 8192 * y + 4096 * c + 2 * n
        /\ 2 * n * d <= 4096 * y + n /\ 4096 * y + n < 2 * n * d + 2 * n
    BY <1>12, <1>13, <1>14, <1>15
  <2>2. n > 0 /\ c > 0 /\ 80 * c <= n /\ c <= y /\ 8 * y <= n
    BY <1>1, <1>9
  <2>3. a <= k /\ k <= b - 1 /\ k \in Nat
    OBVIOUS
  <2>4. PICK na \in Nat, nb \in Nat, nd \in Nat, nk \in Nat :
            na = n * a /\ nb = n * b /\ nd = n * d /\ nk = n * k
    <3>1. n * a \in Nat /\ n * b \in Nat /\ n * d \in Nat /\ n * k \in Nat
      BY <2>3
    <3> QED
      BY <3>1, Zenon
  <2>5. 4 * n * a = 4 * na /\ 4 * n * b = 4 * nb /\ 2 * n * d = 2 * nd
    BY <2>4
  <2>6. na <= nk /\ nk <= nb - n
    <3>1. PICK e \in Nat : k = a + e
      BY <2>3
    <3>2. n * k = n * a + n * e /\ n * e \in Nat
      BY <3>1
    <3>3. PICK f \in Nat : b = k + 1 + f
      BY <2>3
    <3>4. n * b = n * k + n + n * f /\ n * f \in Nat
      BY <2>3, <3>3
    <3> QED
      BY <2>4, <3>2, <3>4
  <2>7. k < 512
    <3>1. nk < n * 512
      BY <2>1, <2>2, <2>5, <2>6, SMT
    <3> QED
      BY <2>3, <2>4, <3>1, CompareFactors
  <2>8. k - d < 14 /\ -15 < k - d
    <3>1. n * (k - d) = nk - nd
      BY <2>3, <2>4
    <3>2. nk - nd < 14 * n
      BY <2>1, <2>2, <2>5, <2>6, SMT
    <3>3. n * (-15) < nk - nd
      BY <2>1, <2>2, <2>5, <2>6, SMT
    <3>4. n * (k - d) < n * 14 /\ n * (-15) < n * (k - d)
      BY <3>1, <3>2, <3>3
    <3> QED
      BY <2>3, <3>4, CompareFactors
  <2> QED
    BY <2>3, <2>7, <2>8
<1> HIDE DEF from, upto
<1> QED
  <2> TAKE k \in from(m) .. (upto(m) - 1)
  <2>1. k \in a .. (b - 1)
    BY <1>16, Zenon
  <2>2. k \in 0 .. 511 /\ k + 256 - d \in 0 .. 511
    BY <1>17, <2>1, Zenon
  <2> QED
    BY <1>16, <2>2, Zenon

\* What is promised of the analysis follows from the invariant.
LEMMA PitchPromised ==
    PitchInv => /\ Pitch!TypeOK /\ Pitch!BinsInSpectrum /\ Pitch!PitchInRange
                /\ Pitch!VoicedIsSteady
<1> SUFFICES ASSUME PitchInv
             PROVE  /\ Pitch!TypeOK /\ Pitch!BinsInSpectrum /\ Pitch!PitchInRange
                    /\ Pitch!VoicedIsSteady
  OBVIOUS
<1>1. PICK c \in Nat : c = cmax_bin /\ 16 <= c /\ c <= 128
  BY DEF PitchInv
<1>2. /\ num \in Nat /\ num > 0
      /\ stage = "coarse" => num = 10240
      /\ stage = "fine" => 10240 - 20 * c <= num /\ num <= 10240 + 20 * c
      /\ stage = "voicing" => 80 * c <= num /\ num <= 640 * c /\ 400 <= Wo
  BY <1>1 DEF PitchInv, PitchAt
<1>3. Pitch!TypeOK
  <2>1. Pitch!Hz(Pitch!SAMPLE_RATE) \in Nat /\ Pitch!Hz(Pitch!SAMPLE_RATE) > 3200
    BY PitchSizes, SMT DEF Pitch!Hz
  <2>2. ASSUME NEW f \in Fundamentals PROVE f \in 0 .. Pitch!Hz(Pitch!SAMPLE_RATE)
    <3>1. f \in Nat /\ f <= 3200
      BY <2>2, SMT DEF Fundamentals
    <3> QED
      BY <2>1, <3>1, SMT
  <2>3. cmax_bin \in Pitch!min_bin .. Pitch!max_bin
    <3>1. Pitch!min_bin = 16 /\ Pitch!max_bin = 128
      BY PitchSizes, SMT
    <3> QED
      BY <1>1, <3>1
  <2>4. halves \in 0 .. MaxHalves
    BY DEF PitchInv
  <2> QED
    <3>1. /\ Wo \in 0 .. Pitch!Hz(Pitch!SAMPLE_RATE)
          /\ prev_Wo \in 0 .. Pitch!Hz(Pitch!SAMPLE_RATE)
          /\ earlier_Wo \in 0 .. Pitch!Hz(Pitch!SAMPLE_RATE)
      BY <2>2 DEF PitchInv
    <3>2. num \in Nat \ {0}
      BY <1>2, SMT
    <3> QED
      BY <2>3, <2>4, <3>1, <3>2 DEF Pitch!TypeOK, PitchInv
<1>4. Pitch!BinsInSpectrum
  <2>1. Pitch!Sample = 4 * c /\ Pitch!Quarter = c
    BY <1>1, PitchSizes, SMT
  <2>2. ASSUME stage = "coarse", NEW k \in (0 - 5) .. 5, NEW m \in 1 .. Pitch!Harmonics(num)
        PROVE  Pitch!Bin(m, num + k * Pitch!Sample) \in Pitch!Spectrum
    <3>1. PICK o \in Int : o = k * Pitch!Sample /\ o >= 0 - 20 * c
      <4>1. k * (4 * c) \in Int /\ k * (4 * c) >= 0 - 20 * c
        OBVIOUS
      <4> QED
        BY <2>1, <4>1
    <3>2. num + o > 0 /\ 512 * num < 1023 * (num + o)
      BY <1>1, <1>2, <2>2, <3>1
    <3> QED
      BY <1>1, <1>2, <3>1, <3>2, ReadInside
  <2>3. ASSUME stage = "fine", NEW k \in (0 - 4) .. 4, NEW m \in 1 .. Pitch!Harmonics(num)
        PROVE  Pitch!Bin(m, num + k * Pitch!Quarter) \in Pitch!Spectrum
    <3>1. PICK o \in Int : o = k * Pitch!Quarter /\ o >= 0 - 4 * c
      <4>1. k * c \in Int /\ k * c >= 0 - 4 * c
        OBVIOUS
      <4> QED
        BY <2>1, <4>1
    <3>2. num + o > 0 /\ 512 * num < 1023 * (num + o)
      BY <1>1, <1>2, <2>3, <3>1
    <3> QED
      BY <1>1, <1>2, <3>1, <3>2, ReadInside
  <2>4. ASSUME stage = "voicing" PROVE Pitch!Bands
    BY <1>1, <1>2, <2>4, BandsInside
  <2>5. stage = "coarse" => Pitch!Read(num, {k * Pitch!Sample : k \in (0 - 5) .. 5})
    BY <2>2 DEF Pitch!Read
  <2>6. stage = "fine" => Pitch!Read(num, {k * Pitch!Quarter : k \in (0 - 4) .. 4})
    BY <2>3 DEF Pitch!Read
  <2> QED
    BY <2>4, <2>5, <2>6 DEF Pitch!BinsInSpectrum
<1>5. Pitch!PitchInRange
  <2> SUFFICES ASSUME stage = "voicing"
               PROVE  /\ Pitch!Hz(50) <= Wo /\ Wo <= Pitch!Hz(400)
                      /\ Pitch!Harmonics(num) <= Pitch!MAX_AMP
    BY DEF Pitch!PitchInRange
  <2>1. Pitch!Hz(50) = 400 /\ Pitch!Hz(400) = 3200 /\ Pitch!MAX_AMP = 80
    BY PitchSizes, SMT DEF Pitch!Hz
  <2>2. Wo \in Nat /\ 400 <= Wo /\ Wo <= 3200
    BY <1>2 DEF PitchInv, Fundamentals
  <2>3. Pitch!Harmonics(num) = num \div (8 * c)
    <3>1. 2 * Pitch!Sample = 8 * c
      BY <1>1, PitchSizes, SMT
    <3> QED
      BY <3>1 DEF Pitch!Harmonics
  <2>4. num < 8 * c * 81
    BY <1>1, <1>2
  <2>5. num \div (8 * c) \in Nat /\ num \div (8 * c) < 81
    BY <1>1, <1>2, <2>4, QuotientBelow
  <2> QED
    BY <2>1, <2>2, <2>3, <2>5
<1> QED
  BY <1>3, <1>4, <1>5 DEF PitchInv

\* The analysis starts in the invariant.
LEMMA PitchInit == Pitch!StepsAssumption /\ Pitch!Init => PitchInv
<1>1. Pitch!min_bin = 16 /\ 4 * Pitch!PeakSpan = 10240
  BY PitchSizes, SMT
<1> SUFFICES ASSUME Pitch!StepsAssumption, Pitch!Init PROVE PitchInv
  OBVIOUS
<1>2. /\ stage = "nlp" /\ cmax_bin = 16 /\ num = 10240 /\ Wo = 0 /\ prev_Wo = 0
      /\ earlier_Wo = 0 /\ voiced = FALSE /\ halves = 0
  BY <1>1 DEF Pitch!Init
<1>3. PitchAt(stage) /\ Pitch!VoicedIsSteady
  BY <1>2 DEF PitchAt, Pitch!VoicedIsSteady
<1>4. 0 \in Fundamentals
  BY DEF Fundamentals
<1>5. halves \in Nat /\ halves <= MaxHalves
  BY <1>2 DEF Pitch!StepsAssumption
<1>6. cmax_bin \in Nat /\ 16 <= cmax_bin /\ cmax_bin <= 128 /\ num \in Nat
  BY <1>2
<1>7. /\ stage \in {"nlp", "coarse", "fine", "voicing"} /\ voiced \in BOOLEAN
      /\ stage # "nlp" => halves < MaxHalves
  <2>1. stage = "nlp" /\ voiced = FALSE
    BY <1>2
  <2> QED
    BY <2>1, Zenon
<1> QED
  BY <1>2, <1>3, <1>4, <1>5, <1>6, <1>7 DEF PitchInv

\* Any peak that is chosen is a bin of the range.
LEMMA PeakInside ==
    ASSUME NEW g \in 16 .. 128, NEW c \in Pitch!post_process_sub_multiples(g)
    PROVE  c \in Nat /\ 16 <= c /\ c <= 128
<1>1. Pitch!min_bin = 16 /\ Pitch!max_bin = 128
  BY PitchSizes, SMT
<1>2. CASE c = g
  BY <1>2
<1>3. ASSUME NEW m \in Pitch!Multiples(g), c \in Pitch!bmin(g, m) .. Pitch!bmax(g, m)
      PROVE  c \in Nat /\ 16 <= c /\ c <= 128
  <2>1. m \in 2 .. 128 /\ g \div m >= 16
    BY <1>1, <1>3 DEF Pitch!Multiples
  <2>2. PICK q \in Nat : q = g \div m /\ q < 65
    <3>1. m * 65 >= 130
      BY <2>1
    <3> QED
      BY <2>1, <3>1, QuotientBelow
  <2>3. Pitch!bmax(g, m) = (12 * q) \div 10
    BY <2>2 DEF Pitch!bmax
  <2>4. Pitch!bmin(g, m) = IF (8 * q) \div 10 < 16 THEN 16 ELSE (8 * q) \div 10
    BY <1>1, <2>2 DEF Pitch!bmin
  <2> QED
    BY <1>3, <2>2, <2>3, <2>4
<1> QED
  BY <1>2, <1>3 DEF Pitch!post_process_sub_multiples

\* The global peak of the squared speech, and the first estimate of the pitch.
LEMMA PitchEstimated ==
    ASSUME Pitch!StepsAssumption, PitchInv, Pitch!nlp
    PROVE  PitchInv'
<1>1. PICK g \in PeakBins : cmax_bin' \in Pitch!post_process_sub_multiples(g)
  BY DEF Pitch!nlp
<1>2. /\ Pitch!min_bin = 16 /\ Pitch!max_bin = 128 /\ 4 * Pitch!PeakSpan = 10240
  BY PitchSizes, SMT
<1>3. g \in 16 .. 128
  BY <1>1, <1>2 DEF Pitch!StepsAssumption
<1>4. cmax_bin' \in Nat /\ 16 <= cmax_bin' /\ cmax_bin' <= 128
  BY <1>1, <1>3, PeakInside
<1>5. /\ stage' = "coarse" /\ num' = 10240 /\ halves < MaxHalves
      /\ Wo' = Wo /\ prev_Wo' = prev_Wo /\ voiced' = voiced /\ earlier_Wo' = earlier_Wo
      /\ halves' = halves
  BY <1>2 DEF Pitch!nlp
<1>6. PitchAt(stage)' /\ Pitch!VoicedIsSteady'
  BY <1>5 DEF PitchAt, Pitch!VoicedIsSteady
<1> QED
  BY <1>4, <1>5, <1>6 DEF PitchInv

\* The coarse refinement moves the pitch by at most five samples.
LEMMA PitchCoarse ==
    ASSUME Pitch!StepsAssumption, PitchInv, Pitch!coarse
    PROVE  PitchInv'
<1>1. PICK c \in Nat : c = cmax_bin /\ 16 <= c /\ c <= 128
  BY DEF PitchInv
<1>2. /\ stage = "coarse" /\ stage' = "fine" /\ cmax_bin' = c
      /\ Wo' = Wo /\ prev_Wo' = prev_Wo /\ voiced' = voiced /\ earlier_Wo' = earlier_Wo
      /\ halves' = halves
  BY <1>1 DEF Pitch!coarse
<1>3. num = 10240
  BY <1>2 DEF PitchInv, PitchAt
<1>4. Pitch!Sample = 4 * c
  BY <1>1, PitchSizes, SMT
<1>5. num' \in Nat /\ 10240 - 20 * c <= num' /\ num' <= 10240 + 20 * c
  <2>1. CASE num' = num
    BY <1>1, <1>3, <2>1
  <2>2. ASSUME NEW k \in CoarseSteps, num' = num + k * Pitch!Sample
        PROVE  num' \in Nat /\ 10240 - 20 * c <= num' /\ num' <= 10240 + 20 * c
    <3>1. k \in (0 - 5) .. 5
      BY <2>2 DEF Pitch!StepsAssumption
    <3>2. num' = 10240 + k * (4 * c)
      BY <1>3, <1>4, <2>2
    <3> QED
      BY <1>1, <3>1, <3>2
  <2> QED
    BY <2>1, <2>2 DEF Pitch!coarse, Pitch!hs_pitch_refinement
<1>6. PitchAt(stage)' /\ Pitch!VoicedIsSteady'
  BY <1>2, <1>5 DEF PitchAt, Pitch!VoicedIsSteady
<1> QED
  BY <1>1, <1>2, <1>5, <1>6 DEF PitchInv

\* The fine refinement, and the limits.
LEMMA PitchFine ==
    ASSUME Pitch!StepsAssumption, PitchInv, Pitch!fine
    PROVE  PitchInv'
<1>1. PICK c \in Nat : c = cmax_bin /\ 16 <= c /\ c <= 128
  BY DEF PitchInv
<1>2. /\ stage = "fine" /\ stage' = "voicing" /\ cmax_bin' = c
      /\ prev_Wo' = prev_Wo /\ voiced' = voiced /\ earlier_Wo' = earlier_Wo
      /\ halves' = halves
  BY <1>1 DEF Pitch!fine
<1>3. num \in Nat /\ 10240 - 20 * c <= num /\ num <= 10240 + 20 * c
  BY <1>1, <1>2 DEF PitchInv, PitchAt
<1>4. Pitch!Sample = 4 * c /\ Pitch!Quarter = c /\ Pitch!P_MAX = 160 /\ Pitch!P_MIN = 20
  BY <1>1, PitchSizes, SMT
<1>5. PICK o \in {k * Pitch!Quarter : k \in FineSteps} \cup {0} :
          num' = Pitch!Limited(num + o) /\ Wo' = Pitch!Fundamental(Pitch!Limited(num + o))
  BY DEF Pitch!fine
<1>6. o \in Int
  <2>1. ASSUME NEW k \in FineSteps PROVE k * Pitch!Quarter \in Int
    <3>1. k \in (0 - 4) .. 4
      BY <2>1 DEF Pitch!StepsAssumption
    <3> QED
      BY <1>4, <3>1
  <2> QED
    BY <2>1
<1>7. num' \in Nat /\ 80 * c <= num' /\ num' <= 640 * c
  <2>1. PICK p \in Int : p = num + o
    BY <1>3, <1>6
  <2>2. 160 * (4 * c) = 640 * c /\ 20 * (4 * c) = 80 * c
    OBVIOUS
  <2>3. num' = CASE p > 640 * c -> 640 * c [] p < 80 * c -> 80 * c [] OTHER -> p
    BY <1>4, <1>5, <2>1, <2>2 DEF Pitch!Limited
  <2> QED
    BY <1>1, <2>3
<1>8. Wo' \in Nat /\ 400 <= Wo' /\ Wo' <= 3200
  <2>1. Pitch!Hz(Pitch!SAMPLE_RATE) = 64000
    BY PitchSizes, SMT DEF Pitch!Hz
  <2>2. Wo' = (64000 * (4 * c)) \div num'
    BY <1>4, <1>5, <2>1, SMT DEF Pitch!Fundamental
  <2>3. PICK n \in Nat : n = num' /\ 80 * c <= n /\ n <= 640 * c /\ n > 0 /\ c > 0
    BY <1>1, <1>7
  <2>4. PICK z \in Nat : z = 64000 * (4 * c) /\ z = 256000 * c
    BY SMT
  <2>5. PICK f \in Nat : f = z \div n /\ n * f <= z /\ z < n * f + n
    <3>1. n > 0
      BY <2>3
    <3>2. z \div n \in Nat /\ n * (z \div n) <= z /\ z < n * (z \div n) + n
      BY <3>1, QuotientBounds, Zenon
    <3> QED
      BY <3>2
  <2>6. f = Wo'
    BY <2>2, <2>3, <2>4, <2>5, SMT
  <2>7. f \in Nat /\ 400 <= f /\ f <= 3200
    <3>1. PICK y \in Nat : y = n * f
      OBVIOUS
    <3>2. y <= 256000 * c /\ 256000 * c < y + n
      BY <2>4, <2>5, <3>1, SMT
    <3>3. 80 * c <= n /\ n <= 640 * c /\ n > 0
      BY <2>3, SMT
    <3>4. y < n * 3201 /\ n * 400 < y + n
      BY <3>2, <3>3, SMT
    <3>5. n * f < n * 3201 /\ n * 400 < n * (f + 1)
      BY <3>1, <3>4, SMT
    <3>6. f < 3201 /\ 400 < f + 1
      BY <3>3, <3>5, CompareFactors
    <3> QED
      BY <3>6
  <2> QED
    BY <2>6, <2>7, SMT
<1>9. PitchAt(stage)' /\ Pitch!VoicedIsSteady' /\ Wo' \in Fundamentals
  BY <1>2, <1>7, <1>8 DEF PitchAt, Pitch!VoicedIsSteady, Fundamentals
<1> QED
  BY <1>1, <1>2, <1>7, <1>9 DEF PitchInv

\* The voicing decision, and the pitch is kept for the next half.
LEMMA PitchVoiced ==
    ASSUME Pitch!StepsAssumption, PitchInv, Pitch!est_voicing_mbe
    PROVE  PitchInv'
<1>1. /\ Pitch!min_bin = 16 /\ 4 * Pitch!PeakSpan = 10240
  BY PitchSizes, SMT
<1>2. /\ stage = "voicing" /\ stage' = "nlp" /\ earlier_Wo' = prev_Wo /\ prev_Wo' = Wo
      /\ halves' = halves + 1 /\ cmax_bin' = 16 /\ num' = 10240 /\ Wo' = Wo
  BY <1>1 DEF Pitch!est_voicing_mbe
<1>3. PICK snr \in BOOLEAN, eratio \in Pitch!Ratios : voiced' = Pitch!Decision(snr, eratio)
  BY DEF Pitch!est_voicing_mbe
<1>4. voiced' \in BOOLEAN /\ (voiced' => Pitch!Abs(Wo - prev_Wo) <= Pitch!Hz(15))
  BY <1>3, Zenon DEF Pitch!Decision
<1>5. PICK f \in Nat, p \in Nat : /\ f = Wo /\ p = prev_Wo /\ 400 <= f /\ f <= 3200
                                  /\ p = 0 \/ (400 <= p /\ p <= 3200)
  BY <1>2 DEF PitchInv, PitchAt, Fundamentals
<1>6. Pitch!VoicedIsSteady'
  <2> SUFFICES ASSUME voiced'
               PROVE  earlier_Wo' # 0 /\ Pitch!Abs(prev_Wo' - earlier_Wo') <= Pitch!Hz(15)
    BY DEF Pitch!VoicedIsSteady
  <2>1. Pitch!Abs(f - p) <= Pitch!Hz(15)
    BY <1>4, <1>5
  <2>2. p # 0
    BY <1>5, <2>1 DEF Pitch!Abs, Pitch!Hz
  <2> QED
    BY <1>2, <1>5, <2>1, <2>2
<1>7. halves' \in Nat /\ halves' <= MaxHalves
  BY <1>2 DEF PitchInv, Pitch!StepsAssumption
<1>8. PitchAt(stage)'
  BY <1>2 DEF PitchAt
<1>9. Wo' \in Fundamentals /\ prev_Wo' \in Fundamentals /\ earlier_Wo' \in Fundamentals
  BY <1>2 DEF PitchInv
<1> QED
  BY <1>2, <1>4, <1>6, <1>7, <1>8, <1>9 DEF PitchInv

\* Every step of the analysis keeps the invariant.
LEMMA PitchStep ==
    Pitch!StepsAssumption /\ PitchInv /\ [Pitch!Next]_(Pitch!vars) => PitchInv'
<1> SUFFICES ASSUME Pitch!StepsAssumption, PitchInv, [Pitch!Next]_(Pitch!vars)
             PROVE  PitchInv'
  OBVIOUS
<1>1. CASE UNCHANGED Pitch!vars
  BY <1>1 DEF Pitch!vars, PitchInv, PitchAt, Pitch!VoicedIsSteady
<1>2. CASE Pitch!Next
  BY <1>2, PitchEstimated, PitchCoarse, PitchFine, PitchVoiced DEF Pitch!Next
<1> QED
  BY <1>1, <1>2

\* The analysis of a half, wherever the peaks lie and however the pitch is refined: only
\* bins of the spectrum are read, the pitch is within its limits and its harmonics fit,
\* and no half is voiced whose pitch jumps.
\* (nlp, two_stage_pitch_refinement, est_voicing_mbe)
THEOREM PitchReadsSpectrum == PartSpec => []BinsInSpectrum
<1> DEFINE Inv == part = "pitch" => PitchInv
<1>1. PartInit => Inv
  BY PitchInit, PartsAssumption DEF PartInit, PartsAssumption
<1>2. Inv /\ [PartNext]_partVars => Inv'
  <2> SUFFICES ASSUME Inv, [PartNext]_partVars, part' = "pitch" PROVE PitchInv'
    OBVIOUS
  <2>1. part = "pitch"
    BY DEF PartNext, partVars
  <2>2. [Pitch!Next]_(Pitch!vars)
    BY <2>1 DEF PartNext, partVars, pitchVars, Pitch!vars
  <2> QED
    BY <2>1, <2>2, PitchStep, PartsAssumption DEF PartsAssumption
<1>3. Inv => BinsInSpectrum
  BY PitchPromised DEF BinsInSpectrum
<1> QED
  BY <1>1, <1>2, <1>3, PTL DEF PartSpec
==============================================================================
