------------------------------- MODULE AesIcm -------------------------------
(***************************************************************************)
(* AES integer counter mode (aes_icm.c), the cipher of the phone's media   *)
(* streams.  AES itself is kept abstract: a block of keystream is named by *)
(* the counter value it is the encryption of, and an octet of keystream by *)
(* that value and its position in the block.                               *)
(*                                                                         *)
(* A counter value has three parts: hi, what aes_icm_set_octet exors into  *)
(* the first 64 bits (0 otherwise), iv, the nonce exored with the salt,    *)
(* and ctr, the last 16 bits, which count the blocks.                      *)
(***************************************************************************)
EXTENDS Integers

CONSTANTS CtrMax,    \* the largest value of the last 16 bits (65535)
          IVs,       \* nonces; the salt makes a distinct counter of each
          FirstCtrs, \* the last 16 bits of the nonces that are used
          Lengths    \* octets asked for in one call

ASSUME IcmAssumption == /\ CtrMax \in Nat
                        /\ FirstCtrs \subseteq 0 .. CtrMax
                        /\ Lengths \subseteq Nat

\* sizeof(v128_t)
BlockLen == 16

VARIABLES counter,          \* counter of the next block
          keystream_buffer, \* the counter whose block is in the buffer
          bytes_in_buffer,
          status,           \* what the last call returned
          start, served,    \* history: ctr when the iv was set, octets since
          out               \* history: the last call's octets, by their position

ctxVars == <<counter, keystream_buffer, bytes_in_buffer>>
vars == <<ctxVars, status, start, served, out>>

Nothing == [n \in {} |-> 0]
Counter(h, v, c) == [hi |-> h, iv |-> v, ctr |-> c]

-----------------------------------------------------------------------------
\* aes_icm_context_init: the counter starts at the salt, whose last two octets
\* are forced to zero.
Init == \E v \in IVs :
    /\ counter = Counter(0, v, 0)
    /\ keystream_buffer = Counter(0, v, 0)
    /\ bytes_in_buffer = 0
    /\ status = "ok"
    /\ start = 0 /\ served = 0 /\ out = Nothing

\* aes_icm_set_iv that keeps what is left in the buffer
aes_icm_set_iv_keepsBuffer(v, c) ==
    /\ counter' = Counter(0, v, c)
    /\ status' = "ok"
    /\ start' = c /\ served' = 0 /\ out' = Nothing
    /\ UNCHANGED <<keystream_buffer, bytes_in_buffer>>

\* aes_icm_set_iv: the exor of the nonce with the offset.
aes_icm_set_iv(v, c) ==
    /\ counter' = Counter(0, v, c)
    /\ bytes_in_buffer' = 0
    /\ status' = "ok"
    /\ start' = c /\ served' = 0 /\ out' = Nothing
    /\ UNCHANGED keystream_buffer

\* aes_icm_advance: the counter n blocks further, in 16 bits.
Advanced(n) == [counter EXCEPT !.ctr = (@ + n) % (CtrMax + 1)]

\* The keystream octets a call exors into the data: what is left in the
\* buffer first, then blocks as the counter gives them.
Octet(k) ==
    IF k < bytes_in_buffer
    THEN [block |-> keystream_buffer, at |-> BlockLen - bytes_in_buffer + k]
    ELSE LET r == k - bytes_in_buffer
         IN  [block |-> Advanced(r \div BlockLen), at |-> r % BlockLen]

\* A check that forgets the blocks that were used before
EnoughLeft_fresh(len) == len <= CtrMax

\* The check of the segment: octets and blocks are added up.  (The sum has 32 bits in
\* the code; it would wrap for a buffer of nearly 2^32 octets.)
EnoughLeft(len) == len + counter.ctr <= CtrMax

Terminus(len) ==
    /\ ~ EnoughLeft(len)
    /\ status' = "terminus" /\ out' = Nothing
    /\ UNCHANGED <<ctxVars, start, served>>

\* "deal with odd case of small bytes_to_encr"
FromBuffer(len) ==
    /\ EnoughLeft(len) /\ len <= bytes_in_buffer
    /\ bytes_in_buffer' = bytes_in_buffer - len
    /\ status' = "ok" /\ served' = served + len
    /\ out' = [n \in served .. (served + len - 1) |-> Octet(n - served)]
    /\ UNCHANGED <<counter, keystream_buffer, start>>

\* Drain the buffer, run through whole blocks, and keep the end of the last one.
FromBlocks(len) ==
    /\ EnoughLeft(len) /\ len > bytes_in_buffer
    /\ LET rest == len - bytes_in_buffer
           blocks == (rest + BlockLen - 1) \div BlockLen
       IN  /\ counter' = Advanced(blocks)
           /\ keystream_buffer' = Advanced(blocks - 1)
           /\ bytes_in_buffer' = IF rest % BlockLen = 0 THEN 0
                                 ELSE BlockLen - (rest % BlockLen)
    /\ status' = "ok" /\ served' = served + len
    /\ out' = [n \in served .. (served + len - 1) |-> Octet(n - served)]
    /\ UNCHANGED start

\* aes_icm_encrypt; aes_icm_output is the same on a zeroized buffer.
aes_icm_encrypt(len) == Terminus(len) \/ FromBuffer(len) \/ FromBlocks(len)

Next == \/ \E v \in IVs, c \in FirstCtrs : aes_icm_set_iv(v, c)
        \/ \E len \in Lengths : aes_icm_encrypt(len)

Spec == Init /\ [][Next]_vars

-----------------------------------------------------------------------------
\* aes_icm_set_octet: the block number is exored into the first half of the
\* counter, the second half is left as it is, and a buffer that is filled does
\* not move the counter on.
aes_icm_set_octet(octet_num) ==
    LET tail_num == octet_num % BlockLen
        there == [counter EXCEPT !.hi = octet_num \div BlockLen]
    IN  /\ counter' = there
        /\ IF tail_num # 0
           THEN keystream_buffer' = there /\ bytes_in_buffer' = BlockLen - tail_num
           ELSE bytes_in_buffer' = 0 /\ UNCHANGED keystream_buffer
        /\ status' = "ok"
        /\ served' = octet_num /\ out' = Nothing
        /\ UNCHANGED start

NextSeek == Next \/ \E m \in Lengths : aes_icm_set_octet(m)
SpecSeek == Init /\ [][NextSeek]_vars

-----------------------------------------------------------------------------
Counters == [hi : Nat, iv : IVs, ctr : 0 .. CtrMax]

\* Types of the variables.
TypeOK == /\ counter \in Counters /\ keystream_buffer \in Counters
          /\ bytes_in_buffer \in 0 .. (BlockLen - 1)
          /\ status \in {"ok", "terminus"}
          /\ start \in 0 .. CtrMax /\ served \in Nat

\* Octet n of the keystream of an iv is octet n mod 16 of block n div 16, however
\* the calls divide the data: sender and receiver agree although they encrypt in
\* pieces of different lengths, and no octet serves twice, since the 16 bits of
\* the block counter never wrap.  (aes_icm.c: aes_icm_encrypt_ismacryp)
InOrder ==
    \A n \in DOMAIN out :
        out[n] = [block |-> Counter(0, counter.iv, start + (n \div BlockLen)),
                  at |-> n % BlockLen]

\* aes_icm.c:198, "sets the counter of the context which it is passed so that the
\* next octet of keystream that will be generated is the ith octet".
SetOctetSeeks == InOrder
=============================================================================
