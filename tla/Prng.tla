--------------------------------- MODULE Prng ---------------------------------
(***************************************************************************)
(* The random number generators of libsrtp: ctr_prng.c, AES in counter mode   *)
(* under a random key, which the crypto kernel uses, and the generator in the *)
(* manner of X9.17 of prng.c; both count their octets and take a new seed     *)
(* from the random source (rand_source.c) when they come to a limit.          *)
(*                                                                         *)
(* An octet is named by the seed, the number of the block and its place in    *)
(* the block: two octets of one name are the same octet.                      *)
(***************************************************************************)
EXTENDS Integers, FiniteSets

CONSTANTS BlockLen,     \* octets of a block, 16
          MaxOutLen,    \* MAX_PRNG_OUT_LEN
          SegmentMax,   \* what the counter of the cipher holds, 65535
          Lengths,      \* octets asked for
          MaxSeeds,     \* bound on the seeds taken
          MaxCalls      \* bound on the calls

PrngAssumption == /\ {BlockLen, MaxOutLen, SegmentMax} \subseteq Nat \ {0}
                  /\ MaxSeeds \in Nat
                  /\ Lengths \subseteq 0 .. MaxOutLen

VARIABLES ready,        \* dev_random_fdes: the random source is initialized
          gen,          \* the generator in use, "ctr" or "x917", and whether it is seeded
          seed,         \* number of the seed
          octet_count,
          served,       \* ctr: octets of keystream used
          block,        \* x917: how often the state was stepped
          calls, status,
          given,        \* history: octets handed out
          again         \* history: the last call handed one out a second time

vars == <<ready, gen, seed, octet_count, served, block, calls, status, given, again>>

Init == /\ ready = FALSE /\ gen \in {"ctr", "x917"}
        /\ seed = 0 /\ octet_count = 0 /\ served = 0 /\ block = 0
        /\ calls = 0 /\ status = "ok" /\ given = {} /\ again = FALSE

\* rand_source_init, in the build without a device: always succeeds.
rand_source_init == /\ ready' = TRUE /\ status' = "ok"
                    /\ UNCHANGED <<gen, seed, octet_count, served, block, calls, given, again>>

\* rand_source_deinit, which leaves the mark set in this build.
rand_source_deinit == /\ status' = IF ready THEN "ok" ELSE "dealloc_fail"
                      /\ UNCHANGED <<ready, gen, seed, octet_count, served, block, calls, given, again>>

\* ctr_prng_init and x917_prng_init: a key, and for x917 a state, of the source.
prng_init ==   \* after rand_source_init, in the order of the kernel
    /\ ready /\ seed < MaxSeeds
    /\ seed' = seed + 1 /\ octet_count' = 0 /\ served' = 0 /\ block' = 0 /\ status' = "ok"
    /\ UNCHANGED <<ready, gen, calls, given, again>>

\* Whether a call takes a new seed first.
Reseeds(len) == octet_count > MaxOutLen - len

\* The blocks of the segment that are used, as aes_icm_output checks them.
Blocks(n) == (n + BlockLen - 1) \div BlockLen
Exhausted(from, len) == len + Blocks(from) > SegmentMax

Octet(s, b, i) == <<s, b, i>>
Hand(octets) == given' = given \cup octets /\ again' = (octets \cap given # {})

\* ctr_prng_get_octet_string, once seeded: the count goes up although nothing may
\* come.
ctr_prng_get_octet_string(len) ==
    LET from == IF Reseeds(len) THEN 0 ELSE served
        s == IF Reseeds(len) THEN seed + 1 ELSE seed
    IN  /\ gen = "ctr" /\ seed > 0 /\ s <= MaxSeeds
        /\ seed' = s /\ octet_count' = (IF Reseeds(len) THEN 0 ELSE octet_count) + len
        /\ IF Exhausted(from, len)
           THEN status' = "terminus" /\ served' = from /\ UNCHANGED <<given, again>>
           ELSE /\ status' = "ok" /\ served' = from + len
                /\ Hand({Octet(s, n \div BlockLen, n % BlockLen) : n \in from .. (from + len - 1)})
        /\ UNCHANGED <<ready, gen, block>>

\* The x917 generator that does not step its state behind the last octets
x917_prng_get_octet_string_tail(len) ==
    LET from == IF Reseeds(len) THEN 0 ELSE block
        s == IF Reseeds(len) THEN seed + 1 ELSE seed
    IN  /\ gen = "x917" /\ seed > 0 /\ s <= MaxSeeds
        /\ seed' = s /\ octet_count' = (IF Reseeds(len) THEN 0 ELSE octet_count) + len
        /\ status' = "ok" /\ block' = from + len \div BlockLen
        /\ Hand({Octet(s, from + n \div BlockLen, n % BlockLen) : n \in 0 .. (len - 1)})
        /\ UNCHANGED <<ready, gen, served>>

\* x917_prng_get_octet_string: a step of the state for each block, the last one too,
\* of which only the octets that are needed are given.
x917_prng_get_octet_string(len) ==
    LET from == IF Reseeds(len) THEN 0 ELSE block
        s == IF Reseeds(len) THEN seed + 1 ELSE seed
    IN  /\ gen = "x917" /\ seed > 0 /\ s <= MaxSeeds
        /\ seed' = s /\ octet_count' = (IF Reseeds(len) THEN 0 ELSE octet_count) + len
        /\ status' = "ok" /\ block' = from + Blocks(len)
        /\ Hand({Octet(s, from + n \div BlockLen, n % BlockLen) : n \in 0 .. (len - 1)})
        /\ UNCHANGED <<ready, gen, served>>

Get(len) == /\ calls < MaxCalls /\ calls' = calls + 1
            /\ ctr_prng_get_octet_string(len) \/ x917_prng_get_octet_string(len)

Next == \/ rand_source_init \/ rand_source_deinit \/ prng_init
        \/ \E len \in Lengths : Get(len)
Spec == Init /\ [][Next]_vars

-----------------------------------------------------------------------------
\* The octets handed out under the present seed.
OfSeed == {o \in given : o[1] = seed}

\* The count keeps its 32 bits: the test before it subtracts instead of adding.
\* (ctr_prng_get_octet_string, x917_prng_get_octet_string)
TypeOK == /\ octet_count \in 0 .. MaxOutLen /\ seed \in 0 .. MaxSeeds
          /\ ready \in BOOLEAN /\ status \in {"ok", "terminus", "dealloc_fail"}

\* No octet is handed out twice, across calls of any length, refused calls and new
\* seeds.
OctetsFresh == ~ again

\* A seed gives no more octets than the count says, so it is replaced in time.
CountCovers == Cardinality(OfSeed) <= octet_count

\* ctr_prng.c:81, "if we need to re-initialize the prng, do so now": a generator
\* whose source works serves its callers.
ServesCallers == status # "terminus"
=============================================================================
