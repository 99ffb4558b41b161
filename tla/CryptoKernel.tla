---------------------------- MODULE CryptoKernel ----------------------------
(***************************************************************************)
(* The crypto kernel of libsrtp (crypto_kernel.c): the one global table of *)
(* cipher types, authentication functions and debug modules, how srtp_init *)
(* fills it and srtp_deinit empties it, the instances that SRTP sessions   *)
(* allocate through it, and the random sources it starts.                  *)
(*                                                                         *)
(* Memory may run out at any allocation, a random source may fail its      *)
(* statistical tests (module StatTest) and a type its self-test (module    *)
(* SelfTest, whose OutcomeKnown says what a self-test may leave behind).   *)
(***************************************************************************)
EXTENDS Integers, Sequences, FiniteSets

CONSTANTS KeyLens,  \* key lengths that callers ask for
          MaxHeld,  \* bound on the instances of a type that callers hold
          MaxLeaks  \* bound on the failed cipher self-tests that leave an instance

KernelAssumption == KeyLens \subseteq Nat /\ {MaxHeld, MaxLeaks} \subseteq Nat

CipherTypes == {"NULL_CIPHER", "AES_128_ICM", "AES_128_CBC"}
AuthTypes == {"NULL_AUTH", "HMAC_SHA1"}
Types == CipherTypes \cup AuthTypes

\* The debug module of a type; the null types have none.
debug == [t \in Types |-> CASE t = "AES_128_ICM" -> {"mod_aes_icm"}
                            [] t = "AES_128_CBC" -> {"mod_aes_cbc"}
                            [] t = "HMAC_SHA1" -> {"mod_hmac"}
                            [] OTHER -> {}]

\* What crypto_kernel_init does in the insecure state, in order, and the debug
\* module that srtp_init adds.
Boot == << <<"debug", "mod_crypto_kernel">>, <<"debug", "mod_auth">>, <<"debug", "mod_cipher">>,
           <<"debug", "mod_stat">>, <<"debug", "mod_alloc">>,
           <<"rand_source_init", "none">>, <<"stat_test", "rand_source">>,
           <<"ctr_prng_init", "none">>, <<"stat_test", "ctr_prng">>,
           <<"cipher", "NULL_CIPHER">>, <<"cipher", "AES_128_ICM">>, <<"cipher", "AES_128_CBC">>,
           <<"auth", "NULL_AUTH">>, <<"auth", "HMAC_SHA1">>,
           <<"secure", "none">>, <<"debug", "mod_srtp">> >>

VARIABLES state,             \* crypto_kernel.state
          cipher_type_list, auth_type_list, debug_module_list,
          dev_random_ready,  \* rand_source.c: dev_random_fdes >= 0
          prng_seeded,       \* ctr_prng has a key
          ref_count,         \* of every type
          held,              \* instances that callers hold
          pc,                \* position in Boot while srtp_init runs, else 0
          status,            \* what the last srtp_init or shutdown returned
          exited,            \* crypto_kernel_status has called exit()
          failed             \* history: an initialisation has failed since the last
                             \* shutdown, and not at its very first allocation

lists == <<cipher_type_list, auth_type_list, debug_module_list>>
sources == <<dev_random_ready, prng_seeded>>
vars == <<state, lists, sources, ref_count, held, pc, status, exited, failed>>

Init == /\ state = "insecure"
        /\ cipher_type_list = {} /\ auth_type_list = {} /\ debug_module_list = {}
        /\ dev_random_ready = FALSE /\ prng_seeded = FALSE
        /\ ref_count = [t \in Types |-> 0] /\ held = [t \in Types |-> 0]
        /\ pc = 0 /\ status = "none" /\ exited = FALSE /\ failed = FALSE

Idle == pc = 0 /\ ~ exited

-----------------------------------------------------------------------------
\* srtp_init has come to this step of Boot.
At(op, arg) == pc > 0 /\ Boot[pc] = <<op, arg>>
\* The step returned s: go on, or return it from srtp_init.
Returned(s) ==
    IF s # "ok" THEN pc' = 0 /\ status' = s /\ failed' = (failed \/ debug_module_list # {})
    ELSE IF pc = Len(Boot) THEN pc' = 0 /\ status' = "ok" /\ UNCHANGED failed
    ELSE pc' = pc + 1 /\ UNCHANGED <<status, failed>>

\* A module of that name is refused the second time.
crypto_kernel_load_debug_module(m, s) ==
    \/ s = "bad_param" /\ m \in debug_module_list /\ UNCHANGED debug_module_list
    \/ s = "alloc_fail" /\ m \notin debug_module_list /\ UNCHANGED debug_module_list
    \/ s = "ok" /\ m \notin debug_module_list
       /\ debug_module_list' = debug_module_list \cup {m}

LoadDebug(m) ==
    /\ At("debug", m)
    /\ \E s \in {"ok", "bad_param", "alloc_fail"} :
           crypto_kernel_load_debug_module(m, s) /\ Returned(s)
    /\ UNCHANGED <<state, cipher_type_list, auth_type_list, sources, ref_count, held, exited>>

\* rand_source_init: this build has no random device and only notes it is ready.
rand_source_init ==
    /\ At("rand_source_init", "none")
    /\ dev_random_ready' = TRUE /\ Returned("ok")
    /\ UNCHANGED <<state, lists, prng_seeded, ref_count, held, exited>>

\* stat_test_rand_source_with_repetition
stat_test(src) ==
    /\ At("stat_test", src)
    /\ \E s \in {"ok", "algo_fail"} : Returned(s)
    /\ UNCHANGED <<state, lists, sources, ref_count, held, exited>>

\* rand() never fails, and so seeding does not.
ctr_prng_init ==
    /\ At("ctr_prng_init", "none")
    /\ prng_seeded' = TRUE /\ Returned("ok")
    /\ UNCHANGED <<state, lists, dev_random_ready, ref_count, held, exited>>

Leaks == [t \in Types |-> ref_count[t] - held[t]]
\* The self-test of a type: passed, or failed with an instance left or without.
Outcomes(t) ==
    {<<TRUE, 0>>, <<FALSE, 0>>}
        \cup (IF t \in CipherTypes /\ Leaks[t] < MaxLeaks THEN {<<FALSE, 1>>} ELSE {})

\* Self-test first, then the walk down the list, then the allocation of the entry.
Joins(t, list, o, s) ==
    \/ s = "algo_fail" /\ ~ o[1]
    \/ s = "bad_param" /\ o[1] /\ t \in list
    \/ s \in {"ok", "alloc_fail"} /\ o[1] /\ t \notin list

\* The debug module of a type that joined; an error is not looked at.
LoadDebugOf(t) ==
    \/ debug_module_list' = debug_module_list \cup debug[t]
    \/ debug[t] # {} /\ UNCHANGED debug_module_list

crypto_kernel_load_cipher_type(t) ==
    /\ At("cipher", t)
    /\ \E o \in Outcomes(t), s \in {"ok", "algo_fail", "bad_param", "alloc_fail"} :
           /\ Joins(t, cipher_type_list, o, s)
           /\ ref_count' = [ref_count EXCEPT ![t] = @ + o[2]]
           /\ IF s = "ok" THEN /\ cipher_type_list' = cipher_type_list \cup {t}
                               /\ LoadDebugOf(t)
              ELSE UNCHANGED <<cipher_type_list, debug_module_list>>
           /\ Returned(s)
    /\ UNCHANGED <<state, auth_type_list, sources, held, exited>>

crypto_kernel_load_auth_type(t) ==
    /\ At("auth", t)
    /\ \E o \in Outcomes(t), s \in {"ok", "algo_fail", "bad_param", "alloc_fail"} :
           /\ Joins(t, auth_type_list, o, s)
           /\ IF s = "ok" THEN /\ auth_type_list' = auth_type_list \cup {t}
                               /\ LoadDebugOf(t)
              ELSE UNCHANGED <<auth_type_list, debug_module_list>>
           /\ Returned(s)
    /\ UNCHANGED <<state, cipher_type_list, sources, ref_count, held, exited>>

BecomeSecure ==
    /\ At("secure", "none")
    /\ state' = "secure" /\ Returned("ok")
    /\ UNCHANGED <<lists, sources, ref_count, held, exited>>

-----------------------------------------------------------------------------
\* crypto_kernel_status: the source is tested again, then every type.
TestsPass == Idle /\ UNCHANGED <<state, lists, sources, ref_count, held, exited>>
SourceTestFails ==
    /\ Idle /\ state' = "insecure"
    /\ UNCHANGED <<lists, sources, ref_count, held, exited>>
TypeTestFails ==
    /\ Idle /\ cipher_type_list \cup auth_type_list # {} /\ exited' = TRUE
    /\ UNCHANGED <<state, lists, sources, ref_count, held>>

crypto_kernel_status ==
    \/ (TestsPass \/ SourceTestFails \/ TypeTestFails) /\ UNCHANGED <<pc, status, failed>>

\* srtp_init: in the insecure state the whole of Boot, in the secure state the
\* tests of crypto_kernel_status and the debug module.
srtp_init ==
    \/ /\ state = "insecure"
       /\ Idle /\ pc' = 1
       /\ UNCHANGED <<state, lists, sources, ref_count, held, status, exited, failed>>
    \/ /\ state = "secure"
       /\ \/ TestsPass /\ pc' = Len(Boot) /\ UNCHANGED <<status, failed>>
          \/ SourceTestFails /\ status' = "algo_fail" /\ failed' = TRUE /\ UNCHANGED pc
          \/ TypeTestFails /\ UNCHANGED <<pc, status, failed>>

\* Shutdown that stays secure
crypto_kernel_shutdown_staysSecure ==
    /\ Idle
    /\ cipher_type_list' = {} /\ auth_type_list' = {} /\ debug_module_list' = {}
    /\ failed' = FALSE /\ status' = "ok"
    /\ UNCHANGED <<state, sources, ref_count, held, pc, exited>>

\* srtp_deinit, crypto_kernel_shutdown: the lists are freed before rand_source_deinit,
\* which complains when the source was never started; the instances stay.
crypto_kernel_shutdown ==
    /\ Idle
    /\ cipher_type_list' = {} /\ auth_type_list' = {} /\ debug_module_list' = {}
    /\ IF dev_random_ready
       THEN state' = "insecure" /\ status' = "ok"
       ELSE status' = "dealloc_fail" /\ UNCHANGED state
    /\ failed' = FALSE
    /\ UNCHANGED <<sources, ref_count, held, pc, exited>>

-----------------------------------------------------------------------------
\* The key lengths the alloc functions accept.
null_cipher_alloc(key_len) == TRUE
aes_icm_alloc(key_len) == key_len = 30
aes_cbc_alloc(key_len) == key_len = 16
null_auth_alloc(key_len) == TRUE
hmac_alloc(key_len) == key_len <= 20

Accepts(t, key_len) == CASE t = "NULL_CIPHER" -> null_cipher_alloc(key_len)
                         [] t = "AES_128_ICM" -> aes_icm_alloc(key_len)
                         [] t = "AES_128_CBC" -> aes_cbc_alloc(key_len)
                         [] t = "NULL_AUTH" -> null_auth_alloc(key_len)
                         [] t = "HMAC_SHA1" -> hmac_alloc(key_len)

\* alloc_cipher and alloc_auth hand an instance out in the secure state only and
\* when the type is found.
HandOut(t, list, key_len) ==
    /\ Idle /\ held[t] < MaxHeld
    /\ state = "secure" /\ t \in list /\ Accepts(t, key_len)
    /\ ref_count' = [ref_count EXCEPT ![t] = @ + 1]
    /\ held' = [held EXCEPT ![t] = @ + 1]
    /\ UNCHANGED <<state, lists, sources, pc, status, exited, failed>>

crypto_kernel_alloc_cipher(t, key_len) == HandOut(t, cipher_type_list, key_len)
crypto_kernel_alloc_auth(t, key_len) == HandOut(t, auth_type_list, key_len)

\* The dealloc function of the instance's type, which does not ask the kernel.
dealloc(t) ==
    /\ Idle /\ held[t] > 0
    /\ ref_count' = [ref_count EXCEPT ![t] = @ - 1]
    /\ held' = [held EXCEPT ![t] = @ - 1]
    /\ UNCHANGED <<state, lists, sources, pc, status, exited, failed>>

Next == \/ srtp_init \/ rand_source_init \/ ctr_prng_init \/ BecomeSecure
        \/ \E m \in {b[2] : b \in {Boot[n] : n \in DOMAIN Boot}} : LoadDebug(m) \/ stat_test(m)
        \/ \E t \in CipherTypes : crypto_kernel_load_cipher_type(t)
        \/ \E t \in AuthTypes : crypto_kernel_load_auth_type(t)
        \/ crypto_kernel_status \/ crypto_kernel_shutdown
        \/ \E t \in CipherTypes, k \in KeyLens : crypto_kernel_alloc_cipher(t, k)
        \/ \E t \in AuthTypes, k \in KeyLens : crypto_kernel_alloc_auth(t, k)
        \/ \E t \in Types : dealloc(t)

Spec == Init /\ [][Next]_vars

-----------------------------------------------------------------------------
Modules == {"mod_crypto_kernel", "mod_auth", "mod_cipher", "mod_stat", "mod_alloc", "mod_srtp",
            "mod_aes_icm", "mod_aes_cbc", "mod_hmac"}

\* Types of the variables.
TypeOK ==
    /\ state \in {"insecure", "secure"}
    /\ cipher_type_list \subseteq CipherTypes /\ auth_type_list \subseteq AuthTypes
    /\ debug_module_list \subseteq Modules
    /\ {dev_random_ready, prng_seeded, exited, failed} \subseteq BOOLEAN
    /\ ref_count \in [Types -> Int] /\ held \in [Types -> 0 .. MaxHeld]
    /\ pc \in 0 .. Len(Boot)
    /\ status \in {"none", "ok", "algo_fail", "bad_param", "alloc_fail", "dealloc_fail"}

\* In the secure state every type is loaded and the random sources run, after any
\* sequence of failed initialisations, shutdowns and repeated tests: an
\* allocation never misses its type.  (crypto_kernel_alloc_cipher)
SecureIsComplete ==
    state = "secure" => /\ cipher_type_list = CipherTypes /\ auth_type_list = AuthTypes
                        /\ dev_random_ready /\ prng_seeded

\* An initialisation that failed leaves its debug modules and types behind, and
\* every later one is refused at its first step until a shutdown empties the lists.
\* (crypto_kernel_load_debug_module; the phone never shuts the kernel down)
FailureSticks == (failed /\ state = "insecure") => pc <= 1

\* An authentication function has exactly the instances its callers hold, through
\* failed initialisations, shutdowns and releases after a shutdown.
AuthCounted == \A t \in AuthTypes : ref_count[t] = held[t]

\* crypto_kernel.c:102, of an initialisation in the secure state: "we just re-run
\* the self-tests and then return".  A second srtp_init whose tests pass is no
\* failure.
ReinitSucceeds == state = "secure" => status # "bad_param"

\* crypto_kernel.h:158, of crypto_kernel_status: "<other>  a test failed", a value
\* that is returned.
StatusReturns == ~ exited
=============================================================================
