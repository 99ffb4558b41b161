------------------------------ MODULE SelfTest ------------------------------
(***************************************************************************)
(* The self-tests that the crypto kernel runs before it accepts a cipher   *)
(* or an authentication function (cipher.c: cipher_type_self_test, auth.c: *)
(* auth_type_self_test): known answers for every test case and, for a      *)
(* cipher, random plaintexts that decryption has to give back.             *)
(*                                                                         *)
(* A test is a script of checks.  Each may come out wrong, and then the    *)
(* code returns; the second part of a step is what it does first with the  *)
(* instance it allocated: "none" when it holds none, "dealloc", or         *)
(* "forget" where it returns without releasing it.                         *)
(***************************************************************************)
EXTENDS Integers, Sequences

CONSTANTS Cases,      \* number of known-answer test cases
          RandTests   \* NUM_RAND_TESTS (128)

SelfTestAssumption == Cases \in Nat /\ RandTests \in Nat

\* One known-answer test of a cipher.
cipher_known_answer ==
    << <<"alloc", "none">>, <<"init_encrypt", "dealloc">>, <<"ciphertext_over_128", "dealloc">>,
       <<"set_iv", "dealloc">>, <<"encrypt", "dealloc">>, <<"ciphertext_length", "forget">>,
       <<"ciphertext", "dealloc">>, <<"init_decrypt", "dealloc">>,
       <<"ciphertext_over_128", "dealloc">>, <<"set_iv", "dealloc">>, <<"decrypt", "dealloc">>,
       <<"plaintext_length", "forget">>, <<"plaintext", "dealloc">>, <<"dealloc", "none">> >>

\* One random invertibility test, on an instance that serves for all of them.
cipher_invertibility ==
    << <<"random_plaintext", "forget">>, <<"key_over_64", "forget">>, <<"random_key", "forget">>,
       <<"random_iv", "forget">>, <<"init_encrypt", "dealloc">>, <<"set_iv", "dealloc">>,
       <<"encrypt", "dealloc">>, <<"init_decrypt", "dealloc">>, <<"set_iv", "dealloc">>,
       <<"decrypt", "dealloc">>, <<"inverse_length", "forget">>, <<"inverse", "dealloc">> >>

\* One test of an authentication function.
auth_known_answer ==
    << <<"tag_over_32", "none">>, <<"alloc", "none">>, <<"init", "dealloc">>,
       <<"compute", "dealloc">>, <<"tag", "dealloc">>, <<"dealloc", "none">> >>

\* The script s, n times.
Times(s, n) == [k \in 1 .. (n * Len(s)) |-> s[1 + ((k - 1) % Len(s))]]

\* A cipher's whole script.
cipher_type_self_test ==
    Times(cipher_known_answer, Cases)
        \o << <<"alloc", "none">> >> \o Times(cipher_invertibility, RandTests)
        \o << <<"dealloc", "none">> >>

\* An authentication function's whole script.
auth_type_self_test == Times(auth_known_answer, Cases)

-----------------------------------------------------------------------------
VARIABLES script, \* what is left of the script
          kind,   \* "cipher" or "auth"
          refs,   \* ref_count of the type, counted from the start of the test
          status  \* "running", or what the self-test returns

vars == <<script, kind, refs, status>>

\* No test data is an error; a cipher or function with test data runs its script.
Init == /\ kind \in {"cipher", "auth"}
        /\ refs = 0
        /\ \/ script = <<>> /\ status = "cant_check"
           \/ /\ script = IF kind = "cipher" THEN cipher_type_self_test
                          ELSE auth_type_self_test
              /\ status = "running"

\* The next step goes well: only alloc and dealloc change the reference count.
Passes ==
    /\ status = "running" /\ script # <<>>
    /\ refs' = CASE Head(script)[1] = "alloc" -> refs + 1
                 [] Head(script)[1] = "dealloc" -> refs - 1
                 [] OTHER -> refs
    /\ script' = Tail(script)
    /\ UNCHANGED <<kind, status>>

\* It does not.  (The dealloc functions always return ok.)
Fails ==
    /\ status = "running" /\ script # <<>> /\ Head(script)[1] # "dealloc"
    /\ refs' = IF Head(script)[2] = "dealloc" THEN refs - 1 ELSE refs
    /\ status' = "fail"
    /\ UNCHANGED <<script, kind>>

Succeeds ==
    /\ status = "running" /\ script = <<>>
    /\ status' = "ok"
    /\ UNCHANGED <<script, kind, refs>>

Next == Passes \/ Fails \/ Succeeds

Spec == Init /\ [][Next]_vars

-----------------------------------------------------------------------------
\* Types of the variables.
TypeOK == /\ kind \in {"cipher", "auth"}
          /\ refs \in Int
          /\ status \in {"running", "ok", "fail", "cant_check"}

\* Whatever step goes wrong, an instance is never released twice, a new one is
\* never allocated over one that is still held, and a test that passes leaves
\* none.  (cipher.c, auth.c: the dealloc calls of the error paths)
ReleasedOnce ==
    /\ refs \in {0, 1}
    /\ status = "running" /\ script # <<>> /\ Head(script)[1] = "alloc" => refs = 0
    /\ status = "ok" => refs = 0

\* What the kernel has to reckon with: an authentication function leaves no
\* instance behind; a cipher that fails may leave one, since the comparisons of
\* the lengths and the random source return without releasing it.
OutcomeKnown ==
    (status # "running" /\ refs # 0) => (kind = "cipher" /\ status = "fail")
=============================================================================
