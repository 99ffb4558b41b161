---------------------------- MODULE KeyDerivation ----------------------------
(***************************************************************************)
(* The crypto policies of libsrtp and the derivation of a stream's keys       *)
(* from the master key (srtp.c).  The key derivation function is AES in       *)
(* counter mode keyed with the master key: an octet it gives is named by the  *)
(* label of the nonce and its position in the keystream, so two octets are    *)
(* the same only if both agree.  The caller puts the master key together from *)
(* key and salt, with the lengths of the profile.                             *)
(***************************************************************************)
EXTENDS Integers

\* srtp_profile_t
Profiles == {"aes128_cm_sha1_80", "aes128_cm_sha1_32", "null_sha1_80",
             "null_sha1_32", "aes256_cm_sha1_80", "aes256_cm_sha1_32"}

Policy(cipher, keyLen, auth, authKeyLen, tagLen, serv) ==
    [cipher_type |-> cipher, cipher_key_len |-> keyLen, auth_type |-> auth,
     auth_key_len |-> authKeyLen, auth_tag_len |-> tagLen, sec_serv |-> serv]

\* The crypto_policy_set functions.
rtp_default == Policy("AES_128_ICM", 30, "HMAC_SHA1", 20, 10, {"conf", "auth"})
rtcp_default == Policy("AES_128_ICM", 30, "HMAC_SHA1", 20, 10, {"conf", "auth"})
aes_cm_128_hmac_sha1_80 == rtp_default
aes_cm_128_hmac_sha1_32 == Policy("AES_128_ICM", 30, "HMAC_SHA1", 20, 4, {"conf", "auth"})
aes_cm_128_null_auth == Policy("AES_128_ICM", 30, "NULL_AUTH", 0, 0, {"conf"})
null_cipher_hmac_sha1_80 == Policy("NULL_CIPHER", 0, "HMAC_SHA1", 20, 10, {"auth"})
Policies == {rtp_default, rtcp_default, aes_cm_128_hmac_sha1_80, aes_cm_128_hmac_sha1_32,
             aes_cm_128_null_auth, null_cipher_hmac_sha1_80}
NoPolicy == [none |-> TRUE]

\* crypto_policy_set_from_profile_for_rtp and ..._for_rtcp; err_status_bad_param is
\* NoPolicy.
from_profile_for_rtp(profile) ==
    CASE profile = "aes128_cm_sha1_80" -> aes_cm_128_hmac_sha1_80
      [] profile = "aes128_cm_sha1_32" -> aes_cm_128_hmac_sha1_32
      [] profile = "null_sha1_80" -> null_cipher_hmac_sha1_80
      [] OTHER -> NoPolicy
from_profile_for_rtcp(profile) ==
    CASE profile = "aes128_cm_sha1_80" -> aes_cm_128_hmac_sha1_80
      [] profile = "aes128_cm_sha1_32" -> aes_cm_128_hmac_sha1_32
      [] profile = "null_sha1_80" -> null_cipher_hmac_sha1_80
      [] OTHER -> NoPolicy

Supported == {"aes128_cm_sha1_80", "aes128_cm_sha1_32", "null_sha1_80"}

srtp_profile_get_master_key_length(profile) == IF profile \in Supported THEN 16 ELSE 0
srtp_profile_get_master_salt_length(profile) == IF profile \in Supported THEN 14 ELSE 0

-----------------------------------------------------------------------------
\* SRTP_MASTER_KEY_LEN; the key derivation function reads as many octets.
MasterKeyLen == 30
BaseKeyLen == 16

Parts == {"rtp_cipher", "rtp_auth", "rtcp_cipher", "rtcp_auth"}
\* The steps of srtp_stream_init_keys in their order.
Then(step) == CASE step = "kdf" -> "rtp_cipher" [] step = "rtp_cipher" -> "rtp_auth"
                [] step = "rtp_auth" -> "rtcp_cipher" [] step = "rtcp_cipher" -> "rtcp_auth"
                [] step = "rtcp_auth" -> "done"

\* srtp_prf_label
KeyLabel(part) == CASE part = "rtp_cipher" -> 0 [] part = "rtp_auth" -> 1
                    [] part = "rtcp_cipher" -> 3 [] part = "rtcp_auth" -> 4
\* One salt for both ciphers
SaltLabel_rtp(part) == CASE part = "rtp_cipher" -> 2 [] part = "rtcp_cipher" -> 2
SaltLabel(part) == CASE part = "rtp_cipher" -> 2 [] part = "rtcp_cipher" -> 5

Zero == [label |-> -1, at |-> 0]
Garbage == [label |-> -2, at |-> 0]
At(label, pos) == [label |-> label, at |-> pos]

VARIABLES master,   \* the caller's buffer: "key", "salt" or "unset" per octet
          rtp, rtcp, \* policies of the stream
          step,     \* where srtp_stream_init_keys is, or "idle"
          kdf,      \* the derivation context: "none", "keyed" or "clear"
          tmp_key,  \* the first octets of the temporary buffer
          keys,     \* part -> the octets it was initialized with
          status

vars == <<master, rtp, rtcp, step, kdf, tmp_key, keys, status>>

Unset == [i \in 0 .. (MasterKeyLen - 1) |-> "unset"]
Zeroized == [i \in 0 .. (MasterKeyLen - 1) |-> Zero]
NoKeys == [p \in Parts |-> {}]

Init == /\ master = Unset /\ rtp = NoPolicy /\ rtcp = NoPolicy /\ step = "idle"
        /\ kdf = "none" /\ keys = NoKeys /\ status = "ok"
        /\ tmp_key = [i \in 0 .. (MasterKeyLen - 1) |-> Garbage]

\* append_salt_to_key, behind a key of k octets.
append_salt_to_key(k, s) ==
    [i \in 0 .. (MasterKeyLen - 1) |-> IF i < k THEN "key" ELSE IF i < k + s THEN "salt" ELSE "unset"]

\* A caller with a profile: the policies, and the master key in its lengths.
ByProfile(profile) ==
    /\ step = "idle" /\ rtp = NoPolicy
    /\ rtp' = from_profile_for_rtp(profile) /\ rtcp' = from_profile_for_rtcp(profile)
    /\ master' = append_salt_to_key(srtp_profile_get_master_key_length(profile),
                                    srtp_profile_get_master_salt_length(profile))
    /\ status' = IF rtp' = NoPolicy THEN "bad_param" ELSE "ok"
    /\ UNCHANGED <<step, kdf, tmp_key, keys>>

\* A caller that sets the policies one by one, as initSender and initReceiver do.
ByPolicy(p, q) ==
    /\ step = "idle" /\ rtp = NoPolicy
    /\ rtp' = p /\ rtcp' = q /\ master' = append_salt_to_key(16, 14) /\ status' = "ok"
    /\ UNCHANGED <<step, kdf, tmp_key, keys>>

\* srtp_kdf_init
srtp_kdf_init ==
    /\ step = "idle" /\ rtp # NoPolicy
    /\ step' = Then("kdf") /\ kdf' = "keyed"
    /\ UNCHANGED <<master, rtp, rtcp, tmp_key, keys, status>>

\* srtp_kdf_generate into the buffer, from octet `from` on.
srtp_kdf_generate(buffer, label, from, length) ==
    [i \in DOMAIN buffer |->
        IF i \in from .. (from + length - 1) THEN At(label, i - from) ELSE buffer[i]]

PolicyOf(part) == IF part \in {"rtp_cipher", "rtp_auth"} THEN rtp ELSE rtcp
KeyLen(part) == IF part \in {"rtp_cipher", "rtcp_cipher"} THEN PolicyOf(part).cipher_key_len
                ELSE PolicyOf(part).auth_key_len

\* What is put into the buffer for a part, salt included.
Derived(part) ==
    LET key == srtp_kdf_generate(tmp_key, KeyLabel(part), 0, KeyLen(part))
    IN  IF part \in {"rtp_cipher", "rtcp_cipher"} /\ PolicyOf(part).cipher_type = "AES_128_ICM"
        THEN srtp_kdf_generate(key, SaltLabel(part), BaseKeyLen, KeyLen(part) - BaseKeyLen)
        ELSE key

\* One part: derive, initialize, next.
Install(part) ==
    /\ step = part
    /\ tmp_key' = Derived(part) /\ step' = Then(part)
    /\ keys' = [keys EXCEPT ![part] = {Derived(part)[i] : i \in 0 .. (KeyLen(part) - 1)}]
    /\ UNCHANGED <<master, rtp, rtcp, kdf, status>>

\* cipher_init or auth_init refuses: the buffer is cleared, the derivation context
\* is not.
Refused(part) ==
    /\ step = part
    /\ status' = "init_fail" /\ tmp_key' = Zeroized /\ step' = "failed"
    /\ UNCHANGED <<master, rtp, rtcp, kdf, keys>>

\* srtp_kdf_clear and the end.
Finish == /\ step = "done"
          /\ kdf' = "clear" /\ tmp_key' = Zeroized /\ step' = "ready"
          /\ UNCHANGED <<master, rtp, rtcp, keys, status>>

Next == \/ \E profile \in Profiles : ByProfile(profile)
        \/ \E p, q \in Policies : ByPolicy(p, q)
        \/ srtp_kdf_init
        \/ \E part \in Parts : Install(part) \/ Refused(part)
        \/ Finish

Spec == Init /\ [][Next]_vars

\* The callers that go by the profile (dtls keying).
SpecByProfile == Init /\ [][\E profile \in Profiles : ByProfile(profile)]_vars

-----------------------------------------------------------------------------
Returned == step \in {"ready", "failed"}
KeyOctets == [label : {-2, -1} \cup (0 .. 5), at : 0 .. (MasterKeyLen - 1)]

\* Types of the variables.
TypeOK == /\ {rtp, rtcp} \subseteq Policies \cup {NoPolicy}
          /\ tmp_key \in [0 .. (MasterKeyLen - 1) -> KeyOctets]
          /\ \A p \in Parts : keys[p] \subseteq [label : 0 .. 5, at : 0 .. (MasterKeyLen - 1)]

\* The keys of a stream have no octet of the derivation in common, neither two of
\* them nor a key and a salt: RTP and RTCP, cipher and authentication cannot be
\* confused, although one buffer and one cipher context serve them all.
\* (srtp_stream_init_keys)
KeysSeparate == \A p, q \in Parts : p # q => keys[p] \cap keys[q] = {}

\* The first n octets the derivation gives for a label.
Prefix(label, n) == {At(label, i) : i \in 0 .. (n - 1)}

\* A part's key is the start of its label's keystream, and for counter mode the
\* start of the salt's behind it, with nothing left in the buffer from the part
\* before; and the master key it comes from was filled to the last octet by the
\* lengths the caller's profile gives.
\* (srtp_kdf_generate, srtp_profile_get_master_key_length)
KeysComplete ==
    /\ step # "idle" => \A i \in DOMAIN master : master[i] # "unset"
    /\ step = "ready" => \A p \in Parts :
           keys[p] = IF KeyLen(p) = MasterKeyLen
                     THEN Prefix(KeyLabel(p), BaseKeyLen) \cup Prefix(SaltLabel(p), 14)
                     ELSE Prefix(KeyLabel(p), KeyLen(p))

\* When srtp_stream_init_keys returns, also by an error, the keys it derived are
\* gone from its buffer.
BufferCleared == Returned => tmp_key = Zeroized

\* srtp.c:1375, of the policy with the 32-bit tag: "note that this crypto policy is
\* intended for SRTP, but not SRTCP".  A caller that goes by the profile keeps to it.
\* (crypto_policy_set_from_profile_for_rtcp)
ShortTagNotForRtcp == rtcp # NoPolicy => rtcp # aes_cm_128_hmac_sha1_32
=============================================================================
