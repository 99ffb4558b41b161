--------------------------------- MODULE Hmac ---------------------------------
(***************************************************************************)
(* The authentication functions of libsrtp as sessions use them: HMAC-SHA1    *)
(* (hmac.c) with its two hash contexts, one of which keeps the hashed key.    *)
(* A hash context is the sequence of what was hashed into it (module          *)
(* Sha1Stream shows that the pieces do not matter); a digest is named by that *)
(* sequence, and finishing a context adds its padding to it.  Packets         *)
(* are started, updated and computed, and some are abandoned half way.        *)
(***************************************************************************)
EXTENDS Integers, Sequences

CONSTANTS Keys, KeyLens, TagLens, \* keys, their lengths and the tag lengths asked for
          Inputs,    \* pieces of messages
          MaxPieces  \* bound on the pieces of a message

\* What is hashed: the key in either mask, pieces, digests and the padding.
Masked(mask, k) == [mask |-> mask, key |-> k]
Sha1(s) == [sha1 |-> s]
Piece(m) == [piece |-> m]
Padding == [padding |-> TRUE]

VARIABLES opad, ctx, init_ctx, \* hmac_ctx_t
          key,        \* history: the key of the last hmac_init that succeeded
          message,    \* history: pieces since the packet was started
          started,    \* the caller has started a packet
          result,     \* history: the last tag, with its key and message
          status

vars == <<opad, ctx, init_ctx, key, message, started, result, status>>

None == [none |-> TRUE]
Garbage == <<[garbage |-> TRUE]>>

\* hmac_alloc: the memory is not initialized.
Init == /\ opad = None /\ ctx = Garbage /\ init_ctx = Garbage
        /\ key = None /\ message = <<>> /\ started = FALSE /\ result = None /\ status = "ok"

\* hmac_init: keys above 20 octets are not supported.
hmac_init(k, len) ==
    /\ \/ len > 20 /\ status' = "bad_param" /\ UNCHANGED <<opad, ctx, init_ctx, key>>
       \/ /\ len <= 20 /\ status' = "ok" /\ key' = k
          /\ opad' = Masked("5c", k)
          /\ init_ctx' = <<Masked("36", k)>> /\ ctx' = <<Masked("36", k)>>
    /\ started' = FALSE /\ message' = <<>> /\ UNCHANGED result

\* hmac_start
hmac_start ==
    /\ key # None
    /\ ctx' = init_ctx
    /\ started' = TRUE /\ message' = <<>> /\ status' = "ok"
    /\ UNCHANGED <<opad, init_ctx, key, result>>

\* hmac_update
hmac_update(m) ==
    /\ started /\ Len(message) < MaxPieces
    /\ ctx' = Append(ctx, Piece(m)) /\ message' = Append(message, m) /\ status' = "ok"
    /\ UNCHANGED <<opad, init_ctx, key, started, result>>

\* hmac_compute: the inner hash, the context again for the outer one; it is left
\* finished, so the next packet needs a start.
hmac_compute(m, tag_len) ==
    /\ started
    /\ \/ /\ tag_len > 20 /\ status' = "bad_param" /\ UNCHANGED <<ctx, result>>
       \/ /\ tag_len <= 20 /\ status' = "ok"
          /\ LET outer == <<opad, Sha1(Append(ctx, Piece(m)))>>
             IN  /\ ctx' = Append(outer, Padding)
                 /\ result' = [tag |-> Sha1(outer), key |-> key, msg |-> Append(message, m),
                               octets |-> tag_len]
    /\ started' = FALSE /\ message' = <<>>
    /\ UNCHANGED <<opad, init_ctx, key>>

Next == \/ \E k \in Keys, len \in KeyLens : hmac_init(k, len)
        \/ hmac_start
        \/ \E m \in Inputs : hmac_update(m) \/ \E n \in TagLens : hmac_compute(m, n)

Spec == Init /\ [][Next]_vars

-----------------------------------------------------------------------------
hmac_reference(k, msg) ==
    Sha1(<<Masked("5c", k), Sha1(<<Masked("36", k)>> \o [i \in DOMAIN msg |-> Piece(msg[i])])>>)

\* Types of the variables.
TypeOK == /\ key \in Keys \cup {None} /\ started \in BOOLEAN
          /\ started => key # None
          /\ message \in UNION {[1 .. n -> Inputs] : n \in 0 .. MaxPieces}
          /\ result # None => result.octets \in 0 .. 20

\* RFC 2104: the tag is that of the key in force and of the pieces since the packet
\* was started, after packets that were abandoned, tags that were refused and keys
\* that were changed or refused.  (hmac_start, hmac_update, hmac_compute)
TagOfMessage == result # None => result.tag = hmac_reference(result.key, result.msg)
=============================================================================
