----------------------------- MODULE SrtpSession -----------------------------
(***************************************************************************)
(* An SRTP session of libsrtp (srtp.c): the list of streams and the        *)
(* template for wildcard policies, the memory that hangs on them, and how  *)
(* streams come and go: srtp_create, srtp_add_stream, the clones that      *)
(* packets make of the template, srtp_remove_stream and srtp_dealloc.      *)
(*                                                                         *)
(* The heap is the set of allocated objects.  A stream s has six: its      *)
(* context and the five parts the context points to, which a clone shares  *)
(* with the template.  What a packet does inside a stream is module        *)
(* SrtpStream; here only its SSRC and its direction matter.                *)
(***************************************************************************)
EXTENDS Integers, Sequences, FiniteSets

CONSTANTS Ssrcs,       \* SSRC values
          MaxStreams,  \* bound on the streams ever allocated
          PolicyLists  \* the policy lists and single policies callers use

\* A policy names the kind of its SSRC.
Policy == [type : {"specific", "any_outbound", "any_inbound", "undefined"}, ssrc : Ssrcs]
SessionAssumption == MaxStreams \in Nat /\ Ssrcs # {} /\ PolicyLists \subseteq Seq(Policy)

Ids == 1 .. MaxStreams
Nil == 0
Parts == {"rtp_cipher", "rtp_auth", "limit", "rtcp_cipher", "rtcp_auth"}
Object(id, part) == <<id, part>>
Session == Object(0, "session")
Context(id) == Object(id, "context")

VARIABLES heap,                  \* objects that are allocated
          session,               \* the caller's handle is in use
          stream_list, next,     \* the linked list
          stream_template,
          owner,                 \* stream -> the stream whose parts it points to
          ssrc, direction,       \* per stream
          allocated,             \* number of streams ever allocated
          todo,                  \* policies that srtp_create has not come to
          status,                \* what the last call returned
          misused,               \* memory was read or freed after it was freed
          used,                  \* history: the packet functions a stream served
          reported,              \* history: streams whose packets raised a collision
          rejected,              \* history: streams refused after their allocation
          stripped               \* history: those of them whose context was freed

memory == <<heap, misused>>
streams == <<stream_list, next, stream_template, owner, ssrc, direction, allocated>>
history == <<used, reported>>
refusals == <<rejected, stripped>>
vars == <<memory, session, streams, todo, status, history, refusals>>

Init == /\ heap = {} /\ misused = FALSE /\ session = FALSE
        /\ stream_list = Nil /\ stream_template = Nil /\ allocated = 0
        /\ next = [i \in Ids |-> Nil] /\ owner = [i \in Ids |-> i]
        /\ ssrc = [i \in Ids |-> CHOOSE v \in Ssrcs : TRUE]
        /\ direction = [i \in Ids |-> "unknown"]
        /\ todo = <<>> /\ status = "ok"
        /\ used = [i \in Ids |-> {}] /\ reported = {} /\ rejected = {} /\ stripped = {}

Ready == session /\ todo = <<>>

\* The streams from s on, as far as the links go: those in every set that has s and,
\* with a stream, the one its link names.
Linked(S) == \A i \in S \ {Nil} : next[i] \in S
From(s) == {j \in Ids : \A S \in SUBSET (Ids \cup {Nil}) : s \in S /\ Linked(S) => j \in S}
List == From(stream_list)
\* Whether a walk down the list reads a context that was freed.
WalkIsBad == \E i \in List : Context(i) \notin heap

-----------------------------------------------------------------------------
\* The parts in the order in which they are allocated after the context.
Order == <<"rtp_cipher", "rtp_auth", "limit", "rtcp_cipher", "rtcp_auth">>

\* What srtp_stream_alloc frees, beside the context, when part k is refused.
FreedWhenFails(k) == {Order[j] : j \in 1 .. (k - 1)}

\* srtp_stream_alloc for the new stream i: everything, or a failure at the
\* context (0) or at part k after which the earlier parts have been freed.
srtp_stream_alloc_fails(i) ==
    {heap} \cup
    {(heap \cup {Object(i, Order[j]) : j \in 1 .. (k - 1)})
            \ {Object(i, p) : p \in FreedWhenFails(k)} : k \in DOMAIN Order}
srtp_stream_alloc(i) == heap \cup {Context(i)} \cup {Object(i, p) : p \in Parts}

\* srtp_stream_dealloc frees the template's parts too
srtp_stream_dealloc_shared(i) == {Context(i)} \cup {Object(owner[i], p) : p \in Parts}

\* The objects srtp_stream_dealloc frees: parts shared with the template stay.
srtp_stream_dealloc(i) ==
    {Context(i)} \cup
    (IF stream_template # Nil /\ owner[i] = owner[stream_template] THEN {}
     ELSE {Object(owner[i], p) : p \in Parts})

\* srtp_dealloc: all streams, then the template, then the session, out of the heap
\* h; n streams have been allocated so far.
srtp_dealloc(h, n) ==
    LET list == UNION {srtp_stream_dealloc(i) : i \in List}
        template == IF stream_template = Nil THEN {}
                    ELSE {Context(stream_template)}
                            \cup {Object(stream_template, p) : p \in Parts}
        twice == \/ \E i, j \in List : /\ i # j
                                       /\ srtp_stream_dealloc(i) \cap srtp_stream_dealloc(j) # {}
                 \/ list \cap template # {}
    IN  /\ heap' = h \ (list \cup template \cup {Session})
        /\ misused' = (misused \/ twice \/ ~ (list \cup template) \subseteq h)
        /\ session' = FALSE
        /\ stream_list' = Nil /\ stream_template' = Nil /\ allocated' = n
        /\ UNCHANGED <<next, owner, ssrc, direction>>

-----------------------------------------------------------------------------
\* srtp_create: the session, then the policies one after the other.
srtp_create(ps) ==
    /\ ~ session
    /\ \/ /\ status' = "alloc_fail" /\ UNCHANGED <<heap, session, todo>>
       \/ heap' = heap \cup {Session} /\ session' = TRUE /\ todo' = ps /\ status' = "ok"
    /\ UNCHANGED <<streams, misused, history, refusals>>

New == allocated + 1

\* A second wildcard, or an SSRC of no kind, is bad_param.
Inconsistent(p) == \/ p.type \in {"any_outbound", "any_inbound"} /\ stream_template # Nil
                   \/ p.type = "undefined"

\* Why a stream is refused after it was allocated: a cipher or an authentication
\* function does not take its key or its direction (init_fail, which policies it
\* meets is left open), or the policy is inconsistent.
Refused(p, st) == st = "init_fail" \/ (st = "bad_param" /\ Inconsistent(p))

\* Of the six objects only the context is freed, and not for a second wildcard.
ContextFreed(p, st) == st = "init_fail" \/ p.type = "undefined"
Rejected(p, st) ==
    srtp_stream_alloc(New) \ (IF ContextFreed(p, st) THEN {Context(New)} ELSE {})

Remembered(p, st) ==
    /\ rejected' = rejected \cup {New}
    /\ stripped' = IF ContextFreed(p, st) THEN stripped \cup {New} ELSE stripped

\* A stream that was allocated and initialised is entered where the kind of its
\* SSRC says.
Entered(p) ==
    /\ heap' = srtp_stream_alloc(New)
    /\ allocated' = New /\ owner' = [owner EXCEPT ![New] = New]
    /\ ssrc' = [ssrc EXCEPT ![New] = p.ssrc]
    /\ direction' = [direction EXCEPT ![New] = CASE p.type = "any_outbound" -> "sender"
                                                 [] p.type = "any_inbound" -> "receiver"
                                                 [] p.type = "specific" -> "unknown"]
    /\ IF p.type = "specific"
       THEN /\ next' = [next EXCEPT ![New] = stream_list] /\ stream_list' = New
            /\ UNCHANGED stream_template
       ELSE stream_template' = New /\ UNCHANGED <<next, stream_list>>
    /\ UNCHANGED <<misused, session>>

\* srtp_add_stream, called for a session that exists.
srtp_add_stream(p) ==
    /\ session /\ todo = <<>> /\ allocated < MaxStreams
    /\ UNCHANGED <<todo, history>>
    /\ \/ /\ heap' \in srtp_stream_alloc_fails(New) /\ status' = "alloc_fail"
          /\ UNCHANGED <<streams, misused, session, refusals>>
       \/ \E st \in {"init_fail", "bad_param"} :
             /\ Refused(p, st) /\ heap' = Rejected(p, st) /\ status' = st
             /\ allocated' = New /\ Remembered(p, st)
             /\ UNCHANGED <<misused, session, stream_list, next, stream_template, owner, ssrc,
                            direction>>
       \/ ~ Inconsistent(p) /\ Entered(p) /\ status' = "ok" /\ UNCHANGED refusals

\* The same within srtp_create, which deallocates the session when it fails.
CreateAdds ==
    /\ todo # <<>> /\ allocated < MaxStreams
    /\ UNCHANGED history
    /\ \/ /\ \E h \in srtp_stream_alloc_fails(New) : srtp_dealloc(h, allocated)
          /\ todo' = <<>> /\ status' = "alloc_fail" /\ UNCHANGED refusals
       \/ \E st \in {"init_fail", "bad_param"} :
             /\ Refused(Head(todo), st) /\ srtp_dealloc(Rejected(Head(todo), st), New)
             /\ todo' = <<>> /\ status' = st /\ Remembered(Head(todo), st)
       \/ /\ ~ Inconsistent(Head(todo)) /\ Entered(Head(todo))
          /\ todo' = Tail(todo) /\ status' = "ok" /\ UNCHANGED refusals

\* The session's owner gives it back.
Dealloc ==
    /\ session /\ todo = <<>>
    /\ srtp_dealloc(heap, allocated) /\ status' = "ok"
    /\ UNCHANGED <<todo, history, refusals>>

-----------------------------------------------------------------------------
\* srtp_get_stream: the first stream of the list with the SSRC, or Nil.
srtp_get_stream(v) ==
    LET found == {i \in List : ssrc[i] = v}
    IN  IF found = {} THEN Nil ELSE CHOOSE i \in found : found \subseteq From(i)

\* srtp_stream_clone of the template, at the head of the list, with direction d.
Cloned(v, d) ==
    /\ allocated < MaxStreams
    /\ heap' = heap \cup {Context(New)}
    /\ allocated' = New
    /\ owner' = [owner EXCEPT ![New] = owner[stream_template]]
    /\ ssrc' = [ssrc EXCEPT ![New] = v]
    /\ next' = [next EXCEPT ![New] = stream_list] /\ stream_list' = New
    /\ direction' = [direction EXCEPT ![New] = d]
    /\ UNCHANGED <<stream_template, session>>

\* A packet with SSRC v for which a stream of the list exists: its direction is
\* set, or another one is reported as a collision.
Through(v, fn, d) ==
    LET s == srtp_get_stream(v)
    IN  /\ s # Nil
        /\ direction' = IF direction[s] = "unknown" THEN [direction EXCEPT ![s] = d] ELSE direction
        /\ reported' = IF direction[s] \in {"unknown", d} THEN reported ELSE reported \cup {s}
        /\ used' = [used EXCEPT ![s] = @ \cup {fn}]
        /\ UNCHANGED <<heap, session, stream_list, next, stream_template, owner, ssrc, allocated>>

Read == UNCHANGED <<todo, refusals>> /\ misused' = (misused \/ WalkIsBad)

\* srtp_protect: a new SSRC is cloned before anything else happens and is a
\* sender's whatever the template says.
srtp_protect(v) ==
    /\ session /\ todo = <<>> /\ Read
    /\ \/ Through(v, "protect", "sender") /\ status' = "ok"
       \/ /\ srtp_get_stream(v) = Nil /\ stream_template # Nil
          /\ Cloned(v, "sender") /\ status' = "ok"
          /\ used' = [used EXCEPT ![New] = {"protect"}] /\ UNCHANGED reported
       \/ /\ srtp_get_stream(v) = Nil
          /\ status' = IF stream_template = Nil THEN "no_ctx" ELSE "alloc_fail"
          /\ UNCHANGED <<heap, session, streams, history>>

\* srtp_unprotect, of a packet that passes the authentication: a new SSRC uses the
\* template provisionally, whose direction is tested, and is cloned at the end.
srtp_unprotect(v) ==
    /\ session /\ todo = <<>> /\ Read
    /\ \/ Through(v, "unprotect", "receiver") /\ status' = "ok"
       \/ /\ srtp_get_stream(v) = Nil /\ stream_template # Nil
          /\ \/ /\ Cloned(v, direction[stream_template]) /\ status' = "ok"
                /\ used' = [used EXCEPT ![New] = {"unprotect"}]
                /\ reported' = IF direction[stream_template] = "receiver" THEN reported
                               ELSE reported \cup {New}
             \/ UNCHANGED <<heap, session, streams, history>> /\ status' = "alloc_fail"
       \/ /\ srtp_get_stream(v) = Nil /\ stream_template = Nil
          /\ status' = "no_ctx" /\ UNCHANGED <<heap, session, streams, history>>

\* srtp_remove_stream: the link of the stream before is set past it; for the head
\* of the list that is its own link, and the list still starts there.
srtp_remove_stream(v) ==
    /\ session /\ todo = <<>>
    /\ LET s == srtp_get_stream(v)
           before == {i \in List : next[i] = s}
           last == IF before = {} THEN s ELSE CHOOSE i \in before : TRUE
       IN  IF s = Nil
           THEN /\ status' = "no_ctx" /\ misused' = (misused \/ WalkIsBad)
                /\ UNCHANGED <<heap, streams>>
           ELSE /\ next' = [next EXCEPT ![last] = next[s]]
                /\ heap' = heap \ srtp_stream_dealloc(s)
                /\ misused' = (misused \/ WalkIsBad \/ ~ srtp_stream_dealloc(s) \subseteq heap)
                /\ status' = "ok"
                /\ UNCHANGED <<stream_list, stream_template, owner, ssrc, direction, allocated>>
    /\ UNCHANGED <<session, todo, history, refusals>>

Policies == UNION {{ps[n] : n \in DOMAIN ps} : ps \in PolicyLists}

Next == \/ \E ps \in PolicyLists : srtp_create(ps)
        \/ CreateAdds \/ Dealloc
        \/ \E p \in Policies : srtp_add_stream(p)
        \/ \E v \in Ssrcs : srtp_protect(v) \/ srtp_unprotect(v)

Spec == Init /\ [][Next]_vars

\* With srtp_remove_stream, which the phone does not call.
NextRemove == Next \/ \E v \in Ssrcs : srtp_remove_stream(v)
SpecRemove == Init /\ [][NextRemove]_vars

-----------------------------------------------------------------------------
\* What the session holds: its streams, the template and their parts.
Held ==
    IF ~ session THEN {}
    ELSE {Session} \cup
         UNION {{Context(i)} \cup {Object(owner[i], p) : p \in Parts} :
                    i \in List \cup ({stream_template} \ {Nil})}

\* Types of the variables.
TypeOK ==
    /\ heap \subseteq {Session} \cup (Ids \X (Parts \cup {"context"}))
    /\ {session, misused} \subseteq BOOLEAN
    /\ {stream_list, stream_template} \subseteq Ids \cup {Nil}
    /\ next \in [Ids -> Ids \cup {Nil}] /\ owner \in [Ids -> Ids]
    /\ ssrc \in [Ids -> Ssrcs] /\ direction \in [Ids -> {"unknown", "sender", "receiver"}]
    /\ allocated \in 0 .. MaxStreams /\ rejected \subseteq Ids
    /\ stripped \subseteq rejected
    /\ used \in [Ids -> SUBSET {"protect", "unprotect"}] /\ reported \subseteq Ids
    /\ status \in {"ok", "alloc_fail", "init_fail", "bad_param", "no_ctx"}

\* What streams that were refused after their allocation leave behind, for good: the
\* five parts of each, and the context where it was a second wildcard's.
LeftBehind == (rejected \X Parts) \cup ((rejected \ stripped) \X {"context"})

\* The memory is exactly what the session holds and what refused streams left behind: an
\* allocation, a clone or a creation that fails half way gives back what it took
\* (srtp.c:83, "we free all previously allocated memory"), nothing that is still in use
\* is freed, and of a stream that srtp_stream_init or the policy refuses exactly the
\* objects in LeftBehind stay, also when the session is gone (srtp.c:1220, 1235, 1242, 1254).
HeapIsHeld == heap = Held \cup LeftBehind

\* Parts that clones share with the template are freed once, and no list walk
\* reads a stream that was freed.  (srtp_stream_dealloc, srtp_dealloc)
MemorySafe == ~ misused

\* srtp.c:628, "this check will detect SSRC collisions, since a stream that appears
\* in both srtp_protect() and srtp_unprotect() will fail this test in one of those
\* functions": for streams of the list and for clones of either kind of template.
CollisionReported ==
    \A i \in Ids : used[i] = {"protect", "unprotect"} => i \in reported

\* srtp.c:1288, of an srtp_create that fails: "clean up everything"; a policy that is
\* refused after the allocation of its stream leaves that stream's parts.
CreateCleansUp == (status # "ok" /\ ~ session) => heap = {}

\* srtp.h:408, "removes the SRTP stream with the SSRC value ssrc from the SRTP
\* session context": the session goes on without it.
RemoveDetaches == ~ misused
=============================================================================
