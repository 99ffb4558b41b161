--------------------------- MODULE Codec2Instance ---------------------------
(***************************************************************************)
(* The one instance of the speech codec (Codec2.java, codec2_jni.c, the    *)
(* entry points of codec2.c) and the buffers of its Fourier transform      *)
(* (fft.c).  They are shared by the two audio workers of a call, the one   *)
(* that encodes and the one that decodes, without a lock.                  *)
(***************************************************************************)
EXTENDS Integers

CONSTANTS Encoder, Decoder,  \* AudioInputWorker and AudioOutputWorker
          MaxSessions        \* bound: how often a worker is started

Workers == {Encoder, Decoder}
None == "none"
Null == 0

CodecAssumption == /\ Encoder # Decoder /\ None \notin Workers
                   /\ MaxSessions \in Nat

VARIABLES
    initializedTimes,
    codec2,       \* the native pointer: the number of an instance, or Null
    live,         \* the instances that are allocated
    created,      \* how many were allocated
    cfg,          \* the plans of fft.c that are set
    fin, fout,    \* the worker whose data is in the buffers of fft.c
    pc,           \* pc[w]: the next step of worker w
    ret,          \* ret[w]: the step after fft returns
    tmp,          \* tmp[w]: a value w has read: the count or the pointer
    sign,         \* sign[w]: the plan w asks of fft
    spectrum,     \* spectrum[w]: whose transform w got last
    sessions,     \* sessions[w]: how often w was started
    error,        \* what ended the process, or None
    raced         \* history: two workers were in initialize or release at once

countVars == <<initializedTimes, codec2, live, created>>
fftVars == <<cfg, fin, fout, spectrum, sign>>
vars == <<countVars, fftVars, pc, ret, tmp, sessions, error, raced>>

Init == /\ initializedTimes = 0 /\ codec2 = Null /\ live = {} /\ created = 0
        /\ cfg = {} /\ fin = None /\ fout = None
        /\ pc = [w \in Workers |-> "idle"]
        /\ ret = [w \in Workers |-> "idle"]
        /\ tmp = [w \in Workers |-> 0]
        /\ sign = [w \in Workers |-> "forward"]
        /\ spectrum = [w \in Workers |-> w]
        /\ sessions = [w \in Workers |-> 0]
        /\ error = None /\ raced = FALSE

\* w is in initialize or release: it would hold a lock there.
InLock(w) == /\ pc[w] \notin {"idle", "loop", "use", "used"}
             /\ (pc[w] \in {"fft", "cfg_reverse", "fill", "kiss_fft", "read"} =>
                     ret[w] = "set")

At(w, step) == error = None /\ pc[w] = step
Goto(w, step) == /\ pc' = [pc EXCEPT ![w] = step]
                 /\ UNCHANGED error
Fail(why) == error' = why /\ UNCHANGED pc

\* w goes on to a step of initialize or release.
Enter(w, step) == /\ Goto(w, step)
                  /\ raced' = (raced \/ \E v \in Workers \ {w} : InLock(v))

-----------------------------------------------------------------------------
(* fft.c                                                                   *)

\* A call of fft: returns to step r.
Call(w, s, r) == /\ sign' = [sign EXCEPT ![w] = s]
                 /\ ret' = [ret EXCEPT ![w] = r]

\* "if (cfg_forward == NULL)": initialize_fft allocates the buffers, then the plans.
fft(w) ==
    /\ At(w, "fft")
    /\ IF "forward" \in cfg
       THEN Goto(w, "fill") /\ UNCHANGED cfg
       ELSE Goto(w, "cfg_reverse") /\ cfg' = cfg \cup {"forward"}
    /\ UNCHANGED <<countVars, fin, fout, spectrum, sign, ret, tmp, sessions, raced>>

initialize_fft(w) ==
    /\ At(w, "cfg_reverse")
    /\ cfg' = cfg \cup {"reverse"}
    /\ Goto(w, "fill")
    /\ UNCHANGED <<countVars, fin, fout, spectrum, sign, ret, tmp, sessions, raced>>

fill(w) ==
    /\ At(w, "fill")
    /\ fin' = w
    /\ Goto(w, "kiss_fft")
    /\ UNCHANGED <<countVars, cfg, fout, spectrum, sign, ret, tmp, sessions, raced>>

kiss_fft(w) ==
    /\ At(w, "kiss_fft")
    /\ IF sign[w] \in cfg
       THEN Goto(w, "read") /\ fout' = fin
       ELSE Fail("null plan") /\ UNCHANGED fout
    /\ UNCHANGED <<countVars, cfg, fin, spectrum, sign, ret, tmp, sessions, raced>>

read(w) ==
    /\ At(w, "read")
    /\ spectrum' = [spectrum EXCEPT ![w] = fout]
    /\ Goto(w, ret[w])
    /\ UNCHANGED <<countVars, cfg, fin, fout, sign, ret, tmp, sessions, raced>>

Fft(w) == fft(w) \/ initialize_fft(w) \/ fill(w) \/ kiss_fft(w) \/ read(w)

-----------------------------------------------------------------------------
(* Codec2.initialize                                                       *)

\* The worker is started; "if(initializedTimes == 0)".
initialize(w) ==
    /\ At(w, "idle") /\ sessions[w] < MaxSessions
    /\ sessions' = [sessions EXCEPT ![w] = @ + 1]
    /\ Enter(w, IF initializedTimes = 0 THEN "create" ELSE "increment")
    /\ UNCHANGED <<countVars, fftVars, ret, tmp>>

\* codec2_create: malloc, and the transform of the analysis window.
codec2_create(w) ==
    /\ At(w, "create")
    /\ created' = created + 1
    /\ live' = live \cup {created + 1}
    /\ tmp' = [tmp EXCEPT ![w] = created + 1]
    /\ Call(w, "reverse", "set")
    /\ Goto(w, "fft")
    /\ UNCHANGED <<initializedTimes, codec2, cfg, fin, fout, spectrum, sessions, raced>>

\* codec2Init: the assignment.
codec2Init(w) ==
    /\ At(w, "set")
    /\ codec2' = tmp[w]
    /\ Goto(w, "increment")
    /\ UNCHANGED <<initializedTimes, live, created, fftVars, ret, tmp, sessions, raced>>

\* codec2_create returns NULL; initialize ignores what codec2Init returns.
codec2InitFails(w) ==
    /\ At(w, "create")
    /\ codec2' = Null
    /\ Goto(w, "increment")
    /\ UNCHANGED <<initializedTimes, live, created, fftVars, ret, tmp, sessions, raced>>

\* initializedTimes++
readCount(w) ==
    /\ At(w, "increment")
    /\ tmp' = [tmp EXCEPT ![w] = initializedTimes]
    /\ Goto(w, "incremented")
    /\ UNCHANGED <<countVars, fftVars, ret, sessions, raced>>

increment(w) ==
    /\ At(w, "incremented")
    /\ initializedTimes' = tmp[w] + 1
    /\ Goto(w, "loop")
    /\ UNCHANGED <<codec2, live, created, fftVars, ret, tmp, sessions, raced>>

-----------------------------------------------------------------------------
(* Codec2.encode and decode                                                *)

checkIfInitialized(w) ==
    /\ At(w, "loop")
    /\ IF initializedTimes = 0 THEN Fail("Codec not initialized") ELSE Goto(w, "use")
    /\ UNCHANGED <<countVars, fftVars, ret, tmp, sessions, raced>>

\* codec2Encode and codec2Decode: the test of the pointer, the instance, and one of
\* the calls of fft, which the encoder makes forward and the decoder both ways.
codec2Code(w) ==
    /\ At(w, "use")
    /\ IF codec2 = Null
       THEN Fail("Library returned error") /\ UNCHANGED <<tmp, ret, sign>>
       ELSE /\ tmp' = [tmp EXCEPT ![w] = codec2]
            /\ \E s \in IF w = Encoder THEN {"forward"} ELSE {"forward", "reverse"} :
                   Call(w, s, "used")
            /\ Goto(w, "fft")
    /\ UNCHANGED <<countVars, cfg, fin, fout, spectrum, sessions, raced>>

\* The memories of the instance are updated.
update(w) ==
    /\ At(w, "used")
    /\ IF tmp[w] \in live THEN Goto(w, "loop") ELSE Fail("freed memory")
    /\ UNCHANGED <<countVars, fftVars, ret, tmp, sessions, raced>>

-----------------------------------------------------------------------------
(* Codec2.release                                                          *)

\* The loop of the worker has ended.
release(w) ==
    /\ At(w, "loop")
    /\ IF initializedTimes = 0
       THEN Fail("Codec not initialized") /\ UNCHANGED <<raced, tmp>>
       ELSE Enter(w, "decrement") /\ tmp' = [tmp EXCEPT ![w] = initializedTimes]
    /\ UNCHANGED <<countVars, fftVars, ret, sessions>>

decrement(w) ==
    /\ At(w, "decrement")
    /\ initializedTimes' = tmp[w] - 1
    /\ Goto(w, "test")
    /\ UNCHANGED <<codec2, live, created, fftVars, ret, tmp, sessions, raced>>

\* release that frees the codec whoever still uses it
codec2Release_always(w) ==
    /\ At(w, "test")
    /\ live' = live \ {codec2}
    /\ Goto(w, "idle")
    /\ UNCHANGED <<initializedTimes, codec2, created, fftVars, ret, tmp, sessions, raced>>

\* "if(initializedTimes == 0)": codec2_destroy asserts that there is an instance;
\* the pointer keeps its value.
codec2Release(w) ==
    /\ At(w, "test")
    /\ IF initializedTimes # 0 THEN Goto(w, "idle") /\ UNCHANGED live
       ELSE IF codec2 = Null THEN Fail("assertion") /\ UNCHANGED live
       ELSE IF codec2 \notin live THEN Fail("double free") /\ UNCHANGED live
       ELSE Goto(w, "idle") /\ live' = live \ {codec2}
    /\ UNCHANGED <<initializedTimes, codec2, created, fftVars, ret, tmp, sessions, raced>>

Work(w) ==
    \/ Fft(w)
    \/ initialize(w) \/ codec2_create(w) \/ codec2Init(w) \/ codec2InitFails(w)
    \/ readCount(w) \/ increment(w)
    \/ checkIfInitialized(w) \/ codec2Code(w) \/ update(w)
    \/ release(w) \/ decrement(w) \/ codec2Release(w)

Next == \E w \in Workers : Work(w)

Spec == Init /\ [][Next]_vars

-----------------------------------------------------------------------------
Steps == {"idle", "create", "set", "increment", "incremented", "loop", "use", "used",
          "decrement", "test", "fft", "cfg_reverse", "fill", "kiss_fft", "read"}
Errors == {"Codec not initialized", "Library returned error", "freed memory",
           "assertion", "double free", "null plan"}

\* Types of the variables.
TypeOK ==
    /\ initializedTimes \in (0 - 2 * MaxSessions) .. (2 * MaxSessions)
    /\ created \in 0 .. (2 * MaxSessions)
    /\ codec2 \in 0 .. created /\ live \subseteq 1 .. created
    /\ cfg \subseteq {"forward", "reverse"}
    /\ fin \in Workers \cup {None} /\ fout \in Workers \cup {None}
    /\ pc \in [Workers -> Steps] /\ ret \in [Workers -> Steps]
    /\ tmp \in [Workers -> Int]
    /\ sign \in [Workers -> {"forward", "reverse"}]
    /\ spectrum \in [Workers -> Workers]
    /\ sessions \in [Workers -> 0 .. MaxSessions]
    /\ error \in Errors \cup {None} /\ raced \in BOOLEAN

\* A worker that is encoding or decoding holds the codec.
Holds(w) == pc[w] \in {"loop", "use", "used"} \/ (~ InLock(w) /\ pc[w] # "idle")

\* Unless the workers meet in initialize or release, neither of them ever runs into
\* a codec that the other has freed, and the only error is a codec that could not
\* be allocated.  (Codec2.initialize, release, codec2Release)
HeldCodecIsLive ==
    ~ raced => /\ error \in {None, "Library returned error", "assertion"}
               /\ \A w \in Workers : Holds(w) /\ codec2 # Null => codec2 \in live

\* Under the same condition the codec is freed with its last user: nothing is
\* allocated while no worker runs.  (Codec2.release)
IdleCodecIsFreed ==
    ~ raced /\ (\A w \in Workers : pc[w] = "idle") =>
        live = {} /\ initializedTimes = 0

\* Codec2.java:113, "Codec not initialized": the check of a worker that has initialized
\* the codec and not released it succeeds.
InitializedStays == error # "Codec not initialized"

\* codec2.c:60, "One set of states is sufficient for a full duuplex codec": what the
\* encoder computes does not depend on the decoder and conversely.
FullDuplex == ~ raced => \A w \in Workers : spectrum[w] = w
=============================================================================
