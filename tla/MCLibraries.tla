----------------------------- MODULE MCLibraries -----------------------------
(***************************************************************************)
(* The parts of the native libraries that keep state, next to each other:  *)
(* counter mode, which is extended, key derivation, the random generators, *)
(* the kernel and its self-tests, the memory of a session, SRTCP and the   *)
(* shifts of its window, the codec instance, and of the codec the models   *)
(* it decodes, the sound it makes of them and the pitch it finds.  A       *)
(* behaviour is one of the part it begins with, so that the states of the  *)
(* parts add up and do not multiply; the variables of the other parts are  *)
(* 0.                                                                      *)
(***************************************************************************)
EXTENDS AesIcm, Sequences

CONSTANTS
    PrngBlockLen, MaxOutLen, SegmentMax, Asked, MaxSeeds, MaxGets,  \* generators
    KeyLens, MaxHeld, MaxLeaks, Cases, RandTests,                   \* kernel, self-tests
    MaxStreams, PolicyLists,                                        \* session
    Ssrcs, Bits, IndexMax, MaxSent, Conf,                           \* SRTCP; also session
    WordBits, Shifts,                                               \* shifts
    Encoder, Decoder, MaxSessions,                                  \* codec instance
    WoIndexes,                                                      \* decoder
    FrameLen, HalfOverlap, FftLen, Circle, Pitches,                 \* synthesis
    PeakBins, CoarseSteps, FineSteps, MaxHalves                     \* pitch

VARIABLES
    part,
    master, rtp, rtcp, step, kdf, tmp_key, keys, kdf_status,
    ready, gen, seed, octet_count, drawn, block, gets, prng_status, given, again,
    state, cipher_type_list, auth_type_list, debug_module_list, dev_random_ready,
    prng_seeded, ref_count, held, boot, boot_status, exited, failed,
    script, kind, refs, test_status,
    heap, session, stream_list, next, stream_template, owner, ssrc, direction,
    allocated, todo, session_status, misused, used, reported, rejected,
    stripped,
    window_start, sent, network, rdb, known, accepted, last,
    x, index, op, dir, i, before,
    initializedTimes, codec2, live, created, cfg, fin, fout, pc, ret, tmp, sign,
    spectrum, sessions, error, raced,
    model, interp, prev, frame_before,
    Sn_, ex_phase, frames,
    stage, cmax_bin, num, Wo, prev_Wo, voiced, earlier_Wo, halves

icmVars == vars
kdfVars == <<master, rtp, rtcp, step, kdf, tmp_key, keys, kdf_status>>
prngVars == <<ready, gen, seed, octet_count, drawn, block, gets, prng_status, given, again>>
kernelVars == <<state, cipher_type_list, auth_type_list, debug_module_list,
                dev_random_ready, prng_seeded, ref_count, held, boot, boot_status,
                exited, failed>>
testVars == <<script, kind, refs, test_status>>
sessionVars == <<heap, session, stream_list, next, stream_template, owner, ssrc, direction,
                 allocated, todo, session_status, misused, used, reported, rejected,
                 stripped>>
rtcpVars == <<window_start, sent, network, rdb, known, accepted, last>>
shiftVars == <<x, index, op, dir, i, before>>
codecVars == <<initializedTimes, codec2, live, created, cfg, fin, fout, pc, ret, tmp,
               sign, spectrum, sessions, error, raced>>
decodeVars == <<model, interp, prev, frame_before>>
speechVars == <<Sn_, ex_phase, frames>>
pitchVars == <<stage, cmax_bin, num, Wo, prev_Wo, voiced, earlier_Wo, halves>>

-----------------------------------------------------------------------------
Kdf == INSTANCE KeyDerivation WITH status <- kdf_status
Random == INSTANCE Prng WITH
    BlockLen <- PrngBlockLen, Lengths <- Asked, MaxCalls <- MaxGets, served <- drawn,
    calls <- gets, status <- prng_status
Kernel == INSTANCE CryptoKernel WITH pc <- boot, status <- boot_status
Self == INSTANCE SelfTest WITH status <- test_status
Session == INSTANCE SrtpSession WITH status <- session_status
Rtcp == INSTANCE Srtcp WITH MaxCalls <- MaxSent, calls <- sent
Shift == INSTANCE V128
Codec == INSTANCE Codec2Instance
Decode == INSTANCE Codec2Decode WITH last <- frame_before
Speech == INSTANCE Synthesis WITH
    N <- FrameLen, TW <- HalfOverlap, FFT_DEC <- FftLen, calls <- frames
Pitch == INSTANCE PitchAnalysis WITH Halves <- MaxHalves, before <- earlier_Wo

\* A sender of SRTCP stops before it runs out of numbers: what the code does after
\* the last of them is the subject of IndexNotReused and IndexFits.  (rdb.c: rdb_increment)
ASSUME PartsAssumption ==
    /\ Random!PrngAssumption /\ Kernel!KernelAssumption /\ Self!SelfTestAssumption
    /\ Session!SessionAssumption /\ Rtcp!SrtcpAssumption /\ Shift!V128Assumption
    /\ Codec!CodecAssumption /\ Decode!IndexAssumption /\ Speech!SynthesisAssumption
    /\ Pitch!StepsAssumption /\ MaxSent <= IndexMax

-----------------------------------------------------------------------------
IcmRests == /\ counter = 0 /\ keystream_buffer = 0 /\ bytes_in_buffer = 0 /\ status = 0
            /\ start = 0 /\ served = 0 /\ out = Nothing
KdfRests == /\ master = 0 /\ rtp = 0 /\ rtcp = 0 /\ step = 0 /\ kdf = 0 /\ tmp_key = 0
            /\ keys = 0 /\ kdf_status = 0
PrngRests == /\ ready = 0 /\ gen = 0 /\ seed = 0 /\ octet_count = 0 /\ drawn = 0
             /\ block = 0 /\ gets = 0 /\ prng_status = 0 /\ given = 0 /\ again = 0
KernelRests == /\ state = 0 /\ cipher_type_list = 0 /\ auth_type_list = 0
               /\ debug_module_list = 0 /\ dev_random_ready = 0 /\ prng_seeded = 0
               /\ ref_count = 0 /\ held = 0 /\ boot = 0 /\ boot_status = 0 /\ exited = 0
               /\ failed = 0
TestRests == script = 0 /\ kind = 0 /\ refs = 0 /\ test_status = 0
SessionRests == /\ heap = 0 /\ session = 0 /\ stream_list = 0 /\ next = 0
                /\ stream_template = 0 /\ owner = 0 /\ ssrc = 0 /\ direction = 0
                /\ allocated = 0 /\ todo = 0 /\ session_status = 0 /\ misused = 0
                /\ used = 0 /\ reported = 0 /\ rejected = 0 /\ stripped = 0
RtcpRests == /\ window_start = 0 /\ sent = 0 /\ network = 0 /\ rdb = 0 /\ known = 0
             /\ accepted = 0 /\ last = 0
ShiftRests == x = 0 /\ index = 0 /\ op = 0 /\ dir = 0 /\ i = 0 /\ before = 0
CodecRests == /\ initializedTimes = 0 /\ codec2 = 0 /\ live = 0 /\ created = 0 /\ cfg = 0
              /\ fin = 0 /\ fout = 0 /\ pc = 0 /\ ret = 0 /\ tmp = 0 /\ sign = 0
              /\ spectrum = 0 /\ sessions = 0 /\ error = 0 /\ raced = 0
DecodeRests == model = 0 /\ interp = 0 /\ prev = 0 /\ frame_before = 0
SpeechRests == Sn_ = 0 /\ ex_phase = 0 /\ frames = 0
PitchRests == /\ stage = 0 /\ cmax_bin = 0 /\ num = 0 /\ Wo = 0 /\ prev_Wo = 0
              /\ voiced = 0 /\ earlier_Wo = 0 /\ halves = 0

Parts == {"icm", "kdf", "prng", "kernel", "test", "session", "rtcp", "shift", "codec",
          "decode", "speech", "pitch"}

PartInit ==
    /\ part \in Parts
    /\ IF part = "icm" THEN Init ELSE IcmRests
    /\ IF part = "kdf" THEN Kdf!Init ELSE KdfRests
    /\ IF part = "prng" THEN Random!Init ELSE PrngRests
    /\ IF part = "kernel" THEN Kernel!Init ELSE KernelRests
    /\ IF part = "test" THEN Self!Init ELSE TestRests
    /\ IF part = "session" THEN Session!Init ELSE SessionRests
    /\ IF part = "rtcp" THEN Rtcp!Init ELSE RtcpRests
    /\ IF part = "shift" THEN Shift!Init ELSE ShiftRests
    /\ IF part = "codec" THEN Codec!Init ELSE CodecRests
    /\ IF part = "decode" THEN Decode!Init ELSE DecodeRests
    /\ IF part = "speech" THEN Speech!Init ELSE SpeechRests
    /\ IF part = "pitch" THEN Pitch!Init ELSE PitchRests

PartNext ==
    /\ UNCHANGED part
    /\ \/ /\ part = "icm" /\ Next
          /\ UNCHANGED <<kdfVars, prngVars, kernelVars, testVars, sessionVars, rtcpVars,
                         shiftVars, codecVars, decodeVars, speechVars, pitchVars>>
       \/ /\ part = "kdf" /\ Kdf!Next
          /\ UNCHANGED <<icmVars, prngVars, kernelVars, testVars, sessionVars, rtcpVars,
                         shiftVars, codecVars, decodeVars, speechVars, pitchVars>>
       \/ /\ part = "prng" /\ Random!Next
          /\ UNCHANGED <<icmVars, kdfVars, kernelVars, testVars, sessionVars, rtcpVars,
                         shiftVars, codecVars, decodeVars, speechVars, pitchVars>>
       \/ /\ part = "kernel" /\ Kernel!Next
          /\ UNCHANGED <<icmVars, kdfVars, prngVars, testVars, sessionVars, rtcpVars,
                         shiftVars, codecVars, decodeVars, speechVars, pitchVars>>
       \/ /\ part = "test" /\ Self!Next
          /\ UNCHANGED <<icmVars, kdfVars, prngVars, kernelVars, sessionVars, rtcpVars,
                         shiftVars, codecVars, decodeVars, speechVars, pitchVars>>
       \/ /\ part = "session" /\ Session!Next
          /\ UNCHANGED <<icmVars, kdfVars, prngVars, kernelVars, testVars, rtcpVars,
                         shiftVars, codecVars, decodeVars, speechVars, pitchVars>>
       \/ /\ part = "rtcp" /\ Rtcp!Next
          /\ UNCHANGED <<icmVars, kdfVars, prngVars, kernelVars, testVars, sessionVars,
                         shiftVars, codecVars, decodeVars, speechVars, pitchVars>>
       \/ /\ part = "shift" /\ Shift!Next
          /\ UNCHANGED <<icmVars, kdfVars, prngVars, kernelVars, testVars, sessionVars,
                         rtcpVars, codecVars, decodeVars, speechVars, pitchVars>>
       \/ /\ part = "codec" /\ Codec!Next
          /\ UNCHANGED <<icmVars, kdfVars, prngVars, kernelVars, testVars, sessionVars,
                         rtcpVars, shiftVars, decodeVars, speechVars, pitchVars>>
       \/ /\ part = "decode" /\ Decode!Next
          /\ UNCHANGED <<icmVars, kdfVars, prngVars, kernelVars, testVars, sessionVars,
                         rtcpVars, shiftVars, codecVars, speechVars, pitchVars>>
       \/ /\ part = "speech" /\ Speech!Next
          /\ UNCHANGED <<icmVars, kdfVars, prngVars, kernelVars, testVars, sessionVars,
                         rtcpVars, shiftVars, codecVars, decodeVars, pitchVars>>
       \/ /\ part = "pitch" /\ Pitch!Next
          /\ UNCHANGED <<icmVars, kdfVars, prngVars, kernelVars, testVars, sessionVars,
                         rtcpVars, shiftVars, codecVars, decodeVars, speechVars>>

partVars == <<part, icmVars, kdfVars, prngVars, kernelVars, testVars, sessionVars,
              rtcpVars, shiftVars, codecVars, decodeVars, speechVars, pitchVars>>
PartSpec == PartInit /\ [][PartNext]_partVars

-----------------------------------------------------------------------------
(* What is checked of the parts, next to InOrder of counter mode           *)

\* The six keys of a stream share no octet although one buffer and one cipher
\* context derive them one after the other; each is whole, and none is left in the
\* buffer when the derivation returns, also by an error.
\* (srtp.c: srtp_stream_init_keys, srtp_kdf_generate)
KeysApart == part = "kdf" => /\ Kdf!TypeOK /\ Kdf!KeysSeparate
                             /\ Kdf!KeysComplete /\ Kdf!BufferCleared

\* The generators hand out no octet twice, across calls of any length, refused calls
\* and new seeds, and replace a seed in time.  (prng.c, ctr_prng.c)
OctetsFresh == part = "prng" => /\ Random!TypeOK /\ Random!OctetsFresh
                                /\ Random!CountCovers

\* The kernel is secure only with all its types and its random sources, and counts
\* the instances of the authentication functions exactly, after any sequence of
\* failed initialisations, shutdowns and tests; and what it relies on holds: a
\* self-test releases what it allocated once.  (crypto_kernel.c, cipher.c, auth.c)
KernelTrusted ==
    /\ part = "kernel" => /\ Kernel!TypeOK /\ Kernel!SecureIsComplete
                          /\ Kernel!AuthCounted /\ Kernel!FailureSticks
    /\ part = "test" => Self!TypeOK /\ Self!ReleasedOnce /\ Self!OutcomeKnown

\* The memory is exactly what the session holds, through allocations, clones and
\* creations that fail half way, and what streams that were refused after their
\* allocation leave behind for good; nothing is freed twice or read after it was
\* freed; and an SSRC used in both directions is reported.
\* (srtp.c: srtp_create, srtp_add_stream, srtp_stream_clone, srtp_dealloc)
SessionMemory == part = "session" => /\ Session!TypeOK /\ Session!HeapIsHeld
                                     /\ Session!MemorySafe /\ Session!CollisionReported

\* However the network repeats and reorders, no SRTCP packet is let pass twice, the
\* window holds exactly those that were accepted, and each is deciphered with the
\* number it was enciphered with; the shift that moves such a window moves every
\* bit by its number.  (srtp.c: srtp_unprotect_rtcp, rdb.c, datatypes.c)
RtcpOnce ==
    /\ part = "rtcp" => /\ Rtcp!TypeOK /\ Rtcp!AcceptedOnce
                        /\ Rtcp!WindowRemembers /\ Rtcp!DeciphersAlike
    /\ part = "shift" => Shift!TypeOK /\ Shift!ShiftsBits

\* The codec that encoder and decoder share: unless they meet in initialize or
\* release neither ever runs on a codec the other has freed, and nothing stays
\* allocated when no worker runs.  (Codec2.java, codec2_jni.c, fft.c)
CodecIsLive == part = "codec" => /\ Codec!TypeOK /\ Codec!HeldCodecIsLive
                                 /\ Codec!IdleCodecIsFreed

\* The two halves the decoder makes of a frame have harmonics that fit their arrays
\* and bins of their own, and a voiced first half has a pitch between those of its
\* voiced neighbours.  (codec2_decode, interpolate_lsp, aks_to_M2, synthesise)
ModelsHaveHarmonics ==
    part = "decode" => /\ Decode!TypeOK /\ Decode!HarmonicsFit /\ Decode!OwnBins
                       /\ Decode!FollowsNeighbours

\* In the output memory the parts of neighbouring halves stand for one instant, with
\* weights that add up, and the phase that joins them stays within a turn however
\* long the call lasts.  (synthesise, make_synthesis_window, phase_synth_zero_order)
PartsMeet == part = "speech" => /\ Speech!TypeOK /\ Speech!PartsMeet
                                /\ Speech!WeightsAddUp /\ Speech!PhaseBounded

\* Wherever the peak of the squared speech lies and however the pitch is refined,
\* only bins of the spectrum are read and the pitch is in its range; and only a half
\* whose pitch is close to the one before is voiced.
\* (nlp, two_stage_pitch_refinement, est_voicing_mbe)
BinsInSpectrum == part = "pitch" => /\ Pitch!TypeOK /\ Pitch!BinsInSpectrum
                                    /\ Pitch!PitchInRange /\ Pitch!VoicedIsSteady

-----------------------------------------------------------------------------
(* Values of the constants for TLC                                         *)

\* Lengths around the block length of counter mode.
CounterLengths == {0, 1, 5, 15, 16, 17, 33}

\* Lists of specific streams, of wildcards of both directions, and of an undefined SSRC.
Specific(s) == [type |-> "specific", ssrc |-> s]
Wildcard(t) == [type |-> t, ssrc |-> "a"]
SomePolicyLists == {<<>>, <<Specific("a"), Specific("b")>>,
                    <<Specific("a"), Wildcard("any_outbound")>>,
                    <<Wildcard("any_inbound"), Specific("b")>>,
                    <<Specific("a"), [type |-> "undefined", ssrc |-> "b"]>>}

\* Every third pitch with both ends, and the ends of the refinements.
SomeIndexes == {3 * k : k \in 0 .. 42} \cup {127}
EndsOfCoarse == {-5, 5}
EndsOfFine == {-4, 4}
=============================================================================
