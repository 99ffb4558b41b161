# The Onion Phone: a TLA+ verification project

The Onion Phone is an Android VoIP phone that runs over Tor. A call is one TCP
connection to the other phone's hidden service. Over it the two phones first
run a handshake (optional proofs of identity, acceptance, an ephemeral
Diffie-Hellman exchange, the parameters of SRTP), then stream Codec 2 frames
wrapped into SRTP packets in both directions. The Java part is about 2 900 lines
(`src/src`), the native part links libsrtp and Codec 2 (`src/jni`).

This directory holds TLA+ modules translated from that code, TLC configurations
that check them on small instances, and proofs checked by TLAPS. `PROJECT.json`
lists components, runs, hazards, findings and theorems, and maps every
definition to the source lines it models.

Contents: [1 Inventory](#1-inventory) ·
[2 Modules and code](#2-modules-and-how-they-correspond-to-the-code) ·
[3 Runs](#3-runs-bounds-and-fairness) · [4 Findings](#4-findings) ·
[5 Proofs](#5-proofs) · [6 Assumptions](#6-assumptions-of-the-models) ·
[7 Not modelled](#7-what-is-not-modelled) · [8 Plan](#8-plan)

To run: `tlc -config MCHandshake.cfg Handshake` and likewise for the other
configurations (`PROJECT.json` names the module of each run); `tlapm
HandshakeProofs.tla` and likewise for the other modules whose names end in `Proofs`.

## 1 Inventory

### Threads of a phone

| thread | runs | started by |
|---|---|---|
| user's thread | `ProtocolManagementImpl.startCall` → `CallHandler.startCall` | nothing yet: the only call of it is commented out (`MainActivity.java:142-149`); the models let users call |
| listener | `ConnectionListener.run`: accept one connection, handle that call | Android, `startConnectionListener` |
| keep-alive | `KeepAliveWorker.run`: WAIT every five seconds | the callee's `initiateIncomingSession` |
| wrapper, unwrapper | `SrtpWrapper.run`, `SrtpUnwrapper.run` | `SrtpProtocol.wrapStream`, `unwrapStream` |
| two Connectors | copy between socket and pipes | `CallHandler` |
| audio in, audio out | `AudioInputWorker.run`, `AudioOutputWorker.run` | `AudioManagerImpl` |
| main thread | starts, binds and stops Android services | Android |

No state shared between them is protected by a lock, except the service
locator's. No thread catches a runtime exception, so an exception anywhere ends
the process.

### Components

| component | state | operations | interacts with | hard behaviour | correct when |
|---|---|---|---|---|---|
| call set-up protocol (`TheOnionPhoneProtocol`, `KeyExchangeHelper`) | `CallInfo`, position in the exchange, `KeepAliveWorker.running` | `initiateOutgoingSession`, `initiateIncomingSession`, `acceptCall`, `rejectCall` | the other phone over the socket; the keep-alive thread writes to the same stream | a WAIT between two writes of the accepting thread; timeouts on one side only; loss of the connection at any byte | both derive mirrored keys; identities are proved; nobody waits forever |
| SRTP session set-up (`SrtpProtocol`, `srtp_jni.c`) | SSRC, salt, two process-wide native contexts | `initiateOutgoingSession`, `initiateIncomingSession`, `wrapStream`, `unwrapStream`, native `initSender`, `initReceiver` | same socket; libsrtp | swallowed `IOException`s; contexts overwritten by a second call | the receiving context is the peer's sending context |
| call handler (`CallHandler`, `Connector`) | `callStatus`, streams | `startCall`, `handleIncomingCall`, `acceptCall` | network, protocols, audio, user interface | checks made on another object than the one meant; streams fetched twice | a call stays on its own connection, contexts and microphone |
| media threads (`SrtpWrapper`, `SrtpUnwrapper`) | `running`, streams | one loop each | native wrap and unwrap, pipes | end of either thread, loss of the connection | what is written is heard, in order |
| RTP header source (`simple_rtp.c`) | sequence number, timestamp | `initRtp`, `getNextPacketHeader` | wrapper | random start, 16-bit wrap | consecutive packets differ by one modulo 2^16 |
| SRTP streams (`srtp.c`, `rdbx.c`, `key.c`) | replay database, key usage, direction | `srtp_protect`, `srtp_unprotect` | `srtp_jni.c` | rollover guessing, replay window, wrap of the 48-bit index | no index is used twice; receiver and sender agree on every index |
| network and listener (`TorNetwork`, `ConnectionListener`) | `socket`, `listenerStartNeeded`, `serverSocket` | `connectTo`, `handleIncomingConnection`, `getInputStream`, `getOutputStream`, `startConnectionListener`, `stopConnectionListener` | main thread, call handler | check and assignment of `socket` on different threads; stop before the socket exists; a `connectTo` that fails after it set `socket`, which then turns later callers away | one call at a time; a stopped listener is closed |
| protocol management, user interface | `callHandler`, `callInfo` | `startCall`, `handleIncomingCall`, `acceptCall` | call handler | fields read again after another thread replaced them | the call accepted is the call announced |
| audio manager and workers | `worker`, `AudioRecord`, `AudioTrack`, pipes | `getStream`, `startSending`, `playStream`, `stopSending`, `stopPlaying` | wrapper, unwrapper, codec | pipes connected after threads start; one microphone | each call records and plays its own stream |
| codec instance (`Codec2.java`, `codec2_jni.c`) | `initializedTimes`, native pointer | `initialize`, `release`, `encode`, `decode` | both audio workers | unsynchronised count, pointer left after release | the pointer is valid while someone uses it |
| service locator | holders, semaphores | getters, `cleanUp` | every component | ten-second wait under a lock, leftover permits | a getter returns a bound service or throws |
| identity manager | key pair | `getKeyPair` | handshake | two first uses at once | one identity per phone |
| sessions of libsrtp (`srtp.c`) | stream list, template, heap | `srtp_create`, `srtp_add_stream`, `srtp_protect`, `srtp_unprotect`, `srtp_remove_stream`, `srtp_dealloc` | `srtp_jni.c`, kernel | parts shared between a template and its clones; creation that fails half way | what is allocated is what is held, freed once |
| SRTCP (`srtp.c`, `rdb.c`) | replay database, 31-bit index | `srtp_protect_rtcp`, `srtp_unprotect_rtcp` | network | repeated and reordered packets; the limit of the index | nothing passes twice; sender and receiver use one number |
| key derivation (`srtp.c`) | one buffer, one cipher context | `srtp_stream_init_keys`, policies and profiles | AES counter mode | six keys through one buffer, return at any error | keys share no octet and do not stay in the buffer |
| ciphers (`aes.c`, `aes_icm.c`, `aes_cbc.c`, `tables/`) | round keys, counter, leftover keystream, chaining block | `aes_expand_encryption_key`, `aes_encrypt`, `aes_icm_encrypt`, `set_iv`, ... | streams, generators | hand-written table indexes in four variants; data cut at any length | the standard's function; no keystream octet twice |
| hashes (`sha1.c`, `hmac.c`) | chaining value, block buffer, two contexts | `sha1_update`, `sha1_final`, `hmac_start`, `hmac_compute` | streams | padding at the end of a block; packets abandoned half way | a tag is that of its own packet |
| crypto kernel (`crypto_kernel.c`, `cipher.c`, `auth.c`) | type lists, debug modules, reference counts | `srtp_init`, `crypto_kernel_status`, `shutdown`, `alloc` | all of the above | any of a dozen steps may fail and nothing is undone | secure only when complete |
| random sources (`stat.c`, `prng.c`, `ctr_prng.c`) | octet counts, seeds | statistical tests, `get_octet_string` | kernel | runs across octets, trials repeated, two limits for one generator | no octet given twice |
| data types (`datatypes.c`) | | 128-bit shifts | `rdb.c` | in-place shifts by whole words | every bit moves by the shift |
| Codec 2 (`src/jni/codec2`) | decoder memory, pitch history, synthesis memory | `codec2_encode`, `codec2_decode` and what they call | both audio workers | rounding at the ends of arrays; models that depend on the frame before; buffers left from it | a frame carries the model; no array is left; frames meet |
| Orbot detection, dummy audio manager | | | | | not modelled, see [7](#7-what-is-not-modelled) |

The hazards, each at its line and with the properties that cover it, are in
`PROJECT.json`.

## 2 Modules and how they correspond to the code

```
Handshake <- HandshakeProofs <- HandshakeAgreementProofs
                                             two phones set up one call
SrtpStream <- SrtpStreamProofs               one stream of libsrtp
SrtpStream <- SrtpMedia <- SrtpMediaProofs   one media direction of a call
SrtpStream <- SrtpReplay <- SrtpReplayProofs libsrtp on a datagram network
CallControl <- CallControlProofs             the threads of one phone and what they share

AudioPath  <- MediaPipeline (implements it)  six threads and four pipes of one direction
AudioManager, ServiceLocator                 the Android side of a phone
                                             -- MCPhone <- PhoneProofs
AesIcm                                       counter mode
KeyDerivation, SrtpSession, Srtcp, V128      sessions of libsrtp
CryptoKernel, SelfTest, Prng                 its kernel and random generators
Codec2Instance                               the codec shared by two threads
Codebook <- Codec2Decode; Synthesis, PitchAnalysis
                                             the models and the sound of the codec
                                             -- MCLibraries <- LibrariesProofs
Octets <- AesTables <- Aes, AesGenerator     the block cipher and its tables
AesCbc                                       chained blocks
Sha1 <- Sha1Stream, Sha1Core; Hmac           hashes
StatTest                                     the tests of a random source
KissFft, Codebook <- Quantise, Codec2Frame   transform, quantisers and bits of the codec
                                             -- MCAlgorithms
```

`Handshake`, `SrtpMedia`, `SrtpReplay` and `CallControl` are checked as they are, with
the constants of the configurations `MCHandshake.cfg` and so on. `MCPhone`,
`MCLibraries` and `MCAlgorithms` are suites: they put the modules named above them side
by side, `MediaPipeline` and `AesIcm` by extension and the others as instances. The
variable `part` is chosen initially and never changes; a behaviour is one of the part it
names, and the other parts rest. The states of the parts therefore add up instead
of multiplying. That is faithful because the parts of a suite share no variable:
where components do interact, the interaction is inside a module (the six threads
of `MediaPipeline`, encoder and decoder of `Codec2Instance`, session and streams in
`SrtpSession`) or is a choice over what the other one can return (the kernel's
self-tests, whose outcomes `SelfTest` establishes). Each property of a suite says for
its parts what the definitions of the same meaning in the parts' modules say. In
`MCPhone` and `MCLibraries`, which are proved about, constants and variables are
declared under their own names and the parts' assumptions are assumed together
(`PartsAssumption`); in `MCAlgorithms`, which only TLC runs, the instances keep their
variables in `v1`, `v2`, ....

The modules divide one call between them. `CallControl` is one phone with
several calls, in which a protocol run is one step that succeeds or throws.
`Handshake` is that protocol run between two phones and ends when both have
their contexts. `SrtpMedia` begins with those contexts, the wrong ones
`Handshake` can leave included.

### Handshake

The handshake code is straight-line blocking code. Each method is an operator
that yields the sequence of blocking calls it makes, composed exactly as the
code composes its methods (`startCall(ci)`, `acceptCall(requested)`, ...);
`todo[p]` is what party `p`'s thread has still to do. One action executes each
kind of call: `sendMessage`, `receiveMessage`, `receiveAnswer` (the loop of
`waitForAccept`), `isOtherPartyIntroducing`, `receiveSsrc`, `receiveSalt`,
`validateKeyAgainstExpected`, `initSender`, and so on. A message with its size
first is two writes, because the keep-alive thread can write between them.

| variable | code |
|---|---|
| `todo`, `status` | position of the call thread, `CallHandler.callStatus` |
| `chan`, `link` | bytes in the two directions of the TCP connection, and whether it is up |
| `got` | local variables that hold what was received |
| `peerKey`, `keys`, `requested` | `CallInfo.identity`, `CallInfo` keys, `requiresIntroduction` |
| `sendCtx`, `recvCtx` | `srtpContextSend`, `srtpContextRecv` |
| `worker`, `running`, `waits` | the keep-alive thread |
| `answer`, `strays`, `timedOut` | history, for the properties only |

A stray WAIT is six bytes. Read where a four-byte SSRC is expected it leaves two
behind, and the next read is misaligned too; `receiveSsrc`, `receiveSalt` and the
kind `REST` keep track of that. Read as a size it ends the call.

### SrtpStream, SrtpMedia, SrtpReplay

`SrtpStream` has the library's functions as pure operators with the names of the
C functions: `index_guess`, `rdbx_estimate_index`, `rdbx_check`,
`rdbx_add_index`, `key_limit_update`, `srtp_protect`, `srtp_unprotect`. Widths
are constants (`SeqMax` = 2^16, `RocMax` = 2^32, `WindowSize` = 128, `KeyLimit` =
2^48 - 1, `CountMax` = 2^64) and arithmetic wraps at them. A packet carries the
index it was encrypted under; the authentication tag is valid exactly under the
same key and rollover counter.

`SrtpMedia` is one direction: each action is one outcome of one iteration of
`SrtpWrapper.run` (`wrapAndWrite`, `wrapFails`, `writeFails`, `writeLost`,
`audioEnds`) or `SrtpUnwrapper.run` (`unwrapAndWrite`, `writePayloadFails`,
`unwrapFails`, `readFails`). Pipes, Connectors and TCP are one bounded queue of
whole packets, `wire`; `linkBreaks`, `pathCloses` and the closing of the streams
cut it after any packet. The receiving context has the sender's SSRC and key
material or other ones, as `Handshake` can leave it.

`SrtpReplay` gives the same operators a network that delays, repeats, reorders and
loses packets. The phone never uses the library that way; the module checks what
the library's own comments promise.

### CallControl

One phone with its user thread, successive listener instances, and remote
callers that connect. A step is one access to a shared field, so that all races
on `TorNetwork.socket`, `ProtocolManagementImpl.callHandler`,
`UserInterfaceImpl.callInfo`, the native contexts and `AudioInput.worker` can
happen. `pc[t]` is the thread's position, `own[t]` the connection it is about,
`streams[t]`, `handler[t]` and `callInfo[t]` what it has picked up from the
shared fields. Start and stop requests for the listener queue up for the main
thread. `overlapped` records that a call was started beside another one, or an
incoming connection taken while another call had no socket yet: the code has no
guard against either, and the properties describe the behaviour without it.

### MediaPipeline, AudioPath, AudioManager, ServiceLocator

`MediaPipeline` is the way of a frame from the microphone of one phone to the
loudspeaker of the other: `AudioInputWorker`, `SrtpWrapper`, a `Connector`, the
connection, a `Connector`, `SrtpUnwrapper`, `AudioOutputWorker`, and the pipes
between them. The call code of both phones (`setUpSender`, `setUpReceiver`) makes the
pipes and starts the threads in the order of the code, so a thread can run before
the pipe it writes to is connected. Any thread can fail, any exception ends its
process, and the connection can break. `AudioPath` is what the path promises:
frames are played in the order in which they were recorded, each once, and the
last one once more at the end, because `AudioOutputWorker` plays its buffer after
the read that failed. `MediaPipeline` refines it (`PlaysInOrder` is the
specification of `AudioPath` under the mapping `recorded`, `played`, and `over`, the
end of the output worker).

`AudioManager` has the calls of the interface in any order: two fields that hold the
current worker, devices that all workers of a side share, workers that end later
than they are told to, since the read or write they are in (`enterIo`, `leaveIo`,
`endOfStream`) takes as long as the other end likes. `ServiceLocator` has the getters under their lock, the
constructor of a holder, the ten-second wait on its semaphore (`waited`), Android's
callbacks on the main thread, and `cleanUp`, which takes no lock.

### libsrtp

Names are those of the C functions. What a module keeps of the data is what its
properties can tell apart:

- `Aes` computes with real octets, a round per step, on the keys and blocks of the
  repository's test cases, in each build of `config.h` that works; the reference is
  the standard's definition (`Octets` has GF(2^8)). `AesGenerator` runs
  `tables/aes_tables.c` and compares every word it computes with `AesTables`, which holds
  the words of `aes.c` as they stand there. The comment "FIX! WRong indexes" (`aes.c:1679`)
  stands at the big-endian inverse round of the RISC build; the indexes there are right
  (`CipherCorrect`), those of the little-endian branch below it are not ([4](#4-findings)).
- `AesIcm` names a keystream octet by its counter block and position, `Prng` by seed,
  block and position, `KeyDerivation` by label and position. Reuse is then equality
  of names.
- `AesCbc` takes any permutation as the block cipher. `Sha1` keeps the chaining value
  as the sequence of compressed blocks; `Sha1Core` has the eighty rounds and runs the
  known answer of `hmac.c`. `Hmac` names a digest by what was hashed.
- `SrtpSession` has a heap of objects, the linked list with its `next` pointers, and
  an allocation that may fail at every step; `misused` records a read or a free of
  something already freed. `Srtcp` has both ends and a network that loses, repeats
  and reorders.
- `CryptoKernel` has a step per step of `crypto_kernel_init`; failures of memory, of a
  statistical test or of a self-test are choices at each. `StatTest` counts bit by bit
  with the octet width and the limits as parameters. `SelfTest` is the list of
  checks of a self-test with what each error path does to its instance.
- `V128` shifts word by word in place.

### Codec 2

- `Codec2Instance` splits `initialize`, `release`, `encode` and `decode` at every access
  to shared state, including the plans and the buffers of `fft.c`. `raced` records that
  two workers met inside `initialize` or `release`.
- `KissFft` computes the transform exactly: its complex numbers are those over the
  integers modulo a prime that is 3 modulo 4, in which conjugation inverts the roots
  of unity as it does for complex numbers. Every sign and index of the butterflies
  is kept, rounding is not.
- `Quantise`, `Codec2Frame`, `Codec2Decode` and `PitchAnalysis` use integer units
  (`Codebook` says which) fine enough to tell neighbouring levels, bins and harmonics
  apart. Where a float could be rounded to either side (a bin exactly between two) the
  model allows both; the number of harmonics at the lowest pitch is the one the
  code's floats give, 79 (`codec2.c:240`).
- `Synthesis` has its sizes as parameters (80 samples, half an overlap of 40 and 512
  points in the run, as in the code); a sample is the set of contributions to it, each with its call, instant and weight.
- `PitchAnalysis` leaves open what the spectra hold: every bin may be the peak, every
  candidate of a refinement the best.

## 3 Runs, bounds and fairness

| run | checks | states |
|---|---|---|
| `handshake` | `TypeOK KeysAgree ContextsAgree MediaAligned OngoingMeansAnswered IdentityProven AtMostOneStray`; `Settles CallIsSetUp` | 301 930 |
| `srtp_media` | `TypeOK NoPacketRefused Lockstep WrongContextIsSilent`; `NoKeystreamReuse FramesArrive` | 43 768 |
| `srtp_replay` | `AcceptedUnderTrueIndex FreshPacketAccepted` | 277 545 |
| `call_control` | `TypeOK OwnCall OwnMedia NoInternalError` | 336 802 |
| `phone` | `NothingFailsEarly MicrophoneOff`; `PlaysInOrder EndsAreNoticed GetterEnds` | 191 665 |
| `libraries` | `InOrder KeysApart OctetsFresh KernelTrusted SessionMemory RtcpOnce CodecIsLive ModelsHaveHarmonics PartsMeet BinsInSpectrum` | 1 358 011 |
| `algorithms` | `CipherCorrect ResultOfOwnInput FourierTransform FrameCarriesModel` | 127 214 |
| `srtp_replay_twice`, `srtp_replay_index`, `srtp_key_expired`, `second_call`, `stopped_listener` | one documented claim each, violated: see [4](#4-findings) | |

**What they show.** Whatever the caller's `CallInfo`, the timing of the keep-alive
thread, timeouts and loss of the connection, the two phones never derive keys
that do not mirror each other. They may end up with different contexts, but only
through a WAIT that follows the answer or through a timeout that `SrtpProtocol`
swallows, and then the unwrapper ends at the first packet and plays nothing
(`WrongContextIsSilent`). No order of the blocking calls is a deadlock
(`Settles`). On the in-order TCP stream the library follows every wrap of the
sequence number, and the key is used up before an index repeats. Calls that do
not overlap never mix their connections, handlers, contexts or microphone,
whatever else knocks meanwhile.

Although wrapper and unwrapper start before their pipes are connected, none writes
to an unconnected one: each first reads from a pipe that is filled only after the
set-up has gone on (`NothingFailsEarly`). A lost connection is noticed by the
receiving phone through the closing of the pipes, and a stopped audio worker closes its stream once its
read or write returns (`EndsAreNoticed`). Every getter of
the service locator ends (`GetterEnds`). In libsrtp, errors at any step leave no
key behind, free nothing twice (but for `srtp_remove_stream`, see
[below](#other-claims-the-models-refute)) and never leave the kernel in a state it calls secure
without all its parts. The codec reads no bin or harmonic outside its arrays at
any pitch, and what is quantised survives packing and unpacking.

**Bounds.** The invariants of all runs but `algorithms` are also proved for every value of
the constants (section 5).

- `handshake`: all twelve `CallInfo`s; `OtherKeys` has one key, since the code
  only compares keys for equality. `MaxWaits = 2` lets a WAIT be skipped by
  `waitForAccept` and another one follow the answer; a second stray is then
  excluded by `AtMostOneStray`, which is proved for every bound.
- `srtp_media`: `SeqMax = 8` has room for both sides of the median and every
  branch of `index_guess`; `RocMax = 2` makes the index wrap; `KeyLimit = 15` is
  one less than the number of indices, as `0xffffffffffff` is; `MaxInFlight = 3`
  packets cross a wrap while in flight. All first sequence numbers are initial
  states, and the run goes on until the key expires.
- `srtp_replay`: seven packets from sequence number 6 cross the wrap at 8; the
  window of 4 is shorter than the run, so packets leave it. `CHECK_DEADLOCK` stays
  on: a packet that was sent can always arrive again. `srtp_key_expired` has a
  limit of 3 so that the call after the hard limit is made.
- `call_control`: one user thread suffices to start a call beside an incoming
  one, two callers and two listener instances to have a connection arrive during
  a call, and a stop overtake a start. Deadlock is not checked: a phone that
  nobody calls waits for ever.
- `phone`: pipes of two frames and four frames recorded, so that a pipe is full and
  empty, and frames are in every pipe when the connection breaks. Two services, two
  threads with two calls each, two `cleanUp`s: a permit left from an earlier
  connection and a getter behind a waiting one both happen. Two workers on each
  side, one stopped while its successor runs. The parts end, so deadlock is not
  checked.
- `libraries`: call lengths on both sides of one and two blocks; a counter of 40 that
  runs out; generators with blocks of two octets and limits of 15 and 6; words of two
  bits and shifts from 0 to one more than the vector has; policies of every kind with
  three streams; an SRTCP window of two bits and five packets of two sources; two
  sessions of each codec worker; 44 of the 128 pitches with both ends, in all pairs and
  voicings; five pitches in the synthesis with the codec's sizes; four peaks of the
  squared speech with both ends of either refinement, in two halves (the proof has
  every peak and every step). The index of SRTCP does not come to its limit there;
  what happens at the limit is among the
  [refuted claims](#other-claims-the-models-refute).
- `algorithms`: messages of up to 130 octets in pieces of 1, 7, 53 and 64, which end at
  every place of a block; octets of four bits in the statistical tests; transforms of
  every radix `kf_work` knows, alone and combined, and 4*4*2, the shape of the codec's
  512 = 4*4*4*4*2; every level of every quantiser; every value of every field among
  empty, full and mixed others.

**Fairness.** Threads that can run are scheduled: `CallThread(p)`,
`KeepAliveWorker`, and `User`, which in the code is not a person
(`CallHandler.handleIncomingCall` has the call accepted by itself). In
`SrtpMedia` only the unwrapper and the Connectors are assumed to run; the sender
may stop supplying frames at any point, which makes `FramesArrive` stronger.
Nothing forces a link to break, a read to time out or audio to end. In
`MCPhone` the threads of the path, the code that sets it up, the dying of a process
after an exception, the getters with their timed wait and the audio workers run on;
recording, failures, the loss of the connection and, for the workers of the audio
manager, the return of a read or write are never forced.
A stopped worker that sits in `readFully` (`AudioOutputWorker.java:58`) or in a write to
a full pipe (`AudioInputWorker.java:55`) does not see its flag, so `StoppedCloses` says
what happens when they return. Every fairness
condition is weak: no blocking call competes for a resource that others can keep
taking away. The locator's lock is contended, but each holder gives it up after at
most ten seconds and the calls are bounded.

**Mutants.** Each property of each passing run has a mutated definition that
TLC finds violating it; the mutants stand in the modules directly before the
definition they change.

## 4 Findings

Each has a run that violates a claim quoted from the repository.

1. `srtp_replay_twice` — `rdbx_add_index` marks a packet inside the window at bit
   `-delta`, `rdbx_check` tests bit `127 + delta` (`rdbx.c:237`): a late packet is
   accepted each time it is delivered, although `srtp.h:349` promises
   `err_status_replay_fail`.
2. `srtp_replay_index` — `index_guess` returns a positive difference for a packet
   of the previous rollover (`rdbx.c:149`), so the database index moves past
   every packet received, although `rdbx.c:83` calls it the highest received.
3. `srtp_key_expired` — `key_limit_update` does not look at the state
   (`key.c:95`); one call after the hard limit the counter has wrapped and
   packets are protected and unprotected again, although `srtp.h:847` says that neither
   can be.
4. `second_call` — `ProtocolManagementImpl.startCall` asks a `CallHandler` it has
   just made whether there is a call, so the check that says "There is already
   an ongoing call" (`CallHandler.java:158`) never fires.
5. `stopped_listener` — a stop carried out before the listener thread has made its
   `ServerSocket` closes nothing (`ConnectionListener.java:47`), although
   `TorNetwork.java:67` says incoming connections are no longer accepted.

The first three do not touch the phone's calls: its stream is in order
(`srtp_media`), and its wrapper thread ends at the first error.

### Other claims the models refute

These are stated in the modules as well and have no run of their own. Each is seen
violated by adding it, with its part (`part = "session" => Session!CreateCleansUp`), to
the invariants of the suite; those of `Srtcp` on that module itself, since `MCLibraries`
assumes that a sender stops before its numbers run out.

| property | claim, and what the code does |
|---|---|
| `Codec2Instance.FullDuplex` | `codec2.c:60` "sufficient for a full duuplex codec": `fft.c:81` copies through global buffers, so encoder and decoder can take each other's spectrum |
| `Codec2Instance.InitializedStays` | `Codec2.java:25` counts without a lock: two workers that initialize together lose one count, and the first to release leaves the other with "Codec not initialized" |
| `ServiceLocator.CleanedUpIsForgotten` | `ServiceLocator.java:22` "hold references to them until cleanUp() is called": the holders stay, and the next getter returns an unbound service |
| `AudioManager.GetStreamInitializes` | `AudioManager.java:12` "all calls initialize new stream": the second one throws |
| `AudioManager.StopCloses` (a PROPERTY of `Spec`) | `AudioManager.java:24`, `:35` "and closes stream": a worker that waits for octets or for room in its pipe never comes to its flag |
| `AudioManager.SendingRecords` | `AudioManager.java:19` "Starts writing audio data to stream": a worker told to stop turns the shared microphone off under its successor (`AudioInputWorker.java:44`) |
| `CryptoKernel.ReinitSucceeds` | `crypto_kernel.c:102` "we just re-run the self-tests and then return": `srtp_init` then fails on its own debug module, so the second call of a process gets no sending session |
| `CryptoKernel.StatusReturns` | `crypto_kernel.h:158` lists a return value for a failed test: the code calls `exit` |
| `SrtpSession.CreateCleansUp` | `srtp.c:1288` "clean up everything": the parts of a stream that `srtp_stream_init` refuses (`srtp.c:1218-1223`; `AES_128_CBC` does, `aes_cbc.c:125`) or that was made for an undefined SSRC kind, and all of a second wildcard's, stay allocated |
| `SrtpSession.RemoveDetaches` (under `SpecRemove`) | `srtp.h:408`: removing the first stream leaves the list pointing to it |
| `Srtcp.IndexNotReused`, `Srtcp.IndexFits` (with `IndexMax = 2`, `MaxCalls = 8`; the second without encryption) | `rdb.h:74` "if it is not too high": the index goes on counting after it has expired and wraps, and 2^31 is handed out as a 31-bit index |
| `AesCbc.PaddingFits`, `AesCbc.PaddingFound` | `aes_cbc.c:273`, `:315` "always between 1 and 16": one octet more is written than reported, and the search for the marker has no limit |
| `AesIcm.SetOctetSeeks` (under `SpecSeek`) | `aes_icm.c:197`: `aes_icm_set_octet` changes the wrong half of the counter |
| `Aes.KnownAnswer` with `Build("RISC", FALSE)` | `config.h:242` offers `CPU_RISC` for any such processor: on a little-endian one octets are taken in the wrong order (the comment "FIX! WRong indexes", `aes.c:1679`, stands at the other branch) |
| `KeyDerivation.ShortTagNotForRtcp` | `srtp.c:1375` "intended for SRTP, but not SRTCP": the profile function for SRTCP sets it |
| `Prng.ServesCallers` | `ctr_prng.c:81`: the cipher's segment ends long before the octet count asks for a new seed, and every later call fails |
| `StatTest.RunsHoldSizes` | `stat.c:76` "size (i-1)": it is i + 1 |
| `Codec2Frame.FiftyOneBits` | `codec2.c:134` "51 bits": a frame has 50 |
| `Codec2Decode.MiddleHasPitch` | `interp.c:418`: a voiced first half between two unvoiced frames keeps a placeholder of 80 radians and no harmonics |
| `Codec2Decode.BandsArePower` | `quantise.c:462`: the band of the highest harmonic reaches into bins that hold no power |

Of these the first three, `StopCloses`, `SendingRecords`, `ReinitSucceeds`, `MiddleHasPitch` and
`BandsArePower` concern code the phone runs; the others concern parts of libsrtp it
does not call and counts in comments.

## 5 Proofs

TLAPS proves the following for every value of the constants that satisfies the
modules' assumptions.

**`HandshakeProofs`** and **`HandshakeAgreementProofs`** (assume only that
`OtherKeys` are other keys and `MaxWaits` a natural number). Together they prove every
invariant the run `handshake` checks:

- `TypeCorrect`: `Spec => []TypeOK`. The bulk is that every program the methods
  compose is a sequence of calls (`ProgramTypes`) and that each action keeps it so.
- `KeysAlwaysAgree`: `Spec => []KeysAgree`.
- `AtMostOneStrayWait`: `Spec => []AtMostOneStray`.
- `AnsweredWhenOngoing`: `Spec => []OngoingMeansAnswered`.
- `ContextsAlwaysAgree`: `Spec => []ContextsAgree`.
- `MediaAlwaysAligned`: `Spec => []MediaAligned`.
- `IdentityAlwaysProven`: `Spec => []IdentityProven`.

The first three follow from `Invariance`: `Spec => []IInv` with
`IInv == TypeOK /\ MessageOrigin /\ KeysOrigin /\ OnlyUserAnswers /\ StrayInv`.
`KeysAgree` is not inductive: it says nothing about a Diffie-Hellman key in
flight. `MessageOrigin` says that what travels from `p` carries `p`'s values, so a
key read by the other party is `p`'s, and `KeysOrigin` that derived keys come
from exactly the two keys of this call. `AtMostOneStray` needs that no answer is
written before `running` is false (`OnlyUserAnswers`: until then the callee's
program contains no answer, and the caller's never does), and that only a worker
already past its check can write afterwards (`StrayInv`).

The other four relate how far the two parties have come, and a program is a list
whose beginning depends on the `CallInfo`. The proofs count from its end: from the key
exchange on the calls are the same for every `CallInfo` (`LastCalls`), so the number of
calls left, `Pos(p)`, says which one is next (`EndsLike`, `NextCall`) and never grows
(`ThreadPos`).

- `ReadyInv == ControlInv /\ DoneInv /\ WrittenInv` (`ReadyInvariance`): the callee is on
  its way only from the user's decision on and writes ACCEPT before anything else; a
  party past a position has done what lies before it (keys, sender, receiver); and a
  message of the key exchange or a salt, in flight or read, means its writer is past the
  call that writes it. A party in the call has read the salt, and the writer of the salt
  has derived its keys and made its sender: that is `OngoingMeansAnswered`.
- `ConversationInv` (`ConversationInvariance`): while nothing has disturbed what p reads,
  the stream to p holds, after the Diffie-Hellman key, at most SSRC and salt, in this
  order and as many as the writer's position says; after the SSRC at most the salt, after
  the salt nothing. What p reads as SSRC and salt is therefore what the other one sent
  and made its context of, and nothing is left for the media threads. A loss of the
  connection cuts the stream, so every clause bounds it from above; only where the order
  of reading needs it does one, for `link = "up"`, bound it from below.
- `IdentityInv == TruthInv /\ CallerInv /\ CalleeInv` (`IdentityInvariance`): the caller
  writes of introductions only what its `CallInfo` says, so the callee that reads them
  runs exactly the optional calls the caller expects; a caller that requires an
  introduction has `ProofCalls` before `LastCalls`, and the number of calls left tells
  whether the key was read, compared with the expected one and set.

**`SrtpStreamProofs`**, **`SrtpMediaProofs`** and **`SrtpReplayProofs`** (assume
`SeqMax >= 4` and even, `RocMax >= 1`, `WindowSize >= 1`,
`1 <= SoftLimit <= KeyLimit < CountMax`, `KeyLimit < SeqMax * RocMax`; for `SrtpMedia`
`MaxInFlight >= 1`, for `SrtpReplay` that streams start at sequence numbers; the
library's numbers satisfy them). The first holds the lemmas about the library's
operators on which the other two rest. About `SrtpMedia`:

- `MediaTypeCorrect`: `Spec => []TypeOK`, the widths of index and key count.
- `WrongContextPlaysNothing`: `Spec => []WrongContextIsSilent`.
- `PacketsAreNeverRefused`: `Spec => []NoPacketRefused`.
- `ReceiverInLockstep`: `Spec => []Lockstep`.
- `KeystreamUsedOnce`: `Spec => NoKeystreamReuse`.

They follow from `MediaInvariance`: `Spec => []MInv` with `MInv == TypeOK /\
SenderInv /\ ReceiverInv /\ SentBySender /\ WrongContextIsSilent /\
NoPacketRefused`. The argument: the sender's database index is not truncated and
grows by one with each packet, so `index_guess` of the next sequence number is
right in each of its three branches (`EstimateNext`; `EstimateFirst` for the
first packet, where the other formula applies). `ReceiverInv` says that the
packets in flight continue the receiver's index without a gap (`Chain(b)`), which
survives cutting `wire` after any packet. `SenderInv` ties the number of indices
used to `num_left`; since fewer than `SeqMax * RocMax` are used, two of them never
agree modulo that number (`IndexDistinct`).

About `SrtpReplay`, where packets arrive late, disordered, repeatedly or never:

- `IndexIsNeverMistaken`: `Spec => []AcceptedUnderTrueIndex`.
- `NewerPacketsAccepted`: `Spec => []FreshPacketAccepted`.

Both follow from `ReplayInvariance`, `RInv == RType /\ SentInv /\
AcceptedUnderTrueIndex`: every index the library computes has the packet's sequence
number as its low part, whatever the database holds (`EstimateSeq`), and the tag
compares the high part. `EstimateAhead` goes through the branches of `index_guess` for
a packet ahead of the database. The proof showed that the database need not be right
about the highest index received: an earlier form of `FreshPacketAccepted` assumed so
(`IndexIsHighestReceived`, which the code does not keep, see the findings), and the
assumption was dropped. `NoPacketAcceptedTwice`, `IndexIsHighestReceived` and
`ExpiredKeyIsUnusable` are violated and have nothing to prove.

**`CallControlProofs`** (assumes that users are neither callers nor listeners and
that `None` is nobody's name),
for any number of calls by users, of callers and of instances of the listener:

- `CallTypeCorrect`: `Spec => []TypeOK`.
- `CallsStayApart`: `Spec => []OwnCall`.
- `MediaStayApart`: `Spec => []OwnMedia`.
- `ChecksNeverFail`: `Spec => []NoInternalError`.

They follow from `CallInvariance`, `CInv == TInv /\ OwnNames /\ NoOverlapInv /\ OwnCall
/\ NoInternalError`. `TypeOK` alone is not inductive, because some steps use a field that
another thread may have set to null: `FieldsSet` says which fields are set at which step,
and holds whether or not calls overlap. Without overlap at most one thread is `Busy`
(`OneCall`); what it has set is still what it set (`KeepsOwn`), and what is set was set by
a thread that is still in its call (`SetByCall`), which is what makes the code's checks
pass.

**`PhoneProofs`** is about `MCPhone`. It assumes `Cap >= 1`, that `MaxFrames`, `MaxCalls`,
`MaxCleanUps` and `MaxWorkers` are natural numbers, that there is a service, and that
`None` is no thread. Of the media path:

- `ImplementsAudioPath`: `Spec => PlaysInOrder`, the refinement of `AudioPath`.
- `NeverUnconnected`: `Spec => []PipesConnected`.
- `PipelineTypeCorrect`: `Spec => []TypeOK`.

`PInv == ConnectInv /\ OrderInv`. `ConnectInv` relates the steps of the call code to the
pipes: nothing is recorded before `startSending`, and nothing is read from the network
before the last Connector runs, and both come after the pipes are connected. `OrderInv`
numbers the frames: going back from the player, `IntoD`, `AtUnwrapper`, `IntoC`, ...
count the frames that have come as far as each place, each pipe holds the consecutive
numbers after the count of the place behind it, and a copier holds the number of its own
place. Up to the network this holds until the connection is lost and what was on its way
is cut; from there on always. A step of a thread then is a step of `AudioPath` or none
(`FramesInOrder` gives the invariant, one lemma per action the step).

Of all parts, for any number of threads, services, calls, clean-ups and workers:

- `EarlyStartsAreHarmless`: `PartSpec => []NothingFailsEarly`. For the locator the
  invariant is `LocatorInv == TypeOK /\ LockInv /\ HolderInv /\ PermitInv /\
  GivesUpAfterWaiting`. That a getter throws only after its ten seconds depends on the
  permits: a permit left over from an earlier connection would let a getter pass whose
  service is not there. `HolderInv` counts them (a connection leaves at most one, and a
  holder that was cleaned up has none), `LockInv` says that the thread with the lock is
  the only one to take one, and `PermitInv` that who took it finds the service unless
  Android has reported it lost.
- `MicrophoneNeverLeftOn`: `PartSpec => []MicrophoneOff`. `AudioInv`: the device is on only
  while some worker is in its loop. A worker turns it off when it leaves the loop,
  whatever the others do, so the implication survives every overlap (its converse does
  not: `SendingRecords` is among the refuted claims).

**`LibrariesProofs`** is about `MCLibraries`. Its assumptions are that bounds are natural
numbers, that the lengths of blocks, segments, windows, indices and words are not zero,
that first counters lie within the counter and lengths asked of a generator within its
limit, that the policies have a kind and there is an SSRC, that the SRTCP window is not
longer than the index and a sender stops before its numbers run out, that encoder
and decoder are two, that pitch indexes, peaks and steps of a refinement are among those
of the code, and that the sizes of the synthesis are even, with an overlap that fits a
frame and two frames that fit the transform. Each part has an invariant of its own, and each theorem carries
`part = ... => ...Inv` through `PartSpec`. Counter mode:

- `KeystreamInOrder`: `Spec => []InOrder`. However a caller cuts its data, octet n of
  what is served is octet n of the keystream of the current nonce: sender and receiver
  that cut it differently still agree, and no octet is used twice.
- `IcmTypeCorrect`: `Spec => []TypeOK`.

`InOrder` speaks only of the octets of the last call. It becomes inductive with
`Position`: the buffer holds the end of the block before the counter's, and
`served = 16 * (counter - start) - bytes_in_buffer`. The two branches of
`aes_icm_encrypt_ismacryp` (from the buffer alone, or buffer, whole blocks and a tail)
have a lemma each; the arithmetic rests on the uniqueness of quotient and remainder.

Key derivation, `KeysNeverMix`: `PartSpec => []KeysApart`. `KdfInv` says what every step
has left: a key is empty or exactly `KeySet(p)`, the octets its label and length give it,
and it is that once the derivation is behind it (`Behind`). `KeyDerived` is the one step
where the buffer matters: a key with its salt is written in two pieces that meet. That
the sets are disjoint is then a fact about labels (`LabelsApart`, `KeySets`).

Random generators, `OctetsStayFresh`: `PartSpec => []OctetsFresh`. `OctetsFresh` forgets
where a generator stands. `PrngInv` remembers it: what was given of the current seed
lies before the octet counter (`ctr_prng`) or before the block counter (`x917`), which
throws the rest of a block away, and earlier seeds have smaller numbers. `CountCovers`
compares a count with a cardinality; the lemmas `DrawnCounted` and `SteppedCounted` bound
the set a call adds by the number of octets it was asked for.

Kernel and self-tests, `KernelIsTrusted`: `PartSpec => []KernelTrusted`. `KernelInv ==
KernelTyped /\ KernelPhase /\ KernelLoaded`: what the steps behind the current one have
loaded is still loaded, and an initialisation that gets past its first step is the first
that does, because a failed one leaves its debug module behind and the next one stops
there. The self-test runs a script whose length depends on the number of cases.
`SelfInv` compares what is left with the whole script (`Over` is how much is done) and
the instance held with what its place within the repeated piece says
(`HeldAfter`, `ScriptPlaces`); the division of a place by the length of a piece replaces
an induction over the cases.

Memory of a session, `SessionMemoryHolds`: `PartSpec => []SessionMemory`. `SessionInv ==
SessionTyped /\ SessionLinks /\ SessionHolds /\ SessionLeft /\ SessionUses`. The list is a chain of
pointers. `SrtpSession` defines what can be reached from a stream as the least set that is
closed under `next`, which needs no recursion; `PushedFrom` and `SameFrom` say what
becomes of it when a stream is put in front and when links beside it change.
`SessionLinks` keeps the owners: a stream has its own parts or those of the template,
which has its own and is not in the list, so freeing the list and then the template frees
each part once (`Deallocates`). `HeapIsHeld` is proved in two
halves: `SessionHolds` for the streams the session has, `SessionLeft` for those refused
after their allocation. The code frees at most the context of the latter
(`srtp.c:1220`, `1254`; nothing at `1235` and `1242`), so their parts stay for good;
`LeftBehind` names exactly these objects. `SessionUses` is what `CollisionReported` needs of
streams not allocated yet.

SRTCP and the shifts, `RtcpAcceptsOnce`: `PartSpec => []RtcpOnce`. `RtcpInv` says of each
window that a bit is set exactly if the packet was accepted, that nothing behind its
end was, and that a window that has moved has its last bit set (`Remembers`); `rdb_check`
then lets pass only what was not accepted (`CheckIsSafe`), and `rdb_add_index` keeps it so
when the window moves (`EntryIsKept`). The shifts work in place: `ShiftInv` says which
words already are those of the result and which still those before, with the index of
the loop between them. `LeftWord` and `RightWord` compute one word from its two
sources; they rest on the place of a bit (`BitPlace`, `PlaceBit`), that is on quotient and
remainder, and `WordsAndBits` puts the words together again.

Codec, `SharedCodecIsLive`: `PartSpec => []CodecIsLive`. `CodecInv` has two parts.
`Bounded` holds even after the workers have met in `initialize` or `release`, when counts
and pointers are wrong, and gives the types. `Apart` holds until then: at most one worker
is in these methods, the count is the number of workers that use the codec (`Users`),
what is allocated is what the pointer names or what the worker in `initialize` is
about to assign, and the plans of the transform exist whenever it is called.

Decoder, `DecodedModelsHaveHarmonics`: `PartSpec => []ModelsHaveHarmonics`. `DecodeInv`
says that a model is made of its pitch, that this pitch is one of the quantiser's range
or, in a first half, the placeholder, and that what the decoder remembers is the second
half before. `FirstHalf` goes through the cases of `interpolate_lsp`. `HarmonicPlace` turns
the number of harmonics, a quotient, into a bound for the frequency of each, from which
`BinsApart` has the bins, on whichever side of a tie a float falls: a harmonic is more
than three bins from the next, more than any rounding can move it.

Synthesis, `SynthesisOverlaps`: `PartSpec => []PartsMeet`. The shift and the addition in place
become one function: by `SpeechInv` the memory is `Memory(i, calls)`, the last call and in
the lower samples what is left of the one before. With the window in halves of a frame
(`WindowIs`) a sample has a part of one call or of both (`SampleIs`), and rise and fall add
up. `PhaseTurns` is the division that brings the phase back into a turn.

Pitch, `PitchReadsSpectrum`: `PartSpec => []BinsInSpectrum`. `PitchInv` holds with `PitchAt`,
what the refinements so far allow: five samples around the estimate, then the limits. A
refinement counts harmonics at one pitch and places them at another; `ReadInside` shows
that no candidate is so short that a bin leaves the spectrum, and `BandsInside` that the
bands of the final pitch stay within spectrum and window. Both are about quotients of
products, which the solvers do not do by themselves: `QuotientBounds`, `QuotientBelow` and
`CompareFactors` take them apart.

**Only model-checked.** Liveness (`Settles`, `CallIsSetUp`, `FramesArrive`,
`EndsAreNoticed`, `GetterEnds`) and ENABLED are outside the prover's reach. So is what
recursive definitions compute for every input, and with it the run `algorithms`:
`CipherCorrect`, `ResultOfOwnInput`, `FourierTransform` and `FrameCarriesModel` are about
rounds, blocks, butterflies and bits that are computed by recursion. (`Hmac` is a state
machine without recursion; its part of `ResultOfOwnInput` is checked together with the
hashes.) All other invariants
and action properties of the runs that are expected to pass have a theorem.

## 6 Assumptions of the models

- An uncaught exception ends the process: the repository installs no handler, and
  that is Android's default. The socket is closed with it.
- `DataOutputStream.writeInt` and `write(byte[])` reach the socket in one piece,
  as on Android; writes of different threads do not mix inside them.
- A read of a size that is in fact a WAIT ends the call: the four bytes make a size
  that cannot be allocated or read.
- The loss of a connection is noticed in the end by both phones. The callee's
  socket has no read timeout, so this is TCP's doing.
- The compiler does not hoist the reads of the non-volatile `running` flags.
- Keys, nonces, SSRCs and salts are represented by the party that generated them:
  two parties never draw the same ones, and signatures cannot be made without the
  key.
- The native build is little-endian with 64-bit arithmetic (`NO_64BIT_MATH`
  unset).
- `rejectCall` is public and has no caller; it is modelled because the peer must
  cope with REJECT. `CallHandler.endCall`, `TorNetwork.disconnect`,
  `stopSending` and `stopPlaying` have no caller in the
  application either, and `startCall` only one that is commented out
  (`MainActivity.java:149`). `endCall` and `disconnect` are left out. `stopSending` and `stopPlaying` are actions of
  `AudioManager`; in `SrtpMedia` and `MediaPipeline` they are an end of the audio that
  may come at any time (`audioEnds`, `writePayloadFails`).
- The block cipher is a permutation, and different counter blocks, labels or hashed
  sequences give different results.
- Android calls `onServiceConnected` only for a binding that exists and nothing after
  `unbindService`.
- No buffer of nearly 2^32 octets is enciphered: the 32-bit sum of a length and a
  counter (`aes_icm.c:338`) does not wrap.
- Floating-point numbers are compared as exact numbers, but for the ties named in
  [2](#codec-2).

## 7 What is not modelled

- Of Codec 2, what only floating point decides: windows and their energies, LPC
  analysis, the search for the roots of the LSP polynomials, amplitudes, the postfilter;
  the vector quantisers of other bit rates (`codebookdvq.c` and others), which the phone
  does not call; the programs that generate codebooks.
- Of libsrtp: header extensions and the length checks of packets, event handlers (the
  phone installs none), hexadecimal and base-64 conversion and `math.c` (used by test
  programs and debug output), the null cipher's copying, the drivers under `test`.
- What the phone does with the null context a failing `srtp_create` leaves: it ignores
  the status, and the outcome is undefined.
- The identity manager: one lazily created key pair. Its race is a hazard without a
  property, since `CallControl` keeps only the outcome of an introduction.
- `TorServiceUtils` (runs `ps` and parses its output), the activity's layout,
  `DummyAudioManager` (not used by the application).

## 8 Plan

Order: what decides whether a call is right comes first, then what surrounds it.

1. *Done.* `Handshake`, `SrtpStream`, `SrtpMedia`, `SrtpReplay`, `CallControl`.
2. *Done.* The Android side (`MediaPipeline` with its refinement of `AudioPath`,
   `AudioManager`, `ServiceLocator`, `Codec2Instance`), libsrtp and Codec 2.
3. *Done.* Proofs: every invariant and action property of the runs `handshake`,
   `srtp_media`, `srtp_replay`, `call_control`, `phone` and `libraries`, with the refinement
   of `AudioPath` by `MediaPipeline`.
4. Runs: the claims of `Srtcp` at the end of its numbers, with a bound beyond it, and the
   proof of what still holds there (nothing passes twice).
5. `Session`: an abstract specification of a call (idle, set up, both in the call
   with agreed contexts, over) which `Handshake` implements.
