---------------------------- MODULE MCAlgorithms ----------------------------
(***************************************************************************)
(* The algorithms of the native libraries for TLC, next to each other: a   *)
(* behaviour is one of the part it begins with, so that the states of the  *)
(* parts add up.  The instances keep their variables in v1 .. v8.          *)
(*                                                                         *)
(* Of libsrtp: AES in three builds and the program that computes its       *)
(* tables, chained blocks, SHA-1 and HMAC, the tests of a random source.   *)
(*                                                                         *)
(* Of the codec: the transform, which is checked twice, since a prime      *)
(* serves only sizes that divide its successor: once for all radices, once *)
(* for chains of equal ones; the quantisers and the bits of a frame.       *)
(***************************************************************************)
EXTENDS Integers, Sequences

VARIABLES part, v1, v2, v3, v4, v5, v6, v7, v8

-----------------------------------------------------------------------------
(* Values of the constants                                                 *)

Build(cpu, be) == [CPU |-> cpu, WORDS_BIGENDIAN |-> be]
WorkingBuilds == { Build("CISC", FALSE), Build("CISC", TRUE), Build("RISC", TRUE) }

\* The keys and plaintexts of the repository's test cases.
Vector128(s) == [n \in 0 .. 15 |-> s[n + 1]]
TestKeys == { [n \in 0 .. 15 |-> n],
              Vector128(<< 43, 126, 21, 22, 40, 174, 210, 166,
                           171, 247, 21, 136, 9, 207, 79, 60 >>),
              [n \in 0 .. 15 |-> 255] }
TestBlocks == { [n \in 0 .. 15 |-> 17 * n],
                Vector128(<< 107, 193, 190, 226, 46, 64, 159, 150,
                             233, 61, 126, 17, 115, 147, 23, 42 >>),
                [n \in 0 .. 15 |-> 128] }

\* A permutation of blocks of two octets, and texts that end with zeros and with
\* markers, the octets of the padding.
TwoOctetCipher == [b \in [1 .. 2 -> 0 .. 15] |->
    LET v == ((b[1] * 16 + b[2]) * 77 + 41) % 256
    IN  [i \in 1 .. 2 |-> IF i = 1 THEN v % 16 ELSE v \div 16]]
TwoIVs == {[i \in 1 .. 2 |-> 0], [i \in 1 .. 2 |-> 4 + i]}
Texts == {<<>>, <<10>>, <<10, 0>>, <<3, 10, 0>>, <<1, 2, 10, 10>>, <<7, 0, 0, 10, 0>>}

-----------------------------------------------------------------------------
(* The parts                                                               *)

Block == INSTANCE Aes WITH
    Builds <- WorkingBuilds, Keys <- TestKeys, Blocks <- TestBlocks, build <- v1,
    pc <- v2, key <- v3, plaintext <- v4, expanded_key <- v5, rc <- v6, i <- v7,
    block <- v8

Tables == INSTANCE AesGenerator WITH
    pc <- v1, i <- v2, sbox <- v3, inv_sbox <- v4, T <- v5, U <- v6

Cbc == INSTANCE AesCbc WITH
    BlockLen <- 2, E <- TwoOctetCipher, IVs <- TwoIVs, Messages <- Texts,
    MaxSent <- 2, enc <- v1, dec <- v2, sent <- v3, wire <- v4, status <- v5,
    got <- v6, written <- v7

Sha == INSTANCE Sha1Stream WITH
    Pieces <- {1, 7, 53, 64}, MaxOctets <- 130, MaxMessages <- 2, ctx <- v1,
    fed <- v2, messages <- v3, digest <- v4

Rounds == INSTANCE Sha1Core WITH
    phase <- v1, todo <- v2, t <- v3, W <- v4, ABCDE <- v5, H <- v6

Mac == INSTANCE Hmac WITH
    Keys <- [id : {"k1", "k2"}], KeyLens <- {20, 21}, TagLens <- {4, 20, 21},
    Inputs <- {"m1", "m2"}, MaxPieces <- 2, opad <- v1, ctx <- v2, init_ctx <- v3,
    key <- v4, message <- v5, started <- v6, result <- v7, status <- v8

Stat == INSTANCE StatTest WITH
    NibbleBits <- 2, DataLen <- 3, BufLen <- 1, LongRun <- 4, Groups <- 2,
    OnesLo <- 4, OnesHi <- 8, PokerLo <- 0, PokerHi <- 30,
    RunLo <- [g \in 0 .. 1 |-> 0], RunHi <- [g \in 0 .. 1 |-> 2], MaxTrials <- 2,
    data <- v1, ones_count <- v2, f <- v3, acc <- v4, trial <- v5, err <- v6

Transform == INSTANCE KissFft WITH
    Modulus <- 419, Root <- [r |-> 12, i |-> 81],
    Sizes <- {2, 3, 4, 5, 6, 7, 10, 12, 14, 15, 20, 21, 28}, nfft <- v1, x <- v2,
    x0 <- v3, calls <- v4

Powers == INSTANCE KissFft WITH
    Modulus <- 863, Root <- [r |-> 4, i |-> 780], Sizes <- {2, 8, 9, 16, 18, 27, 32},
    nfft <- v1, x <- v2, x0 <- v3, calls <- v4

Levels == INSTANCE Quantise WITH
    param <- v1, value <- v2, index <- v3, out <- v4, below <- v5

Frame == INSTANCE Codec2Frame WITH
    fields <- v1, bits <- v2, nbit <- v3, got <- v4, phase <- v5

ASSUME PartsAssumption ==
    /\ Block!BuildsAssumption /\ Cbc!CbcAssumption /\ Stat!StatAssumption
    /\ Transform!SizesAssumption /\ Transform!RootAssumption
    /\ Powers!SizesAssumption /\ Powers!RootAssumption

-----------------------------------------------------------------------------
\* The variables from the n-th on are not used.
UnusedFrom(n) == /\ n <= 4 => v4 = 0
                 /\ n <= 5 => v5 = 0
                 /\ n <= 6 => v6 = 0
                 /\ n <= 7 => v7 = 0
                 /\ n <= 8 => v8 = 0

UnchangedFrom(n) == /\ n <= 4 => UNCHANGED v4
                    /\ n <= 5 => UNCHANGED v5
                    /\ n <= 6 => UNCHANGED v6
                    /\ n <= 7 => UNCHANGED v7
                    /\ n <= 8 => UNCHANGED v8

PartInit ==
    \/ part = "block" /\ Block!Init /\ UnusedFrom(9)
    \/ part = "tables" /\ Tables!Init /\ UnusedFrom(7)
    \/ part = "cbc" /\ Cbc!Init /\ UnusedFrom(8)
    \/ part = "sha" /\ Sha!Init /\ UnusedFrom(5)
    \/ part = "rounds" /\ Rounds!Init /\ UnusedFrom(7)
    \/ part = "mac" /\ Mac!Init /\ UnusedFrom(9)
    \/ part = "stat" /\ Stat!Init /\ UnusedFrom(7)
    \/ part = "transform" /\ Transform!Init /\ UnusedFrom(5)
    \/ part = "powers" /\ Powers!Init /\ UnusedFrom(5)
    \/ part = "levels" /\ Levels!Init /\ UnusedFrom(6)
    \/ part = "frame" /\ Frame!Init /\ UnusedFrom(6)

PartNext ==
    /\ UNCHANGED part
    /\ \/ part = "block" /\ Block!Next /\ UnchangedFrom(9)
       \/ part = "tables" /\ Tables!Next /\ UnchangedFrom(7)
       \/ part = "cbc" /\ Cbc!Next /\ UnchangedFrom(8)
       \/ part = "sha" /\ Sha!Next /\ UnchangedFrom(5)
       \/ part = "rounds" /\ Rounds!Next /\ UnchangedFrom(7)
       \/ part = "mac" /\ Mac!Next /\ UnchangedFrom(9)
       \/ part = "stat" /\ Stat!Next /\ UnchangedFrom(7)
       \/ part = "transform" /\ Transform!Next /\ UnchangedFrom(5)
       \/ part = "powers" /\ Powers!Next /\ UnchangedFrom(5)
       \/ part = "levels" /\ Levels!Next /\ UnchangedFrom(6)
       \/ part = "frame" /\ Frame!Next /\ UnchangedFrom(6)

PartVars == <<part, v1, v2, v3, v4, v5, v6, v7, v8>>
PartSpec == PartInit /\ [][PartNext]_PartVars

-----------------------------------------------------------------------------
\* The block cipher as aes.c computes it is the standard's, round by round from the
\* tables its generator computes, in every build that works, and decryption undoes
\* it; chained blocks come back whole, and a receiver that is out of step loses the
\* first block and no other.  (aes.c, tables/aes_tables.c, aes_cbc.c)
CipherCorrect ==
    /\ part = "block" => /\ Block!KeyScheduleIsFips /\ Block!RoundsAreFips
                         /\ Block!DecryptInverts /\ Block!KnownAnswer
    /\ part = "tables" => Tables!SboxAgrees /\ Tables!WordsAgree
    /\ part = "cbc" => Cbc!TypeOK /\ Cbc!TextComesBack /\ Cbc!OnlyFirstBlockLost

\* A hash, a tag and the verdict on a random source are those of the octets fed
\* since the last start, however these are cut into pieces and whatever earlier
\* messages, abandoned packets, keys and trials left in the buffers; and the known
\* answer of the self-test comes out of the eighty rounds.  (sha1.c, hmac.c, stat.c)
ResultOfOwnInput ==
    /\ part = "sha" => Sha!TypeOK /\ Sha!HashesMessage
    /\ part = "rounds" => Rounds!TypeOK /\ Rounds!KnownAnswer
    /\ part = "mac" => Mac!TypeOK /\ Mac!TagOfMessage
    /\ part = "stat" => Stat!TypeOK /\ Stat!RunsAreMaximal /\ Stat!PassMeansTests

\* A call of the transform gives the Fourier sums of its array, whatever radices
\* its size has, and two calls give the array back.  (kiss_fft.c, fft.c)
FourierTransform ==
    /\ part = "transform" => /\ Transform!TypeOK /\ Transform!FactorsOfSize
                             /\ Transform!IsFourierSum /\ Transform!TwoCallsReturn
    /\ part = "powers" => /\ Powers!TypeOK /\ Powers!FactorsOfSize
                          /\ Powers!IsFourierSum /\ Powers!TwoCallsReturn

\* What the encoder quantises is carried by the fifty bits of a frame and comes out
\* of the decoder at the nearest level, with LSPs that rise; a step of a field
\* changes one bit.  (quantise.c, pack.c, codec2_encode, codec2_decode)
FrameCarriesModel ==
    /\ part = "levels" => /\ Levels!TypeOK /\ Levels!Tandem /\ Levels!NearestLevel
                          /\ Levels!RisingLsps
    /\ part = "frame" => /\ Frame!TypeOK /\ Frame!BitsCounted /\ Frame!RoundTrip
                         /\ Frame!GrayNeighbours
=============================================================================
