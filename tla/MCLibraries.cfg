SPECIFICATION PartSpec
CONSTANTS
    CtrMax = 40
    IVs = {iv1, iv2}
    FirstCtrs = {0, 3}
    Lengths <- CounterLengths
    PrngBlockLen = 2
    MaxOutLen = 15
    SegmentMax = 6
    Asked = {0, 1, 3, 4}
    MaxSeeds = 3
    MaxGets = 6
    KeyLens = {16, 30}
    MaxHeld = 1
    MaxLeaks = 1
    Cases = 3
    RandTests = 3
    MaxStreams = 3
    PolicyLists <- SomePolicyLists
    Ssrcs = {"a", "b"}
    Bits = 2
    IndexMax = 11
    MaxSent = 5
    Conf = TRUE
    WordBits = 2
    Shifts = {0, 1, 2, 3, 4, 5, 6, 7, 8, 9}
    Encoder = encoder
    Decoder = decoder
    MaxSessions = 2
    WoIndexes <- SomeIndexes
    FrameLen = 80
    HalfOverlap = 40
    FftLen = 512
    Circle = 2401
    Pitches = {15, 17, 40, 120, 1758}
    PeakBins = {16, 17, 33, 70}
    CoarseSteps <- EndsOfCoarse
    FineSteps <- EndsOfFine
    MaxHalves = 2
INVARIANTS
    InOrder
    KeysApart
    OctetsFresh
    KernelTrusted
    SessionMemory
    RtcpOnce
    CodecIsLive
    ModelsHaveHarmonics
    PartsMeet
    BinsInSpectrum
CHECK_DEADLOCK FALSE
