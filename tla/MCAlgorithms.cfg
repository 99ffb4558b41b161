SPECIFICATION PartSpec
INVARIANTS
    CipherCorrect
    ResultOfOwnInput
    FourierTransform
    FrameCarriesModel
CHECK_DEADLOCK FALSE
