SPECIFICATION PartSpec
CONSTANTS
    Cap = 2
    MaxFrames = 4
    Services = {s1, s2}
    Callers = {t1, t2}
    MaxCalls = 2
    MaxCleanUps = 2
    MaxWorkers = 2
INVARIANTS
    NothingFailsEarly
    MicrophoneOff
PROPERTIES
    PlaysInOrder
    EndsAreNoticed
    GetterEnds
CHECK_DEADLOCK FALSE
