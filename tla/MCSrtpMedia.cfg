\* The key limit is one less than the number of indices, as in the library.
CONSTANTS
  SeqMax = 8
  RocMax = 2
  WindowSize = 4
  KeyLimit = 15
  SoftLimit = 4
  CountMax = 32
  MaxInFlight = 3
SPECIFICATION FairSpec
INVARIANTS TypeOK NoPacketRefused Lockstep WrongContextIsSilent
PROPERTIES NoKeystreamReuse FramesArrive
