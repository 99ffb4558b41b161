CONSTANTS
  SeqMax = 8
  RocMax = 4
  WindowSize = 4
  KeyLimit = 31
  SoftLimit = 2
  CountMax = 64
  FirstSeqs = {2}
  MaxPackets = 3
SPECIFICATION Spec
INVARIANTS NoPacketAcceptedTwice
