CONSTANTS
  SeqMax = 8
  RocMax = 4
  WindowSize = 4
  KeyLimit = 31
  SoftLimit = 2
  CountMax = 64
  FirstSeqs = {0, 6}
  MaxPackets = 7
SPECIFICATION Spec
INVARIANTS AcceptedUnderTrueIndex FreshPacketAccepted
