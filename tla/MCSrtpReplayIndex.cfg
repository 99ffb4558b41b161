CONSTANTS
  SeqMax = 8
  RocMax = 4
  WindowSize = 4
  KeyLimit = 31
  SoftLimit = 2
  CountMax = 64
  FirstSeqs = {6}
  MaxPackets = 4
SPECIFICATION Spec
INVARIANTS IndexIsHighestReceived
