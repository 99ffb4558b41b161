CONSTANTS
  SeqMax = 8
  RocMax = 4
  WindowSize = 4
  KeyLimit = 3
  SoftLimit = 2
  CountMax = 64
  FirstSeqs = {1}
  MaxPackets = 5
SPECIFICATION Spec
PROPERTIES ExpiredKeyIsUnusable
