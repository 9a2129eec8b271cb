SPECIFICATION FairSpec
CONSTANTS
  Buffers = {b1, b2, b3}
  NoBuf = none
  Descs = 2
  BufLen = 1000
  FrameLens = {64, 1518}
  MaxFrames = 3
  MaxStops = 1
INVARIANTS
  RxInv
  WholeInOrder
PROPERTIES
  FramesTaken
CHECK_DEADLOCK FALSE
