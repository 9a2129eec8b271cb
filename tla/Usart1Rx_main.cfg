SPECIFICATION Spec
CONSTANTS
  BufSize = 6
  MaxFrame = 3
  QueueDepth = 2
  BurstLens = {1, 3, 6}
  MaxBytes = 13
INVARIANTS
  FramesAreMessages
  RxInv
PROPERTIES
  ReturnsOnlyOnLaps
  StreamSpec
