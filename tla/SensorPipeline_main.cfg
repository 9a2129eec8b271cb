SPECIFICATION FairSpec
CONSTANTS
  WindowSize = 3
  Period = 5
  Warmup = 12
  CalSamples = 2
  CalDelay = 1
  ThPeriod = 10
  ReadTimes = {1, 2}
  FailTimes = {0, 4}
  ThTimes = {0, 1}
  RunTimes = {1, 4, 12}
  MaxFed = 9
  MaxFaults = 1
INVARIANTS
  WindowsConsecutive
  WaitingIsFirst
  ResultsInOrder
  CatchesUp
  PipelineInv
PROPERTIES
  ResultsForward
  StreamSpec
  KeepsSampling
