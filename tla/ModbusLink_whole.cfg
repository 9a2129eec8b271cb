SPECIFICATION FairSpec
CONSTANTS
  c1 = c1
  c2 = c2
  c3 = c3
  Clients = {stm32}
  Conns = {c1, c2, c3}
  NoConn = NoConn
  Samples <- ThreeSamples
  IdSpace = 2
  MaxFaults = 2
  Segmented = FALSE
INVARIANTS
  AckedWasInstalled
  UniformSnapshot
  ReplyIdMatches
  LossBounded
  IInv
PROPERTIES
  OpenInstallsCurrent
  WritesAreWhole
  StoreSpec
  KeepsReporting
