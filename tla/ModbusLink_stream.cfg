SPECIFICATION FairSpec
CONSTANTS
  c1 = c1
  c2 = c2
  c3 = c3
  Clients = {stm32}
  Conns = {c1, c2, c3}
  NoConn = NoConn
  Samples <- TwoSamples
  IdSpace = 65536
  MaxFaults = 0
  Segmented = TRUE
INVARIANTS
  StreamInv
  ResponsesAccepted
PROPERTIES
  KeepsReporting
