SPECIFICATION FairSpec
CONSTANTS
  Sockets = 3
  Records = {r1, r2}
  NoRecord = NoRecord
  MaxConns = 3
  MaxOpens = 2
INVARIANTS EchoInv
PROPERTIES ClosedByOwner DescriptorsComeBack
CHECK_DEADLOCK FALSE
