SPECIFICATION FairSpec
CONSTANTS
  Locked = {tcpip}
  Link = link
  Dhcp = dhcp
  NoPkt = none
  Descs = 4
  Sizes = {3, 4, 5}
  MaxSends = 3
  MaxAfter = 1
  MaxFlips = 2
INVARIANTS
  TxInv
  ReturnedWasSent
PROPERTIES
  SendsEnd
CHECK_DEADLOCK FALSE
