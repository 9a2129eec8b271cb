SPECIFICATION FairSpec
CONSTANTS
  Routers = {router}
  EndDevices = {}
  Heart = Heart
  UplinkLen = 2
  HeartLen = 1
  TxMax = 2
  MaxMsgs = 2
  MaxInbox = 2
INVARIANTS SerialInv
PROPERTIES UartInOrder RoundsGoOn
