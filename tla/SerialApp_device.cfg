SPECIFICATION FairSpec
CONSTANTS
  Routers = {}
  EndDevices = {device}
  Heart = Heart
  UplinkLen = 2
  HeartLen = 1
  TxMax = 2
  MaxMsgs = 2
  MaxInbox = 2
PROPERTIES EndDevicesRead
