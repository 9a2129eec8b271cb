SPECIFICATION Spec
CONSTANTS
  Sockets = 4
  Records = {r1, r2, r3}
  NoRecord = NoRecord
  MaxConns = 1
  MaxOpens = 1
INVARIANTS AcceptsWhileItWaits
CHECK_DEADLOCK FALSE
