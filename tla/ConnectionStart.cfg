SPECIFICATION Spec
CONSTANTS
  Callers = {c1}
  Side = "client"
  MaxTries = 1
  MaxPeerPackets = 0
INVARIANT StartFindsOwner
CHECK_DEADLOCK FALSE
