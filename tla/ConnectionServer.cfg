SPECIFICATION FairSpec
CONSTANTS
  Callers = {c1, c2}
  Side = "server"
  MaxTries = 2
  MaxPeerPackets = 1
PROPERTIES
  EveryCallReturns
  LoopsFollowObject
CHECK_DEADLOCK FALSE
