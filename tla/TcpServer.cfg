SPECIFICATION FairSpec
CONSTANTS
  Conns = {k1, k2}
  Devices = {d1, d2}
  Tasks = {t1}
  MaxTries = 1
  Null = Null
INVARIANTS
  RegistryConsistent
  RegisteredHasReader
  SendsToItsDevice
PROPERTIES
  EvictionHasCause
  EveryTaskReturns
  StopEndsConnections
CHECK_DEADLOCK FALSE
