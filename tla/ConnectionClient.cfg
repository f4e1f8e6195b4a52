SPECIFICATION Spec
CONSTANTS
  Callers = {c1, c2}
  Side = "client"
  MaxTries = 2
  MaxPeerPackets = 2
SYMMETRY CallerSymmetry
INVARIANTS
  WaiterCanBeWoken
  StrayUseOnlyAtStart
  ReportBound
  WaiterHasReader
PROPERTY ImplementsPromise
CHECK_DEADLOCK FALSE
