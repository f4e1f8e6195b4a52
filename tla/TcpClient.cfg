SPECIFICATION FairSpec
CONSTANTS
  Conns = {k1, k2}
  Tasks = {t1}
  Waiters = {w1}
  Null = Null
INVARIANTS
  ConnIsLive
PROPERTIES
  ConnLostByItself
  KeepsTrying
  EveryTaskReturns
  StopEndsWhatItFinds
CHECK_DEADLOCK FALSE
