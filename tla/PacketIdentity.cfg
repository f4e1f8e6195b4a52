SPECIFICATION Spec
CONSTANTS
  Threads = {t1, t2}
  Cmds = {0, 1, 2}
  Half = 4
  MaxLaps = 2
INVARIANTS
  ZeroNeedsRace
  RecentIdsDiffer
CHECK_DEADLOCK FALSE
