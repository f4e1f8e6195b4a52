SPECIFICATION Spec
CONSTANTS
  Pushes = {p1, p2}
  Cmds = {c1, c2}
  ChannelSize = 1
  Cap = 1
  MaxTries = 2
  MaxLives = 2
  Null = Null
SYMMETRY PushSymmetry
INVARIANTS
  GivenOnce
  OkMeansReceived
  FailsOnFirstUnwaited
CHECK_DEADLOCK FALSE
