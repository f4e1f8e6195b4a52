SPECIFICATION Spec
CONSTANTS
  Second = 2
  Lifetime = 2
  CheckInterval = 2
  BeatInterval = 3
  Poll = 2
  Timeout = 3
  max_tries = 1
  Delay = 1
  MaxConns = 2
INVARIANTS
  LiveIsKept
  SilentIsFound
  CallsInTime
CHECK_DEADLOCK FALSE
