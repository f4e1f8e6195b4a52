SPECIFICATION Spec
CONSTANTS
  Objs = {x, y}
  Data = {d1, d2}
  Unspecified = Unspecified
  Null = Null
  ValueTypes <- MCValueTypes
  ErrorTypes <- MCErrorTypes
INVARIANTS
  FlagMatchesMember
PROPERTY ImplementsResult
CHECK_DEADLOCK FALSE
