SPECIFICATION FairSpec
CONSTANTS
  add = add
  sub = sub
  c1 = c1
  c2 = c2
  h1 = h1
  h2 = h2
  Calls = {c1, c2}
  Names = {add, sub}
  Handlers = {h1, h2}
  Serves <- MCServes
  hash <- MCHash
  seq <- MCSeq
  ChannelSize = 1
  Codes = {0, 7}
  parses <- MCParses
  Null = Null
INVARIANTS
  RunOnce
  ReturnsWhatHandlerDid
  LoopsEndOnlyByStop
PROPERTIES
  StopEndsLoops
  QueuedIsTaken
CHECK_DEADLOCK FALSE
