SPECIFICATION LruSpec
CONSTANTS
  Ids = {v1, v2, v3, v4}
  cap = 3
  Nodes = {n1, n2, n3, n4}
  NoNode = NoNode
INVARIANTS
  ListAndMapAgree
PROPERTY ImplementsRecency
