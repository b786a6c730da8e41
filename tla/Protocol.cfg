SPECIFICATION Spec
CONSTANTS
  dir = dir
  sub = sub
  leaf = leaf
  link = link
  away = away
  other = other
  Paths <- MCPaths
  Parent <- MCParent
  LinkPaths = {link}
  NoPath = NoPath
  UInts = 4
  MaxSize = 5
  MaxFaults = 1
  MaxDepth = 3
INVARIANTS
  TypeOK
  Balanced
  ReadIsWhole
  ListReachesAll
PROPERTIES
  CallsReturn
