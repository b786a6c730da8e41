CONSTANTS
  s1 = s1
  s2 = s2
  Main = Main
  NoOne = NoOne
  Slots <- TwoSlots
  Requests <- AllRequests
  MaxCalls = 2
SPECIFICATION CommandSpec
CHECK_DEADLOCK FALSE
INVARIANTS
  TypeOK
  LockReady
  PostsReachTheLiving
  OwnedOnce
  Obedient
  PlatformOutlives
PROPERTIES
  KeepsPromise
  TerminatedReturns
