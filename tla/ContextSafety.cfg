CONSTANTS
  p1 = p1
  p2 = p2
  t1 = t1
  t2 = t2
  k1 = k1
  NoProcess = NoProcess
  NoThread = NoThread
  Processes <- TwoProcesses
  Threads <- TwoThreads
  Keys <- OneKey
  MaxDepth = 3
SPECIFICATION Spec
SYMMETRY Symmetry
INVARIANTS
  NeverWithdrawn
  InnermostAttached
  GoneLeavesNothing
