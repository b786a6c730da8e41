CONSTANTS
  p1 = p1
  p2 = p2
  m1 = m1
  m2 = m2
  w1 = w1
  ctor = ctor
  dep = dep
  host = host
  NoThread = NoThread
  NoLibrary = NoLibrary
  Processes <- TwoProcesses
  Threads <- ThreeThreads
  Home <- HomeThree
  Mains <- TwoThreads
  Libraries <- CtorAndDep
  Constructors <- CtorAndDep
  Needs <- NeedsCtor
  Linked <- Host
SPECIFICATION LiveSpec
INVARIANTS
  TypeOK
  HandlesBalanced
  NeverUnmapped
  LoadedOnce
  NothingLeftStaged
PROPERTIES
  LoadsReturn
  SealHolds
  ImplementsStore
