CONSTANTS
  p1 = p1
  p2 = p2
  m1 = m1
  m2 = m2
  w1 = w1
  ctor = ctor
  dep = dep
  host = host
  NoThread = NoThread
  NoLibrary = NoLibrary
  Processes <- TwoProcesses
  Threads <- TwoThreads
  Home <- HomeTwo
  Mains <- TwoThreads
  Libraries <- JustCtor
  Constructors <- JustCtor
  Needs <- NeedsNone
  Linked <- Host
SPECIFICATION Spec
INVARIANT RegistrationRecovered
