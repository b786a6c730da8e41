CONSTANTS
  c1 = c1
  Callers <- OneCaller
  MaxWork = 1
SPECIFICATION LiveSpec
INVARIANTS
  ClosedMeansServed
  SuspendedHoldsLoop
  NoStrayReference
  LastRequestWins
  DeadlineArmed
PROPERTIES
  BeforeExitOnlyWhenDone
  SuspendedRunBlocks
  ExitIsFinal
  ExitIsHeardLast
  ImplementsLifecycle
  TerminateTakesEffect
  ResumeTakesEffect
  WakeupEnds
