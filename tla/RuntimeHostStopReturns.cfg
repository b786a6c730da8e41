CONSTANTS
  c1 = c1
  Callers <- OneCaller
  MaxWork = 1
SPECIFICATION Spec
PROPERTY
  HostStopReturns
