CONSTANTS
  s1 = s1
  Main = Main
  NoOne = NoOne
  Slots <- OneSlot
  Requests <- EndsOnly
  MaxCalls = 2
SPECIFICATION LiveSpec
CHECK_DEADLOCK FALSE
PROPERTY
  TerminationEnds
