SPECIFICATION FairSpec
CONSTANTS
  Streams = {s1}
  Actions = acts
  Takes = {e1, e2}
  NoTake = none
  Capacity = 1
  MaxRows = 2
INVARIANTS
  TapeAligned
  TapeGapless
PROPERTIES
  ClosedStays
  ImplementsTape
  StopReturns
CHECK_DEADLOCK FALSE
