SPECIFICATION ProcessorFairSpec
CONSTANTS
  c1 = c1
  c2 = c2
  CallIDs = {c1, c2}
  Offered <- TwoThenOne
  MaxAttempts = 2
  NoPart = none
INVARIANTS
  ClosedIsComplete
  FinishedIsRecorded
  RejectionStops
PROPERTIES
  EndIsFinal
  InterruptCloses
CHECK_DEADLOCK FALSE
