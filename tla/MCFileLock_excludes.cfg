SPECIFICATION UndisturbedSpec
CONSTANTS
  Processes = {a, b, c}
  Nobody = none
  Crews = {{a, b}, {a, b, c}}
  Mortal = {a}
  MaxCrashes = 2
  Stale = 3
  Lag = 1
  Beat = "now"
INVARIANT LockContract
PROPERTY AbandonedIsReplaced
CHECK_DEADLOCK FALSE
