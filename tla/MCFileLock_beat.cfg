SPECIFICATION UndisturbedSpec
CONSTANTS
  Processes = {a, b}
  Nobody = none
  Crews = {{a, b}}
  Mortal = {}
  MaxCrashes = 2
  Stale = 3
  Lag = 1
  Beat = "acquired"
INVARIANT MutualExclusion
CHECK_DEADLOCK FALSE
