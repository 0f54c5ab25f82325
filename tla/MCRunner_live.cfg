SPECIFICATION LiveSpec
CONSTANTS
  c1 = c1
  c2 = c2
  c3 = c3
  r1 = r1
  None = None
  Runners = {r1}
  Calls = {c1, c2, c3}
  Abortable = {c3}
PROPERTIES
  CancelReturns
  EveryCallReturns
CHECK_DEADLOCK FALSE
