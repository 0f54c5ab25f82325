SPECIFICATION SessionSpec
CONSTANTS
  c1 = c1
  c2 = c2
  c3 = c3
  r1 = r1
  r2 = r2
  r3 = r3
  None = None
  Runners = {r1, r2, r3}
  Calls = {c1, c2, c3}
  Abortable = {c3}
SYMMETRY Symmetry
INVARIANTS
  TypeOK
  CurrentIsAlive
  StraysAreStopped
  OpenHasSettler
  SettledRunIsOver
  CancelIsSynchronous
  SessionContract
  BusyIsSeen
PROPERTIES
  ImplementsSharedRun
CHECK_DEADLOCK FALSE
