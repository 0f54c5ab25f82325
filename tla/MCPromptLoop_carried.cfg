SPECIFICATION InTurnSpec
CONSTANTS
  q1 = q1
  q2 = q2
  q3 = q3
  q4 = q4
  Requests = {q1, q2, q3, q4}
  Kind <- MCKind
  ClientIds = {q2}
  TailTurns = 2
  Replies = {"stop", "full"}
  MaxId = 11
  MaxStops = 0
INVARIANTS
  SummaryIsCarried
CHECK_DEADLOCK FALSE
