SPECIFICATION ConversationSpec
CONSTANTS
  q1 = q1
  q2 = q2
  q3 = q3
  q4 = q4
  Requests = {q1, q2, q3, q4}
  Kind <- MCKind
  ClientIds = {q2}
  TailTurns = 2
  Replies = {"stop", "stop with tools", "full", "too long", "error"}
  MaxId = 11
  MaxStops = 1
INVARIANTS
  LoopContract
  OnlyRacersAreUnheard
  ContextIsFolded
  SubtaskRunsOnce
CHECK_DEADLOCK FALSE
