SPECIFICATION ServicesSpec
CONSTANTS
  Calls = {a, b, c}
  None = none
  Permissions = {p1, p2, p3, p4}
  Questions = {q1, q2}
  Replies = {x, y}
  Patterns = {"edit", "bash"}
  SessionOf <- MCSessionOf
  Wants <- MCWants
  AlwaysOf <- MCAlways
  Rules <- MCRules
  Mortal = {p2, q1, x}
  NoRequest = noRequest
  p1 = p1
  p2 = p2
  p3 = p3
  p4 = p4
  q1 = q1
  q2 = q2
  x = x
  y = y
  Starts = {j1, j2, j3}
  Cancels = {c1, c2}
  Waits = {w1}
  NoJob = noJob
  c2 = c2
  w1 = w1
  Prompts = {t1, t2, t3, n1}
  NewSessions = {n1}
  Lookups = {l1, l2, l3}
  NoLookup = noLookup
  Flows = {f1, f2, f3}
  Names = {"m", "n"}
  NameOf <- MCNameOf
  PortOf <- MCPortOf
  NoFlow = noFlow
  NoPort = noPort
  f1 = f1
  f2 = f2
  f3 = f3
INVARIANTS
  InstanceContract
  RequestsContract
  JobContract
  PromptQueueContract
  LspContract
  AuthContract
PROPERTIES
  OnlyDisposedLeave
  SilentWhenClosed
  ServicesAnswer
CHECK_DEADLOCK FALSE
