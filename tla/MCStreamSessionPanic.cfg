SPECIFICATION Spec
CONSTANTS
  d1 = d1
  d2 = d2
  d3 = d3
  r1 = r1
  r2 = r2
  None = None
  Dispatches = {d1}
  Runs = {r1}
  RunOf <- MCRunOf
  Timed = {d1}
  Limits = {1}
  SendCap = 1
  Backlog = 1
  MaxSessions = 2
INVARIANT ProcessSurvives
CHECK_DEADLOCK FALSE
