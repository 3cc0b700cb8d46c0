SPECIFICATION Spec
CONSTANTS
  c1 = c1
  c2 = c2
  Callers = {c1, c2}
  MaxDials = 2
  MaxHandlers = 1
  LocalBuffer = TRUE
INVARIANT StopStops
CHECK_DEADLOCK FALSE
