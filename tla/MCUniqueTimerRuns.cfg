SPECIFICATION UniqueSpec
CONSTANTS
  Procs = {p1, p2}
  MaxRuns = 2
  LimitTTL = 2
INVARIANT RunsAlone
CHECK_DEADLOCK FALSE
