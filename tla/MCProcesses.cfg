SPECIFICATION ProcessesSpec
CONSTANTS
  Tasks = {t1, t2, t3}
  Caps = {0, 2}
  Threshold = 2
  NoTask = NoTask
  Jobs = {j1, j2, j3, j4}
  PoolSizes = {1, 2}
  NoJob = NoJob
  Metrics = {"errors", "calls"}
  MetricType <- MCMetricType
  Levels = {0, 1}
  RuleLists <- MCRuleLists
  Absent = Absent
  c1 = c1
  c2 = c2
  Callers = {c1}
  MaxDials = 2
  MaxHandlers = 2
  LocalBuffer = TRUE
INVARIANTS CountersMatch NoTaskStranded OnePlace OvershootByOverlap StopIsThorough StartedIsServed
PROPERTIES EventuallyRun JobDoneOrJammed StandingBreachNotified StopTakesEffect
CHECK_DEADLOCK FALSE
