SPECIFICATION AlertSpec
CONSTANTS
  Metrics = {"errors"}
  MetricType <- MCMetricType
  Levels = {0, 1}
  RuleLists <- MCTwiceInARow
  Absent = Absent
INVARIANT ConsecutiveTriggers
CHECK_DEADLOCK FALSE
