SPECIFICATION FairSpec
CONSTANTS
  t1 = t1
  t2 = t2
  t3 = t3
  Tasks = {t1, t2}
  Size <- MCSize
  Rejected = {}
  w1 = w1
  w2 = w2
  Workers = {w1, w2}
  Capacity = 1
  RetryBatch = 2
  Limits = {2}
  Leftover <- MCLeftover
  MaxNow = 0
  DiskFaults = FALSE
  Nobody = Nobody
INVARIANTS SingleCustody
PROPERTIES EventuallyResent
CHECK_DEADLOCK FALSE
