SPECIFICATION Spec
CONSTANTS
  t1 = t1
  t2 = t2
  t3 = t3
  Tasks = {t1, t2, t3}
  Size <- MCSize
  Rejected = {t3}
  w1 = w1
  w2 = w2
  Workers = {w1}
  Capacity = 1
  RetryBatch = 2
  Limits = {1, 2}
  Leftover <- MCLeftover
  MaxNow = 1
  DiskFaults = TRUE
  Nobody = Nobody
INVARIANTS NoSilentLoss SingleCustody TwiceOnlyIfExcused WithinBudget BytesMatchIndex IndexCoversDisk
PROPERTIES SpoolDurable SpoolFIFO
CHECK_DEADLOCK FALSE
