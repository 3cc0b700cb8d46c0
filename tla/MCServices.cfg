SPECIFICATION ServicesSpec
CONSTANTS
  Nodes = {n1, n2}
  Fields = {"up", "down"}
  Chunk = 700
  MaxTransfers = 2
  MaxRepeats = 1
  MaxHour = 1
  HourKeyTTL = 1
  NoRow = NoRow
  Procs = {p1, p2}
  MaxRuns = 3
  LimitTTL = 2
  TimerIds = {1, 2}
  Spaces = {1, 4}
  Pause = 3
  MaxLag = 1
  NoTick = NoTick
  Clients = {k1, k2}
  LockSeconds = 2
  Tolerance = 1
  NoClient = NoClient
  MaxStarts = 2
  StaleCleanup = 2
  MaxStrays = 1
  Callers = {n1, n2}
  MaxRecords = 2
  MaxRegistries = 2
  MaxSampleSize = 1
  InUse = {"counter", "histogram"}
  NameOf <- MCNameOf
  Readers = {r1, r2}
  CacheTTL = 2
  MaxRead = 2
SYMMETRY MCSymmetry
INVARIANTS WinnersAlone NeverTooLate WithinLeaseAlone StoppedStaysGone RecordsAccounted SilencedWithinTTL
PROPERTIES ImplementsLedger
CHECK_DEADLOCK FALSE
