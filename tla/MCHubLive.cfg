SPECIFICATION FairSpec
CONSTANTS
  None = None
  j1 = j1
  j2 = j2
  k1 = k1
  w1 = w1
  v1 = v1
  v2 = v2
  s1 = s1
  s2 = s2
  t = t
  Jobs = {j1}
  Workers = {w1}
  Socks = {s1}
  Keys = {k1}
  ModelFetch = {}
  CanRun <- MCEveryPair
  TaskKey <- MCOneKind
  MaxJobAttempts = 4
  MaxFailuresPerWorker = 3
  UnsuitableThreshold = 2
  OrphanBeats = 2
  MaxReruns = 1
INVARIANTS TypeOK LedgerAgrees
PROPERTIES ImplementsLifecycle StaleJobReclaimed HopelessWrappedUp
CHECK_DEADLOCK FALSE
