SPECIFICATION MCSpec
CONSTANTS
  None = None
  j1 = j1
  j2 = j2
  k1 = k1
  w1 = w1
  v1 = v1
  v2 = v2
  s1 = s1
  s2 = s2
  t = t
  Jobs = {j1}
  Workers = {v1, v2}
  Socks = {t}
  Keys = {k1}
  ModelFetch = {}
  CanRun <- MCEveryPair
  TaskKey <- MCOneKind
  MaxJobAttempts = 2
  MaxFailuresPerWorker = 2
  UnsuitableThreshold = 1
  OrphanBeats = 2
  MaxReruns = 1
SYMMETRY Alike
CONSTRAINT Bounds
INVARIANTS ExcludedStaysOut AttemptBudget Ownership
INVARIANT InOtherScenes
PROPERTY RecallsJustified
CHECK_DEADLOCK FALSE
