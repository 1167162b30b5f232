SPECIFICATION FairSpec
CONSTANTS
  Forbidden = Forbidden
  None = None
  BackendsOf <- MCBackendsOf
  NumJobs = 3
  Workers = {1}
  Reliable = {1}
  WorkerOf <- MCWorkerOf
  NeedsOf <- MCBlockedNeedsOf
  Manifest <- MCManifest
  Predict <- MCPredict
  JobsPerIdleWorker = 1
  MaxJobsPerTick = 4
  StarveBonus = 100000
  Warn = 10000
  Step = 150
  MaxElapsed = 2
  Matrices <- MCNone
  FitLaw <- MCNone
PROPERTIES JobServed
CHECK_DEADLOCK FALSE
