SPECIFICATION FairSpec
CONSTANTS
  Forbidden = Forbidden
  None = None
  BackendsOf <- MCBackendsOf
  NumJobs = 4
  Workers = {1, 2}
  Reliable = {2}
  WorkerOf <- MCWorkerOf
  NeedsOf <- MCNeedsOf
  Manifest <- MCManifest
  Predict <- MCPredict
  JobsPerIdleWorker = 2
  MaxJobsPerTick = 4
  StarveBonus = 100000
  Warn = 10000
  Step = 150
  MaxElapsed = 2
  Matrices <- MCMatrices
  FitLaw <- MCFitLaw
INVARIANT RoundSound
PROPERTY JobServed
CHECK_DEADLOCK FALSE
