SPECIFICATION MCSpec
CONSTANTS
  Platforms = {p1}
  Jobs = {j1, j2}
  OwnerOf <- MCOnePlatform
  NoJob = NoJob
  MaxPushes = 2
  MaxTrouble = 1
  Chunks = 3
  MaxStalls = 3
  MaxAddresses = 2
  FetchTries = 2
  Workers = {w1, w2}
  Grants = {g1}
  FileOf <- MCTwoFiles
  Lists = {w1}
  NoGrant = NoGrant
  Units = 1
  MaxServed = 2
  MaxStreams = 1
  MaxReportAttempts = 2
  MaxStops = 1
SYMMETRY SymmetricJobs
INVARIANTS NoPromptLeftBehind LoopSound FilesAreWhole SharingSound
CHECK_DEADLOCK FALSE
