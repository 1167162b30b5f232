SPECIFICATION MCFairSpec
CONSTANTS
  Platforms = {p1}
  Jobs = {j1}
  OwnerOf <- MCOnePlatform
  NoJob = NoJob
  MaxPushes = 1
  MaxTrouble = 1
  Chunks = 3
  MaxStalls = 3
  MaxAddresses = 2
  FetchTries = 1
  Workers = {w1, w2}
  Grants = {g1}
  FileOf <- MCTwoFiles
  Lists = {w1}
  NoGrant = NoGrant
  Units = 1
  MaxServed = 1
  MaxStreams = 1
  MaxReportAttempts = 2
  MaxStops = 1
PROPERTIES CancelTakesEffect FetchEnds ReportSettled
CHECK_DEADLOCK FALSE
