SPECIFICATION MCSpec
CONSTANTS
  None = None
  Workers = {a1, a2}
  Handlers = {h1, h2, h3}
  MaxJobAttempts = 2
  NodeIds = {1, 2, 3}
  MaxBatch = 3
  MaxSplit = 2
  FamilyHandlers = {a1, a2}
  Workflows <- MCWorkflows
  Law <- MCLaw
  Panels = {p1}
  Relays = {a1, a2}
  Split = 2
  MaxBeats = 1
  MaxRequeues = 1
  MaxConnects = 1
  Learners = {a1, a2}
  Runners <- MCRunners
  Signatures <- MCSignatures
  PriorOf <- MCPriorOf
  Pasts <- MCPasts
  LaterRuns <- MCLaterRuns
  BackfillLimit = 2
  MaxCompletions = 4
  MaxMishaps = 1
  FetchWorkers = {b1, b2}
  Capable = {b1, b2}
  Requests = {a1, a2}
  MaxFaults = 1
  Cut = Cut
  NoLink = NoLink
  NoBatch = NoBatch
  Good = Good
  Other = Other
  Conflict = Conflict
SYMMETRY Symmetric
CONSTRAINT Bounds
INVARIANTS QueueSound PaidHadIt GateSound
INVARIANTS SplitSound FamilyAgrees CancelledPayIsDue PanelsInStep StatsSound FetchJobsSound
PROPERTY EndsAreFinal
CHECK_DEADLOCK FALSE
