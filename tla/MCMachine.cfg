SPECIFICATION MCSpec
CONSTANTS
  Platforms = {p1, p2}
  Attempts = 2
  Lease = 2
  Window = 2
  FailureLimit = 2
  MaxTicks = 2
  MaxFaults = 2
  Urls = {u1, u2, u3}
  HostNames = {u3}
  MaxChecks = 3
  MaxHellos = 2
  MaxFlips = 1
  MaxComfyJobs = 3
  MaxCommands = 3
  MaxComfyFaults = 3
  Latest = 2
  MaxStarts = 3
  MaxStops = 2
  MaxJobs = 2
  GiveUp = 2
  MaxEntries = 2
  MaxEntryFaults = 3
SYMMETRY Alike
CONSTRAINT LastAlone
INVARIANTS MappingSound AddressSound UpdateSound ProcessSound RegistrationsSound
CHECK_DEADLOCK FALSE
