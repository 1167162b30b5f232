SPECIFICATION MCSpec
CONSTANTS
  Clients = {r1, r2}
  Staged = {s1}
  Saved = {u1, u2, u3}
  Jobs = {j1}
  Contents = {a, b}
  SizeOf <- MCSizeOf
  Shared <- MCShared
  Quota = 3
  MaxRequests = 2
  None = None
  a = a
  b = b
  g = g
  Workers = {w1, w2}
  Names = {n1, n2}
  Garbage = g
  MaxStarts = 3
  MaxMoves = 2
  s1 = s1
SYMMETRY Symmetry
CONSTRAINT TwoAreEnough
INVARIANTS ResultsKept FilesSound
PROPERTY MoveLosesNothing
CHECK_DEADLOCK FALSE
