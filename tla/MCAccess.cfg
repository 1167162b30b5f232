SPECIFICATION MCSpec
CONSTANTS
  None = None
  Users = {a, b}
  First = a
  Tokens = {t1}
  Requests = {r1, r2}
  MaxTokens = 1
  MaxRequests = 3
  Window = 6
  StartN = 1
  Retention = 8
  LoginStall = 1
  MaxLoginTime = 9
  MaxAttempts = 4
  Sent = {m1, m2}
  Invites = {i1}
  Skew = 2
  Ttl = 5
  MaxStall = 1
  MaxTime = 7
SYMMETRY Symmetry
CONSTRAINT LastAlone
INVARIANTS AccountsSound LockoutSound SignedOnce
CHECK_DEADLOCK FALSE
