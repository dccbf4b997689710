SPECIFICATION Spec
CONSTANTS
  d1 = d1
  d2 = d2
  s1 = s1
  s2 = s2
  s3 = s3
  None = None
  Daemons = {d1, d2}
  Calls = {s1, s2, s3}
  DaemonOf <- TwoOne
  Mirrored = {}
  Writable = {d1, d2}
  MayFail = {}
  Faulty = {}
  MaxRetries = 1
  AcquireAttempts = 3
  Stamps = {0, 1, 2, 3, 4, 5}
INVARIANTS
  Exclusive
CHECK_DEADLOCK FALSE
