SPECIFICATION Spec
CONSTANTS
  d1 = d1
  d2 = d2
  b1 = b1
  b2 = b2
  b3 = b3
  p1 = p1
  r = r
  None = None
  Daemons = {d1, d2}
  Boots = {b1, b2, b3}
  Reports = {p1}
  DaemonOf <- TwoDaemons
  Externals = {r}
  Replaces <- Second
  Reserved = {b1, b2, b3}
  MaxBooted = 1
  MayCrash = {d1}
  Faults = {"adb", "ps", "update", "remove", "publish"}
  Faulty = {d2}
  MaxFaults = 1
SYMMETRY Alike
INVARIANTS
  SlotsShared
PROPERTIES
  AdmitsWithinLimit
CHECK_DEADLOCK FALSE
