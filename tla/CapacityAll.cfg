SPECIFICATION FairSpec
CONSTANTS
  None = None
  x1 = x1
  x2 = x2
  x3 = x3
  x4 = x4
  b1 = b1
  b2 = b2
  b3 = b3
  Sims = {x1, x2, x3, x4}
  Boots = {b1, b2, b3}
  Target <- AllTarget
  Replaces <- AllReplaces
  MaxBooted = 3
  Limits = {1, 3}
INVARIANTS
  WithinLimit
  SlotsSound
PROPERTIES
  FirstComeFirstServed
  RequestsEnd
CHECK_DEADLOCK FALSE
