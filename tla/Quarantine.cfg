SPECIFICATION FairSpec
CONSTANTS
  Sessions = {s1, s2}
  Works = {w1, w2, w3}
  NoSession = NoSession
  NoRelease = NoRelease
  MaxAssign = 3
INVARIANTS
  OwnershipSound
PROPERTIES
  BoundClean
  OwnersWorkKept
  DeviceComesBack
CHECK_DEADLOCK FALSE
