SPECIFICATION FairSpec
CONSTANTS
  Requests = {m1, m2, i1}
  Inputs = {i1}
  Naming = {m1}
  Bounded = {m1, i1}
  Stuck = {m2}
  Keys = {k1, k2}
  BoundKeys = {k2}
  MaxReroutes = 1
  MaxMoves = 2
INVARIANTS
  QueuesSound
PROPERTIES
  ClientsSound
  BoundedRequestsEnd
  UnusedHelperDropped
CHECK_DEADLOCK FALSE
