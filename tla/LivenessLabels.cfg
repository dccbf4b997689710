SPECIFICATION Spec
CONSTANTS
  Sessions = {m, l}
  Main = m
  Tokens = {a, b}
  NoToken = NoToken
  NoOp = NoOp
  Lease = 1
  Grace = 1
  FirstGrace = 1
  Called = {l}
  Ops = {"adopt", "claim"}
  FailOps = {}
  MaxQueue = 1
  MaxRestarts = 0
SYMMETRY TokenSymmetry
PROPERTIES
  OwnersKept
CHECK_DEADLOCK FALSE
