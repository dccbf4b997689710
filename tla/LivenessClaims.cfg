SPECIFICATION FairSpec
CONSTANTS
  Sessions = {m}
  Main = m
  Tokens = {a, b}
  NoToken = NoToken
  NoOp = NoOp
  Lease = 1
  Grace = 1
  FirstGrace = 1
  Called = {m}
  Ops = {"adopt", "claim", "release"}
  FailOps = {"adopt", "claim"}
  MaxQueue = 2
  MaxRestarts = 1
INVARIANTS
  RowsSound
PROPERTIES
  OwnersKept
  NoSilentReturn
  DeadOwnerReleased
CHECK_DEADLOCK FALSE
