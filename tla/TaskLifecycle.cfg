SPECIFICATION FairSpec
CONSTANTS
  Tasks = {t1}
  Instances = {d1, d2}
  Keys = {k1, k2}
  NoInstance = NoInstance
  NoWaiter = NoWaiter
  Peers = FALSE
  MaxCalls = 2
  MaxProgress = 1
  MaxFailures = 1
  MaxRestarts = 2
INVARIANTS
  TasksSound
  OwnerSettles
  QuestionsAnswerable
PROPERTIES
  TerminalStays
  ResultsSettle
CHECK_DEADLOCK FALSE
