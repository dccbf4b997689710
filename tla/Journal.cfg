SPECIFICATION FairSpec
CONSTANTS
  N = 4
  Sessions = {s1, s2}
  Overlap = {2}
  Faults = {"append", "compact"}
  MaxFaults = 2
INVARIANTS
  JournalSound
PROPERTIES
  NeverRevived
  EndedWasWanted
  EndedLands
CHECK_DEADLOCK FALSE
