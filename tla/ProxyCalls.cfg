SPECIFICATION Spec
CONSTANTS
  Sessions = {s1, s2}
  Calls = {c1, c2}
  Kinds = {"use", "acquire", "select"}
  None = None
  Repeats = FALSE
  MaxReleases = 2
INVARIANTS
  LedgerSound
PROPERTIES
  HeartbeatsSound
  NoResurrection
SYMMETRY RenamingSymmetry
CHECK_DEADLOCK FALSE
