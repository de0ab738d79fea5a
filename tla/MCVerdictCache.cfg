SPECIFICATION CacheSpec
CONSTANTS
  Paths = {a}
  Inodes = {i, j}
  Stamps = {s, t}
  Lifetimes = {0, 2}
  NumSlots = 2
  MaxTime = 3
  NULL = NULL
SYMMETRY Symmetry
INVARIANTS
  OneVerdictPerFile
  AllVerdictsScanned
  StalenessBounded
CHECK_DEADLOCK FALSE
