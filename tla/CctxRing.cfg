SPECIFICATION FairSpec
CONSTANTS
  Requests = {r1, r2}
  Contexts = {c1, c2, c3, c4}
  Profiles = {small, large, odd}
  Cacheable = {small, large}
  NumSlots = 2
  NULL = NULL
  INVALID = INVALID
INVARIANTS
  NoUseAfterFree
  OwnParameters
  FootprintVetted
  NoStrandedContext
PROPERTY LendingRefined
PROPERTY LoanReturned
CHECK_DEADLOCK FALSE
