SPECIFICATION Spec
CONSTANTS
  small = small
  large = large
  NULL = NULL
  Confs <- MCConfs
  Locations = 2
  Pledges <- MCPledges
  DictLen <- MCDictLen
  SizeMax = 33554431
  Guess = 1048576
  CacheBytes = 100
  DefaultLog <- MCDefaultLog
  Workspace <- MCWorkspace
  CDictEstimate <- MCCDictEstimate
  CDictSize <- MCCDictSize
INVARIANTS WindowSpansDictionary BudgetHeld MadeForTheRequest
  PreparedForEveryRequest
CHECK_DEADLOCK FALSE
