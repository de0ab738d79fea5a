SPECIFICATION Spec
CONSTANTS
  Requests <- MCRequests
  Confs <- MCConfs
  Responses <- MCResponses
  BsearchThreshold = 1
  MaxEntries = 1
INVARIANTS
  OnlyWantedCodings
  CacheTransparent
