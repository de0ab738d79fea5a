SPECIFICATION FairSpec
CONSTANTS
  MaxTokens = 2
  MaxLinks = 4
  MaxBufs = 2
  BufSize = 2
  Limits <- MCLimits
  PREFIX = PREFIX
  EPILOGUE = EPILOGUE
  NULL = NULL
INVARIANTS
  NoZeroSizeBuf
  BuffersUnshared
  StreamIntact
PROPERTIES
  StreamRefined
  ResponseCompletes
  FlushReachesClient
CHECK_DEADLOCK FALSE
