SPECIFICATION Spec
CONSTANTS
  Blocks <- MCBlocks
  Http = "http"
  Ifs = {"if"}
  Parent <- MCParent
  Files <- MCFiles
  Digest <- MCDigest
  NoLiteral = 0
  BadLiteral = 1
  Threshold = 2
  Build = 10506
  Runtimes = {10300, 10405, 10506}
INVARIANTS
  StrictCoversAll
  HashIsVouchedFor
  MergedIsNearest
  ServerListFound
  EnabledIsServed
  DictOfOwnProfile
  DictsFreedOnce
