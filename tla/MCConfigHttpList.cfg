SPECIFICATION Spec
CONSTANTS
  Blocks = {"http", "server", "loc"}
  Http = "http"
  Ifs = {}
  Parent <- MCParent
  Files <- ListFiles
  Digest <- MCDigest
  NoLiteral = 0
  BadLiteral = 1
  Threshold = 2
  Build = 10506
  Runtimes = {10506}
INVARIANTS
  EveryListFound
