SPECIFICATION FairSpec
CONSTANTS
  Inodes <- MCInodes
  Root = "root"
  Kind <- MCKind
  Owner <- MCOwner
  Target <- MCTarget
  Names <- MCNames
  Dot = "."
  Long = "long"
  Euid = 1
  Paths <- MCPaths
  Trees <- MCTrees
  MaxDictSize = 2
  MaxLength = 3
  NoInode = "none"
INVARIANTS
  Unsteered
  BufferWhole
  DescriptorsClosed
PROPERTIES
  LoadEnds
