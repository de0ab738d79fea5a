SPECIFICATION FairSpec
CONSTANTS
  Files <- MCFiles
  Alignments = {16, 128}
  ShortCounts = {3, 20, 40}
  MaxSkips = 2
  MaxWindow = 8388608
  DioProbe = 32
  DioProbeMax = 64
  HdrBuf = 58
  NoFile = NoFile
INVARIANTS VerdictProven HeaderInBlock
  DirectioLegal
PROPERTY ProbeEnds
