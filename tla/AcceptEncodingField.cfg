SPECIFICATION SpecField
CONSTANTS
  Codings = {"zstd", "dcz", "*", "gzip"}
  Weights = {0, 500}
  MaxLines = 3
  MaxElems = 3
  MaxParams = 2
INVARIANTS
  WeightIsOfJoinedField
CHECK_DEADLOCK FALSE
