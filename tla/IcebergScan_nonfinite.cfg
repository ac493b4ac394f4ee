SPECIFICATION ScanSpec
CONSTANTS
  MaxBatches = 4
  MaxRefs = 2
  Half = 4
  Null = Null
  Factor = 3
  NumFields = 3
  MaxProjection = 3
  NonFiniteLiterals = TRUE
INVARIANTS
  NoMatchDropped
