SPECIFICATION ScansSpec
CONSTANTS
  MaxBatches = 4
  MaxRefs = 2
  Half = 4
  Null = Null
  Factor = 3
  NumFields = 3
  MaxProjection = 3
  NonFiniteLiterals = FALSE
  NumGroups = 2
  MaxRows = 2
  OneSided = FALSE
  MaxTextRows = 2
INVARIANTS
  SeqReaderInv
  NothingOutlivesRelease
  NoMatchDropped
  NoMatchSkipped
  EndedIsEnough
  ObjectClosedOnce
  NoSilentLoss
PROPERTIES
  ProjectionExact
  ScanReleases
