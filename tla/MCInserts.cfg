SPECIFICATION InsertsSpec
CONSTANTS
  Statements = {s1, s2}
  PoolSize = 3
  Capacity = 1
  MaxBatches = 3
  Providers = {p1, p2}
  NoInsert = NoInsert
  MaxReplays = 1
  MaxInput = 2
INVARIANTS
  BridgeInv
  SuccessIsComplete
  ReadAheadBounded
  ProvidersInv
  AsIfAlone
  CountIsComplete
  RefsExact
  NoSelfConflict
PROPERTIES
  InsertsReturn
