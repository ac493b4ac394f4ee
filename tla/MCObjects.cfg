SPECIFICATION ObjectsSpec
CONSTANTS
  Resolvers = {r1, r2}
  NoResolver = NoResolver
  NumSchemes = 2
  Hosts = {h}
  MaxGen = 2
  MaxCalls = 3
  Paths = {p, q}
  Writers = {w1, w2}
  Readers = {r}
  Nobody = Nobody
  MaxChunks = 2
  MaxStops = 1
INVARIANTS
  RegistryInv
  SingleFlight
  SharedStore
  RightStore
  LocalStoreInv
  NeverPartial
  NoStrayTemps
PROPERTIES
  ResolveReturns
  ImplementsStore
  MemImplementsStore
  CloudImplementsWrites
CHECK_DEADLOCK FALSE
