SPECIFICATION RegistrySpec
CONSTANTS
  Resolvers = {r1, r2}
  NoResolver = NoResolver
  NumSchemes = 1
  Hosts = {h}
  MaxGen = 2
  MaxCalls = 3
INVARIANTS
  ResolveSeesRegistration
CHECK_DEADLOCK FALSE
