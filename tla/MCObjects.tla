----------------------------- MODULE MCObjects -----------------------------
(***************************************************************************)
(* The objectstore package, checked side by side: the registry that        *)
(* resolves a location to a store, and a store of each backend.  One of    *)
(* them is used, and the others stay as they are at the start.             *)
(***************************************************************************)
EXTENDS MCStores, ObjectRegistry

VARIABLE part      \* "registry" or "store"

storeVars == <<backend, localVars, memVars, cloudVars>>

ObjectsInit ==
  /\ part \in {"registry", "store"}
  /\ RegistryInit /\ StoresInit
  /\ part = "registry" => backend = "local"

ObjectsNext ==
  \/ part = "registry" /\ RegistryNext /\ UNCHANGED <<part, storeVars>>
  \/ part = "store" /\ StoresNext /\ UNCHANGED <<part, registryVars>>

ObjectsSpec ==
  ObjectsInit /\ [][ObjectsNext]_<<part, registryVars, storeVars>> /\ RegistryFairness

\* Resolvers are interchangeable: what is said of one holds of each.
AnyResolver == CHOOSE r \in Resolvers : TRUE

\* Every Resolve returns, also when an opener composes other backends, and
\* also to those that wait for a call that fails; an opener's panic is felt by
\* its own key and those composed of it, and by no other (registry.go:112-155).
ResolveReturns == ReturnsTo(AnyResolver)
=============================================================================
