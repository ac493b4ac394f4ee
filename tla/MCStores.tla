------------------------------ MODULE MCStores ------------------------------
(***************************************************************************)
(* The three backends, checked side by side: the program's store is one of *)
(* them, and the other two stay as they are at the start.                  *)
(***************************************************************************)
EXTENDS LocalStore

VARIABLES
  backend,                                          \* "local", "mem" or "cloud"
  objs, wpath, buf, done, memResult, obj, memSeen,  \* MemStore
  bucket, wkey, uploaded, cloudPC, cloudResult,     \* CloudStore
  rkey, rsize, version, cloudSeen

localVars == vars
memVars == <<objs, wpath, buf, done, memResult, obj, memSeen>>
cloudVars == <<bucket, wkey, uploaded, cloudPC, cloudResult, rkey, rsize,
               version, cloudSeen>>

Mem == INSTANCE MemStore WITH result <- memResult, seen <- memSeen
Cloud == INSTANCE CloudStore WITH
  Keys <- Paths, pc <- cloudPC, result <- cloudResult, seen <- cloudSeen

StoresInit ==
  backend \in {"local", "mem", "cloud"} /\ Init /\ Mem!Init /\ Cloud!Init

StoresNext ==
  \/ backend = "local" /\ Next /\ UNCHANGED <<backend, memVars, cloudVars>>
  \/ backend = "mem" /\ Mem!Next /\ UNCHANGED <<backend, localVars, cloudVars>>
  \/ backend = "cloud" /\ Cloud!Next /\ UNCHANGED <<backend, localVars, memVars>>

StoresSpec == StoresInit /\ [][StoresNext]_<<backend, localVars, memVars, cloudVars>>

\* The in-memory backend keeps the Store contract however often Close and
\* Abort are called (mem.go:66-86, writeguard.go:3-19).
MemImplementsStore == Mem!ImplementsStore

\* The cloud adapter's writes keep the Store contract: in particular an
\* aborted or failed upload never surfaces (gocloudblob.go:74-124).
CloudImplementsWrites == Cloud!ImplementsWrites
=============================================================================
