--------------------------- MODULE ObjectRegistry ---------------------------
(***************************************************************************)
(* objectstore's registry (objectstore/registry.go): schemes map to        *)
(* openers, opened stores are cached per scheme+host+query, and concurrent *)
(* Resolve calls for one key share the opener call in flight.              *)
(*                                                                         *)
(* The opener runs without the registry's lock and may itself call Resolve *)
(* ("e.g. to compose backends"); here an opener of scheme i composes at    *)
(* most one backend, of a scheme below i.                                  *)
(***************************************************************************)
EXTENDS Naturals, FiniteSets

CONSTANTS
  Resolvers,   \* goroutines that call Resolve
  NoResolver,  \* "not called by an opener"
  NumSchemes,  \* registrable schemes are 1..NumSchemes
  Hosts,       \* hosts (with their query strings)
  MaxGen,      \* bound on the registrations of one scheme
  MaxCalls     \* bound on opener calls, made or to be made

ASSUME RegistryAssumption ==
  /\ IsFiniteSet(Resolvers) /\ NoResolver \notin Resolvers
  /\ NumSchemes \in Nat \ {0} /\ Hosts # {}
  /\ MaxGen \in Nat /\ MaxCalls \in Nat

Scheme == 1..NumSchemes
Key == Scheme \X Hosts
Call == 1..MaxCalls
Nil == 0

VARIABLES
  openers,     \* per scheme, the generation of its opener, Nil before the first
  cache,       \* per key, the call whose store is cached, or Nil
  inflight,    \* per key, the call in flight, or Nil
  calls,       \* number of opener calls made
  callKey,     \* per call, its key
  callGen,     \* per call, the generation of the opener it runs
  callState,   \* per call: "running", "ok" or "err" once done is closed
  at,          \* where each resolver is
  key,         \* the key it resolves
  call,        \* the call it makes, waits for, or got its store from
  since,       \* the generation registered when its Resolve began
  parent       \* the resolver whose opener called it, or NoResolver

regVars == <<openers, cache, inflight>>
callVars == <<calls, callKey, callGen, callState>>
resolverVars == <<at, key, call, since, parent>>
registryVars == <<regVars, callVars, resolverVars>>

\* The leader of a call passes through these, with the call in flight ...
Opening == {"open", "compose", "resume", "opened", "failed", "panicked"}
\* ... and these, until it has closed call.done.
Leading == Opening \cup {"close", "abort"}
PC == {"idle", "lookup", "wait", "returned"} \cup Leading

AnyKey == CHOOSE k \in Key : TRUE

RegistryInit ==
  /\ openers = [s \in Scheme |-> Nil]
  /\ cache = [k \in Key |-> Nil]
  /\ inflight = [k \in Key |-> Nil]
  /\ calls = 0
  /\ callKey = [i \in Call |-> AnyKey]
  /\ callGen = [i \in Call |-> Nil]
  /\ callState = [i \in Call |-> "none"]
  /\ at = [r \in Resolvers |-> "idle"]
  /\ key = [r \in Resolvers |-> AnyKey]
  /\ call = [r \in Resolvers |-> Nil]
  /\ since = [r \in Resolvers |-> Nil]
  /\ parent = [r \in Resolvers |-> NoResolver]
-----------------------------------------------------------------------------
\* Register: the scheme's opener is replaced, its cached stores are dropped.
\* Calls in flight are not looked at.
Register(s) ==
  /\ openers[s] < MaxGen
  /\ openers' = [openers EXCEPT ![s] = @ + 1]
  /\ cache' = [k \in Key |-> IF k[1] = s THEN Nil ELSE cache[k]]
  /\ UNCHANGED <<inflight, callVars, resolverVars>>
-----------------------------------------------------------------------------
(* Resolve *)

\* The bound on opener calls: one is left for every resolver at its lookup.
LookingUp == {r \in Resolvers : at[r] = "lookup"}
RoomForCall == calls + Cardinality(LookingUp) < MaxCalls

\* Resolve is called, by the program or by the opener that p is running.
Start(r, p, k) ==
  /\ at[r] = "idle"
  /\ RoomForCall
  /\ p # NoResolver => at[p] = "open" /\ k[1] < key[p][1]
  /\ at' = [q \in Resolvers |-> IF q = r THEN "lookup"
                                ELSE IF q = p THEN "compose" ELSE at[q]]
  /\ key' = [key EXCEPT ![r] = k]
  /\ since' = [since EXCEPT ![r] = openers[k[1]]]
  /\ parent' = [parent EXCEPT ![r] = p]
  /\ UNCHANGED <<regVars, callVars, call>>

\* r returns the store of call i, or an error (Nil).
Return(r, i) ==
  /\ at' = [at EXCEPT ![r] = "returned"]
  /\ call' = [call EXCEPT ![r] = i]
  /\ UNCHANGED <<key, since, parent>>

\* Its caller, the program or an opener, goes on.
Resume(r) ==
  /\ at[r] = "returned"
  /\ at' = [q \in Resolvers |-> IF q = r THEN "idle"
                                ELSE IF q = parent[r] THEN "resume" ELSE at[q]]
  /\ key' = [key EXCEPT ![r] = AnyKey]
  /\ call' = [call EXCEPT ![r] = Nil]
  /\ since' = [since EXCEPT ![r] = Nil]
  /\ parent' = [parent EXCEPT ![r] = NoResolver]
  /\ UNCHANGED <<regVars, callVars>>

\* The first critical section: a cached store is returned.
Cached(r) ==
  /\ at[r] = "lookup"
  /\ cache[key[r]] # Nil
  /\ Return(r, cache[key[r]])
  /\ UNCHANGED <<regVars, callVars>>

\* A call in flight is waited for.
Join(r) ==
  /\ at[r] = "lookup"
  /\ cache[key[r]] = Nil
  /\ inflight[key[r]] # Nil
  /\ at' = [at EXCEPT ![r] = "wait"]
  /\ call' = [call EXCEPT ![r] = inflight[key[r]]]
  /\ UNCHANGED <<regVars, callVars, key, since, parent>>

\* UnregisteredSchemeError
Unregistered(r) ==
  /\ at[r] = "lookup"
  /\ cache[key[r]] = Nil
  /\ inflight[key[r]] = Nil
  /\ openers[key[r][1]] = Nil
  /\ Return(r, Nil)
  /\ UNCHANGED <<regVars, callVars>>

\* r makes a call of its own: registers it as in flight and unlocks.
Lead(r) ==
  /\ openers[key[r][1]] # Nil
  /\ calls' = calls + 1
  /\ callKey' = [callKey EXCEPT ![calls + 1] = key[r]]
  /\ callGen' = [callGen EXCEPT ![calls + 1] = openers[key[r][1]]]
  /\ callState' = [callState EXCEPT ![calls + 1] = "running"]
  /\ inflight' = [inflight EXCEPT ![key[r]] = calls + 1]
  /\ at' = [at EXCEPT ![r] = "open"]
  /\ call' = [call EXCEPT ![r] = calls + 1]
  /\ UNCHANGED <<openers, cache, key, since, parent>>

\* Nobody looks for a call in flight.
LeadBlindly(r) ==
  /\ at[r] = "lookup"
  /\ cache[key[r]] = Nil
  /\ Lead(r)

\* Nobody is opening this key: r calls the opener, outside the lock.
LeadOpen(r) ==
  /\ at[r] = "lookup"
  /\ cache[key[r]] = Nil
  /\ inflight[key[r]] = Nil
  /\ Lead(r)

\* The opener returns, with a store or an error.
OpenerReturns(r) ==
  /\ at[r] \in {"open", "resume"}
  /\ \E o \in {"opened", "failed"} : at' = [at EXCEPT ![r] = o]
  /\ UNCHANGED <<regVars, callVars, key, call, since, parent>>

\* The opener panics: nothing is deferred, so the call stays in flight.  A
\* program that recovers goes on without this goroutine.
OpenerPanics(r) ==
  /\ at[r] \in {"open", "resume"}
  /\ at' = [at EXCEPT ![r] = "panicked"]
  /\ UNCHANGED <<regVars, callVars, key, call, since, parent>>

\* An opener whose own Resolve panicked recovers or panics too.
Unwind(r) ==
  /\ at[r] = "panicked" /\ parent[r] # NoResolver
  /\ \E o \in {"resume", "panicked"} : at' = [at EXCEPT ![parent[r]] = o]
  /\ parent' = [parent EXCEPT ![r] = NoResolver]
  /\ UNCHANGED <<regVars, callVars, key, call, since>>

\* The call leaves the table of calls in flight in one critical section and
\* the store enters the cache in another.
SplitPublish(r) ==
  /\ at[r] \in {"opened", "failed"}
  /\ IF inflight[key[r]] = call[r]
     THEN inflight' = [inflight EXCEPT ![key[r]] = Nil] /\ UNCHANGED <<cache, at>>
     ELSE /\ cache' = IF at[r] = "opened" THEN [cache EXCEPT ![key[r]] = call[r]]
                                          ELSE cache
          /\ at' = [at EXCEPT ![r] = IF at[r] = "opened" THEN "close" ELSE "abort"]
          /\ UNCHANGED inflight
  /\ UNCHANGED <<openers, callVars, key, call, since, parent>>

\* The store is cached without a look at openErr.
UncheckedPublish(r) ==
  /\ at[r] \in {"opened", "failed"}
  /\ inflight' = [inflight EXCEPT ![key[r]] = Nil]
  /\ cache' = [cache EXCEPT ![key[r]] = call[r]]
  /\ at' = [at EXCEPT ![r] = IF at[r] = "opened" THEN "close" ELSE "abort"]
  /\ UNCHANGED <<openers, callVars, key, call, since, parent>>

\* The second critical section: the call leaves the table of calls in
\* flight, a store goes into the cache.
Publish(r) ==
  /\ at[r] \in {"opened", "failed"}
  /\ inflight' = [inflight EXCEPT ![key[r]] = Nil]
  /\ cache' = IF at[r] = "opened" THEN [cache EXCEPT ![key[r]] = call[r]]
                                  ELSE cache
  /\ at' = [at EXCEPT ![r] = IF at[r] = "opened" THEN "close" ELSE "abort"]
  /\ UNCHANGED <<openers, callVars, key, call, since, parent>>

\* An error return that does not close call.done.
SilentFinish(r) ==
  /\ at[r] \in {"close", "abort"}
  /\ callState' = IF at[r] = "close" THEN [callState EXCEPT ![call[r]] = "ok"]
                                     ELSE callState
  /\ Return(r, IF at[r] = "close" THEN call[r] ELSE Nil)
  /\ UNCHANGED <<regVars, calls, callKey, callGen>>

\* call.store or call.err is set, call.done closed; r returns.
Finish(r) ==
  /\ at[r] \in {"close", "abort"}
  /\ callState' = [callState EXCEPT ![call[r]] =
                     IF at[r] = "close" THEN "ok" ELSE "err"]
  /\ Return(r, IF at[r] = "close" THEN call[r] ELSE Nil)
  /\ UNCHANGED <<regVars, calls, callKey, callGen>>

\* <-call.done
Joined(r) ==
  /\ at[r] = "wait"
  /\ callState[call[r]] \in {"ok", "err"}
  /\ Return(r, IF callState[call[r]] = "ok" THEN call[r] ELSE Nil)
  /\ UNCHANGED <<regVars, callVars>>
-----------------------------------------------------------------------------
Step(r) ==
  Cached(r) \/ Join(r) \/ Unregistered(r) \/ LeadOpen(r) \/ OpenerReturns(r)
    \/ OpenerPanics(r) \/ Unwind(r) \/ Publish(r) \/ Finish(r) \/ Joined(r) \/ Resume(r)

RegistryNext ==
  \/ \E s \in Scheme : Register(s)
  \/ \E r \in Resolvers, p \in Resolvers \cup {NoResolver}, k \in Key :
       Start(r, p, k)
  \/ \E r \in Resolvers : Step(r)

RegistrySpec == RegistryInit /\ [][RegistryNext]_registryVars

\* A goroutine in Resolve runs on, and openers return or panic.
RegistryFairness == \A r \in Resolvers : WF_registryVars(Step(r))
-----------------------------------------------------------------------------
(* Properties *)

RegistryTypeOK ==
  /\ openers \in [Scheme -> 0..MaxGen]
  /\ cache \in [Key -> Call \cup {Nil}]
  /\ inflight \in [Key -> Call \cup {Nil}]
  /\ calls \in 0..MaxCalls
  /\ callKey \in [Call -> Key]
  /\ callGen \in [Call -> 0..MaxGen]
  /\ callState \in [Call -> {"none", "running", "ok", "err"}]
  /\ at \in [Resolvers -> PC]
  /\ key \in [Resolvers -> Key]
  /\ call \in [Resolvers -> Call \cup {Nil}]
  /\ since \in [Resolvers -> 0..MaxGen]
  /\ parent \in [Resolvers -> Resolvers \cup {NoResolver}]

\* A call is running as long as a resolver leads it, so whoever waits for a
\* running call waits for somebody.
LedInv ==
  /\ \A i \in Call : callState[i] = "running" =>
       \E r \in Resolvers : at[r] \in Leading /\ call[r] = i
  /\ \A r \in Resolvers : at[r] \in Leading =>
       call[r] # Nil /\ callState[call[r]] = "running" /\ callKey[call[r]] = key[r]
  /\ \A q, r \in Resolvers :
       at[q] \in Leading /\ at[r] \in Leading /\ call[q] = call[r] => q = r
  /\ \A i \in Call : callState[i] = "none" <=> i > calls

\* A call is in flight exactly as long as its leader is opening, and nothing
\* is cached for its key meanwhile.
FlightInv ==
  /\ \A r \in Resolvers : at[r] \in Opening => inflight[key[r]] = call[r]
  /\ \A k \in Key : inflight[k] # Nil =>
       /\ cache[k] = Nil
       /\ \E r \in Resolvers : at[r] \in Opening /\ key[r] = k

\* Call i has opened its store and its leader has published it.
Published(i) ==
  callState[i] = "ok" \/ \E r \in Resolvers : at[r] = "close" /\ call[r] = i

\* What is cached, waited for or returned is the call for the key it is asked
\* for, and has been published if it is cached or returned.
CacheInv ==
  /\ \A k \in Key : cache[k] # Nil => callKey[cache[k]] = k /\ Published(cache[k])
  /\ \A r \in Resolvers : at[r] = "wait" =>
       call[r] \in 1..calls /\ callKey[call[r]] = key[r]
  /\ \A r \in Resolvers : at[r] = "returned" /\ call[r] # Nil =>
       callKey[call[r]] = key[r] /\ Published(call[r])

\* A store of the registration in force is the cached one, so no call for its
\* key is made again; and a call in flight has no published twin.
GenInv ==
  /\ \A i \in 1..calls : callGen[i] <= openers[callKey[i][1]]
  /\ \A i \in 1..calls :
       Published(i) /\ callGen[i] = openers[callKey[i][1]] => cache[callKey[i]] = i
  /\ \A r \in Resolvers, i \in 1..calls :
       at[r] \in Opening /\ Published(i) /\ callKey[i] = key[r] =>
         callGen[i] # callGen[call[r]]
  /\ \A i, j \in 1..calls :
       Published(i) /\ Published(j) /\ callKey[i] = callKey[j]
         /\ callGen[i] = callGen[j] => i = j

\* An opener that called Resolve waits for that one call.
ParentInv ==
  /\ \A r \in Resolvers : parent[r] # NoResolver =>
       at[r] # "idle" /\ at[parent[r]] = "compose"
  /\ \A q, r \in Resolvers : parent[q] = parent[r] /\ parent[q] # NoResolver => q = r

\* There is a call left for every resolver at its lookup.
RoomInv == calls + Cardinality(LookingUp) <= MaxCalls

\* The inductive invariant: the registry's maps, its calls and its resolvers
\* agree (registry.go:49-58, 112-155).
RegistryInv ==
  RegistryTypeOK /\ RoomInv /\ ParentInv /\ LedInv /\ FlightInv /\ CacheInv /\ GenInv

\* Of one key, at most one opener call is running at any time, however many
\* resolve it and whatever is registered meanwhile (registry.go:134-138).
SingleFlight ==
  \A q, r \in Resolvers :
    at[q] \in Opening /\ at[r] \in Opening /\ key[q] = key[r] => q = r

\* One registration of a scheme opens each of its keys successfully at most
\* once: whoever resolves it meanwhile or later shares that store
\* (registry.go:11-15, 134-138).
SharedStore ==
  \A i, j \in 1..calls :
    /\ callState[i] = "ok" /\ callState[j] = "ok"
    /\ callKey[i] = callKey[j] /\ callGen[i] = callGen[j]
    => i = j

\* Resolve hands out a store for the key it was opened for, and only when
\* its opener has not failed (registry.go:141-155).
RightStore ==
  \A r \in Resolvers : at[r] = "returned" /\ call[r] # Nil =>
    callKey[call[r]] = key[r] /\ callState[call[r]] # "err"

\* A key whose opener panicked, or may have composed one whose opener did.
Poisoned(k) ==
  \E q \in Resolvers : at[q] = "panicked" /\ (key[q] = k \/ key[q][1] < k[1])

\* A Resolve that r begins returns to it, unless its key is poisoned.
ReturnsTo(r) == at[r] = "lookup" ~> (at[r] = "returned" \/ Poisoned(key[r]))

\* openspec/specs/object-store/spec.md:44-45: "WHEN a program registers its
\* own opener for a scheme and resolves a location with that scheme THEN
\* resolution returns a store produced by that opener".
ResolveSeesRegistration ==
  \A r \in Resolvers : at[r] = "returned" /\ call[r] # Nil =>
    callGen[call[r]] >= since[r]
=============================================================================
