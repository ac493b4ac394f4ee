----------------------- MODULE ObjectRegistryProofs ------------------------
(***************************************************************************)
(* ObjectRegistry.tla for any finite set of goroutines, any schemes and    *)
(* hosts and any number of registrations and opener calls.                 *)
(*                                                                         *)
(* Most steps of Resolve touch neither the registry's maps nor its calls   *)
(* and move no leader: what they keep is shown once (QuietKeeps).  What is *)
(* left is Register, LeadOpen, Publish and Finish.                         *)
(***************************************************************************)
EXTENDS ObjectRegistry, FiniteSetTheorems, TLAPS

-----------------------------------------------------------------------------
(* Keys and the room for calls *)

\* A key names a scheme, and there is a key.
LEMMA KeyFacts == AnyKey \in Key /\ \A k \in Key : k[1] \in Scheme
<1>1. \E k \in Key : TRUE
  <2>1. PICK h : h \in Hosts
    BY RegistryAssumption
  <2>2. <<1, h>> \in Key
    BY <2>1, RegistryAssumption DEF Key, Scheme
  <2> QED BY <2>2
<1>2. AnyKey \in Key
  BY <1>1 DEF AnyKey
<1>3. \A k \in Key : k[1] \in Scheme
  BY DEF Key
<1> QED BY <1>2, <1>3

\* The resolvers at their lookup are finitely many.
LEMMA LookingUpFinite ==
  IsFiniteSet(LookingUp) /\ Cardinality(LookingUp) \in Nat
<1>1. LookingUp \in SUBSET Resolvers
  BY DEF LookingUp
<1> QED BY <1>1, RegistryAssumption, FS_Subset, FS_CardinalityType

\* A step that makes no call and sends nobody to the lookup keeps the room.
LEMMA RoomShrinks ==
  ASSUME RoomInv, calls' = calls, calls \in Nat, (LookingUp)' \in SUBSET LookingUp
  PROVE  RoomInv'
<1>1. /\ IsFiniteSet((LookingUp)')
      /\ Cardinality((LookingUp)') <= Cardinality(LookingUp)
  BY LookingUpFinite, FS_Subset
<1>2. Cardinality((LookingUp)') \in Nat /\ Cardinality(LookingUp) \in Nat
  BY <1>1, LookingUpFinite, FS_CardinalityType
<1> QED BY <1>1, <1>2, RegistryAssumption DEF RoomInv

-----------------------------------------------------------------------------
(* Steps that leave the registry, the calls and their leaders alone *)

\* Only the resolvers' own state changes, and leaders keep their call, their
\* key and their stage.
Quiet ==
  /\ UNCHANGED <<regVars, callVars>>
  /\ \A r \in Resolvers :
       /\ at'[r] \in Leading <=> at[r] \in Leading
       /\ at'[r] \in Opening <=> at[r] \in Opening
       /\ at'[r] = "close" <=> at[r] = "close"
       /\ at[r] \in Leading => call'[r] = call[r] /\ key'[r] = key[r]

\* Such a step publishes nothing and unpublishes nothing.
LEMMA QuietPublished ==
  ASSUME Quiet PROVE \A i : Published(i)' <=> Published(i)
  BY DEF Quiet, Published, callVars, Leading

\* It keeps everything that is said of the maps, the calls and the leaders.
LEMMA QuietKeeps ==
  ASSUME LedInv, FlightInv, GenInv, Quiet
  PROVE  LedInv' /\ FlightInv' /\ GenInv'
<1>1. LedInv'
  BY DEF Quiet, LedInv, callVars
<1>2. FlightInv'
  BY DEF Quiet, FlightInv, regVars, Leading
<1>3. GenInv'
  <2>1. UNCHANGED <<openers, cache, calls, callKey, callGen>>
    BY DEF Quiet, regVars, callVars
  <2>2. \A r \in Resolvers : at'[r] \in Opening =>
          at[r] \in Opening /\ call'[r] = call[r] /\ key'[r] = key[r]
    BY DEF Quiet, Leading
  <2> QED BY <2>1, <2>2, QuietPublished DEF GenInv
<1> QED BY <1>1, <1>2, <1>3

\* The rest of the invariant, for one that also leaves the resolvers that wait
\* or have returned as they were, except r.
LEMMA QuietCache ==
  ASSUME CacheInv, Quiet, NEW r \in Resolvers,
         \A q \in Resolvers \ {r} :
           /\ at'[q] \in {"wait", "returned"} => at'[q] = at[q]
           /\ call'[q] = call[q] /\ key'[q] = key[q],
         at'[r] = "wait" => call'[r] \in 1..calls /\ callKey[call'[r]] = key'[r],
         at'[r] = "returned" /\ call'[r] # Nil =>
           callKey[call'[r]] = key'[r] /\ Published(call'[r])
  PROVE  CacheInv'
<1>1. UNCHANGED <<cache, calls, callKey>>
  BY DEF Quiet, regVars, callVars
<1>2. \A q \in Resolvers : at'[q] = "wait" =>
        call'[q] \in 1..calls /\ callKey[call'[q]] = key'[q]
  BY DEF CacheInv
<1>3. \A q \in Resolvers : at'[q] = "returned" /\ call'[q] # Nil =>
        callKey[call'[q]] = key'[q] /\ Published(call'[q])
  BY DEF CacheInv
<1> QED BY <1>1, <1>2, <1>3, QuietPublished DEF CacheInv
-----------------------------------------------------------------------------
(* The inductive invariant *)

\* A new registry satisfies it.
LEMMA RegistryInvInit == RegistryInit => RegistryInv
<1> SUFFICES ASSUME RegistryInit PROVE RegistryInv
  OBVIOUS
<1>1. RegistryTypeOK
  BY RegistryAssumption, KeyFacts DEF RegistryInit, RegistryTypeOK, Nil, PC
<1>2. RoomInv
  <2>1. LookingUp = {}
    BY DEF RegistryInit, LookingUp
  <2> QED BY <2>1, FS_EmptySet, RegistryAssumption DEF RegistryInit, RoomInv
<1>3. ParentInv
  BY DEF RegistryInit, ParentInv
<1>4. LedInv
  BY RegistryAssumption DEF RegistryInit, LedInv, Leading, Opening, Call
<1>5. FlightInv
  BY DEF RegistryInit, FlightInv, Opening
<1>6. CacheInv
  BY DEF RegistryInit, CacheInv
<1>7. GenInv
  BY DEF RegistryInit, GenInv
<1> QED BY <1>1, <1>2, <1>3, <1>4, <1>5, <1>6, <1>7 DEF RegistryInv

\* The resolver whose opener called another is a resolver.
LEMMA ParentType ==
  ASSUME RegistryInv
  PROVE  \A q \in Resolvers : parent[q] # NoResolver => parent[q] \in Resolvers
  BY DEF RegistryInv, RegistryTypeOK

\* Registration drops the scheme's cached stores and starts a generation of
\* which no call has been made.
LEMMA RegisterStep ==
  ASSUME RegistryInv, NEW s \in Scheme, Register(s) PROVE RegistryInv'
<1> USE DEF RegistryInv
<1>0. /\ UNCHANGED <<inflight, calls, callKey, callGen, callState,
                     at, key, call, since, parent>>
      /\ openers[s] < MaxGen /\ openers' = [openers EXCEPT ![s] = openers[s] + 1]
      /\ cache' = [k \in Key |-> IF k[1] = s THEN Nil ELSE cache[k]]
  BY DEF Register, callVars, resolverVars
<1>1. RegistryTypeOK'
  <2>1. openers' \in [Scheme -> 0..MaxGen]
    BY <1>0, RegistryAssumption DEF RegistryTypeOK
  <2>2. cache' \in [Key -> Call \cup {Nil}]
    BY <1>0 DEF RegistryTypeOK
  <2> QED BY <1>0, <2>1, <2>2 DEF RegistryTypeOK
<1>2. RoomInv' /\ ParentInv' /\ LedInv'
  BY <1>0 DEF RoomInv, LookingUp, ParentInv, LedInv
<1>3. FlightInv'
  BY <1>0 DEF FlightInv
<1>4. \A i : Published(i)' <=> Published(i)
  BY <1>0 DEF Published
<1>5. CacheInv'
  BY <1>0, <1>4 DEF CacheInv
<1>6. GenInv'
  <2>1. \A i \in 1..calls : callKey[i] \in Key /\ callGen[i] \in Nat
    BY RegistryAssumption DEF RegistryTypeOK, Call
  <2>2. ASSUME NEW i \in 1..calls
        PROVE  /\ callGen[i] <= openers'[callKey[i][1]]
               /\ callGen[i] = openers'[callKey[i][1]] =>
                    callKey[i][1] # s /\ callGen[i] = openers[callKey[i][1]]
    <3>1. callKey[i][1] \in Scheme /\ callGen[i] \in Nat
      BY <2>1, KeyFacts
    <3>2. \A t \in Scheme :
            /\ openers[t] \in Nat
            /\ openers'[t] = IF t = s THEN openers[t] + 1 ELSE openers[t]
      BY <1>0 DEF RegistryTypeOK
    <3>3. callGen[i] <= openers[callKey[i][1]]
      BY DEF GenInv
    <3> QED BY <3>1, <3>2, <3>3
  <2>3. \A i \in 1..calls :
          Published(i) /\ callGen[i] = openers'[callKey[i][1]] => cache'[callKey[i]] = i
    BY <1>0, <2>1, <2>2 DEF GenInv
  <2> QED BY <1>0, <1>4, <2>2, <2>3 DEF GenInv
<1> QED BY <1>1, <1>2, <1>3, <1>5, <1>6

\* Resolve is called: a step at the edge of the room for calls.
LEMMA StartStep ==
  ASSUME RegistryInv, NEW r \in Resolvers, NEW p \in Resolvers \cup {NoResolver},
         NEW k \in Key, Start(r, p, k)
  PROVE  RegistryInv'
<1> USE DEF RegistryInv
<1>0. /\ at[r] = "idle" /\ at'[r] = "lookup" /\ key'[r] = k /\ parent'[r] = p
      /\ p # NoResolver =>
           p \in Resolvers /\ p # r /\ at[p] = "open" /\ at'[p] = "compose"
      /\ \A q \in Resolvers \ {r, p} : at'[q] = at[q]
      /\ \A q \in Resolvers \ {r} : key'[q] = key[q] /\ parent'[q] = parent[q]
      /\ UNCHANGED <<regVars, callVars, call>>
  BY DEF Start, RegistryTypeOK
<1>1. RegistryTypeOK'
  <2>1. at' \in [Resolvers -> PC]
    BY DEF Start, RegistryTypeOK, PC, Leading, Opening
  <2>2. openers[k[1]] \in 0..MaxGen
    BY KeyFacts DEF RegistryTypeOK
  <2> QED BY <1>0, <2>1, <2>2 DEF Start, RegistryTypeOK, regVars, callVars
<1>2. RoomInv'
  <2>1. (LookingUp)' = LookingUp \cup {r} /\ calls' = calls /\ r \notin LookingUp
    BY <1>0, RegistryAssumption DEF LookingUp, callVars
  <2>2. Cardinality((LookingUp)') = Cardinality(LookingUp) + 1
    BY <2>1, LookingUpFinite, FS_AddElement
  <2> QED
    BY <2>1, <2>2, LookingUpFinite, RegistryAssumption
    DEF Start, RoomForCall, RoomInv, RegistryTypeOK
<1>3. ParentInv'
  <2>1. \A q \in Resolvers \ {r} : parent[q] # NoResolver =>
          /\ at[q] # "idle" /\ parent[q] \in Resolvers \ {r, p}
          /\ at[parent[q]] = "compose" /\ parent'[q] = parent[q]
    BY <1>0, ParentType DEF ParentInv
  <2>2. \A q \in Resolvers \ {r} : at[q] # "idle" => at'[q] # "idle"
    BY <1>0, RegistryAssumption
  <2>3. \A q \in Resolvers : parent'[q] # NoResolver =>
          at'[q] # "idle" /\ at'[parent'[q]] = "compose"
    BY <1>0, <2>1, <2>2
  <2>4. \A o, q \in Resolvers :
          parent'[o] = parent'[q] /\ parent'[o] # NoResolver => o = q
    BY <1>0, <2>1 DEF ParentInv
  <2> QED BY <2>3, <2>4 DEF ParentInv
<1>4. Quiet
  BY <1>0, RegistryAssumption DEF Quiet, Leading, Opening
<1>5. CacheInv'
  <2>1. \A q \in Resolvers \ {r} :
          at'[q] \in {"wait", "returned"} => at'[q] = at[q]
    BY <1>0, RegistryAssumption
  <2> QED BY <1>0, <1>4, <2>1, QuietCache
<1> QED BY <1>1, <1>2, <1>3, <1>4, <1>5, QuietKeeps

\* A cached store is returned.
LEMMA CachedStep ==
  ASSUME RegistryInv, NEW r \in Resolvers, Cached(r) PROVE RegistryInv'
<1> USE DEF RegistryInv
<1>0. /\ at[r] \in {"lookup", "wait"} /\ at'[r] = "returned"
      /\ call'[r] = cache[key[r]]
      /\ \A q \in Resolvers \ {r} : at'[q] = at[q] /\ call'[q] = call[q]
      /\ UNCHANGED <<regVars, callVars, key, since, parent>>
  BY DEF Cached, Return, RegistryTypeOK
<1>1. RegistryTypeOK'
  BY <1>0 DEF Cached, Return, RegistryTypeOK, regVars, callVars, PC, Nil
<1>2. RoomInv'
  BY <1>0, RoomShrinks, RegistryAssumption DEF LookingUp, callVars, RegistryTypeOK
<1>3. ParentInv'
  BY <1>0, ParentType DEF ParentInv
<1>4. Quiet
  BY <1>0 DEF Quiet, Leading, Opening
<1>5. CacheInv'
  <2>1. callKey[cache[key[r]]] = key[r] /\ Published(cache[key[r]])
    BY DEF Cached, CacheInv, RegistryTypeOK
  <2> QED BY <1>0, <1>4, <2>1, QuietCache
<1> QED BY <1>1, <1>2, <1>3, <1>4, <1>5, QuietKeeps

\* The scheme has no opener.
LEMMA UnregisteredStep ==
  ASSUME RegistryInv, NEW r \in Resolvers, Unregistered(r) PROVE RegistryInv'
<1> USE DEF RegistryInv
<1>0. /\ at[r] \in {"lookup", "wait"} /\ at'[r] = "returned"
      /\ call'[r] = Nil
      /\ \A q \in Resolvers \ {r} : at'[q] = at[q] /\ call'[q] = call[q]
      /\ UNCHANGED <<regVars, callVars, key, since, parent>>
  BY DEF Unregistered, Return, RegistryTypeOK
<1>1. RegistryTypeOK'
  BY <1>0 DEF Unregistered, Return, RegistryTypeOK, regVars, callVars, PC, Nil
<1>2. RoomInv'
  BY <1>0, RoomShrinks, RegistryAssumption DEF LookingUp, callVars, RegistryTypeOK
<1>3. ParentInv'
  BY <1>0, ParentType DEF ParentInv
<1>4. Quiet
  BY <1>0 DEF Quiet, Leading, Opening
<1>5. CacheInv'
  BY <1>0, <1>4, QuietCache
<1> QED BY <1>1, <1>2, <1>3, <1>4, <1>5, QuietKeeps

\* The call that was waited for is done: its store is published.
LEMMA JoinedStep ==
  ASSUME RegistryInv, NEW r \in Resolvers, Joined(r) PROVE RegistryInv'
<1> USE DEF RegistryInv
<1>0. /\ at[r] \in {"lookup", "wait"} /\ at'[r] = "returned"
      /\ call'[r] = IF callState[call[r]] = "ok" THEN call[r] ELSE Nil
      /\ \A q \in Resolvers \ {r} : at'[q] = at[q] /\ call'[q] = call[q]
      /\ UNCHANGED <<regVars, callVars, key, since, parent>>
  BY DEF Joined, Return, RegistryTypeOK
<1>1. RegistryTypeOK'
  BY <1>0 DEF Joined, Return, RegistryTypeOK, regVars, callVars, PC, Nil
<1>2. RoomInv'
  BY <1>0, RoomShrinks, RegistryAssumption DEF LookingUp, callVars, RegistryTypeOK
<1>3. ParentInv'
  BY <1>0, ParentType DEF ParentInv
<1>4. Quiet
  BY <1>0 DEF Quiet, Leading, Opening
<1>5. CacheInv'
  <2>1. callKey[call[r]] = key[r]
    BY DEF Joined, CacheInv
  <2>2. callState[call[r]] = "ok" => Published(call[r])
    BY DEF Published
  <2> QED BY <1>0, <1>4, <2>1, <2>2, QuietCache
<1> QED BY <1>1, <1>2, <1>3, <1>4, <1>5, QuietKeeps

\* A call in flight is joined: it has the same key.
LEMMA JoinStep ==
  ASSUME RegistryInv, NEW r \in Resolvers, Join(r) PROVE RegistryInv'
<1> USE DEF RegistryInv
<1>0. /\ at[r] = "lookup" /\ at'[r] = "wait" /\ inflight[key[r]] # Nil
      /\ call'[r] = inflight[key[r]]
      /\ \A q \in Resolvers \ {r} : at'[q] = at[q] /\ call'[q] = call[q]
      /\ UNCHANGED <<regVars, callVars, key, since, parent>>
  BY DEF Join, RegistryTypeOK
<1>1. RegistryTypeOK'
  BY <1>0 DEF Join, RegistryTypeOK, regVars, callVars, PC
<1>2. RoomInv'
  BY <1>0, RoomShrinks, RegistryAssumption DEF LookingUp, callVars, RegistryTypeOK
<1>3. ParentInv'
  BY <1>0, ParentType DEF ParentInv
<1>4. Quiet
  BY <1>0 DEF Quiet, Leading, Opening
<1>5. CacheInv'
  <2>1. key[r] \in Key
    BY DEF RegistryTypeOK
  <2>2. PICK q \in Resolvers : at[q] \in Opening /\ key[q] = key[r]
    BY <1>0, <2>1 DEF FlightInv
  <2>3. call[q] = inflight[key[r]]
    BY <2>2 DEF FlightInv
  <2>4. /\ callState[call[q]] = "running" /\ callKey[call[q]] = key[r]
        /\ call[q] \in Call
    BY <2>2 DEF LedInv, Leading, RegistryTypeOK
  <2>5. call[q] \in 1..calls
    BY <2>4, RegistryAssumption DEF LedInv, Call, RegistryTypeOK
  <2> QED BY <1>0, <1>4, <2>3, <2>4, <2>5, QuietCache
<1> QED BY <1>1, <1>2, <1>3, <1>4, <1>5, QuietKeeps

\* The opener returns to its leader.
LEMMA OpenerReturnsStep ==
  ASSUME RegistryInv, NEW r \in Resolvers, OpenerReturns(r) PROVE RegistryInv'
<1> USE DEF RegistryInv
<1>0. /\ at[r] \in {"open", "resume"} /\ at'[r] \in {"opened", "failed"}
      /\ \A q \in Resolvers \ {r} : at'[q] = at[q]
      /\ UNCHANGED <<regVars, callVars, key, call, since, parent>>
  BY DEF OpenerReturns, RegistryTypeOK
<1>1. RegistryTypeOK'
  BY <1>0 DEF OpenerReturns, RegistryTypeOK, regVars, callVars, PC, Leading, Opening
<1>2. RoomInv'
  BY <1>0, RoomShrinks, RegistryAssumption DEF LookingUp, callVars, RegistryTypeOK
<1>3. ParentInv'
  BY <1>0, ParentType DEF ParentInv
<1>4. Quiet
  BY <1>0 DEF Quiet, Leading, Opening
<1>5. CacheInv'
  BY <1>0, <1>4, QuietCache
<1> QED BY <1>1, <1>2, <1>3, <1>4, <1>5, QuietKeeps

\* The opener panics: its call stays in flight.
LEMMA OpenerPanicsStep ==
  ASSUME RegistryInv, NEW r \in Resolvers, OpenerPanics(r) PROVE RegistryInv'
<1> USE DEF RegistryInv
<1>0. /\ at[r] \in {"open", "resume"} /\ at'[r] = "panicked"
      /\ \A q \in Resolvers \ {r} : at'[q] = at[q]
      /\ UNCHANGED <<regVars, callVars, key, call, since, parent>>
  BY DEF OpenerPanics, RegistryTypeOK
<1>1. RegistryTypeOK'
  BY <1>0 DEF OpenerPanics, RegistryTypeOK, regVars, callVars, PC, Leading, Opening
<1>2. RoomInv'
  BY <1>0, RoomShrinks, RegistryAssumption DEF LookingUp, callVars, RegistryTypeOK
<1>3. ParentInv'
  BY <1>0, ParentType DEF ParentInv
<1>4. Quiet
  BY <1>0 DEF Quiet, Leading, Opening
<1>5. CacheInv'
  BY <1>0, <1>4, QuietCache
<1> QED BY <1>1, <1>2, <1>3, <1>4, <1>5, QuietKeeps

\* The panic reaches the opener that called Resolve.
LEMMA UnwindStep ==
  ASSUME RegistryInv, NEW r \in Resolvers, Unwind(r) PROVE RegistryInv'
<1> USE DEF RegistryInv
<1>0. /\ at[r] = "panicked" /\ parent[r] \in Resolvers /\ parent[r] # r
      /\ at[parent[r]] = "compose" /\ at'[parent[r]] \in {"resume", "panicked"}
      /\ \A q \in Resolvers \ {parent[r]} : at'[q] = at[q]
      /\ parent'[r] = NoResolver /\ \A q \in Resolvers \ {r} : parent'[q] = parent[q]
      /\ UNCHANGED <<regVars, callVars, key, call, since>>
  BY DEF Unwind, ParentInv, RegistryTypeOK
<1>1. RegistryTypeOK'
  BY <1>0 DEF Unwind, RegistryTypeOK, regVars, callVars, PC, Leading, Opening
<1>2. RoomInv'
  BY <1>0, RoomShrinks, RegistryAssumption DEF LookingUp, callVars, RegistryTypeOK
<1>3. ParentInv'
  BY <1>0, ParentType DEF ParentInv
<1>4. Quiet
  BY <1>0 DEF Quiet, Leading, Opening
<1>5. CacheInv'
  BY <1>0, <1>4, QuietCache
<1> QED BY <1>1, <1>2, <1>3, <1>4, <1>5, QuietKeeps

\* Resolve has returned and its caller goes on.
LEMMA ResumeStep ==
  ASSUME RegistryInv, NEW r \in Resolvers, Resume(r) PROVE RegistryInv'
<1> USE DEF RegistryInv
<1>0. /\ at[r] = "returned" /\ at'[r] = "idle"
      /\ parent[r] # NoResolver =>
           /\ parent[r] \in Resolvers \ {r}
           /\ at[parent[r]] = "compose" /\ at'[parent[r]] = "resume"
      /\ \A q \in Resolvers \ {r, parent[r]} : at'[q] = at[q]
      /\ parent'[r] = NoResolver
      /\ \A q \in Resolvers \ {r} :
           parent'[q] = parent[q] /\ key'[q] = key[q] /\ call'[q] = call[q]
      /\ UNCHANGED <<regVars, callVars>>
  BY DEF Resume, ParentInv, RegistryTypeOK
<1>1. RegistryTypeOK'
  <2>1. at' \in [Resolvers -> PC]
    BY DEF Resume, RegistryTypeOK, PC, Leading, Opening
  <2> QED
    BY <1>0, <2>1, KeyFacts, RegistryAssumption
    DEF Resume, RegistryTypeOK, regVars, callVars, Nil
<1>2. RoomInv'
  BY <1>0, RoomShrinks, RegistryAssumption DEF LookingUp, callVars, RegistryTypeOK
<1>3. ParentInv'
  <2>1. \A q \in Resolvers \ {r} : parent[q] # NoResolver =>
          /\ at[q] # "idle" /\ parent[q] \in Resolvers \ {r, parent[r]}
          /\ at[parent[q]] = "compose" /\ parent'[q] = parent[q]
    BY <1>0, ParentType DEF ParentInv
  <2>2. \A q \in Resolvers \ {r} : at[q] # "idle" => at'[q] # "idle"
    BY <1>0, RegistryAssumption
  <2>3. \A q \in Resolvers : parent'[q] # NoResolver =>
          at'[q] # "idle" /\ at'[parent'[q]] = "compose"
    BY <1>0, <2>1, <2>2
  <2>4. \A o, q \in Resolvers :
          parent'[o] = parent'[q] /\ parent'[o] # NoResolver => o = q
    BY <1>0, <2>1 DEF ParentInv
  <2> QED BY <2>3, <2>4 DEF ParentInv
<1>4. Quiet
  BY <1>0, RegistryAssumption DEF Quiet, Leading, Opening
<1>5. CacheInv'
  BY <1>0, <1>4, RegistryAssumption, QuietCache
<1> QED BY <1>1, <1>2, <1>3, <1>4, <1>5, QuietKeeps

\* A resolver that finds nothing cached and nothing in flight makes a call: no
\* store of the registration in force has been opened for its key.
LEMMA LeadOpenStep ==
  ASSUME RegistryInv, NEW r \in Resolvers, LeadOpen(r) PROVE RegistryInv'
<1> USE DEF RegistryInv
<1> DEFINE n == calls + 1
<1>0. /\ at[r] = "lookup" /\ key[r] \in Key
      /\ cache[key[r]] = Nil /\ inflight[key[r]] = Nil
      /\ calls' = n /\ at' = [at EXCEPT ![r] = "open"]
      /\ call' = [call EXCEPT ![r] = n]
      /\ callKey' = [callKey EXCEPT ![n] = key[r]]
      /\ callGen' = [callGen EXCEPT ![n] = openers[key[r][1]]]
      /\ callState' = [callState EXCEPT ![n] = "running"]
      /\ inflight' = [inflight EXCEPT ![key[r]] = n]
      /\ UNCHANGED <<openers, cache, key, since, parent>>
  BY DEF LeadOpen, Lead, RegistryTypeOK
<1>1. /\ n \in Call /\ calls \in Nat /\ n # Nil
      /\ calls + 1 + Cardinality(LookingUp \ {r}) <= MaxCalls
  <2>1. Cardinality(LookingUp \ {r}) = Cardinality(LookingUp) - 1
    BY <1>0, LookingUpFinite, FS_RemoveElement DEF LookingUp
  <2>2. Cardinality(LookingUp \ {r}) \in Nat
    BY LookingUpFinite, FS_RemoveElement, FS_CardinalityType
  <2>3. calls \in Nat /\ calls + Cardinality(LookingUp) <= MaxCalls
    BY RegistryAssumption DEF RegistryTypeOK, RoomInv
  <2> QED
    BY <2>1, <2>2, <2>3, LookingUpFinite, RegistryAssumption DEF Call, Nil
<1> HIDE DEF n
<1>2. /\ at'[r] = "open" /\ call'[r] = n
      /\ \A q \in Resolvers \ {r} : at'[q] = at[q] /\ call'[q] = call[q]
      /\ callKey'[n] = key[r] /\ callGen'[n] = openers[key[r][1]]
      /\ callState'[n] = "running" /\ callState[n] = "none"
      /\ \A i \in Call \ {n} : /\ callKey'[i] = callKey[i] /\ callGen'[i] = callGen[i]
                               /\ callState'[i] = callState[i]
      /\ inflight'[key[r]] = n
      /\ \A k \in Key \ {key[r]} : inflight'[k] = inflight[k]
  <2>1. callState[n] = "none"
    BY <1>1 DEF LedInv, n
  <2> QED BY <1>0, <1>1, <2>1 DEF RegistryTypeOK
<1>3. \A q \in Resolvers : at[q] \in Leading => call[q] \in Call \ {n}
  BY <1>2 DEF LedInv, RegistryTypeOK
<1>4. \A i \in Call : Published(i)' <=> i # n /\ Published(i)
  <2>1. ~Published(n)
    BY <1>2, <1>3 DEF Published, Leading
  <2>2. \A i \in Call \ {n} :
          (\E q \in Resolvers : at'[q] = "close" /\ call'[q] = i)
            <=> \E q \in Resolvers : at[q] = "close" /\ call[q] = i
    BY <1>0, <1>2
  <2>3. \A i \in Call : i = n => ~Published(i)'
    BY <1>1, <1>2, <1>3 DEF Published, Leading
  <2>4. \A i \in Call \ {n} : Published(i)' <=> Published(i)
    BY <1>2, <2>2 DEF Published
  <2> QED BY <2>1, <2>3, <2>4
<1>5. RegistryTypeOK'
  <2>1. at' \in [Resolvers -> PC]
    BY <1>0 DEF RegistryTypeOK, PC, Leading, Opening
  <2>2. calls' \in 0..MaxCalls
    BY <1>0, <1>1, RegistryAssumption DEF Call
  <2>3. key[r][1] \in Scheme
    BY <1>0, KeyFacts
  <2> QED BY <1>0, <1>1, <2>1, <2>2, <2>3 DEF RegistryTypeOK
<1>6. RoomInv'
  <2>1. (LookingUp)' = LookingUp \ {r}
    BY <1>2 DEF LookingUp
  <2> QED BY <1>0, <1>1, <2>1 DEF RoomInv, n
<1>7. ParentInv'
  BY <1>0, <1>2, ParentType DEF ParentInv
<1>8. LedInv'
  <2>1. \A i \in Call : callState'[i] = "running" =>
          \E q \in Resolvers : at'[q] \in Leading /\ call'[q] = i
    BY <1>0, <1>2 DEF LedInv, Leading, Opening
  <2>2. \A q \in Resolvers : at'[q] \in Leading =>
          /\ call'[q] # Nil /\ callState'[call'[q]] = "running"
          /\ callKey'[call'[q]] = key'[q]
    BY <1>0, <1>1, <1>2, <1>3 DEF LedInv
  <2>3. \A p, q \in Resolvers :
          at'[p] \in Leading /\ at'[q] \in Leading /\ call'[p] = call'[q] => p = q
    BY <1>2, <1>3 DEF LedInv
  <2>4. \A i \in Call : callState'[i] = "none" <=> i > calls'
    BY <1>0, <1>1, <1>2 DEF LedInv, Call, n
  <2> QED BY <2>1, <2>2, <2>3, <2>4 DEF LedInv
<1>9. FlightInv'
  <2>1. \A q \in Resolvers : at[q] \in Opening => key[q] # key[r] /\ key[q] \in Key
    BY <1>0 DEF FlightInv, LedInv, Leading, RegistryTypeOK
  <2>2. \A q \in Resolvers : at'[q] \in Opening => inflight'[key'[q]] = call'[q]
    BY <1>0, <1>2, <2>1 DEF FlightInv
  <2>3. \A k \in Key : inflight'[k] # Nil =>
          /\ cache'[k] = Nil
          /\ \E q \in Resolvers : at'[q] \in Opening /\ key'[q] = k
    BY <1>0, <1>2 DEF FlightInv, Opening
  <2> QED BY <2>2, <2>3 DEF FlightInv
<1>10. CacheInv'
  <2>1. \A i \in 1..calls : i \in Call \ {n} /\ i \in 1..calls'
    BY <1>0, <1>1, RegistryAssumption DEF Call, RegistryTypeOK, n
  <2>2. \A i \in Call : Published(i) => i # n
    BY <1>2, <1>3 DEF Published, Leading
  <2>3. \A k \in Key : cache'[k] # Nil =>
          callKey'[cache'[k]] = k /\ Published(cache[k])'
    <3> SUFFICES ASSUME NEW k \in Key, cache[k] # Nil
                 PROVE  callKey'[cache[k]] = k /\ Published(cache[k])'
      BY <1>0
    <3>1. cache[k] \in Call /\ callKey[cache[k]] = k /\ Published(cache[k])
      BY DEF CacheInv, RegistryTypeOK
    <3>2. cache' = cache /\ callKey'[cache[k]] = k
      BY <1>0, <1>2, <2>2, <3>1
    <3> QED BY <1>0, <1>4, <2>2, <3>1, <3>2
  <2>4. \A q \in Resolvers : at'[q] = "wait" =>
          call'[q] \in 1..calls' /\ callKey'[call'[q]] = key'[q]
    BY <1>0, <1>2, <2>1 DEF CacheInv
  <2>5. \A q \in Resolvers : at'[q] = "returned" /\ call'[q] # Nil =>
          callKey'[call'[q]] = key'[q] /\ Published(call[q])'
    <3> SUFFICES ASSUME NEW q \in Resolvers, at'[q] = "returned", call'[q] # Nil
                 PROVE  callKey'[call'[q]] = key'[q] /\ Published(call[q])'
      OBVIOUS
    <3>1. q # r /\ at[q] = "returned" /\ call'[q] = call[q]
      BY <1>2
    <3>2. call[q] \in Call /\ callKey[call[q]] = key[q] /\ Published(call[q])
      BY <3>1 DEF CacheInv, RegistryTypeOK
    <3>3. callKey'[call'[q]] = key'[q]
      BY <1>0, <1>2, <2>2, <3>1, <3>2
    <3> QED BY <1>4, <2>2, <3>1, <3>2, <3>3
  <2> QED BY <2>3, <2>4, <2>5 DEF CacheInv
<1>11. GenInv'
  <2>1. \A i \in 1..calls' : i \in Call /\ (i # n => i \in 1..calls)
    BY <1>0, <1>1, RegistryAssumption DEF Call, n
  <2>2. key[r][1] \in Scheme /\ openers[key[r][1]] \in Nat
    BY <1>0, KeyFacts DEF RegistryTypeOK
  <2>3. \A i \in 1..calls' : callGen'[i] <= openers'[callKey'[i][1]]
    BY <1>0, <1>2, <2>1, <2>2 DEF GenInv
  <2>4. \A i \in 1..calls' :
          Published(i)' /\ callGen'[i] = openers'[callKey'[i][1]] =>
            cache'[callKey'[i]] = i
    BY <1>0, <1>2, <1>4, <2>1 DEF GenInv
  <2>5. \A q \in Resolvers, i \in 1..calls' :
          at'[q] \in Opening /\ Published(i)' /\ callKey'[i] = key'[q] =>
            callGen'[i] # callGen'[call'[q]]
    <3> SUFFICES ASSUME NEW q \in Resolvers, NEW i \in 1..calls', at'[q] \in Opening,
                        Published(i)', callKey'[i] = key'[q]
                 PROVE  callGen'[i] # callGen'[call'[q]]
      OBVIOUS
    <3>1. /\ i \in 1..calls /\ i \in Call \ {n} /\ Published(i)
          /\ callKey[i] = key[q] /\ callGen'[i] = callGen[i]
      BY <1>0, <1>2, <1>4, <2>1
    <3>2. CASE q = r
      <4>1. callGen[i] # openers[key[r][1]]
        <5>1. i # Nil
          BY <3>1 DEF Call, Nil
        <5> QED BY <1>0, <3>1, <3>2, <5>1 DEF GenInv
      <4> QED BY <1>2, <3>1, <3>2, <4>1
    <3>3. CASE q # r
      <4>1. at[q] \in Opening /\ call'[q] = call[q] /\ call[q] \in Call \ {n}
        BY <1>2, <1>3, <3>3 DEF Leading
      <4>2. callGen'[call'[q]] = callGen[call[q]]
        BY <1>2, <4>1
      <4>3. callGen[i] # callGen[call[q]]
        BY <3>1, <4>1 DEF GenInv
      <4> QED BY <3>1, <4>2, <4>3
    <3> QED BY <3>2, <3>3
  <2>6. \A i, j \in 1..calls' :
          Published(i)' /\ Published(j)' /\ callKey'[i] = callKey'[j]
            /\ callGen'[i] = callGen'[j] => i = j
    BY <1>2, <1>4, <2>1 DEF GenInv
  <2> QED BY <2>3, <2>4, <2>5, <2>6 DEF GenInv
<1> QED BY <1>5, <1>6, <1>7, <1>8, <1>9, <1>10, <1>11

\* The second critical section: the call leaves the calls in flight and, if it
\* succeeded, is published for its key.
LEMMA PublishStep ==
  ASSUME RegistryInv, NEW r \in Resolvers, Publish(r) PROVE RegistryInv'
<1> USE DEF RegistryInv
<1> DEFINE ok == at[r] = "opened"
<1>0. /\ at[r] \in {"opened", "failed"} /\ at[r] \in Opening
      /\ key[r] \in Key /\ call[r] \in Call /\ call[r] # Nil
      /\ inflight[key[r]] = call[r] /\ cache[key[r]] = Nil
      /\ callKey[call[r]] = key[r] /\ callState[call[r]] = "running"
      /\ at'[r] = (IF ok THEN "close" ELSE "abort")
      /\ \A q \in Resolvers \ {r} : at'[q] = at[q]
      /\ inflight'[key[r]] = Nil
      /\ cache'[key[r]] = (IF ok THEN call[r] ELSE Nil)
      /\ \A k \in Key \ {key[r]} : inflight'[k] = inflight[k] /\ cache'[k] = cache[k]
      /\ UNCHANGED <<openers, calls, callKey, callGen, callState,
                     key, call, since, parent>>
  <2>1. at[r] \in {"opened", "failed"} /\ at[r] \in Opening /\ at[r] \in Leading
    BY DEF Publish, Opening, Leading
  <2>2. /\ key[r] \in Key /\ call[r] \in Call /\ call[r] # Nil
        /\ callKey[call[r]] = key[r] /\ callState[call[r]] = "running"
    BY <2>1 DEF LedInv, RegistryTypeOK
  <2>3. inflight[key[r]] = call[r] /\ cache[key[r]] = Nil
    BY <2>1, <2>2 DEF FlightInv
  <2> QED BY <2>1, <2>2, <2>3 DEF Publish, callVars, RegistryTypeOK
<1>1. RegistryTypeOK'
  <2>1. at' \in [Resolvers -> PC]
    BY DEF Publish, RegistryTypeOK, PC, Leading
  <2>2. inflight' \in [Key -> Call \cup {Nil}] /\ cache' \in [Key -> Call \cup {Nil}]
    BY <1>0 DEF Publish, RegistryTypeOK
  <2> QED BY <1>0, <2>1, <2>2 DEF RegistryTypeOK
<1>2. \A q \in Resolvers \ {r} : at[q] \in Leading => call[q] # call[r]
  BY <1>0 DEF LedInv, Leading
<1>3. \A q \in Resolvers \ {r} : at[q] \in Opening => key[q] # key[r]
  BY <1>0, <1>2 DEF FlightInv, Leading
<1>4. /\ ok => Published(call[r])'
      /\ \A i : i # call[r] => (Published(i)' <=> Published(i))
      /\ ~Published(call[r])
  BY <1>0, <1>2 DEF Published, Leading
<1>5. RoomInv'
  BY <1>0, RoomShrinks, RegistryAssumption DEF LookingUp, RegistryTypeOK
<1>6. ParentInv'
  BY <1>0, ParentType DEF ParentInv
<1>7. LedInv'
  <2>1. \A q \in Resolvers : at'[q] \in Leading <=> at[q] \in Leading
    BY <1>0 DEF Leading
  <2> QED BY <1>0, <2>1 DEF LedInv
<1>8. FlightInv'
  <2>1. \A q \in Resolvers : at'[q] \in Opening => q # r /\ at[q] \in Opening
    BY <1>0 DEF Opening
  <2>2. \A q \in Resolvers : at'[q] \in Opening => inflight'[key'[q]] = call'[q]
    BY <1>0, <1>3, <2>1 DEF FlightInv, RegistryTypeOK
  <2>3. ASSUME NEW k \in Key, inflight'[k] # Nil
        PROVE  /\ cache'[k] = Nil
               /\ \E q \in Resolvers : at'[q] \in Opening /\ key'[q] = k
    <3>1. k # key[r] /\ inflight[k] # Nil /\ cache'[k] = cache[k]
      BY <1>0, <2>3
    <3>2. PICK q \in Resolvers : at[q] \in Opening /\ key[q] = k
      BY <3>1 DEF FlightInv
    <3> QED BY <1>0, <3>1, <3>2 DEF FlightInv
  <2> QED BY <2>2, <2>3 DEF FlightInv
<1>9. CacheInv'
  <2>1. ASSUME NEW k \in Key, cache'[k] # Nil
        PROVE  callKey'[cache'[k]] = k /\ Published(cache[k])'
    <3>1. CASE k = key[r]
      BY <1>0, <1>4, <2>1, <3>1
    <3>2. CASE k # key[r]
      <4>1. cache'[k] = cache[k] /\ callKey[cache[k]] = k /\ Published(cache[k])
        BY <1>0, <2>1, <3>2 DEF CacheInv
      <4> QED BY <1>0, <1>4, <4>1
    <3> QED BY <3>1, <3>2
  <2>2. \A q \in Resolvers : at'[q] = "wait" =>
          call'[q] \in 1..calls' /\ callKey'[call'[q]] = key'[q]
    BY <1>0 DEF CacheInv
  <2>3. ASSUME NEW q \in Resolvers, at'[q] = "returned", call'[q] # Nil
        PROVE  callKey'[call'[q]] = key'[q] /\ Published(call[q])'
    <3>1. at[q] = "returned" /\ callKey[call[q]] = key[q] /\ Published(call[q])
      BY <1>0, <2>3 DEF CacheInv
    <3> QED BY <1>0, <1>4, <3>1
  <2> QED BY <2>1, <2>2, <2>3 DEF CacheInv
<1>10. GenInv'
  <2>1. \A i \in 1..calls : i \in Call /\ callKey[i] \in Key
    BY RegistryAssumption DEF RegistryTypeOK, Call
  <2>2. \A i : Published(i)' => Published(i) \/ (i = call[r] /\ ok)
    BY <1>0, <1>2, <1>4 DEF Published, Leading
  \* No published call has the key and the generation of r's call.
  <2>3. \A i \in 1..calls :
          Published(i) /\ callKey[i] = key[r] => callGen[i] # callGen[call[r]]
    BY <1>0 DEF GenInv
  \* No published call for r's key is of the registration in force: it would
  \* be cached.
  <2>4. \A i \in 1..calls : Published(i) /\ callKey[i] = key[r] =>
          callGen[i] # openers[key[r][1]]
    BY <1>0 DEF GenInv, Nil
  <2>5. \A i \in 1..calls :
          Published(i)' /\ callGen[i] = openers[callKey[i][1]] => cache'[callKey[i]] = i
    BY <1>0, <2>1, <2>2, <2>4 DEF GenInv
  <2>6. \A q \in Resolvers, i \in 1..calls :
          at'[q] \in Opening /\ Published(i)' /\ callKey[i] = key[q] =>
            callGen[i] # callGen[call[q]]
    <3>1. \A q \in Resolvers : at'[q] \in Opening =>
            q # r /\ at[q] \in Opening /\ key[q] # key[r]
      BY <1>0, <1>3 DEF Opening
    <3> QED BY <1>0, <2>2, <3>1 DEF GenInv
  <2>7. \A i, j \in 1..calls :
          Published(i)' /\ Published(j)' /\ callKey[i] = callKey[j]
            /\ callGen[i] = callGen[j] => i = j
    BY <1>0, <2>2, <2>3 DEF GenInv
  <2> QED BY <1>0, <2>5, <2>6, <2>7 DEF GenInv
<1> QED BY <1>1, <1>5, <1>6, <1>7, <1>8, <1>9, <1>10

\* call.done is closed: the leader's call stays published, or was never.
LEMMA FinishStep ==
  ASSUME RegistryInv, NEW r \in Resolvers, Finish(r) PROVE RegistryInv'
<1> USE DEF RegistryInv
<1> DEFINE ok == at[r] = "close"
<1>0. /\ at[r] \in {"close", "abort"} /\ at'[r] = "returned"
      /\ call[r] \in Call /\ call[r] # Nil
      /\ callKey[call[r]] = key[r] /\ callState[call[r]] = "running"
      /\ call'[r] = (IF ok THEN call[r] ELSE Nil)
      /\ \A q \in Resolvers \ {r} : at'[q] = at[q] /\ call'[q] = call[q]
      /\ callState'[call[r]] = (IF ok THEN "ok" ELSE "err")
      /\ \A i \in Call \ {call[r]} : callState'[i] = callState[i]
      /\ UNCHANGED <<openers, cache, inflight, calls, callKey, callGen,
                     key, since, parent>>
  <2>1. at[r] \in {"close", "abort"} /\ at[r] \in Leading
    BY DEF Finish, Leading
  <2>2. /\ call[r] \in Call /\ call[r] # Nil
        /\ callKey[call[r]] = key[r] /\ callState[call[r]] = "running"
    BY <2>1 DEF LedInv, RegistryTypeOK
  <2> QED BY <2>1, <2>2 DEF Finish, Return, regVars, RegistryTypeOK
<1>1. RegistryTypeOK'
  BY <1>0 DEF Finish, Return, RegistryTypeOK, PC
<1>2. \A q \in Resolvers \ {r} : at[q] \in Leading => call[q] # call[r]
  BY <1>0 DEF LedInv, Leading
<1>3. \A i \in Call : Published(i)' <=> Published(i)
  <2>1. ASSUME NEW i \in Call, i # call[r] PROVE Published(i)' <=> Published(i)
    BY <1>0, <2>1 DEF Published
  <2>2. ASSUME NEW i \in Call, i = call[r] PROVE Published(i)' <=> Published(i)
    BY <1>0, <1>2, <2>2 DEF Published, Leading
  <2> QED BY <2>1, <2>2
<1>4. RoomInv'
  BY <1>0, RoomShrinks, RegistryAssumption DEF LookingUp, RegistryTypeOK
<1>5. ParentInv'
  BY <1>0, ParentType DEF ParentInv
<1>6. LedInv'
  <2>1. \A q \in Resolvers : at'[q] \in Leading <=> at[q] \in Leading /\ q # r
    BY <1>0 DEF Leading, Opening
  <2>2. \A q \in Resolvers : at'[q] \in Leading =>
          /\ call'[q] = call[q] /\ call[q] \in Call /\ call[q] # Nil /\ call[q] # call[r]
          /\ callState[call[q]] = "running" /\ callKey[call[q]] = key[q]
    BY <1>0, <1>2, <2>1 DEF LedInv, RegistryTypeOK
  <2>3. ASSUME NEW i \in Call, callState'[i] = "running"
        PROVE  \E q \in Resolvers : at'[q] \in Leading /\ call'[q] = i
    <3>1. i # call[r] /\ callState[i] = "running"
      BY <1>0, <2>3
    <3>2. PICK q \in Resolvers : at[q] \in Leading /\ call[q] = i
      BY <3>1 DEF LedInv
    <3> QED BY <1>0, <2>1, <3>1, <3>2
  <2>4. \A i \in Call : callState'[i] = "none" <=> i > calls'
    BY <1>0 DEF LedInv
  <2>5. \A p, q \in Resolvers :
          at'[p] \in Leading /\ at'[q] \in Leading /\ call'[p] = call'[q] => p = q
    BY <2>1, <2>2 DEF LedInv
  <2>6. \A q \in Resolvers : at'[q] \in Leading =>
          /\ call'[q] # Nil /\ callState'[call'[q]] = "running"
          /\ callKey'[call'[q]] = key'[q]
    BY <1>0, <2>2
  <2> QED BY <2>3, <2>4, <2>5, <2>6 DEF LedInv
<1>7. FlightInv'
  <2>1. \A q \in Resolvers : at'[q] \in Opening <=> at[q] \in Opening
    BY <1>0 DEF Opening
  <2>2. \A q \in Resolvers : at[q] \in Opening => q # r
    BY <1>0 DEF Opening
  <2> QED BY <1>0, <2>1, <2>2 DEF FlightInv
<1>8. CacheInv'
  <2>1. ASSUME NEW k \in Key, cache'[k] # Nil
        PROVE  callKey'[cache'[k]] = k /\ Published(cache[k])'
    <3>1. cache[k] \in Call /\ callKey[cache[k]] = k /\ Published(cache[k])
      BY <1>0, <2>1 DEF CacheInv, RegistryTypeOK
    <3> QED BY <1>0, <1>3, <3>1
  <2>2. \A q \in Resolvers : at'[q] = "wait" =>
          call'[q] \in 1..calls' /\ callKey'[call'[q]] = key'[q]
    BY <1>0 DEF CacheInv
  <2>3. ASSUME NEW q \in Resolvers, at'[q] = "returned", call'[q] # Nil
        PROVE  callKey'[call'[q]] = key'[q] /\ Published(call[q])'
    <3>1. CASE q = r
      <4>1. ok /\ call'[q] = call[r] /\ Published(call[r])
        BY <1>0, <2>3, <3>1 DEF Published
      <4> QED BY <1>0, <1>3, <3>1, <4>1
    <3>2. CASE q # r
      <4>1. /\ call'[q] = call[q] /\ call[q] \in Call
            /\ callKey[call[q]] = key[q] /\ Published(call[q])
        BY <1>0, <2>3, <3>2 DEF CacheInv, RegistryTypeOK
      <4> QED BY <1>0, <1>3, <4>1
    <3> QED BY <3>1, <3>2
  <2> QED BY <2>1, <2>2, <2>3 DEF CacheInv
<1>9. GenInv'
  <2>1. \A i \in 1..calls : i \in Call
    BY RegistryAssumption DEF RegistryTypeOK, Call
  <2>2. \A i \in 1..calls : Published(i)' <=> Published(i)
    BY <1>3, <2>1
  <2>3. \A q \in Resolvers : at'[q] \in Opening => at[q] \in Opening /\ call'[q] = call[q]
    BY <1>0 DEF Opening
  <2> QED BY <1>0, <2>2, <2>3 DEF GenInv
<1> QED BY <1>1, <1>4, <1>5, <1>6, <1>7, <1>8, <1>9

\* Every step of Register and Resolve keeps the invariant.
LEMMA RegistryInvStep == RegistryInv /\ [RegistryNext]_registryVars => RegistryInv'
<1> SUFFICES ASSUME RegistryInv, [RegistryNext]_registryVars PROVE RegistryInv'
  OBVIOUS
<1>1. ASSUME NEW r \in Resolvers, Step(r) PROVE RegistryInv'
  BY <1>1, CachedStep, JoinStep, UnregisteredStep, LeadOpenStep, OpenerReturnsStep,
     OpenerPanicsStep, UnwindStep, PublishStep, FinishStep, JoinedStep, ResumeStep
  DEF Step
<1>2. ASSUME UNCHANGED registryVars PROVE RegistryInv'
  <2> USE <1>2 DEF RegistryInv, registryVars, regVars, callVars, resolverVars
  <2>1. RegistryTypeOK'
    BY DEF RegistryTypeOK
  <2>2. RoomInv' /\ ParentInv' /\ LedInv' /\ FlightInv'
    BY DEF RoomInv, LookingUp, ParentInv, LedInv, FlightInv
  <2>3. \A i : Published(i)' <=> Published(i)
    BY DEF Published
  <2>4. CacheInv' /\ GenInv'
    BY <2>3 DEF CacheInv, GenInv
  <2> QED BY <2>1, <2>2, <2>4
<1> QED BY <1>1, <1>2, RegisterStep, StartStep DEF RegistryNext

\* The registry's maps, its calls and its resolvers agree, for any number of
\* goroutines, registrations and opener calls (registry.go:49-58, 112-155).
THEOREM RegistryInvariant == RegistrySpec => []RegistryInv
  BY RegistryInvInit, RegistryInvStep, PTL DEF RegistrySpec

\* Of one key at most one opener call is running, however many goroutines
\* resolve it and whatever is registered meanwhile (registry.go:134-138).
THEOREM OpenersNeverOverlap == RegistrySpec => []SingleFlight
<1>1. RegistryInv => SingleFlight
  <2> SUFFICES ASSUME RegistryInv, NEW q \in Resolvers, NEW r \in Resolvers,
                      at[q] \in Opening, at[r] \in Opening, key[q] = key[r]
               PROVE  q = r
    BY DEF SingleFlight
  <2>1. call[q] = call[r]
    BY DEF RegistryInv, FlightInv
  <2> QED BY <2>1 DEF RegistryInv, LedInv, Leading
<1> QED BY <1>1, RegistryInvariant, PTL

\* One registration opens each key of its scheme successfully at most once,
\* and whoever resolves the key shares that store (registry.go:11-15, 134-138).
THEOREM StoreIsShared == RegistrySpec => []SharedStore
<1>1. RegistryInv => SharedStore
  BY DEF RegistryInv, GenInv, Published, SharedStore
<1> QED BY <1>1, RegistryInvariant, PTL

\* A store handed out was opened for the key that was asked for, by an opener
\* that did not fail (registry.go:141-155).
THEOREM StoreIsRight == RegistrySpec => []RightStore
<1>1. RegistryInv => RightStore
  <2> SUFFICES ASSUME RegistryInv, NEW r \in Resolvers,
                      at[r] = "returned", call[r] # Nil
               PROVE  callKey[call[r]] = key[r] /\ callState[call[r]] # "err"
    BY DEF RightStore
  <2>1. callKey[call[r]] = key[r] /\ Published(call[r])
    BY DEF RegistryInv, CacheInv
  <2>2. Published(call[r]) => callState[call[r]] \in {"ok", "running"}
    BY DEF RegistryInv, LedInv, Leading, Published
  <2> QED BY <2>1, <2>2
<1> QED BY <1>1, RegistryInvariant, PTL
=============================================================================
