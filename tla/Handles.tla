------------------------------ MODULE Handles ------------------------------
(***************************************************************************)
(* Ownership of the cgo.Handle tokens through which the engine reaches Go  *)
(* tables, scalar functions, catalogs and catalog schemas.                 *)
(*                                                                         *)
(* A Register method mints a handle and gives it to the engine             *)
(* (lib.rs, the df_session_register entries), which checks the name, wraps *)
(* the handle in a provider whose Drop releases it, and registers it.      *)
(* A statement resolves names to tables and functions, keeps them while it *)
(* runs (the engine is external: this much is assumed of it), and copies   *)
(* the tables' raw handles into its execution plan (table.rs, scan and     *)
(* insert_into).  Tables of a Go catalog are resolved by lookups that mint *)
(* a schema handle, dropped after the lookup, and a table handle           *)
(* (catalog.rs).  Freeing the session drops everything registered.         *)
(*                                                                         *)
(* The session itself is its contract, SessionContract: registrations and  *)
(* statements hold the same read lock, so they run concurrently.           *)
(***************************************************************************)
EXTENDS SessionContract, Naturals, FiniteSets

CONSTANTS
  Names,        \* names that can be registered
  BadNames,     \* names the engine cannot check: invalid UTF-8, or a table
                \* name qualified with a catalog that does not exist
  DefaultName,  \* the engine's default catalog name
  MaxHandles    \* bound on the handles minted

ASSUME HandlesAssumption ==
  /\ MaxHandles \in Nat
  /\ DefaultName \in Names
  /\ Names \cap BadNames = {}

Handle == 1..MaxHandles
None == 0
Kinds == {"table", "udf", "catalog"}
Slots == Kinds \X Names
Requests == Kinds \X (Names \cup BadNames)
NoSlot == <<"none", DefaultName>>

VARIABLES
  minted,       \* number of handles minted so far
  hstate,       \* each handle: "unminted", "live" or "released"
  releases,     \* how often each handle was released
  reg,          \* the engine's registries: the handle in each slot, or None
  step,         \* what each caller is doing in the engine
  slot,         \* the kind and name it is registering
  own,          \* the handle its registration owns, not yet in a registry
  cur,          \* the catalog or schema its lookup is calling, or None
  pins,         \* the tables and functions its statement holds
  raw,          \* the handles copied into its execution plan
  leaked,       \* handles whose registration ended with nobody owning them
  misused       \* handles called back after their release

handleVars == <<minted, hstate, releases>>
callVars == <<step, slot, own, cur, pins, raw>>
historyVars == <<leaked, misused>>
vars == <<contractVars, handleVars, reg, callVars, historyVars>>

Registering == {"check", "make", "insert"}
Querying == {"plan", "schema", "table", "exec", "failed"}
Steps == {"idle"} \cup Registering \cup Querying

Init ==
  /\ ContractInit
  /\ minted = 0
  /\ hstate = [h \in Handle |-> "unminted"]
  /\ releases = [h \in Handle |-> 0]
  /\ reg = [s \in Slots |-> None]
  /\ step = [c \in Callers |-> "idle"]
  /\ slot = [c \in Callers |-> NoSlot]
  /\ own = [c \in Callers |-> None]
  /\ cur = [c \in Callers |-> None]
  /\ pins = [c \in Callers |-> {}]
  /\ raw = [c \in Callers |-> {}]
  /\ leaked = {}
  /\ misused = {}
-----------------------------------------------------------------------------
Registered(r) == {r[s] : s \in Slots} \ {None}
Held(k, p) == ({k[c] : c \in Callers} \ {None}) \cup UNION {p[c] : c \in Callers}

\* Dropping references to the handles in S, after which the registries are r,
\* the lookups hold k and the statements p: a provider is dropped, and its
\* handle released, with the last reference to it (impl Drop).
Unreferenced(S, r, k, p) == S \ (Registered(r) \cup Held(k, p))

\* cgo.NewHandle for handle h, and go_*_release for the handles in R.
Account(h, R) ==
  /\ hstate' = [x \in Handle |-> IF x \in R THEN "released"
                                 ELSE IF x = h THEN "live" ELSE hstate[x]]
  /\ releases' = [x \in Handle |-> IF x \in R THEN releases[x] + 1
                                              ELSE releases[x]]
  /\ minted' = IF h = None THEN minted ELSE h

Release(R) == Account(None, R)
NextHandle == minted + 1

\* Go is called back on handle h: go_table_schema, go_table_scan,
\* go_table_insert, go_scalar_udf_invoke, go_catalog_* and go_schema_*.
Callback(h) ==
  misused' = IF hstate[h] = "live" THEN misused ELSE misused \cup {h}
-----------------------------------------------------------------------------
(* Registration *)

\* RegisterTable / RegisterScalarUDF / RegisterCatalog, up to the FFI call.
StartRegister(c, s) ==
  /\ Admit(c)
  /\ NextHandle \in Handle
  /\ Account(NextHandle, {})
  /\ step' = [step EXCEPT ![c] = "check"]
  /\ slot' = [slot EXCEPT ![c] = s]
  /\ own' = [own EXCEPT ![c] = NextHandle]
  /\ UNCHANGED <<reg, cur, pins, raw, historyVars>>

\* The FFI call returns to Go.
Return(c) ==
  /\ Leave(c)
  /\ step' = [step EXCEPT ![c] = "idle"]
  /\ slot' = [slot EXCEPT ![c] = NoSlot]
  /\ own' = [own EXCEPT ![c] = None]
  /\ UNCHANGED <<cur, pins, raw>>

\* Has a Go catalog replaced the engine's default catalog, in which
\* RegisterTable registers?
DefaultReplaced == reg[<<"catalog", DefaultName>>] # None
GoDefault(c) == slot[c][1] = "table" /\ DefaultReplaced

\* The existence check itself fails, as the name cannot be converted or
\* resolved.  Only functions release their handle on this path.
CheckFails(c) ==
  /\ step[c] = "check"
  /\ slot[c][2] \in BadNames
  /\ Return(c)
  /\ IF slot[c][1] = "udf"
     THEN Release({own[c]}) /\ UNCHANGED leaked
     ELSE leaked' = leaked \cup {own[c]} /\ UNCHANGED handleVars
  /\ UNCHANGED <<reg, misused>>

\* RegisterTable while a Go catalog is the default: table_exist looks the
\* schema up, through a handle for this check only, and lists its tables.  A
\* Go error is raised as a panic, which forgets the handle being registered.
CheckGoDefault(c) ==
  /\ step[c] = "check"
  /\ slot[c] \in Slots
  /\ GoDefault(c)
  /\ NextHandle \in Handle
  /\ Callback(reg[<<"catalog", DefaultName>>])
  /\ \/ /\ Return(c)
        /\ leaked' = leaked \cup {own[c]}
        /\ Account(NextHandle, {NextHandle}) \/ UNCHANGED handleVars
     \/ /\ Return(c)
        /\ Account(NextHandle, {NextHandle, own[c]})
        /\ UNCHANGED leaked
     \/ /\ step' = [step EXCEPT ![c] = "make"]
        /\ Account(NextHandle, {NextHandle})
        /\ UNCHANGED <<contractVars, slot, own, cur, pins, raw, leaked>>
  /\ UNCHANGED reg

\* Is the name taken?  The default catalog's name never is.
Taken(s) == reg[s] # None /\ s # <<"catalog", DefaultName>>

\* A rejected duplicate whose handle the engine forgets.
ForgetfulCheckTaken(c) ==
  /\ step[c] = "check"
  /\ slot[c] \in Slots
  /\ ~GoDefault(c) /\ Taken(slot[c])
  /\ Return(c)
  /\ UNCHANGED <<reg, historyVars, handleVars>>

\* "... is already registered": the handle is released before returning.
CheckTaken(c) ==
  /\ step[c] = "check"
  /\ slot[c] \in Slots
  /\ ~GoDefault(c) /\ Taken(slot[c])
  /\ Return(c)
  /\ Release({own[c]})
  /\ UNCHANGED <<reg, historyVars>>

CheckFree(c) ==
  /\ step[c] = "check"
  /\ slot[c] \in Slots
  /\ ~GoDefault(c) /\ ~Taken(slot[c])
  /\ step' = [step EXCEPT ![c] = IF slot[c][1] = "catalog" THEN "insert"
                                                           ELSE "make"]
  /\ UNCHANGED <<contractVars, handleVars, reg, slot, own, cur, pins, raw,
                 historyVars>>

\* GoTableProvider::try_new fetches the schema from Go; a function's types
\* are imported.  Either can fail, and releases the handle.
AskSchema(c) ==
  IF slot[c][1] = "table" THEN Callback(own[c]) ELSE UNCHANGED misused

MakeFails(c) ==
  /\ step[c] = "make"
  /\ AskSchema(c)
  /\ Return(c)
  /\ Release({own[c]})
  /\ UNCHANGED <<reg, leaked>>

MakeProvider(c) ==
  /\ step[c] = "make"
  /\ AskSchema(c)
  /\ step' = [step EXCEPT ![c] = "insert"]
  /\ UNCHANGED <<contractVars, handleVars, reg, slot, own, cur, pins, raw, leaked>>

\* ctx.register_table refuses a name that is taken by now: the provider is
\* dropped.
InsertRefused(c) ==
  /\ step[c] = "insert"
  /\ slot[c][1] = "table" /\ ~DefaultReplaced
  /\ reg[slot[c]] # None
  /\ Return(c)
  /\ Release({own[c]})
  /\ UNCHANGED <<reg, historyVars>>

\* A Go catalog as default takes no tables.  ctx.register_table looks its
\* schema up first, which finds one, finds none or panics with Go's error; the
\* provider is dropped in each case, and so is a schema that was found.
InsertGoDefault(c) ==
  /\ step[c] = "insert"
  /\ GoDefault(c)
  /\ NextHandle \in Handle
  /\ Callback(reg[<<"catalog", DefaultName>>])
  /\ Return(c)
  /\ Account(NextHandle, {NextHandle, own[c]}) \/ Release({own[c]})
  /\ UNCHANGED <<reg, leaked>>

\* The registries once handle h is in slot s.  ctx.register_udf and
\* ctx.register_catalog replace what they find, and replacing the default
\* catalog drops the tables that were registered in it.
Inserted(s, h) ==
  [x \in Slots |-> IF x = s THEN h
                   ELSE IF s = <<"catalog", DefaultName>> /\ x[1] = "table"
                   THEN None
                   ELSE reg[x]]

\* Registering a table overwrites, like the other two.
OverwritingInsert(c) ==
  /\ step[c] = "insert"
  /\ slot[c][1] = "table" => ~DefaultReplaced
  /\ reg' = Inserted(slot[c], own[c])
  /\ Return(c)
  /\ Release(Unreferenced(Registered(reg), reg', cur, pins))
  /\ UNCHANGED historyVars

Insert(c) ==
  /\ step[c] = "insert"
  /\ slot[c][1] = "table" => reg[slot[c]] = None /\ ~DefaultReplaced
  /\ reg' = Inserted(slot[c], own[c])
  /\ Return(c)
  /\ Release(Unreferenced(Registered(reg), reg', cur, pins))
  /\ UNCHANGED historyVars
-----------------------------------------------------------------------------
(* Statements *)

StartQuery(c) ==
  /\ Admit(c)
  /\ step' = [step EXCEPT ![c] = "plan"]
  /\ UNCHANGED <<handleVars, reg, slot, own, cur, pins, raw, historyVars>>

\* The planner resolves a registered table or function.
Resolve(c, s) ==
  /\ step[c] = "plan"
  /\ s[1] \in {"table", "udf"}
  /\ reg[s] # None
  /\ pins' = [pins EXCEPT ![c] = @ \cup {reg[s]}]
  /\ UNCHANGED <<contractVars, handleVars, reg, step, slot, own, cur, raw,
                 historyVars>>

\* The planner finds the catalog of a qualified name.
ResolveCatalog(c, n) ==
  /\ step[c] = "plan"
  /\ reg[<<"catalog", n>>] # None
  /\ cur' = [cur EXCEPT ![c] = reg[<<"catalog", n>>]]
  /\ step' = [step EXCEPT ![c] = "schema"]
  /\ UNCHANGED <<contractVars, handleVars, reg, slot, own, pins, raw, historyVars>>

\* schema_names and table_names ask the catalog or the schema for its names.
ListNames(c) ==
  /\ step[c] \in {"schema", "table"}
  /\ Callback(cur[c])
  /\ UNCHANGED <<contractVars, handleVars, reg, callVars, leaked>>

\* The lookup's catalog or schema is dropped for its successor k (or None),
\* and h is minted; the statement goes on at step s.
Proceed(c, s, k, h) ==
  /\ cur' = [cur EXCEPT ![c] = k]
  /\ step' = [step EXCEPT ![c] = s]
  /\ Account(h, Unreferenced({cur[c]}, reg, cur', pins'))
  /\ UNCHANGED <<contractVars, reg, slot, own, raw, leaked>>

\* GoCatalogProvider::schema: the lookup calls the catalog and mints a schema
\* handle; it finds none, or the error is raised as a panic.
LookupSchema(c) ==
  /\ step[c] = "schema"
  /\ NextHandle \in Handle
  /\ Callback(cur[c])
  /\ UNCHANGED pins
  /\ \/ Proceed(c, "table", NextHandle, NextHandle)
     \/ Proceed(c, "failed", None, None)

\* GoSchemaProvider::table: the lookup calls the schema, mints a table handle
\* and fetches the table's schema.
LookupTable(c) ==
  /\ step[c] = "table"
  /\ NextHandle \in Handle
  /\ Callback(cur[c])
  /\ pins' = [pins EXCEPT ![c] = @ \cup {NextHandle}]
  /\ Proceed(c, "plan", None, NextHandle)

\* It finds none, or fails; a table whose schema cannot be had is released by
\* try_new.
LookupTableFails(c) ==
  /\ step[c] = "table"
  /\ NextHandle \in Handle
  /\ Callback(cur[c])
  /\ cur' = [cur EXCEPT ![c] = None]
  /\ step' = [step EXCEPT ![c] = "failed"]
  /\ LET dropped == Unreferenced({cur[c]}, reg, cur', pins)
     IN Account(None, dropped) \/ Account(NextHandle, dropped \cup {NextHandle})
  /\ UNCHANGED <<contractVars, reg, slot, own, pins, raw, leaked>>

\* The plan's nodes keep raw handles only, and the providers go early.
UnpinningPlan(c) ==
  /\ step[c] = "plan"
  /\ pins[c] # {}
  /\ raw' = [raw EXCEPT ![c] = pins[c]]
  /\ pins' = [pins EXCEPT ![c] = {}]
  /\ Release(Unreferenced(pins[c], reg, cur, pins'))
  /\ step' = [step EXCEPT ![c] = "exec"]
  /\ UNCHANGED <<contractVars, reg, slot, own, cur, historyVars>>

\* TableProvider::scan / insert_into copy the raw handles into the plan.
PlanPhysical(c) ==
  /\ step[c] = "plan"
  /\ pins[c] # {}
  /\ raw' = [raw EXCEPT ![c] = pins[c]]
  /\ step' = [step EXCEPT ![c] = "exec"]
  /\ UNCHANGED <<contractVars, handleVars, reg, slot, own, cur, pins, historyVars>>

\* A scan, an insert or a function call reaches Go.
Execute(c) ==
  /\ step[c] = "exec"
  /\ \E h \in raw[c] : Callback(h)
  /\ UNCHANGED <<contractVars, handleVars, reg, callVars, leaked>>

\* The statement releases what it used, whoever else refers to it.
EagerEndQuery(c) ==
  /\ step[c] \in Querying
  /\ Leave(c)
  /\ step' = [step EXCEPT ![c] = "idle"]
  /\ cur' = [cur EXCEPT ![c] = None]
  /\ pins' = [pins EXCEPT ![c] = {}]
  /\ raw' = [raw EXCEPT ![c] = {}]
  /\ Release(pins[c] \cup ({cur[c]} \ {None}))
  /\ UNCHANGED <<reg, slot, own, historyVars>>

\* The statement ends, with rows or with an error at any stage: its plan and
\* the providers it resolved are dropped.
EndQuery(c) ==
  /\ step[c] \in Querying
  /\ Leave(c)
  /\ step' = [step EXCEPT ![c] = "idle"]
  /\ cur' = [cur EXCEPT ![c] = None]
  /\ pins' = [pins EXCEPT ![c] = {}]
  /\ raw' = [raw EXCEPT ![c] = {}]
  /\ Release(Unreferenced(pins[c] \cup ({cur[c]} \ {None}), reg, cur', pins'))
  /\ UNCHANGED <<reg, slot, own, historyVars>>

\* DROP TABLE n, one of the statements SQL accepts.
DropTable(c, n) ==
  /\ step[c] = "plan"
  /\ pins[c] = {}
  /\ reg[<<"table", n>>] # None
  /\ Leave(c)
  /\ step' = [step EXCEPT ![c] = "idle"]
  /\ reg' = [reg EXCEPT ![<<"table", n>>] = None]
  /\ Release(Unreferenced({reg[<<"table", n>>]}, reg', cur, pins))
  /\ UNCHANGED <<slot, own, cur, pins, raw, historyVars>>
-----------------------------------------------------------------------------
\* df_session_free drops the context and with it every registry.
FreeSession ==
  /\ Free \/ Reclaim
  /\ reg' = [s \in Slots |-> None]
  /\ Release(Registered(reg))
  /\ UNCHANGED <<callVars, historyVars>>

StartClose ==
  /\ BeginClose
  /\ UNCHANGED <<handleVars, reg, callVars, historyVars>>

CallerNext(c) ==
  \/ \E s \in Requests : StartRegister(c, s)
  \/ CheckFails(c) \/ CheckGoDefault(c) \/ CheckTaken(c) \/ CheckFree(c)
  \/ MakeFails(c) \/ MakeProvider(c) \/ InsertRefused(c)
  \/ InsertGoDefault(c) \/ Insert(c)
  \/ StartQuery(c)
  \/ \E s \in Slots : Resolve(c, s)
  \/ \E n \in Names : ResolveCatalog(c, n) \/ DropTable(c, n)
  \/ ListNames(c) \/ LookupSchema(c) \/ LookupTable(c) \/ LookupTableFails(c)
  \/ PlanPhysical(c) \/ Execute(c) \/ EndQuery(c)

Next ==
  \/ \E c \in Callers : CallerNext(c)
  \/ StartClose
  \/ FreeSession

Spec == Init /\ [][Next]_vars
-----------------------------------------------------------------------------
(* Properties *)

TypeOK ==
  /\ ContractTypeOK
  /\ minted \in 0..MaxHandles
  /\ hstate \in [Handle -> {"unminted", "live", "released"}]
  /\ releases \in [Handle -> Nat]
  /\ reg \in [Slots -> Handle \cup {None}]
  /\ step \in [Callers -> Steps]
  /\ slot \in [Callers -> Requests \cup {NoSlot}]
  /\ own \in [Callers -> Handle \cup {None}]
  /\ cur \in [Callers -> Handle \cup {None}]
  /\ pins \in [Callers -> SUBSET Handle]
  /\ raw \in [Callers -> SUBSET Handle]
  /\ leaked \subseteq Handle
  /\ misused \subseteq Handle

\* A handle is live as long as a registration owns it, a registry or a
\* statement refers to it, or it has leaked, and no longer.
Referenced(h) ==
  \/ \E c \in Callers : own[c] = h
  \/ h \in Registered(reg) \cup Held(cur, pins)
LiveIffReferenced ==
  \A h \in Handle : hstate[h] = "live" <=> Referenced(h) \/ h \in leaked

\* Handles are minted in order; one is released when it stops being live.
MintInv ==
  \A h \in Handle :
    /\ hstate[h] = "unminted" <=> h > minted
    /\ releases[h] = IF hstate[h] = "released" THEN 1 ELSE 0

\* A registration under way is the only owner of its handle, and a leaked
\* handle has none.
OwnerInv ==
  /\ \A c \in Callers :
       /\ own[c] # None <=> step[c] \in Registering
       /\ step[c] \in Registering => slot[c] \in Requests
       /\ step[c] \in {"make", "insert"} => slot[c] \in Slots
       /\ own[c] \notin Registered(reg) \cup Held(cur, pins) \cup leaked
  /\ \A c, d \in Callers : own[c] = own[d] /\ own[c] # None => c = d
  /\ leaked \cap (Registered(reg) \cup Held(cur, pins)) = {}

\* A plan's bare handles are handles of providers that its statement holds.
PinInv == \A c \in Callers : raw[c] \subseteq pins[c]

\* Outside the engine a caller holds nothing, and the freed session nothing
\* either.
QuietInv ==
  /\ \A c \in Callers :
       /\ step[c] = "idle" <=> c \notin running
       /\ step[c] \notin Querying => pins[c] = {}
       /\ cur[c] # None <=> step[c] \in {"schema", "table"}
  /\ phase = "freed" => running = {} /\ Registered(reg) = {}

\* The inductive invariant behind the ownership rules of design D2: every
\* handle has exactly one kind of owner at every moment of its life, and is
\* released once, when the last of them is gone
\* (lib.rs:147-150, table.rs:84-88, catalog.rs:36-40).
HandlesInv ==
  /\ TypeOK
  /\ LiveIffReferenced
  /\ MintInv
  /\ OwnerInv
  /\ PinInv
  /\ QuietInv
  /\ misused = {}

\* Go is never called back on a handle it has released, although execution
\* plans hold bare handles: not while another caller drops the table,
\* replaces the catalog it came from, or closes the session
\* (table.rs:134-136: "so copying the raw handle is safe").
NoCallbackAfterRelease == misused = {}

\* The handles that outlive the freed session are exactly those of the
\* registrations whose existence check failed: with an error (CheckFails) or
\* by a panic for Go's error (CheckGoDefault).  Nothing else is left behind,
\* and what they left nobody releases later (lib.rs:181-197, catalog.rs:36-40,
\* table.rs:84-88).
FreedLeavesOnlyLeaks ==
  phase = "freed" => {h \in 1..minted : hstate[h] # "released"} = leaked

\* lib.rs:147-149: "On success the engine retains it until the session is
\* freed; on failure it is released via `go_table_release` before returning".
\* A catalog's handle "follows the same ownership contract" (lib.rs:292-293).
FailedRegistrationReleases ==
  [][\A c \in Callers :
       own[c] # None /\ own'[c] = None =>
         own[c] \in Registered(reg') \/ hstate'[own[c]] = "released"]_vars

\* A registered table stays until DROP TABLE, the replacement of the default
\* catalog, or the session's end: two registrations of one name that both
\* find it free cannot replace each other (table.go:128-130).
TableRegistrationSticks ==
  [][\A n \in Names :
       LET s == <<"table", n>> IN
       reg[s] # None /\ reg'[s] # reg[s] => reg'[s] = None]_reg

\* udf.go:93-95: "Registering a name that is already in use ... returns an
\* error and leaves the existing function unchanged."
FunctionRegistrationSticks ==
  [][\A n \in Names :
       LET s == <<"udf", n>> IN
       reg[s] # None /\ reg'[s] # reg[s] => reg'[s] = None]_reg
=============================================================================
