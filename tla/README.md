# A TLA+ verification project for datafusion-golang

datafusion-golang gives Go programs the DataFusion query engine through a C ABI
(`rust/datafusion-c-abi`, called by cgo) and lets Go code supply tables,
catalogs and scalar functions that the engine calls back. Around that core stand
an object-store layer (`objectstore`) and file-format providers (`providers`).

This directory holds TLA+ models of the parts of that code that keep state and
run concurrently or can fail half way, TLC configurations that check them on
small instances, and TLAPS proofs of the safety properties for every instance.
`PROJECT.json` maps each definition to the source lines it models, and lists
runs, mutants, hazards, findings and theorems.

Running it, from this directory:

    tlc -workers 4 -config Session.cfg Session
    for m in *Proofs.tla; do tlapm $m; done

A run of `PROJECT.json` names its module and its configuration. The eight proof
modules are `SessionProofs`, `HandlesProofs`, `ObjectRegistryProofs`,
`StoresProofs`, `InsertsProofs`, `ParquetInsertProofs`, `IcebergInsertProofs` and
`ScanProofs`.

## 1. The system and its parts

| Part (sources) | State it keeps | Operations | Hard behaviour | What makes it correct |
|---|---|---|---|---|
| Session lifetime (`datafusion/session.go`, `cgo.go`) | RWMutex, `closed`, engine handle, finalizer | `SQL`, `Register*`, `Close`, finalizer | calls racing with Close, several Closes, callbacks that call the session | no use after free, one free, no leak, Close drains and returns |
| Handle ownership (`datafusion/{table,catalog,udf}.go`, `lib.rs`, `table.rs`, `catalog.rs`, `udf.rs`) | cgo handles; the engine's registries; what statements hold | register a table, function or catalog; resolve; look up catalog, schema, table; plan, run, `DROP TABLE`; free | check-then-register races; plans hold bare handles while others drop or replace | every handle released once, never called afterwards |
| Insert bridge (`table.rs`, `ffi.rs`, `go_table_insert`) | bounded channel, pump task, blocking pool | pump, pull, send, receive, join | early return by Go, pump panics, errors in the middle, pool exhaustion | nothing lost, no truncated success, bounded read-ahead, it returns |
| Object store registry (`objectstore/registry.go`) | openers, cache, calls in flight | `Register`, `Resolve` | opener runs unlocked, composes, fails; re-registration meanwhile | single flight, one shared store, right store, waiters woken |
| Store contract (`objectstore/store.go`) | objects, writers, handles | `Open`, `Create`, `Write`, `Close`, `Abort`, `Remove` | – | abstract specification of the backends |
| Local backend (`objectstore/local.go`) | temp files, directory | same | crash between write, sync and rename; failing system calls | commit on Close, never partial |
| In-memory backend (`mem.go`), cloud adapter (`internal/gocloudblob`) | map of buffers; uploads | same | Close/Abort repeated and mixed; cancellation; ranged reads | commit on Close, aborted uploads never surface |
| Parquet insert (`providers/parquet/insert.go`) | `insertMu`, the object | `InsertInto`, `rewrite` | concurrent inserts, insert from itself, failure at each step | as if one by one, failure leaves no trace |
| Iceberg scan reader (`providers/iceberg/reader.go`) | goroutine, channels, reference count, current batch | `Next`, `Retain`, `Release` | Release while the goroutine sends | each batch released once, no goroutine left |
| Parquet scan and pruning (`providers/parquet/{pushdown,skip,stats,bloom,parquet}.go`) | the open file, rows still to produce | `ScanWithOptions`, `Next`, `Release`; the skip rules | missing or one-sided statistics, NaN, unsigned values stored as signed, three-valued logic; errors on every path | a skipped row group holds no matching row; the scan reads enough; the file is closed once |
| Filter wire format (`rust/.../pushdown.rs`, `datafusion/expr.go`) | none | classify a conjunct, write the document, decode it | conjuncts that have a wire form only in part, mirrored comparisons, literals JSON cannot carry | a decoded filter is true of every row its conjunct is true of |
| Iceberg scan (`providers/iceberg/{pushdown,convert,iceberg}.go`, `open_go_scan`) | the loaded table, the translated filter, the projection plan | `ScanWithOptions`, the check of the stream's schema | literals at the edge of their range, filters that translate only in part, reordered and repeated projections, a table changed since registration | iceberg-go drops no matching row; the engine reads exactly the projected fields or nothing |
| Iceberg insert (`providers/iceberg/insert.go`) | `insertMu`, the first batch, the wrapped input, a table handle | `InsertInto`, `fieldIDStrippingReader` | ownership of the batch pulled ahead; input errors; commit conflicts and lost answers | as if one by one, a success is complete, every reference given up once |
| CSV, JSON, JSON Lines (`providers/{csv,json,jsonl}`, `closingreader`) | the open object | construction, `Scan`, `Next`, `Release` | the object replaced after construction, bad rows, failed reads | the object is closed once, no silent loss |
| Cloud scheme registration; examples | none of their own | – | – | not modelled |

How they interact. A Go program calls the session; a statement runs inside the
session's read lock and calls Go back on handles minted at registration or at
lookup. A scan or an insert calls a provider, which resolves its location
through the registry to a store and reads or rewrites objects through the
store contract. The composition in the models follows this: `Handles` extends
`SessionContract` (the session as its callers see it, which `Session` is shown
to implement), the object in `ParquetInsert` behaves as `ObjectStore`
promises, which the backends are shown to implement, and `IcebergScan` follows a
query from the engine's expressions (`FilterWire`) through the translation to
the batches of `SeqReader`.

## 2. The modules

| Module | Models | State and actions |
|---|---|---|
| `SessionContract` | what a session promises | `phase`, `running`; admit, leave, begin close, free, reclaim |
| `Session` | `SessionContext` | the lock as the set of readers and a writer that bars new readers while it waits; one action per step of `SQL`/`Register*` (`RLock`, `LoadClosed`, `EnterEngine`, ...) and of `Close` (`CloseSwap`, `CloseLock`, `CloseDrain`, `CloseFree`, `CloseClear`, `CloseUnlock`); `Finalize`; calls made from callbacks through `parent` (`reentrant` remembers that one was made) |
| `Handles`, `MCHandles` | ownership across the C ABI | handles in order of minting; registries per kind and name; registration as check, make, insert; statements as resolve, schema lookup, table lookup, plan, execute, end; `DropTable`, `FreeSession` |
| `InsertBridge` | `GoDataSink::write_all` and `GoTableExec` | per statement the input, the pump, the channel, the Go call; the pool as a number of threads |
| `ObjectRegistry` | `registry` | openers by generation, cache, calls in flight; a resolver's program counter between lock regions; composing openers through `parent` |
| `ObjectStore` | `Store`, `Object`, `Writer` | objects and their durable versions, writers, open handles |
| `LocalStore` | `localStore` on a file system | directory, inodes, what is on disk; `Close` as sync, close, rename; crash and process end |
| `MemStore`, `CloudStore`, `MCStores` | the other two backends | guarded Close/Abort; upload, PUT, cancellation; ranged reads. `MCStores` puts the three backends in one specification |
| `ParquetInsert` | `InsertInto`/`rewrite` | mutex, input stream, copy of existing rows, batches written, commit or abort; `serial` is the history variable with the one-by-one result |
| `SkipRules` | `skip.go`, `stats.go`, `bloom.go` | operators only: the footer as it is decoded, `colStatsFromTyped`, one `canSkip...` rule per predicate, and what the predicate means |
| `Filters` | the predicates of `expr.go` | operators only: the set of filters by depth (`Leaf`, `Nest`, `Filter`), AND, OR and NOT, and SQL's three-valued truth as a recursive function on a set of filters (`TruthOn`) |
| `ParquetScan` | `ScanWithOptions` and its readers | `Open`, `Examine` for each row group, `OpenReader` or `AllSkipped`, `NextBatch`, `LimitMet`, `NextEnds`, `Release` and the failures; the file's rows are revealed as it is examined |
| `SeqReader` | `readerFromSeq`, `seqReader` | goroutine, item in hand, current batch, reference count, cancel |
| `FilterWire` | `pushdown.rs`, `expr.go` | operators only: the engine's expressions and what they evaluate to, `classify`, `literal`, `filters_to_json`, then `UnmarshalLiteral`, `decodeExpr`, `decodeFilters` |
| `IcebergScan` | a pushdown scan from the engine to the last batch | `Call` (the request is written and decoded), `Load` of a table that may have changed, `Plan` (`convertFilters`, `projectionPlan`), `OpenStream` (with the engine's check of the fields), then the actions of `SeqReader`, which it extends; a stream that is turned down is released |
| `TextScan` | the CSV, JSON Lines and JSON providers | `NewTableProvider`, `Scan` of an object that may have been replaced, `Import` by the engine or `ReadDirectly`, `NextRow`, `NextEnds`, `NextFails`, `Release` |
| `IcebergInsert` | `InsertInto` of the Iceberg provider | a record per call with the references of each batch; `Lock`, `FirstNext`, `Load`, `Write`, `Commit`, `Conflict`, `Returns` and the failures; `serial` as in `ParquetInsert` |
| `SessionProofs`, `HandlesProofs`, `ObjectRegistryProofs`, `ParquetInsertProofs`, `IcebergInsertProofs` | – | TLAPS proofs about the module they are named after |
| `StoresProofs` | – | proofs about `LocalStore`, `MemStore` and `CloudStore`, over `MCStores` |
| `InsertsProofs` | – | proofs about `InsertBridge`, and about the composition of the two providers' inserts in `MCInserts` |
| `ScanProofs` | – | proofs about `SeqReader` and `SkipRules`, and about the Iceberg, Parquet and text scans over `MCScans` |
| `MCObjects`, `MCScans`, `MCInserts` | – | run the registry and the stores, the scans, and the layers of an INSERT, side by side in one specification each: one of them is chosen at the start |

Data are abstracted to what the properties tell apart: a batch is a number, a
version of an object is its writer and its length, a table name a model value.
Formatting, error texts and Arrow memory layout are left out. Definitions whose
name or comment says that something is skipped (`UndrainedClose`,
`UnsyncedClose`, `LossySend`, ...) are the mutants of `PROJECT.json`: wrong
versions of an action that no specification uses.

## 3. The runs

| Run | What it shows |
|---|---|
| `session` | With three callers, two closers, the finalizer and re-entrant callbacks: `NoUseAfterFree`, `FreedAtMostOnce`, `NoLeakAfterClose`, `WinningCloseIsFinal`; `SessionInv` is the inductive invariant. `CallsReturn` (every call and every Close returns) holds in every behaviour in which no callback calls its own session. `ImplementsContract`: refinement of `SessionContract`. |
| `handles` | `HandlesInv` (a handle is live exactly as long as something refers to it, and released once), `NoCallbackAfterRelease`, `TableRegistrationSticks`, and `FreedLeavesOnlyLeaks`: what is not released when the session is freed is exactly the handles of registrations whose existence check failed. |
| `objects` | Registry: `SingleFlight`, `SharedStore`, `RightStore`, `RegistryInv`, and `ResolveReturns`: every Resolve returns unless an opener panicked for its key or one it is composed of. Local store: `NeverPartial` after a crash at any point, `NoStrayTemps`, `LocalStoreInv`, `ImplementsStore`. In memory: `MemImplementsStore`. Cloud: `CloudImplementsWrites`. The contract says that a writer publishes exactly when its Close returns nil, so an aborted or failed write that surfaced would break it. |
| `scans` | Iceberg: `NoMatchDropped` (a row that satisfies the WHERE clause satisfies all that iceberg-go is given, after the wire and the translation, and Go decodes every document the engine writes), `ProjectionExact` (the engine reads exactly the fields it asked for, and turns a stream down only if the table has changed), `SeqReaderInv` (each batch in one place), `NothingOutlivesRelease`, `ScanReleases`. Parquet: `NoMatchSkipped` for every leaf predicate, its negation and compounds, over all footers with both bounds or neither; `EndedIsEnough`. Parquet and text: `ObjectClosedOnce`. Text: `NoSilentLoss`. |
| `inserts` | Bridge: `BridgeInv` (nothing is lost, repeated or reordered, and the channel keeps its bound), `SuccessIsComplete` (a panicked pump is not an end of stream), `ReadAheadBounded` (the input is read no further ahead of Go than a full channel and one batch, also when Go returns early and much input is left). Parquet and Iceberg: `AsIfAlone` (serialisability, failed inserts included), `CountIsComplete`; `ProvidersInv` (the inductive invariants behind both); Iceberg: `RefsExact`, `NoSelfConflict` (the only thing its mutex is there for). All three: `InsertsReturn`. |
| `handles_functions` (violation) | `FunctionRegistrationSticks` fails: two registrations of one function name both succeed. |
| `registry_stale` (violation) | `ResolveSeesRegistration` fails: a call in flight survives `Register` and its store is cached after it. |
| `cloud_torn` (violation) | `ReaderSeesOneVersion` fails: ranged reads by key mix versions. |
| `scan_onesided` (violation) | `NoMatchSkipped` fails when a footer has one bound: the other decodes as zero, and the range is trusted if it is ordered. |
| `wire_nonfinite` (violation) | `NoMatchDropped` fails when filters may compare with an infinity or NaN: JSON carries null, and Go decodes zero. |
| `csv_inferred` (violation) | `StreamHasSchema` fails: the scan of a CSV table with an inferred schema has no schema when the engine asks for it. |
| `handles_leak` (violation) | `FailedRegistrationReleases` fails: a registration whose existence check fails (invalid UTF-8, an unknown catalog, an error of a Go catalog) returns at a `?` or by a panic before anything owns the handle, which nobody releases. |

The seven violations are the entries of `findings`; each quotes the sentence it
contradicts.

### Other deviations met while modelling

These are not runs of their own; the models contain the behaviour and the
properties above are stated with it in mind.

- A callback that calls its own session takes the read lock a second time. If a
  `Close` began to wait in between, the inner `RLock` waits for `Close` and
  `Close` for the outer call (`session.go:48`, `:65`): neither returns, though
  `session.go:20` says "safe for concurrent use by multiple goroutines".
  `CallsReturn` therefore speaks of behaviours in which no
  callback re-enters; the safety properties hold in all of them.
- A second `Close` returns nil at once while the first still drains
  (`session.go:61-63`), though `README.md:262-264` says "after `Close` returns,
  your implementation is never invoked again". `WinningCloseIsFinal` is
  therefore about the Close that won the swap.
- An insert keeps its pool thread until its input ends, and the input's scan
  needs a thread of the same pool. With as many concurrent inserts as threads
  (`PoolSize = Cardinality(Statements)`) all of them wait for ever, although the
  insert design (`2026-08-14-add-table-provider-insert/design.md:90`) says "No
  engine-side deadlock". tokio's default is 512 threads.
- The Iceberg provider permutes columns by the schema it cached at registration
  (`pushdown.go:90-98`) while every scan loads the table anew. Once the table's
  fields have been reordered, a projected query may fail in the engine's schema
  check (`table.rs:409`); by `ProjectionExact` it never returns the wrong column.
- A scan of a CSV table with a given schema hands out the row that does not
  decode, with nulls, before it reports the error (arrow-go); `NoSilentLoss`
  holds because the error is kept.
- `go_table_insert` releases the input itself after `InsertInto`
  (`table.go:365`), though `InsertInto` must release it too (`table.go:114`).
  `RefsExact` counts the releases of `InsertInto` alone.
- `registry.go:12-13` says "Openers are called at most once per distinct
  scheme+host+query"; a failed call is not cached, so the opener is called
  again. `SharedStore` speaks of successful calls.

## 4. Bounds

| Bound | Value | Why it is enough |
|---|---|---|
| `Callers`, `Closers` (session) | 3, 2 | two Closes make the swap matter; three callers give an outer call, its callback and a bystander. The proofs lift this bound |
| `Callers`, `MaxHandles`, `Names` (handles) | 2, 4, 2 | a statement that resolves through a catalog mints two handles besides the catalog's; one more lets the other caller register meanwhile. `handles_functions` and `handles_leak` have smaller ones: a race of two registrations and a single registration are enough |
| `Statements`, `PoolSize`, `Capacity`, `MaxBatches` (inserts, the bridge) | 2, 3, 1, 3 | one batch in the channel, one in the pump's hand and one more, so that a pump that goes on when it should stop is seen; fewer spare threads than statements, so scans compete. |
| `Statements`, `MaxBatches` (inserts, Parquet) | 2, 3 | two rewrites of one table; failure after a first batch |
| `Statements`, `Providers`, `MaxInput`, `MaxReplays` (inserts, Iceberg) | 2, 2, 2, 1 | both through one instance, and through one each, so that a commit conflicts; a batch besides the first; a replay, and the budget spent after it |
| `Resolvers`, `NumSchemes`, `MaxGen`, `MaxCalls` (objects, the registry) | 2, 2, 2, 3 | a leader and a joiner or composer; a scheme replaced once; a failed call, its retry and a composed one |
| `Writers`, `Readers`, `Paths`, `MaxChunks`, `MaxStops` (objects, the stores) | 2, 1, 2, 2, 1 | one object replaced under a reader; a half-written file; a crash at any step |
| `Half`, `NumGroups`, `MaxRows`, `OneSided` (scans, Parquet) | 4, 2, 2, FALSE | `Half` is shared with the Iceberg scans. Three or four values per type: zero, one and its extremes, so that every bound and literal is below, at or above; two groups, so that a limit is met between batches; two rows in the first one, so that a group holds a null and a value, or two values (the second has at most one: what decides about a group does not depend on the others). `scan_onesided` has `Half = 2`, `OneSided = TRUE` and one group |
| `MaxBatches`, `MaxRefs` (scans, Iceberg) | 4, 2 | more batches than the hand-over holds; a shared reader |
| `Half`, `Factor`, `NumFields`, `MaxProjection`, `NonFiniteLiterals` (scans, Iceberg) | 4, 3, 3, 3, FALSE | eight integers; the factor does not divide the range, so that the rounding of the two quotients matters; projections of all lengths up to the table's, with repetitions, and with an index past the last one; tables with a column dropped, added or moved. `wire_nonfinite` has `NonFiniteLiterals = TRUE` |
| `MaxTextRows` (scans, text) | 2 | a bad row first, last, or both |

Symmetry is used in `handles` over `Callers` only: that run checks safety, and
no action or property tells callers apart.
`CHECK_DEADLOCK FALSE` is set where the program may simply stop calling (all
callers idle, handles or calls used up); `scans` and `inserts` check deadlock and stutter only in finished states.

## 5. Fairness

- `Session`: a goroutine that can run does, the engine returns from a call whose
  callbacks have returned, and a waiting writer bars new readers (Go's
  `sync.RWMutex` documents both); nobody is obliged to start a call or to Close.
- `InsertBridge`: tasks that run make progress; strong fairness for taking a
  pool thread, because the pool's queue is first come first served. A Go insert
  must go on reading or return once the stream has ended; returning early is its
  choice, and it is required to report an error that the stream gave it.
- `ObjectRegistry`: a goroutine in `Resolve` runs on and openers return.
- `ParquetInsert`, `IcebergInsert`: steps run, the engine opens inputs, and `insertMu` starves
  nobody (`sync.Mutex`'s starvation mode), hence strong fairness of `Lock`.
- `SeqReader`, `IcebergScan`: the goroutine and a reader inside a call run on and
  the iterator returns; nobody is obliged to call `Next` or `Release`, except that
  `open_go_scan` drops a stream it turns down.
- `MCObjects` has the registry's condition; stores have none.
- `MCInserts` joins the conditions of its three layers action by action, which is
  the same as stating them apart, as only one layer runs.

## 6. What is assumed of external code

- The engine keeps the providers a statement has resolved alive until the
  statement ends (`datafusion/catalog_test.go:130` relies on it), its
  `register_table` checks and inserts atomically, and built-in function names
  count as taken.
- Openers return or panic; they compose at most one other backend, of a lower scheme. An
  opener that resolves its own key would wait for itself.
- File system: each writer's temp file is an inode of its own; changes of a
  directory reach the disk in order; a synced file survives. `os.Remove` of a
  temp file may fail, which leaves it (`stray`). A `Write` that fails has written
  what it reports, so `written` counts that; what the caller does next (Abort, or
  Close of the shorter object) is a step from the open state like any other.
- Cloud: a PUT is atomic and a failed one replaces nothing.
- Parquet: a footer tells no lies about the rows (bounds may be loose), a bloom
  filter has no false negatives, arrow-go decodes a missing bound or null count
  as zero (`stats.go:50-60` says so). Rows hold no NaN; footers and literals may.
- Iceberg: iceberg-go filters rows exactly, by the same three-valued logic as the
  engine (`convert.go:12-14`), yields the selected fields in table order
  (`pushdown.go:90`) and may refuse to bind any expression. On insert it asks the
  reader's `Err` when `Next` returns false, releases it once
  (`insert.go:70-72`), and commits by replacing the snapshot its handle was loaded
  at: a conflict refreshes the handle and is tried again within a budget, an
  answer that got lost is not.
- serde_json writes a float that is no number as null, and Go's `encoding/json`
  leaves the target of a null as it is.
- arrow-go's CSV reader hands out a row that does not decode and keeps the error;
  its JSON reader stops before it; an inferring CSV reader has no schema before
  its first row (`2026-08-14-add-csv-json-table-providers/design.md:57`).
- The engine pushes a limit only without filters (`table.go:62-66`).
- A reader's `Next`, `Retain` and `Release` are called one at a time.

## 7. What is proved

Every theorem holds for all values of the constants that satisfy the module's
assumption, so the bounds of section 4 (callers, handles, writers, statements,
batches, capacities, retries) are lifted. The assumptions say that bounds are
natural numbers, that "nobody" is not somebody, and that there is something to
work on: a host and a scheme in the registry, where resolvers are finitely many,
a path in a store, a capacity and a thread in the insert bridge, a reference to a
scan's reader. `DefaultName` is a good name (`Handles`), and the half-range of
integers is positive (`SkipRules`) and holds the one (`ParquetScan`).

| Module | Theorem | Statement |
|---|---|---|
| `SessionProofs` | `SessionInvariant` | `Spec => []SessionInv` |
| | `NoUseAfterFreeTheorem` | `Spec => []NoUseAfterFree` |
| | `FreedAtMostOnceTheorem` | `Spec => []FreedAtMostOnce` |
| | `WinningCloseIsFinalTheorem` | `Spec => []WinningCloseIsFinal` |
| | `NoLeakAfterCloseTheorem` | `Spec => []NoLeakAfterClose` |
| | `SessionRefinesContract` | `Spec => ImplementsContract` |
| `HandlesProofs` | `HandlesInvariant` | `Spec => []HandlesInv` |
| | `CallbacksReachLiveHandles` | `Spec => []NoCallbackAfterRelease` |
| | `FreedLeavesLeaks` | `Spec => []FreedLeavesOnlyLeaks` |
| | `RegisteredTableStays` | `Spec => TableRegistrationSticks` (an action property) |
| `ObjectRegistryProofs` | `RegistryInvariant` | `RegistrySpec => []RegistryInv` |
| | `OpenersNeverOverlap` | `RegistrySpec => []SingleFlight` |
| | `StoreIsShared` | `RegistrySpec => []SharedStore` |
| | `StoreIsRight` | `RegistrySpec => []RightStore` |
| `StoresProofs` | `LocalStoreInvariant` | `Spec => []LocalStoreInv` |
| | `NoPartialObject` | `Spec => []NeverPartial` |
| | `TempsAreRemoved` | `Spec => []NoStrayTemps` |
| | `LocalImplementsStore` | `Spec => ImplementsStore` |
| | `MemoryImplementsStore` | `StoresSpec => MemImplementsStore` |
| | `CloudWritesImplementStore` | `StoresSpec => CloudImplementsWrites` |
| `InsertsProofs` | `BridgeInvariant` | `Spec => []BridgeInv` |
| | `SuccessDeliversAll` | `Spec => []SuccessIsComplete` |
| | `ReadAheadIsBounded` | `Spec => []ReadAheadBounded` |
| | `ProvidersInvariant` | `InsertsSpec => []ProvidersInv` |
| | `InsertsAsIfAlone` | `InsertsSpec => []AsIfAlone` |
| | `CountsAreComplete` | `InsertsSpec => []CountIsComplete` |
| | `ReferencesAreExact` | `InsertsSpec => []RefsExact` |
| | `ConflictsAreWithRivals` | `InsertsSpec => []NoSelfConflict` |
| `ParquetInsertProofs` | `ParquetInvariant` | `Spec => []ParquetInv` |
| `IcebergInsertProofs` | `IcebergInvariant` | `Spec => []IcebergInv` |
| `ScanProofs` | `SeqReaderInvariant` | `Spec => []SeqReaderInv` |
| | `ReleaseLeavesNothing` | `Spec => []NothingOutlivesRelease` |
| | `SkipIsSound` | a row group that `canSkip` rules out holds no matching row, for filters of any nesting |
| | `ParquetSkipsNoMatch` | `ScansSpec => []NoMatchSkipped`, if `~OneSided` |
| | `ParquetReadsEnough` | `ScansSpec => []EndedIsEnough` |
| | `ScansCloseOnce` | `ScansSpec => []ObjectClosedOnce` |
| | `TextLosesNothing` | `ScansSpec => []NoSilentLoss` |
| | `PushdownKeepsMeaning` | what is left of a filter means what its conjunct means to the engine |
| | `IcebergDropsNoMatch` | `ScansSpec => []NoMatchDropped`, if `~NonFiniteLiterals` |
| | `ProjectionIsExact` | `ScansSpec => ProjectionExact` (an action property) |

Where a theorem is about `Spec` or `RegistrySpec` and the run about a composition
(`objects`, `inserts`, `scans`), that is the component's own specification,
extended by the composing module. The arguments:

- **Session.** That no caller is in the engine when the session is freed depends
  on the writer holding the lock, which depends on `readers` being exactly the
  callers between `RLock` and `RUnlock`, and on there being one closer past the
  swap. `SessionInv` says this in three parts: `LockInv` (who holds the lock, and
  exclusion), `SwapInv` (one closer past the swap, or the finalizer, which finds
  everybody gone) and `ReleaseInv` (who freed and cleared what). The refinement
  maps each action to the contract's step or a stutter with its help.
- **Handles.** A callback reaches a live handle because of what keeps it alive,
  so the invariant is a ledger: a handle is live exactly when a registry, a
  statement, a registration under way or the leak has it, it was released once if
  it is not, and no two kinds of owner share one. `AccountKeeps` states once what
  minting one handle and releasing some does to the ledger; each of the actions
  is then shown to be such an entry (`GiveUp` for registrations that end,
  `StatementKeeps` and `Settle` for statements). `PinInv` gives the bare handles
  of plans an owner; `QuietInv` shows that a freed session has none, so that the
  live handles are then the leaked ones and no others.
- **Registry.** `SharedStore` needs to know that the store of the registration in
  force is the cached one, and that a call in flight has no published twin of its
  generation (`GenInv`); this rests on one leader for each running call
  (`LedInv`) and on nothing being cached while a call is in flight
  (`FlightInv`). `RoomInv` counts resolvers at their lookup, a cardinality, which
  is why they must be finitely many.
- **Local store.** A writer is whole when its temp file has all it was given, on
  disk too; from the sync on it stays so (`WholeStays`), and only whole inodes are
  linked, on disk or in memory, or open (`LinkInv`). So a crash, which puts the
  disk in the place of the directory, uncovers whole objects only. The
  refinement maps a path to the version linked there; `Close` is the contract's
  step at its rename.
- **In-memory and cloud stores.** The invariants `MemInv` and `CloudInv`, stated
  with the proofs, say that a writer that has passed its guard has a path and a
  result that is known. The contract's step of a Close is the one that stores the
  buffer, or the PUT that succeeds; every other step of Close and Abort, the
  repeated ones included, is an abort or a stutter. The cloud theorem is about
  writers: the contract's readers are not mapped, as `cloud_torn` shows why.
- **Bridge.** `NothingLost` is one equation: what Go has got, followed by the
  channel and by what the pump has in hand, is the input pulled so far. `EndOf`
  says which of the ends the parties have seen imply which others; without it a
  panicked pump could look like an end of stream. From the equation and the
  channel's bound, `AheadOf` counts how far the input is ahead: a pump that may
  pull again is at most a full channel ahead, and when Go has returned and the
  receiver is gone, the item in hand is refused and is the last.
- **Parquet insert.** What an insert has written is the table as it stands, if it
  appends, followed by the part of its input it has counted (`RewriteOf`), and the
  mutex keeps the table as it stood when it was opened. The commit is then the
  one-by-one result of `serial`.
- **Iceberg insert.** Each batch has as many references as there are holders
  among the reader's current batch, the first batch that was pulled ahead, and
  the view handed to iceberg-go (`RefsOf`, and `HoldersIn`: they hold only batches
  that exist); the files hold what the input has delivered; a handle is the table as it
  stands unless an insert through another instance was started (`HandleInv`).
  Lemmas on a single call's record (`DropInner`, `ViewIs`, `WrappedNextIs`, ...)
  carry the counting, and `BecomeKeeps` lifts them to the state.
- **Composition of inserts.** `InsertsProofs` takes the steps of the two
  providers' proofs through `INSTANCE`, under the renaming of `MCInserts`, and
  shows that each step of the composition is one of its layer and a stutter of
  the others.
- **Reader of an Iceberg scan.** Every batch that was pulled is in exactly one
  place (the goroutine's hand, the reader's current batch, or freed once), and a
  reader that was released has been through the drain that ends the goroutine.
- **Skip rules.** `SkipIsSound`: given an honest footer with both bounds or
  neither and a bloom filter without false negatives, a row group that a filter
  skips holds no row on which the filter is true. `NullCounts` relates the null
  count, a cardinality, to the rows; `StatsViewTrue` shows that what
  `colStatsFromTyped` keeps of the footer is true of the rows (a null count of
  zero is not kept, and an unsigned bound survives its trip through the signed
  type); `CmpOrder` that `cmpVal` orders numbers; then one lemma per rule, up to
  `LeafSound`. The hypothesis `TwoSided` is used in `StatsViewTrue` alone and is
  exactly what the violation `scan_onesided` lacks.
- **Filters of any nesting.** `canSkip` does not recurse on the parts of a NOT but
  on what `negate` makes of it, which is not a part of the filter. So the
  recursion goes by a rank (`Ranked`), which `negate` lowers. `FixedPoint` shows
  that a definition that looks only at lower ranks has a solution
  (`TruthEquation` and `SkipEquation` apply it), and `LeastRank`, a least
  counterexample, takes the place of induction. `NegateTruth` is the point where
  three-valued logic matters: what `negate` returns is true exactly where the
  filter is false. `FilterSound` combines them, and `FilterRanked` gives the
  filters of the model a rank.
- **Parquet scan.** `ParquetInv` says where the file is open and how often it was
  closed (`FileInv`), and that what was produced and what remains of the limit add
  up (`LimitInv`); `SkipInv` that no group examined so far and left out holds a
  match. `ExamineLosesNothing` is `SkipIsSound` at the footers and bloom filters a
  writer may leave (`FootersHonest`, `BloomsTrue`).
- **Text scans.** `TextInv`: who owns the open object, and that the rows handed
  out are the first ones of the object, none of them bad.
- **Iceberg pushdown.** `EngineEquation`, `ClassifyEquation`, `DecodeEquation` and
  `ConvertEquation` show that the four recursive functions satisfy their
  recursions. `LiteralCarried` is the arithmetic: a literal that passes the
  overflow tests of `convertLiteral` and `scaleTimestamp` is what the scalar is
  worth, whatever the width and the factor. One lemma per form (`BinaryCarried`
  with the operator swapped, `NullTestCarried`, `RangeCarried` by De Morgan,
  `MemberCarried`) shows that a leaf arrives with its meaning or not at all, as
  the engine's three values; `CarriedNest` adds one level of connectives, and
  `PushdownKeepsMeaning` applies it to every expression of two levels, not just to
  those the run enumerates. `DropInv` carries this through the scan: each filter
  is the conjunct at its index, decoded. The hypothesis that the scalars are
  values of their types holds of what the engine sends except for infinities and
  NaN, and there the violation `wire_nonfinite` shows that the theorem fails.
- **Iceberg projection.** The place of a field in the sorted selection is the
  number of selected fields before it (`PosInOutput`), and the place of a field in
  what iceberg-go yields is the number of selected ones before it in the table.
  `Places` and `BelowGrows` show, with the library's facts on cardinalities, that
  these are the same number in the registered schema and that no two fields share
  it; so the permutation, or the identity where `projectionPlan` finds one, brings
  back the request (`UnchangedDelivers`).

Every inductive invariant that a theorem rests on is an invariant of a run as
well, except `MemInv`, `CloudInv` and the ones of the Parquet, text and Iceberg
scans, which are there for the proofs alone.

The recursive operators of the scans are recursive functions on sets of
expressions (`TruthOn(D, v)`, `canSkipOn(D, ...)`, `ClassifyOn(D)`, ...), because
the prover does not work in a module that reaches a `RECURSIVE` one. The sets are
infinite in their literals and finite in their depth (`Nested`).

Only model-checked:

- All liveness: `CallsReturn`, `ResolveReturns`, `InsertsReturn`, `ScanReleases`.
  Fairness is beyond the prover here.

Every safety and action property of the passing runs is stated by a theorem.

## 8. What is not modelled

- `List` of the backends (a directory walk or a page loop without state).
- Splitting a location into scheme, host and path, and `WithStore`.
- The import and export of Arrow arrays and streams across the C ABI.
- Reference counts of `projectedReader`; a second holder of a closing reader.
- The order of a Parquet scan's projected columns, the cheapest column of an empty
  projection; the limit of an Iceberg scan, which is handed on unchanged.
- On the wire: strings, binaries, booleans, dates and time zones, which arrive as
  they are, and the look-up of a column's index.
- A panic in the goroutines of the Iceberg provider (`reader.go:44`,
  `insert.go:120`), which `trapCallbackPanic` cannot recover: it ends the process.
- NaN among a column's rows (see `hazards`).
- What arrow-go's CSV and JSON parsers make of text: each row decodes or does not.
- The inside of iceberg-go's commit (manifests, snapshots, file clean-up).
- Two Parquet providers over one object, whose inserts the specification leaves
  to the last writer (`parquet-table-provider/spec.md:224`).

## 9. Plan

The order follows what would hurt most if it were wrong: memory safety of the
session and the handles first, then loss of data (bridge, stores, inserts), then
wrong answers (pruning). Still to come:

1. `projectedReader` composed with `SeqReader`, with the references of its batches.
2. The compositions: what an insert that scans its own table reads, over the
   contract that the stores are proved to implement.
