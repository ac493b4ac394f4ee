----------------------------- MODULE MCInserts -----------------------------
(***************************************************************************)
(* The three layers of an INSERT, checked side by side: the bridge that    *)
(* carries the rows to Go, and the two providers that write them.  One     *)
(* layer runs, and the others stay as they are at the start.               *)
(***************************************************************************)
EXTENDS InsertBridge

CONSTANTS
  Providers, NoInsert, MaxReplays,
  MaxInput     \* bound on the batches of an Iceberg insert's input

VARIABLES
  layer,                                        \* "bridge", "parquet" or "iceberg"
  table, mutex, pc, op, input, left, taken,     \* ParquetInsert
  existing, out, count, result, serial,
  icebergTable, icebergMutex, calls,            \* IcebergInsert
  icebergSerial

bridgeVars == vars
parquetVars == <<table, mutex, pc, op, input, left, taken, existing, out, count,
                 result, serial>>
icebergVars == <<icebergTable, icebergMutex, calls, icebergSerial>>

Parquet == INSTANCE ParquetInsert WITH Inserts <- Statements
Iceberg == INSTANCE IcebergInsert WITH
  Inserts <- Statements, MaxBatches <- MaxInput, table <- icebergTable, mutex <- icebergMutex,
  serial <- icebergSerial

ASSUME InsertsAssumption == Parquet!InsertAssumption /\ Iceberg!InsertAssumption

\* Statements are interchangeable, and so are instances: what is said of one
\* holds of each.
Someone == CHOOSE s \in Statements : TRUE
Somewhere == CHOOSE p \in Providers : TRUE

InsertsInit ==
  /\ layer \in {"bridge", "parquet", "iceberg"}
  /\ Init /\ Parquet!Init /\ Iceberg!Init
  /\ layer # "iceberg" => \A s, t \in Statements : calls[s] = calls[t]
  /\ calls[Someone].provider = Somewhere

InBridge(A) == layer = "bridge" /\ A /\ UNCHANGED <<layer, parquetVars, icebergVars>>
InParquet(A) == layer = "parquet" /\ A /\ UNCHANGED <<layer, bridgeVars, icebergVars>>
InIceberg(A) == layer = "iceberg" /\ A /\ UNCHANGED <<layer, bridgeVars, parquetVars>>

InsertsNext == InBridge(Next) \/ InParquet(Parquet!Next) \/ InIceberg(Iceberg!Next)

layerVars == <<layer, bridgeVars, parquetVars, icebergVars>>

\* The fairness conditions of the three layers (InsertBridge, ParquetInsert and
\* IcebergInsert, Fairness), which share them, as only one runs.
LayersFairness ==
  \A s \in Statements :
    /\ SF_layerVars(InBridge(PullStart(s)) \/ InParquet(Parquet!Lock(s))
                      \/ InIceberg(Iceberg!Lock(s)))
    /\ SF_layerVars(InBridge(SinkStart(s)))
    /\ WF_layerVars(InBridge(PumpStep(s) \/ WriteAllReturns(s))
                      \/ InParquet(Parquet!Step(s)) \/ InIceberg(Iceberg!Step(s)))
    /\ WF_layerVars(InBridge(SinkProgress(s)) \/ InParquet(Parquet!OpenInput(s))
                      \/ InIceberg(Iceberg!OpenInput(s)))

InsertsSpec == InsertsInit /\ [][InsertsNext]_layerVars /\ LayersFairness
-----------------------------------------------------------------------------
\* The inductive invariants of a Parquet rewrite and of an Iceberg insert
\* (providers/parquet/insert.go:43-59, 87-145,
\* providers/iceberg/insert.go:44-95, 150-192).
ProvidersInv == Parquet!ParquetInv /\ Iceberg!IcebergInv

\* Concurrent inserts into a Parquet or an Iceberg table have the effect of
\* running one by one, each with all of its input or none of it
\* (providers/parquet/insert.go:43-145, providers/iceberg/insert.go:33-95).
AsIfAlone == Parquet!AsIfAlone /\ Iceberg!AsIfAlone

\* An insert that a provider reports as a success has consumed its whole
\* input, and reports just that many rows (providers/parquet/insert.go:127-144,
\* providers/iceberg/insert.go:40-43, 166-192).
CountIsComplete == Parquet!SuccessIsComplete /\ Iceberg!SuccessIsComplete

\* The batches of an Iceberg insert have as many references as holders, and
\* none when it returns (providers/iceberg/insert.go:45-76, 150-188).
RefsExact == Iceberg!RefsExact

\* Iceberg inserts through one instance never conflict with each other
\* (providers/iceberg/insert.go:25-28).
NoSelfConflict == Iceberg!NoSelfConflict

\* Of the layer that runs.
Running(s) == sink[s] = "queued" \/ pc[s] = "lock" \/ calls[s].pc = "lock"
Returned(s) == outcome[s] # "none" \/ pc[s] = "done" \/ calls[s].pc = "done"

\* Every INSERT returns, also when its input is a scan of the same table
\* (table.rs:232-297, wire-parquet-and-iceberg-insert/design.md, D7), as long
\* as the pool has a thread that no INSERT holds.
InsertsReturn == Running(Someone) ~> Returned(Someone)
=============================================================================
