------------------------------ MODULE MCScans ------------------------------
(***************************************************************************)
(* The scans of the bundled providers, checked side by side: the program   *)
(* scans one table, and the parts for the other providers stay as they are *)
(* at the start.                                                           *)
(***************************************************************************)
EXTENDS IcebergScan

CONSTANTS
  NumGroups, MaxRows, OneSided,   \* ParquetScan
  MaxTextRows                     \* TextScan

VARIABLES
  provider,                                            \* "iceberg", "parquet" or "text"
  dtype, pqOpts, pqPC, survivors, examined, pqPos,     \* ParquetScan
  produced, remaining, file, pqCloses, lost,
  kind, schema, textPC, object, textPos, textErr,      \* TextScan
  readerSchema, handle, textCloses

icebergVars == <<scanVars, vars>>
parquetVars == <<dtype, pqOpts, pqPC, survivors, examined, pqPos, produced,
                 remaining, file, pqCloses, lost>>
textVars == <<kind, schema, textPC, object, textPos, textErr, readerSchema,
              handle, textCloses>>

Parquet == INSTANCE ParquetScan WITH
  opts <- pqOpts, pc <- pqPC, pos <- pqPos, closes <- pqCloses
Text == INSTANCE TextScan WITH
  MaxRows <- MaxTextRows, pc <- textPC, pos <- textPos, err <- textErr,
  closes <- textCloses

ASSUME ScansAssumption == Parquet!ScanAssumption /\ MaxTextRows \in Nat

ScansInit ==
  /\ provider \in {"iceberg", "parquet", "text"}
  /\ ScanInit /\ Parquet!Init /\ Text!Init
  /\ provider # "parquet" => dtype = "int"
  /\ provider # "text" => kind = "csv"

ScansNext ==
  \/ provider = "iceberg" /\ ScanNext /\ UNCHANGED <<provider, parquetVars, textVars>>
  \/ provider = "parquet" /\ Parquet!Next /\ UNCHANGED <<provider, icebergVars, textVars>>
  \/ provider = "text" /\ Text!Next /\ UNCHANGED <<provider, icebergVars, parquetVars>>

ScansSpec ==
  /\ ScansInit
  /\ [][ScansNext]_<<provider, icebergVars, parquetVars, textVars>>
  /\ ScanFairness
-----------------------------------------------------------------------------
\* No row group with a matching row is skipped (providers/parquet/skip.go,
\* stats.go, pushdown.go:55-130).
NoMatchSkipped == Parquet!NoMatchSkipped

\* A Parquet scan ends without an error only when it has read what it selected
\* or what the limit asks for (providers/parquet/pushdown.go:255-264).
EndedIsEnough == Parquet!EndedIsEnough

\* The object behind a Parquet, CSV, JSON Lines or JSON scan is open as long
\* as it is read and closed once, on every way out (parquet.go:136-155,
\* closingreader.go:15-45, csv.go:142-166, json.go:64-88).
ObjectClosedOnce == Parquet!FileClosedOnce /\ Text!ObjectClosedOnce

\* A text scan that ends without an error has handed out every row
\* (openspec/specs/csv-table-provider/spec.md:45-60).
NoSilentLoss == Text!NoSilentLoss
=============================================================================
