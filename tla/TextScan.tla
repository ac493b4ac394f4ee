------------------------------ MODULE TextScan ------------------------------
(***************************************************************************)
(* Construction and scan of a CSV, JSON Lines or JSON table                *)
(* (providers/csv, jsonl and json): the object is opened anew for each     *)
(* scan and closed by the closing reader, or, for JSON, before Scan        *)
(* returns.  The object may be replaced after construction.                *)
(*                                                                         *)
(* The engine imports the stream it is handed, asking for its schema       *)
(* first (table.rs, open_go_scan); a Go program may also read it directly. *)
(***************************************************************************)
EXTENDS Naturals, Sequences

CONSTANT MaxRows   \* bound on the rows of an object

Kinds == {"csv", "inferred", "jsonl", "json"}

\* An object: does its header have the schema's number of columns, which
\* schema is inferred from its header and first row, and which of its rows
\* decode?  An inferred schema fits the row it is inferred from.
Object ==
  [header : {"none", "fits", "other"}, infers : {"A", "B"},
   rows : UNION {[1..n -> {"good", "bad"}] : n \in 0..MaxRows}]

VARIABLES
  kind,         \* the provider
  schema,       \* its schema; a given one is "A"
  pc,           \* "new", "refused", "idle", "opened", "reading", "ended",
                \* "failed" or "released"
  object,       \* the object as this scan opened it
  pos,          \* rows handed out
  err,          \* rr.Err() # nil
  readerSchema, \* rr.Schema(), or "none"
  handle,       \* the open object: "none", "open" or "closed"
  closes        \* how often it was closed

providerVars == <<kind, schema>>
readerVars == <<object, pos, err, readerSchema>>
handleVars == <<handle, closes>>
vars == <<providerVars, pc, readerVars, handleVars>>

NoObject == [header |-> "none", infers |-> "A", rows |-> <<>>]

Init ==
  /\ kind \in Kinds
  /\ schema = "A"
  /\ pc = "new"
  /\ object = NoObject /\ pos = 0 /\ err = FALSE /\ readerSchema = "none"
  /\ handle = "none" /\ closes = 0

Bad(o) == \E i \in DOMAIN o.rows : o.rows[i] = "bad"
Possible(o) == kind = "inferred" /\ o.rows # <<>> => o.rows[1] = "good"

\* What construction insists on: a header of the schema's width, or a header
\* and a row to infer types from; a first line, or a document, that decodes.
AcceptsCSV(o) == o.header = "fits"
AcceptsInferred(o) == o.header # "none" /\ o.rows # <<>>
AcceptsJSONL(o) == o.rows # <<>> => o.rows[1] = "good"
AcceptsJSON(o) == ~Bad(o)
Accepts(o) ==
  CASE kind = "csv" -> AcceptsCSV(o)
    [] kind = "inferred" -> AcceptsInferred(o)
    [] kind = "jsonl" -> AcceptsJSONL(o)
    [] kind = "json" -> AcceptsJSON(o)

\* NewTableProvider: opens the object, looks at it, closes it.
NewTableProvider(o) ==
  /\ pc = "new"
  /\ pc' = IF Accepts(o) THEN "idle" ELSE "refused"
  /\ schema' = IF kind = "inferred" THEN o.infers ELSE schema
  /\ UNCHANGED <<kind, readerVars, handleVars>>

\* A close without the flag.
UnguardedClose == handle' = "closed" /\ closes' = closes + 1

\* Reader.close: once.
close ==
  /\ handle' = "closed"
  /\ closes' = IF handle = "closed" THEN closes ELSE closes + 1

\* The JSON provider's reader has no object to close.
closeOwned == IF kind = "json" THEN UNCHANGED handleVars ELSE close

\* Scan, of a CSV object: the header is skipped, and its width checked again;
\* an inferring reader has no schema before it has read a row.
ScanCSV(o) ==
  /\ kind \in {"csv", "inferred"}
  /\ IF kind = "csv" /\ o.header # "fits"
     THEN /\ pc' = "failed" /\ readerSchema' = "none"
          /\ handle' = "closed" /\ closes' = closes + 1
     ELSE /\ pc' = "opened"
          /\ readerSchema' = IF kind = "csv" THEN schema ELSE "none"
          /\ handle' = "open" /\ UNCHANGED closes

ScanJSONL ==
  /\ kind = "jsonl"
  /\ pc' = "opened" /\ readerSchema' = schema
  /\ handle' = "open" /\ UNCHANGED closes

\* Scan, of a JSON document: decoded and closed, and the close may fail.
ScanJSON(o) ==
  /\ kind = "json"
  /\ pc' \in IF Bad(o) THEN {"failed"} ELSE {"opened", "failed"}
  /\ readerSchema' = schema
  /\ handle' = "closed" /\ closes' = closes + 1

Scan(o) ==
  /\ pc = "idle"
  /\ object' = o
  /\ ScanCSV(o) \/ ScanJSONL \/ ScanJSON(o)
  /\ UNCHANGED <<providerVars, pos, err>>

\* store.Open fails.
ScanFails ==
  /\ pc = "idle"
  /\ pc' = "failed"
  /\ UNCHANGED <<providerVars, readerVars, handleVars>>

\* The reader is released.
Drop == pc' = "released" /\ closeOwned

\* from_raw: a stream without a schema is dropped.
Import ==
  /\ pc = "opened"
  /\ IF readerSchema = "none" THEN Drop ELSE pc' = "reading" /\ UNCHANGED handleVars
  /\ UNCHANGED <<providerVars, readerVars>>

ReadDirectly ==
  /\ pc = "opened"
  /\ pc' = "reading"
  /\ UNCHANGED <<providerVars, readerVars, handleVars>>

Ahead == pos < Len(object.rows)
BadAhead == Ahead /\ object.rows[pos + 1] = "bad"

\* Next hands out a row.  The CSV reader hands out a row that does not
\* decode, with nulls, and keeps the error.
NextRow ==
  /\ pc = "reading" /\ ~err
  /\ Ahead
  /\ BadAhead => kind \in {"csv", "inferred"}
  /\ pos' = pos + 1
  /\ err' = BadAhead
  /\ readerSchema' = IF kind = "inferred" THEN object.infers ELSE readerSchema
  /\ UNCHANGED <<providerVars, pc, object, handleVars>>

\* Next returns false: at the end, after an error, or on a row that does not
\* decode.
NextEnds ==
  /\ pc = "reading"
  /\ err \/ ~Ahead \/ (BadAhead /\ kind = "jsonl")
  /\ err' = (err \/ Ahead)
  /\ pc' = "ended"
  /\ closeOwned
  /\ UNCHANGED <<providerVars, object, pos, readerSchema>>

\* An error that is not kept.
SilentNextFails ==
  /\ pc = "reading" /\ ~err
  /\ kind # "json"
  /\ pc' = "ended"
  /\ close
  /\ UNCHANGED <<providerVars, object, pos, err, readerSchema>>

\* A read of the open object fails.
NextFails ==
  /\ pc = "reading" /\ ~err
  /\ kind # "json"
  /\ err' = TRUE
  /\ pc' = "ended"
  /\ close
  /\ UNCHANGED <<providerVars, object, pos, readerSchema>>

Release ==
  /\ pc \in {"opened", "reading", "ended"}
  /\ Drop
  /\ UNCHANGED <<providerVars, readerVars>>

Stopped == pc \in {"refused", "failed", "released"} /\ UNCHANGED vars

Next ==
  \/ \E o \in Object : Possible(o) /\ (NewTableProvider(o) \/ Scan(o))
  \/ ScanFails \/ Import \/ ReadDirectly \/ NextRow \/ NextEnds \/ NextFails
  \/ Release \/ Stopped

Spec == Init /\ [][Next]_vars
-----------------------------------------------------------------------------
(* Properties *)

\* The object is open as long as the scan may read it, and closed, once, on
\* every way out (closingreader.go:15-45, csv.go:142-166, json.go:64-88).
ObjectClosedOnce ==
  /\ pc = "reading" /\ kind # "json" => handle = "open"
  /\ pc \in {"ended", "failed", "released"} => handle # "open"
  /\ closes <= 1

\* A scan that ends without an error has handed out every row of the object,
\* and none that does not decode
\* (openspec/specs/csv-table-provider/spec.md:45-60).
NoSilentLoss ==
  pc = "ended" /\ ~err => pos = Len(object.rows) /\ ~Bad(object)

\* openspec/specs/csv-table-provider/spec.md:4: "Lets a Go program query a
\* local CSV file directly from SQL [...] either against a schema the caller
\* supplies or one inferred from the file itself": a stream that Scan returns
\* has the provider's schema when the engine asks for it.
StreamHasSchema == pc = "opened" => readerSchema = schema
=============================================================================
