---------------------------- MODULE ParquetScan ----------------------------
(***************************************************************************)
(* A pushdown scan of a Parquet object (providers/parquet/pushdown.go and  *)
(* parquet.go): the row groups that the filters rule out are skipped, the  *)
(* others are read until the limit hint is met, and the file is closed.    *)
(*                                                                         *)
(* The file is revealed as the scan examines it: each row group is some    *)
(* rows of one column with what some writer left about them in the footer. *)
(* The rules for single predicates are in SkipRules, canSkip applies them. *)
(***************************************************************************)
EXTENDS Filters

CONSTANTS
  NumGroups,   \* row groups in the file
  MaxRows,     \* bound on the rows of a row group
  OneSided     \* may a writer leave out one of the two bounds?

ScanAssumption ==
  /\ NumGroups \in Nat /\ MaxRows \in Nat /\ OneSided \in BOOLEAN
  /\ 1 \in Values("int")

VARIABLES
  dtype,       \* the column's type
  opts,        \* the filters, a sequence, and the limit, or -1
  pc,          \* "idle", "select", "reading", "ended", "failed" or
               \* "released"
  survivors,   \* the row counts of the row groups to read
  examined,    \* number of row groups examined
  pos,         \* number of row groups read
  produced,    \* rows handed out
  remaining,   \* limitReader.remaining
  file,        \* the object: "none", "open" or "closed"
  closes,      \* how often it was closed
  lost         \* row groups that were skipped although a row matches

readVars == <<pos, produced, remaining>>
fileVars == <<file, closes>>
vars == <<dtype, opts, pc, survivors, examined, readVars, fileVars, lost>>
-----------------------------------------------------------------------------
(* Filters *)

negateOp(op) ==
  CASE op = "eq" -> "neq" [] op = "neq" -> "eq"
    [] op = "lt" -> "gteq" [] op = "gteq" -> "lt"
    [] op = "gt" -> "lteq" [] op = "lteq" -> "gt"

\* NOT e without the NOT.
negate(e) ==
  CASE e.kind = "compare" -> Compare(negateOp(e.op), e.lit)
    [] e.kind = "and" -> Or(Not(e.left), Not(e.right))
    [] e.kind = "or" -> And(Not(e.left), Not(e.right))
    [] e.kind = "not" -> e.expr
    [] OTHER -> [e EXCEPT !.negated = ~@]

\* canSkip, of the predicates of D.
canSkipOn(D, t, cs, n, b) ==
  LET S[e \in D] ==
        CASE e.kind = "and" -> S[e.left] \/ S[e.right]
          [] e.kind = "or" -> S[e.left] /\ S[e.right]
          [] e.kind = "not" -> S[negate(e.expr)]
          [] OTHER -> canSkipLeaf(e, t, cs, n, b)
  IN S

canSkip(e, t, cs, n, b) == canSkipOn(Filter, t, cs, n, b)[e]

\* The filters of a scan: every leaf, its negation, and compounds of a few.
Literals(t) ==
  {Literal(v, TRUE) : v \in Values(t) \cup {2 * Half}} \cup {Literal(0, FALSE)}
    \cup (IF t = "float" THEN {Literal(NaN, TRUE)} ELSE {})
Bounds(t) ==
  {Literal(0, TRUE), Literal(1, TRUE), Literal(0, FALSE)}
    \cup {Literal(NaN, TRUE) : x \in {"float"} \cap {t}}
Leaves(t) ==
  {Compare(op, l) : op \in Ops, l \in Literals(t)}
    \cup {IsNull(n) : n \in BOOLEAN}
    \cup {Between(n, a, b) : n \in BOOLEAN, a \in Bounds(t), b \in Bounds(t)}
    \cup {InList(n, ls) : n \in BOOLEAN,
                          ls \in {s \in SUBSET Bounds(t) : Cardinality(s) <= 2}}
Core ==
  {Compare("eq", Literal(0, TRUE)), Compare("gteq", Literal(1, TRUE)),
   IsNull(FALSE), Between(TRUE, Literal(0, TRUE), Literal(1, TRUE))}
Compounds == {And(l, r) : l, r \in Core} \cup {Or(l, r) : l, r \in Core}
Filters(t) ==
  Leaves(t) \cup {Not(e) : e \in Leaves(t)} \cup {Not(Not(e)) : e \in Core}
    \cup Compounds \cup {Not(e) : e \in Compounds}

\* The filters are a conjunction, and one with a limit comes without them
\* (table.go:62-66).
Options(t) ==
  {[filters |-> <<e>>, limit |-> -1] : e \in Filters(t)}
    \cup {[filters |-> <<l, r>>, limit |-> -1] : l, r \in Core}
    \cup {[filters |-> <<>>, limit |-> n] : n \in -1..2}
-----------------------------------------------------------------------------
(* Row groups *)

Least(S) == CHOOSE x \in S : \A y \in S : x <= y
Greatest(S) == CHOOSE x \in S : \A y \in S : x >= y

\* The values that occur: the type's zero, its extremes, and one more.
RowValues(t) == {0, 1, Least(Values(t)), Greatest(Values(t))}

\* Rows in ascending order, nulls last: their order does not matter.
Before(v, w) == w = Null \/ (v # Null /\ v <= w)
Rows(t) ==
  {rows \in UNION {[1..n -> RowValues(t) \cup {Null}] : n \in 0..MaxRows} :
     \A i \in 1..(Len(rows) - 1) : Before(rows[i], rows[i + 1])}

\* What a writer may put down for these rows: no bounds, tight ones or (as
\* truncation does) loose ones; with floats, NaN for both; a null count or
\* not.
Ranges(t, rows) ==
  LET vs == NonNull(rows)
      spans(S) == <<Present(Physical(t, Least(S))), Present(Physical(t, Greatest(S)))>>
      both == IF vs = {} THEN {} ELSE {spans(vs), spans(Values(t))}
      nan == IF t = "float" THEN {<<Present(NaN), Present(NaN)>>} ELSE {}
      one == {<<Absent, p[2]>> : p \in both} \cup {<<p[1], Absent>> : p \in both}
  IN {<<Absent, Absent>>} \cup both \cup nan \cup (IF OneSided THEN one ELSE {})

Footers(t, rows) ==
  {[min |-> p[1], max |-> p[2], nulls |-> c] :
     p \in Ranges(t, rows), c \in {Absent, Present(NullCount(rows))}}

\* No bloom filter, an exact one, or one with a false positive.
Blooms(t, rows) ==
  LET vs == {Physical(t, v) : v \in NonNull(rows)}
  IN {NoBloom, [set |-> TRUE, maybe |-> vs], [set |-> TRUE, maybe |-> vs \cup {0}]}

\* buildRowGroupStats: the column's entry, unless the column is nested, its
\* name and index disagree, or its statistics cannot be read.
buildRowGroupStats(t, w) == {NoStats, colStatsFromTyped(t, w)}
-----------------------------------------------------------------------------
Init ==
  /\ dtype \in Types
  /\ opts = [filters |-> <<>>, limit |-> -1]
  /\ pc = "idle"
  /\ survivors = <<>>
  /\ examined = 0
  /\ pos = 0 /\ produced = 0 /\ remaining = 0
  /\ file = "none" /\ closes = 0
  /\ lost = {}

\* closeFile, of a file that is still open.
closeFile ==
  /\ file' = "closed"
  /\ closes' = IF file = "open" THEN closes + 1 ELSE closes

\* ScanWithOptions opens the object.
Open(o) ==
  /\ pc = "idle"
  /\ opts' = o
  /\ remaining' = o.limit
  /\ file' = "open"
  /\ pc' = "select"
  /\ UNCHANGED <<dtype, survivors, examined, pos, produced, closes, lost>>

\* The object cannot be opened, or is not a Parquet file.
OpenFails ==
  /\ pc = "idle"
  /\ pc' = "failed"
  /\ file' \in {"none", "closed"}
  /\ closes' = IF file' = "closed" THEN 1 ELSE 0
  /\ UNCHANGED <<dtype, opts, survivors, examined, readVars, lost>>

\* NewFileReader fails.
ReaderFails ==
  /\ pc = "select" /\ examined = 0
  /\ pc' = "failed"
  /\ closeFile
  /\ UNCHANGED <<dtype, opts, survivors, examined, readVars, lost>>

\* One round of selectRowGroups: one filter that rules the group out is
\* enough.
Examine(rows, cs, b) ==
  /\ pc = "select"
  /\ examined < NumGroups
  /\ LET fs == opts.filters
         skip == \E i \in DOMAIN fs : canSkip(fs[i], dtype, cs, Len(rows), b)
     IN /\ survivors' = IF skip THEN survivors ELSE Append(survivors, Len(rows))
        /\ lost' = IF skip /\ \E i \in DOMAIN rows : Matches(fs, rows[i])
                   THEN lost \cup {[rows |-> rows, stats |-> cs]} ELSE lost
  /\ examined' = examined + 1
  /\ UNCHANGED <<dtype, opts, pc, readVars, fileVars>>

\* Everything is skipped: an empty reader, without the file.  It fails on a
\* projection that is out of range.
AllSkipped ==
  /\ pc = "select" /\ examined = NumGroups
  /\ survivors = <<>> /\ NumGroups > 0
  /\ pc' \in {"reading", "failed"}
  /\ closeFile
  /\ UNCHANGED <<dtype, opts, survivors, examined, readVars, lost>>

\* openProjectedReader, which may fail.
OpenReader ==
  /\ pc = "select" /\ examined = NumGroups
  /\ survivors # <<>> \/ NumGroups = 0
  /\ \/ pc' = "reading" /\ UNCHANGED fileVars
     \/ pc' = "failed" /\ closeFile
  /\ UNCHANGED <<dtype, opts, survivors, examined, readVars, lost>>

\* A limit that counts batches where it should count rows.
CountingBatches ==
  /\ pc = "reading"
  /\ opts.limit < 0 \/ remaining > 0
  /\ pos < Len(survivors)
  /\ pos' = pos + 1
  /\ produced' = produced + survivors[pos + 1]
  /\ remaining' = IF opts.limit < 0 THEN remaining ELSE remaining - 1
  /\ UNCHANGED <<dtype, opts, pc, survivors, examined, fileVars, lost>>

\* Next produces a batch, which limitReader counts.
NextBatch ==
  /\ pc = "reading"
  /\ opts.limit < 0 \/ remaining > 0
  /\ pos < Len(survivors)
  /\ pos' = pos + 1
  /\ produced' = produced + survivors[pos + 1]
  /\ remaining' = IF opts.limit < 0 THEN remaining ELSE remaining - survivors[pos + 1]
  /\ UNCHANGED <<dtype, opts, pc, survivors, examined, fileVars, lost>>

\* Next finds the limit met: the file stays open until Release.
LimitMet ==
  /\ pc = "reading"
  /\ opts.limit >= 0 /\ remaining <= 0
  /\ pc' = "ended"
  /\ UNCHANGED <<dtype, opts, survivors, examined, readVars, fileVars, lost>>

\* Next finds the end of the stream.
NextEnds ==
  /\ pc = "reading"
  /\ opts.limit < 0 \/ remaining > 0
  /\ pos = Len(survivors)
  /\ pc' = "ended"
  /\ closeFile
  /\ UNCHANGED <<dtype, opts, survivors, examined, readVars, lost>>

\* Reading fails: Next returns false, and Err says why.
NextFails ==
  /\ pc = "reading"
  /\ opts.limit < 0 \/ remaining > 0
  /\ pos < Len(survivors)
  /\ pc' = "failed"
  /\ closeFile
  /\ UNCHANGED <<dtype, opts, survivors, examined, readVars, lost>>

\* A reader that only closes the file at the end of the stream.
LazyRelease ==
  /\ pc \in {"reading", "ended"}
  /\ pc' = "released"
  /\ UNCHANGED <<dtype, opts, survivors, examined, readVars, fileVars, lost>>

\* Release, at any point.
Release ==
  /\ pc \in {"reading", "ended"}
  /\ pc' = "released"
  /\ IF file = "open" THEN closeFile ELSE UNCHANGED fileVars
  /\ UNCHANGED <<dtype, opts, survivors, examined, readVars, lost>>

Stopped == pc \in {"failed", "released"} /\ UNCHANGED vars

\* Only the first row group may be longer than a row: whether one is skipped
\* does not depend on those before it.
ExamineSome ==
  \E rows \in {rows \in Rows(dtype) : examined > 0 => Len(rows) <= 1} :
    \E cs \in UNION {buildRowGroupStats(dtype, w) : w \in Footers(dtype, rows)},
       b \in Blooms(dtype, rows) : Examine(rows, cs, b)

Next ==
  \/ \E o \in Options(dtype) : Open(o)
  \/ ExamineSome
  \/ OpenFails \/ ReaderFails \/ AllSkipped \/ OpenReader
  \/ NextBatch \/ LimitMet \/ NextEnds \/ NextFails \/ Release
  \/ Stopped

Spec == Init /\ [][Next]_vars
-----------------------------------------------------------------------------
(* Properties *)

\* openspec/specs/parquet-table-provider/spec.md:97: "A row group containing
\* at least one row that satisfies the predicates SHALL never be skipped",
\* whatever the writer left out of the footer (skip.go:122-145, stats.go:61-74).
NoMatchSkipped == lost = {}

\* A scan that ends without an error has read every row group it selected, or
\* as many rows as the limit asks for (pushdown.go:255-264).
EndedIsEnough ==
  pc = "ended" => \/ pos = Len(survivors)
                  \/ opts.limit >= 0 /\ produced >= opts.limit

\* The object a scan opened is open as long as the scan may read it, and is
\* closed, once, on every way out (parquet.go:136-155, pushdown.go:26-50).
FileClosedOnce ==
  /\ pc = "reading" /\ pos < Len(survivors) => file = "open"
  /\ pc \in {"failed", "released"} => file # "open"
  /\ closes <= 1
=============================================================================
