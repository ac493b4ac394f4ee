---------------------------- MODULE IcebergScan ----------------------------
(***************************************************************************)
(* A pushdown scan of an Iceberg table, from the engine's request to the   *)
(* last batch.  The conjuncts of the WHERE clause reach the provider by    *)
(* FilterWire; providers/iceberg/convert.go translates them for iceberg-go,*)
(* which drops every row they are not true of; pushdown.go turns the       *)
(* projection into field names and a permutation; the engine checks the    *)
(* fields of the stream (table.rs) and reads it through a SeqReader.       *)
(*                                                                         *)
(* Fields are named by their index in the schema cached at registration,   *)
(* from 0; the table is loaded anew for each scan and may have changed.    *)
(***************************************************************************)
EXTENDS SeqReader, FilterWire, SequencesExt

CONSTANTS
  NumFields,          \* fields of the registered schema
  MaxProjection,      \* bound on the length of a projection
  NonFiniteLiterals   \* do the filters have infinities and NaN?

ASSUME IcebergAssumption ==
  /\ Factor \in Nat \ {0} /\ NumFields \in Nat \ {0} /\ MaxProjection \in Nat
  /\ NonFiniteLiterals \in BOOLEAN

VARIABLES
  pc,          \* "idle", "called", "loaded", "planned", "reading", "rejected",
               \* "undecodable" or "failed"
  where,       \* the engine's conjuncts
  opts,        \* what Go gets: the filters, a function of the indices of their
               \* conjuncts, and the projection or AllFields
  fields,      \* the fields of the table as it is loaded, in order
  rowFilter,   \* what is left of the filters: a function of their indices
  plan         \* the projection plan

requestVars == <<where, opts, fields, rowFilter, plan>>
scanVars == <<pc, requestVars>>
-----------------------------------------------------------------------------
(* Literals.  Half is half the number of 64-bit integers.                  *)

Int64 == (-Half)..(Half - 1)
MaxInt64 == Half - 1

\* What Go makes of a number that is too large for an int64.
Wrap(n) == ((n + Half) % (2 * Half)) - Half

\* The iceberg-go type a literal becomes: the small integers widen, "date64"
\* stands for those without a counterpart.
IcebergType(l) ==
  CASE l.type = "uint64" -> "int64"
    [] l.type \in {"int32", "int64", "float64", "timestamp"} -> l.type
    [] OTHER -> "none"

\* Seconds are scaled to microseconds.
Scaled(l) ==
  IF l.type = "float64" THEN l.raw
  ELSE IF l.unit = "s" THEN Wrap(l.raw * Factor) ELSE Wrap(l.raw)

\* The literal is scaled without a look at its size.
UncheckedLiteral(l) == [ok |-> IcebergType(l) # "none", v |-> Scaled(l)]

\* convertLiteral: ok says whether there is a counterpart, v is its value.
\* scaleTimestamp compares with the quotients, which Go rounds to zero.
convertLiteral(l) ==
  [ok |-> CASE l.type = "uint64" -> l.raw <= MaxInt64
            [] l.unit = "s" ->
                 l.raw <= MaxInt64 \div Factor /\ l.raw >= -(Half \div Factor)
            [] OTHER -> IcebergType(l) # "none",
   v |-> Scaled(l)]
-----------------------------------------------------------------------------
(* Translation.  An iceberg-go expression is written like a filter.        *)

Dropped == [kind |-> "dropped"]

comparePred(op, v) == Compare(op, Literal(v, TRUE))

convertBetween(e) ==
  LET low == convertLiteral(e.low)
      high == convertLiteral(e.high)
  IN IF ~(low.ok /\ high.ok) THEN Dropped
     ELSE IF e.negated THEN Or(comparePred("lt", low.v), comparePred("gt", high.v))
     ELSE And(comparePred("gteq", low.v), comparePred("lteq", high.v))

\* One set predicate: the elements must have one type.
convertInList(e) ==
  IF /\ e.list # {}
     /\ \A l \in e.list : convertLiteral(l).ok
     /\ \A l, m \in e.list : IcebergType(l) = IcebergType(m)
  THEN InList(e.negated, {Literal(convertLiteral(l).v, TRUE) : l \in e.list})
  ELSE Dropped

ConvertLeaf(e) ==
  CASE e.kind = "compare" ->
         LET c == convertLiteral(e.lit)
         IN IF c.ok THEN comparePred(e.op, c.v) ELSE Dropped
    [] e.kind = "isnull" -> e
    [] e.kind = "between" -> convertBetween(e)
    [] e.kind = "in" -> convertInList(e)

ConvertOn(D) ==
  LET C[e \in D] ==
        CASE e.kind \in {"and", "or"} ->
               LET l == C[e.left]
                   r == C[e.right]
               IN IF Dropped \in {l, r} THEN Dropped
                  ELSE IF e.kind = "and" THEN And(l, r) ELSE Or(l, r)
          [] e.kind = "not" ->
               LET inner == C[e.expr]
               IN IF inner = Dropped THEN Dropped ELSE Not(inner)
          [] OTHER -> ConvertLeaf(e)
  IN C

convertExpr(e) == ConvertOn(GoExpr)[e]

\* convertFilters: a filter that has no translation, or whose translation
\* does not bind to the table's schema, is left out.
convertFilters(fs, bound) ==
  [i \in {i \in DOMAIN fs : convertExpr(fs[i]) # Dropped /\ i \in bound} |->
     convertExpr(fs[i])]
-----------------------------------------------------------------------------
(* Projection *)

AllFields == [all |-> TRUE, seq |-> <<>>]
Fields(s) == [all |-> FALSE, seq |-> s]
Field == 0..(NumFields - 1)
Registered == [i \in 1..NumFields |-> i - 1]

NoPlan == [select |-> {}, permute |-> FALSE, perm |-> <<>>]

\* The place of a field, from 0, when the selected ones are sorted: there are
\* as many before it.
PosInOutput(p, f) == Cardinality({g \in ToSet(p) : g < f})

\* A plan that permutes only when fields are repeated.
LengthOnlyPlan(p) ==
  [select |-> IF p = <<>> THEN {0} ELSE ToSet(p),
   permute |-> p = <<>> \/ Len(p) # Cardinality(ToSet(p)),
   perm |-> [i \in DOMAIN p |-> PosInOutput(p, p[i])]]

\* projectionPlan: the fields to select, and where each projected field is
\* among them unless that is where it belongs.  Of an empty projection's
\* field nothing is kept.
projectionPlan(p) ==
  LET perm == [i \in DOMAIN p |-> PosInOutput(p, p[i])]
      identity == Len(p) = Cardinality(ToSet(p)) /\ \A i \in DOMAIN p : perm[i] = i - 1
  IN [select |-> IF p = <<>> THEN {0} ELSE ToSet(p),
      permute |-> p = <<>> \/ ~identity,
      perm |-> IF identity THEN <<>> ELSE perm]

\* The fields of fs that are in S, in order.
Selected(fs, S) ==
  LET at == {i \in DOMAIN fs : fs[i] \in S}
      before(i) == Cardinality({j \in at : j < i})
  IN [k \in 1..Cardinality(at) |-> fs[CHOOSE i \in at : before(i) = k - 1]]

\* iceberg-go yields the selected fields in the order of the table as it is
\* now, and ProjectReader takes those at the indices of perm.
Delivered ==
  LET output == IF opts.projection.all THEN fields ELSE Selected(fields, plan.select)
  IN IF plan.permute THEN [i \in DOMAIN plan.perm |-> output[plan.perm[i] + 1]]
     ELSE output

\* The fields the engine expects.
Expected == IF opts.projection.all THEN Registered ELSE opts.projection.seq
-----------------------------------------------------------------------------
(* What the engine may ask for, and of which table *)

Types64 == {"int32", "int64", "seconds", "micros", "date64"}
SomeScalars ==
  {Scalar("int64", 1), Scalar("uint64", 0), Scalar("uint64", Half), Scalar("int32", 0),
   Scalar("seconds", -1), Scalar("seconds", MaxInt64), Scalar("int64", Null),
   Scalar("decimal", 1)}
Scalars ==
  {Scalar(type, v) : type \in Types64, v \in {-Half, -1, 0, 1, MaxInt64}}
    \cup {Scalar("uint64", v) : v \in 0..(2 * Half - 1)}
    \cup {Scalar("seconds", v) : v \in Int64}
    \cup {Scalar("float64", v) : v \in {0, 1} \cup (IF NonFiniteLiterals THEN NonFinite ELSE {})}
    \cup SomeScalars
Leaves ==
  {Binary(Col, op, s) : op \in EngineOps, s \in Scalars}
    \cup {Binary(s, op, Col) : op \in EngineOps, s \in Scalars}
    \cup {Binary(Col, "=", Col), Binary(Computed, "<", Scalar("int64", 1))}
    \cup {IsNullOf(x, n) : x \in {Col, Computed}, n \in BOOLEAN}
    \cup {BetweenOf(Col, n, a, b) : n \in BOOLEAN, a, b \in SomeScalars}
    \cup {InListOf(Col, n, ss) : n \in BOOLEAN,
                                 ss \in {s \in SUBSET SomeScalars : Cardinality(s) <= 2}}
Core ==
  {Binary(Col, "=", Scalar("int64", 1)), Binary(Scalar("uint64", Half), ">", Col),
   IsNullOf(Col, FALSE), BetweenOf(Col, TRUE, Scalar("seconds", -1), Scalar("int64", 1)),
   Other("true"), Other("false"), Other("null")}
Compounds == {And(l, r) : l, r \in Core} \cup {Or(l, r) : l, r \in Core}
Wheres ==
  {<<e>> : e \in Leaves \cup {Not(e) : e \in Leaves} \cup Compounds
                   \cup {Not(e) : e \in Compounds}}
    \cup {<<l, r>> : l, r \in Core}

Projections ==
  {AllFields} \cup {Fields(s) : s \in BoundedSeq(Field \cup {NumFields}, MaxProjection)}

\* Columns may have been dropped, added (NumFields) and moved.
Evolved ==
  {s \in BoundedSeq(Field \cup {NumFields}, NumFields + 1) :
     s # <<>> /\ Cardinality(ToSet(s)) = Len(s)}
-----------------------------------------------------------------------------
NoOptions == [filters |-> <<>>, projection |-> AllFields]
NoRequest ==
  where = <<>> /\ opts = NoOptions /\ fields = <<>> /\ rowFilter = <<>> /\ plan = NoPlan

ScanInit == pc = "idle" /\ NoRequest /\ Init

\* GoTableProvider::scan writes the request, go_table_scan decodes it, or
\* fails the scan.
Call(w, p) ==
  LET filters == decodeFilters(filters_to_json(w)) IN
  /\ pc = "idle"
  /\ where' = w
  /\ opts' = [filters |-> filters, projection |-> p]
  /\ pc' = IF Undecodable \in ToSet(filters) THEN "undecodable" ELSE "called"
  /\ UNCHANGED <<fields, rowFilter, plan, vars>>

\* ScanWithOptions loads the table, or fails to.
Load(fs) ==
  /\ pc = "called"
  /\ pc' = "loaded"
  /\ fields' = fs
  /\ UNCHANGED <<where, opts, rowFilter, plan, vars>>

LoadFails ==
  /\ pc = "called"
  /\ pc' = "failed"
  /\ UNCHANGED <<requestVars, vars>>

InRange(p) == p.all \/ \A i \in DOMAIN p.seq : p.seq[i] \in Field

\* The scan's options: the row filter and the selected fields.
Plan(bound) ==
  /\ pc = "loaded"
  /\ InRange(opts.projection)
  /\ rowFilter' = convertFilters(opts.filters, bound)
  /\ plan' = IF opts.projection.all THEN NoPlan ELSE projectionPlan(opts.projection.seq)
  /\ pc' = "planned"
  /\ UNCHANGED <<where, opts, fields, vars>>

PlanFails ==
  /\ pc = "loaded"
  /\ ~InRange(opts.projection)
  /\ pc' = "failed"
  /\ UNCHANGED <<requestVars, vars>>

\* What was asked for is not needed any more.
Forget ==
  /\ where' = <<>> /\ opts' = NoOptions /\ fields' = <<>>
  /\ rowFilter' = <<>> /\ plan' = NoPlan

\* Nobody looks at the stream's fields.
UncheckedOpenStream ==
  /\ pc = "planned"
  /\ plan.select \subseteq ToSet(fields)
  /\ pc' = "reading"
  /\ Forget /\ UNCHANGED vars

\* ToArrowRecords and readerFromSeq, whose goroutine starts; open_go_scan
\* has the stream's schema validated.
OpenStream ==
  /\ pc = "planned"
  /\ plan.select \subseteq ToSet(fields)
  /\ pc' = IF Delivered = Expected THEN "reading" ELSE "rejected"
  /\ Forget /\ UNCHANGED vars

\* ToArrowRecords fails, always if a selected field is gone.
OpenFails ==
  /\ pc = "planned"
  /\ pc' = "failed"
  /\ Forget /\ UNCHANGED vars

\* The stream is read.
Reading(A) == pc = "reading" /\ A /\ UNCHANGED scanVars

\* open_go_scan drops a stream it rejects.
Dropping(A) == pc = "rejected" /\ A /\ UNCHANGED scanVars

AfterDrop == reader = "released" /\ UNCHANGED vars

Stopped == pc \in {"failed", "undecodable"} /\ UNCHANGED <<scanVars, vars>>

ScanNext ==
  \/ \E w \in Wheres : Call(w, AllFields)
  \/ \E p \in Projections : Call(<<>>, p)
  \/ \E fs \in (IF where = <<>> THEN Evolved ELSE {Registered}) : Load(fs)
  \/ \E bound \in SUBSET DOMAIN opts.filters : Plan(bound)
  \/ LoadFails \/ PlanFails \/ OpenStream \/ OpenFails
  \/ Reading(Next)
  \/ Dropping(Pulls \/ Cancelled \/ Release \/ Drain \/ Drained \/ AfterDrop)
  \/ Stopped

ScanSpec == ScanInit /\ [][ScanNext]_<<scanVars, vars>>

\* A scan that is being read runs on, as in SeqReader, and one that is
\* rejected is released.
Streaming(A) == Reading(A) \/ Dropping(A)
ScanFairness ==
  /\ WF_<<scanVars, vars>>(Streaming(Pulls))
  /\ WF_<<scanVars, vars>>(Streaming(Cancelled))
  /\ WF_<<scanVars, vars>>(Reading(Receive \/ ReceiveClosed))
  /\ WF_<<scanVars, vars>>(Streaming(Drain \/ Drained))
  /\ WF_<<scanVars, vars>>(Dropping(Release))
-----------------------------------------------------------------------------
(* Properties *)

\* A row that satisfies the WHERE clause satisfies everything iceberg-go is
\* given to filter by, and Go decodes every document the engine writes:
\* "it MUST NOT omit rows that match" (table.go:60; pushdown.rs:118-210,
\* expr.go:102-404, convert.go:16-317).
NoMatchDropped ==
  /\ pc # "undecodable"
  /\ \A v \in Int64 \cup {Null} :
       (\A i \in DOMAIN where : EngineTruth(where[i], v) = "true") =>
         \A i \in DOMAIN rowFilter : Truth(rowFilter[i], v) = "true"

\* The engine reads a stream only if it has exactly the fields that were
\* asked for, in that order, with repetitions, and turns it down only if the
\* table has changed since it was registered (pushdown.go:43-112,
\* table.rs:396-446).
ProjectionExact ==
  [][/\ pc = "planned" /\ pc' = "reading" => Delivered = Expected
     /\ pc = "planned" /\ pc' = "rejected" => fields # Registered]_pc

\* Next and Release of a scan's reader always return, and a stream that was
\* turned down is released, its goroutine gone (reader.go:67-115,
\* table.rs:396-446).
ScanReleases == ReaderReturns /\ (pc = "rejected" ~> reader = "released")
=============================================================================
