----------------------------- MODULE FilterWire -----------------------------
(***************************************************************************)
(* How the conjuncts of a WHERE clause reach a Go provider: the engine     *)
(* recognises the ones it can express and writes them as one JSON document *)
(* (pushdown.rs), which go_table_scan decodes into the predicates of       *)
(* Filters (expr.go).                                                      *)
(*                                                                         *)
(* The expressions are over one column, of 64-bit integers, floats or      *)
(* timestamps in microseconds.                                             *)
(***************************************************************************)
EXTENDS Filters

CONSTANT Factor   \* microseconds in the coarser timestamp unit
-----------------------------------------------------------------------------
(* The engine's expressions.  External.                                    *)

\* Operands: the column, a scalar (of a type, Null or not), anything else.
Col == [kind |-> "col"]
Scalar(type, v) == [kind |-> "scalar", type |-> type, v |-> v]
Computed == [kind |-> "computed"]

\* The floats that are no numbers; the engine orders them like this.
Infinity == 3 * Half
NonFinite == {-Infinity, Infinity, NaN}

Binary(l, op, r) == [kind |-> "binary", op |-> op, left |-> l, right |-> r]
IsNullOf(x, n) == [kind |-> "nulltest", of |-> x, negated |-> n]
BetweenOf(x, n, a, b) ==
  [kind |-> "range", of |-> x, negated |-> n, low |-> a, high |-> b]
InListOf(x, n, xs) == [kind |-> "member", of |-> x, negated |-> n, list |-> xs]

\* A predicate of some other form, with what it evaluates to.
Other(truth) == [kind |-> "other", truth |-> truth]

EngineOps == {"=", "!=", "<", "<=", ">", ">="}
ScalarTypes ==
  {"int32", "int64", "uint64", "float64", "seconds", "micros", "date64", "decimal"}
Truths == {"true", "false", "null"}

Operands ==
  {Col, Computed} \cup [kind : {"scalar"}, type : ScalarTypes, v : Int \cup {Null}]
EngineLeaf ==
  [kind : {"binary"}, op : EngineOps, left : Operands, right : Operands]
    \cup [kind : {"nulltest"}, of : Operands, negated : BOOLEAN]
    \cup [kind : {"range"}, of : Operands, negated : BOOLEAN, low : Operands, high : Operands]
    \cup [kind : {"member"}, of : Operands, negated : BOOLEAN, list : SUBSET Operands]
    \cup [kind : {"other"}, truth : Truths]
EngineExpr == Nested(EngineLeaf)

compare_op == [o \in EngineOps |->
  CASE o = "=" -> "eq" [] o = "!=" -> "neq" [] o = "<" -> "lt"
    [] o = "<=" -> "lteq" [] o = ">" -> "gt" [] o = ">=" -> "gteq"]

\* What a scalar stands for, in the column's unit.
Worth(s) == IF s.type = "seconds" /\ s.v # Null THEN s.v * Factor ELSE s.v

Compares(op, a, b) ==
  IF Null \in {a, b} THEN "null"
  ELSE IF Holds(compare_op[op], a, b) THEN "true" ELSE "false"

\* What a computed operand yields does not matter: NULL stands for it.
Operand(x, v) ==
  CASE x.kind = "col" -> v [] x.kind = "scalar" -> Worth(x) [] OTHER -> Null

Unless(negated, truth) == IF negated THEN Negation(truth) ELSE truth

\* x IN (...) is x = a OR x = b OR ..., and false of an empty list.
AnyEqual(x, xs, v) ==
  LET ts == {Compares("=", Operand(x, v), Operand(y, v)) : y \in xs}
  IN IF "true" \in ts THEN "true" ELSE IF "null" \in ts THEN "null" ELSE "false"

EngineLeafTruth(e, v) ==
  CASE e.kind = "binary" -> Compares(e.op, Operand(e.left, v), Operand(e.right, v))
    [] e.kind = "nulltest" ->
         Unless(e.negated, IF Operand(e.of, v) = Null THEN "true" ELSE "false")
    [] e.kind = "range" ->
         LET x == Operand(e.of, v)
         IN Unless(e.negated, Both(Compares(">=", x, Operand(e.low, v)),
                                   Compares("<=", x, Operand(e.high, v))))
    [] e.kind = "member" -> Unless(e.negated, AnyEqual(e.of, e.list, v))
    [] e.kind = "other" -> e.truth

\* The engine's own evaluation of an expression on a row.
EngineTruthOn(D, v) ==
  LET T[e \in D] ==
        CASE e.kind = "and" -> Both(T[e.left], T[e.right])
          [] e.kind = "or" -> Either(T[e.left], T[e.right])
          [] e.kind = "not" -> Negation(T[e.expr])
          [] OTHER -> EngineLeafTruth(e, v)
  IN T

EngineTruth(e, v) == EngineTruthOn(EngineExpr, v)[e]
-----------------------------------------------------------------------------
(* pushdown.rs *)

\* No wire form (Option::None).
NoWire == [kind |-> "none"]

\* literal and scalar_to_literal, and how serde_json writes the value: a
\* float that is no number becomes the JSON null.
literal(s) ==
  IF s.kind = "scalar" /\ s.v # Null /\ s.type # "decimal"
  THEN [kind |-> "literal",
        type |-> IF s.type \in {"seconds", "micros"} THEN "timestamp" ELSE s.type,
        unit |-> CASE s.type = "seconds" -> "s" [] s.type = "micros" -> "us"
                   [] OTHER -> "",
        value |-> IF s.type = "float64" /\ s.v \in NonFinite THEN Null ELSE s.v]
  ELSE NoWire

\* Operator::swap
swap(op) ==
  CASE op = "<" -> ">" [] op = "<=" -> ">=" [] op = ">" -> "<" [] op = ">=" -> "<="
    [] OTHER -> op

column_ref(x) == IF x = Col THEN Col ELSE NoWire

\* A node, unless a part of it has no wire form.
Whole(parts, node) == IF NoWire \in parts THEN NoWire ELSE node

WireCompare(op, l) == Whole({l}, [kind |-> "compare", op |-> op, literal |-> l])

\* A mirrored comparison is turned around with its operator as it is.
UnswappedBinary(e) ==
  IF e.left = Col THEN WireCompare(compare_op[e.op], literal(e.right))
  ELSE IF e.right = Col THEN WireCompare(compare_op[e.op], literal(e.left))
  ELSE NoWire

\* `literal op column` is turned around.
ClassifyBinary(e) ==
  IF e.left = Col THEN WireCompare(compare_op[e.op], literal(e.right))
  ELSE IF e.right = Col THEN WireCompare(compare_op[swap(e.op)], literal(e.left))
  ELSE NoWire

ClassifyLeaf(e) ==
  CASE e.kind = "binary" -> ClassifyBinary(e)
    [] e.kind = "nulltest" ->
         Whole({column_ref(e.of)}, [kind |-> "is_null", negated |-> e.negated])
    [] e.kind = "range" ->
         LET low == literal(e.low)
             high == literal(e.high)
         IN Whole({column_ref(e.of), low, high},
                  [kind |-> "between", negated |-> e.negated, low |-> low, high |-> high])
    [] e.kind = "member" ->
         LET list == {literal(x) : x \in e.list}
         IN Whole(list \cup {column_ref(e.of)},
                  [kind |-> "in_list", negated |-> e.negated, list |-> list])
    [] e.kind = "other" -> NoWire

ClassifyOn(D) ==
  LET C[e \in D] ==
        CASE e.kind \in {"and", "or"} ->
               LET l == C[e.left]
                   r == C[e.right]
               IN Whole({l, r}, [kind |-> e.kind, left |-> l, right |-> r])
          [] e.kind = "not" ->
               LET inner == C[e.expr] IN Whole({inner}, [kind |-> "not", expr |-> inner])
          [] OTHER -> ClassifyLeaf(e)
  IN C

classify(e) == ClassifyOn(EngineExpr)[e]

\* What may be on the wire.
WireLiteral ==
  [kind : {"literal"}, type : ScalarTypes \cup {"timestamp"}, unit : {"", "s", "us"},
   value : Int \cup {Null}]
WireLeaf ==
  [kind : {"compare"}, op : Ops, literal : WireLiteral]
    \cup [kind : {"is_null"}, negated : BOOLEAN]
    \cup [kind : {"between"}, negated : BOOLEAN, low : WireLiteral, high : WireLiteral]
    \cup [kind : {"in_list"}, negated : BOOLEAN, list : SUBSET WireLiteral]
Wire == Nested(WireLeaf)

\* The document carries the conjuncts that have a wire form: a function of
\* their places among all of them.  The engine evaluates all of them again.
filters_to_json(where) ==
  [i \in {i \in DOMAIN where : classify(where[i]) # NoWire} |-> classify(where[i])]
-----------------------------------------------------------------------------
(* expr.go *)

\* A decoding error.
Undecodable == [kind |-> "undecodable"]

\* The values that fit a literal's Go type.
Fits(type, v) ==
  CASE type = "uint64" -> v \in 0..(2 * Half - 1)
    [] type \in {"int32", "int64", "timestamp", "date64"} -> v \in (-Half)..(Half - 1)
    [] type = "float64" -> TRUE
    [] OTHER -> FALSE

\* Literal.UnmarshalJSON: the JSON null leaves a number at its zero.
UnmarshalLiteral(w) ==
  IF /\ w.value # Null => Fits(w.type, w.value)
     /\ w.type = "timestamp" => w.unit \in {"s", "us"}
  THEN [kind |-> "literal", type |-> w.type, unit |-> w.unit,
        raw |-> IF w.value = Null THEN 0 ELSE w.value]
  ELSE Undecodable

\* What Go decodes: like a Filter, with literals that are still to be converted.
GoLiteral ==
  [kind : {"literal"}, type : ScalarTypes \cup {"timestamp"}, unit : {"", "s", "us"},
   raw : Int]
GoLeaf ==
  [kind : {"compare"}, op : Ops, lit : GoLiteral]
    \cup [kind : {"isnull"}, negated : BOOLEAN]
    \cup [kind : {"between"}, negated : BOOLEAN, low : GoLiteral, high : GoLiteral]
    \cup [kind : {"in"}, negated : BOOLEAN, list : SUBSET GoLiteral]
GoExpr == Nested(GoLeaf)

AllDecoded(parts, node) == IF Undecodable \in parts THEN Undecodable ELSE node

DecodeLeaf(w) ==
  CASE w.kind = "compare" ->
         LET l == UnmarshalLiteral(w.literal)
         IN IF w.op \in Ops THEN AllDecoded({l}, Compare(w.op, l)) ELSE Undecodable
    [] w.kind = "is_null" -> IsNull(w.negated)
    [] w.kind = "between" ->
         LET low == UnmarshalLiteral(w.low)
             high == UnmarshalLiteral(w.high)
         IN AllDecoded({low, high}, Between(w.negated, low, high))
    [] w.kind = "in_list" ->
         LET list == {UnmarshalLiteral(l) : l \in w.list}
         IN AllDecoded(list, InList(w.negated, list))
    [] OTHER -> Undecodable

DecodeOn(D) ==
  LET X[w \in D] ==
        CASE w.kind \in {"and", "or"} ->
               LET l == X[w.left]
                   r == X[w.right]
               IN AllDecoded({l, r}, IF w.kind = "and" THEN And(l, r) ELSE Or(l, r))
          [] w.kind = "not" ->
               LET inner == X[w.expr] IN AllDecoded({inner}, Not(inner))
          [] OTHER -> DecodeLeaf(w)
  IN X

decodeExpr(w) == DecodeOn(Wire)[w]

decodeFilters(doc) == [i \in DOMAIN doc |-> decodeExpr(doc[i])]
=============================================================================
