----------------------------- MODULE SkipRules -----------------------------
(***************************************************************************)
(* When may a Parquet row group be left out of a scan?  The rules for one  *)
(* predicate on one column (providers/parquet/skip.go), the statistics     *)
(* they are given (stats.go) and the bloom filter they probe (bloom.go).   *)
(*                                                                         *)
(* A column's values are integers: "int" stands for the signed and the     *)
(* temporal types, "uint" for the types whose zero value is the least      *)
(* (unsigned integers, stored as signed ones of the same width; strings,   *)
(* bytes and Booleans), "float" for the floating-point ones.  NaN is one   *)
(* more float; the engine orders it above all numbers.                     *)
(***************************************************************************)
EXTENDS Integers, Sequences, FiniteSets

CONSTANTS
  Half,   \* half the number of values of a physical type
  Null    \* SQL NULL

ASSUME SkipAssumption == Half \in Nat \ {0} /\ Null \notin Int

Types == {"int", "uint", "float"}
Values(t) == IF t = "uint" THEN 0..(2 * Half - 1) ELSE (-Half)..(Half - 1)
NaN == 4 * Half

\* The bits of an unsigned value read as a signed one, and back.
Physical(t, v) == IF t = "uint" /\ v >= Half THEN v - 2 * Half ELSE v
Logical(t, p) == IF t = "uint" /\ p < 0 THEN p + 2 * Half ELSE p

\* A literal of the filter.  It is typed when literalValue converts it to the
\* column's domain, and not when its type or time unit differs.
Literal(v, typed) == [v |-> v, typed |-> typed]

Compare(op, l) == [kind |-> "compare", op |-> op, lit |-> l]
IsNull(n) == [kind |-> "isnull", negated |-> n]
Between(n, a, b) == [kind |-> "between", negated |-> n, low |-> a, high |-> b]
InList(n, ls) == [kind |-> "in", negated |-> n, list |-> ls]
-----------------------------------------------------------------------------
(* Statistics *)

\* What a file's writer left in the footer for one column of a row group:
\* bounds and a null count, each of them or not.  External.
Absent == [set |-> FALSE, v |-> 0]
Present(v) == [set |-> TRUE, v |-> v]

\* The footer as arrow-go decodes it: HasMinMax if either bound is there, and
\* zero for whatever is not.  External.
Decoded(w) ==
  [hasMinMax |-> w.min.set \/ w.max.set, min |-> w.min.v, max |-> w.max.v,
   nullCount |-> w.nulls.v]

NoStats == [known |-> FALSE, hasMinMax |-> FALSE, min |-> 0, max |-> 0,
            hasNullCount |-> FALSE, nullCount |-> 0]

isNaN(v) == v = NaN

\* Go's three-way comparison: neither less nor greater is equal, NaN too.
cmpVal(a, b) ==
  IF isNaN(a) \/ isNaN(b) THEN 0 ELSE IF a < b THEN -1 ELSE IF a > b THEN 1 ELSE 0

\* A null count of zero taken at face value.
TrustingColStats(t, w) ==
  LET d == Decoded(w)
      lo == Logical(t, d.min)
      hi == Logical(t, d.max)
      range == d.hasMinMax /\ ~isNaN(lo) /\ ~isNaN(hi) /\ cmpVal(lo, hi) <= 0
  IN [known |-> TRUE, hasMinMax |-> range, min |-> lo, max |-> hi,
      hasNullCount |-> TRUE, nullCount |-> d.nullCount]

\* colStatsFromTyped: a column with neither a range nor nulls has no entry.
colStatsFromTyped(t, w) ==
  LET d == Decoded(w)
      lo == Logical(t, d.min)
      hi == Logical(t, d.max)
      range == d.hasMinMax /\ ~isNaN(lo) /\ ~isNaN(hi) /\ cmpVal(lo, hi) <= 0
      nulls == d.nullCount > 0
  IN IF range \/ nulls
     THEN [known |-> TRUE, hasMinMax |-> range, min |-> lo, max |-> hi,
           hasNullCount |-> nulls, nullCount |-> d.nullCount]
     ELSE NoStats
-----------------------------------------------------------------------------
(* The rules.  cs is the column's entry, n the group's row count, b its    *)
(* bloom filter: the set of physical values it answers "maybe" for, if any *)

NoBloom == [set |-> FALSE, maybe |-> {}]

\* rowGroupBloomProber.absent: floats are never probed, and integers only
\* when they fit the physical type.
absent(t, b, l) ==
  /\ l.typed /\ t # "float" /\ l.v \in Values(t)
  /\ b.set
  /\ Physical(t, l.v) \notin b.maybe

provablyAllNull(cs, n) == cs.hasNullCount /\ cs.nullCount = n

usableRange(cs) == cs.hasMinMax /\ ~isNaN(cs.min) /\ ~isNaN(cs.max)

comparable(l) == l.typed /\ ~isNaN(l.v)

outside(l, cs) == cmpVal(l.v, cs.min) < 0 \/ cmpVal(l.v, cs.max) > 0

\* The range alone rules the comparison out.
rangeExcludes(op, l, cs) ==
  CASE op = "eq" -> outside(l, cs)
    [] op = "lt" -> cmpVal(cs.min, l.v) >= 0
    [] op = "lteq" -> cmpVal(cs.min, l.v) > 0
    [] op = "gt" -> cmpVal(cs.max, l.v) <= 0
    [] op = "gteq" -> cmpVal(cs.max, l.v) < 0
    [] op = "neq" -> cmpVal(cs.min, cs.max) = 0 /\ cmpVal(cs.min, l.v) = 0

canSkipCompare(e, t, cs, n, b) ==
  /\ cs.known
  /\ \/ provablyAllNull(cs, n)
     \/ usableRange(cs) /\ comparable(e.lit) /\ rangeExcludes(e.op, e.lit, cs)
     \/ e.op = "eq" /\ absent(t, b, e.lit)

canSkipIsNull(e, cs, n) ==
  /\ cs.known /\ cs.hasNullCount
  /\ cs.nullCount = IF e.negated THEN n ELSE 0

canSkipBetween(e, cs, n) ==
  /\ cs.known
  /\ \/ provablyAllNull(cs, n)
     \/ /\ comparable(e.low) /\ comparable(e.high)
        /\ \/ ~e.negated /\ cmpVal(e.low.v, e.high.v) > 0
           \/ /\ usableRange(cs)
              /\ IF e.negated
                 THEN cmpVal(cs.min, e.low.v) >= 0 /\ cmpVal(cs.max, e.high.v) <= 0
                 ELSE cmpVal(e.high.v, cs.min) < 0 \/ cmpVal(e.low.v, cs.max) > 0

inElementAbsent(t, l, cs, b) ==
  \/ usableRange(cs) /\ comparable(l) /\ outside(l, cs)
  \/ absent(t, b, l)

canSkipInList(e, t, cs, n, b) ==
  /\ cs.known
  /\ \/ provablyAllNull(cs, n)
     \/ /\ e.negated
        /\ usableRange(cs) /\ cmpVal(cs.min, cs.max) = 0
        /\ \E l \in e.list : comparable(l) /\ cmpVal(l.v, cs.min) = 0
     \/ /\ ~e.negated
        /\ \A l \in e.list : inElementAbsent(t, l, cs, b)

canSkipLeaf(e, t, cs, n, b) ==
  CASE e.kind = "compare" -> canSkipCompare(e, t, cs, n, b)
    [] e.kind = "isnull" -> canSkipIsNull(e, cs, n)
    [] e.kind = "between" -> canSkipBetween(e, cs, n)
    [] e.kind = "in" -> canSkipInList(e, t, cs, n, b)
-----------------------------------------------------------------------------
(* What a predicate means: the engine's evaluation of it on a value, which *)
(* is TRUE or not (FALSE or NULL).  External.                              *)

Ops == {"eq", "neq", "lt", "lteq", "gt", "gteq"}

Holds(op, v, w) ==
  CASE op = "eq" -> v = w
    [] op = "neq" -> v # w
    [] op = "lt" -> v < w
    [] op = "lteq" -> v <= w
    [] op = "gt" -> v > w
    [] op = "gteq" -> v >= w

LeafTrue(e, v) ==
  CASE e.kind = "isnull" -> v = Null <=> ~e.negated
    [] e.kind = "compare" -> v # Null /\ Holds(e.op, v, e.lit.v)
    [] e.kind = "between" ->
         v # Null /\ (e.low.v <= v /\ v <= e.high.v <=> ~e.negated)
    [] e.kind = "in" -> v # Null /\ ((\E l \in e.list : v = l.v) <=> ~e.negated)
-----------------------------------------------------------------------------
(* Row groups, as sequences of one column's values.                        *)

NonNull(rows) == {rows[i] : i \in DOMAIN rows} \ {Null}
Nulls(rows) == {i \in DOMAIN rows : rows[i] = Null}
NullCount(rows) == Cardinality(Nulls(rows))

\* The footer tells no lies: what it says of these rows is so (bounds need
\* not be tight), and an absent part is the zero it decodes to.
Honest(t, w, rows) ==
  /\ w.min.set => \/ isNaN(w.min.v)
                  \/ \A v \in NonNull(rows) : Logical(t, w.min.v) <= v
  /\ w.max.set => \/ isNaN(w.max.v)
                  \/ \A v \in NonNull(rows) : v <= Logical(t, w.max.v)
  /\ w.nulls.set => w.nulls.v = NullCount(rows)
  /\ \A p \in {w.min, w.max, w.nulls} : ~p.set => p.v = 0

\* Both bounds or neither.
TwoSided(w) == w.min.set <=> w.max.set

\* A bloom filter has no false negatives.
BloomTrue(t, b, rows) ==
  b.set => \A v \in NonNull(rows) : Physical(t, v) \in b.maybe
=============================================================================
