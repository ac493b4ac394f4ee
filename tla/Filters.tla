------------------------------ MODULE Filters ------------------------------
(***************************************************************************)
(* The predicates the engine pushes to a provider (datafusion/expr.go),    *)
(* and what they mean to the engine: SQL's three-valued logic.  A scan     *)
(* carries a sequence of them, combined with AND.                          *)
(***************************************************************************)
EXTENDS SkipRules

And(l, r) == [kind |-> "and", left |-> l, right |-> r]
Or(l, r) == [kind |-> "or", left |-> l, right |-> r]
Not(e) == [kind |-> "not", expr |-> e]

\* The predicates with one connective around some of S, besides S itself.
Nest(S) ==
  [kind : {"and", "or"}, left : S, right : S] \cup [kind : {"not"}, expr : S] \cup S

\* No expression nests more connectives than this on its way to a provider.  A
\* provider may turn a BETWEEN into one more.
Nested(S) == Nest(Nest(S))

Lit == [v : Int, typed : BOOLEAN]
Leaf ==
  [kind : {"compare"}, op : Ops, lit : Lit]
    \cup [kind : {"isnull"}, negated : BOOLEAN]
    \cup [kind : {"between"}, negated : BOOLEAN, low : Lit, high : Lit]
    \cup [kind : {"in"}, negated : BOOLEAN, list : SUBSET Lit]
Filter == Nest(Nested(Leaf))

\* SQL's connectives, on "true", "false" and "null".
Both(a, b) == IF "false" \in {a, b} THEN "false" ELSE IF a = b THEN a ELSE "null"
Negation(a) == CASE a = "true" -> "false" [] a = "false" -> "true" [] a = "null" -> a
Either(a, b) == Negation(Both(Negation(a), Negation(b)))

LeafTruth(e, v) ==
  IF LeafTrue(e, v) THEN "true"
  ELSE IF v = Null /\ e.kind # "isnull" THEN "null" ELSE "false"

\* The engine's three-valued evaluation, of the predicates of D.
TruthOn(D, v) ==
  LET T[e \in D] ==
        CASE e.kind = "and" -> Both(T[e.left], T[e.right])
          [] e.kind = "or" -> Either(T[e.left], T[e.right])
          [] e.kind = "not" -> Negation(T[e.expr])
          [] OTHER -> LeafTruth(e, v)
  IN T

Truth(e, v) == TruthOn(Filter, v)[e]

\* The row with this value satisfies the filters.
Matches(fs, v) == \A i \in DOMAIN fs : Truth(fs[i], v) = "true"
=============================================================================
