----------------------------- MODULE ScanProofs ----------------------------
(***************************************************************************)
(* Proofs about the scans of MCScans.tla, for every value of its           *)
(* constants.  The reader over an iterator: SeqReaderInv is inductive as   *)
(* it stands.  The skip rules: a row group they rule out holds no row on   *)
(* which the predicate is true, first for single predicates, then for      *)
(* filters of any nesting.  Parquet and text scans: ParquetInv and TextInv *)
(* say where the object is open, what was handed out and what is left of   *)
(* the limit.  The Iceberg pushdown: a filter that survives the way to     *)
(* iceberg-go means what its conjunct means to the engine.  Its projection *)
(* delivers what was asked for.                                            *)
(***************************************************************************)
EXTENDS MCScans, FiniteSetTheorems, WellFoundedInduction, TLAPS

-----------------------------------------------------------------------------
(* The reader over an iterator *)

\* What the producer, the reader and the cancel channel know of each other:
\* SeqReaderInv without the types and the count of each batch.
ControlInv ==
  /\ producer # "send" => rec = None /\ ~err
  /\ producer = "send" /\ rec = None => err
  /\ cancel <=> reader \in {"drain", "released"}
  /\ refCount = 0 <=> cancel
  /\ reader = "receive" => cur = None /\ ~failed
  /\ failed => producer = "exited" /\ cur = None
  /\ reader = "released" => producer = "exited" /\ cur = None

\* newSeqReader returns a reader that satisfies the invariant.
LEMMA SeqReaderInvInit == Init => SeqReaderInv
<1> SUFFICES ASSUME Init PROVE SeqReaderInv
  OBVIOUS
<1>1. TypeOK
  <2>1. frees \in [Batch -> 0..1]
    BY DEF Init
  <2>2. refCount \in 0..MaxRefs /\ yielded \in 0..MaxBatches
    BY SeqReaderAssumption DEF Init
  <2>3. err \in BOOLEAN /\ failed \in BOOLEAN /\ cancel \in BOOLEAN
    BY DEF Init
  <2> QED BY <2>1, <2>2, <2>3 DEF Init, TypeOK, None
<1>2. BatchOwned
  BY SeqReaderAssumption DEF Init, BatchOwned, Batch, None
<1>3. ControlInv
  BY DEF Init, ControlInv
<1> QED BY <1>1, <1>2, <1>3 DEF SeqReaderInv, ControlInv

\* A batch that is in somebody's hand has been released by nobody, and no
\* batch is in two hands.
LEMMA HeldOnce ==
  ASSUME SeqReaderInv
  PROVE  /\ rec # None => frees[rec] = 0 /\ rec <= yielded /\ cur # rec
         /\ cur # None => frees[cur] = 0 /\ cur <= yielded
<1>1. ASSUME NEW b \in Batch
      PROVE  /\ frees[b] \in 0..1 /\ b \in Nat /\ yielded \in Nat
             /\ (IF rec = b THEN 1 ELSE 0) + (IF cur = b THEN 1 ELSE 0) + frees[b]
                  = IF b <= yielded THEN 1 ELSE 0
  <2>1. frees[b] \in 0..1 /\ b \in Nat /\ yielded \in Nat
    BY SeqReaderAssumption DEF SeqReaderInv, TypeOK, Batch
  <2> QED BY <2>1 DEF SeqReaderInv, BatchOwned
<1>2. ASSUME NEW b \in Batch, b = rec \/ b = cur
      PROVE  frees[b] = 0 /\ b <= yielded /\ ~(b = rec /\ b = cur)
  BY <1>1, <1>2
<1> QED BY <1>2 DEF SeqReaderInv, TypeOK

\* Releasing batches nobody has released keeps the counts within one.
LEMMA FreeOnce ==
  ASSUME SeqReaderInv, NEW b \in Batch \cup {None},
         b # None => frees[b] = 0, Free({b} \ {None})
  PROVE  frees' \in [Batch -> 0..1]
  BY DEF SeqReaderInv, TypeOK, Free

\* Every step of the goroutine, of Next, Retain and Release keeps it.
LEMMA SeqReaderInvStep == SeqReaderInv /\ [Next]_vars => SeqReaderInv'
<1> SUFFICES ASSUME SeqReaderInv, [Next]_vars PROVE SeqReaderInv'
  OBVIOUS
<1> USE SeqReaderAssumption, HeldOnce DEF SeqReaderInv, TypeOK, Batch, None, Free
<1>1. ASSUME NEW b \in Batch \cup {None}, NEW e \in BOOLEAN, Pull(b, e)
      PROVE  SeqReaderInv'
  <2>1. TypeOK'
    BY <1>1 DEF Pull
  <2>2. BatchOwned'
    BY <1>1 DEF Pull, BatchOwned
  <2>3. ControlInv'
    BY <1>1 DEF Pull, ControlInv
  <2> QED BY <2>1, <2>2, <2>3 DEF ControlInv
<1>2. ASSUME PullEnds PROVE SeqReaderInv'
  BY <1>2 DEF PullEnds, BatchOwned
<1>3. ASSUME Cancelled PROVE SeqReaderInv'
  <2>1. TypeOK'
    <3>1. frees' \in [Batch -> 0..1]
      BY <1>3, FreeOnce DEF Cancelled
    <3> QED BY <1>3, <3>1 DEF Cancelled
  <2>2. BatchOwned'
    BY <1>3 DEF Cancelled, BatchOwned
  <2>3. ControlInv'
    BY <1>3 DEF Cancelled, ControlInv
  <2> QED BY <2>1, <2>2, <2>3 DEF ControlInv
<1>4. ASSUME StartNext PROVE SeqReaderInv'
  <2>1. TypeOK'
    <3>1. frees' \in [Batch -> 0..1]
      BY <1>4, FreeOnce DEF StartNext
    <3> QED BY <1>4, <3>1 DEF StartNext
  <2>2. BatchOwned'
    BY <1>4 DEF StartNext, BatchOwned
  <2>3. ControlInv'
    BY <1>4 DEF StartNext, ControlInv
  <2> QED BY <2>1, <2>2, <2>3 DEF ControlInv
<1>5. ASSUME Receive PROVE SeqReaderInv'
  <2>1. TypeOK'
    <3>1. frees' \in [Batch -> 0..1]
      BY <1>5, FreeOnce DEF Receive, Sent
    <3> QED BY <1>5, <3>1 DEF Receive, Sent
  <2>2. BatchOwned'
    BY <1>5 DEF Receive, Sent, BatchOwned
  <2>3. ControlInv'
    BY <1>5 DEF Receive, Sent, ControlInv
  <2> QED BY <2>1, <2>2, <2>3 DEF ControlInv
<1>6. ASSUME ReceiveClosed PROVE SeqReaderInv'
  BY <1>6 DEF ReceiveClosed, BatchOwned
<1>7. ASSUME Retain PROVE SeqReaderInv'
  BY <1>7 DEF Retain, BatchOwned
<1>8. ASSUME Release PROVE SeqReaderInv'
  <2>1. TypeOK'
    <3>1. refCount # 0
      BY <1>8 DEF Release
    <3>2. refCount' \in 0..MaxRefs
      BY <1>8, <3>1 DEF Release
    <3> QED BY <1>8, <3>2 DEF Release
  <2>2. BatchOwned'
    BY <1>8 DEF Release, BatchOwned
  <2>3. ControlInv'
    BY <1>8 DEF Release, ControlInv
  <2> QED BY <2>1, <2>2, <2>3 DEF ControlInv
<1>9. ASSUME Drain PROVE SeqReaderInv'
  <2>1. TypeOK'
    <3>1. frees' \in [Batch -> 0..1]
      BY <1>9, FreeOnce DEF Drain, Sent
    <3> QED BY <1>9, <3>1 DEF Drain, Sent
  <2>2. BatchOwned'
    BY <1>9 DEF Drain, Sent, BatchOwned
  <2>3. ControlInv'
    BY <1>9 DEF Drain, Sent, ControlInv
  <2> QED BY <2>1, <2>2, <2>3 DEF ControlInv
<1>10. ASSUME Drained PROVE SeqReaderInv'
  <2>1. TypeOK'
    <3>1. frees' \in [Batch -> 0..1]
      BY <1>10, FreeOnce DEF Drained
    <3> QED BY <1>10, <3>1 DEF Drained
  <2>2. BatchOwned'
    BY <1>10 DEF Drained, BatchOwned
  <2>3. ControlInv'
    BY <1>10 DEF Drained, ControlInv
  <2> QED BY <2>1, <2>2, <2>3 DEF ControlInv
<1>11. ASSUME UNCHANGED vars PROVE SeqReaderInv'
  BY <1>11 DEF vars, BatchOwned
<1> QED BY <1>1, <1>2, <1>3, <1>4, <1>5, <1>6, <1>7, <1>8, <1>9, <1>10, <1>11
        DEF Next

\* Every batch the iterator yields is in exactly one hand or released exactly
\* once, and the goroutine, the cancel channel and the references agree, for
\* any number of batches and references (reader.go:34-115).
THEOREM SeqReaderInvariant == Spec => []SeqReaderInv
  BY SeqReaderInvInit, SeqReaderInvStep, PTL DEF Spec

\* When the last Release has returned, the goroutine has exited and every
\* batch it was given has been released once (reader.go:99-115).
THEOREM ReleaseLeavesNothing == Spec => []NothingOutlivesRelease
<1>1. SeqReaderInv => NothingOutlivesRelease
  BY SeqReaderAssumption
  DEF SeqReaderInv, TypeOK, BatchOwned, NothingOutlivesRelease, Batch, None
<1> QED BY <1>1, SeqReaderInvariant, PTL
-----------------------------------------------------------------------------
(* The skip rules *)

RowGroup(t) == Seq(Values(t) \cup {Null})

Part == [set : BOOLEAN, v : Int]
Footer == [min : Part, max : Part, nulls : Part]
Stats == [known : BOOLEAN, hasMinMax : BOOLEAN, min : Int, max : Int,
          hasNullCount : BOOLEAN, nullCount : Int]
Bloom == [set : BOOLEAN, maybe : SUBSET Int]
\* The forms of a leaf.
LEMMA LeafForms ==
  ASSUME NEW e \in Leaf
  PROVE  \/ \E op \in Ops, l \in Lit : e = Compare(op, l)
         \/ \E n \in BOOLEAN : e = IsNull(n)
         \/ \E n \in BOOLEAN, a \in Lit, z \in Lit : e = Between(n, a, z)
         \/ \E n \in BOOLEAN, ls \in SUBSET Lit : e = InList(n, ls)
<1>1. CASE e \in [kind : {"compare"}, op : Ops, lit : Lit]
  <2>1. e = Compare(e.op, e.lit) /\ e.op \in Ops /\ e.lit \in Lit
    BY <1>1 DEF Compare
  <2> QED BY <2>1
<1>2. CASE e \in [kind : {"isnull"}, negated : BOOLEAN]
  <2>1. e = IsNull(e.negated) /\ e.negated \in BOOLEAN
    BY <1>2 DEF IsNull
  <2> QED BY <2>1
<1>3. CASE e \in [kind : {"between"}, negated : BOOLEAN, low : Lit, high : Lit]
  <2>1. /\ e = Between(e.negated, e.low, e.high)
        /\ e.negated \in BOOLEAN /\ e.low \in Lit /\ e.high \in Lit
    BY <1>3 DEF Between
  <2> QED BY <2>1
<1>4. CASE e \in [kind : {"in"}, negated : BOOLEAN, list : SUBSET Lit]
  <2>1. e = InList(e.negated, e.list) /\ e.negated \in BOOLEAN /\ e.list \in SUBSET Lit
    BY <1>4 DEF InList
  <2> QED BY <2>1
<1> QED BY <1>1, <1>2, <1>3, <1>4 DEF Leaf

\* The statistics view is true of the rows.
StatsTrue(cs, rows) ==
  /\ cs.hasMinMax => \A v \in NonNull(rows) : cs.min <= v /\ v <= cs.max
  /\ cs.hasNullCount => cs.nullCount = NullCount(rows)

\* A null count that equals the row count leaves no other value, and one of
\* zero leaves no null (provablyAllNull and canSkipIsNull, skip.go:198-200,
\* 254-265).
LEMMA NullCounts ==
  ASSUME NEW t \in Types, NEW rows \in RowGroup(t)
  PROVE  /\ NullCount(rows) = Len(rows) => \A i \in DOMAIN rows : rows[i] = Null
         /\ NullCount(rows) = 0 => \A i \in DOMAIN rows : rows[i] # Null
<1>1. Len(rows) \in Nat /\ DOMAIN rows = 1..Len(rows)
  BY DEF RowGroup
<1>2. IsFiniteSet(DOMAIN rows) /\ Cardinality(DOMAIN rows) = Len(rows)
  <2>1. \A n \in Nat : IsFiniteSet(1..n)
                        /\ Cardinality(1..n) = IF 1 > n THEN 0 ELSE n - 1 + 1
    BY FS_Interval
  <2>2. \A n \in Nat : (IF 1 > n THEN 0 ELSE n - 1 + 1) = n
    OBVIOUS
  <2> QED BY <1>1, <2>1, <2>2
<1>3. Nulls(rows) \in SUBSET (DOMAIN rows)
  BY DEF Nulls
<1>4. IsFiniteSet(Nulls(rows))
  BY <1>2, <1>3, FS_Subset
<1>5. ASSUME NullCount(rows) = Len(rows) PROVE \A i \in DOMAIN rows : rows[i] = Null
  <2>1. Nulls(rows) = DOMAIN rows
    BY <1>2, <1>3, <1>5, FS_Subset DEF NullCount
  <2> QED BY <2>1 DEF Nulls
<1>6. ASSUME NullCount(rows) = 0 PROVE \A i \in DOMAIN rows : rows[i] # Null
  <2>1. Nulls(rows) = {}
    BY <1>4, <1>6, FS_EmptySet DEF NullCount
  <2> QED BY <2>1 DEF Nulls
<1> QED BY <1>5, <1>6

\* colStatsFromTyped turns an honest two-sided footer into a true view
\* (stats.go:61-74): an omitted null count proves nothing, and a range in
\* disorder or with NaN is dropped.
LEMMA StatsViewTrue ==
  ASSUME NEW t \in Types, NEW rows \in RowGroup(t), NEW w \in Footer,
         Honest(t, w, rows), TwoSided(w)
  PROVE  /\ colStatsFromTyped(t, w) \in Stats
         /\ StatsTrue(colStatsFromTyped(t, w), rows)
<1> DEFINE lo == Logical(t, w.min.v)
           hi == Logical(t, w.max.v)
           cs == colStatsFromTyped(t, w)
<1>1. w.min \in Part /\ w.max \in Part /\ w.nulls \in Part
  BY DEF Footer
<1>2. lo \in Int /\ hi \in Int /\ w.nulls.v \in Int
  BY <1>1, SkipAssumption DEF Part, Logical
<1>3. cs \in Stats
  BY <1>1, <1>2 DEF colStatsFromTyped, Decoded, NoStats, Stats, Part
<1>4. ASSUME cs.hasMinMax, NEW v \in NonNull(rows) PROVE cs.min <= v /\ v <= cs.max
  <2>1. /\ w.min.set \/ w.max.set
        /\ ~isNaN(lo) /\ ~isNaN(hi)
        /\ cs.min = lo /\ cs.max = hi
    BY <1>1, <1>4 DEF colStatsFromTyped, Decoded, NoStats, Part
  <2>2. w.min.set /\ w.max.set
    BY <2>1, <1>1 DEF TwoSided, Part
  <2>3. ~isNaN(w.min.v) /\ ~isNaN(w.max.v)
    BY <2>1, <1>1, SkipAssumption DEF isNaN, NaN, Logical, Part
  <2> QED BY <1>4, <2>1, <2>2, <2>3 DEF Honest
<1>5. ASSUME cs.hasNullCount PROVE cs.nullCount = NullCount(rows)
  <2>1. cs.nullCount = w.nulls.v /\ w.nulls.v > 0
    BY <1>1, <1>5 DEF colStatsFromTyped, Decoded, NoStats, Part
  <2>2. w.nulls.set
    BY <2>1, <1>1 DEF Honest, Part
  <2> QED BY <2>1, <2>2 DEF Honest
<1> QED BY <1>3, <1>4, <1>5 DEF StatsTrue

\* cmpVal orders numbers as they are ordered (skip.go:50-91).
LEMMA CmpOrder ==
  ASSUME NEW x \in Int, NEW y \in Int, ~isNaN(x), ~isNaN(y)
  PROVE  /\ cmpVal(x, y) < 0 <=> x < y
         /\ cmpVal(x, y) <= 0 <=> x <= y
         /\ cmpVal(x, y) = 0 <=> x = y
         /\ cmpVal(x, y) > 0 <=> x > y
         /\ cmpVal(x, y) >= 0 <=> x >= y
BY DEF cmpVal

\* canSkipCompare (skip.go:208-252).
LEMMA CompareSound ==
  ASSUME NEW t \in Types, NEW rows \in RowGroup(t), NEW cs \in Stats, NEW b \in Bloom,
         StatsTrue(cs, rows), BloomTrue(t, b, rows),
         NEW op \in Ops, NEW l \in Lit,
         canSkipCompare(Compare(op, l), t, cs, Len(rows), b),
         NEW i \in DOMAIN rows, rows[i] # Null
  PROVE  ~Holds(op, rows[i], l.v)
<1> DEFINE v == rows[i]
<1>1. v \in NonNull(rows) /\ v \in Values(t) /\ v \in Int
  BY DEF NonNull, RowGroup, Values
<1>2. l.v \in Int /\ l.typed \in BOOLEAN /\ cs.min \in Int /\ cs.max \in Int
  BY DEF Lit, Stats
<1>3. ~provablyAllNull(cs, Len(rows))
  BY NullCounts DEF provablyAllNull, StatsTrue
<1>4. CASE /\ usableRange(cs) /\ comparable(l)
           /\ rangeExcludes(op, l, cs)
  <2>1. cs.min <= v /\ v <= cs.max
    BY <1>1, <1>4 DEF usableRange, StatsTrue
  <2>2. ~isNaN(l.v) /\ ~isNaN(cs.min) /\ ~isNaN(cs.max)
    BY <1>4 DEF usableRange, comparable
  <2>3. CASE op = "eq"
    <3>1. l.v < cs.min \/ l.v > cs.max
      BY <1>2, <1>4, <2>2, <2>3, CmpOrder DEF rangeExcludes, outside
    <3> QED BY <1>1, <1>2, <2>1, <2>3, <3>1 DEF Holds
  <2>4. CASE op = "lt"
    BY <1>1, <1>2, <1>4, <2>1, <2>2, <2>4, CmpOrder DEF Holds, rangeExcludes
  <2>5. CASE op = "lteq"
    BY <1>1, <1>2, <1>4, <2>1, <2>2, <2>5, CmpOrder DEF Holds, rangeExcludes
  <2>6. CASE op = "gt"
    BY <1>1, <1>2, <1>4, <2>1, <2>2, <2>6, CmpOrder DEF Holds, rangeExcludes
  <2>7. CASE op = "gteq"
    BY <1>1, <1>2, <1>4, <2>1, <2>2, <2>7, CmpOrder DEF Holds, rangeExcludes
  <2>8. CASE op = "neq"
    BY <1>1, <1>2, <1>4, <2>1, <2>2, <2>8, CmpOrder DEF Holds, rangeExcludes
  <2> QED BY <2>3, <2>4, <2>5, <2>6, <2>7, <2>8 DEF Ops
<1>5. CASE op = "eq" /\ absent(t, b, l)
  <2>1. Physical(t, v) \in b.maybe
    BY <1>1, <1>5 DEF absent, BloomTrue
  <2>2. v # l.v
    BY <2>1, <1>5 DEF absent
  <2> QED BY <1>5, <2>2 DEF Holds
<1> QED BY <1>3, <1>4, <1>5 DEF canSkipCompare, Compare

\* canSkipBetween (skip.go:267-293).
LEMMA BetweenSound ==
  ASSUME NEW t \in Types, NEW rows \in RowGroup(t), NEW cs \in Stats,
         StatsTrue(cs, rows),
         NEW n \in BOOLEAN, NEW a \in Lit, NEW z \in Lit,
         canSkipBetween(Between(n, a, z), cs, Len(rows)),
         NEW i \in DOMAIN rows, rows[i] # Null
  PROVE  (a.v <= rows[i] /\ rows[i] <= z.v) <=> n
<1> DEFINE v == rows[i]
<1>1. v \in NonNull(rows) /\ v \in Int
  BY DEF NonNull, RowGroup, Values
<1>2. a.v \in Int /\ z.v \in Int /\ cs.min \in Int /\ cs.max \in Int
  BY DEF Lit, Stats
<1>3. ~provablyAllNull(cs, Len(rows))
  BY NullCounts DEF provablyAllNull, StatsTrue
<1>4. ~isNaN(a.v) /\ ~isNaN(z.v)
  BY <1>3 DEF canSkipBetween, Between, comparable
<1>5. CASE ~n /\ cmpVal(a.v, z.v) > 0
  BY <1>1, <1>2, <1>4, <1>5, CmpOrder
<1>6. CASE usableRange(cs)
  <2>1. cs.min <= v /\ v <= cs.max
    BY <1>1, <1>6 DEF usableRange, StatsTrue
  <2>2. ~isNaN(cs.min) /\ ~isNaN(cs.max)
    BY <1>6 DEF usableRange
  <2>3. CASE n
    <3>1. CASE cmpVal(cs.min, a.v) >= 0 /\ cmpVal(cs.max, z.v) <= 0
      BY <1>1, <1>2, <1>4, <2>1, <2>2, <2>3, <3>1, CmpOrder
    <3> QED BY <1>3, <2>3, <3>1 DEF canSkipBetween, Between
  <2>4. CASE ~n
    <3>1. CASE cmpVal(z.v, cs.min) < 0 \/ cmpVal(a.v, cs.max) > 0
      BY <1>1, <1>2, <1>4, <2>1, <2>2, <2>4, <3>1, CmpOrder
    <3> QED BY <1>3, <1>5, <2>4, <3>1 DEF canSkipBetween, Between
  <2> QED BY <2>3, <2>4
<1> QED BY <1>3, <1>5, <1>6 DEF canSkipBetween, Between

\* canSkipInList and inElementAbsent (skip.go:295-337).
LEMMA InListSound ==
  ASSUME NEW t \in Types, NEW rows \in RowGroup(t), NEW cs \in Stats, NEW b \in Bloom,
         StatsTrue(cs, rows), BloomTrue(t, b, rows),
         NEW n \in BOOLEAN, NEW ls \in SUBSET Lit,
         canSkipInList(InList(n, ls), t, cs, Len(rows), b),
         NEW i \in DOMAIN rows, rows[i] # Null
  PROVE  (\E l \in ls : rows[i] = l.v) <=> n
<1> DEFINE v == rows[i]
<1>1. v \in NonNull(rows) /\ v \in Values(t) /\ v \in Int
  BY DEF NonNull, RowGroup, Values
<1>2. cs.min \in Int /\ cs.max \in Int /\ \A l \in ls : l.v \in Int
  BY DEF Lit, Stats
<1>3. ~provablyAllNull(cs, Len(rows))
  BY NullCounts DEF provablyAllNull, StatsTrue
<1>4. CASE n
  <2>1. PICK l \in ls : comparable(l) /\ cmpVal(l.v, cs.min) = 0
    BY <1>3, <1>4 DEF canSkipInList, InList
  <2>2. usableRange(cs) /\ cmpVal(cs.min, cs.max) = 0
    BY <1>3, <1>4 DEF canSkipInList, InList
  <2>3. cs.min <= v /\ v <= cs.max
    BY <1>1, <2>2 DEF usableRange, StatsTrue
  <2>4. v = l.v
    BY <1>1, <1>2, <2>1, <2>2, <2>3, CmpOrder DEF usableRange, comparable
  <2> QED BY <1>4, <2>4
<1>5. CASE ~n
  <2>1. ASSUME NEW l \in ls PROVE v # l.v
    <3>1. inElementAbsent(t, l, cs, b)
      BY <1>3, <1>5 DEF canSkipInList, InList
    <3>2. CASE usableRange(cs) /\ comparable(l) /\ outside(l, cs)
      <4>1. cs.min <= v /\ v <= cs.max
        BY <1>1, <3>2 DEF usableRange, StatsTrue
      <4> QED BY <1>1, <1>2, <3>2, <4>1, CmpOrder DEF outside, usableRange, comparable
    <3>3. CASE absent(t, b, l)
      BY <1>1, <3>3 DEF absent, BloomTrue
    <3> QED BY <3>1, <3>2, <3>3 DEF inElementAbsent
  <2> QED BY <1>5, <2>1
<1> QED BY <1>4, <1>5

\* A row group that a leaf's rule skips holds no row on which the leaf is
\* true, when the statistics are true of the rows and the bloom filter has no
\* false negatives (skip.go:208-337).
LEMMA LeafSound ==
  ASSUME NEW t \in Types, NEW rows \in RowGroup(t), NEW cs \in Stats, NEW b \in Bloom,
         StatsTrue(cs, rows), BloomTrue(t, b, rows),
         NEW e \in Leaf,
         canSkipLeaf(e, t, cs, Len(rows), b)
  PROVE  \A i \in DOMAIN rows : ~LeafTrue(e, rows[i])
<1> SUFFICES ASSUME NEW i \in DOMAIN rows PROVE ~LeafTrue(e, rows[i])
  OBVIOUS
<1>1. ASSUME NEW op \in Ops, NEW l \in Lit, e = Compare(op, l)
      PROVE  ~LeafTrue(e, rows[i])
  <2>1. canSkipCompare(Compare(op, l), t, cs, Len(rows), b)
    BY <1>1 DEF canSkipLeaf, Compare
  <2>2. LeafTrue(e, rows[i]) => rows[i] # Null /\ Holds(op, rows[i], l.v)
    BY <1>1 DEF LeafTrue, Compare
  <2> QED BY <2>1, <2>2, CompareSound
<1>2. ASSUME NEW n \in BOOLEAN, e = IsNull(n)
      PROVE  ~LeafTrue(e, rows[i])
  <2>1. canSkipIsNull(IsNull(n), cs, Len(rows))
    BY <1>2 DEF canSkipLeaf, IsNull
  <2>2. NullCount(rows) = IF n THEN Len(rows) ELSE 0
    BY <2>1 DEF canSkipIsNull, IsNull, StatsTrue
  <2>3. rows[i] = Null <=> n
    BY <2>2, NullCounts
  <2> QED BY <1>2, <2>3 DEF LeafTrue, IsNull
<1>3. ASSUME NEW n \in BOOLEAN, NEW a \in Lit, NEW z \in Lit, e = Between(n, a, z)
      PROVE  ~LeafTrue(e, rows[i])
  <2>1. canSkipBetween(Between(n, a, z), cs, Len(rows))
    BY <1>3 DEF canSkipLeaf, Between
  <2>2. rows[i] # Null => ((a.v <= rows[i] /\ rows[i] <= z.v) <=> n)
    BY <2>1, BetweenSound
  <2> QED BY <1>3, <2>2 DEF LeafTrue, Between
<1>4. ASSUME NEW n \in BOOLEAN, NEW ls \in SUBSET Lit, e = InList(n, ls)
      PROVE  ~LeafTrue(e, rows[i])
  <2>1. canSkipInList(InList(n, ls), t, cs, Len(rows), b)
    BY <1>4 DEF canSkipLeaf, InList
  <2>2. rows[i] # Null => ((\E l \in ls : rows[i] = l.v) <=> n)
    BY <2>1, InListSound
  <2> QED BY <1>4, <2>2 DEF LeafTrue, InList
<1> QED BY <1>1, <1>2, <1>3, <1>4, LeafForms
-----------------------------------------------------------------------------
(* Recursion that goes down in rank *)

Smaller == {p \in Nat \X Nat : p[1] < p[2]}

\* A set of natural numbers has a least element.
LEMMA LeastNat ==
  ASSUME NEW N \in SUBSET Nat, N # {}
  PROVE  \E m \in N : \A k \in N : m <= k
<1>1. IsWellFoundedOn(Smaller, Nat)
  BY NatLessThanWellFounded DEF OpToRel, Smaller
<1>2. \A x \in Nat, y \in Nat : y < x => <<y, x>> \in Smaller
  BY DEF Smaller
<1>3. PICK x \in N : \A y \in N : ~(<<y, x>> \in Smaller)
  BY <1>1, WFMin
<1>4. x \in Nat /\ \A y \in N : y \in Nat /\ ~(y < x)
  BY <1>2, <1>3
<1> QED BY <1>4

\* Among the members of D, which have ranks, some P is one of least rank.
LEMMA LeastRank ==
  ASSUME NEW D, NEW rank \in [D -> Nat], NEW P \in SUBSET D, P # {}
  PROVE  \E x \in P : \A y \in P : rank[x] <= rank[y]
<1> DEFINE N == {rank[x] : x \in P}
<1>1. N \in SUBSET Nat /\ N # {}
  OBVIOUS
<1>2. PICK m \in N : \A k \in N : m <= k
  BY <1>1, LeastNat
<1> QED BY <1>2

\* A step on functions over D whose value at a point depends on points of
\* lower rank only.
Local(D, V, rank, F) ==
  \A g \in [D -> V], h \in [D -> V], x \in D :
    (\A y \in D : rank[y] < rank[x] => g[y] = h[y]) => F[g][x] = F[h][x]

\* g is a fixed point of F as far as rank n.
FixedTo(D, rank, F, g, n) == \A x \in D : rank[x] < n => g[x] = F[g][x]

\* Fixed points agree as far as they go.
Agree(D, V, rank, F) ==
  \A g \in [D -> V], h \in [D -> V], m \in Nat, n \in Nat :
    FixedTo(D, rank, F, g, m) /\ FixedTo(D, rank, F, h, n)
      => \A x \in D : rank[x] < m /\ rank[x] < n => g[x] = h[x]

LEMMA FixedAgree ==
  ASSUME NEW D, NEW V, NEW rank \in [D -> Nat], NEW F \in [[D -> V] -> [D -> V]],
         Local(D, V, rank, F)
  PROVE  Agree(D, V, rank, F)
<1> SUFFICES ASSUME NEW g \in [D -> V], NEW h \in [D -> V], NEW m \in Nat, NEW n \in Nat,
                    FixedTo(D, rank, F, g, m), FixedTo(D, rank, F, h, n)
             PROVE  \A x \in D : rank[x] < m /\ rank[x] < n => g[x] = h[x]
  BY DEF Agree
<1> DEFINE P == {x \in D : rank[x] < m /\ rank[x] < n /\ g[x] # h[x]}
<1> SUFFICES ASSUME P # {} PROVE FALSE
  OBVIOUS
<1>1. PICK x \in P : \A y \in P : rank[x] <= rank[y]
  BY LeastRank
<1>2. \A y \in D : rank[y] < rank[x] => g[y] = h[y]
  <2> SUFFICES ASSUME NEW y \in D, rank[y] < rank[x], g[y] # h[y] PROVE FALSE
    OBVIOUS
  <2>1. rank[y] \in Nat /\ rank[x] \in Nat
    OBVIOUS
  <2>2. y \in P
    BY <1>1, <2>1
  <2> QED BY <1>1, <2>1, <2>2
<1>3. F[g][x] = F[h][x]
  BY <1>1, <1>2 DEF Local
<1>4. g[x] = F[g][x] /\ h[x] = F[h][x]
  BY <1>1 DEF FixedTo
<1> QED BY <1>1, <1>3, <1>4

LEMMA FixedFar ==
  ASSUME NEW D, NEW V, NEW v0 \in V, NEW rank \in [D -> Nat],
         NEW F \in [[D -> V] -> [D -> V]], Local(D, V, rank, F)
  PROVE  \A n \in Nat : \E g \in [D -> V] : FixedTo(D, rank, F, g, n)
<1> DEFINE P == {n \in Nat : ~ \E g \in [D -> V] : FixedTo(D, rank, F, g, n)}
<1> SUFFICES ASSUME P # {} PROVE FALSE
  OBVIOUS
<1>1. PICK n \in P : \A k \in P : n <= k
  BY LeastNat
<1>2. n # 0
  <2>1. [x \in D |-> v0] \in [D -> V]
    OBVIOUS
  <2>2. FixedTo(D, rank, F, [x \in D |-> v0], 0)
    BY DEF FixedTo
  <2> QED BY <1>1, <2>1, <2>2
<1>3. PICK g \in [D -> V] : FixedTo(D, rank, F, g, n - 1)
  <2>1. n - 1 \in Nat /\ n - 1 \notin P
    BY <1>1, <1>2
  <2> QED BY <2>1
<1> DEFINE h == F[g]
<1>4. h \in [D -> V]
  OBVIOUS
<1> HIDE DEF h
<1>5. ASSUME NEW x \in D, rank[x] < n PROVE h[x] = F[h][x]
  <2>1. \A y \in D : rank[y] < rank[x] => g[y] = h[y]
    <3> SUFFICES ASSUME NEW y \in D, rank[y] < rank[x] PROVE g[y] = h[y]
      OBVIOUS
    <3>1. rank[y] < n - 1
      <4>1. rank[x] \in Nat /\ rank[y] \in Nat /\ n \in Nat
        BY <1>1
      <4> QED BY <4>1, <1>5
    <3> QED BY <1>3, <3>1 DEF FixedTo, h
  <2>2. F[g][x] = F[h][x]
    BY <1>4, <2>1 DEF Local
  <2> QED BY <2>2 DEF h
<1>6. FixedTo(D, rank, F, h, n)
  BY <1>5 DEF FixedTo
<1> QED BY <1>1, <1>4, <1>6

\* F has a fixed point.
Solvable(D, V, F) == \E f \in [D -> V] : f = F[f]

\* A recursion that goes down in rank defines a function.
LEMMA FixedPoint ==
  ASSUME NEW D, NEW V, NEW v0 \in V, NEW rank \in [D -> Nat],
         NEW F \in [[D -> V] -> [D -> V]], Local(D, V, rank, F)
  PROVE  Solvable(D, V, F)
<1> DEFINE G(n) == CHOOSE g \in [D -> V] : FixedTo(D, rank, F, g, n)
           f == [x \in D |-> G(rank[x] + 1)[x]]
<1>0. Agree(D, V, rank, F)
  BY FixedAgree
<1>1. \A n \in Nat : G(n) \in [D -> V] /\ FixedTo(D, rank, F, G(n), n)
  BY FixedFar
<1> HIDE DEF G
<1>2. f \in [D -> V]
  BY <1>1
<1>3. ASSUME NEW x \in D PROVE f[x] = F[f][x]
  <2> DEFINE g == G(rank[x] + 1)
  <2>1. rank[x] \in Nat /\ rank[x] + 1 \in Nat
    OBVIOUS
  <2>2. g \in [D -> V] /\ FixedTo(D, rank, F, g, rank[x] + 1) /\ f[x] = g[x]
    BY <1>1, <2>1
  <2>3. \A y \in D : rank[y] < rank[x] => g[y] = f[y]
    <3> SUFFICES ASSUME NEW y \in D, rank[y] < rank[x] PROVE g[y] = f[y]
      OBVIOUS
    <3>1. rank[y] \in Nat /\ rank[y] + 1 \in Nat /\ rank[y] < rank[x] + 1
          /\ rank[y] < rank[y] + 1
      BY <2>1
    <3> DEFINE h == G(rank[y] + 1)
    <3>2. h \in [D -> V] /\ FixedTo(D, rank, F, h, rank[y] + 1) /\ f[y] = h[y]
      BY <1>1, <3>1
    <3> HIDE DEF g, h, f
    <3>3. g[y] = h[y]
      <4> DEFINE m == rank[x] + 1
                 k == rank[y] + 1
      <4>1. m \in Nat /\ k \in Nat /\ rank[y] < m /\ rank[y] < k
        BY <2>1, <3>1
      <4>2. FixedTo(D, rank, F, g, m) /\ FixedTo(D, rank, F, h, k)
        BY <2>2, <3>2
      <4>3. g \in [D -> V] /\ h \in [D -> V]
        BY <2>2, <3>2
      <4> HIDE DEF m, k
      <4> HIDE DEF g, h, f
      <4>4. \A z \in D : rank[z] < m /\ rank[z] < k => g[z] = h[z]
        BY <1>0, <4>1, <4>2, <4>3 DEF Agree
      <4> QED BY <4>1, <4>4
    <3> QED BY <3>2, <3>3
  <2> HIDE DEF g, f
  <2>4. F[g][x] = F[f][x]
    BY <1>2, <2>2, <2>3 DEF Local
  <2>5. g[x] = F[g][x]
    BY <2>1, <2>2 DEF FixedTo
  <2> QED BY <2>2, <2>4, <2>5
<1> HIDE DEF f
<1>4. F[f] \in [D -> V]
  BY <1>2
<1>5. f = F[f]
  BY <1>2, <1>3, <1>4
<1> QED BY <1>2, <1>5 DEF Solvable
-----------------------------------------------------------------------------
(* Filters of any nesting *)

\* What a predicate may evaluate to.
Truth3 == {"true", "false", "null"}

\* SQL's connectives: double negation and De Morgan's laws.
LEMMA Connectives ==
  ASSUME NEW a \in Truth3, NEW b \in Truth3
  PROVE  /\ Both(a, b) \in Truth3 /\ Either(a, b) \in Truth3 /\ Negation(a) \in Truth3
         /\ Negation(Negation(a)) = a
         /\ Negation(Both(a, b)) = Either(Negation(a), Negation(b))
         /\ Negation(Either(a, b)) = Both(Negation(a), Negation(b))
         /\ Both(a, b) = "true" <=> a = "true" /\ b = "true"
         /\ Either(a, b) = "true" <=> a = "true" \/ b = "true"
<1> USE DEF Truth3, Both, Either, Negation
<1>1. CASE a = "true"
  BY <1>1
<1>2. CASE a = "false"
  BY <1>2
<1>3. CASE a = "null"
  BY <1>3
<1> QED BY <1>1, <1>2, <1>3

\* The scan's instance of the rules and of the engine's evaluation is what is
\* reasoned about here.
LEMMA SameOperators ==
  /\ Parquet!Leaf = Leaf /\ Parquet!Filter = Filter
  /\ \A D, v : Parquet!TruthOn(D, v) = TruthOn(D, v)
  /\ \A e, v : Parquet!LeafTruth(e, v) = LeafTruth(e, v)
  /\ \A e, t, cs, n, b : Parquet!canSkipLeaf(e, t, cs, n, b) = canSkipLeaf(e, t, cs, n, b)
  /\ \A t, w : Parquet!colStatsFromTyped(t, w) = colStatsFromTyped(t, w)
<1>1. Parquet!Leaf = Leaf /\ Parquet!Filter = Filter
  BY DEF Parquet!Leaf, Leaf, Parquet!Filter, Filter, Parquet!Nested, Nested, Parquet!Nest,
         Nest, Parquet!Lit, Lit, Parquet!Ops, Ops
<1>2. \A e, v : Parquet!LeafTruth(e, v) = LeafTruth(e, v)
  BY DEF Parquet!LeafTruth, LeafTruth, Parquet!LeafTrue, LeafTrue, Parquet!Holds, Holds
<1>3. \A D, v : Parquet!TruthOn(D, v) = TruthOn(D, v)
  BY DEF Parquet!LeafTruth, LeafTruth, Parquet!LeafTrue, LeafTrue, Parquet!Holds, Holds,
         Parquet!TruthOn, TruthOn, Parquet!Both, Both, Parquet!Either, Either,
         Parquet!Negation, Negation
<1>4. \A e, t, cs, n, b : Parquet!canSkipLeaf(e, t, cs, n, b) = canSkipLeaf(e, t, cs, n, b)
  BY DEF Parquet!canSkipLeaf, canSkipLeaf, Parquet!canSkipCompare, canSkipCompare,
     Parquet!canSkipIsNull, canSkipIsNull, Parquet!canSkipBetween, canSkipBetween,
     Parquet!canSkipInList, canSkipInList, Parquet!provablyAllNull, provablyAllNull,
     Parquet!usableRange, usableRange, Parquet!comparable, comparable, Parquet!outside,
     outside, Parquet!rangeExcludes, rangeExcludes, Parquet!absent, absent,
     Parquet!inElementAbsent, inElementAbsent, Parquet!cmpVal, cmpVal, Parquet!isNaN, isNaN,
     Parquet!NaN, NaN, Parquet!Physical, Physical, Parquet!Values, Values
<1>5. \A t, w : Parquet!colStatsFromTyped(t, w) = colStatsFromTyped(t, w)
  BY DEF Parquet!colStatsFromTyped, colStatsFromTyped, Parquet!Decoded, Decoded,
         Parquet!Logical, Logical, Parquet!NoStats, NoStats, Parquet!cmpVal, cmpVal,
         Parquet!isNaN, isNaN, Parquet!NaN, NaN
<1> QED BY <1>1, <1>2, <1>3, <1>4, <1>5

\* Every predicate of D is a leaf, or a connective around members of D of
\* lower rank, and what negate makes of the operand of a NOT is there too.
Ranked(D, rank) ==
  /\ rank \in [D -> Nat]
  /\ \A e \in D :
       \/ e \in Leaf
       \/ /\ e.kind \in {"and", "or"} /\ e.left \in D /\ e.right \in D
          /\ rank[e.left] < rank[e] /\ rank[e.right] < rank[e]
       \/ /\ e.kind = "not" /\ e.expr \in D /\ Parquet!negate(e.expr) \in D
          /\ rank[e.expr] < rank[e] /\ rank[Parquet!negate(e.expr)] < rank[e]

\* One unfolding of TruthOn, and of canSkipOn.
TruthStep(T, e, v) ==
  CASE e.kind = "and" -> Both(T[e.left], T[e.right])
    [] e.kind = "or" -> Either(T[e.left], T[e.right])
    [] e.kind = "not" -> Negation(T[e.expr])
    [] OTHER -> LeafTruth(e, v)

SkipStep(S, e, t, cs, n, b) ==
  CASE e.kind = "and" -> S[e.left] \/ S[e.right]
    [] e.kind = "or" -> S[e.left] /\ S[e.right]
    [] e.kind = "not" -> S[Parquet!negate(e.expr)]
    [] OTHER -> canSkipLeaf(e, t, cs, n, b)

\* No leaf is a connective.
LEMMA LeafKinds ==
  ASSUME NEW e \in Leaf
  PROVE  e.kind \notin {"and", "or", "not"}
  BY DEF Leaf

\* TruthOn satisfies its recursion, and is true, false or null.
LEMMA TruthEquation ==
  ASSUME NEW D, NEW rank, Ranked(D, rank), NEW v
  PROVE  /\ TruthOn(D, v) \in [D -> Truth3]
         /\ \A e \in D : TruthOn(D, v)[e] = TruthStep(TruthOn(D, v), e, v)
<1> DEFINE V == Truth3
           F == [g \in [D -> V] |-> [e \in D |-> TruthStep(g, e, v)]]
<1>1. "null" \in V
  BY DEF Truth3
<1>2. ASSUME NEW g \in [D -> V], NEW e \in D PROVE TruthStep(g, e, v) \in V
  <2>1. CASE e \in Leaf
    <3>1. TruthStep(g, e, v) = LeafTruth(e, v)
      BY <2>1, LeafKinds DEF TruthStep
    <3> QED BY <3>1 DEF LeafTruth, Truth3
  <2>2. CASE /\ e.kind \in {"and", "or"} /\ e.left \in D /\ e.right \in D
    <3>1. g[e.left] \in Truth3 /\ g[e.right] \in Truth3
      BY <2>2
    <3> QED BY <2>2, <3>1, Connectives DEF TruthStep
  <2>3. CASE e.kind = "not" /\ e.expr \in D
    <3>1. g[e.expr] \in Truth3
      BY <2>3
    <3> QED BY <2>3, <3>1, Connectives DEF TruthStep
  <2> QED BY <2>1, <2>2, <2>3 DEF Ranked
<1>3. F \in [[D -> V] -> [D -> V]]
  BY <1>2
<1>4. Local(D, V, rank, F)
  <2> SUFFICES ASSUME NEW g \in [D -> V], NEW h \in [D -> V], NEW e \in D,
                      \A y \in D : rank[y] < rank[e] => g[y] = h[y]
               PROVE  TruthStep(g, e, v) = TruthStep(h, e, v)
    BY DEF Local
  <2>1. CASE e \in Leaf
    BY <2>1, LeafKinds DEF TruthStep
  <2>2. CASE /\ e.kind \in {"and", "or"} /\ e.left \in D /\ e.right \in D
             /\ rank[e.left] < rank[e] /\ rank[e.right] < rank[e]
    BY <2>2 DEF TruthStep
  <2>3. CASE e.kind = "not" /\ e.expr \in D /\ rank[e.expr] < rank[e]
    BY <2>3 DEF TruthStep
  <2> QED BY <2>1, <2>2, <2>3 DEF Ranked
<1>5. PICK f \in [D -> V] : f = F[f]
  <2>1. rank \in [D -> Nat]
    BY DEF Ranked
  <2>2. Solvable(D, V, F)
    <3> HIDE DEF F, V
    <3> QED BY <1>1, <1>3, <1>4, <2>1, FixedPoint
  <2> QED BY <2>2 DEF Solvable
<1>6. f = [e \in D |-> TruthStep(f, e, v)]
  BY <1>5
<1> DEFINE G == TruthOn(D, v)
<1>7. G = [e \in D |-> TruthStep(G, e, v)]
  BY <1>6 DEF TruthOn, TruthStep
<1> HIDE DEF G
<1>8. \A e \in D : G[e] = TruthStep(G, e, v)
  BY <1>7
<1> DEFINE P == {e \in D : G[e] \notin Truth3}
<1>9. P = {}
  <2> SUFFICES ASSUME P # {} PROVE FALSE
    OBVIOUS
  <2>1. PICK e \in P : \A y \in P : rank[e] <= rank[y]
    BY LeastRank DEF Ranked
  <2>2. \A y \in D : rank[y] < rank[e] => G[y] \in Truth3
    <3> SUFFICES ASSUME NEW y \in D, rank[y] < rank[e], y \in P PROVE FALSE
      OBVIOUS
    <3>1. rank[y] \in Nat /\ rank[e] \in Nat
      BY DEF Ranked
    <3> QED BY <2>1, <3>1
  <2> DEFINE g == [y \in D |-> IF rank[y] < rank[e] THEN G[y] ELSE "null"]
  <2>3. g \in [D -> V]
    BY <1>1, <2>2
  <2>4. TruthStep(G, e, v) = TruthStep(g, e, v)
    <3> HIDE DEF P
    <3>1. CASE e \in Leaf
      BY <3>1, LeafKinds DEF TruthStep
    <3>2. CASE /\ e.kind \in {"and", "or"} /\ e.left \in D /\ e.right \in D
               /\ rank[e.left] < rank[e] /\ rank[e.right] < rank[e]
      BY <3>2 DEF TruthStep
    <3>3. CASE e.kind = "not" /\ e.expr \in D /\ rank[e.expr] < rank[e]
      BY <3>3 DEF TruthStep
    <3> QED BY <2>1, <3>1, <3>2, <3>3 DEF Ranked, P
  <2> HIDE DEF g
  <2> QED BY <1>2, <1>8, <2>1, <2>3, <2>4
<1> QED BY <1>7, <1>8, <1>9 DEF G

\* canSkipOn satisfies its recursion (skip.go:122-145).
LEMMA SkipEquation ==
  ASSUME NEW D, NEW rank, Ranked(D, rank), NEW t, NEW cs, NEW n, NEW b
  PROVE  \A e \in D : Parquet!canSkipOn(D, t, cs, n, b)[e]
                        = SkipStep(Parquet!canSkipOn(D, t, cs, n, b), e, t, cs, n, b)
<1> DEFINE F == [g \in [D -> BOOLEAN] |-> [e \in D |-> SkipStep(g, e, t, cs, n, b)]]
<1>2. ASSUME NEW g \in [D -> BOOLEAN], NEW e \in D
      PROVE  SkipStep(g, e, t, cs, n, b) \in BOOLEAN
  <2>1. CASE e \in Leaf
    <3>1. SkipStep(g, e, t, cs, n, b) = canSkipLeaf(e, t, cs, n, b)
      BY <2>1, LeafKinds DEF SkipStep
    <3>2. e.kind \in {"compare", "isnull", "between", "in"}
      BY <2>1 DEF Leaf
    <3>3. canSkipLeaf(e, t, cs, n, b) \in BOOLEAN
      BY <3>2 DEF canSkipLeaf, canSkipCompare, canSkipIsNull, canSkipBetween, canSkipInList
    <3> QED BY <3>1, <3>3
  <2>2. CASE /\ e.kind \in {"and", "or"} /\ e.left \in D /\ e.right \in D
    BY <2>2 DEF SkipStep
  <2>3. CASE e.kind = "not" /\ Parquet!negate(e.expr) \in D
    BY <2>3 DEF SkipStep
  <2> QED BY <2>1, <2>2, <2>3 DEF Ranked
<1>3. F \in [[D -> BOOLEAN] -> [D -> BOOLEAN]]
  BY <1>2
<1>4. Local(D, BOOLEAN, rank, F)
  <2> SUFFICES ASSUME NEW g \in [D -> BOOLEAN], NEW h \in [D -> BOOLEAN], NEW e \in D,
                      \A y \in D : rank[y] < rank[e] => g[y] = h[y]
               PROVE  SkipStep(g, e, t, cs, n, b) = SkipStep(h, e, t, cs, n, b)
    BY DEF Local
  <2>1. CASE e \in Leaf
    BY <2>1, LeafKinds DEF SkipStep
  <2>2. CASE /\ e.kind \in {"and", "or"} /\ e.left \in D /\ e.right \in D
             /\ rank[e.left] < rank[e] /\ rank[e.right] < rank[e]
    <3>1. g[e.left] = h[e.left] /\ g[e.right] = h[e.right]
      BY <2>2
    <3> QED BY <2>2, <3>1 DEF SkipStep
  <2>3. CASE e.kind = "not" /\ Parquet!negate(e.expr) \in D
             /\ rank[Parquet!negate(e.expr)] < rank[e]
    <3>1. g[Parquet!negate(e.expr)] = h[Parquet!negate(e.expr)]
      BY <2>3
    <3> QED BY <2>3, <3>1 DEF SkipStep
  <2> QED BY <2>1, <2>2, <2>3 DEF Ranked
<1>5. PICK f \in [D -> BOOLEAN] : f = F[f]
  <2>1. rank \in [D -> Nat] /\ TRUE \in BOOLEAN
    BY DEF Ranked
  <2>2. Solvable(D, BOOLEAN, F)
    <3> HIDE DEF F
    <3> QED BY <1>3, <1>4, <2>1, FixedPoint
  <2> QED BY <2>2 DEF Solvable
<1>6. f = [e \in D |-> SkipStep(f, e, t, cs, n, b)]
  BY <1>5
<1> DEFINE G == Parquet!canSkipOn(D, t, cs, n, b)
<1>7. G = [e \in D |-> SkipStep(G, e, t, cs, n, b)]
  BY <1>6, SameOperators DEF Parquet!canSkipOn, SkipStep
<1> HIDE DEF G
<1>8. \A e \in D : G[e] = SkipStep(G, e, t, cs, n, b)
  BY <1>7
<1> QED BY <1>8 DEF G

\* negateOp (skip.go:147-196).
LEMMA NegateHolds ==
  ASSUME NEW op \in Ops, NEW v \in Int, NEW w \in Int
  PROVE  Holds(Parquet!negateOp(op), v, w) <=> ~Holds(op, v, w)
<1> USE DEF Holds, Parquet!negateOp
<1>1. CASE op = "eq"
  BY <1>1
<1>2. CASE op = "neq"
  BY <1>2
<1>3. CASE op = "lt"
  BY <1>3
<1>4. CASE op = "lteq"
  BY <1>4
<1>5. CASE op = "gt"
  BY <1>5
<1>6. CASE op = "gteq"
  BY <1>6
<1> QED BY <1>1, <1>2, <1>3, <1>4, <1>5, <1>6 DEF Ops

\* The truth of a comparison and of IS NULL.
LEMMA LeafTruths ==
  /\ \A op, l, v : LeafTruth(Compare(op, l), v) =
       IF v = Null THEN "null" ELSE IF Holds(op, v, l.v) THEN "true" ELSE "false"
  /\ \A v : LeafTruth(IsNull(FALSE), v) = IF v = Null THEN "true" ELSE "false"
  /\ \A v : LeafTruth(IsNull(TRUE), v) = IF v = Null THEN "false" ELSE "true"
  BY DEF LeafTruth, LeafTrue, Compare, IsNull

\* negate of a leaf means NOT (skip.go:147-196).
LEMMA NegateLeaf ==
  ASSUME NEW e \in Leaf, NEW v \in Int \cup {Null}
  PROVE  LeafTruth(Parquet!negate(e), v) = Negation(LeafTruth(e, v))
<1>0. Negation("true") = "false" /\ Negation("false") = "true" /\ Negation("null") = "null"
  BY DEF Negation
<1>1. ASSUME NEW op \in Ops, NEW l \in Lit, e = Compare(op, l)
      PROVE  LeafTruth(Parquet!negate(e), v) = Negation(LeafTruth(e, v))
  <2>1. Parquet!negate(e) = Compare(Parquet!negateOp(op), l)
    BY <1>1 DEF Parquet!negate, Compare, Parquet!Compare
  <2>2. l.v \in Int
    BY DEF Lit
  <2>3. v \in Int => (Holds(Parquet!negateOp(op), v, l.v) <=> ~Holds(op, v, l.v))
    BY <2>2, NegateHolds
  <2> QED BY <1>0, <1>1, <2>1, <2>3, LeafTruths
<1>2. ASSUME NEW n \in BOOLEAN, e = IsNull(n)
      PROVE  LeafTruth(Parquet!negate(e), v) = Negation(LeafTruth(e, v))
  <2>1. CASE n = TRUE
    <3>1. e = IsNull(TRUE)
      BY <1>2, <2>1
    <3>2. Parquet!negate(e) = IsNull(FALSE)
      BY <3>1 DEF Parquet!negate, IsNull
    <3>3. LeafTruth(IsNull(FALSE), v) = Negation(LeafTruth(IsNull(TRUE), v))
      BY <1>0, LeafTruths
    <3> QED BY <3>1, <3>2, <3>3, Zenon
  <2>2. CASE n = FALSE
    <3>1. e = IsNull(FALSE)
      BY <1>2, <2>2
    <3>2. Parquet!negate(e) = IsNull(TRUE)
      BY <3>1 DEF Parquet!negate, IsNull
    <3>3. LeafTruth(IsNull(TRUE), v) = Negation(LeafTruth(IsNull(FALSE), v))
      BY <1>0, LeafTruths
    <3> QED BY <3>1, <3>2, <3>3, Zenon
  <2> QED BY <2>1, <2>2
<1>3. ASSUME NEW n \in BOOLEAN, NEW a \in Lit, NEW z \in Lit, e = Between(n, a, z)
      PROVE  LeafTruth(Parquet!negate(e), v) = Negation(LeafTruth(e, v))
  <2>1. CASE n = TRUE
    <3>1. e = Between(TRUE, a, z)
      BY <1>3, <2>1
    <3>2. Parquet!negate(e) = Between(FALSE, a, z)
      BY <3>1 DEF Parquet!negate, Between
    <3>3. LeafTruth(Between(FALSE, a, z), v) = Negation(LeafTruth(Between(TRUE, a, z), v))
      BY <1>0 DEF LeafTruth, LeafTrue, Between
    <3> QED BY <3>1, <3>2, <3>3, Zenon
  <2>2. CASE n = FALSE
    <3>1. e = Between(FALSE, a, z)
      BY <1>3, <2>2
    <3>2. Parquet!negate(e) = Between(TRUE, a, z)
      BY <3>1 DEF Parquet!negate, Between
    <3>3. LeafTruth(Between(TRUE, a, z), v) = Negation(LeafTruth(Between(FALSE, a, z), v))
      BY <1>0 DEF LeafTruth, LeafTrue, Between
    <3> QED BY <3>1, <3>2, <3>3, Zenon
  <2> QED BY <2>1, <2>2
<1>4. ASSUME NEW n \in BOOLEAN, NEW ls \in SUBSET Lit, e = InList(n, ls)
      PROVE  LeafTruth(Parquet!negate(e), v) = Negation(LeafTruth(e, v))
  <2>1. CASE n = TRUE
    <3>1. e = InList(TRUE, ls)
      BY <1>4, <2>1
    <3>2. Parquet!negate(e) = InList(FALSE, ls)
      BY <3>1 DEF Parquet!negate, InList
    <3>3. LeafTruth(InList(FALSE, ls), v) = Negation(LeafTruth(InList(TRUE, ls), v))
      BY <1>0 DEF LeafTruth, LeafTrue, InList
    <3> QED BY <3>1, <3>2, <3>3, Zenon
  <2>2. CASE n = FALSE
    <3>1. e = InList(FALSE, ls)
      BY <1>4, <2>2
    <3>2. Parquet!negate(e) = InList(TRUE, ls)
      BY <3>1 DEF Parquet!negate, InList
    <3>3. LeafTruth(InList(TRUE, ls), v) = Negation(LeafTruth(InList(FALSE, ls), v))
      BY <1>0 DEF LeafTruth, LeafTrue, InList
    <3> QED BY <3>1, <3>2, <3>3, Zenon
  <2> QED BY <2>1, <2>2
<1> QED BY <1>1, <1>2, <1>3, <1>4, LeafForms

\* The negation of a leaf is of the same kind.
LEMMA NegateKinds ==
  ASSUME NEW e \in Leaf
  PROVE  Parquet!negate(e).kind = e.kind
  BY DEF Leaf, Parquet!negate, Parquet!Compare

\* On the predicates of D, negate means NOT.
NegateIsNot(D, v) ==
  \A x \in D : x.kind = "not" =>
    TruthOn(D, v)[Parquet!negate(x.expr)] = TruthOn(D, v)[x]

\* It does, connectives and nulls included (skip.go:147-196).
LEMMA NegateTruth ==
  ASSUME NEW D, NEW rank, Ranked(D, rank), NEW v \in Int \cup {Null}
  PROVE  NegateIsNot(D, v)
<1> SUFFICES ASSUME NEW x \in D, x.kind = "not"
             PROVE  TruthOn(D, v)[Parquet!negate(x.expr)] = TruthOn(D, v)[x]
  BY DEF NegateIsNot
<1> DEFINE T == TruthOn(D, v)
           e == x.expr
           m == Parquet!negate(e)
<1>1. T \in [D -> Truth3] /\ \A y \in D : T[y] = TruthStep(T, y, v)
  BY TruthEquation
<1>2. e \in D /\ m \in D
  BY LeafKinds DEF Ranked
<1>3. T[x] = Negation(T[e])
  BY <1>1 DEF TruthStep
<1> HIDE DEF T
<1>4. CASE e \in Leaf
  <2>1. m.kind \notin {"and", "or", "not"} /\ e.kind \notin {"and", "or", "not"}
    BY <1>4, NegateKinds, LeafKinds
  <2>2. T[m] = LeafTruth(m, v) /\ T[e] = LeafTruth(e, v)
    BY <1>1, <1>2, <2>1 DEF TruthStep
  <2> QED BY <1>3, <1>4, <2>2, NegateLeaf DEF T
<1>5. ASSUME e.kind \in {"and", "or"}, e.left \in D, e.right \in D
      PROVE  T[m] = T[x]
  <2> DEFINE l == Not(e.left)
             r == Not(e.right)
  <2>1. m.left = l /\ m.right = r /\ (e.kind = "and" <=> m.kind = "or")
        /\ (e.kind = "or" <=> m.kind = "and")
    BY <1>5 DEF Parquet!negate, Parquet!And, Parquet!Or, Parquet!Not, Not
  <2>2. l \in D /\ r \in D
    BY <1>2, <1>5, <2>1, LeafKinds DEF Ranked
  <2>3. T[l] = Negation(T[e.left]) /\ T[r] = Negation(T[e.right])
    <3>1. l.kind = "not" /\ l.expr = e.left /\ r.kind = "not" /\ r.expr = e.right
      BY DEF Not
    <3> HIDE DEF l, r
    <3> QED BY <1>1, <2>2, <3>1 DEF TruthStep
  <2>4. T[e.left] \in Truth3 /\ T[e.right] \in Truth3
    BY <1>1, <1>5
  <2> HIDE DEF l, r, m, e
  <2>5. CASE e.kind = "and"
    <3>1. T[m] = Either(T[l], T[r]) /\ T[e] = Both(T[e.left], T[e.right])
      BY <1>1, <1>2, <2>1, <2>5 DEF TruthStep
    <3> QED BY <1>3, <2>3, <2>4, <3>1, Connectives
  <2>6. CASE e.kind = "or"
    <3>1. T[m] = Both(T[l], T[r]) /\ T[e] = Either(T[e.left], T[e.right])
      BY <1>1, <1>2, <2>1, <2>6 DEF TruthStep
    <3> QED BY <1>3, <2>3, <2>4, <3>1, Connectives
  <2> QED BY <1>5, <2>5, <2>6
<1>6. ASSUME e.kind = "not", e.expr \in D PROVE T[m] = T[x]
  <2>1. m = e.expr
    BY <1>6 DEF Parquet!negate
  <2>2. T[e] = Negation(T[e.expr]) /\ T[e.expr] \in Truth3
    BY <1>1, <1>2, <1>6 DEF TruthStep
  <2> QED BY <1>3, <2>1, <2>2, Connectives
<1> QED BY <1>2, <1>4, <1>5, <1>6 DEF Ranked, T

\* A row group that canSkip rules out holds no row on which the filter is
\* true, however deep the filter nests (skip.go:122-145).  By induction on the
\* rank: a filter of least rank that fails has parts that do not.
LEMMA FilterSound ==
  ASSUME NEW D, NEW rank, Ranked(D, rank),
         NEW t \in Types, NEW rows \in RowGroup(t), NEW cs \in Stats, NEW b \in Bloom,
         StatsTrue(cs, rows), BloomTrue(t, b, rows),
         NEW e \in D, Parquet!canSkipOn(D, t, cs, Len(rows), b)[e]
  PROVE  \A i \in DOMAIN rows : TruthOn(D, rows[i])[e] # "true"
<1> SUFFICES ASSUME NEW i \in DOMAIN rows PROVE TruthOn(D, rows[i])[e] # "true"
  OBVIOUS
<1> DEFINE S == Parquet!canSkipOn(D, t, cs, Len(rows), b)
           T == TruthOn(D, rows[i])
           P == {x \in D : S[x] /\ T[x] = "true"}
<1>1. rows[i] \in Int \cup {Null}
  BY DEF RowGroup, Values
<1>2. T \in [D -> Truth3] /\ \A x \in D : T[x] = TruthStep(T, x, rows[i])
  BY TruthEquation
<1>3. \A x \in D : S[x] = SkipStep(S, x, t, cs, Len(rows), b)
  BY SkipEquation
<1>4. \A x \in D : x.kind = "not" => T[Parquet!negate(x.expr)] = T[x]
  <2>1. NegateIsNot(D, rows[i])
    BY <1>1, NegateTruth
  <2> QED BY <2>1 DEF NegateIsNot
<1>11. \A p \in Truth3, q \in Truth3 :
        /\ Both(p, q) = "true" => p = "true" /\ q = "true"
        /\ Either(p, q) = "true" => p = "true" \/ q = "true"
  BY Connectives
<1> HIDE DEF S, T
<1> SUFFICES ASSUME P # {} PROVE FALSE
  BY DEF S, T
<1>5. PICK x \in P : \A y \in P : rank[x] <= rank[y]
  BY LeastRank DEF Ranked
<1>6. ASSUME NEW y \in D, rank[y] < rank[x], S[y] PROVE T[y] # "true"
  <2>1. rank[y] \in Nat /\ rank[x] \in Nat
    BY DEF Ranked
  <2> QED BY <1>5, <1>6, <2>1
<1>7. x \in D /\ S[x] /\ T[x] = "true"
  BY <1>5
<1> HIDE DEF P
<1>8. CASE x \in Leaf
  <2>1. canSkipLeaf(x, t, cs, Len(rows), b)
    BY <1>3, <1>7, <1>8, LeafKinds DEF SkipStep
  <2>2. LeafTruth(x, rows[i]) = "true"
    BY <1>2, <1>7, <1>8, LeafKinds DEF TruthStep
  <2>3. ~LeafTrue(x, rows[i])
    BY <1>8, <2>1, LeafSound
  <2> QED BY <2>2, <2>3 DEF LeafTruth
<1>9. ASSUME x.kind \in {"and", "or"}, x.left \in D, x.right \in D,
             rank[x.left] < rank[x], rank[x.right] < rank[x]
      PROVE  FALSE
  <2>1. T[x.left] \in Truth3 /\ T[x.right] \in Truth3
    BY <1>2, <1>9
  <2>2. CASE x.kind = "and"
    <3>1. S[x.left] \/ S[x.right]
      BY <1>3, <1>7, <2>2 DEF SkipStep
    <3>2. T[x] = Both(T[x.left], T[x.right])
      BY <1>2, <1>7, <2>2 DEF TruthStep
    <3>3. T[x.left] = "true" /\ T[x.right] = "true"
      BY <1>7, <1>11, <2>1, <3>2
    <3> QED BY <1>6, <1>9, <3>1, <3>3
  <2>3. CASE x.kind = "or"
    <3>1. S[x.left] /\ S[x.right]
      BY <1>3, <1>7, <2>3 DEF SkipStep
    <3>2. T[x] = Either(T[x.left], T[x.right])
      BY <1>2, <1>7, <2>3 DEF TruthStep
    <3>3. T[x.left] = "true" \/ T[x.right] = "true"
      BY <1>7, <1>11, <2>1, <3>2
    <3> QED BY <1>6, <1>9, <3>1, <3>3
  <2> QED BY <1>9, <2>2, <2>3
<1>10. ASSUME x.kind = "not", Parquet!negate(x.expr) \in D,
              rank[Parquet!negate(x.expr)] < rank[x]
       PROVE  FALSE
  <2>1. S[Parquet!negate(x.expr)]
    BY <1>3, <1>7, <1>10 DEF SkipStep
  <2> QED BY <1>4, <1>6, <1>7, <1>10, <2>1
<1> QED BY <1>7, <1>8, <1>9, <1>10 DEF Ranked

\* A row group that a filter skips holds no row on which the filter is true:
\* for every column type and width, all rows, every honest footer with both
\* bounds or neither, any bloom filter without false negatives, and filters of
\* any nesting (skip.go:122-145, stats.go:61-74).
THEOREM SkipIsSound ==
  ASSUME NEW D, NEW rank, Ranked(D, rank),
         NEW t \in Types, NEW rows \in RowGroup(t), NEW w \in Footer, NEW b \in Bloom,
         Honest(t, w, rows), TwoSided(w), BloomTrue(t, b, rows),
         NEW e \in D,
         Parquet!canSkipOn(D, t, colStatsFromTyped(t, w), Len(rows), b)[e]
  PROVE  \A i \in DOMAIN rows : TruthOn(D, rows[i])[e] # "true"
<1> DEFINE cs == colStatsFromTyped(t, w)
<1>1. cs \in Stats /\ StatsTrue(cs, rows)
  BY StatsViewTrue
<1> HIDE DEF cs
<1>2. Parquet!canSkipOn(D, t, cs, Len(rows), b)[e]
  BY DEF cs
<1> QED BY <1>1, <1>2, FilterSound

-----------------------------------------------------------------------------
(* The filters, rows and footers of the Parquet scans *)

\* Filters with at most one connective above a leaf, and with at most two.
Level1 == Nest(Leaf)
Level2 == Nest(Level1)

\* How many connectives are around a filter's leaves, twice, and one more
\* for an outermost NOT.
FilterRank(e) ==
  (IF e \in Leaf THEN 0 ELSE IF e \in Level1 THEN 2 ELSE IF e \in Level2 THEN 4 ELSE 6)
    + (IF e.kind = "not" THEN 1 ELSE 0)

\* What Nest adds.
LEMMA NestParts ==
  ASSUME NEW S, NEW e \in Nest(S), e \notin S
  PROVE  \/ e.kind \in {"and", "or"} /\ e.left \in S /\ e.right \in S
         \/ e.kind = "not" /\ e.expr \in S
  BY DEF Nest

\* What Nest contains.
LEMMA NestMembers ==
  ASSUME NEW S
  PROVE  /\ S \subseteq Nest(S)
         /\ \A e \in S : Not(e) \in Nest(S)
         /\ \A l \in S, r \in S : And(l, r) \in Nest(S) /\ Or(l, r) \in Nest(S)
  BY DEF Nest, And, Or, Not

\* The negation of a leaf is a leaf.
LEMMA NegateIsLeaf ==
  ASSUME NEW e \in Leaf
  PROVE  Parquet!negate(e) \in Leaf
<1>1. CASE e \in [kind : {"compare"}, op : Ops, lit : Lit]
  <2>1. Parquet!negate(e) =
          [kind |-> "compare", op |-> Parquet!negateOp(e.op), lit |-> e.lit]
    BY <1>1 DEF Parquet!negate, Parquet!Compare
  <2>2. Parquet!negateOp(e.op) \in Ops /\ e.lit \in Lit
    BY <1>1 DEF Parquet!negateOp, Ops
  <2> QED BY <2>1, <2>2 DEF Leaf
<1>2. CASE e \in [kind : {"isnull"}, negated : BOOLEAN]
  <2>1. Parquet!negate(e) = [e EXCEPT !.negated = ~@]
    BY <1>2 DEF Parquet!negate
  <2> QED BY <1>2, <2>1 DEF Leaf
<1>3. CASE e \in [kind : {"between"}, negated : BOOLEAN, low : Lit, high : Lit]
  <2>1. Parquet!negate(e) = [e EXCEPT !.negated = ~@]
    BY <1>3 DEF Parquet!negate
  <2> QED BY <1>3, <2>1 DEF Leaf
<1>4. CASE e \in [kind : {"in"}, negated : BOOLEAN, list : SUBSET Lit]
  <2>1. Parquet!negate(e) = [e EXCEPT !.negated = ~@]
    BY <1>4 DEF Parquet!negate
  <2> QED BY <1>4, <2>1 DEF Leaf
<1> QED BY <1>1, <1>2, <1>3, <1>4 DEF Leaf

\* The levels, up to the filters of the scans.
LEMMA Levels ==
  /\ Leaf \subseteq Level1 /\ Level1 \subseteq Level2 /\ Level2 \subseteq Filter
  /\ Level1 = Nest(Leaf) /\ Level2 = Nest(Level1) /\ Filter = Nest(Level2)
  BY NestMembers DEF Level1, Level2, Filter, Nested

\* What negate makes of a connective nests one deeper, and is no NOT; of a
\* NOT it makes the operand.
LEMMA NegateLevel ==
  ASSUME NEW S, NEW e \in Nest(S), e \notin S
  PROVE  /\ e.kind \in {"and", "or"} =>
              /\ Parquet!negate(e) \in Nest(Nest(S))
              /\ Parquet!negate(e).kind \in {"and", "or"}
         /\ e.kind = "not" => Parquet!negate(e) \in S
<1>1. ASSUME e.kind \in {"and", "or"}
      PROVE  Parquet!negate(e) \in Nest(Nest(S)) /\ Parquet!negate(e).kind \in {"and", "or"}
  <2>1. e.left \in S /\ e.right \in S
    BY <1>1, NestParts
  <2>2. Not(e.left) \in Nest(S) /\ Not(e.right) \in Nest(S)
    BY <2>1, NestMembers
  <2>3. \/ Parquet!negate(e) = Or(Not(e.left), Not(e.right))
        \/ Parquet!negate(e) = And(Not(e.left), Not(e.right))
    BY <1>1 DEF Parquet!negate, Parquet!And, Parquet!Or, Parquet!Not, And, Or, Not
  <2>4. Parquet!negate(e) \in Nest(Nest(S))
    BY <2>2, <2>3, NestMembers
  <2>5. Parquet!negate(e).kind \in {"and", "or"}
    BY <2>3 DEF And, Or
  <2> QED BY <2>4, <2>5
<1>2. ASSUME e.kind = "not" PROVE Parquet!negate(e) \in S
  <2>1. Parquet!negate(e) = e.expr
    BY <1>2 DEF Parquet!negate
  <2> QED BY <1>2, <2>1, NestParts
<1> QED BY <1>1, <1>2

\* The filters of the scans are ranked.
LEMMA FilterRanked == Ranked(Filter, [e \in Filter |-> FilterRank(e)])
<1> DEFINE rank == [e \in Filter |-> FilterRank(e)]
<1>1. \A e \in Filter : rank[e] = FilterRank(e)
  OBVIOUS
<1>2. rank \in [Filter -> Nat]
  BY DEF FilterRank
<1> HIDE DEF rank
<1>3. /\ \A e \in Leaf : FilterRank(e) = 0
      /\ \A e \in Level1 : FilterRank(e) <= 3 /\ (e.kind # "not" => FilterRank(e) <= 2)
      /\ \A e \in Level2 : FilterRank(e) <= 5 /\ (e.kind # "not" => FilterRank(e) <= 4)
      /\ \A e \in Filter : FilterRank(e) <= 7 /\ (e.kind # "not" => FilterRank(e) <= 6)
  BY Levels, LeafKinds DEF FilterRank
<1>4. ASSUME NEW e \in Filter, e \notin Leaf
      PROVE \/ /\ e.kind \in {"and", "or"} /\ e.left \in Filter /\ e.right \in Filter
               /\ rank[e.left] < rank[e] /\ rank[e.right] < rank[e]
            \/ /\ e.kind = "not" /\ e.expr \in Filter /\ Parquet!negate(e.expr) \in Filter
               /\ rank[e.expr] < rank[e] /\ rank[Parquet!negate(e.expr)] < rank[e]
  <2>0. e.kind \in {"and", "or", "not"}
    BY <1>4, Levels, NestParts
  <2>1. CASE e.kind \in {"and", "or"}
    <3>1. CASE e \in Level1
      <4>1. e.left \in Leaf /\ e.right \in Leaf
        BY <1>4, <2>1, <3>1, Levels, NestParts
      <4>2. FilterRank(e) = 2
        BY <1>4, <2>1, <3>1 DEF FilterRank
      <4> QED BY <1>1, <1>3, <2>1, <4>1, <4>2, Levels
    <3>2. CASE e \in Level2 /\ e \notin Level1
      <4>1. e.left \in Level1 /\ e.right \in Level1
        BY <1>4, <2>1, <3>2, Levels, NestParts
      <4>2. FilterRank(e) = 4
        BY <1>4, <2>1, <3>2 DEF FilterRank
      <4> QED BY <1>1, <1>2, <1>3, <2>1, <4>1, <4>2, Levels
    <3>3. CASE e \notin Level2 /\ e \notin Level1
      <4>1. e.left \in Level2 /\ e.right \in Level2
        BY <1>4, <2>1, <3>3, Levels, NestParts
      <4>2. FilterRank(e) = 6
        BY <1>4, <2>1, <3>3 DEF FilterRank
      <4> QED BY <1>1, <1>2, <1>3, <2>1, <4>1, <4>2, Levels
    <3> QED BY <3>1, <3>2, <3>3
  <2>2. CASE e.kind = "not"
    <3> DEFINE x == e.expr
               m == Parquet!negate(x)
    <3>1. CASE e \in Level1
      <4>1. x \in Leaf
        BY <1>4, <2>2, <3>1, Levels, NestParts
      <4>2. FilterRank(e) = 3
        BY <1>4, <2>2, <3>1 DEF FilterRank
      <4>3. m \in Leaf
        BY <4>1, NegateIsLeaf
      <4> HIDE DEF x, m
      <4>4. x \in Filter /\ m \in Filter /\ rank[x] < rank[e] /\ rank[m] < rank[e]
        BY <1>1, <1>3, <4>1, <4>2, <4>3, Levels
      <4> QED BY <2>2, <4>4 DEF x, m
    <3>2. CASE e \in Level2 /\ e \notin Level1
      <4>1. x \in Level1
        BY <1>4, <2>2, <3>2, Levels, NestParts
      <4>2. FilterRank(e) = 5
        BY <1>4, <2>2, <3>2 DEF FilterRank
      <4>3. m \in Level2 /\ FilterRank(m) <= 4
        <5>1. CASE x \in Leaf
          BY <1>3, <5>1, NegateIsLeaf, Levels
        <5>2. CASE x \notin Leaf
          <6>1. \/ m \in Nest(Nest(Leaf)) /\ m.kind \in {"and", "or"}
                \/ m \in Leaf
            BY <4>1, <5>2, NegateLevel, NestParts, Levels
          <6> HIDE DEF x, m
          <6> QED BY <1>3, <6>1, Levels
        <5> QED BY <5>1, <5>2
      <4> HIDE DEF x, m
      <4>4. x \in Filter /\ m \in Filter /\ rank[x] < rank[e] /\ rank[m] < rank[e]
        BY <1>1, <1>2, <1>3, <4>1, <4>2, <4>3, Levels
      <4> QED BY <2>2, <4>4 DEF x, m
    <3>3. CASE e \notin Level2 /\ e \notin Level1
      <4>1. x \in Level2
        BY <1>4, <2>2, <3>3, Levels, NestParts
      <4>2. FilterRank(e) = 7
        BY <1>4, <2>2, <3>3 DEF FilterRank
      <4>3. m \in Filter /\ FilterRank(m) <= 6
        <5>1. CASE x \in Leaf
          BY <1>3, <5>1, NegateIsLeaf, Levels
        <5>2. CASE x \in Level1 /\ x \notin Leaf
          <6>1. \/ m \in Nest(Nest(Leaf)) /\ m.kind \in {"and", "or"}
                \/ m \in Leaf
            BY <5>2, NegateLevel, NestParts, Levels
          <6> HIDE DEF x, m
          <6> QED BY <1>3, <6>1, Levels
        <5>3. CASE x \notin Level1
          <6>1. \/ m \in Nest(Nest(Level1)) /\ m.kind \in {"and", "or"}
                \/ m \in Level1
            BY <4>1, <5>3, NegateLevel, NestParts, Levels
          <6> HIDE DEF x, m
          <6>2. FilterRank(m) \in Nat
            BY DEF FilterRank
          <6> QED BY <1>3, <6>1, <6>2, Levels
        <5> QED BY <5>1, <5>2, <5>3
      <4> HIDE DEF x, m
      <4>4. x \in Filter /\ m \in Filter /\ rank[x] < rank[e] /\ rank[m] < rank[e]
        BY <1>1, <1>2, <1>3, <4>1, <4>2, <4>3, Levels
      <4> QED BY <2>2, <4>4 DEF x, m
    <3> QED BY <3>1, <3>2, <3>3
  <2> QED BY <2>0, <2>1, <2>2
<1> QED BY <1>2, <1>4 DEF Ranked, rank

\* A set of integers within bounds has a least and a greatest member.
LEMMA Extremes ==
  ASSUME NEW S \in SUBSET Int, S # {}, NEW k \in Nat, \A x \in S : -k <= x /\ x <= k
  PROVE  /\ Parquet!Least(S) \in S /\ \A x \in S : Parquet!Least(S) <= x
         /\ Parquet!Greatest(S) \in S /\ \A x \in S : x <= Parquet!Greatest(S)
<1>1. \E m \in S : \A x \in S : m <= x
  <2> DEFINE N == {x + k : x \in S}
  <2>0. ASSUME NEW x \in S PROVE x + k \in Nat
    <3>1. x \in Int /\ -k <= x /\ x <= k
      OBVIOUS
    <3> QED BY <3>1
  <2>1. N \in SUBSET Nat /\ N # {}
    BY <2>0
  <2>2. PICK n \in N : \A j \in N : n <= j
    BY <2>1, LeastNat
  <2>3. PICK m \in S : n = m + k
    BY <2>2
  <2>4. ASSUME NEW x \in S PROVE m <= x
    <3>1. x + k \in N /\ x \in Int /\ m \in Int
      OBVIOUS
    <3>2. m + k <= x + k
      BY <2>2, <2>3, <3>1
    <3> QED BY <3>1, <3>2
  <2> QED BY <2>4
<1>2. \E m \in S : \A x \in S : m >= x
  <2> DEFINE N == {k - x : x \in S}
  <2>0. ASSUME NEW x \in S PROVE k - x \in Nat
    <3>1. x \in Int /\ -k <= x /\ x <= k
      OBVIOUS
    <3> QED BY <3>1
  <2>1. N \in SUBSET Nat /\ N # {}
    BY <2>0
  <2>2. PICK n \in N : \A j \in N : n <= j
    BY <2>1, LeastNat
  <2>3. PICK m \in S : n = k - m
    BY <2>2
  <2>4. ASSUME NEW x \in S PROVE m >= x
    <3>1. k - x \in N /\ x \in Int /\ m \in Int
      OBVIOUS
    <3>2. k - m <= k - x
      BY <2>2, <2>3, <3>1
    <3> QED BY <3>1, <3>2
  <2> QED BY <2>4
<1>3. Parquet!Least(S) \in S /\ \A x \in S : Parquet!Least(S) <= x
  BY <1>1 DEF Parquet!Least
<1>4. Parquet!Greatest(S) \in S /\ \A x \in S : Parquet!Greatest(S) >= x
  BY <1>2 DEF Parquet!Greatest
<1> QED BY <1>3, <1>4

\* A type's values, and what they look like in the file.
LEMMA ValueFacts ==
  ASSUME NEW t \in Types
  PROVE  /\ Values(t) \in SUBSET Int /\ Values(t) # {} /\ 0 \in Values(t) /\ 1 \in Values(t)
         /\ \A x \in Values(t) : -(2 * Half) <= x /\ x <= 2 * Half
         /\ \A x \in Values(t) : Physical(t, x) \in Int /\ Logical(t, Physical(t, x)) = x
<1>1. Half \in Nat /\ Half > 1
  BY SkipAssumption, ScansAssumption DEF Parquet!ScanAssumption, Parquet!Values
<1> QED BY <1>1 DEF Values, Physical, Logical

\* The rows of the model are rows of the type.
LEMMA RowsAreRows ==
  ASSUME NEW t \in Types, NEW rows \in Parquet!Rows(t)
  PROVE  /\ rows \in RowGroup(t) /\ NonNull(rows) \subseteq Values(t)
         /\ NullCount(rows) \in Nat /\ Len(rows) \in Nat
<1>1. PICK n \in 0..MaxRows : rows \in [1..n -> Parquet!RowValues(t) \cup {Null}]
  BY DEF Parquet!Rows
<1>2. n \in Nat
  BY ScansAssumption DEF Parquet!ScanAssumption
<1>3. Parquet!RowValues(t) \subseteq Values(t)
  <2>1. Parquet!Values(t) = Values(t)
    BY DEF Parquet!Values, Values
  <2>2. Parquet!Least(Values(t)) \in Values(t) /\ Parquet!Greatest(Values(t)) \in Values(t)
    <3>1. 2 * Half \in Nat
      BY SkipAssumption
    <3> DEFINE k == 2 * Half
    <3>2. \A x \in Values(t) : -k <= x /\ x <= k
      BY ValueFacts
    <3> HIDE DEF k
    <3> QED BY <3>1, <3>2, ValueFacts, Extremes DEF k
  <2> QED BY <2>1, <2>2, ValueFacts DEF Parquet!RowValues
<1>4. rows \in Seq(Values(t) \cup {Null})
  BY <1>1, <1>2, <1>3
<1>5. NonNull(rows) \subseteq Values(t)
  BY <1>1, <1>3 DEF NonNull
<1>6. IsFiniteSet(Nulls(rows))
  <2>1. IsFiniteSet(1..n)
    BY <1>2, FS_Interval
  <2>2. Nulls(rows) \in SUBSET (1..n)
    BY <1>1 DEF Nulls
  <2> QED BY <2>1, <2>2, FS_Subset
<1>7. NullCount(rows) \in Nat
  BY <1>6, FS_CardinalityType DEF NullCount
<1> QED BY <1>4, <1>5, <1>7 DEF RowGroup

\* What the writers of the model leave in the footer is honest, and two-sided
\* unless one-sided writers are asked for.
LEMMA FootersHonest ==
  ASSUME ~OneSided, NEW t \in Types, NEW rows \in Parquet!Rows(t),
         NEW w \in Parquet!Footers(t, rows)
  PROVE  w \in Footer /\ Honest(t, w, rows) /\ TwoSided(w)
<1> DEFINE vs == NonNull(rows)
<1>1. PICK p \in Parquet!Ranges(t, rows), c \in {Absent, Present(NullCount(rows))} :
        w = [min |-> p[1], max |-> p[2], nulls |-> c]
  <2>1. /\ Parquet!NullCount(rows) = NullCount(rows) /\ Parquet!Absent = Absent
        /\ \A v : Parquet!Present(v) = Present(v)
    BY DEF Parquet!Absent, Absent, Parquet!Present, Present,
           Parquet!NullCount, NullCount, Parquet!Nulls, Nulls, Parquet!Cardinality,
           Cardinality
  <2> QED BY <2>1 DEF Parquet!Footers
<1>2. c \in Part /\ (c.set => c.v = NullCount(rows)) /\ (~c.set => c.v = 0)
  <2>1. CASE c = Absent
    BY <2>1 DEF Part, Absent
  <2>2. CASE c = Present(NullCount(rows))
    <3>1. NullCount(rows) \in Int
      BY RowsAreRows
    <3>2. c.set = TRUE /\ c.v = NullCount(rows) /\ c = [set |-> TRUE, v |-> NullCount(rows)]
      BY <2>2 DEF Present
    <3> HIDE DEF vs
    <3> QED BY <3>1, <3>2 DEF Part
  <2> QED BY <2>1, <2>2
<1>3. \/ p = <<Absent, Absent>>
      \/ /\ vs # {}
         /\ \/ p = <<Present(Physical(t, Parquet!Least(vs))),
                     Present(Physical(t, Parquet!Greatest(vs)))>>
            \/ p = <<Present(Physical(t, Parquet!Least(Values(t)))),
                     Present(Physical(t, Parquet!Greatest(Values(t))))>>
      \/ p = <<Present(NaN), Present(NaN)>>
  BY DEF Parquet!Ranges, Parquet!Absent, Absent, Parquet!Present, Present, Parquet!Physical,
         Physical, Parquet!NonNull, NonNull, Parquet!Values, Values, Parquet!NaN, NaN
<1>4. /\ p[1] \in Part /\ p[2] \in Part
      /\ p[1].set => isNaN(p[1].v) \/ \A v \in vs : Logical(t, p[1].v) <= v
      /\ p[2].set => isNaN(p[2].v) \/ \A v \in vs : v <= Logical(t, p[2].v)
      /\ p[1].set <=> p[2].set
      /\ ~p[1].set => p[1].v = 0
      /\ ~p[2].set => p[2].v = 0
  <2>1. CASE p = <<Absent, Absent>>
    BY <2>1 DEF Absent, Part
  <2>2. CASE p = <<Present(NaN), Present(NaN)>>
    BY <2>2, SkipAssumption DEF Present, Part, NaN, isNaN
  <2>3. ASSUME NEW S \in SUBSET Values(t), S # {}, vs \subseteq S,
               p = <<Present(Physical(t, Parquet!Least(S))),
                     Present(Physical(t, Parquet!Greatest(S)))>>
        PROVE  /\ p[1] \in Part /\ p[2] \in Part
               /\ p[1].set => isNaN(p[1].v) \/ \A v \in vs : Logical(t, p[1].v) <= v
               /\ p[2].set => isNaN(p[2].v) \/ \A v \in vs : v <= Logical(t, p[2].v)
               /\ p[1].set <=> p[2].set
               /\ ~p[1].set => p[1].v = 0
               /\ ~p[2].set => p[2].v = 0
    <3> DEFINE a == Parquet!Least(S)
               z == Parquet!Greatest(S)
    <3>1. a \in S /\ z \in S /\ \A x \in S : a <= x /\ x <= z
      <4> DEFINE k == 2 * Half
      <4>1. k \in Nat
        BY SkipAssumption
      <4>2. S \in SUBSET Int /\ \A x \in S : -k <= x /\ x <= k
        BY ValueFacts
      <4> HIDE DEF k
      <4> QED BY <2>3, <4>1, <4>2, Extremes
    <3> HIDE DEF a, z
    <3>2. a \in Values(t) /\ z \in Values(t)
      BY <3>1
    <3>3. /\ Physical(t, a) \in Int /\ Logical(t, Physical(t, a)) = a
          /\ Physical(t, z) \in Int /\ Logical(t, Physical(t, z)) = z
      BY <3>2, ValueFacts
    <3>4. p[1] = Present(Physical(t, a)) /\ p[2] = Present(Physical(t, z))
      BY <2>3 DEF a, z
    <3>5. /\ p[1].set = TRUE /\ p[1].v = Physical(t, a)
          /\ p[2].set = TRUE /\ p[2].v = Physical(t, z)
      BY <3>4 DEF Present
    <3>6. p[1] \in Part /\ p[2] \in Part
      BY <3>3, <3>4 DEF Present, Part
    <3> QED BY <2>3, <3>1, <3>3, <3>5, <3>6
  <2>4. CASE /\ vs # {}
             /\ p = <<Present(Physical(t, Parquet!Least(vs))),
                      Present(Physical(t, Parquet!Greatest(vs)))>>
    <3>1. vs \in SUBSET Values(t)
      BY RowsAreRows
    <3> QED BY <2>3, <2>4, <3>1
  <2>5. CASE p = <<Present(Physical(t, Parquet!Least(Values(t)))),
                     Present(Physical(t, Parquet!Greatest(Values(t))))>>
    <3>1. vs \subseteq Values(t) /\ Values(t) # {}
      BY RowsAreRows, ValueFacts
    <3> QED BY <2>3, <2>5, <3>1
  <2> QED BY <1>3, <2>1, <2>2, <2>4, <2>5
<1>5. w.min = p[1] /\ w.max = p[2] /\ w.nulls = c
  BY <1>1
<1>6. w \in Footer
  BY <1>1, <1>2, <1>4 DEF Footer
<1>7. TwoSided(w)
  BY <1>4, <1>5 DEF TwoSided
<1>8. Honest(t, w, rows)
  BY <1>2, <1>4, <1>5 DEF Honest
<1> QED BY <1>6, <1>7, <1>8

\* A bloom filter of the model has no false negatives.
LEMMA BloomsTrue ==
  ASSUME NEW t \in Types, NEW rows \in Parquet!Rows(t), NEW b \in Parquet!Blooms(t, rows)
  PROVE  b \in Bloom /\ BloomTrue(t, b, rows)
<1> DEFINE ps == {Physical(t, v) : v \in NonNull(rows)}
<1>1. \/ b = [set |-> FALSE, maybe |-> {}]
      \/ b = [set |-> TRUE, maybe |-> ps]
      \/ b = [set |-> TRUE, maybe |-> ps \cup {0}]
  BY DEF Parquet!Blooms, Parquet!NoBloom, Parquet!Physical, Physical, Parquet!NonNull,
         NonNull
<1>2. ps \in SUBSET Int /\ \A v \in NonNull(rows) : Physical(t, v) \in ps
  BY RowsAreRows, ValueFacts
<1> HIDE DEF ps
<1>3. b \in Bloom
  <2>1. /\ {} \in SUBSET Int /\ ps \cup {0} \in SUBSET Int
        /\ TRUE \in BOOLEAN /\ FALSE \in BOOLEAN
    BY <1>2
  <2> DEFINE R(s, m) == [set |-> s, maybe |-> m]
  <2>2. \A s \in BOOLEAN, m \in SUBSET Int : R(s, m) \in Bloom
    BY DEF Bloom
  <2>3. CASE b = R(FALSE, {})
    BY <2>1, <2>2, <2>3
  <2>4. CASE b = R(TRUE, ps)
    BY <1>2, <2>1, <2>2, <2>4
  <2>5. CASE b = R(TRUE, ps \cup {0})
    BY <2>1, <2>2, <2>5
  <2> QED BY <1>1, <2>3, <2>4, <2>5
<1>4. b.set => ps \subseteq b.maybe
  BY <1>1
<1> QED BY <1>2, <1>3, <1>4 DEF BloomTrue

\* The statistics a scan may see of these rows.
StatsSeen(t, rows) ==
  UNION {Parquet!buildRowGroupStats(t, w) : w \in Parquet!Footers(t, rows)}

\* The statistics of the model are true of the rows.
LEMMA StatsOfRows ==
  ASSUME ~OneSided, NEW t \in Types, NEW rows \in Parquet!Rows(t),
         NEW cs \in StatsSeen(t, rows)
  PROVE  cs \in Stats /\ StatsTrue(cs, rows)
<1>1. PICK w \in Parquet!Footers(t, rows) : cs \in Parquet!buildRowGroupStats(t, w)
  BY DEF StatsSeen
<1>2. cs = NoStats \/ cs = colStatsFromTyped(t, w)
  BY <1>1, SameOperators DEF Parquet!buildRowGroupStats, Parquet!NoStats, NoStats
<1>3. CASE cs = NoStats
  BY <1>3 DEF NoStats, Stats, StatsTrue
<1>4. CASE cs = colStatsFromTyped(t, w)
  <2>1. w \in Footer /\ Honest(t, w, rows) /\ TwoSided(w)
    BY FootersHonest
  <2>2. rows \in RowGroup(t)
    BY RowsAreRows
  <2> QED BY <1>4, <2>1, <2>2, StatsViewTrue
<1> QED BY <1>2, <1>3, <1>4

\* The filters of the model's scans are filters.
LEMMA OptionFilters ==
  ASSUME NEW t \in Types, NEW o \in Parquet!Options(t)
  PROVE  \A i \in DOMAIN o.filters : o.filters[i] \in Filter
<1> DEFINE Lits == Parquet!Literals(t) \cup Parquet!Bounds(t)
<1>1. ASSUME NEW l \in Lits PROVE l \in Lit
  <2>1. \A v \in Parquet!Values(t) \cup {2 * Half, 0, 1, NaN} : v \in Int
    BY SkipAssumption DEF Parquet!Values, NaN
  <2>2. \A v \in Int, b \in BOOLEAN : Parquet!Literal(v, b) \in Lit
    BY DEF Parquet!Literal, Lit
  <2>3. \E v \in Parquet!Values(t) \cup {2 * Half, 0, 1, NaN}, b \in BOOLEAN :
          l = Parquet!Literal(v, b)
    BY DEF Parquet!Literals, Parquet!Bounds, Parquet!NaN, NaN
  <2> QED BY <2>1, <2>2, <2>3
<1>2. Parquet!Leaves(t) \subseteq Leaf
  <2>1. \A op \in Ops, l \in Lit : Parquet!Compare(op, l) \in Leaf
    BY DEF Parquet!Compare, Leaf
  <2>2. \A n \in BOOLEAN : Parquet!IsNull(n) \in Leaf
    BY DEF Parquet!IsNull, Leaf
  <2>3. \A n \in BOOLEAN, a \in Lit, z \in Lit : Parquet!Between(n, a, z) \in Leaf
    BY DEF Parquet!Between, Leaf
  <2>4. \A n \in BOOLEAN, ls \in SUBSET Lit : Parquet!InList(n, ls) \in Leaf
    BY DEF Parquet!InList, Leaf
  <2>5. Parquet!Literals(t) \subseteq Lit /\ Parquet!Bounds(t) \subseteq Lit
    BY <1>1
  <2>6. Parquet!Ops = Ops
    BY DEF Parquet!Ops, Ops
  <2> QED BY <2>1, <2>2, <2>3, <2>4, <2>5, <2>6 DEF Parquet!Leaves
<1>3. Parquet!Core \subseteq Leaf
  BY DEF Parquet!Core, Parquet!Compare, Parquet!IsNull, Parquet!Between, Parquet!Literal,
         Leaf, Lit, Ops
<1>4. /\ \A e : Parquet!Not(e) = Not(e)
      /\ \A l, r : Parquet!And(l, r) = And(l, r) /\ Parquet!Or(l, r) = Or(l, r)
  BY DEF Parquet!Not, Not, Parquet!And, And, Parquet!Or, Or
<1>5. Parquet!Compounds \subseteq Level1
  BY <1>3, <1>4, NestMembers DEF Parquet!Compounds, Level1
<1>6. Parquet!Filters(t) \subseteq Filter
  <2>1. ASSUME NEW e \in Leaf
        PROVE  Not(e) \in Filter /\ Not(Not(e)) \in Filter /\ e \in Filter
    BY NestMembers, Levels
  <2>2. ASSUME NEW e \in Level1 PROVE Not(e) \in Filter /\ e \in Filter
    BY NestMembers, Levels
  <2> QED BY <1>2, <1>3, <1>4, <1>5, <2>1, <2>2 DEF Parquet!Filters
<1>7. Parquet!Core \subseteq Filter
  BY <1>3, Levels
<1> QED BY <1>6, <1>7 DEF Parquet!Options

-----------------------------------------------------------------------------
(* Parquet scans: the file and the limit *)

\* Whether the file is open at each point of the scan, and how often it was
\* closed.
FileInv ==
  /\ pqPC = "idle" => file = "none" /\ pqCloses = 0
  /\ pqPC = "select" => file = "open" /\ pqCloses = 0
  /\ pqPC = "reading" =>
       \/ file = "open" /\ pqCloses = 0
       \/ file = "closed" /\ pqCloses = 1 /\ survivors = <<>>
  /\ pqPC = "ended" =>
       \/ file = "open" /\ pqCloses = 0
       \/ file = "closed" /\ pqCloses = 1
  /\ pqPC \in {"failed", "released"} => file # "open" /\ pqCloses \in 0..1

\* The limit, what is left of it and what was handed out add up.
LimitInv ==
  /\ survivors \in Seq(Nat)
  /\ pqPos \in 0..Len(survivors) /\ produced \in Nat
  /\ pqOpts.limit \in Int /\ remaining \in Int
  /\ pqPC \in {"idle", "select"} => pqPos = 0 /\ produced = 0
  /\ pqPC \in {"select", "reading", "ended"} /\ pqOpts.limit >= 0 =>
       remaining = pqOpts.limit - produced
  /\ pqPC = "ended" =>
       pqPos = Len(survivors) \/ (pqOpts.limit >= 0 /\ remaining <= 0)

ParquetInv ==
  /\ pqPC \in {"idle", "select", "reading", "ended", "failed", "released"}
  /\ FileInv
  /\ LimitInv

\* Nothing has been opened yet.
LEMMA ParquetInvInit == Parquet!Init => ParquetInv
<1> SUFFICES ASSUME Parquet!Init PROVE ParquetInv
  OBVIOUS
<1>1. survivors \in Seq(Nat) /\ Len(survivors) = 0 /\ pqOpts.limit = -1
  BY DEF Parquet!Init
<1> QED BY <1>1 DEF Parquet!Init, ParquetInv, FileInv, LimitInv

\* A limit is a number, and a row group has a number of rows.
LEMMA LimitType == ASSUME NEW o \in Parquet!Options(dtype) PROVE o.limit \in Int
  BY DEF Parquet!Options

LEMMA RowsType == ASSUME NEW rows \in Parquet!Rows(dtype) PROVE Len(rows) \in Nat
<1>1. PICK n \in 0..MaxRows :
        rows \in [1..n -> Parquet!RowValues(dtype) \cup {Null}]
  BY DEF Parquet!Rows
<1>2. rows \in Seq(Parquet!RowValues(dtype) \cup {Null})
  BY <1>1, ScansAssumption DEF Parquet!ScanAssumption
<1> QED BY <1>2

\* ScanWithOptions, the selection of row groups, Next and Release keep it.
LEMMA ParquetInvStep == ParquetInv /\ [Parquet!Next]_(Parquet!vars) => ParquetInv'
<1> SUFFICES ASSUME ParquetInv, [Parquet!Next]_(Parquet!vars) PROVE ParquetInv'
  OBVIOUS
<1> USE DEF ParquetInv, FileInv, LimitInv, Parquet!fileVars, Parquet!readVars
<1>1. ASSUME NEW o \in Parquet!Options(dtype), Parquet!Open(o) PROVE ParquetInv'
  <2>1. o.limit \in Int
    BY LimitType
  <2> QED BY <1>1, <2>1 DEF Parquet!Open
<1>2. ASSUME NEW rows \in Parquet!Rows(dtype), NEW cs, NEW b, Parquet!Examine(rows, cs, b)
      PROVE  ParquetInv'
  <2>1. /\ pqPC = "select" /\ pqPC' = "select"
        /\ survivors' = survivors \/ survivors' = Append(survivors, Len(rows))
        /\ UNCHANGED <<pqOpts, pqPos, produced, remaining, file, pqCloses>>
    BY <1>2 DEF Parquet!Examine
  <2>2. survivors' \in Seq(Nat) /\ Len(survivors') \in Nat
    BY <2>1, RowsType
  <2> QED BY <2>1, <2>2
<1>3. CASE Parquet!OpenFails
  BY <1>3 DEF Parquet!OpenFails
<1>4. CASE Parquet!ReaderFails
  BY <1>4 DEF Parquet!ReaderFails, Parquet!closeFile
<1>5. CASE Parquet!AllSkipped
  BY <1>5 DEF Parquet!AllSkipped, Parquet!closeFile
<1>6. CASE Parquet!OpenReader
  BY <1>6 DEF Parquet!OpenReader, Parquet!closeFile
<1>7. CASE Parquet!NextBatch
  <2> DEFINE n == survivors[pqPos + 1]
  <2>1. pqPos + 1 \in 1..Len(survivors) /\ n \in Nat
    BY <1>7 DEF Parquet!NextBatch
  <2>2. /\ pqPC = "reading" /\ pqPC' = "reading"
        /\ pqPos' = pqPos + 1 /\ produced' = produced + n
        /\ remaining' = IF pqOpts.limit < 0 THEN remaining ELSE remaining - n
        /\ UNCHANGED <<pqOpts, survivors, file, pqCloses>>
    BY <1>7 DEF Parquet!NextBatch
  <2> HIDE DEF n
  <2> QED BY <2>1, <2>2
<1>8. CASE Parquet!LimitMet
  <2>1. /\ pqPC = "reading" /\ pqPC' = "ended" /\ pqOpts.limit >= 0 /\ remaining <= 0
        /\ UNCHANGED <<pqOpts, survivors, pqPos, produced, remaining, file, pqCloses>>
    BY <1>8 DEF Parquet!LimitMet
  <2>2. FileInv'
    BY <2>1
  <2>3. LimitInv'
    BY <2>1
  <2> QED BY <2>1, <2>2, <2>3
<1>9. CASE Parquet!NextEnds
  <2>1. /\ pqPC = "reading" /\ pqPC' = "ended" /\ pqPos = Len(survivors)
        /\ file' = "closed" /\ pqCloses' = IF file = "open" THEN pqCloses + 1 ELSE pqCloses
        /\ UNCHANGED <<pqOpts, survivors, pqPos, produced, remaining>>
    BY <1>9 DEF Parquet!NextEnds, Parquet!closeFile
  <2>2. pqCloses' = 1
    BY <2>1
  <2> QED BY <2>1, <2>2
<1>10. CASE Parquet!NextFails
  BY <1>10 DEF Parquet!NextFails, Parquet!closeFile
<1>11. CASE Parquet!Release
  BY <1>11 DEF Parquet!Release, Parquet!closeFile
<1>12. CASE UNCHANGED Parquet!vars
  BY <1>12 DEF Parquet!vars
<1>13. CASE Parquet!Stopped
  BY <1>12, <1>13 DEF Parquet!Stopped
<1>14. CASE Parquet!ExamineSome
  BY <1>2, <1>14 DEF Parquet!ExamineSome
<1> QED
  BY <1>1, <1>3, <1>4, <1>5, <1>6, <1>7, <1>8, <1>9, <1>10, <1>11, <1>12, <1>13, <1>14
  DEF Parquet!Next
-----------------------------------------------------------------------------
(* Parquet scans: what is skipped *)

\* Nothing was skipped that matches, and the filters are filters.
SkipInv ==
  /\ dtype \in Types
  /\ \A i \in DOMAIN pqOpts.filters : pqOpts.filters[i] \in Filter
  /\ lost = {}

\* Nothing has been examined yet.
LEMMA SkipInvInit == Parquet!Init => SkipInv
<1> SUFFICES ASSUME Parquet!Init PROVE SkipInv
  OBVIOUS
<1>1. pqOpts.filters = <<>> /\ dtype \in Types /\ lost = {}
  BY DEF Parquet!Init, Parquet!Types, Types
<1> QED BY <1>1 DEF SkipInv

\* A round of selectRowGroups skips no row group that a row matches.
LEMMA ExamineLosesNothing ==
  ASSUME ~OneSided, SkipInv, NEW rows \in Parquet!Rows(dtype),
         NEW cs \in StatsSeen(dtype, rows),
         NEW b \in Parquet!Blooms(dtype, rows), Parquet!Examine(rows, cs, b)
  PROVE  lost' = lost
<1> DEFINE fs == pqOpts.filters
<1>1. ASSUME NEW i \in DOMAIN fs, Parquet!canSkip(fs[i], dtype, cs, Len(rows), b),
             NEW j \in DOMAIN rows
      PROVE  ~Parquet!Matches(fs, rows[j])
  <2>1. fs[i] \in Filter
    BY DEF SkipInv
  <2>2. dtype \in Types /\ rows \in RowGroup(dtype)
    BY RowsAreRows DEF SkipInv
  <2>3. cs \in Stats /\ StatsTrue(cs, rows)
    BY StatsOfRows DEF SkipInv
  <2>4. b \in Bloom /\ BloomTrue(dtype, b, rows)
    BY BloomsTrue DEF SkipInv
  <2>5. Parquet!canSkipOn(Filter, dtype, cs, Len(rows), b)[fs[i]]
    BY <1>1, SameOperators DEF Parquet!canSkip
  <2>6. TruthOn(Filter, rows[j])[fs[i]] # "true"
    <3> DEFINE rank == [e \in Filter |-> FilterRank(e)]
    <3>1. Ranked(Filter, rank)
      BY FilterRanked
    <3> HIDE DEF rank
    <3> QED BY <2>1, <2>2, <2>3, <2>4, <2>5, <3>1, FilterSound
  <2>7. Parquet!Truth(fs[i], rows[j]) # "true"
    BY <2>6, SameOperators DEF Parquet!Truth
  <2> QED BY <2>7 DEF Parquet!Matches
<1> QED BY <1>1 DEF Parquet!Examine

\* The filters are fixed when the scan is opened, and only the selection of
\* row groups skips any.
LEMMA SkipInvStep == ~OneSided /\ SkipInv /\ [Parquet!Next]_(Parquet!vars) => SkipInv'
<1> SUFFICES ASSUME ~OneSided, SkipInv, [Parquet!Next]_(Parquet!vars) PROVE SkipInv'
  OBVIOUS
<1> USE DEF SkipInv
<1>1. ASSUME NEW o \in Parquet!Options(dtype), Parquet!Open(o) PROVE SkipInv'
  BY <1>1, OptionFilters DEF Parquet!Open
<1>2. CASE Parquet!ExamineSome
  <2>1. PICK rows \in Parquet!Rows(dtype) :
          \E cs \in StatsSeen(dtype, rows),
             b \in Parquet!Blooms(dtype, rows) : Parquet!Examine(rows, cs, b)
    BY <1>2 DEF Parquet!ExamineSome, StatsSeen
  <2>2. PICK cs \in StatsSeen(dtype, rows),
             b \in Parquet!Blooms(dtype, rows) : Parquet!Examine(rows, cs, b)
    BY <2>1
  <2>3. lost' = lost
    BY <2>1, <2>2, ExamineLosesNothing
  <2>4. UNCHANGED <<dtype, pqOpts>>
    BY <2>2 DEF Parquet!Examine
  <2> QED BY <2>3, <2>4
<1>3. CASE \/ Parquet!OpenFails \/ Parquet!ReaderFails \/ Parquet!AllSkipped
           \/ Parquet!OpenReader \/ Parquet!NextBatch \/ Parquet!LimitMet
           \/ Parquet!NextEnds \/ Parquet!NextFails \/ Parquet!Release
           \/ UNCHANGED Parquet!vars
  <2>1. UNCHANGED <<dtype, pqOpts, lost>>
    BY <1>3
    DEF Parquet!OpenFails, Parquet!ReaderFails, Parquet!AllSkipped, Parquet!OpenReader,
        Parquet!NextBatch, Parquet!LimitMet, Parquet!NextEnds, Parquet!NextFails,
        Parquet!Release, Parquet!vars
  <2> QED BY <2>1
<1>4. CASE Parquet!Stopped
  BY <1>3, <1>4 DEF Parquet!Stopped
<1> QED BY <1>1, <1>2, <1>3, <1>4 DEF Parquet!Next

-----------------------------------------------------------------------------
(* Text scans *)

\* Where a text scan is, and whether its object is open.
TextHandleInv ==
  /\ textPC \in {"new", "refused", "idle"} => handle = "none" /\ textCloses = 0
  /\ textPC \in {"opened", "reading"} =>
       IF kind = "json" THEN handle = "closed" /\ textCloses = 1
       ELSE handle = "open" /\ textCloses = 0
  /\ textPC \in {"ended", "released"} => handle = "closed" /\ textCloses = 1
  /\ textPC = "failed" => handle # "open" /\ textCloses \in 0..1

\* What it has handed out, and that an error is kept.
TextRowsInv ==
  /\ object \in Text!Object
  /\ textPos \in 0..Len(object.rows)
  /\ textErr \in BOOLEAN
  /\ textPC \in {"new", "refused", "idle", "opened"} => textPos = 0 /\ ~textErr
  /\ ~textErr => \A i \in 1..textPos : object.rows[i] # "bad"
  /\ textPC = "ended" /\ ~textErr => textPos = Len(object.rows)

TextInv ==
  /\ textPC \in {"new", "refused", "idle", "opened", "reading", "ended", "failed",
                 "released"}
  /\ TextHandleInv
  /\ TextRowsInv

\* The rows of an object are a sequence.
LEMMA ObjectRows ==
  ASSUME NEW o \in Text!Object
  PROVE  o.rows \in Seq({"good", "bad"})
<1>1. PICK n \in 0..MaxTextRows : o.rows \in [1..n -> {"good", "bad"}]
  BY DEF Text!Object
<1> QED BY <1>1, ScansAssumption

\* A provider that is not yet constructed has opened nothing.
LEMMA TextInvInit == Text!Init => TextInv
<1> SUFFICES ASSUME Text!Init PROVE TextInv
  OBVIOUS
<1>1. <<>> \in [1..0 -> {"good", "bad"}] /\ 0 \in 0..MaxTextRows
  BY ScansAssumption
<1>2. object \in Text!Object
  BY <1>1 DEF Text!Init, Text!NoObject, Text!Object
<1>3. object.rows = <<>>
  BY DEF Text!Init, Text!NoObject
<1>4. textPos = 0 /\ Len(object.rows) = 0 /\ textErr = FALSE /\ textPC = "new"
  BY <1>3 DEF Text!Init
<1>5. TextRowsInv
  <2>1. textPos \in 0..Len(object.rows) /\ 1..textPos = {}
    BY <1>4
  <2>2. textErr \in BOOLEAN /\ ~textErr
    BY <1>4
  <2> QED BY <1>2, <1>4, <2>1, <2>2 DEF TextRowsInv
<1>6. TextHandleInv
  BY <1>4 DEF Text!Init, TextHandleInv
<1> QED BY <1>4, <1>5, <1>6 DEF TextInv

\* Construction, Scan, Next and Release keep it.
LEMMA TextInvStep == TextInv /\ [Text!Next]_(Text!vars) => TextInv'
<1> SUFFICES ASSUME TextInv, [Text!Next]_(Text!vars) PROVE TextInv'
  OBVIOUS
<1> USE DEF TextInv, TextHandleInv, TextRowsInv, Text!providerVars, Text!readerVars,
            Text!handleVars
<1>1. ASSUME NEW o \in Text!Object, Text!NewTableProvider(o) PROVE TextInv'
  BY <1>1 DEF Text!NewTableProvider
<1>2. ASSUME NEW o \in Text!Object, Text!Scan(o) PROVE TextInv'
  <2>1. Len(o.rows) \in Nat
    BY ObjectRows
  <2>2. textPos' = 0 /\ textErr' = FALSE /\ object' = o /\ textPC' \in {"opened", "failed"}
    BY <1>2 DEF Text!Scan, Text!ScanCSV, Text!ScanJSONL, Text!ScanJSON
  <2>3. TextRowsInv'
    <3>1. textPos' \in 0..Len(o.rows) /\ 1..textPos' = {}
      BY <2>1, <2>2
    <3>2. textErr' \in BOOLEAN /\ ~textErr'
      BY <2>2
    <3> QED BY <2>2, <3>1, <3>2
  <2>4. TextHandleInv'
    BY <1>2 DEF Text!Scan, Text!ScanCSV, Text!ScanJSONL, Text!ScanJSON
  <2> QED BY <2>2, <2>3, <2>4
<1>3. CASE Text!ScanFails
  BY <1>3 DEF Text!ScanFails
<1>4. CASE Text!Import
  BY <1>4 DEF Text!Import, Text!Drop, Text!closeOwned, Text!close
<1>5. CASE Text!ReadDirectly
  BY <1>5 DEF Text!ReadDirectly
<1>6. CASE Text!NextRow
  <2>1. Len(object.rows) \in Nat
    BY ObjectRows
  <2>2. /\ textPos' = textPos + 1 /\ object' = object /\ textPC' = "reading"
        /\ textPC = "reading" /\ ~textErr /\ textPos < Len(object.rows)
        /\ textErr' <=> object.rows[textPos + 1] = "bad"
        /\ textErr' \in BOOLEAN
    BY <1>6, <2>1 DEF Text!NextRow, Text!Ahead, Text!BadAhead
  <2>3. textPos' \in 0..Len(object.rows) /\ textPos \in Nat
    BY <2>1, <2>2
  <2>4. ASSUME ~textErr', NEW i \in 1..textPos' PROVE object.rows[i] # "bad"
    <3>1. i \in 1..textPos \/ i = textPos + 1
      BY <2>2, <2>3, <2>4
    <3> QED BY <2>2, <2>4, <3>1
  <2>5. TextRowsInv'
    BY <2>2, <2>3, <2>4
  <2>6. TextHandleInv'
    BY <1>6, <2>2 DEF Text!NextRow
  <2> QED BY <2>2, <2>5, <2>6
<1>7. CASE Text!NextEnds
  <2>1. Len(object.rows) \in Nat
    BY ObjectRows
  <2>2. /\ textPC = "reading" /\ textPC' = "ended"
        /\ object' = object /\ textPos' = textPos
        /\ textErr' <=> textErr \/ textPos < Len(object.rows)
        /\ textErr' \in BOOLEAN
    BY <1>7 DEF Text!NextEnds, Text!Ahead
  <2>3. TextRowsInv'
    BY <2>1, <2>2
  <2>4. TextHandleInv'
    BY <1>7 DEF Text!NextEnds, Text!closeOwned, Text!close
  <2> QED BY <2>2, <2>3, <2>4
<1>8. CASE Text!NextFails
  BY <1>8 DEF Text!NextFails, Text!close
<1>9. CASE Text!Release
  BY <1>9 DEF Text!Release, Text!Drop, Text!closeOwned, Text!close
<1>10. CASE Text!Stopped
  BY <1>10 DEF Text!Stopped, Text!vars
<1>11. CASE UNCHANGED Text!vars
  BY <1>11 DEF Text!vars
<1> QED BY <1>1, <1>2, <1>3, <1>4, <1>5, <1>6, <1>7, <1>8, <1>9, <1>10, <1>11 DEF Text!Next
-----------------------------------------------------------------------------
(* The scans side by side *)

\* Each of the two is stepped by its own provider's scan, and otherwise left
\* alone.
LEMMA OneScanSteps ==
  [ScansNext]_<<provider, icebergVars, parquetVars, textVars>>
    => [Parquet!Next]_(Parquet!vars) /\ [Text!Next]_(Text!vars)
  BY DEF ScansNext, parquetVars, textVars, Parquet!vars, Parquet!readVars,
         Parquet!fileVars, Text!vars, Text!providerVars, Text!readerVars,
         Text!handleVars

\* Both invariants hold of the scans together.
LEMMA ScanInvariants == ScansSpec => [](ParquetInv /\ TextInv)
<1>1. ScansInit => ParquetInv /\ TextInv
  BY ParquetInvInit, TextInvInit DEF ScansInit
<1>2. ParquetInv /\ TextInv /\ [ScansNext]_<<provider, icebergVars, parquetVars, textVars>>
        => (ParquetInv /\ TextInv)'
  BY OneScanSteps, ParquetInvStep, TextInvStep
<1> QED BY <1>1, <1>2, PTL DEF ScansSpec

\* The object behind a Parquet, CSV, JSON Lines or JSON scan is open as long
\* as it is read and closed once on every way out, for any number of row
\* groups and rows (parquet.go:136-155, closingreader.go:15-45,
\* csv.go:142-166, json.go:64-88).
THEOREM ScansCloseOnce == ScansSpec => []ObjectClosedOnce
<1>1. ParquetInv => Parquet!FileClosedOnce
  BY DEF ParquetInv, LimitInv, FileInv, Parquet!FileClosedOnce
<1>2. TextInv => Text!ObjectClosedOnce
  BY DEF TextInv, TextHandleInv, Text!ObjectClosedOnce
<1>3. ParquetInv /\ TextInv => ObjectClosedOnce
  BY <1>1, <1>2 DEF ObjectClosedOnce
<1> QED BY <1>3, ScanInvariants, PTL

\* A Parquet scan ends without an error only when every row group it selected
\* has been read, or as many rows as the limit asks for
\* (providers/parquet/pushdown.go:255-264).
THEOREM ParquetReadsEnough == ScansSpec => []EndedIsEnough
<1>1. ParquetInv => EndedIsEnough
  BY DEF ParquetInv, LimitInv, EndedIsEnough, Parquet!EndedIsEnough
<1> QED BY <1>1, ScanInvariants, PTL

\* A text scan that ends without an error has handed out every row, and none
\* that does not decode (providers/csv/csv.go:142-166, jsonl and json).
THEOREM TextLosesNothing == ScansSpec => []NoSilentLoss
<1>1. TextInv => NoSilentLoss
  <2> SUFFICES ASSUME TextInv, textPC = "ended", ~textErr
               PROVE  textPos = Len(object.rows) /\ ~Text!Bad(object)
    BY DEF NoSilentLoss, Text!NoSilentLoss
  <2>1. textPos = Len(object.rows) /\ \A i \in 1..textPos : object.rows[i] # "bad"
    BY DEF TextInv, TextRowsInv
  <2>2. DOMAIN object.rows = 1..Len(object.rows)
    <3>1. object.rows \in Seq({"good", "bad"})
      BY ObjectRows DEF TextInv, TextRowsInv
    <3> QED BY <3>1
  <2> QED BY <2>1, <2>2 DEF Text!Bad
<1> QED BY <1>1, ScanInvariants, PTL

\* No row group with a matching row is skipped, as long as writers leave both
\* bounds or neither: for any number of row groups and rows and every width
\* (skip.go, stats.go, pushdown.go:55-130).
THEOREM ParquetSkipsNoMatch ==
  ASSUME ~OneSided
  PROVE  ScansSpec => []NoMatchSkipped
<1>1. ScansInit => SkipInv
  BY SkipInvInit DEF ScansInit
<1>2. SkipInv /\ [ScansNext]_<<provider, icebergVars, parquetVars, textVars>> => SkipInv'
  BY OneScanSteps, SkipInvStep
<1>3. SkipInv => NoMatchSkipped
  BY DEF SkipInv, NoMatchSkipped, Parquet!NoMatchSkipped
<1> QED BY <1>1, <1>2, <1>3, PTL DEF ScansSpec
-----------------------------------------------------------------------------
(***************************************************************************)
(* The pushdown to iceberg-go.  The recursive translations satisfy their   *)
(* recursions; a leaf keeps its meaning through all of them or is left     *)
(* out; so do the expressions built from such leaves, one level at a time. *)
(***************************************************************************)

\* The parts of a connective are one level down.
LEMMA NestedParts ==
  ASSUME NEW S, NEW e \in Nested(S), e \notin S
  PROVE  \/ e.kind \in {"and", "or"} /\ e.left \in Nest(S) /\ e.right \in Nest(S)
         \/ e.kind = "not" /\ e.expr \in Nest(S)
<1>1. CASE e \in Nest(S)
  BY <1>1, NestParts, NestMembers
<1>2. CASE e \notin Nest(S)
  BY <1>2, NestParts DEF Nested
<1> QED BY <1>1, <1>2

\* One unfolding of EngineTruthOn.
EngineStep(f, e, v) ==
  CASE e.kind = "and" -> Both(f[e.left], f[e.right])
    [] e.kind = "or" -> Either(f[e.left], f[e.right])
    [] e.kind = "not" -> Negation(f[e.expr])
    [] OTHER -> EngineLeafTruth(e, v)

\* EngineTruthOn satisfies its recursion (the engine, external).
LEMMA EngineEquation ==
  ASSUME NEW v
  PROVE  \A e \in EngineExpr :
           EngineTruthOn(EngineExpr, v)[e] = EngineStep(EngineTruthOn(EngineExpr, v), e, v)
<1> DEFINE f0 == [e \in EngineExpr |-> EngineLeafTruth(e, v)]
           f1 == [e \in EngineExpr |-> EngineStep(f0, e, v)]
           f2 == [e \in EngineExpr |-> EngineStep(f1, e, v)]
<1>1. /\ EngineLeaf \subseteq Nest(EngineLeaf) /\ Nest(EngineLeaf) \subseteq EngineExpr
      /\ EngineExpr = Nested(EngineLeaf)
  BY NestMembers DEF EngineExpr, Nested
<1>2. \A e \in EngineLeaf : e.kind \notin {"and", "or", "not"}
  BY DEF EngineLeaf
<1>3. \A e \in EngineLeaf : f0[e] = f1[e]
  BY <1>1, <1>2 DEF EngineStep
<1>4. ASSUME NEW e \in Nest(EngineLeaf) PROVE f1[e] = f2[e]
  <2>1. CASE e \in EngineLeaf
    BY <1>1, <1>2, <2>1 DEF EngineStep
  <2>2. CASE e \notin EngineLeaf
    <3>1. \/ e.kind \in {"and", "or"} /\ e.left \in EngineLeaf /\ e.right \in EngineLeaf
          \/ e.kind = "not" /\ e.expr \in EngineLeaf
      BY <2>2, NestParts
    <3> HIDE DEF f0
    <3>2. EngineStep(f0, e, v) = EngineStep(f1, e, v)
      <4> HIDE DEF f1
      <4> QED BY <1>3, <3>1 DEF EngineStep
    <3> QED BY <1>1, <3>2
  <2> QED BY <2>1, <2>2
<1>5. ASSUME NEW e \in EngineExpr PROVE EngineStep(f1, e, v) = EngineStep(f2, e, v)
  <2> HIDE DEF f0, f1, f2
  <2>1. CASE e \in EngineLeaf
    BY <1>2, <2>1 DEF EngineStep
  <2>2. CASE e \notin EngineLeaf
    <3>1. \/ /\ e.kind \in {"and", "or"}
             /\ e.left \in Nest(EngineLeaf) /\ e.right \in Nest(EngineLeaf)
          \/ e.kind = "not" /\ e.expr \in Nest(EngineLeaf)
      BY <1>1, <2>2, NestedParts
    <3> QED BY <1>4, <3>1 DEF EngineStep
  <2> QED BY <2>1, <2>2
<1>6. f2 = [e \in EngineExpr |-> EngineStep(f2, e, v)]
  BY <1>5
<1> HIDE DEF f0, f1, f2
<1> DEFINE G == EngineTruthOn(EngineExpr, v)
<1>7. G = [e \in EngineExpr |-> EngineStep(G, e, v)]
  BY <1>6 DEF EngineTruthOn, EngineStep
<1> HIDE DEF G
<1>8. \A e \in EngineExpr : G[e] = EngineStep(G, e, v)
  BY <1>7
<1> QED BY <1>8 DEF G

\* One unfolding of ClassifyOn.
ClassifyStep(f, e) ==
  CASE e.kind \in {"and", "or"} ->
         Whole({f[e.left], f[e.right]},
               [kind |-> e.kind, left |-> f[e.left], right |-> f[e.right]])
    [] e.kind = "not" -> Whole({f[e.expr]}, [kind |-> "not", expr |-> f[e.expr]])
    [] OTHER -> ClassifyLeaf(e)

\* ClassifyOn satisfies its recursion (pushdown.rs:128-199).
LEMMA ClassifyEquation ==
  \A e \in EngineExpr : ClassifyOn(EngineExpr)[e] = ClassifyStep(ClassifyOn(EngineExpr), e)
<1> DEFINE f0 == [e \in EngineExpr |-> ClassifyLeaf(e)]
           f1 == [e \in EngineExpr |-> ClassifyStep(f0, e)]
           f2 == [e \in EngineExpr |-> ClassifyStep(f1, e)]
<1>1. /\ EngineLeaf \subseteq Nest(EngineLeaf) /\ Nest(EngineLeaf) \subseteq EngineExpr
      /\ EngineExpr = Nested(EngineLeaf)
  BY NestMembers DEF EngineExpr, Nested
<1>2. \A e \in EngineLeaf : e.kind \notin {"and", "or", "not"}
  BY DEF EngineLeaf
<1>3. \A e \in EngineLeaf : f0[e] = f1[e]
  BY <1>1, <1>2 DEF ClassifyStep
<1>4. ASSUME NEW e \in Nest(EngineLeaf) PROVE f1[e] = f2[e]
  <2>1. CASE e \in EngineLeaf
    BY <1>1, <1>2, <2>1 DEF ClassifyStep
  <2>2. CASE e \notin EngineLeaf
    <3>1. \/ e.kind \in {"and", "or"} /\ e.left \in EngineLeaf /\ e.right \in EngineLeaf
          \/ e.kind = "not" /\ e.expr \in EngineLeaf
      BY <2>2, NestParts
    <3> HIDE DEF f0
    <3>2. ClassifyStep(f0, e) = ClassifyStep(f1, e)
      <4> HIDE DEF f1
      <4> QED BY <1>3, <3>1 DEF ClassifyStep
    <3> QED BY <1>1, <3>2
  <2> QED BY <2>1, <2>2
<1>5. ASSUME NEW e \in EngineExpr PROVE ClassifyStep(f1, e) = ClassifyStep(f2, e)
  <2> HIDE DEF f0, f1, f2
  <2>1. CASE e \in EngineLeaf
    BY <1>2, <2>1 DEF ClassifyStep
  <2>2. CASE e \notin EngineLeaf
    <3>1. \/ /\ e.kind \in {"and", "or"}
             /\ e.left \in Nest(EngineLeaf) /\ e.right \in Nest(EngineLeaf)
          \/ e.kind = "not" /\ e.expr \in Nest(EngineLeaf)
      BY <1>1, <2>2, NestedParts
    <3> QED BY <1>4, <3>1 DEF ClassifyStep
  <2> QED BY <2>1, <2>2
<1>6. f2 = [e \in EngineExpr |-> ClassifyStep(f2, e)]
  BY <1>5
<1> HIDE DEF f0, f1, f2
<1> DEFINE G == ClassifyOn(EngineExpr)
<1>7. G = [e \in EngineExpr |-> ClassifyStep(G, e)]
  BY <1>6 DEF ClassifyOn, ClassifyStep
<1> HIDE DEF G
<1>8. \A e \in EngineExpr : G[e] = ClassifyStep(G, e)
  BY <1>7
<1> QED BY <1>8 DEF G

\* One unfolding of DecodeOn.
DecodeStep(f, e) ==
  CASE e.kind \in {"and", "or"} ->
         AllDecoded({f[e.left], f[e.right]},
                    IF e.kind = "and" THEN And(f[e.left], f[e.right])
                    ELSE Or(f[e.left], f[e.right]))
    [] e.kind = "not" -> AllDecoded({f[e.expr]}, Not(f[e.expr]))
    [] OTHER -> DecodeLeaf(e)

\* DecodeOn satisfies its recursion (expr.go:316-404).
LEMMA DecodeEquation ==
  \A e \in Wire : DecodeOn(Wire)[e] = DecodeStep(DecodeOn(Wire), e)
<1> DEFINE f0 == [e \in Wire |-> DecodeLeaf(e)]
           f1 == [e \in Wire |-> DecodeStep(f0, e)]
           f2 == [e \in Wire |-> DecodeStep(f1, e)]
<1>1. /\ WireLeaf \subseteq Nest(WireLeaf) /\ Nest(WireLeaf) \subseteq Wire
      /\ Wire = Nested(WireLeaf)
  BY NestMembers DEF Wire, Nested
<1>2. \A e \in WireLeaf : e.kind \notin {"and", "or", "not"}
  BY DEF WireLeaf
<1>3. \A e \in WireLeaf : f0[e] = f1[e]
  BY <1>1, <1>2 DEF DecodeStep
<1>4. ASSUME NEW e \in Nest(WireLeaf) PROVE f1[e] = f2[e]
  <2>1. CASE e \in WireLeaf
    BY <1>1, <1>2, <2>1 DEF DecodeStep
  <2>2. CASE e \notin WireLeaf
    <3>1. \/ e.kind \in {"and", "or"} /\ e.left \in WireLeaf /\ e.right \in WireLeaf
          \/ e.kind = "not" /\ e.expr \in WireLeaf
      BY <2>2, NestParts
    <3> HIDE DEF f0
    <3>2. DecodeStep(f0, e) = DecodeStep(f1, e)
      <4> HIDE DEF f1
      <4> QED BY <1>3, <3>1 DEF DecodeStep
    <3> QED BY <1>1, <3>2
  <2> QED BY <2>1, <2>2
<1>5. ASSUME NEW e \in Wire PROVE DecodeStep(f1, e) = DecodeStep(f2, e)
  <2> HIDE DEF f0, f1, f2
  <2>1. CASE e \in WireLeaf
    BY <1>2, <2>1 DEF DecodeStep
  <2>2. CASE e \notin WireLeaf
    <3>1. \/ /\ e.kind \in {"and", "or"}
             /\ e.left \in Nest(WireLeaf) /\ e.right \in Nest(WireLeaf)
          \/ e.kind = "not" /\ e.expr \in Nest(WireLeaf)
      BY <1>1, <2>2, NestedParts
    <3> QED BY <1>4, <3>1 DEF DecodeStep
  <2> QED BY <2>1, <2>2
<1>6. f2 = [e \in Wire |-> DecodeStep(f2, e)]
  BY <1>5
<1> HIDE DEF f0, f1, f2
<1> DEFINE G == DecodeOn(Wire)
<1>7. G = [e \in Wire |-> DecodeStep(G, e)]
  BY <1>6 DEF DecodeOn, DecodeStep
<1> HIDE DEF G
<1>8. \A e \in Wire : G[e] = DecodeStep(G, e)
  BY <1>7
<1> QED BY <1>8 DEF G

\* One unfolding of ConvertOn.
ConvertStep(f, e) ==
  CASE e.kind \in {"and", "or"} ->
         IF Dropped \in {f[e.left], f[e.right]} THEN Dropped
         ELSE IF e.kind = "and" THEN And(f[e.left], f[e.right])
         ELSE Or(f[e.left], f[e.right])
    [] e.kind = "not" -> IF f[e.expr] = Dropped THEN Dropped ELSE Not(f[e.expr])
    [] OTHER -> ConvertLeaf(e)

\* ConvertOn satisfies its recursion (convert.go:54-101).
LEMMA ConvertEquation ==
  \A e \in GoExpr : ConvertOn(GoExpr)[e] = ConvertStep(ConvertOn(GoExpr), e)
<1> DEFINE f0 == [e \in GoExpr |-> ConvertLeaf(e)]
           f1 == [e \in GoExpr |-> ConvertStep(f0, e)]
           f2 == [e \in GoExpr |-> ConvertStep(f1, e)]
<1>1. /\ GoLeaf \subseteq Nest(GoLeaf) /\ Nest(GoLeaf) \subseteq GoExpr
      /\ GoExpr = Nested(GoLeaf)
  BY NestMembers DEF GoExpr, Nested
<1>2. \A e \in GoLeaf : e.kind \notin {"and", "or", "not"}
  BY DEF GoLeaf
<1>3. \A e \in GoLeaf : f0[e] = f1[e]
  BY <1>1, <1>2 DEF ConvertStep
<1>4. ASSUME NEW e \in Nest(GoLeaf) PROVE f1[e] = f2[e]
  <2>1. CASE e \in GoLeaf
    BY <1>1, <1>2, <2>1 DEF ConvertStep
  <2>2. CASE e \notin GoLeaf
    <3>1. \/ e.kind \in {"and", "or"} /\ e.left \in GoLeaf /\ e.right \in GoLeaf
          \/ e.kind = "not" /\ e.expr \in GoLeaf
      BY <2>2, NestParts
    <3> HIDE DEF f0
    <3>2. ConvertStep(f0, e) = ConvertStep(f1, e)
      <4> HIDE DEF f1
      <4> QED BY <1>3, <3>1 DEF ConvertStep
    <3> QED BY <1>1, <3>2
  <2> QED BY <2>1, <2>2
<1>5. ASSUME NEW e \in GoExpr PROVE ConvertStep(f1, e) = ConvertStep(f2, e)
  <2> HIDE DEF f0, f1, f2
  <2>1. CASE e \in GoLeaf
    BY <1>2, <2>1 DEF ConvertStep
  <2>2. CASE e \notin GoLeaf
    <3>1. \/ e.kind \in {"and", "or"} /\ e.left \in Nest(GoLeaf) /\ e.right \in Nest(GoLeaf)
          \/ e.kind = "not" /\ e.expr \in Nest(GoLeaf)
      BY <1>1, <2>2, NestedParts
    <3> QED BY <1>4, <3>1 DEF ConvertStep
  <2> QED BY <2>1, <2>2
<1>6. f2 = [e \in GoExpr |-> ConvertStep(f2, e)]
  BY <1>5
<1> HIDE DEF f0, f1, f2
<1> DEFINE G == ConvertOn(GoExpr)
<1>7. G = [e \in GoExpr |-> ConvertStep(G, e)]
  BY <1>6 DEF ConvertOn, ConvertStep
<1> HIDE DEF G
<1>8. \A e \in GoExpr : G[e] = ConvertStep(G, e)
  BY <1>7
<1> QED BY <1>8 DEF G

\* Scalars that are values of their type, floats being numbers.
SaneScalar ==
  {s \in [kind : {"scalar"}, type : ScalarTypes, v : Int \cup {Null}] :
     s.v # Null =>
       /\ s.type = "uint64" => s.v \in 0..(2 * Half - 1)
       /\ s.type = "float64" => s.v \notin NonFinite
       /\ s.type \in {"int32", "int64", "seconds", "micros", "date64"} => s.v \in Int64}
SaneOperand == {Col, Computed} \cup SaneScalar
SaneLeaf ==
  [kind : {"binary"}, op : EngineOps, left : SaneOperand, right : SaneOperand]
    \cup [kind : {"nulltest"}, of : SaneOperand, negated : BOOLEAN]
    \cup [kind : {"range"}, of : SaneOperand, negated : BOOLEAN,
          low : SaneOperand, high : SaneOperand]
    \cup [kind : {"member"}, of : SaneOperand, negated : BOOLEAN, list : SUBSET SaneOperand]
    \cup [kind : {"other"}, truth : Truths]

\* What the provider gets for a scalar.
GoLit(x) == UnmarshalLiteral(literal(x))

\* An int64 is left as it is.
LEMMA WrapInt64 == ASSUME NEW n \in Int64 PROVE Wrap(n) = n
<1>1. Half \in Nat \ {0} /\ n \in Int /\ n + Half \in 0..(2 * Half - 1)
  BY SkipAssumption DEF Int64
<1>2. (n + Half) % (2 * Half) = n + Half
  BY <1>1
<1> QED BY <1>1, <1>2 DEF Wrap

\* scaleTimestamp's test is exact: what passes does not overflow
\* (convert.go:312-317).
LEMMA ScaleInt64 ==
  ASSUME NEW n \in Int, n <= MaxInt64 \div Factor, n >= -(Half \div Factor)
  PROVE  n * Factor \in Int64
<1>1. Half \in Nat \ {0} /\ Factor \in Nat \ {0} /\ MaxInt64 \in Nat /\ MaxInt64 = Half - 1
  BY SkipAssumption, IcebergAssumption DEF MaxInt64
<1> DEFINE q == MaxInt64 \div Factor
           p == Half \div Factor
<1>2. q \in Int /\ q * Factor <= MaxInt64 /\ p \in Int /\ p * Factor <= Half
  BY <1>1
<1>3. n <= q /\ -p <= n
  BY <1>2
<1> HIDE DEF q, p
<1>4. n * Factor <= q * Factor /\ (-p) * Factor <= n * Factor
  BY <1>1, <1>2, <1>3
<1>5. (-p) * Factor = -(p * Factor) /\ n * Factor \in Int
  BY <1>1, <1>2
<1>6. n * Factor <= MaxInt64 /\ -Half <= n * Factor
  BY <1>1, <1>2, <1>4, <1>5
<1> QED BY <1>1, <1>5, <1>6 DEF Int64

\* A scalar that has a wire form is decoded, and converted to what it is worth
\* or not at all (pushdown.rs:92-126, expr.go:102-240, convert.go:239-317).
LEMMA LiteralCarried ==
  ASSUME NEW x \in SaneOperand, literal(x) # NoWire
  PROVE  /\ x.kind = "scalar" /\ x # Col
         /\ literal(x) \in WireLiteral /\ GoLit(x) \in GoLiteral
         /\ Worth(x) \in Int
         /\ convertLiteral(GoLit(x)).ok => convertLiteral(GoLit(x)).v = Worth(x)
<1> DEFINE w == literal(x)
           l == GoLit(x)
<1>1. x \in SaneScalar /\ x.v # Null /\ x.v \in Int /\ x.type # "decimal" /\ x.kind = "scalar"
      /\ x.type \in ScalarTypes
  <2>1. x.kind = "scalar" /\ x.v # Null /\ x.type # "decimal"
    BY DEF literal
  <2>2. x # Col /\ x # Computed
    BY <2>1 DEF Col, Computed
  <2>3. x \in SaneScalar
    BY <2>2 DEF SaneOperand
  <2> QED BY <2>1, <2>3 DEF SaneScalar
<1>2. x # Col
  BY <1>1 DEF Col
<1>3. /\ w.type = IF x.type \in {"seconds", "micros"} THEN "timestamp" ELSE x.type
      /\ w.unit = IF x.type = "seconds" THEN "s" ELSE IF x.type = "micros" THEN "us" ELSE ""
      /\ w.value = x.v
      /\ w = [kind |-> "literal", type |-> w.type, unit |-> w.unit, value |-> w.value]
  BY <1>1 DEF literal, SaneScalar
<1> HIDE DEF w
<1>4. w \in WireLiteral
  <2>1. /\ w.type \in ScalarTypes \cup {"timestamp"} /\ w.unit \in {"", "s", "us"}
        /\ w.value \in Int \cup {Null}
    BY <1>1, <1>3
  <2>2. \A ty \in ScalarTypes \cup {"timestamp"}, u \in {"", "s", "us"},
           n \in Int \cup {Null} :
          [kind |-> "literal", type |-> ty, unit |-> u, value |-> n] \in WireLiteral
    BY DEF WireLiteral
  <2> QED BY <1>3, <2>1, <2>2
<1>5. Fits(w.type, w.value)
  BY <1>1, <1>3 DEF Fits, ScalarTypes, SaneScalar, Int64
<1>6. l = [kind |-> "literal", type |-> w.type, unit |-> w.unit, raw |-> x.v]
  <2>1. w.value # Null => Fits(w.type, w.value)
    BY <1>5
  <2>2. w.type = "timestamp" => w.unit \in {"s", "us"}
    BY <1>1, <1>3 DEF ScalarTypes
  <2>3. l = UnmarshalLiteral(w)
    BY DEF GoLit, w
  <2> HIDE DEF l
  <2> QED BY <1>1, <1>3, <2>1, <2>2, <2>3 DEF UnmarshalLiteral
<1> HIDE DEF l
<1>7. l \in GoLiteral /\ l.type = w.type /\ l.unit = w.unit /\ l.raw = x.v
  BY <1>1, <1>3, <1>6 DEF GoLiteral, ScalarTypes
<1>8. Factor \in Nat \ {0} /\ Half \in Nat \ {0}
  BY IcebergAssumption, SkipAssumption
<1>9. Worth(x) \in Int
  BY <1>1, <1>8 DEF Worth
<1>10. ASSUME convertLiteral(l).ok PROVE Scaled(l) = Worth(x)
  <2>1. CASE x.type = "float64"
    BY <1>3, <1>7, <2>1 DEF Scaled, Worth
  <2>2. CASE x.type = "seconds"
    <3>1. x.v <= MaxInt64 \div Factor /\ x.v >= -(Half \div Factor)
      BY <1>3, <1>7, <1>10, <2>2 DEF convertLiteral
    <3>2. x.v * Factor \in Int64
      BY <1>1, <3>1, ScaleInt64
    <3>3. Wrap(x.v * Factor) = x.v * Factor
      BY <3>2, WrapInt64
    <3> QED BY <1>1, <1>3, <1>7, <2>2, <3>3 DEF Scaled, Worth
  <2>3. CASE x.type \notin {"float64", "seconds"}
    <3>1. x.v \in Int64
      <4>1. CASE x.type = "uint64"
        <5>1. x.v <= MaxInt64 /\ x.v \in 0..(2 * Half - 1)
          BY <1>1, <1>3, <1>7, <1>10, <4>1 DEF convertLiteral, SaneScalar
        <5> QED BY <1>8, <5>1 DEF Int64, MaxInt64
      <4>2. CASE x.type # "uint64"
        BY <1>1, <2>3, <4>2 DEF SaneScalar, ScalarTypes
      <4> QED BY <4>1, <4>2
    <3>2. Wrap(x.v) = x.v
      BY <3>1, WrapInt64
    <3>3. l.type # "float64" /\ l.unit # "s"
      BY <1>3, <1>7, <2>3
    <3> QED BY <1>7, <2>3, <3>2, <3>3 DEF Scaled, Worth
  <2> QED BY <2>1, <2>2, <2>3
<1>11. convertLiteral(l).v = Scaled(l)
  BY DEF convertLiteral
<1> QED BY <1>1, <1>2, <1>4, <1>7, <1>9, <1>10, <1>11 DEF w, l

\* What the scan's filters evaluate to.
LEMMA FilterTruth ==
  ASSUME NEW v
  PROVE  /\ \A c \in Leaf : Truth(c, v) = LeafTruth(c, v)
         /\ \A l, r : And(l, r) \in Filter =>
              Truth(And(l, r), v) = Both(Truth(l, v), Truth(r, v))
         /\ \A l, r : Or(l, r) \in Filter =>
              Truth(Or(l, r), v) = Either(Truth(l, v), Truth(r, v))
         /\ \A e : Not(e) \in Filter => Truth(Not(e), v) = Negation(Truth(e, v))
<1> DEFINE T == TruthOn(Filter, v)
<1>1. \A c \in Filter : T[c] = TruthStep(T, c, v)
  <2> DEFINE rank == [e \in Filter |-> FilterRank(e)]
  <2>1. Ranked(Filter, rank)
    BY FilterRanked
  <2> HIDE DEF rank
  <2> QED BY <2>1, TruthEquation
<1> HIDE DEF T
<1>2. \A c : Truth(c, v) = T[c]
  BY DEF Truth, T
<1>3. ASSUME NEW c \in Leaf PROVE T[c] = LeafTruth(c, v)
  BY <1>1, <1>3, LeafKinds, Levels DEF TruthStep
<1>4. ASSUME NEW l, NEW r, And(l, r) \in Filter PROVE T[And(l, r)] = Both(T[l], T[r])
  <2>1. And(l, r).kind = "and" /\ And(l, r).left = l /\ And(l, r).right = r
    BY DEF And
  <2> QED BY <1>1, <1>4, <2>1 DEF TruthStep
<1>5. ASSUME NEW l, NEW r, Or(l, r) \in Filter PROVE T[Or(l, r)] = Either(T[l], T[r])
  <2>1. Or(l, r).kind = "or" /\ Or(l, r).left = l /\ Or(l, r).right = r
    BY DEF Or
  <2> QED BY <1>1, <1>5, <2>1 DEF TruthStep
<1>6. ASSUME NEW e, Not(e) \in Filter PROVE T[Not(e)] = Negation(T[e])
  <2>1. Not(e).kind = "not" /\ Not(e).expr = e
    BY DEF Not
  <2> QED BY <1>1, <1>6, <2>1 DEF TruthStep
<1> QED BY <1>2, <1>3, <1>4, <1>5, <1>6

\* A comparison of the column with a number.
ColumnTruth(op, v, n) ==
  IF v = Null THEN "null" ELSE IF Holds(op, v, n) THEN "true" ELSE "false"

\* comparePred makes that comparison (convert.go:193-237).
LEMMA ComparePred ==
  ASSUME NEW op \in Ops, NEW n \in Int
  PROVE  /\ comparePred(op, n) \in Leaf
         /\ \A v : Truth(comparePred(op, n), v) = ColumnTruth(op, v, n)
<1>1. comparePred(op, n) \in Leaf
  BY DEF comparePred, Compare, Literal, Leaf, Lit
<1>2. ASSUME NEW v PROVE LeafTruth(comparePred(op, n), v) = ColumnTruth(op, v, n)
  BY DEF LeafTruth, LeafTrue, comparePred, Compare, Literal, ColumnTruth
<1> QED BY <1>1, <1>2, FilterTruth

\* A comparison on the wire.
LEMMA CompareCarried ==
  ASSUME NEW op \in Ops, NEW x \in SaneOperand, literal(x) # NoWire
  PROVE  /\ WireCompare(op, literal(x)) \in WireLeaf
         /\ DecodeLeaf(WireCompare(op, literal(x))) = Compare(op, GoLit(x))
         /\ Compare(op, GoLit(x)) \in GoLeaf
         /\ \/ ConvertLeaf(Compare(op, GoLit(x))) = Dropped
            \/ ConvertLeaf(Compare(op, GoLit(x))) = comparePred(op, Worth(x))
<1> DEFINE w == literal(x)
           l == GoLit(x)
<1>1. /\ w # NoWire /\ w \in WireLiteral /\ l \in GoLiteral /\ l = UnmarshalLiteral(w)
      /\ convertLiteral(l).ok => convertLiteral(l).v = Worth(x)
  BY LiteralCarried DEF GoLit
<1> HIDE DEF w, l
<1>2. WireCompare(op, w) = [kind |-> "compare", op |-> op, literal |-> w]
  BY <1>1 DEF WireCompare, Whole
<1>3. WireCompare(op, w) \in WireLeaf
  BY <1>1, <1>2 DEF WireLeaf
<1>4. l # Undecodable
  BY <1>1 DEF GoLiteral, Undecodable
<1>5. DecodeLeaf(WireCompare(op, w)) = Compare(op, l)
  BY <1>1, <1>2, <1>4 DEF DecodeLeaf, AllDecoded
<1>6. Compare(op, l) \in GoLeaf
  BY <1>1 DEF Compare, GoLeaf
<1>7. \/ ConvertLeaf(Compare(op, l)) = Dropped
      \/ ConvertLeaf(Compare(op, l)) = comparePred(op, Worth(x))
  BY <1>1 DEF ConvertLeaf, Compare
<1> QED BY <1>3, <1>5, <1>6, <1>7 DEF w, l

\* Turning a comparison around (pushdown.rs:128-150).
LEMMA SwapHolds ==
  ASSUME NEW op \in EngineOps, NEW a \in Int, NEW b \in Int
  PROVE  /\ compare_op[op] \in Ops /\ compare_op[swap(op)] \in Ops
         /\ Holds(compare_op[swap(op)], a, b) <=> Holds(compare_op[op], b, a)
<1> USE DEF EngineOps, compare_op, swap, Holds, Ops
<1>1. CASE op = "="
  BY <1>1
<1>2. CASE op = "!="
  BY <1>2
<1>3. CASE op = "<"
  BY <1>3
<1>4. CASE op = "<="
  BY <1>4
<1>5. CASE op = ">"
  BY <1>5
<1>6. CASE op = ">="
  BY <1>6
<1> QED BY <1>1, <1>2, <1>3, <1>4, <1>5, <1>6

\* How far a leaf gets, and that its meaning is kept.
LeafCarried(e) ==
  ClassifyLeaf(e) # NoWire =>
    LET w == ClassifyLeaf(e)
        g == DecodeLeaf(w)
        c == ConvertLeaf(g)
    IN /\ w \in WireLeaf /\ g \in GoLeaf
       /\ c # Dropped =>
            /\ c \in Nest(Leaf)
            /\ \A v \in Int64 \cup {Null} : Truth(c, v) = EngineLeafTruth(e, v)

\* What is not NULL is a number.
LEMMA ColumnIsInt == ASSUME NEW v \in Int64 \cup {Null}, v # Null PROVE v \in Int
  BY SkipAssumption DEF Int64

\* Comparisons (pushdown.rs:128-150, convert.go:193-237).
LEMMA BinaryCarried ==
  ASSUME NEW e \in [kind : {"binary"}, op : EngineOps, left : SaneOperand, right : SaneOperand]
  PROVE  LeafCarried(e)
<1> SUFFICES ASSUME ClassifyLeaf(e) # NoWire PROVE LeafCarried(e)
  BY DEF LeafCarried
<1>1. /\ ClassifyLeaf(e) = ClassifyBinary(e)
      /\ \A v : EngineLeafTruth(e, v) = Compares(e.op, Operand(e.left, v), Operand(e.right, v))
  BY DEF ClassifyLeaf, EngineLeafTruth
<1>2. \A v : Operand(Col, v) = v
  BY DEF Operand, Col
<1>3. ASSUME NEW op \in Ops, NEW x \in SaneOperand, literal(x) # NoWire,
             ClassifyLeaf(e) = WireCompare(op, literal(x)),
             \A v \in Int64 \cup {Null} : EngineLeafTruth(e, v) = ColumnTruth(op, v, Worth(x))
      PROVE  LeafCarried(e)
  <2>1. /\ WireCompare(op, literal(x)) \in WireLeaf
        /\ DecodeLeaf(WireCompare(op, literal(x))) = Compare(op, GoLit(x))
        /\ Compare(op, GoLit(x)) \in GoLeaf
        /\ \/ ConvertLeaf(Compare(op, GoLit(x))) = Dropped
           \/ ConvertLeaf(Compare(op, GoLit(x))) = comparePred(op, Worth(x))
    BY <1>3, CompareCarried
  <2>2. Worth(x) \in Int
    BY <1>3, LiteralCarried
  <2>3. comparePred(op, Worth(x)) \in Nest(Leaf)
    BY <2>2, ComparePred, NestMembers
  <2>4. \A v \in Int64 \cup {Null} :
          Truth(comparePred(op, Worth(x)), v) = EngineLeafTruth(e, v)
    BY <1>3, <2>2, ComparePred
  <2> QED BY <1>3, <2>1, <2>3, <2>4 DEF LeafCarried
<1>4. CASE e.left = Col
  <2>1. literal(e.right) # NoWire
    BY <1>1, <1>4 DEF ClassifyBinary, WireCompare, Whole
  <2>2. ClassifyLeaf(e) = WireCompare(compare_op[e.op], literal(e.right))
    BY <1>1, <1>4 DEF ClassifyBinary
  <2>3. e.right.kind = "scalar" /\ Worth(e.right) \in Int
    BY <2>1, LiteralCarried
  <2>4. \A v : Operand(e.right, v) = Worth(e.right)
    BY <2>3 DEF Operand
  <2>5. ASSUME NEW v \in Int64 \cup {Null}
        PROVE  EngineLeafTruth(e, v) = ColumnTruth(compare_op[e.op], v, Worth(e.right))
    <3>1. Worth(e.right) # Null
      BY <2>3, SkipAssumption
    <3> QED BY <1>1, <1>2, <1>4, <2>4, <3>1 DEF Compares, ColumnTruth
  <2>6. compare_op[e.op] \in Ops /\ e.right \in SaneOperand
    BY SwapHolds
  <2> QED BY <1>3, <2>1, <2>2, <2>5, <2>6
<1>5. CASE e.left # Col
  <2>1. e.right = Col /\ literal(e.left) # NoWire
    BY <1>1, <1>5 DEF ClassifyBinary, WireCompare, Whole
  <2>2. ClassifyLeaf(e) = WireCompare(compare_op[swap(e.op)], literal(e.left))
    BY <1>1, <1>5, <2>1 DEF ClassifyBinary
  <2>3. e.left.kind = "scalar" /\ Worth(e.left) \in Int
    BY <2>1, LiteralCarried
  <2>4. \A v : Operand(e.left, v) = Worth(e.left)
    BY <2>3 DEF Operand
  <2>5. ASSUME NEW v \in Int64 \cup {Null}
        PROVE  EngineLeafTruth(e, v) = ColumnTruth(compare_op[swap(e.op)], v, Worth(e.left))
    <3>1. Worth(e.left) # Null
      BY <2>3, SkipAssumption
    <3>2. v # Null => (Holds(compare_op[swap(e.op)], v, Worth(e.left))
                         <=> Holds(compare_op[e.op], Worth(e.left), v))
      BY <2>3, SwapHolds, ColumnIsInt
    <3> QED BY <1>1, <1>2, <2>1, <2>4, <3>1, <3>2 DEF Compares, ColumnTruth
  <2>6. compare_op[swap(e.op)] \in Ops /\ e.left \in SaneOperand
    BY SwapHolds
  <2> QED BY <1>3, <2>1, <2>2, <2>5, <2>6
<1> QED BY <1>4, <1>5

\* A literal is no decoding error.
LEMMA LiteralDecoded == ASSUME NEW l \in GoLiteral PROVE l # Undecodable
<1>1. l.kind = "literal" /\ Undecodable.kind = "undecodable"
  BY DEF GoLiteral, Undecodable
<1> QED BY <1>1

\* IS NULL and IS NOT NULL.
LEMMA NullTestCarried ==
  ASSUME NEW e \in [kind : {"nulltest"}, of : SaneOperand, negated : BOOLEAN]
  PROVE  LeafCarried(e)
<1> SUFFICES ASSUME ClassifyLeaf(e) # NoWire PROVE LeafCarried(e)
  BY DEF LeafCarried
<1>1. e.of = Col
  BY DEF ClassifyLeaf, Whole, column_ref
<1>2. \A v : Operand(e.of, v) = v
  BY <1>1 DEF Operand, Col
<1>3. ASSUME NEW n \in BOOLEAN, e.negated = n PROVE LeafCarried(e)
  <2>1. ClassifyLeaf(e) = [kind |-> "is_null", negated |-> n]
    BY <1>1, <1>3 DEF ClassifyLeaf, Whole, column_ref, Col, NoWire
  <2>2. ClassifyLeaf(e) \in WireLeaf
    BY <2>1 DEF WireLeaf
  <2>3. DecodeLeaf(ClassifyLeaf(e)) = IsNull(n)
    BY <2>1 DEF DecodeLeaf
  <2>4. IsNull(n) \in GoLeaf /\ IsNull(n) \in Leaf
    BY DEF IsNull, GoLeaf, Leaf
  <2>5. ConvertLeaf(IsNull(n)) = IsNull(n)
    BY DEF ConvertLeaf, IsNull
  <2>6. ASSUME NEW v PROVE Truth(IsNull(n), v) = EngineLeafTruth(e, v)
    <3>1. EngineLeafTruth(e, v) = Unless(n, IF v = Null THEN "true" ELSE "false")
      BY <1>2, <1>3 DEF EngineLeafTruth
    <3>2. LeafTruth(IsNull(n), v) = Unless(n, IF v = Null THEN "true" ELSE "false")
      <4>1. CASE n = TRUE
        BY <4>1 DEF Unless, Negation, LeafTruth, LeafTrue, IsNull
      <4>2. CASE n = FALSE
        BY <4>2 DEF Unless, Negation, LeafTruth, LeafTrue, IsNull
      <4> QED BY <4>1, <4>2
    <3> QED BY <2>4, <3>1, <3>2, FilterTruth
  <2>7. IsNull(n) \in Nest(Leaf)
    BY <2>4, NestMembers
  <2> QED BY <2>2, <2>3, <2>4, <2>5, <2>6, <2>7 DEF LeafCarried
<1> QED BY <1>3

\* BETWEEN: a pair of comparisons, negated by De Morgan
\* (convert.go:103-133).
LEMMA RangeCarried ==
  ASSUME NEW e \in [kind : {"range"}, of : SaneOperand, negated : BOOLEAN,
                    low : SaneOperand, high : SaneOperand]
  PROVE  LeafCarried(e)
<1> SUFFICES ASSUME ClassifyLeaf(e) # NoWire PROVE LeafCarried(e)
  BY DEF LeafCarried
<1> DEFINE lo == literal(e.low)
           hi == literal(e.high)
           a == Worth(e.low)
           z == Worth(e.high)
<1>1. e.of = Col /\ lo # NoWire /\ hi # NoWire
  BY DEF ClassifyLeaf, Whole, column_ref
<1>2. \A v : Operand(e.of, v) = v
  BY <1>1 DEF Operand, Col
<1>3. /\ lo \in WireLiteral /\ GoLit(e.low) \in GoLiteral /\ a \in Int
      /\ convertLiteral(GoLit(e.low)).ok => convertLiteral(GoLit(e.low)).v = a
      /\ \A v : Operand(e.low, v) = a
  BY <1>1, LiteralCarried DEF Operand
<1>4. /\ hi \in WireLiteral /\ GoLit(e.high) \in GoLiteral /\ z \in Int
      /\ convertLiteral(GoLit(e.high)).ok => convertLiteral(GoLit(e.high)).v = z
      /\ \A v : Operand(e.high, v) = z
  BY <1>1, LiteralCarried DEF Operand
<1>5. GoLit(e.low) = UnmarshalLiteral(lo) /\ GoLit(e.high) = UnmarshalLiteral(hi)
  BY DEF GoLit
<1>6. \A l \in GoLiteral : l # Undecodable
  BY LiteralDecoded
<1> HIDE DEF lo, hi, a, z
<1>7. ASSUME NEW n \in BOOLEAN, e.negated = n PROVE LeafCarried(e)
  <2> DEFINE g == Between(n, GoLit(e.low), GoLit(e.high))
             c == ConvertLeaf(g)
  <2>1. ClassifyLeaf(e) = [kind |-> "between", negated |-> n, low |-> lo, high |-> hi]
    BY <1>1, <1>7 DEF ClassifyLeaf, Whole, column_ref, Col, NoWire, lo, hi
  <2>2. ClassifyLeaf(e) \in WireLeaf
    BY <1>3, <1>4, <2>1 DEF WireLeaf
  <2>3. DecodeLeaf(ClassifyLeaf(e)) = g
    BY <1>3, <1>4, <1>5, <1>6, <2>1 DEF DecodeLeaf, AllDecoded
  <2>4. g \in GoLeaf
    BY <1>3, <1>4 DEF Between, GoLeaf
  <2>5. \/ c = Dropped
        \/ n = TRUE /\ c = Or(comparePred("lt", a), comparePred("gt", z))
        \/ n = FALSE /\ c = And(comparePred("gteq", a), comparePred("lteq", z))
    BY <1>3, <1>4 DEF ConvertLeaf, convertBetween, Between
  <2>6. \A op \in Ops : comparePred(op, a) \in Leaf /\ comparePred(op, z) \in Leaf
    BY <1>3, <1>4, ComparePred
  <2>7. {"lt", "gt", "gteq", "lteq"} \subseteq Ops
    BY DEF Ops
  <2>8. c # Dropped => c \in Nest(Leaf)
    BY <2>5, <2>6, <2>7, NestMembers
  <2>9. ASSUME c # Dropped, NEW v \in Int64 \cup {Null}
        PROVE  Truth(c, v) = EngineLeafTruth(e, v)
    <3>1. a # Null /\ z # Null /\ (v # Null => v \in Int)
      BY <1>3, <1>4, SkipAssumption, ColumnIsInt
    <3>2. EngineLeafTruth(e, v) =
            Unless(n, Both(ColumnTruth("gteq", v, a), ColumnTruth("lteq", v, z)))
      <4>1. Compares(">=", v, a) = ColumnTruth("gteq", v, a)
        BY <3>1 DEF Compares, ColumnTruth, compare_op, EngineOps
      <4>2. Compares("<=", v, z) = ColumnTruth("lteq", v, z)
        BY <3>1 DEF Compares, ColumnTruth, compare_op, EngineOps
      <4> QED BY <1>2, <1>3, <1>4, <1>7, <4>1, <4>2 DEF EngineLeafTruth
    <3>3. c \in Filter
      BY <2>8, <2>9, Levels
    <3>4. \A op \in Ops : /\ Truth(comparePred(op, a), v) = ColumnTruth(op, v, a)
                          /\ Truth(comparePred(op, z), v) = ColumnTruth(op, v, z)
      BY <1>3, <1>4, ComparePred
    <3> HIDE DEF c, g
    <3>5. CASE n = TRUE
      <4>1. c = Or(comparePred("lt", a), comparePred("gt", z))
        BY <2>5, <2>9, <3>5
      <4>2. Truth(c, v) = Either(ColumnTruth("lt", v, a), ColumnTruth("gt", v, z))
        <5> DEFINE p == comparePred("lt", a)
                   q == comparePred("gt", z)
        <5>1. Truth(p, v) = ColumnTruth("lt", v, a) /\ Truth(q, v) = ColumnTruth("gt", v, z)
          BY <2>7, <3>4
        <5> HIDE DEF p, q
        <5>2. Truth(Or(p, q), v) = Either(Truth(p, v), Truth(q, v))
          BY <3>3, <4>1, FilterTruth DEF p, q
        <5> QED BY <4>1, <5>1, <5>2 DEF p, q
      <4>3. /\ ColumnTruth("lt", v, a) = Negation(ColumnTruth("gteq", v, a))
            /\ ColumnTruth("gt", v, z) = Negation(ColumnTruth("lteq", v, z))
        BY <1>3, <1>4, <3>1 DEF ColumnTruth, Holds, Negation
      <4>4. ColumnTruth("gteq", v, a) \in Truth3 /\ ColumnTruth("lteq", v, z) \in Truth3
        BY DEF ColumnTruth, Truth3
      <4> QED BY <3>2, <3>5, <4>2, <4>3, <4>4, Connectives DEF Unless
    <3>6. CASE n = FALSE
      <4>1. c = And(comparePred("gteq", a), comparePred("lteq", z))
        BY <2>5, <2>9, <3>6
      <4>2. Truth(c, v) = Both(ColumnTruth("gteq", v, a), ColumnTruth("lteq", v, z))
        <5> DEFINE p == comparePred("gteq", a)
                   q == comparePred("lteq", z)
        <5>1. /\ Truth(p, v) = ColumnTruth("gteq", v, a)
              /\ Truth(q, v) = ColumnTruth("lteq", v, z)
          BY <2>7, <3>4
        <5> HIDE DEF p, q
        <5>2. Truth(And(p, q), v) = Both(Truth(p, v), Truth(q, v))
          BY <3>3, <4>1, FilterTruth DEF p, q
        <5> QED BY <4>1, <5>1, <5>2 DEF p, q
      <4> QED BY <3>2, <3>6, <4>2 DEF Unless
    <3> QED BY <3>5, <3>6
  <2> HIDE DEF g
  <2> QED BY <2>2, <2>3, <2>4, <2>8, <2>9 DEF LeafCarried
<1> QED BY <1>7

\* IN: a list that is converted entirely or not at all
\* (convert.go:135-191).
LEMMA MemberCarried ==
  ASSUME NEW e \in [kind : {"member"}, of : SaneOperand, negated : BOOLEAN,
                    list : SUBSET SaneOperand]
  PROVE  LeafCarried(e)
<1> SUFFICES ASSUME ClassifyLeaf(e) # NoWire PROVE LeafCarried(e)
  BY DEF LeafCarried
<1> DEFINE ws == {literal(x) : x \in e.list}
           gs == {GoLit(x) : x \in e.list}
           ns == {Worth(x) : x \in e.list}
           ls == {Literal(Worth(x), TRUE) : x \in e.list}
<1>1. e.of = Col /\ \A x \in e.list : x \in SaneOperand /\ literal(x) # NoWire
  BY DEF ClassifyLeaf, Whole, column_ref
<1>2. \A v : Operand(e.of, v) = v
  BY <1>1 DEF Operand, Col
<1>3. ASSUME NEW x \in e.list
      PROVE  /\ literal(x) \in WireLiteral /\ GoLit(x) \in GoLiteral /\ Worth(x) \in Int
             /\ convertLiteral(GoLit(x)).ok => convertLiteral(GoLit(x)).v = Worth(x)
             /\ \A v : Operand(x, v) = Worth(x)
  BY <1>1, LiteralCarried DEF Operand
<1>4. \A l \in GoLiteral : l # Undecodable
  BY LiteralDecoded
<1>5. ws \in SUBSET WireLiteral /\ gs \in SUBSET GoLiteral /\ ns \in SUBSET Int
  BY <1>3
<1>6. gs = {UnmarshalLiteral(l) : l \in ws}
  BY DEF GoLit
<1>7. ASSUME NEW n \in BOOLEAN, e.negated = n PROVE LeafCarried(e)
  <2> DEFINE g == InList(n, gs)
             c == ConvertLeaf(g)
  <2>1. ClassifyLeaf(e) = [kind |-> "in_list", negated |-> n, list |-> ws]
    BY <1>1, <1>7 DEF ClassifyLeaf, Whole, column_ref, Col, NoWire
  <2>2. ClassifyLeaf(e) \in WireLeaf
    <3> HIDE DEF ws
    <3> QED BY <1>5, <2>1 DEF WireLeaf
  <2>3. DecodeLeaf(ClassifyLeaf(e)) = g
    <3> HIDE DEF ws, gs
    <3> QED BY <1>4, <1>5, <1>6, <2>1 DEF DecodeLeaf, AllDecoded
  <2>4. g \in GoLeaf
    <3> HIDE DEF gs
    <3> QED BY <1>5 DEF InList, GoLeaf
  <2>5. ASSUME c # Dropped PROVE c = InList(n, ls)
    <3>1. \A l \in gs : convertLiteral(l).ok
      BY <2>5 DEF ConvertLeaf, convertInList, InList
    <3>2. c = InList(n, {Literal(convertLiteral(l).v, TRUE) : l \in gs})
      BY <2>5 DEF ConvertLeaf, convertInList, InList
    <3>3. {Literal(convertLiteral(l).v, TRUE) : l \in gs} = ls
      <4>1. \A x \in e.list : convertLiteral(GoLit(x)).v = Worth(x)
        BY <1>3, <3>1
      <4>2. {Literal(convertLiteral(l).v, TRUE) : l \in gs}
              = {Literal(convertLiteral(GoLit(x)).v, TRUE) : x \in e.list}
        OBVIOUS
      <4> QED BY <4>1, <4>2
    <3> QED BY <3>2, <3>3
  <2>6. InList(n, ls) \in Leaf
    <3>1. \A k \in Int : Literal(k, TRUE) \in Lit
      BY DEF Literal, Lit
    <3>2. ls \in SUBSET Lit
      BY <1>3, <3>1
    <3> HIDE DEF ls
    <3> QED BY <3>2 DEF InList, Leaf
  <2>7. ASSUME NEW v \in Int64 \cup {Null}, e.list # {}
        PROVE  Truth(InList(n, ls), v) = EngineLeafTruth(e, v)
    <3> DEFINE any == IF v = Null THEN (IF ns = {} THEN "false" ELSE "null")
                      ELSE IF v \in ns THEN "true" ELSE "false"
    <3>1. v # Null => v \in Int
      BY ColumnIsInt
    <3>2. AnyEqual(e.of, e.list, v) = any
      <4> DEFINE ts == {Compares("=", Operand(e.of, v), Operand(y, v)) : y \in e.list}
      <4>1. \A y \in e.list : Worth(y) # Null /\ Worth(y) \in ns
        BY <1>3, SkipAssumption
      <4>2. \A y \in e.list : Compares("=", Operand(e.of, v), Operand(y, v)) =
              IF v = Null THEN "null" ELSE IF v = Worth(y) THEN "true" ELSE "false"
        BY <1>2, <1>3, <4>1 DEF Compares, compare_op, EngineOps, Holds
      <4>3. /\ "true" \in ts <=> v # Null /\ v \in ns
            /\ "null" \in ts <=> v = Null /\ ns # {}
        BY <4>1, <4>2
      <4> HIDE DEF ts, ns
      <4> QED BY <4>3 DEF AnyEqual, ts
    <3>3. EngineLeafTruth(e, v) = Unless(n, any)
      BY <1>7, <3>2 DEF EngineLeafTruth
    <3>4. (\E l \in ls : v = l.v) <=> v \in ns
      <4>1. \A x \in e.list : Literal(Worth(x), TRUE).v = Worth(x)
        BY DEF Literal
      <4>2. ASSUME NEW l \in ls, v = l.v PROVE v \in ns
        <5>1. PICK x \in e.list : l = Literal(Worth(x), TRUE)
          BY <4>2
        <5> QED BY <4>1, <4>2, <5>1
      <4>3. ASSUME v \in ns PROVE \E l \in ls : v = l.v
        <5>1. PICK x \in e.list : v = Worth(x)
          BY <4>3
        <5>2. Literal(Worth(x), TRUE) \in ls
          OBVIOUS
        <5> QED BY <4>1, <5>1, <5>2
      <4> QED BY <4>2, <4>3
    <3>5. LeafTruth(InList(n, ls), v) =
            IF v = Null THEN "null" ELSE Unless(n, IF v \in ns THEN "true" ELSE "false")
      <4> HIDE DEF ls, ns
      <4>1. CASE n = TRUE
        BY <3>4, <4>1 DEF LeafTruth, LeafTrue, InList, Unless, Negation
      <4>2. CASE n = FALSE
        BY <3>4, <4>2 DEF LeafTruth, LeafTrue, InList, Unless, Negation
      <4> QED BY <4>1, <4>2
    <3>6. LeafTruth(InList(n, ls), v) = Unless(n, any)
      <4>1. ns # {}
        BY <2>7
      <4> HIDE DEF ls, ns
      <4>2. CASE v = Null
        <5>1. any = "null"
          BY <4>1, <4>2
        <5>2. Unless(n, "null") = "null"
          BY DEF Unless, Negation
        <5> QED BY <3>5, <4>2, <5>1, <5>2
      <4>3. CASE v # Null
        BY <3>5, <4>3
      <4> QED BY <4>2, <4>3
    <3>7. Truth(InList(n, ls), v) = LeafTruth(InList(n, ls), v)
      BY <2>6, FilterTruth
    <3> QED BY <3>3, <3>6, <3>7
  <2>8. c # Dropped => e.list # {}
    BY DEF ConvertLeaf, convertInList, InList
  <2>9. InList(n, ls) \in Nest(Leaf)
    BY <2>6, NestMembers
  <2> HIDE DEF g, ls
  <2> QED BY <2>2, <2>3, <2>4, <2>5, <2>7, <2>8, <2>9 DEF LeafCarried
<1> QED BY <1>7

\* Every leaf whose scalars are values of their types.
LEMMA SaneLeafCarried == ASSUME NEW e \in SaneLeaf PROVE LeafCarried(e)
<1>1. CASE e \in [kind : {"other"}, truth : Truths]
  BY <1>1 DEF LeafCarried, ClassifyLeaf
<1> QED BY <1>1, BinaryCarried, NullTestCarried, RangeCarried, MemberCarried DEF SaneLeaf

\* What the four translations do to a leaf.
LEMMA LeafTranslated ==
  /\ \A e \in EngineLeaf : /\ classify(e) = ClassifyLeaf(e)
                           /\ \A v : EngineTruth(e, v) = EngineLeafTruth(e, v)
  /\ \A w \in WireLeaf : decodeExpr(w) = DecodeLeaf(w)
  /\ \A g \in GoLeaf : convertExpr(g) = ConvertLeaf(g)
<1>1. EngineLeaf \subseteq EngineExpr /\ WireLeaf \subseteq Wire /\ GoLeaf \subseteq GoExpr
  BY NestMembers DEF EngineExpr, Wire, GoExpr, Nested
<1>2. ASSUME NEW e \in EngineLeaf
      PROVE  classify(e) = ClassifyLeaf(e) /\ \A v : EngineTruth(e, v) = EngineLeafTruth(e, v)
  <2>1. e.kind \notin {"and", "or", "not"} /\ e \in EngineExpr
    BY <1>1 DEF EngineLeaf
  <2>2. classify(e) = ClassifyLeaf(e)
    BY <2>1, ClassifyEquation DEF classify, ClassifyStep
  <2>3. ASSUME NEW v PROVE EngineTruth(e, v) = EngineLeafTruth(e, v)
    BY <2>1, EngineEquation DEF EngineTruth, EngineStep
  <2> QED BY <2>2, <2>3
<1>3. ASSUME NEW w \in WireLeaf PROVE decodeExpr(w) = DecodeLeaf(w)
  <2>1. w.kind \notin {"and", "or", "not"} /\ w \in Wire
    BY <1>1 DEF WireLeaf
  <2> QED BY <2>1, DecodeEquation DEF decodeExpr, DecodeStep
<1>4. ASSUME NEW g \in GoLeaf PROVE convertExpr(g) = ConvertLeaf(g)
  <2>1. g.kind \notin {"and", "or", "not"} /\ g \in GoExpr
    BY <1>1 DEF GoLeaf
  <2> QED BY <2>1, ConvertEquation DEF convertExpr, ConvertStep
<1> QED BY <1>2, <1>3, <1>4

\* How far an expression gets, and that its meaning is kept.
Carried(e, WS, GS, FS) ==
  classify(e) # NoWire =>
    LET w == classify(e)
        g == decodeExpr(w)
        c == convertExpr(g)
    IN /\ w \in WS /\ g \in GS
       /\ c # Dropped =>
            c \in FS /\ \A v \in Int64 \cup {Null} : Truth(c, v) = EngineTruth(e, v)

\* These leaves are expressions of the engine.
LEMMA SaneIsEngine == SaneLeaf \subseteq EngineLeaf
<1>1. SaneOperand \subseteq Operands
  BY DEF SaneOperand, SaneScalar, Operands
<1> QED BY <1>1 DEF SaneLeaf, EngineLeaf

\* A leaf, through the recursive translations.
LEMMA CarriedLeaf == ASSUME NEW e \in SaneLeaf PROVE Carried(e, WireLeaf, GoLeaf, Nest(Leaf))
<1> DEFINE w == ClassifyLeaf(e)
           g == DecodeLeaf(w)
           c == ConvertLeaf(g)
<1>1. classify(e) = w /\ \A v : EngineTruth(e, v) = EngineLeafTruth(e, v)
  BY SaneIsEngine, LeafTranslated
<1> SUFFICES ASSUME w # NoWire PROVE Carried(e, WireLeaf, GoLeaf, Nest(Leaf))
  BY <1>1 DEF Carried
<1>2. /\ w \in WireLeaf /\ g \in GoLeaf
      /\ c # Dropped =>
           /\ c \in Nest(Leaf)
           /\ \A v \in Int64 \cup {Null} : Truth(c, v) = EngineLeafTruth(e, v)
  BY SaneLeafCarried DEF LeafCarried
<1> HIDE DEF w
<1>3. decodeExpr(w) = g
  BY <1>2, LeafTranslated
<1> HIDE DEF g
<1>4. convertExpr(g) = c
  BY <1>2, LeafTranslated
<1> HIDE DEF c
<1> QED BY <1>1, <1>2, <1>3, <1>4 DEF Carried

\* A pair of expressions, joined.
LEMMA CarriedPair ==
  ASSUME NEW ES, NEW WS, NEW GS, NEW FS,
         Nest(ES) \subseteq EngineExpr, Nest(WS) \subseteq Wire,
         Nest(GS) \subseteq GoExpr, Nest(FS) \subseteq Filter,
         Undecodable \notin GS, \A e \in ES : Carried(e, WS, GS, FS),
         NEW e \in Nest(ES), NEW k \in {"and", "or"}, e.kind = k, e.left \in ES, e.right \in ES
  PROVE  Carried(e, Nest(WS), Nest(GS), Nest(FS))
<1> DEFINE wl == classify(e.left)
           wr == classify(e.right)
           w == [kind |-> k, left |-> wl, right |-> wr]
           gl == decodeExpr(wl)
           gr == decodeExpr(wr)
           g == IF k = "and" THEN And(gl, gr) ELSE Or(gl, gr)
           cl == convertExpr(gl)
           cr == convertExpr(gr)
           c == IF k = "and" THEN And(cl, cr) ELSE Or(cl, cr)
<1>1. classify(e) = Whole({wl, wr}, w)
  BY ClassifyEquation DEF classify, ClassifyStep
<1>2. CASE wl = NoWire \/ wr = NoWire
  <2>1. classify(e) = NoWire
    BY <1>1, <1>2 DEF Whole
  <2> QED BY <2>1 DEF Carried
<1>3. CASE wl # NoWire /\ wr # NoWire
  <2>1. classify(e) = w
    BY <1>1, <1>3 DEF Whole
  <2>2. /\ wl \in WS /\ gl \in GS
        /\ cl # Dropped =>
             cl \in FS /\ \A v \in Int64 \cup {Null} : Truth(cl, v) = EngineTruth(e.left, v)
    BY <1>3 DEF Carried
  <2>3. /\ wr \in WS /\ gr \in GS
        /\ cr # Dropped =>
             cr \in FS /\ \A v \in Int64 \cup {Null} : Truth(cr, v) = EngineTruth(e.right, v)
    BY <1>3 DEF Carried
  <2>4. w \in Nest(WS) /\ w \in Wire
    <3> HIDE DEF wl, wr
    <3> QED BY <2>2, <2>3 DEF Nest
  <2>5. decodeExpr(w) = g
    <3>1. w.kind = k /\ w.left = wl /\ w.right = wr
      OBVIOUS
    <3> HIDE DEF w, wl, wr
    <3> QED BY <2>2, <2>3, <2>4, <3>1, DecodeEquation DEF decodeExpr, DecodeStep, AllDecoded
  <2>6. g \in Nest(GS) /\ g \in GoExpr
    <3> HIDE DEF gl, gr
    <3> QED BY <2>2, <2>3, NestMembers
  <2>7. g.kind = k /\ g.left = gl /\ g.right = gr
    BY DEF And, Or
  <2>8. convertExpr(g) = IF Dropped \in {cl, cr} THEN Dropped ELSE c
    <3> HIDE DEF g, gl, gr
    <3> QED BY <2>6, <2>7, ConvertEquation DEF convertExpr, ConvertStep
  <2>9. ASSUME convertExpr(g) # Dropped
        PROVE  /\ convertExpr(g) \in Nest(FS)
               /\ \A v \in Int64 \cup {Null} : Truth(convertExpr(g), v) = EngineTruth(e, v)
    <3>1. cl # Dropped /\ cr # Dropped /\ convertExpr(g) = c
      BY <2>8, <2>9
    <3>2. c \in Nest(FS) /\ c \in Filter
      <4> HIDE DEF cl, cr
      <4> QED BY <2>2, <2>3, <3>1, NestMembers
    <3>3. ASSUME NEW v \in Int64 \cup {Null} PROVE Truth(c, v) = EngineTruth(e, v)
      <4>1. EngineTruth(e, v) =
              IF k = "and" THEN Both(EngineTruth(e.left, v), EngineTruth(e.right, v))
              ELSE Either(EngineTruth(e.left, v), EngineTruth(e.right, v))
        BY EngineEquation DEF EngineTruth, EngineStep
      <4>2. Truth(c, v) = IF k = "and" THEN Both(Truth(cl, v), Truth(cr, v))
                          ELSE Either(Truth(cl, v), Truth(cr, v))
        <5> HIDE DEF cl, cr
        <5> QED BY <3>2, FilterTruth
      <4> HIDE DEF c, cl, cr
      <4> QED BY <2>2, <2>3, <3>1, <4>1, <4>2
    <3> HIDE DEF c
    <3> QED BY <3>1, <3>2, <3>3
  <2> HIDE DEF w, g
  <2> QED BY <2>1, <2>4, <2>5, <2>6, <2>9 DEF Carried
<1> QED BY <1>2, <1>3

\* An expression, negated.
LEMMA CarriedNot ==
  ASSUME NEW ES, NEW WS, NEW GS, NEW FS,
         Nest(ES) \subseteq EngineExpr, Nest(WS) \subseteq Wire,
         Nest(GS) \subseteq GoExpr, Nest(FS) \subseteq Filter,
         Undecodable \notin GS, \A e \in ES : Carried(e, WS, GS, FS),
         NEW e \in Nest(ES), e.kind = "not", e.expr \in ES
  PROVE  Carried(e, Nest(WS), Nest(GS), Nest(FS))
<1> DEFINE wi == classify(e.expr)
           w == [kind |-> "not", expr |-> wi]
           gi == decodeExpr(wi)
           g == Not(gi)
           ci == convertExpr(gi)
           c == Not(ci)
<1>1. classify(e) = Whole({wi}, w)
  BY ClassifyEquation DEF classify, ClassifyStep
<1>2. CASE wi = NoWire
  <2>1. classify(e) = NoWire
    BY <1>1, <1>2 DEF Whole
  <2> QED BY <2>1 DEF Carried
<1>3. CASE wi # NoWire
  <2>1. classify(e) = w
    BY <1>1, <1>3 DEF Whole
  <2>2. /\ wi \in WS /\ gi \in GS
        /\ ci # Dropped =>
             ci \in FS /\ \A v \in Int64 \cup {Null} : Truth(ci, v) = EngineTruth(e.expr, v)
    BY <1>3 DEF Carried
  <2>3. w \in Nest(WS) /\ w \in Wire
    <3> HIDE DEF wi
    <3> QED BY <2>2 DEF Nest
  <2>4. decodeExpr(w) = g
    <3>1. w.kind = "not" /\ w.expr = wi
      OBVIOUS
    <3> HIDE DEF w, wi
    <3> QED BY <2>2, <2>3, <3>1, DecodeEquation DEF decodeExpr, DecodeStep, AllDecoded
  <2>5. g \in Nest(GS) /\ g \in GoExpr
    <3> HIDE DEF gi
    <3> QED BY <2>2, NestMembers
  <2>6. g.kind = "not" /\ g.expr = gi
    BY DEF Not
  <2>7. convertExpr(g) = IF ci = Dropped THEN Dropped ELSE c
    <3> HIDE DEF g, gi
    <3> QED BY <2>5, <2>6, ConvertEquation DEF convertExpr, ConvertStep
  <2>8. ASSUME convertExpr(g) # Dropped
        PROVE  /\ convertExpr(g) \in Nest(FS)
               /\ \A v \in Int64 \cup {Null} : Truth(convertExpr(g), v) = EngineTruth(e, v)
    <3>1. ci # Dropped /\ convertExpr(g) = c
      BY <2>7, <2>8
    <3>2. c \in Nest(FS) /\ c \in Filter
      <4> HIDE DEF ci
      <4> QED BY <2>2, <3>1, NestMembers
    <3>3. ASSUME NEW v \in Int64 \cup {Null} PROVE Truth(c, v) = EngineTruth(e, v)
      <4>1. EngineTruth(e, v) = Negation(EngineTruth(e.expr, v))
        BY EngineEquation DEF EngineTruth, EngineStep
      <4>2. Truth(c, v) = Negation(Truth(ci, v))
        <5> HIDE DEF ci
        <5> QED BY <3>2, FilterTruth
      <4> HIDE DEF c, ci
      <4> QED BY <2>2, <3>1, <4>1, <4>2
    <3> HIDE DEF c
    <3> QED BY <3>1, <3>2, <3>3
  <2> HIDE DEF w, g
  <2> QED BY <2>1, <2>3, <2>4, <2>5, <2>8 DEF Carried
<1> QED BY <1>2, <1>3

\* One more level of connectives.
LEMMA CarriedNest ==
  ASSUME NEW ES, NEW WS, NEW GS, NEW FS,
         Nest(ES) \subseteq EngineExpr, Nest(WS) \subseteq Wire,
         Nest(GS) \subseteq GoExpr, Nest(FS) \subseteq Filter,
         Undecodable \notin GS, \A e \in ES : Carried(e, WS, GS, FS),
         NEW e \in Nest(ES)
  PROVE  Carried(e, Nest(WS), Nest(GS), Nest(FS))
<1>1. CASE e \in ES
  <2>1. Carried(e, WS, GS, FS)
    BY <1>1
  <2>2. WS \subseteq Nest(WS) /\ GS \subseteq Nest(GS) /\ FS \subseteq Nest(FS)
    BY NestMembers
  <2> QED BY <2>1, <2>2 DEF Carried
<1>2. CASE e \notin ES
  <2>1. \/ e.kind \in {"and", "or"} /\ e.left \in ES /\ e.right \in ES
        \/ e.kind = "not" /\ e.expr \in ES
    BY <1>2, NestParts
  <2> QED BY <2>1, CarriedPair, CarriedNot
<1> QED BY <1>1, <1>2

\* Nothing that is decoded is a decoding error.
LEMMA GoExprDecoded == Undecodable \notin GoExpr
<1>1. Undecodable.kind = "undecodable"
  BY DEF Undecodable
<1>2. \A g \in GoLeaf : g.kind \in {"compare", "isnull", "between", "in"}
  BY DEF GoLeaf
<1>3. ASSUME NEW S PROVE \A g \in Nest(S) : g \in S \/ g.kind \in {"and", "or", "not"}
  BY NestParts
<1> QED BY <1>1, <1>2, <1>3 DEF GoExpr, Nested

\* More to nest, more nested.
LEMMA NestMonotone == ASSUME NEW S, NEW T, S \subseteq T PROVE Nest(S) \subseteq Nest(T)
  BY DEF Nest

\* The expressions the pushdown is proved about.
SaneExpr == Nested(SaneLeaf)

\* A filter that reaches iceberg-go means what its conjunct means to the engine
\* (pushdown.rs:118-210, expr.go:102-404, convert.go:16-317).
THEOREM PushdownKeepsMeaning ==
  ASSUME NEW e \in SaneExpr
  PROVE  Carried(e, Wire, GoExpr, Filter)
<1>1. /\ GoLeaf \subseteq Nest(GoLeaf) /\ Nest(GoLeaf) \subseteq GoExpr
      /\ Nest(WireLeaf) \subseteq Wire
      /\ Wire = Nest(Nest(WireLeaf)) /\ GoExpr = Nest(Nest(GoLeaf))
      /\ Filter = Nest(Nest(Nest(Leaf))) /\ Nest(Nest(Leaf)) \subseteq Filter
  BY NestMembers DEF Wire, GoExpr, Filter, Nested
<1>2. Nest(SaneLeaf) \subseteq Nest(EngineLeaf) /\ SaneExpr \subseteq EngineExpr
      /\ SaneExpr = Nest(Nest(SaneLeaf)) /\ Nest(EngineLeaf) \subseteq EngineExpr
  BY SaneIsEngine, NestMonotone, NestMembers DEF SaneExpr, EngineExpr, Nested
<1>3. Undecodable \notin GoLeaf /\ Undecodable \notin Nest(GoLeaf)
  BY <1>1, GoExprDecoded
<1>4. \A x \in Nest(SaneLeaf) : Carried(x, Nest(WireLeaf), Nest(GoLeaf), Nest(Nest(Leaf)))
  BY <1>1, <1>2, <1>3, CarriedLeaf, CarriedNest
<1> QED BY <1>1, <1>2, <1>3, <1>4, CarriedNest

\* The scalars the engine may send are values of their types, if the floats
\* are numbers.
LEMMA ScalarsSane ==
  ASSUME ~NonFiniteLiterals
  PROVE  Scalars \subseteq SaneOperand /\ SomeScalars \subseteq SaneOperand
<1>1. Half \in Nat /\ Half >= 2
  BY SkipAssumption, ScansAssumption DEF Parquet!ScanAssumption, Parquet!Values
<1>2. /\ {-Half, -1, 0, 1, MaxInt64} \subseteq Int64 /\ Int64 \subseteq Int
      /\ 0..(2 * Half - 1) \subseteq Int /\ 0 \in 0..(2 * Half - 1)
      /\ Half \in 0..(2 * Half - 1) /\ 1 \in Int
      /\ 0 \notin NonFinite /\ 1 \notin NonFinite
  BY <1>1 DEF Int64, MaxInt64, NonFinite, Infinity, NaN
<1>3. ASSUME NEW t \in ScalarTypes, NEW n \in Int \cup {Null},
             \/ t \in Types64 /\ n \in Int64
             \/ t = "uint64" /\ n \in 0..(2 * Half - 1)
             \/ t = "float64" /\ n \notin NonFinite
             \/ t = "decimal" \/ n = Null
      PROVE  Scalar(t, n) \in SaneOperand
  <2>1. /\ Scalar(t, n).type = t /\ Scalar(t, n).v = n
        /\ Scalar(t, n) \in [kind : {"scalar"}, type : ScalarTypes, v : Int \cup {Null}]
    BY <1>3 DEF Scalar
  <2> QED BY <1>3, <2>1 DEF SaneOperand, SaneScalar, Types64
<1>4. Types64 \subseteq ScalarTypes /\ {"uint64", "float64", "decimal"} \subseteq ScalarTypes
      /\ {"int32", "int64", "seconds"} \subseteq Types64
  BY DEF Types64, ScalarTypes
<1>5. \A t \in Types64, n \in Int64 : Scalar(t, n) \in SaneOperand
  BY <1>2, <1>3, <1>4
<1>6. \A n \in 0..(2 * Half - 1) : Scalar("uint64", n) \in SaneOperand
  BY <1>2, <1>3, <1>4
<1>7. \A n \in {0, 1} : Scalar("float64", n) \in SaneOperand
  BY <1>2, <1>3, <1>4
<1>8. SomeScalars \subseteq SaneOperand
  <2>1. Scalar("int64", Null) \in SaneOperand /\ Scalar("decimal", 1) \in SaneOperand
    BY <1>2, <1>3, <1>4
  <2> QED BY <1>2, <1>4, <1>5, <1>6, <2>1 DEF SomeScalars
<1>9. /\ {Scalar(t, n) : t \in Types64, n \in {-Half, -1, 0, 1, MaxInt64}}
           \subseteq SaneOperand
      /\ {Scalar("uint64", n) : n \in 0..(2 * Half - 1)} \subseteq SaneOperand
      /\ {Scalar("seconds", n) : n \in Int64} \subseteq SaneOperand
  <2>1. \A n \in {-Half, -1, 0, 1, MaxInt64} : n \in Int64
    BY <1>2
  <2>2. "seconds" \in Types64
    BY DEF Types64
  <2>3. {Scalar(t, n) : t \in Types64, n \in {-Half, -1, 0, 1, MaxInt64}} \subseteq SaneOperand
    BY <1>5, <2>1
  <2> QED BY <1>5, <1>6, <2>2, <2>3
<1>10. {Scalar("float64", n) : n \in {0, 1} \cup (IF NonFiniteLiterals THEN NonFinite ELSE {})}
         \subseteq SaneOperand
  BY <1>7
<1> QED BY <1>8, <1>9, <1>10 DEF Scalars

\* So are the operands of every conjunct of a WHERE clause.
LEMMA WheresSane ==
  ASSUME ~NonFiniteLiterals, NEW w \in Wheres, NEW i \in DOMAIN w
  PROVE  w[i] \in SaneExpr
<1>1. Scalars \subseteq SaneOperand /\ SomeScalars \subseteq SaneOperand
  BY ScalarsSane
<1>2. Col \in SaneOperand /\ Computed \in SaneOperand
  BY DEF SaneOperand
<1>3. \A op \in EngineOps, l \in SaneOperand, r \in SaneOperand : Binary(l, op, r) \in SaneLeaf
  BY DEF Binary, SaneLeaf
<1>4. \A x \in SaneOperand, n \in BOOLEAN : IsNullOf(x, n) \in SaneLeaf
  BY DEF IsNullOf, SaneLeaf
<1>5. \A x \in SaneOperand, n \in BOOLEAN, a \in SaneOperand, b \in SaneOperand :
        BetweenOf(x, n, a, b) \in SaneLeaf
  BY DEF BetweenOf, SaneLeaf
<1>6. \A x \in SaneOperand, n \in BOOLEAN, xs \in SUBSET SaneOperand :
        InListOf(x, n, xs) \in SaneLeaf
  BY DEF InListOf, SaneLeaf
<1>7. \A t \in Truths : Other(t) \in SaneLeaf
  BY DEF Other, SaneLeaf
<1>8. /\ {Scalar("int64", 1), Scalar("uint64", Half), Scalar("seconds", -1)}
           \subseteq SomeScalars
      /\ SomeScalars \subseteq Scalars
  BY DEF SomeScalars, Scalars
<1>9. {"=", "<", ">"} \subseteq EngineOps /\ Truths = {"true", "false", "null"}
  BY DEF EngineOps, Truths
<1>10. Leaves \subseteq SaneLeaf
  <2>1. {Binary(Col, "=", Col), Binary(Computed, "<", Scalar("int64", 1))} \subseteq SaneLeaf
    BY <1>1, <1>2, <1>3, <1>8, <1>9
  <2>2. {BetweenOf(Col, n, a, b) : n \in BOOLEAN, a, b \in SomeScalars} \subseteq SaneLeaf
    BY <1>1, <1>2, <1>5
  <2>3. {InListOf(Col, n, ss) : n \in BOOLEAN,
           ss \in {s \in SUBSET SomeScalars : Cardinality(s) <= 2}} \subseteq SaneLeaf
    BY <1>1, <1>2, <1>6
  <2>4. {IsNullOf(x, n) : x \in {Col, Computed}, n \in BOOLEAN} \subseteq SaneLeaf
    BY <1>2, <1>4
  <2>5. /\ {Binary(Col, op, s) : op \in EngineOps, s \in Scalars} \subseteq SaneLeaf
        /\ {Binary(s, op, Col) : op \in EngineOps, s \in Scalars} \subseteq SaneLeaf
    BY <1>1, <1>2, <1>3
  <2> QED BY <2>1, <2>2, <2>3, <2>4, <2>5 DEF Leaves
<1>11. Core \subseteq SaneLeaf
  BY <1>1, <1>2, <1>3, <1>4, <1>5, <1>7, <1>8, <1>9 DEF Core
<1>12. Compounds \subseteq Nest(SaneLeaf)
  BY <1>11, NestMembers DEF Compounds
<1>13. /\ SaneLeaf \subseteq Nest(SaneLeaf) /\ Nest(SaneLeaf) \subseteq SaneExpr
       /\ \A e \in Nest(SaneLeaf) : Not(e) \in SaneExpr
  BY NestMembers DEF SaneExpr, Nested
<1>14. CASE \E e \in Leaves \cup {Not(x) : x \in Leaves} \cup Compounds
                       \cup {Not(x) : x \in Compounds} : w = <<e>>
  <2>1. PICK e \in Leaves \cup {Not(x) : x \in Leaves} \cup Compounds
                     \cup {Not(x) : x \in Compounds} : w = <<e>>
    BY <1>14
  <2>2. e \in SaneExpr
    BY <1>10, <1>12, <1>13
  <2> QED BY <2>1, <2>2
<1>15. CASE \E l, r \in Core : w = <<l, r>>
  <2>1. PICK l \in Core, r \in Core : w = <<l, r>>
    BY <1>15
  <2>2. i = 1 \/ i = 2
    BY <2>1
  <2> QED BY <1>11, <1>13, <2>1, <2>2
<1> QED BY <1>14, <1>15 DEF Wheres

\* Every filter is the conjunct at its index, as the provider decodes it, and
\* what is left of it means the same.
DropInv ==
  /\ pc # "undecodable"
  /\ pc = "idle" => rowFilter = <<>>
  /\ \A i \in DOMAIN where : where[i] \in SaneExpr
  /\ \A i \in DOMAIN opts.filters :
       /\ i \in DOMAIN where /\ classify(where[i]) # NoWire
       /\ opts.filters[i] = decodeExpr(classify(where[i]))
  /\ \A i \in DOMAIN rowFilter :
       /\ i \in DOMAIN where
       /\ \A v \in Int64 \cup {Null} : Truth(rowFilter[i], v) = EngineTruth(where[i], v)

\* Nothing is asked for at the start.
LEMMA DropInvInit == ScanInit => DropInv
<1> SUFFICES ASSUME ScanInit PROVE DropInv
  OBVIOUS
<1>1. pc = "idle" /\ where = <<>> /\ rowFilter = <<>> /\ opts.filters = <<>>
  BY DEF ScanInit, NoRequest, NoOptions
<1>2. DOMAIN where = {} /\ DOMAIN rowFilter = {} /\ DOMAIN opts.filters = {}
  BY <1>1
<1> QED BY <1>1, <1>2 DEF DropInv

\* A request that is forgotten.
LEMMA Forgotten ==
  ASSUME Forget, pc' \notin {"idle", "undecodable"} PROVE DropInv'
<1>1. where' = <<>> /\ rowFilter' = <<>> /\ opts'.filters = <<>>
  BY DEF Forget, NoOptions
<1>2. DOMAIN where' = {} /\ DOMAIN rowFilter' = {} /\ DOMAIN opts'.filters = {}
  BY <1>1
<1> QED BY <1>2 DEF DropInv

\* The request as it is written and decoded (pushdown.rs:118-210,
\* expr.go:102-404).
LEMMA CallKept ==
  ASSUME DropInv, NEW w, NEW p, Call(w, p), \A i \in DOMAIN w : w[i] \in SaneExpr
  PROVE  DropInv'
<1> DEFINE fs == decodeFilters(filters_to_json(w))
<1>1. /\ pc = "idle" /\ where' = w /\ opts'.filters = fs /\ rowFilter' = rowFilter
      /\ pc' = IF Undecodable \in ToSet(fs) THEN "undecodable" ELSE "called"
  BY DEF Call
<1>2. /\ DOMAIN fs = {i \in DOMAIN w : classify(w[i]) # NoWire}
      /\ \A i \in DOMAIN fs : fs[i] = decodeExpr(classify(w[i]))
  BY DEF decodeFilters, filters_to_json
<1> HIDE DEF fs
<1>3. \A i \in DOMAIN fs : fs[i] # Undecodable
  <2> SUFFICES ASSUME NEW i \in DOMAIN fs PROVE fs[i] # Undecodable
    OBVIOUS
  <2>1. w[i] \in SaneExpr /\ classify(w[i]) # NoWire /\ fs[i] = decodeExpr(classify(w[i]))
    BY <1>2
  <2>2. decodeExpr(classify(w[i])) \in GoExpr
    BY <2>1, PushdownKeepsMeaning DEF Carried
  <2> QED BY <2>1, <2>2, GoExprDecoded
<1>4. pc' = "called"
  BY <1>1, <1>3 DEF ToSet
<1>5. rowFilter' = <<>> /\ DOMAIN rowFilter' = {}
  BY <1>1 DEF DropInv
<1> QED BY <1>1, <1>2, <1>4, <1>5 DEF DropInv

\* The row filter as it is converted (convert.go:16-101).
LEMMA PlanKept ==
  ASSUME DropInv, NEW bound, Plan(bound)
  PROVE  DropInv'
<1>1. /\ where' = where /\ opts' = opts /\ pc' = "planned"
      /\ rowFilter' = convertFilters(opts.filters, bound)
  BY DEF Plan
<1>2. ASSUME NEW i \in DOMAIN rowFilter'
      PROVE  /\ i \in DOMAIN where
             /\ \A v \in Int64 \cup {Null} : Truth(rowFilter'[i], v) = EngineTruth(where[i], v)
  <2>1. /\ i \in DOMAIN opts.filters /\ convertExpr(opts.filters[i]) # Dropped
        /\ rowFilter'[i] = convertExpr(opts.filters[i])
    BY <1>1 DEF convertFilters
  <2>2. /\ i \in DOMAIN where /\ classify(where[i]) # NoWire /\ where[i] \in SaneExpr
        /\ opts.filters[i] = decodeExpr(classify(where[i]))
    BY <2>1 DEF DropInv
  <2> QED BY <2>1, <2>2, PushdownKeepsMeaning DEF Carried
<1> QED BY <1>1, <1>2 DEF DropInv

\* Every step of a scan keeps it.
LEMMA DropInvStep ==
  ASSUME ~NonFiniteLiterals, DropInv, [ScanNext]_<<scanVars, vars>>
  PROVE  DropInv'
<1>1. ASSUME UNCHANGED <<where, opts, rowFilter>>,
             pc' = pc \/ pc' \notin {"idle", "undecodable"}
      PROVE  DropInv'
  BY <1>1 DEF DropInv
<1>2. ASSUME NEW w \in Wheres, Call(w, AllFields) PROVE DropInv'
  BY <1>2, CallKept, WheresSane
<1>3. ASSUME NEW p \in Projections, Call(<<>>, p) PROVE DropInv'
  <2>1. \A i \in DOMAIN <<>> : <<>>[i] \in SaneExpr
    OBVIOUS
  <2> QED BY <1>3, <2>1, CallKept
<1>4. ASSUME NEW fs, Load(fs) PROVE DropInv'
  BY <1>1, <1>4 DEF Load
<1>5. ASSUME NEW bound, Plan(bound) PROVE DropInv'
  BY <1>5, PlanKept
<1>6. CASE LoadFails \/ PlanFails
  BY <1>1, <1>6 DEF LoadFails, PlanFails, requestVars
<1>7. CASE OpenStream
  <2>1. Forget /\ pc' \notin {"idle", "undecodable"}
    BY <1>7 DEF OpenStream
  <2> QED BY <2>1, Forgotten
<1>8. CASE OpenFails
  <2>1. Forget /\ pc' \notin {"idle", "undecodable"}
    BY <1>8 DEF OpenFails
  <2> QED BY <2>1, Forgotten
<1>9. CASE UNCHANGED scanVars
  BY <1>1, <1>9 DEF scanVars, requestVars
<1>10. CASE Reading(Next)
  BY <1>9, <1>10 DEF Reading
<1>11. CASE Dropping(Pulls \/ Cancelled \/ Release \/ Drain \/ Drained \/ AfterDrop)
  BY <1>9, <1>11 DEF Dropping
<1>12. CASE Stopped
  BY <1>9, <1>12 DEF Stopped
<1>13. CASE UNCHANGED <<scanVars, vars>>
  BY <1>9, <1>13
<1> QED BY <1>2, <1>3, <1>4, <1>5, <1>6, <1>7, <1>8, <1>10, <1>11, <1>12, <1>13 DEF ScanNext

\* A row that satisfies the WHERE clause satisfies everything iceberg-go is
\* given to filter by, and every document decodes, as long as the float
\* literals are numbers: for every width and timestamp unit (pushdown.rs:118-210,
\* expr.go:102-404, convert.go:16-317).
THEOREM IcebergDropsNoMatch ==
  ASSUME ~NonFiniteLiterals
  PROVE  ScansSpec => []NoMatchDropped
<1>1. ScansInit => DropInv
  BY DropInvInit DEF ScansInit
<1>2. DropInv /\ [ScansNext]_<<provider, icebergVars, parquetVars, textVars>> => DropInv'
  <2>1. [ScansNext]_<<provider, icebergVars, parquetVars, textVars>>
          => [ScanNext]_<<scanVars, vars>>
    BY DEF ScansNext, icebergVars
  <2> QED BY <2>1, DropInvStep
<1>3. DropInv => NoMatchDropped
  BY DEF DropInv, NoMatchDropped
<1> QED BY <1>1, <1>2, <1>3, PTL DEF ScansSpec
-----------------------------------------------------------------------------
(* The projection of an Iceberg scan.  The place of a field among the      *)
(* selected ones is the number of those before it.                         *)

\* The fields of S before f.
Below(S, f) == {g \in S : g < f}

\* Sets of fields are finite, and their places in the schema are as many.
LEMMA Places ==
  ASSUME NEW S, S \subseteq Field
  PROVE  /\ IsFiniteSet(S) /\ Cardinality(S) \in Nat
         /\ Cardinality({i \in 1..NumFields : i - 1 \in S}) = Cardinality(S)
<1>1. NumFields \in Nat /\ S \subseteq 0..(NumFields - 1)
  BY IcebergAssumption DEF Field
<1>2. IsFiniteSet(0..(NumFields - 1))
  BY <1>1, FS_Interval
<1>3. IsFiniteSet(S)
  BY <1>1, <1>2, FS_Subset
<1> DEFINE T == {i \in 1..NumFields : i - 1 \in S}
           h == [g \in S |-> g + 1]
<1>4. h \in Bijection(S, T)
  <2>1. \A g \in S : g \in Int /\ g + 1 \in T
    BY <1>1
  <2>2. h \in [S -> T]
    BY <2>1
  <2>3. \A a, b \in S : h[a] = h[b] => a = b
    BY <2>1
  <2>4. \A t \in T : t - 1 \in S /\ h[t - 1] = t
    BY <1>1
  <2>5. h \in Injection(S, T)
    BY <2>2, <2>3 DEF Injection, IsInjective
  <2>6. h \in Surjection(S, T)
    BY <2>2, <2>4 DEF Surjection
  <2> QED BY <2>5, <2>6 DEF Bijection
<1>5. ExistsBijection(S, T)
  BY <1>4 DEF ExistsBijection
<1> HIDE DEF T
<1>6. Cardinality(T) = Cardinality(S)
  BY <1>3, <1>5, FS_Bijection
<1> QED BY <1>3, <1>6, FS_CardinalityType DEF T

\* Later fields have more before them, and none has all.
LEMMA BelowGrows ==
  ASSUME NEW S, S \subseteq Field, NEW f \in S
  PROVE  /\ Cardinality(Below(S, f)) \in Nat
         /\ Cardinality(Below(S, f)) < Cardinality(S)
         /\ \A h \in S : f < h => Cardinality(Below(S, f)) < Cardinality(Below(S, h))
<1>1. S \subseteq Int
  BY IcebergAssumption DEF Field
<1>2. ASSUME NEW T, T \subseteq S PROVE IsFiniteSet(T) /\ Cardinality(T) \in Nat
  BY <1>2, Places
<1>3. ASSUME NEW T, NEW U, T \subseteq S, U \subseteq T, T # U
      PROVE  Cardinality(U) < Cardinality(T)
  <2>1. IsFiniteSet(T) /\ Cardinality(T) \in Nat /\ Cardinality(U) \in Nat
    BY <1>2, <1>3
  <2>2. Cardinality(U) <= Cardinality(T) /\ (Cardinality(T) = Cardinality(U) => T = U)
    BY <1>3, <2>1, FS_Subset
  <2> QED BY <1>3, <2>1, <2>2
<1>4. Below(S, f) \subseteq S /\ Below(S, f) # S
  BY <1>1 DEF Below
<1>5. ASSUME NEW h \in S, f < h
      PROVE  /\ Below(S, h) \subseteq S /\ Below(S, f) \subseteq Below(S, h)
             /\ Below(S, h) # Below(S, f)
  <2>1. \A g \in S : g \in Int
    BY <1>1
  <2>2. f \in Below(S, h) /\ f \notin Below(S, f)
    BY <1>5, <2>1 DEF Below
  <2>3. \A g \in Below(S, f) : g \in S /\ g < h
    BY <1>5, <2>1 DEF Below
  <2> QED BY <2>2, <2>3 DEF Below
<1> QED BY <1>2, <1>3, <1>4, <1>5

\* Of the registered schema, the selected fields come at their places.
LEMMA SelectedAt ==
  ASSUME NEW S, S \subseteq Field
  PROVE  /\ DOMAIN Selected(Registered, S) = 1..Cardinality(S)
         /\ \A f \in S : Selected(Registered, S)[Cardinality(Below(S, f)) + 1] = f
<1> DEFINE at == {i \in DOMAIN Registered : Registered[i] \in S}
           before(i) == Cardinality({j \in at : j < i})
           out == [k \in 1..Cardinality(at) |->
                     Registered[CHOOSE i \in at : before(i) = k - 1]]
<1>1. NumFields \in Nat /\ S \subseteq 0..(NumFields - 1)
  BY IcebergAssumption DEF Field
<1>2. /\ DOMAIN Registered = 1..NumFields
      /\ \A i \in 1..NumFields : Registered[i] = i - 1
  BY DEF Registered
<1>3. at = {i \in 1..NumFields : i - 1 \in S}
  BY <1>2
<1>4. Cardinality(at) = Cardinality(S) /\ Cardinality(S) \in Nat
  BY <1>3, Places
<1>5. out = Selected(Registered, S)
  BY DEF Selected
<1>6. ASSUME NEW f \in S PROVE f + 1 \in at /\ before(f + 1) = Cardinality(Below(S, f))
  <2>1. f + 1 \in at
    BY <1>1, <1>3
  <2>2. {j \in at : j < f + 1} = {i \in 1..NumFields : i - 1 \in Below(S, f)}
    BY <1>1, <1>3 DEF Below
  <2>3. Below(S, f) \subseteq Field
    BY DEF Below
  <2>4. Cardinality({i \in 1..NumFields : i - 1 \in Below(S, f)}) = Cardinality(Below(S, f))
    BY <2>3, Places
  <2> QED BY <2>1, <2>2, <2>4
<1>7. \A i \in at : i - 1 \in S /\ i \in Int
  BY <1>1, <1>3
<1> HIDE DEF at
<1>8. ASSUME NEW f \in S
      PROVE  out[Cardinality(Below(S, f)) + 1] = f
  <2> DEFINE n == Cardinality(Below(S, f))
  <2>1. n \in Nat /\ n + 1 \in 1..Cardinality(at) /\ n + 1 - 1 = n
    BY <1>4, BelowGrows
  <2>2. f \in Int /\ f + 1 \in at /\ before(f + 1) = n
    BY <1>1, <1>6
  <2>3. ASSUME NEW i \in at, before(i) = n PROVE i = f + 1
    <3>1. i - 1 \in S /\ i \in Int /\ i - 1 + 1 = i
      BY <1>7
    <3>2. before(i) = Cardinality(Below(S, i - 1))
      BY <1>6, <3>1
    <3>3. \A g \in S, k \in S : g < k => Cardinality(Below(S, g)) < Cardinality(Below(S, k))
      BY BelowGrows
    <3>4. Cardinality(Below(S, i - 1)) = Cardinality(Below(S, f))
      BY <2>3, <3>2
    <3>5. ~(i - 1 < f) /\ ~(f < i - 1)
      BY <2>1, <3>1, <3>3, <3>4
    <3> QED BY <2>2, <3>1, <3>5
  <2> HIDE DEF before, n
  <2>4. (CHOOSE i \in at : before(i) = n) = f + 1
    BY <2>2, <2>3
  <2>5. out[n + 1] = Registered[CHOOSE i \in at : before(i) = n]
    BY <2>1
  <2>6. Registered[f + 1] = f
    BY <1>1, <1>2
  <2> QED BY <2>4, <2>5, <2>6 DEF n
<1>9. DOMAIN out = 1..Cardinality(S)
  BY <1>4
<1> HIDE DEF out
<1> QED BY <1>5, <1>8, <1>9

\* The plan is the one made for the request.
PlanInv ==
  /\ opts.projection = AllFields \/ \E s \in Seq(Int) : opts.projection = Fields(s)
  /\ pc = "planned" =>
       /\ InRange(opts.projection)
       /\ plan = IF opts.projection.all THEN NoPlan ELSE projectionPlan(opts.projection.seq)

\* A table that has not changed yields what was asked for (pushdown.go:43-112).
LEMMA UnchangedDelivers ==
  ASSUME PlanInv, pc = "planned", fields = Registered
  PROVE  Delivered = Expected
<1>1. CASE opts.projection.all
  <2>1. plan.permute = FALSE
    BY <1>1 DEF PlanInv, NoPlan
  <2> QED BY <1>1, <2>1 DEF Delivered, Expected
<1>2. CASE ~opts.projection.all
  <2>1. PICK p \in Seq(Int) : opts.projection = Fields(p)
    BY <1>2 DEF PlanInv, AllFields
  <2>2. opts.projection.seq = p /\ Expected = p
    BY <1>2, <2>1 DEF Fields, Expected
  <2>3. DOMAIN p = 1..Len(p) /\ Len(p) \in Nat /\ p = [i \in DOMAIN p |-> p[i]]
    OBVIOUS
  <2>4. \A i \in DOMAIN p : p[i] \in Field
    BY <1>2, <2>2 DEF PlanInv, InRange
  <2> DEFINE S == ToSet(p)
             out == Selected(Registered, plan.select)
             pos == [i \in DOMAIN p |-> PosInOutput(p, p[i])]
             same == Len(p) = Cardinality(S) /\ \A i \in DOMAIN p : pos[i] = i - 1
  <2>5. S \subseteq Field /\ \A i \in DOMAIN p : p[i] \in S
    BY <2>4 DEF ToSet
  <2>6. plan = projectionPlan(p)
    BY <1>2, <2>2 DEF PlanInv
  <2>7. /\ plan.select = IF p = <<>> THEN {0} ELSE S
        /\ plan.permute <=> (p = <<>> \/ ~same)
        /\ plan.perm = IF same THEN <<>> ELSE pos
    BY <2>6 DEF projectionPlan
  <2>8. Delivered = IF plan.permute THEN [i \in DOMAIN plan.perm |-> out[plan.perm[i] + 1]]
                    ELSE out
    BY <1>2 DEF Delivered
  <2> HIDE DEF same, S, out
  <2>9. CASE p = <<>>
    <3>1. DOMAIN p = {} /\ DOMAIN plan.perm = {}
      BY <2>3, <2>7, <2>9
    <3>2. Delivered = [i \in {} |-> out[plan.perm[i] + 1]]
      BY <2>7, <2>8, <2>9, <3>1
    <3>3. p = [i \in {} |-> p[i]]
      BY <2>3, <3>1
    <3> QED BY <2>2, <3>2, <3>3
  <2>10. CASE p # <<>>
    <3>1. out = Selected(Registered, S) /\ DOMAIN out = 1..Cardinality(S)
      BY <2>5, <2>7, <2>10, SelectedAt DEF out
    <3>2. ASSUME NEW i \in DOMAIN p PROVE out[pos[i] + 1] = p[i]
      <4>1. pos[i] = Cardinality(Below(S, p[i]))
        BY DEF PosInOutput, Below, S
      <4> QED BY <2>5, <3>1, <4>1, SelectedAt
    <3>3. CASE same
      <4>1. Delivered = out
        BY <2>7, <2>8, <2>10, <3>3
      <4>2. DOMAIN out = DOMAIN p
        BY <2>3, <3>1, <3>3 DEF same
      <4>3. \A i \in DOMAIN p : out[i] = p[i]
        BY <2>3, <3>2, <3>3 DEF same
      <4>4. out = [i \in DOMAIN out |-> out[i]]
        BY <3>1 DEF Selected
      <4> HIDE DEF pos
      <4> QED BY <2>2, <2>3, <4>1, <4>2, <4>3, <4>4
    <3>4. CASE ~same
      <4>1. Delivered = [i \in DOMAIN p |-> out[pos[i] + 1]]
        BY <2>7, <2>8, <3>4
      <4> HIDE DEF pos
      <4> QED BY <2>2, <2>3, <3>2, <4>1
    <3> QED BY <3>3, <3>4
  <2> QED BY <2>9, <2>10
<1> QED BY <1>1, <1>2

\* Nothing is planned at the start.
LEMMA PlanInvInit == ScanInit => PlanInv
  BY DEF ScanInit, NoRequest, NoOptions, PlanInv

\* Every step of a scan keeps it.
LEMMA PlanInvStep ==
  ASSUME PlanInv, [ScanNext]_<<scanVars, vars>>
  PROVE  PlanInv'
<1>1. ASSUME opts' = opts, (pc' = pc /\ plan' = plan) \/ pc' # "planned" PROVE PlanInv'
  BY <1>1 DEF PlanInv, InRange
<1>2. ASSUME NEW w, NEW p \in Projections, Call(w, p) PROVE PlanInv'
  <2>1. opts'.projection = p /\ pc' # "planned"
    BY <1>2 DEF Call
  <2>2. p = AllFields \/ \E s \in Seq(Int) : p = Fields(s)
    <3>1. \A s \in BoundedSeq(Field \cup {NumFields}, MaxProjection) : s \in Seq(Int)
      BY IcebergAssumption DEF BoundedSeq, SeqOf, Field
    <3> QED BY <3>1 DEF Projections
  <2> QED BY <2>1, <2>2 DEF PlanInv
<1>3. AllFields \in Projections
  BY DEF Projections
<1>4. ASSUME NEW fs, Load(fs) PROVE PlanInv'
  BY <1>1, <1>4 DEF Load
<1>5. ASSUME NEW bound, Plan(bound) PROVE PlanInv'
  BY <1>5 DEF Plan, PlanInv, InRange
<1>6. CASE LoadFails \/ PlanFails
  BY <1>1, <1>6 DEF LoadFails, PlanFails, requestVars
<1>7. CASE OpenStream \/ OpenFails
  <2>1. opts'.projection = AllFields /\ pc' # "planned"
    BY <1>7 DEF OpenStream, OpenFails, Forget, NoOptions
  <2> QED BY <2>1 DEF PlanInv
<1>8. CASE UNCHANGED scanVars
  BY <1>1, <1>8 DEF scanVars, requestVars
<1>9. CASE Reading(Next)
  BY <1>8, <1>9 DEF Reading
<1>10. CASE Dropping(Pulls \/ Cancelled \/ Release \/ Drain \/ Drained \/ AfterDrop)
  BY <1>8, <1>10 DEF Dropping
<1>11. CASE Stopped \/ UNCHANGED <<scanVars, vars>>
  BY <1>8, <1>11 DEF Stopped
<1> QED BY <1>2, <1>3, <1>4, <1>5, <1>6, <1>7, <1>9, <1>10, <1>11 DEF ScanNext

\* What a step may do to the scan of a planned table.
LEMMA OpensExactly ==
  ASSUME PlanInv, [ScanNext]_<<scanVars, vars>>, pc = "planned"
  PROVE  /\ pc' = "reading" => Delivered = Expected
         /\ pc' = "rejected" => fields # Registered
<1>1. CASE OpenStream
  BY <1>1, UnchangedDelivers DEF OpenStream
<1>2. CASE ~OpenStream
  BY <1>2 DEF ScanNext, Call, Load, Plan, LoadFails, PlanFails, OpenFails, Reading, Dropping,
              Stopped, scanVars
<1> QED BY <1>1, <1>2

\* The engine reads a stream only if it has exactly the fields that were asked
\* for, in that order, with repetitions, and turns it down only if the table has
\* changed, for tables and projections of any size (pushdown.go:43-112,
\* table.rs:396-446).
THEOREM ProjectionIsExact == ScansSpec => ProjectionExact
<1>1. ScansInit => PlanInv
  BY PlanInvInit DEF ScansInit
<1>2. [ScansNext]_<<provider, icebergVars, parquetVars, textVars>>
        => [ScanNext]_<<scanVars, vars>>
  BY DEF ScansNext, icebergVars
<1>3. PlanInv /\ [ScansNext]_<<provider, icebergVars, parquetVars, textVars>> => PlanInv'
  BY <1>2, PlanInvStep
<1>4. PlanInv /\ [ScansNext]_<<provider, icebergVars, parquetVars, textVars>>
        => [/\ pc = "planned" /\ pc' = "reading" => Delivered = Expected
            /\ pc = "planned" /\ pc' = "rejected" => fields # Registered]_pc
  BY <1>2, OpensExactly
<1> QED BY <1>1, <1>3, <1>4, PTL DEF ScansSpec, ProjectionExact
=============================================================================
