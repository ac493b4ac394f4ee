------------------------ MODULE ParquetInsertProofs ------------------------
(***************************************************************************)
(* ParquetInsert.tla for any set of INSERT statements and any number of    *)
(* batches.  ParquetInv is inductive: an insert's new object is related to *)
(* the table as it stands, which only the holder of the mutex replaces.    *)
(***************************************************************************)
EXTENDS ParquetInsert, TLAPS

-----------------------------------------------------------------------------
(* Facts about sequences *)

\* Moving the head of one sequence to the end of another keeps the
\* concatenation: CopyExisting and the existing rows.
LEMMA MoveHead ==
  ASSUME NEW S, NEW a \in Seq(S), NEW b \in Seq(S), b # <<>>
  PROVE  Append(a, Head(b)) \o Tail(b) = a \o b
  OBVIOUS

\* Writing the next batch extends the written prefix of the input by one.
LEMMA ExtendPrefix ==
  ASSUME NEW S, NEW a \in Seq(S), NEW t \in Seq(S), NEW n \in Nat, n < Len(t)
  PROVE  Append(a \o SubSeq(t, 1, n), t[n + 1]) = a \o SubSeq(t, 1, n + 1)
  OBVIOUS

\* A batch that arrives at the end leaves every prefix as it was.
LEMMA PrefixOfAppend ==
  ASSUME NEW S, NEW t \in Seq(S), NEW x \in S, NEW n \in Nat, n <= Len(t)
  PROVE  SubSeq(Append(t, x), 1, n) = SubSeq(t, 1, n)
  OBVIOUS

-----------------------------------------------------------------------------
(* The inductive invariant *)

\* A table nobody has inserted into satisfies the invariant.
LEMMA ParquetInvInit == ASSUME InsertAssumption, Init PROVE ParquetInv
<1>1. TypeOK
  <2>1. <<NoInsert, 0>> \in Batch
    BY DEF InsertAssumption, Batch
  <2> QED BY <2>1 DEF Init, TypeOK, Ops
<1>2. MutexInv
  BY DEF Init, MutexInv, Critical, InsertAssumption
<1>3. RewriteInv
  BY DEF Init, RewriteInv, RewriteOf
<1> QED BY <1>1, <1>2, <1>3 DEF ParquetInv, Init

\* A step that leaves an insert's own state alone, and the table too unless
\* that insert is outside the critical section, keeps its part.
LEMMA OthersKeep ==
  ASSUME NEW r \in Inserts, RewriteOf(r),
         pc'[r] = pc[r], op'[r] = op[r], input'[r] = input[r], left'[r] = left[r],
         taken'[r] = taken[r], existing'[r] = existing[r], out'[r] = out[r],
         count'[r] = count[r],
         pc[r] \in Critical => table' = table
  PROVE  RewriteOf(r)'
  BY DEF RewriteOf, Critical

\* rows.Next moves one batch from what the stream still has to what the insert
\* has taken.
LEMMA DeliversMoves ==
  ASSUME TypeOK, NEW s \in Inserts, Delivers(s)
  PROVE  /\ Head(left[s]) \in Batch
         /\ taken'[s] = Append(taken[s], Head(left[s]))
         /\ left' \in [Inserts -> Seq(Batch)]
         /\ taken' \in [Inserts -> Seq(Batch)]
<1>1. Head(left[s]) \in Batch /\ Tail(left[s]) \in Seq(Batch)
  BY DEF TypeOK, Delivers
<1> QED BY <1>1 DEF TypeOK, Delivers

\* What TypeOK says of the sequences of one insert.
LEMMA SeqTypes ==
  ASSUME TypeOK, NEW s \in Inserts
  PROVE  /\ table \in Seq(Batch) /\ existing[s] \in Seq(Batch)
         /\ out[s] \in Seq(Batch) /\ taken[s] \in Seq(Batch)
         /\ left[s] \in Seq(Batch) /\ count[s] \in Nat
  BY DEF TypeOK

\* Opening the input, and every step of InsertInto, keeps the invariant.
LEMMA ParquetInvStep ==
  ASSUME InsertAssumption, ParquetInv, [Next]_vars PROVE ParquetInv'
<1>0. TypeOK /\ MutexInv /\ RewriteInv /\ table = serial
  BY DEF ParquetInv
<1>1. ASSUME NEW s \in Inserts, NEW o \in Ops, Start(s, o) PROVE ParquetInv'
  <2>1. TypeOK'
    BY <1>0, <1>1, InsertAssumption DEF Start, Return, Goto, inputVars, TypeOK
  <2>2. MutexInv'
    <3>1. mutex # s /\ mutex' = mutex
      BY <1>0, <1>1 DEF Start, Return, MutexInv, Critical
    <3>2. pc'[s] \notin Critical /\ \A r \in Inserts \ {s} : pc'[r] = pc[r]
      BY <1>0, <1>1 DEF Start, Return, Goto, Critical, TypeOK
    <3> QED BY <1>0, <3>1, <3>2 DEF MutexInv
  <2>3. RewriteInv'
    <3>1. RewriteOf(s)'
      BY <1>0, <1>1 DEF Start, Return, Goto, inputVars, RewriteInv, RewriteOf, TypeOK
    <3>2. ASSUME NEW r \in Inserts, r # s PROVE RewriteOf(r)'
      BY <1>0, <1>1, <3>2, OthersKeep
      DEF Start, Return, Goto, inputVars, RewriteInv, TypeOK
    <3> QED BY <3>1, <3>2 DEF RewriteInv
  <2> QED BY <1>0, <1>1, <2>1, <2>2, <2>3 DEF Start, ParquetInv
<1>2. ASSUME NEW s \in Inserts, OpenInput(s) PROVE ParquetInv'
  <2>1. TypeOK'
    <3>1. left' \in [Inserts -> Seq(Batch)]
      <4>1. CASE left' = [left EXCEPT ![s] = table]
        BY <1>0, <4>1 DEF TypeOK
      <4>2. ASSUME NEW n \in 0..MaxBatches,
                   left' = [left EXCEPT ![s] = [i \in 1..n |-> <<s, i>>]]
            PROVE  left' \in [Inserts -> Seq(Batch)]
        <5>1. [i \in 1..n |-> <<s, i>>] \in Seq(Batch)
          BY InsertAssumption DEF Batch, InsertAssumption
        <5> QED BY <1>0, <4>2, <5>1 DEF TypeOK
      <4> QED BY <1>2, <4>1, <4>2 DEF OpenInput
    <3> QED BY <1>0, <1>2, <3>1 DEF OpenInput, insertVars, TypeOK
  <2>2. MutexInv'
    BY <1>0, <1>2 DEF OpenInput, insertVars, MutexInv
  <2>3. RewriteInv'
    <3>1. RewriteOf(s)'
      BY <1>0, <1>2 DEF OpenInput, insertVars, RewriteInv, RewriteOf, TypeOK
    <3>2. ASSUME NEW r \in Inserts, r # s PROVE RewriteOf(r)'
      BY <1>0, <1>2, <3>2, OthersKeep DEF OpenInput, insertVars, RewriteInv, TypeOK
    <3> QED BY <3>1, <3>2 DEF RewriteInv
  <2> QED BY <1>0, <1>2, <2>1, <2>2, <2>3 DEF OpenInput, insertVars, ParquetInv
<1>3. ASSUME NEW s \in Inserts, Lock(s) PROVE ParquetInv'
  <2>1. TypeOK'
    BY <1>0, <1>3, InsertAssumption DEF Lock, Goto, inputVars, TypeOK
  <2>2. MutexInv'
    BY <1>0, <1>3, InsertAssumption
    DEF Lock, Goto, inputVars, MutexInv, Critical,
        InsertAssumption, TypeOK
  <2>3. RewriteInv'
    <3>1. RewriteOf(s)'
      BY <1>0, <1>3
      DEF Lock, Goto, inputVars, RewriteInv, RewriteOf, TypeOK
    <3>2. ASSUME NEW r \in Inserts, r # s PROVE RewriteOf(r)'
      BY <1>0, <1>3, <3>2, OthersKeep
      DEF Lock, Goto, inputVars, RewriteInv, TypeOK
    <3> QED BY <3>1, <3>2 DEF RewriteInv
  <2> QED BY <1>0, <1>3, <2>1, <2>2, <2>3 DEF Lock, ParquetInv
<1>4. ASSUME NEW s \in Inserts, First(s) PROVE ParquetInv'
  <2>1. TypeOK'
    <3>1. CASE Delivers(s)
      <4>1. taken' \in [Inserts -> Seq(Batch)] /\ left' \in [Inserts -> Seq(Batch)]
        BY <1>0, <3>1, DeliversMoves
      <4> QED BY <1>0, <1>4, <3>1, <4>1 DEF First, Delivers, Goto, Ends, TypeOK
    <3>2. CASE ~Delivers(s)
      BY <1>0, <1>4, <3>2, InsertAssumption DEF First, Ends, Return, Goto, TypeOK
    <3> QED BY <3>1, <3>2
  <2>2. MutexInv'
    BY <1>0, <1>4, InsertAssumption
    DEF First, Delivers, Ends, Return, Goto, MutexInv, Critical,
        InsertAssumption, TypeOK
  <2>3. RewriteInv'
    <3>1. RewriteOf(s)'
      BY <1>0, <1>4
      DEF First, Delivers, Ends, Return, Goto, RewriteInv, RewriteOf, TypeOK
    <3>2. ASSUME NEW r \in Inserts, r # s PROVE RewriteOf(r)'
      BY <1>0, <1>4, <3>2, OthersKeep
      DEF First, Delivers, Ends, Return, Goto, RewriteInv, TypeOK
    <3> QED BY <3>1, <3>2 DEF RewriteInv
  <2> QED BY <1>0, <1>4, <2>1, <2>2, <2>3 DEF First, ParquetInv
<1>5. ASSUME NEW s \in Inserts, CreateWriter(s) PROVE ParquetInv'
  <2>1. TypeOK'
    BY <1>0, <1>5, InsertAssumption DEF CreateWriter, Goto, inputVars, TypeOK
  <2>2. MutexInv'
    BY <1>0, <1>5, InsertAssumption
    DEF CreateWriter, Goto, inputVars, MutexInv, Critical,
        InsertAssumption, TypeOK
  <2>3. RewriteInv'
    <3>1. RewriteOf(s)'
      BY <1>0, <1>5
      DEF CreateWriter, Goto, inputVars, RewriteInv, RewriteOf, TypeOK
    <3>2. ASSUME NEW r \in Inserts, r # s PROVE RewriteOf(r)'
      BY <1>0, <1>5, <3>2, OthersKeep
      DEF CreateWriter, Goto, inputVars, RewriteInv, TypeOK
    <3> QED BY <3>1, <3>2 DEF RewriteInv
  <2> QED BY <1>0, <1>5, <2>1, <2>2, <2>3 DEF CreateWriter, ParquetInv
<1>6. ASSUME NEW s \in Inserts, OpenExisting(s) PROVE ParquetInv'
  <2>1. TypeOK'
    BY <1>0, <1>6, InsertAssumption DEF OpenExisting, Goto, inputVars, TypeOK
  <2>2. MutexInv'
    BY <1>0, <1>6, InsertAssumption
    DEF OpenExisting, Goto, inputVars, MutexInv, Critical,
        InsertAssumption, TypeOK
  <2>3. RewriteInv'
    <3>1. RewriteOf(s)'
      <4>1. /\ pc'[s] = "copy" /\ existing'[s] = table /\ table' = table
            /\ out'[s] = <<>> /\ count'[s] = 0 /\ op'[s] = "append"
            /\ input'[s] = input[s] /\ left'[s] = left[s]
        BY <1>0, <1>6
        DEF OpenExisting, Goto, inputVars, RewriteInv, RewriteOf, TypeOK
      <4>2. <<>> \o table = table
        BY <1>0 DEF TypeOK
      <4> QED BY <1>0, <4>1, <4>2 DEF RewriteInv, RewriteOf
    <3>2. ASSUME NEW r \in Inserts, r # s PROVE RewriteOf(r)'
      BY <1>0, <1>6, <3>2, OthersKeep
      DEF OpenExisting, Goto, inputVars, RewriteInv, TypeOK
    <3> QED BY <3>1, <3>2 DEF RewriteInv
  <2> QED BY <1>0, <1>6, <2>1, <2>2, <2>3 DEF OpenExisting, ParquetInv
<1>7. ASSUME NEW s \in Inserts, CopyExisting(s) PROVE ParquetInv'
  <2>1. TypeOK'
    <3>1. CASE existing[s] = <<>>
      BY <1>0, <1>7, <3>1 DEF CopyExisting, Goto, inputVars, TypeOK
    <3>2. CASE existing[s] # <<>>
      <4>1. /\ Append(out[s], Head(existing[s])) \in Seq(Batch)
            /\ Tail(existing[s]) \in Seq(Batch)
        BY <1>0, <3>2, SeqTypes
      <4>2. out' \in [Inserts -> Seq(Batch)] /\ existing' \in [Inserts -> Seq(Batch)]
        <5>1. /\ out' = [out EXCEPT ![s] = Append(out[s], Head(existing[s]))]
              /\ existing' = [existing EXCEPT ![s] = Tail(existing[s])]
          BY <1>7, <3>2 DEF CopyExisting
        <5>2. out \in [Inserts -> Seq(Batch)] /\ existing \in [Inserts -> Seq(Batch)]
          BY <1>0 DEF TypeOK
        <5> QED BY <4>1, <5>1, <5>2
      <4> QED BY <1>0, <1>7, <3>2, <4>2 DEF CopyExisting, inputVars, TypeOK
    <3> QED BY <3>1, <3>2
  <2>2. MutexInv'
    BY <1>0, <1>7, InsertAssumption
    DEF CopyExisting, Goto, inputVars, MutexInv, Critical,
        InsertAssumption, TypeOK
  <2>3. RewriteInv'
    <3>1. RewriteOf(s)'
      <4>1. /\ out[s] \o existing[s] = table /\ count[s] = 0 /\ op[s] = "append"
            /\ count' = count /\ op' = op /\ table' = table /\ taken' = taken
            /\ input' = input /\ left' = left
        BY <1>0, <1>7 DEF CopyExisting, inputVars, RewriteInv, RewriteOf
      <4>2. CASE existing[s] = <<>>
        <5>1. pc'[s] = "write" /\ out' = out
          BY <1>0, <1>7, <4>2 DEF CopyExisting, Goto, TypeOK
        <5>2. out[s] = table /\ table = table \o SubSeq(taken[s], 1, 0)
          BY <1>0, <4>1, <4>2, SeqTypes
        <5>3. 0 <= Len(taken[s])
          BY <1>0, SeqTypes
        <5>4. /\ pc'[s] = "write" /\ op'[s] = "append" /\ count'[s] = 0
              /\ out'[s] = table' \o SubSeq(taken'[s], 1, count'[s])
              /\ count'[s] <= Len(taken'[s])
              /\ input'[s] = "ended" => left'[s] = <<>>
          BY <1>0, <4>1, <5>1, <5>2, <5>3 DEF RewriteInv, RewriteOf
        <5> QED BY <5>4 DEF RewriteOf
      <4>3. CASE existing[s] # <<>>
        <5>1. Append(out[s], Head(existing[s])) \o Tail(existing[s])
                = out[s] \o existing[s]
          BY <1>0, <4>3, SeqTypes, MoveHead
        <5>2. /\ pc'[s] = "copy"
              /\ out'[s] = Append(out[s], Head(existing[s]))
              /\ existing'[s] = Tail(existing[s])
          BY <1>0, <1>7, <4>3 DEF CopyExisting, TypeOK
        <5> QED BY <1>0, <4>1, <5>1, <5>2 DEF RewriteInv, RewriteOf
      <4> QED BY <4>2, <4>3
    <3>2. ASSUME NEW r \in Inserts, r # s PROVE RewriteOf(r)'
      BY <1>0, <1>7, <3>2, OthersKeep
      DEF CopyExisting, Goto, inputVars, RewriteInv, TypeOK
    <3> QED BY <3>1, <3>2 DEF RewriteInv
  <2> QED BY <1>0, <1>7, <2>1, <2>2, <2>3 DEF CopyExisting, ParquetInv
<1>8. ASSUME NEW s \in Inserts, WriteBatch(s) PROVE ParquetInv'
  <2>1. TypeOK'
    <3>1. Append(out[s], taken[s][count[s] + 1]) \in Seq(Batch)
      BY <1>0, <1>8, SeqTypes DEF WriteBatch
    <3>2. out' \in [Inserts -> Seq(Batch)] /\ count' \in [Inserts -> Nat]
      BY <1>0, <1>8, <3>1 DEF WriteBatch, TypeOK
    <3> QED BY <1>0, <1>8, <3>2 DEF WriteBatch, inputVars, TypeOK
  <2>2. MutexInv'
    BY <1>0, <1>8, InsertAssumption
    DEF WriteBatch, inputVars, MutexInv, Critical,
        InsertAssumption, TypeOK
  <2>3. RewriteInv'
    <3>1. RewriteOf(s)'
      <4> DEFINE base == IF op[s] = "append" THEN table ELSE <<>>
      <4>1. /\ out[s] = base \o SubSeq(taken[s], 1, count[s])
            /\ count[s] < Len(taken[s])
        BY <1>0, <1>8 DEF WriteBatch, RewriteInv, RewriteOf
      <4>2. base \in Seq(Batch)
        BY <1>0, SeqTypes
      <4>3. /\ pc'[s] = "write" /\ count'[s] = count[s] + 1
            /\ out'[s] = Append(out[s], taken[s][count[s] + 1])
            /\ taken' = taken /\ table' = table /\ op' = op
            /\ input' = input /\ left' = left
        BY <1>0, <1>8 DEF WriteBatch, inputVars, TypeOK
      <4>4. base' = base
        BY <4>3
      <4> HIDE DEF base
      <4>5. Append(out[s], taken[s][count[s] + 1])
              = base \o SubSeq(taken[s], 1, count[s] + 1)
        BY <1>0, <4>1, <4>2, SeqTypes, ExtendPrefix
      <4>6. count[s] + 1 <= Len(taken[s])
        BY <1>0, <4>1, SeqTypes
      <4>7. out'[s] = base' \o SubSeq(taken'[s], 1, count'[s])
        BY <4>3, <4>4, <4>5
      <4> QED BY <1>0, <4>3, <4>6, <4>7 DEF base, RewriteInv, RewriteOf
    <3>2. ASSUME NEW r \in Inserts, r # s PROVE RewriteOf(r)'
      BY <1>0, <1>8, <3>2, OthersKeep
      DEF WriteBatch, inputVars, RewriteInv, TypeOK
    <3> QED BY <3>1, <3>2 DEF RewriteInv
  <2> QED BY <1>0, <1>8, <2>1, <2>2, <2>3 DEF WriteBatch, ParquetInv
<1>9. ASSUME NEW s \in Inserts, NextBatch(s) PROVE ParquetInv'
  <2>1. TypeOK'
    <3>1. CASE Delivers(s)
      <4>1. taken' \in [Inserts -> Seq(Batch)] /\ left' \in [Inserts -> Seq(Batch)]
        BY <1>0, <3>1, DeliversMoves
      <4> QED
        BY <1>0, <1>9, <3>1, <4>1 DEF NextBatch, Delivers, Ends, Goto, inputVars, TypeOK
    <3>2. CASE ~Delivers(s)
      BY <1>0, <1>9, <3>2 DEF NextBatch, Ends, Goto, inputVars, TypeOK
    <3> QED BY <3>1, <3>2
  <2>2. MutexInv'
    BY <1>0, <1>9, InsertAssumption
    DEF NextBatch, Delivers, Ends, Goto, inputVars, MutexInv, Critical,
        InsertAssumption, TypeOK
  <2>3. RewriteInv'
    <3>1. RewriteOf(s)'
      <4>1. CASE Delivers(s)
        <5>1. /\ SubSeq(taken'[s], 1, count[s]) = SubSeq(taken[s], 1, count[s])
              /\ count[s] <= Len(taken'[s])
          <6>1. count[s] <= Len(taken[s])
            BY <1>0, <1>9, SeqTypes DEF NextBatch
          <6> QED BY <1>0, <4>1, <6>1, DeliversMoves, SeqTypes, PrefixOfAppend
        <5>2. /\ pc'[s] = "write" /\ count' = count /\ out' = out /\ op' = op
              /\ table' = table /\ input'[s] # "ended"
          BY <1>0, <1>9, <4>1 DEF NextBatch, Delivers, Ends, inputVars, TypeOK
        <5>3. pc[s] = "write"
          BY <1>9 DEF NextBatch
        <5> QED BY <1>0, <5>1, <5>2, <5>3 DEF RewriteInv, RewriteOf
      <4>2. CASE ~Delivers(s)
        <5>1. /\ taken' = taken /\ left' = left /\ count' = count /\ out' = out
              /\ op' = op /\ table' = table /\ count[s] = Len(taken[s])
              /\ pc[s] = "write" /\ pc'[s] \in {"finalize", "abort"}
              /\ pc'[s] = "finalize" => input'[s] = "ended"
              /\ input'[s] = "ended" => left[s] = <<>>
          BY <1>0, <1>9, <4>2
          DEF NextBatch, Ends, Goto, inputVars, RewriteInv, RewriteOf, TypeOK
        <5> QED BY <1>0, <5>1 DEF RewriteInv, RewriteOf
      <4> QED BY <4>1, <4>2
    <3>2. ASSUME NEW r \in Inserts, r # s PROVE RewriteOf(r)'
      BY <1>0, <1>9, <3>2, OthersKeep
      DEF NextBatch, Delivers, Ends, Goto, inputVars, RewriteInv, TypeOK
    <3> QED BY <3>1, <3>2 DEF RewriteInv
  <2> QED BY <1>0, <1>9, <2>1, <2>2, <2>3 DEF NextBatch, ParquetInv
<1>10. ASSUME NEW s \in Inserts, Finalize(s) PROVE ParquetInv'
  <2>1. TypeOK'
    BY <1>0, <1>10, InsertAssumption DEF Finalize, Goto, inputVars, TypeOK
  <2>2. MutexInv'
    BY <1>0, <1>10, InsertAssumption
    DEF Finalize, Goto, inputVars, MutexInv, Critical,
        InsertAssumption, TypeOK
  <2>3. RewriteInv'
    <3>1. RewriteOf(s)'
      BY <1>0, <1>10
      DEF Finalize, Goto, inputVars, RewriteInv, RewriteOf, TypeOK
    <3>2. ASSUME NEW r \in Inserts, r # s PROVE RewriteOf(r)'
      BY <1>0, <1>10, <3>2, OthersKeep
      DEF Finalize, Goto, inputVars, RewriteInv, TypeOK
    <3> QED BY <3>1, <3>2 DEF RewriteInv
  <2> QED BY <1>0, <1>10, <2>1, <2>2, <2>3 DEF Finalize, ParquetInv
<1>11. ASSUME NEW s \in Inserts, Fails(s) PROVE ParquetInv'
  <2>1. TypeOK'
    BY <1>0, <1>11, InsertAssumption DEF Fails, Goto, inputVars, TypeOK
  <2>2. MutexInv'
    BY <1>0, <1>11, InsertAssumption
    DEF Fails, Goto, inputVars, MutexInv, Critical,
        InsertAssumption, TypeOK
  <2>3. RewriteInv'
    <3>1. RewriteOf(s)'
      BY <1>0, <1>11
      DEF Fails, Goto, inputVars, RewriteInv, RewriteOf, TypeOK
    <3>2. ASSUME NEW r \in Inserts, r # s PROVE RewriteOf(r)'
      BY <1>0, <1>11, <3>2, OthersKeep
      DEF Fails, Goto, inputVars, RewriteInv, TypeOK
    <3> QED BY <3>1, <3>2 DEF RewriteInv
  <2> QED BY <1>0, <1>11, <2>1, <2>2, <2>3 DEF Fails, ParquetInv
<1>12. ASSUME NEW s \in Inserts, Commit(s) PROVE ParquetInv'
  <2>1. TypeOK'
    BY <1>0, <1>12, InsertAssumption DEF Commit, Return, Goto, inputVars, TypeOK
  <2>2. MutexInv'
    BY <1>0, <1>12, InsertAssumption
    DEF Commit, Return, Goto, inputVars, MutexInv, Critical,
        InsertAssumption, TypeOK
  <2>3. RewriteInv'
    <3>1. RewriteOf(s)'
      BY <1>0, <1>12
      DEF Commit, Return, Goto, inputVars, RewriteInv, RewriteOf, TypeOK
    <3>2. ASSUME NEW r \in Inserts, r # s PROVE RewriteOf(r)'
      <4>1. pc[r] \notin Critical
        BY <1>0, <1>12, <3>2 DEF Commit, MutexInv, Critical
      <4> QED
        BY <1>0, <1>12, <3>2, <4>1, OthersKeep
        DEF Commit, Return, Goto, inputVars, RewriteInv, TypeOK
    <3> QED BY <3>1, <3>2 DEF RewriteInv
  <2>4. table' = serial'
    <3>1. /\ SubSeq(taken[s], 1, Len(taken[s])) = taken[s]
          /\ <<>> \o taken[s] = taken[s]
      BY <1>0, SeqTypes
    <3>2. /\ out[s] = (IF op[s] = "append" THEN table ELSE <<>>)
                        \o SubSeq(taken[s], 1, count[s])
          /\ count[s] = Len(taken[s])
      BY <1>0, <1>12 DEF Commit, RewriteInv, RewriteOf
    <3> QED BY <1>0, <1>12, <3>1, <3>2 DEF Commit
  <2> QED BY <2>1, <2>2, <2>3, <2>4 DEF ParquetInv
<1>13. ASSUME NEW s \in Inserts, CommitFails(s) PROVE ParquetInv'
  <2>1. TypeOK'
    BY <1>0, <1>13, InsertAssumption DEF CommitFails, Return, Goto, inputVars, TypeOK
  <2>2. MutexInv'
    BY <1>0, <1>13, InsertAssumption
    DEF CommitFails, Return, Goto, inputVars, MutexInv, Critical,
        InsertAssumption, TypeOK
  <2>3. RewriteInv'
    <3>1. RewriteOf(s)'
      BY <1>0, <1>13
      DEF CommitFails, Return, Goto, inputVars, RewriteInv, RewriteOf, TypeOK
    <3>2. ASSUME NEW r \in Inserts, r # s PROVE RewriteOf(r)'
      BY <1>0, <1>13, <3>2, OthersKeep
      DEF CommitFails, Return, Goto, inputVars, RewriteInv, TypeOK
    <3> QED BY <3>1, <3>2 DEF RewriteInv
  <2> QED BY <1>0, <1>13, <2>1, <2>2, <2>3 DEF CommitFails, ParquetInv
<1>14. ASSUME NEW s \in Inserts, Abort(s) PROVE ParquetInv'
  <2>1. TypeOK'
    BY <1>0, <1>14, InsertAssumption DEF Abort, Return, Goto, inputVars, TypeOK
  <2>2. MutexInv'
    BY <1>0, <1>14, InsertAssumption
    DEF Abort, Return, Goto, inputVars, MutexInv, Critical,
        InsertAssumption, TypeOK
  <2>3. RewriteInv'
    <3>1. RewriteOf(s)'
      BY <1>0, <1>14
      DEF Abort, Return, Goto, inputVars, RewriteInv, RewriteOf, TypeOK
    <3>2. ASSUME NEW r \in Inserts, r # s PROVE RewriteOf(r)'
      BY <1>0, <1>14, <3>2, OthersKeep
      DEF Abort, Return, Goto, inputVars, RewriteInv, TypeOK
    <3> QED BY <3>1, <3>2 DEF RewriteInv
  <2> QED BY <1>0, <1>14, <2>1, <2>2, <2>3 DEF Abort, ParquetInv
<1>15. ASSUME UNCHANGED vars PROVE ParquetInv'
  BY <1>0, <1>15
  DEF ParquetInv, TypeOK, vars, insertVars, inputVars, MutexInv, RewriteInv, RewriteOf
<1> QED
  BY <1>1, <1>2, <1>3, <1>4, <1>5, <1>6, <1>7, <1>8, <1>9, <1>10,
     <1>11, <1>12, <1>13, <1>14, <1>15
  DEF Next, Step

\* For any set of concurrent inserts, each insert that has the mutex has
\* written the table as it stands followed by what it took of its input, and
\* the table is what the committed inserts make one by one
\* (insert.go:43-59, 87-145).
THEOREM ParquetInvariant == ASSUME InsertAssumption PROVE Spec => []ParquetInv
  BY ParquetInvInit, ParquetInvStep, PTL DEF Spec

\* No insert's rows are lost to another's rewrite, and one that fails leaves no
\* trace: at every moment the table is what its committed inserts make one by
\* one (insert.go:46-52, 67-68, 92-99).
THEOREM InsertsAsIfAlone == ASSUME InsertAssumption PROVE Spec => []AsIfAlone
<1>1. ParquetInv => AsIfAlone
  BY DEF ParquetInv, AsIfAlone
<1> QED BY <1>1, ParquetInvariant, PTL
-----------------------------------------------------------------------------
(* The reported count *)

\* A step keeps SuccessIsComplete: a success is only returned from the commit,
\* or by an append that found its input at the end.
LEMMA SuccessStep ==
  ASSUME ParquetInv, SuccessIsComplete, [Next]_vars PROVE SuccessIsComplete'
<1> USE DEF ParquetInv, TypeOK, SuccessIsComplete
<1>1. ASSUME NEW s \in Inserts, NEW o \in Ops, Start(s, o)
      PROVE  SuccessIsComplete'
  BY <1>1 DEF Start, Return, inputVars
<1>2. ASSUME NEW s \in Inserts, OpenInput(s) PROVE SuccessIsComplete'
  BY <1>2 DEF OpenInput, insertVars
<1>3. ASSUME NEW s \in Inserts, First(s) PROVE SuccessIsComplete'
  <2>1. taken[s] = <<>> /\ count[s] = 0
    BY <1>3 DEF First, RewriteInv, RewriteOf
  <2>2. CASE result' = result
    BY <1>3, <2>2 DEF First, Delivers, Ends
  <2>3. CASE Ends(s, "ended") /\ Return(s, "ok")
    BY <1>3, <2>1, <2>3 DEF First, Ends, Return
  <2>4. CASE Ends(s, "failed") /\ Return(s, "err")
    BY <1>3, <2>4 DEF First, Ends, Return
  <2> QED BY <1>3, <2>2, <2>3, <2>4 DEF First
<1>4. ASSUME NEW s \in Inserts, NextBatch(s) PROVE SuccessIsComplete'
  BY <1>4 DEF NextBatch, Delivers, Ends, inputVars
<1>5. ASSUME NEW s \in Inserts, Commit(s) PROVE SuccessIsComplete'
  BY <1>5 DEF Commit, Return, inputVars, RewriteInv, RewriteOf
<1>6. ASSUME NEW s \in Inserts, WriteBatch(s) PROVE SuccessIsComplete'
  BY <1>6 DEF WriteBatch, inputVars
<1>7. ASSUME NEW s \in Inserts, CommitFails(s) \/ Abort(s) PROVE SuccessIsComplete'
  BY <1>7 DEF CommitFails, Abort, Return, inputVars
<1>8. ASSUME NEW s \in Inserts,
             \/ Lock(s) \/ CreateWriter(s) \/ OpenExisting(s) \/ CopyExisting(s)
             \/ Finalize(s) \/ Fails(s)
      PROVE  SuccessIsComplete'
  BY <1>8 DEF Lock, CreateWriter, OpenExisting, CopyExisting, Finalize, Fails, inputVars
<1>9. ASSUME UNCHANGED vars PROVE SuccessIsComplete'
  BY <1>9 DEF vars, insertVars, inputVars
<1> QED
  BY <1>1, <1>2, <1>3, <1>4, <1>5, <1>6, <1>7, <1>8, <1>9 DEF Next, Step

\* A reported success has consumed the whole input and reports just that many
\* rows, whatever the other inserts and the store do (insert.go:127-144).
THEOREM ParquetSuccessIsComplete ==
  ASSUME InsertAssumption PROVE Spec => []SuccessIsComplete
<1>1. Init => SuccessIsComplete
  BY DEF Init, SuccessIsComplete
<1> QED BY <1>1, ParquetInvariant, SuccessStep, PTL DEF Spec
=============================================================================
