--------------------------- MODULE ParquetInsert ---------------------------
(***************************************************************************)
(* INSERT into one Parquet table (providers/parquet/insert.go): under the  *)
(* provider's insertMu, a new object is written in full (the existing rows *)
(* first, for an append) and committed over the old one.                   *)
(*                                                                         *)
(* The input of an insert is a stream the engine opens on its own, from    *)
(* given rows or from a scan of this very table; scans never take the      *)
(* mutex.  The store is its contract (ObjectStore): an open object does    *)
(* not change, and only a successful Close of the writer replaces it.      *)
(***************************************************************************)
EXTENDS Naturals, Sequences

CONSTANTS
  Inserts,    \* INSERT statements
  NoInsert,   \* nobody; also the origin of the rows that were there before
  MaxBatches  \* bound on the batches of an input that is not a scan

InsertAssumption ==
  NoInsert \notin Inserts /\ MaxBatches \in Nat

\* A batch is known by the insert it was made for and its number.
Batch == (Inserts \cup {NoInsert}) \X (0..MaxBatches)
Ops == {"append", "overwrite", "replace"}

VARIABLES
  table,      \* the batches of the object at t.path
  mutex,      \* the insert that holds insertMu, or NoInsert
  pc,         \* where each insert is
  op,         \* its mode
  input,      \* its input stream: "unopened", "open", "ended" or "failed"
  left,       \* the batches the stream has still to deliver
  taken,      \* the batches it has delivered
  existing,   \* what is left to copy of the existing rows
  out,        \* the batches written to the new object
  count,      \* the batches counted as written
  result,     \* "none", "ok" or "err"
  serial      \* what the committed inserts would have made one by one

insertVars == <<pc, op, existing, out, count, result>>
inputVars == <<input, left, taken>>
vars == <<table, mutex, insertVars, inputVars, serial>>

Init ==
  /\ table = << <<NoInsert, 0>> >>
  /\ serial = table
  /\ mutex = NoInsert
  /\ pc = [s \in Inserts |-> "idle"]
  /\ op = [s \in Inserts |-> "append"]
  /\ input = [s \in Inserts |-> "unopened"]
  /\ left = [s \in Inserts |-> <<>>]
  /\ taken = [s \in Inserts |-> <<>>]
  /\ existing = [s \in Inserts |-> <<>>]
  /\ out = [s \in Inserts |-> <<>>]
  /\ count = [s \in Inserts |-> 0]
  /\ result = [s \in Inserts |-> "none"]
-----------------------------------------------------------------------------
(* The input stream *)

\* A self-insert's scan that waits for insertMu.
LockedOpenInput(s) ==
  /\ input[s] = "unopened"
  /\ pc[s] # "idle"
  /\ mutex = NoInsert
  /\ left' = [left EXCEPT ![s] = table]
  /\ input' = [input EXCEPT ![s] = "open"]
  /\ UNCHANGED <<table, mutex, insertVars, taken, serial>>

\* The engine opens the stream: VALUES or another table's rows, or a scan
\* that opens this table's object as it is now.
OpenInput(s) ==
  /\ input[s] = "unopened"
  /\ pc[s] # "idle"
  /\ \/ left' = [left EXCEPT ![s] = table]
     \/ \E n \in 0..MaxBatches :
          left' = [left EXCEPT ![s] = [i \in 1..n |-> <<s, i>>]]
  /\ input' = [input EXCEPT ![s] = "open"]
  /\ UNCHANGED <<table, mutex, insertVars, taken, serial>>

\* rows.Next: a batch, the end of the stream, or its error.
Delivers(s) ==
  /\ input[s] = "open"
  /\ left[s] # <<>>
  /\ left' = [left EXCEPT ![s] = Tail(@)]
  /\ taken' = [taken EXCEPT ![s] = Append(@, Head(left[s]))]
  /\ UNCHANGED input

Ends(s, how) ==
  /\ input[s] = "open"
  /\ how = "ended" => left[s] = <<>>
  /\ input' = [input EXCEPT ![s] = how]
  /\ UNCHANGED <<left, taken>>
-----------------------------------------------------------------------------
(* InsertInto *)

Goto(s, where) == pc' = [pc EXCEPT ![s] = where]

\* InsertInto returns; the deferred calls unlock the mutex.
Return(s, r) ==
  /\ Goto(s, "done")
  /\ result' = [result EXCEPT ![s] = r]
  /\ mutex' = IF mutex = s THEN NoInsert ELSE mutex

Start(s, o) ==
  /\ pc[s] = "idle"
  /\ op' = [op EXCEPT ![s] = o]
  /\ IF o = "replace" THEN Return(s, "err")
                      ELSE Goto(s, "lock") /\ UNCHANGED <<result, mutex>>
  /\ UNCHANGED <<table, inputVars, existing, out, count, serial>>

\* No mutex.
Unserialized(s) ==
  /\ pc[s] = "lock"
  /\ Goto(s, "first")
  /\ UNCHANGED <<table, mutex, op, existing, out, count, result, inputVars, serial>>

\* t.insertMu.Lock()
Lock(s) ==
  /\ pc[s] = "lock"
  /\ mutex = NoInsert
  /\ mutex' = s
  /\ Goto(s, "first")
  /\ UNCHANGED <<table, op, existing, out, count, result, inputVars, serial>>

\* The first rows.Next: an input without rows changes nothing when appended.
First(s) ==
  /\ pc[s] = "first"
  /\ \/ Delivers(s) /\ Goto(s, "create") /\ UNCHANGED <<result, mutex>>
     \/ /\ Ends(s, "ended")
        /\ IF op[s] = "append" THEN Return(s, "ok")
                               ELSE Goto(s, "create") /\ UNCHANGED <<result, mutex>>
     \/ Ends(s, "failed") /\ Return(s, "err")
  /\ UNCHANGED <<table, op, existing, out, count, serial>>

\* t.store.Create and pqarrow.NewFileWriter.
CreateWriter(s) ==
  /\ pc[s] = "create"
  /\ Goto(s, IF op[s] = "append" THEN "open" ELSE "write")
  /\ UNCHANGED <<table, mutex, op, existing, out, count, result, inputVars, serial>>

\* streamExistingRows: t.Scan opens the object ...
OpenExisting(s) ==
  /\ pc[s] = "open"
  /\ existing' = [existing EXCEPT ![s] = table]
  /\ Goto(s, "copy")
  /\ UNCHANGED <<table, mutex, op, out, count, result, inputVars, serial>>

\* ... whose batches are written one by one.
CopyExisting(s) ==
  /\ pc[s] = "copy"
  /\ IF existing[s] = <<>>
     THEN Goto(s, "write") /\ UNCHANGED <<existing, out>>
     ELSE /\ out' = [out EXCEPT ![s] = Append(@, Head(existing[s]))]
          /\ existing' = [existing EXCEPT ![s] = Tail(@)]
          /\ UNCHANGED pc
  /\ UNCHANGED <<table, mutex, op, count, result, inputVars, serial>>

\* writeBatch, for a batch taken and not yet written.
WriteBatch(s) ==
  /\ pc[s] = "write"
  /\ count[s] < Len(taken[s])
  /\ out' = [out EXCEPT ![s] = Append(@, taken[s][count[s] + 1])]
  /\ count' = [count EXCEPT ![s] = @ + 1]
  /\ UNCHANGED <<table, mutex, pc, op, existing, result, inputVars, serial>>

\* A loop that takes an error for the end.
UncheckedNextBatch(s) ==
  /\ pc[s] = "write"
  /\ count[s] = Len(taken[s])
  /\ \/ Delivers(s) /\ UNCHANGED pc
     \/ \E how \in {"ended", "failed"} : Ends(s, how) /\ Goto(s, "finalize")
  /\ UNCHANGED <<table, mutex, op, existing, out, count, result, serial>>

\* for rows.Next(), then rows.Err().  An overwrite of nothing asks again.
NextBatch(s) ==
  /\ pc[s] = "write"
  /\ count[s] = Len(taken[s])
  /\ \/ Delivers(s) /\ UNCHANGED pc
     \/ Ends(s, "ended") /\ Goto(s, "finalize")
     \/ Ends(s, "failed") /\ Goto(s, "abort")
     \/ input[s] = "ended" /\ Goto(s, "finalize") /\ UNCHANGED inputVars
  /\ UNCHANGED <<table, mutex, op, existing, out, count, result, serial>>

\* fw.Close() writes the footer.
Finalize(s) ==
  /\ pc[s] = "finalize"
  /\ Goto(s, "commit")
  /\ UNCHANGED <<table, mutex, op, existing, out, count, result, inputVars, serial>>

\* The store, the writer or the existing object fails before the commit.
Fails(s) ==
  /\ pc[s] \in {"create", "open", "copy", "write", "finalize"}
  /\ Goto(s, "abort")
  /\ UNCHANGED <<table, mutex, op, existing, out, count, result, inputVars, serial>>

\* w.Close(): the commit, or an error that commits nothing.
Commit(s) ==
  /\ pc[s] = "commit"
  /\ table' = out[s]
  /\ serial' = IF op[s] = "append" THEN serial \o taken[s] ELSE taken[s]
  /\ Return(s, "ok")
  /\ UNCHANGED <<op, existing, out, count, inputVars>>

CommitFails(s) ==
  /\ pc[s] = "commit"
  /\ Return(s, "err")
  /\ UNCHANGED <<table, op, existing, out, count, inputVars, serial>>

\* A failure that commits what was written so far.
CommittingAbort(s) ==
  /\ pc[s] = "abort"
  /\ table' = out[s]
  /\ Return(s, "err")
  /\ UNCHANGED <<op, existing, out, count, inputVars, serial>>

\* The deferred w.Abort(), if there is a writer.
Abort(s) ==
  /\ pc[s] = "abort"
  /\ Return(s, "err")
  /\ UNCHANGED <<table, op, existing, out, count, inputVars, serial>>
-----------------------------------------------------------------------------
Step(s) ==
  \/ Lock(s) \/ First(s) \/ CreateWriter(s) \/ OpenExisting(s) \/ CopyExisting(s)
  \/ WriteBatch(s) \/ NextBatch(s) \/ Finalize(s) \/ Fails(s)
  \/ Commit(s) \/ CommitFails(s) \/ Abort(s)

Finished == \A s \in Inserts : pc[s] = "done"

Next ==
  \/ \E s \in Inserts, o \in Ops : Start(s, o)
  \/ \E s \in Inserts : OpenInput(s) \/ Step(s)
  \/ Finished /\ UNCHANGED vars

Spec == Init /\ [][Next]_vars

\* A running insert goes on, the engine opens inputs, and sync.Mutex starves
\* nobody.
Fairness ==
  \A s \in Inserts : WF_vars(OpenInput(s)) /\ WF_vars(Step(s)) /\ SF_vars(Lock(s))
-----------------------------------------------------------------------------
(* Properties *)

TypeOK ==
  /\ table \in Seq(Batch)
  /\ serial \in Seq(Batch)
  /\ mutex \in Inserts \cup {NoInsert}
  /\ pc \in [Inserts -> {"idle", "lock", "first", "create", "open", "copy",
                         "write", "finalize", "commit", "abort", "done"}]
  /\ op \in [Inserts -> Ops]
  /\ input \in [Inserts -> {"unopened", "open", "ended", "failed"}]
  /\ left \in [Inserts -> Seq(Batch)]
  /\ taken \in [Inserts -> Seq(Batch)]
  /\ existing \in [Inserts -> Seq(Batch)]
  /\ out \in [Inserts -> Seq(Batch)]
  /\ count \in [Inserts -> Nat]
  /\ result \in [Inserts -> {"none", "ok", "err"}]

Critical == {"first", "create", "open", "copy", "write", "finalize", "commit", "abort"}

\* An insert holds the mutex from Lock to its return.
MutexInv == \A s \in Inserts : pc[s] \in Critical <=> mutex = s

\* What an insert writes is the table as it stands, for an append, followed by
\* the part of the input it has counted.
RewriteOf(s) ==
  LET base == IF op[s] = "append" THEN table ELSE <<>> IN
  /\ pc[s] \in {"idle", "lock", "first"} => taken[s] = <<>>
  /\ pc[s] \in {"idle", "lock", "first", "create", "open"} =>
       out[s] = <<>> /\ count[s] = 0
  /\ pc[s] \in {"open", "copy"} => op[s] = "append"
  /\ pc[s] = "copy" => out[s] \o existing[s] = table /\ count[s] = 0
  /\ pc[s] \in {"write", "finalize", "commit"} =>
       out[s] = base \o SubSeq(taken[s], 1, count[s]) /\ count[s] <= Len(taken[s])
  /\ pc[s] \in {"finalize", "commit"} =>
       count[s] = Len(taken[s]) /\ input[s] = "ended"
  /\ input[s] = "ended" => left[s] = <<>>

RewriteInv == \A s \in Inserts : RewriteOf(s)

\* The inductive invariant of the rewrite (insert.go:43-59, 87-145).
ParquetInv == TypeOK /\ MutexInv /\ RewriteInv /\ table = serial

\* Concurrent inserts have the effect of running one by one, in the order of
\* their commits: no insert's rows are lost to another's rewrite, an insert
\* from the table into itself sees each row once, and one that fails leaves no
\* trace (insert.go:46-52, 67-68, 92-99,
\* openspec/specs/parquet-table-provider/spec.md:224).
AsIfAlone == table = serial

\* A reported success has consumed the whole input, and reports just that
\* many rows: an input error never passes for its end (insert.go:127-144).
SuccessIsComplete ==
  \A s \in Inserts : result[s] = "ok" =>
    input[s] = "ended" /\ left[s] = <<>> /\ count[s] = Len(taken[s])

\* Every insert returns, on every path, and also when its input is a scan of
\* the same table (wire-parquet-and-iceberg-insert/design.md, D7).
InsertsReturn == \A s \in Inserts : pc[s] = "lock" ~> pc[s] = "done"
=============================================================================
