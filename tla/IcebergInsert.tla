--------------------------- MODULE IcebergInsert ---------------------------
(***************************************************************************)
(* INSERT into one Iceberg table (providers/iceberg/insert.go), through    *)
(* any number of provider instances: under the instance's insertMu the     *)
(* first batch is pulled, a fresh table handle is loaded, and iceberg-go   *)
(* pulls the rest through a fieldIDStrippingReader and commits.            *)
(*                                                                         *)
(* A batch is known by its number in the input; its references are counted *)
(* apart from who holds it.  A column view counts as a reference to its    *)
(* batch.  iceberg-go and the catalog are external: what was written is    *)
(* added to the snapshot the handle was loaded at, and swapped in if that  *)
(* is still current; a conflict refreshes the handle and tries again.      *)
(***************************************************************************)
EXTENDS Naturals, Sequences

CONSTANTS
  Inserts,     \* INSERT statements
  Providers,   \* provider instances of the table
  NoInsert,    \* nobody; also the origin of the rows that were there before
  MaxBatches,  \* bound on the batches of an input that is not a scan
  MaxReplays   \* iceberg-go's commit-retry budget

InsertAssumption ==
  NoInsert \notin Inserts /\ MaxBatches \in Nat /\ MaxReplays \in Nat

Ops == {"append", "overwrite", "replace"}
None == 0

VARIABLES
  table,    \* the batches of the current snapshot
  mutex,    \* who holds each instance's insertMu
  calls,    \* the InsertInto calls
  serial    \* what the committed inserts would have made one by one

vars == <<table, mutex, calls, serial>>

\* A call that has not started.
Idle(p) ==
  [pc |-> "idle", op |-> "append", provider |-> p,
   input |-> "unopened",    \* then "open", "ended" or "failed"
   offered |-> <<>>,        \* the batches of the input
   refs |-> <<>>,           \* references to each batch delivered so far
   inner |-> None,          \* the batch current in rows
   first |-> None, cur |-> None, rows |-> 0,    \* fieldIDStrippingReader
   releases |-> 0,          \* how often rows was released
   base |-> <<>>,           \* the snapshot of the table handle
   files |-> <<>>,          \* the batches in the data files
   replays |-> 0, result |-> "none"]

Init ==
  /\ table = << <<NoInsert, 0>>, <<NoInsert, 1>> >>
  /\ serial = table
  /\ mutex = [p \in Providers |-> NoInsert]
  /\ calls \in [Inserts -> {Idle(p) : p \in Providers}]
-----------------------------------------------------------------------------
(* The readers, as functions of a call *)

Retain(c, b) == [c EXCEPT !.refs[b] = @ + 1]
Unref(c, b) == IF b = None THEN c ELSE [c EXCEPT !.refs[b] = @ - 1]

\* rows.Next: the current batch is given up, and a batch, the end of the
\* stream or its error takes its place.
InnerNext(c) ==
  LET d == [Unref(c, c.inner) EXCEPT !.inner = None]
      ahead == Len(c.refs) < Len(c.offered)
      batch == [d EXCEPT !.inner = Len(c.refs) + 1, !.refs = Append(@, 1)]
      end == [d EXCEPT !.input = "ended"]
  IN IF c.input # "open" THEN {c}
     ELSE {IF ahead THEN batch ELSE end, [d EXCEPT !.input = "failed"]}

\* rows.Release
InnerRelease(c) ==
  [Unref(c, c.inner) EXCEPT !.inner = None, !.releases = @ + 1]

\* fieldIDStrippingReader shows a view of a batch, and counts its row.
View(c, b) == [Retain(c, b) EXCEPT !.cur = b, !.rows = @ + 1]

\* The first batch is shown and not given up.
LeakyNext(c) ==
  LET d == [Unref(c, c.cur) EXCEPT !.cur = None]
  IN IF d.first # None THEN {[View(d, d.first) EXCEPT !.first = None]}
     ELSE {IF e.input = "open" THEN View(e, e.inner) ELSE e : e \in InnerNext(d)}

\* fieldIDStrippingReader.Next: first, then what rows delivers.
WrappedNext(c) ==
  LET d == [Unref(c, c.cur) EXCEPT !.cur = None]
      first == [View(d, d.first) EXCEPT !.first = None]
  IN IF d.first # None THEN {Unref(first, d.first)}
     ELSE {IF e.input = "open" THEN View(e, e.inner) ELSE e : e \in InnerNext(d)}

\* A stream whose error is not passed on.
NoErr(c) == FALSE

\* fieldIDStrippingReader.Err
Err(c) == c.input = "failed"

WrappedRelease(c) ==
  InnerRelease([Unref(Unref(c, c.cur), c.first) EXCEPT !.cur = None, !.first = None])
-----------------------------------------------------------------------------
(* InsertInto *)

At(s, where) == calls[s].pc = where
Become(s, c) == calls' = [calls EXCEPT ![s] = c]
Goto(c, where) == [c EXCEPT !.pc = where]
Finish(c, r) == [c EXCEPT !.pc = "finish", !.result = r]

\* InsertInto returns, and the deferred call unlocks the mutex.
Return(s, c, r) ==
  /\ Become(s, [c EXCEPT !.pc = "done", !.result = r])
  /\ mutex' = [p \in Providers |-> IF mutex[p] = s THEN NoInsert ELSE mutex[p]]

\* The mode is looked at first.
Start(s, o) ==
  /\ At(s, "idle")
  /\ LET c == [calls[s] EXCEPT !.op = o]
     IN IF o = "replace" THEN Return(s, InnerRelease(c), "err")
        ELSE Become(s, Goto(c, "lock")) /\ UNCHANGED mutex
  /\ UNCHANGED <<table, serial>>

\* The engine opens the input: given rows, or a scan of this very table.
OpenInput(s) ==
  /\ calls[s].pc \in {"lock", "first"} /\ calls[s].input = "unopened"
  /\ \E rows \in {table} \cup {[i \in 1..n |-> <<s, i>>] : n \in 0..MaxBatches} :
       Become(s, [calls[s] EXCEPT !.input = "open", !.offered = rows])
  /\ UNCHANGED <<table, mutex, serial>>

\* No mutex.
Unserialized(s) ==
  /\ At(s, "lock")
  /\ Become(s, Goto(calls[s], "first"))
  /\ UNCHANGED <<table, mutex, serial>>

\* t.insertMu.Lock()
Lock(s) ==
  /\ At(s, "lock")
  /\ mutex[calls[s].provider] = NoInsert
  /\ mutex' = [mutex EXCEPT ![calls[s].provider] = s]
  /\ Become(s, Goto(calls[s], "first"))
  /\ UNCHANGED <<table, serial>>

\* The first rows.Next.  A batch is retained for the wrapper; without rows an
\* append is over, and an overwrite goes on.
FirstNext(s) ==
  /\ At(s, "first") /\ calls[s].input = "open"
  /\ \E c \in InnerNext(calls[s]) :
       \/ /\ c.input = "open"
          /\ Become(s, Goto([Retain(c, c.inner) EXCEPT !.first = c.inner], "load"))
          /\ UNCHANGED mutex
       \/ /\ c.input = "ended" /\ c.op = "overwrite"
          /\ Become(s, Goto(c, "load"))
          /\ UNCHANGED mutex
       \/ c.input = "ended" /\ c.op = "append" /\ Return(s, InnerRelease(c), "ok")
       \/ c.input = "failed" /\ Return(s, InnerRelease(c), "err")
  /\ UNCHANGED <<table, serial>>

\* t.cat.LoadTable
Load(s) ==
  /\ At(s, "load")
  /\ Become(s, [Goto(calls[s], "write") EXCEPT !.base = table])
  /\ UNCHANGED <<table, mutex, serial>>

LoadFails(s) ==
  /\ At(s, "load")
  /\ Return(s, WrappedRelease(calls[s]), "err")
  /\ UNCHANGED <<table, serial>>

\* iceberg-go pulls a batch and writes it, or asks Err why there is none.
Write(s) ==
  /\ At(s, "write")
  /\ \E c \in WrappedNext(calls[s]) :
       Become(s, IF c.cur # None THEN [c EXCEPT !.files = Append(@, c.offered[c.cur])]
                 ELSE IF Err(c) THEN Finish(c, "err")
                 ELSE Goto(c, "commit"))
  /\ UNCHANGED <<table, mutex, serial>>

WriteFails(s) ==
  /\ At(s, "write")
  /\ Become(s, Finish(calls[s], "err"))
  /\ UNCHANGED <<table, mutex, serial>>

Onto(c, rows, new) == IF c.op = "append" THEN rows \o new ELSE new

\* The catalog swaps the metadata.  Its answer may get lost, which is not
\* retried.
Commit(s) ==
  /\ At(s, "commit")
  /\ calls[s].base = table
  /\ table' = Onto(calls[s], table, calls[s].files)
  /\ serial' = Onto(calls[s], serial, calls[s].offered)
  /\ \E r \in {"ok", "err"} : Become(s, Finish(calls[s], r))
  /\ UNCHANGED mutex

\* Someone else was faster: refresh and replay.
Conflict(s) ==
  /\ At(s, "commit")
  /\ calls[s].base # table
  /\ calls[s].replays < MaxReplays
  /\ Become(s, [calls[s] EXCEPT !.base = table, !.replays = @ + 1])
  /\ UNCHANGED <<table, mutex, serial>>

\* The catalog refuses, or the budget is spent.
CommitFails(s) ==
  /\ At(s, "commit")
  /\ Become(s, Finish(calls[s], "err"))
  /\ UNCHANGED <<table, mutex, serial>>

\* The deferred rdr.Release() of Append and Overwrite; InsertInto returns.
Returns(s) ==
  /\ At(s, "finish")
  /\ Return(s, WrappedRelease(calls[s]), calls[s].result)
  /\ UNCHANGED <<table, serial>>
-----------------------------------------------------------------------------
Step(s) ==
  \/ Lock(s) \/ FirstNext(s) \/ Load(s) \/ LoadFails(s) \/ Write(s) \/ WriteFails(s)
  \/ Commit(s) \/ Conflict(s) \/ CommitFails(s) \/ Returns(s)

Finished == (\A s \in Inserts : At(s, "done")) /\ UNCHANGED vars

Next ==
  \/ \E s \in Inserts, o \in Ops : Start(s, o)
  \/ \E s \in Inserts : OpenInput(s) \/ Step(s)
  \/ Finished

Spec == Init /\ [][Next]_vars

\* A running insert goes on, the engine opens inputs, and sync.Mutex starves
\* nobody.
Fairness ==
  \A s \in Inserts : WF_vars(OpenInput(s)) /\ WF_vars(Step(s)) /\ SF_vars(Lock(s))
-----------------------------------------------------------------------------
(* Properties *)

\* A batch is known by the insert it was made for and its number.
Batch == (Inserts \cup {NoInsert}) \X Nat
Call ==
  [pc : {"idle", "lock", "first", "load", "write", "commit", "finish", "done"},
   op : Ops, provider : Providers,
   input : {"unopened", "open", "ended", "failed"},
   offered : Seq(Batch), refs : Seq(Nat),
   inner : Nat, first : Nat, cur : Nat, rows : Nat, releases : Nat,
   base : Seq(Batch), files : Seq(Batch), replays : Nat,
   result : {"none", "ok", "err"}]
TypeOK ==
  /\ table \in Seq(Batch)
  /\ serial \in Seq(Batch)
  /\ mutex \in [Providers -> Inserts \cup {NoInsert}]
  /\ calls \in [Inserts -> Call]

\* Each batch has as many references as holders: the input stream, the first
\* batch, the view.
Holds(b, x) == IF x = b THEN 1 ELSE 0
RefsOf(c) ==
  \A b \in 1..Len(c.refs) :
    c.refs[b] = Holds(b, c.inner) + Holds(b, c.first) + Holds(b, c.cur)

\* Where the batches of a call are: each one delivered is in the data files, but
\* for the first, which waits for iceberg-go to ask for it.
BatchesOf(c) ==
  /\ c.inner <= Len(c.refs) /\ c.first <= Len(c.refs) /\ c.cur <= Len(c.refs)
  /\ Len(c.refs) <= Len(c.offered)
  /\ c.input = "ended" => Len(c.refs) = Len(c.offered)
  /\ c.pc \in {"idle", "lock", "first"} =>
       c.refs = <<>> /\ c.rows = 0 /\ c.files = <<>> /\ c.input \in {"unopened", "open"}
  /\ c.pc \in {"load", "write"} => c.input \in {"open", "ended"}
  /\ c.pc \in {"load", "write"} /\ c.first # None =>
       Len(c.refs) = 1 /\ c.cur = None /\ c.rows = 0 /\ c.files = <<>>
  /\ c.pc \in {"load", "write", "commit"} /\ c.first = None =>
       c.rows = Len(c.refs) /\ c.files = SubSeq(c.offered, 1, Len(c.refs))
  /\ c.pc = "commit" => c.input = "ended" /\ c.first = None

\* How a call ends: with all of its input if it is a success, and with nothing
\* in its hands.
EndOf(c) ==
  /\ c.pc \in {"finish", "done"} /\ c.result = "ok" =>
       c.input = "ended" /\ c.rows = Len(c.offered)
  /\ IF c.pc = "done"
     THEN c.releases = 1 /\ c.inner = None /\ c.first = None /\ c.cur = None
     ELSE c.releases = 0

CallInv(c) == RefsOf(c) /\ BatchesOf(c) /\ EndOf(c)

\* An insert holds its instance's mutex from Lock to its return.
Critical == {"first", "load", "write", "commit", "finish"}
MutexInv ==
  \A s \in Inserts : calls[s].pc \in Critical => mutex[calls[s].provider] = s

\* An insert through another instance has been started.
Rival(s) ==
  \E t \in Inserts : calls[t].pc # "idle" /\ calls[t].provider # calls[s].provider

\* The handle of an insert without a rival is never stale.
HandleInv ==
  \A s \in Inserts :
    /\ calls[s].pc \in {"write", "commit"} => calls[s].base = table \/ Rival(s)
    /\ calls[s].replays > 0 => Rival(s)

\* The inductive invariant of InsertInto (insert.go:44-95, 150-192).
IcebergInv ==
  /\ TypeOK
  /\ MutexInv
  /\ \A s \in Inserts : CallInv(calls[s])
  /\ HandleInv
  /\ table = serial

\* Each batch has as many references as holders, and a call that has returned
\* holds none and has released the input once (insert.go:45-76, 150-188).
RefsExact ==
  \A s \in Inserts :
    LET c == calls[s]
    IN /\ RefsOf(c)
       /\ c.pc = "done" => c.releases = 1 /\ {c.inner, c.first, c.cur} = {None}

\* The table is what the committed inserts make of it one by one, each with
\* every row of its input, once, also if the commit was tried again
\* (insert.go:33-38, openspec/specs/iceberg-table-provider/spec.md:241-264).
AsIfAlone == table = serial

\* A reported success has consumed the whole input and reports just that many
\* rows: an input error never passes for its end (insert.go:40-43, 166-192).
SuccessIsComplete ==
  \A s \in Inserts : LET c == calls[s] IN
    c.pc = "done" /\ c.result = "ok" =>
      c.input = "ended" /\ c.rows = Len(c.offered)

\* "avoids same-instance inserts burning iceberg-go's own commit-retry budget
\* against each other" (insert.go:25-28): a conflict is with an insert through
\* another instance.
NoSelfConflict == \A s \in Inserts : calls[s].replays > 0 => Rival(s)

\* Every insert returns, on every path (insert.go:44-95).
InsertsReturn == \A s \in Inserts : At(s, "lock") ~> At(s, "done")
=============================================================================
