------------------------------ MODULE MemStore ------------------------------
(***************************************************************************)
(* The in-memory backend (objectstore/mem.go): a writer buffers, and its   *)
(* first Close or Abort, told apart by onceGuard (objectstore/             *)
(* writeguard.go), decides: Close swaps the map entry, Abort drops the     *)
(* buffer.  Callers may call both again, as `defer w.Abort()` does.        *)
(***************************************************************************)
EXTENDS Naturals

CONSTANTS
  Paths,     \* keys of the map
  Writers,   \* Writer handles, one Create each
  Readers,   \* Object handles, opened again and again
  MaxChunks  \* bound on the chunks written through a Writer

Absent == <<>>

VARIABLES
  objs,      \* the stored slice at each path, or Absent
  wpath,     \* the path of each writer, or Absent before Create
  buf,       \* chunks buffered by each writer
  done,      \* its guard
  result,    \* what passed the guard: "none" so far, "close" or "abort"
  obj,       \* the slice each reader has opened, or Absent
  seen       \* the slices its reads returned data of

vars == <<objs, wpath, buf, done, result, obj, seen>>

Init ==
  /\ objs = [p \in Paths |-> Absent]
  /\ wpath = [w \in Writers |-> Absent]
  /\ buf = [w \in Writers |-> 0]
  /\ done = [w \in Writers |-> FALSE]
  /\ result = [w \in Writers |-> "none"]
  /\ obj = [r \in Readers |-> Absent]
  /\ seen = [r \in Readers |-> {}]

Create(w, p) ==
  /\ wpath[w] = Absent
  /\ wpath' = [wpath EXCEPT ![w] = <<p>>]
  /\ UNCHANGED <<objs, buf, done, result, obj, seen>>

\* Callers do not write after Close or Abort.
Write(w) ==
  /\ wpath[w] # Absent
  /\ ~done[w]
  /\ buf[w] < MaxChunks
  /\ buf' = [buf EXCEPT ![w] = @ + 1]
  /\ UNCHANGED <<objs, wpath, done, result, obj, seen>>

\* A Close that does not ask the guard.
UnguardedClose(w) ==
  /\ wpath[w] # Absent
  /\ done' = [done EXCEPT ![w] = TRUE]
  /\ result' = [result EXCEPT ![w] = "close"]
  /\ objs' = [objs EXCEPT ![wpath[w][1]] = <<w, buf[w]>>]
  /\ UNCHANGED <<wpath, buf, obj, seen>>

\* Close: nothing happens after another Close or an Abort.
Close(w) ==
  /\ wpath[w] # Absent
  /\ done' = [done EXCEPT ![w] = TRUE]
  /\ result' = [result EXCEPT ![w] = IF done[w] THEN @ ELSE "close"]
  /\ objs' = IF done[w] THEN objs ELSE [objs EXCEPT ![wpath[w][1]] = <<w, buf[w]>>]
  /\ UNCHANGED <<wpath, buf, obj, seen>>

Abort(w) ==
  /\ wpath[w] # Absent
  /\ done' = [done EXCEPT ![w] = TRUE]
  /\ result' = [result EXCEPT ![w] = IF done[w] THEN @ ELSE "abort"]
  /\ UNCHANGED <<objs, wpath, buf, obj, seen>>

Remove(p) ==
  /\ objs[p] # Absent
  /\ objs' = [objs EXCEPT ![p] = Absent]
  /\ UNCHANGED <<wpath, buf, done, result, obj, seen>>

Open(r, p) ==
  /\ obj[r] = Absent
  /\ objs[p] # Absent
  /\ obj' = [obj EXCEPT ![r] = objs[p]]
  /\ UNCHANGED <<objs, wpath, buf, done, result, seen>>

\* A stored slice is never written to again, so a read sees it as it is.
Read(r) ==
  /\ obj[r] # Absent
  /\ seen' = [seen EXCEPT ![r] = @ \cup {obj[r]}]
  /\ UNCHANGED <<objs, wpath, buf, done, result, obj>>

CloseHandle(r) ==
  /\ obj[r] # Absent
  /\ obj' = [obj EXCEPT ![r] = Absent]
  /\ seen' = [seen EXCEPT ![r] = {}]
  /\ UNCHANGED <<objs, wpath, buf, done, result>>

Next ==
  \/ \E w \in Writers, p \in Paths : Create(w, p)
  \/ \E w \in Writers : Write(w) \/ Close(w) \/ Abort(w)
  \/ \E p \in Paths : Remove(p)
  \/ \E r \in Readers, p \in Paths : Open(r, p)
  \/ \E r \in Readers : Read(r) \/ CloseHandle(r)

Spec == Init /\ [][Next]_vars
-----------------------------------------------------------------------------
AnyPath == CHOOSE p \in Paths : TRUE

\* The backend keeps the Store contract however often Close and Abort are
\* called: a late Close must not put an old buffer over a newer object
\* (writeguard.go:3-8, store.go:66-81).  Nothing outlives the process.
Contract == INSTANCE ObjectStore WITH
  objects <- objs,
  durable <- [p \in Paths |-> Absent],
  wstate <- [w \in Writers |-> IF wpath[w] = Absent THEN "new"
                               ELSE IF result[w] = "none" THEN "open"
                               ELSE IF result[w] = "close" THEN "committed"
                               ELSE "discarded"],
  target <- [w \in Writers |-> IF wpath[w] = Absent THEN AnyPath ELSE wpath[w][1]],
  written <- buf,
  opened <- obj
ImplementsStore == Contract!StoreSpec
=============================================================================
