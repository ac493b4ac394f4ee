----------------------------- MODULE CloudStore -----------------------------
(***************************************************************************)
(* The adapter shared by the S3, GCS and Azure backends (objectstore/      *)
(* internal/gocloudblob/gocloudblob.go).  The bucket is external: a PUT    *)
(* that succeeds replaces an object as a whole, one that fails or is       *)
(* cancelled replaces nothing.  An opened object knows its key and its     *)
(* size, and every ReadAt asks the bucket anew for a range of the key.     *)
(***************************************************************************)
EXTENDS Naturals

CONSTANTS
  Keys,      \* object keys
  Writers,   \* Writer handles, one Create each
  Readers,   \* Object handles, opened again and again
  MaxChunks  \* bound on the chunks written through a Writer

Absent == <<>>

VARIABLES
  bucket,    \* the object under each key, or Absent
  wkey,      \* the key of each writer, or Absent before Create
  uploaded,  \* chunks it has streamed
  pc,        \* each writer: "new", "open", "put", "cancelled" or "done"
  result,    \* what Close returned
  rkey,      \* the key each reader has opened, or Absent
  rsize,     \* the size Attributes reported
  version,   \* the object Attributes described
  seen       \* the objects its ranges came from

writerVars == <<wkey, uploaded, pc, result>>
readerVars == <<rkey, rsize, version, seen>>
vars == <<bucket, writerVars, readerVars>>

Init ==
  /\ bucket = [k \in Keys |-> Absent]
  /\ wkey = [w \in Writers |-> Absent]
  /\ uploaded = [w \in Writers |-> 0]
  /\ pc = [w \in Writers |-> "new"]
  /\ result = [w \in Writers |-> "none"]
  /\ rkey = [r \in Readers |-> Absent]
  /\ rsize = [r \in Readers |-> 0]
  /\ version = [r \in Readers |-> Absent]
  /\ seen = [r \in Readers |-> {}]

Create(w, k) ==
  /\ pc[w] = "new"
  /\ pc' = [pc EXCEPT ![w] = "open"]
  /\ wkey' = [wkey EXCEPT ![w] = <<k>>]
  /\ UNCHANGED <<bucket, uploaded, result, readerVars>>

Write(w) ==
  /\ pc[w] = "open"
  /\ uploaded[w] < MaxChunks
  /\ uploaded' = [uploaded EXCEPT ![w] = @ + 1]
  /\ UNCHANGED <<bucket, wkey, pc, result, readerVars>>

\* Close sets done and waits for the blob writer's Close.
Close(w) ==
  /\ pc[w] = "open"
  /\ pc' = [pc EXCEPT ![w] = "put"]
  /\ UNCHANGED <<bucket, wkey, uploaded, result, readerVars>>

Put(w) ==
  /\ pc[w] = "put"
  /\ bucket' = [bucket EXCEPT ![wkey[w][1]] = <<w, uploaded[w]>>]
  /\ pc' = [pc EXCEPT ![w] = "done"]
  /\ result' = [result EXCEPT ![w] = "ok"]
  /\ UNCHANGED <<wkey, uploaded, readerVars>>

PutFails(w) ==
  /\ pc[w] = "put"
  /\ pc' = [pc EXCEPT ![w] = "done"]
  /\ result' = [result EXCEPT ![w] = "err"]
  /\ UNCHANGED <<bucket, wkey, uploaded, readerVars>>

\* Abort cancels the upload's context ...
Abort(w) ==
  /\ pc[w] = "open"
  /\ pc' = [pc EXCEPT ![w] = "cancelled"]
  /\ UNCHANGED <<bucket, wkey, uploaded, result, readerVars>>

\* The blob writer of an aborted upload is closed with its context alive.
CloseUncancelled(w) ==
  /\ pc[w] = "cancelled"
  /\ bucket' = [bucket EXCEPT ![wkey[w][1]] = <<w, uploaded[w]>>]
  /\ pc' = [pc EXCEPT ![w] = "done"]
  /\ result' = [result EXCEPT ![w] = "aborted"]
  /\ UNCHANGED <<wkey, uploaded, readerVars>>

\* ... and closes the blob writer, which then fails.
CloseCancelled(w) ==
  /\ pc[w] = "cancelled"
  /\ pc' = [pc EXCEPT ![w] = "done"]
  /\ result' = [result EXCEPT ![w] = "aborted"]
  /\ UNCHANGED <<bucket, wkey, uploaded, readerVars>>

Remove(k) ==
  /\ bucket[k] # Absent
  /\ bucket' = [bucket EXCEPT ![k] = Absent]
  /\ UNCHANGED <<writerVars, readerVars>>

\* Open: one Attributes call.
Open(r, k) ==
  /\ rkey[r] = Absent
  /\ bucket[k] # Absent
  /\ rkey' = [rkey EXCEPT ![r] = <<k>>]
  /\ rsize' = [rsize EXCEPT ![r] = bucket[k][2]]
  /\ version' = [version EXCEPT ![r] = bucket[k]]
  /\ UNCHANGED <<bucket, writerVars, seen>>

\* rangeReaderAt.ReadAt of the i-th chunk: the range is cut out of whatever
\* the bucket holds under the key now.  A missing object is an error, and so
\* is one too short for the range (io.ReadFull).
ReadAt(r, i) ==
  /\ rkey[r] # Absent
  /\ i \in 1..rsize[r]
  /\ LET now == bucket[rkey[r][1]]
     IN now # Absent /\ i <= now[2] /\ seen' = [seen EXCEPT ![r] = @ \cup {now}]
  /\ UNCHANGED <<bucket, writerVars, rkey, rsize, version>>

CloseHandle(r) ==
  /\ rkey[r] # Absent
  /\ rkey' = [rkey EXCEPT ![r] = Absent]
  /\ rsize' = [rsize EXCEPT ![r] = 0]
  /\ version' = [version EXCEPT ![r] = Absent]
  /\ seen' = [seen EXCEPT ![r] = {}]
  /\ UNCHANGED <<bucket, writerVars>>

Next ==
  \/ \E w \in Writers, k \in Keys : Create(w, k)
  \/ \E w \in Writers :
       Write(w) \/ Close(w) \/ Put(w) \/ PutFails(w) \/ Abort(w) \/ CloseCancelled(w)
  \/ \E k \in Keys : Remove(k)
  \/ \E r \in Readers, k \in Keys : Open(r, k)
  \/ \E r \in Readers, i \in 1..MaxChunks : ReadAt(r, i)
  \/ \E r \in Readers : CloseHandle(r)

Spec == Init /\ [][Next]_vars
-----------------------------------------------------------------------------
(* Properties *)

AnyKey == CHOOSE k \in Keys : TRUE

\* What is written keeps the Store contract; readers are left out of it.
Contract == INSTANCE ObjectStore WITH
  Paths <- Keys,
  Readers <- {},
  objects <- bucket,
  durable <- bucket,
  wstate <- [w \in Writers |-> IF pc[w] = "new" THEN "new"
                               ELSE IF pc[w] # "done" THEN "open"
                               ELSE IF result[w] = "ok" THEN "committed"
                               ELSE "discarded"],
  target <- [w \in Writers |-> IF wkey[w] = Absent THEN AnyKey ELSE wkey[w][1]],
  written <- uploaded,
  opened <- [r \in {} |-> Absent],
  seen <- [r \in {} |-> {}]

\* An object changes only by a Remove or by the whole PUT of a writer whose
\* Close then returns nil: an aborted or failed upload never surfaces
\* (store.go:38-42, 66-81).
ImplementsWrites == Contract!StoreSpec

\* openspec/specs/object-store/spec.md:63: "a concurrent reader observes the
\* complete old bytes or the complete new bytes, never a mixture. On cloud
\* backends, the same per-object atomicity SHALL hold for readers".
ReaderSeesOneVersion == \A r \in Readers : \A u, v \in seen[r] : u = v
=============================================================================
