----------------------------- MODULE LocalStore -----------------------------
(***************************************************************************)
(* The local backend (objectstore/local.go): a writer fills a temp file in *)
(* the target's directory; Close syncs it, closes it and renames it over   *)
(* the target; Abort and a failing Close remove it.                        *)
(*                                                                         *)
(* The file system is external: a writer's temp file is an inode of its    *)
(* own, known by the writer; the directory and the files' data reach the   *)
(* disk when they are synced or when the system pleases (never a           *)
(* directory's changes out of order), and a crash of the machine keeps     *)
(* what has.  The process may also just stop.                              *)
(***************************************************************************)
EXTENDS Naturals

CONSTANTS
  Paths,      \* the objects' paths
  Writers,    \* Writer handles, one Create each
  Readers,    \* Object handles, opened again and again
  Nobody,     \* no inode
  MaxChunks,  \* bound on the chunks written through a Writer
  MaxStops    \* bound on the crashes

ASSUME LocalStoreAssumption ==
  /\ Nobody \notin Writers
  /\ Paths # {}
  /\ MaxChunks \in Nat /\ MaxStops \in Nat

VARIABLES
  link,       \* the inode linked at each path, or Nobody
  temp,       \* is the inode's temp name there?
  size,       \* chunks in each inode
  diskLink, diskTemp, diskSize,   \* what of them is on disk
  pc,         \* where each writer is
  path,       \* its target
  written,    \* the chunks its Write calls reported as written
  result,     \* what Close returned
  rpc,        \* where each reader is
  inode,      \* the inode a reader has opened
  objSize,    \* the size it reports
  seen,       \* the versions its reads returned data of
  stray,      \* temp files nobody is left to remove
  stops       \* number of crashes

dirVars == <<link, temp>>
fileVars == <<size>>
diskVars == <<diskLink, diskTemp, diskSize>>
writerVars == <<pc, path, written, result>>
readerVars == <<rpc, inode, objSize, seen>>
vars == <<dirVars, fileVars, diskVars, writerVars, readerVars, stray, stops>>

AnyPath == CHOOSE p \in Paths : TRUE

Init ==
  /\ link = [p \in Paths |-> Nobody] /\ diskLink = link
  /\ temp = [w \in Writers |-> FALSE] /\ diskTemp = temp
  /\ size = [w \in Writers |-> 0] /\ diskSize = size
  /\ pc = [w \in Writers |-> "new"]
  /\ path = [w \in Writers |-> AnyPath]
  /\ written = [w \in Writers |-> 0]
  /\ result = [w \in Writers |-> "none"]
  /\ rpc = [r \in Readers |-> "idle"]
  /\ inode = [r \in Readers |-> Nobody]
  /\ objSize = [r \in Readers |-> 0]
  /\ seen = [r \in Readers |-> {}]
  /\ stray = {}
  /\ stops = 0
-----------------------------------------------------------------------------
(* Writers *)

\* Create: os.CreateTemp
Create(w, p) ==
  /\ pc[w] = "new"
  /\ pc' = [pc EXCEPT ![w] = "open"]
  /\ path' = [path EXCEPT ![w] = p]
  /\ temp' = [temp EXCEPT ![w] = TRUE]
  /\ UNCHANGED <<link, fileVars, diskVars, written, result, readerVars, stray, stops>>

\* Write hands on to the file and returns what the file returns.  One that
\* fails at once changes nothing, one that fails part way has written the
\* chunks it reports; the caller goes on from the open state either way.
Write(w) ==
  /\ pc[w] = "open"
  /\ written[w] < MaxChunks
  /\ written' = [written EXCEPT ![w] = @ + 1]
  /\ size' = [size EXCEPT ![w] = @ + 1]
  /\ UNCHANGED <<dirVars, diskVars, pc, path, result, readerVars, stray, stops>>

\* Close and Abort pass the guard once; later calls return nil at once.
Close(w) ==
  /\ pc[w] = "open"
  /\ pc' = [pc EXCEPT ![w] = "sync"]
  /\ UNCHANGED <<dirVars, fileVars, diskVars, path, written, result, readerVars,
                 stray, stops>>

Abort(w) ==
  /\ pc[w] = "open"
  /\ pc' = [pc EXCEPT ![w] = "remove"]
  /\ UNCHANGED <<dirVars, fileVars, diskVars, path, written, result, readerVars,
                 stray, stops>>

\* A Close that does not sync.
UnsyncedClose(w) ==
  /\ pc[w] = "sync"
  /\ pc' = [pc EXCEPT ![w] = "close"]
  /\ UNCHANGED <<dirVars, fileVars, diskVars, path, written, result, readerVars,
                 stray, stops>>

\* w.file.Sync()
Sync(w) ==
  /\ pc[w] = "sync"
  /\ diskSize' = [diskSize EXCEPT ![w] = size[w]]
  /\ pc' = [pc EXCEPT ![w] = "close"]
  /\ UNCHANGED <<dirVars, fileVars, diskLink, diskTemp, path, written, result,
                 readerVars, stray, stops>>

\* w.file.Close()
CloseFile(w) ==
  /\ pc[w] = "close"
  /\ pc' = [pc EXCEPT ![w] = "rename"]
  /\ UNCHANGED <<dirVars, fileVars, diskVars, path, written, result, readerVars,
                 stray, stops>>

\* An error is returned with the temp file left where it is.
LeaveTemp(w) ==
  /\ pc[w] \in {"sync", "close", "rename"}
  /\ result' = [result EXCEPT ![w] = "err"]
  /\ pc' = [pc EXCEPT ![w] = "done"]
  /\ UNCHANGED <<dirVars, fileVars, diskVars, path, written, readerVars, stray,
                 stops>>

\* Syncing, closing or renaming fails: the deferred function takes over.
CloseFails(w) ==
  /\ pc[w] \in {"sync", "close", "rename"}
  /\ result' = [result EXCEPT ![w] = "err"]
  /\ pc' = [pc EXCEPT ![w] = "remove"]
  /\ UNCHANGED <<dirVars, fileVars, diskVars, path, written, readerVars, stray,
                 stops>>

\* os.Rename: the commit point.
Rename(w) ==
  /\ pc[w] = "rename"
  /\ link' = [link EXCEPT ![path[w]] = w]
  /\ temp' = [temp EXCEPT ![w] = FALSE]
  /\ result' = [result EXCEPT ![w] = "ok"]
  /\ pc' = [pc EXCEPT ![w] = "done"]
  /\ UNCHANGED <<fileVars, diskVars, path, written, readerVars, stray, stops>>

\* os.Remove(w.file.Name()), which may fail like any system call.
RemoveTemp(w) ==
  /\ pc[w] = "remove"
  /\ \/ temp' = [temp EXCEPT ![w] = FALSE] /\ UNCHANGED stray
     \/ stray' = stray \cup {w} /\ UNCHANGED temp
  /\ pc' = [pc EXCEPT ![w] = "done"]
  /\ UNCHANGED <<link, fileVars, diskVars, path, written, result, readerVars, stops>>

\* Remove
Remove(p) ==
  /\ link[p] # Nobody
  /\ link' = [link EXCEPT ![p] = Nobody]
  /\ UNCHANGED <<temp, fileVars, diskVars, writerVars, readerVars, stray, stops>>
-----------------------------------------------------------------------------
(* Readers *)

\* Open: os.Open ...
OpenFile(r, p) ==
  /\ rpc[r] = "idle"
  /\ link[p] # Nobody
  /\ rpc' = [rpc EXCEPT ![r] = "stat"]
  /\ inode' = [inode EXCEPT ![r] = link[p]]
  /\ UNCHANGED <<dirVars, fileVars, diskVars, writerVars, objSize, seen, stray, stops>>

\* ... and f.Stat().
Stat(r) ==
  /\ rpc[r] = "stat"
  /\ rpc' = [rpc EXCEPT ![r] = "open"]
  /\ objSize' = [objSize EXCEPT ![r] = size[inode[r]]]
  /\ UNCHANGED <<dirVars, fileVars, diskVars, writerVars, inode, seen, stray, stops>>

Read(r) ==
  /\ rpc[r] = "open"
  /\ seen' = [seen EXCEPT ![r] = @ \cup {<<inode[r], size[inode[r]]>>}]
  /\ UNCHANGED <<dirVars, fileVars, diskVars, writerVars, rpc, inode, objSize,
                 stray, stops>>

\* The handle is closed, by the caller or because Stat failed.
CloseHandle(r) ==
  /\ rpc[r] \in {"stat", "open"}
  /\ rpc' = [rpc EXCEPT ![r] = "idle"]
  /\ inode' = [inode EXCEPT ![r] = Nobody]
  /\ objSize' = [objSize EXCEPT ![r] = 0]
  /\ seen' = [seen EXCEPT ![r] = {}]
  /\ UNCHANGED <<dirVars, fileVars, diskVars, writerVars, stray, stops>>
-----------------------------------------------------------------------------
(* The system underneath *)

\* Data of inode w goes to disk on its own.
WriteBack(w) ==
  /\ diskSize[w] < size[w]
  /\ diskSize' = [diskSize EXCEPT ![w] = @ + 1]
  /\ UNCHANGED <<dirVars, fileVars, diskLink, diskTemp, writerVars, readerVars,
                 stray, stops>>

\* The directory goes to disk.
WriteDirectory ==
  /\ <<diskLink, diskTemp>> # dirVars
  /\ diskLink' = link
  /\ diskTemp' = temp
  /\ UNCHANGED <<dirVars, fileVars, diskSize, writerVars, readerVars, stray, stops>>

\* The process ends and comes back; what it had open is gone.
Stop(t) ==
  /\ stops < MaxStops
  /\ stops' = stops + 1
  /\ pc' = [w \in Writers |-> IF pc[w] = "new" THEN "new" ELSE "done"]
  /\ stray' = {w \in Writers : t[w]}
  /\ rpc' = [r \in Readers |-> "idle"]
  /\ inode' = [r \in Readers |-> Nobody]
  /\ objSize' = [r \in Readers |-> 0]
  /\ seen' = [r \in Readers |-> {}]
  /\ UNCHANGED <<path, written, result>>

Kill == Stop(temp) /\ UNCHANGED <<dirVars, fileVars, diskVars>>

\* The machine goes down: the disk is what is left.
Crash ==
  /\ Stop(diskTemp)
  /\ link' = diskLink
  /\ temp' = diskTemp
  /\ size' = diskSize
  /\ UNCHANGED diskVars

Next ==
  \/ \E w \in Writers, p \in Paths : Create(w, p)
  \/ \E w \in Writers :
       \/ Write(w) \/ Close(w) \/ Abort(w) \/ Sync(w) \/ CloseFile(w)
       \/ CloseFails(w) \/ Rename(w) \/ RemoveTemp(w) \/ WriteBack(w)
  \/ \E p \in Paths : Remove(p)
  \/ \E r \in Readers, p \in Paths : OpenFile(r, p)
  \/ \E r \in Readers : Stat(r) \/ Read(r) \/ CloseHandle(r)
  \/ WriteDirectory \/ Kill \/ Crash

Spec == Init /\ [][Next]_vars
-----------------------------------------------------------------------------
(* Properties *)

TypeOK ==
  /\ link \in [Paths -> Writers \cup {Nobody}]
  /\ temp \in [Writers -> BOOLEAN]
  /\ size \in [Writers -> 0..MaxChunks]
  /\ diskLink \in [Paths -> Writers \cup {Nobody}]
  /\ diskTemp \in [Writers -> BOOLEAN]
  /\ diskSize \in [Writers -> 0..MaxChunks]
  /\ pc \in [Writers -> {"new", "open", "sync", "close", "rename", "remove", "done"}]
  /\ path \in [Writers -> Paths]
  /\ written \in [Writers -> 0..MaxChunks]
  /\ result \in [Writers -> {"none", "ok", "err"}]
  /\ rpc \in [Readers -> {"idle", "stat", "open"}]
  /\ inode \in [Readers -> Writers \cup {Nobody}]
  /\ objSize \in [Readers -> 0..MaxChunks]
  /\ seen \in [Readers -> SUBSET (Writers \X (0..MaxChunks))]
  /\ stray \subseteq Writers
  /\ stops \in 0..MaxStops

\* The inode holds everything its writer was given, in memory and on disk,
\* and will not change any more.
Whole(w) == pc[w] = "done" /\ size[w] = written[w] /\ diskSize[w] = written[w]

\* Writers that are at work have lost nothing; past Sync it is all on disk.
WriterInv ==
  \A w \in Writers :
    /\ diskSize[w] <= size[w]
    /\ size[w] <= written[w]
    /\ pc[w] \in {"new", "open", "sync", "close", "rename"} => size[w] = written[w]
    /\ pc[w] \in {"close", "rename"} => diskSize[w] = written[w]
    /\ pc[w] = "new" => written[w] = 0
    /\ pc[w] # "done" => result[w] # "ok"

\* Whatever is linked at a path, now or on disk, or open, is whole.
LinkInv ==
  /\ \A p \in Paths :
       /\ link[p] # Nobody => Whole(link[p])
       /\ diskLink[p] # Nobody => Whole(diskLink[p])
  /\ \A r \in Readers :
       /\ rpc[r] # "idle" => inode[r] \in Writers /\ Whole(inode[r])
       /\ rpc[r] = "open" => objSize[r] = size[inode[r]]
       /\ rpc[r] = "idle" => inode[r] = Nobody
       /\ seen[r] \subseteq {<<inode[r], objSize[r]>>}
       /\ rpc[r] # "open" => seen[r] = {}

\* The inductive invariant behind commit-on-Close (local.go:60-65).
LocalStoreInv == TypeOK /\ WriterInv /\ LinkInv

\* No partial write is ever found at a path, not even after a crash at any
\* point of Close: what is there is the whole of what one writer was given
\* (store.go:66-69, local.go:60-65).
NeverPartial ==
  \A p \in Paths : link[p] # Nobody => size[link[p]] = written[link[p]]

\* A write that ends in an error or an abort leaves no temp file, unless the
\* process died or the removal itself failed (local.go:90-95, 111-117).
NoStrayTemps ==
  \A w \in Writers : pc[w] = "done" /\ temp[w] => w \in stray

\* The backend keeps the Store contract, crashes included.
VersionAt(l, n) ==
  [p \in Paths |-> IF l[p] = Nobody THEN <<>> ELSE <<l[p], n[l[p]]>>]
WriterState ==
  [w \in Writers |-> CASE pc[w] = "new" -> "new"
                      [] pc[w] \notin {"new", "done"} -> "open"
                      [] pc[w] = "done" ->
                           IF result[w] = "ok" THEN "committed" ELSE "discarded"]
Opened ==
  [r \in Readers |-> IF rpc[r] = "idle" THEN <<>> ELSE <<inode[r], size[inode[r]]>>]

Contract == INSTANCE ObjectStore WITH
  objects <- VersionAt(link, size),
  durable <- VersionAt(diskLink, diskSize),
  wstate <- WriterState, target <- path, opened <- Opened

\* An object changes only by a whole Close or a Remove, and an open handle
\* never sees another version (store.go:38-42, 66-69).
ImplementsStore == Contract!StoreSpec
=============================================================================
