--------------------------- MODULE StoresProofs ----------------------------
(***************************************************************************)
(* The three backends, for any paths, writers, readers, sizes and numbers  *)
(* of crashes: each implements ObjectStore.                                *)
(*                                                                         *)
(* LocalStore, first: everything rests on one fact per step, that a file   *)
(* that is whole stays whole (its writer is done, and memory and disk hold *)
(* all of it).  The other two publish in one step, and need to know only   *)
(* what their writers are.                                                 *)
(***************************************************************************)
EXTENDS MCStores, TLAPS

\* Before the first Create nothing is linked.
LEMMA LocalStoreInvInit == Init => LocalStoreInv
<1> SUFFICES ASSUME Init PROVE LocalStoreInv
  OBVIOUS
<1>1. TypeOK
  <2>1. AnyPath \in Paths
    BY LocalStoreAssumption DEF AnyPath
  <2>2. temp \in [Writers -> BOOLEAN] /\ diskTemp \in [Writers -> BOOLEAN]
    BY DEF Init
  <2>3. size \in [Writers -> 0..MaxChunks] /\ diskSize \in [Writers -> 0..MaxChunks]
    BY LocalStoreAssumption DEF Init
  <2>4. written \in [Writers -> 0..MaxChunks] /\ objSize \in [Readers -> 0..MaxChunks]
    BY LocalStoreAssumption DEF Init
  <2>5. stops \in 0..MaxStops /\ stray \subseteq Writers
    BY LocalStoreAssumption DEF Init
  <2>6. path \in [Writers -> Paths]
    BY <2>1 DEF Init
  <2> QED BY <2>2, <2>3, <2>4, <2>5, <2>6 DEF Init, TypeOK
<1>2. WriterInv
  BY DEF Init, WriterInv
<1>3. LinkInv
  BY DEF Init, LinkInv
<1> QED BY <1>1, <1>2, <1>3 DEF LocalStoreInv

\* A whole file stays whole, and keeps its size: Write, Sync and the rest touch
\* files whose writer is at work, and a crash leaves what is on disk.
LEMMA WholeStays ==
  ASSUME LocalStoreInv, [Next]_vars, NEW v \in Writers, Whole(v)
  PROVE  Whole(v)' /\ size'[v] = size[v]
<1> USE DEF LocalStoreInv, TypeOK, Whole, dirVars, fileVars, diskVars, writerVars
<1>1. ASSUME NEW w \in Writers, NEW p \in Paths, Create(w, p)
      PROVE  Whole(v)' /\ size'[v] = size[v]
  BY <1>1 DEF Create
<1>2. ASSUME NEW w \in Writers, Write(w) PROVE Whole(v)' /\ size'[v] = size[v]
  BY <1>2 DEF Write
<1>3. ASSUME NEW w \in Writers, Close(w) PROVE Whole(v)' /\ size'[v] = size[v]
  BY <1>3 DEF Close
<1>4. ASSUME NEW w \in Writers, Abort(w) PROVE Whole(v)' /\ size'[v] = size[v]
  BY <1>4 DEF Abort
<1>5. ASSUME NEW w \in Writers, Sync(w) PROVE Whole(v)' /\ size'[v] = size[v]
  BY <1>5 DEF Sync
<1>6. ASSUME NEW w \in Writers, CloseFile(w) PROVE Whole(v)' /\ size'[v] = size[v]
  BY <1>6 DEF CloseFile
<1>7. ASSUME NEW w \in Writers, CloseFails(w) PROVE Whole(v)' /\ size'[v] = size[v]
  BY <1>7 DEF CloseFails
<1>8. ASSUME NEW w \in Writers, Rename(w) PROVE Whole(v)' /\ size'[v] = size[v]
  BY <1>8 DEF Rename
<1>9. ASSUME NEW w \in Writers, RemoveTemp(w) PROVE Whole(v)' /\ size'[v] = size[v]
  BY <1>9 DEF RemoveTemp
<1>10. ASSUME NEW w \in Writers, WriteBack(w) PROVE Whole(v)' /\ size'[v] = size[v]
  BY <1>10 DEF WriteBack
<1>11. ASSUME NEW p \in Paths, Remove(p) PROVE Whole(v)' /\ size'[v] = size[v]
  BY <1>11 DEF Remove
<1>12. ASSUME NEW r \in Readers, NEW p \in Paths, OpenFile(r, p)
      PROVE  Whole(v)' /\ size'[v] = size[v]
  BY <1>12 DEF OpenFile
<1>13. ASSUME NEW r \in Readers, Stat(r) \/ Read(r) \/ CloseHandle(r)
      PROVE  Whole(v)' /\ size'[v] = size[v]
  BY <1>13 DEF Stat, Read, CloseHandle
<1>14. ASSUME WriteDirectory PROVE Whole(v)' /\ size'[v] = size[v]
  BY <1>14 DEF WriteDirectory
<1>15. ASSUME Kill PROVE Whole(v)' /\ size'[v] = size[v]
  BY <1>15 DEF Kill, Stop
<1>16. ASSUME Crash PROVE Whole(v)' /\ size'[v] = size[v]
  BY <1>16 DEF Crash, Stop
<1>17. ASSUME UNCHANGED vars PROVE Whole(v)' /\ size'[v] = size[v]
  BY <1>17 DEF vars
<1> QED
  BY <1>1, <1>2, <1>3, <1>4, <1>5, <1>6, <1>7, <1>8, <1>9, <1>10, <1>11,
     <1>12, <1>13, <1>14, <1>15, <1>16, <1>17 DEF Next

\* So a step that leaves the links and the readers alone keeps LinkInv.
LEMMA LinksKept ==
  ASSUME LocalStoreInv, [Next]_vars, UNCHANGED <<link, diskLink, readerVars>>
  PROVE  LinkInv'
<1>1. ASSUME NEW p \in Paths
      PROVE  /\ link'[p] # Nobody => Whole(link[p])'
             /\ diskLink'[p] # Nobody => Whole(diskLink[p])'
  <2>1. link[p] # Nobody => link[p] \in Writers /\ Whole(link[p])
    BY DEF LocalStoreInv, TypeOK, LinkInv
  <2>2. diskLink[p] # Nobody => diskLink[p] \in Writers /\ Whole(diskLink[p])
    BY DEF LocalStoreInv, TypeOK, LinkInv
  <2>3. ASSUME NEW v, v \in Writers, Whole(v) PROVE Whole(v)'
    BY <2>3, WholeStays
  <2> QED BY <2>1, <2>2, <2>3
<1>2. ASSUME NEW r \in Readers
      PROVE  /\ rpc'[r] # "idle" => inode'[r] \in Writers /\ Whole(inode[r])'
             /\ rpc'[r] = "open" => objSize'[r] = size'[inode'[r]]
             /\ rpc'[r] = "idle" => inode'[r] = Nobody
             /\ seen'[r] \subseteq {<<inode'[r], objSize'[r]>>}
             /\ rpc'[r] # "open" => seen'[r] = {}
  <2>1. rpc[r] # "idle" => inode[r] \in Writers /\ Whole(inode[r])
    BY DEF LocalStoreInv, LinkInv
  <2>2. rpc[r] # "idle" => Whole(inode[r])' /\ size'[inode[r]] = size[inode[r]]
    BY <2>1, WholeStays DEF readerVars
  <2> QED BY <2>1, <2>2 DEF LocalStoreInv, LinkInv, readerVars
<1> QED BY <1>1, <1>2 DEF LinkInv

\* Every step of a writer, a reader, the system or a crash keeps it.
LEMMA LocalStoreInvStep == LocalStoreInv /\ [Next]_vars => LocalStoreInv'
<1> SUFFICES ASSUME LocalStoreInv, [Next]_vars PROVE LocalStoreInv'
  OBVIOUS
<1> USE LocalStoreAssumption
    DEF LocalStoreInv, TypeOK, WriterInv, dirVars, fileVars, diskVars, writerVars
<1>1. ASSUME NEW w \in Writers, NEW p \in Paths, Create(w, p) PROVE LocalStoreInv'
  <2>1. TypeOK'
    BY <1>1 DEF Create, readerVars
  <2>2. WriterInv'
    BY <1>1 DEF Create
  <2>3. LinkInv'
    BY <1>1, LinksKept DEF Create
  <2> QED BY <2>1, <2>2, <2>3
<1>2. ASSUME NEW w \in Writers, Write(w) PROVE LocalStoreInv'
  <2>1. TypeOK'
    BY <1>2 DEF Write, readerVars
  <2>2. WriterInv'
    BY <1>2 DEF Write
  <2>3. LinkInv'
    BY <1>2, LinksKept DEF Write
  <2> QED BY <2>1, <2>2, <2>3
<1>3. ASSUME NEW w \in Writers, Close(w) PROVE LocalStoreInv'
  <2>1. TypeOK'
    BY <1>3 DEF Close, readerVars
  <2>2. WriterInv'
    BY <1>3 DEF Close
  <2>3. LinkInv'
    BY <1>3, LinksKept DEF Close
  <2> QED BY <2>1, <2>2, <2>3
<1>4. ASSUME NEW w \in Writers, Abort(w) PROVE LocalStoreInv'
  <2>1. TypeOK'
    BY <1>4 DEF Abort, readerVars
  <2>2. WriterInv'
    BY <1>4 DEF Abort
  <2>3. LinkInv'
    BY <1>4, LinksKept DEF Abort
  <2> QED BY <2>1, <2>2, <2>3
<1>5. ASSUME NEW w \in Writers, Sync(w) PROVE LocalStoreInv'
  <2>1. TypeOK'
    BY <1>5 DEF Sync, readerVars
  <2>2. WriterInv'
    BY <1>5 DEF Sync
  <2>3. LinkInv'
    BY <1>5, LinksKept DEF Sync
  <2> QED BY <2>1, <2>2, <2>3
<1>6. ASSUME NEW w \in Writers, CloseFile(w) PROVE LocalStoreInv'
  <2>1. TypeOK'
    BY <1>6 DEF CloseFile, readerVars
  <2>2. WriterInv'
    BY <1>6 DEF CloseFile
  <2>3. LinkInv'
    BY <1>6, LinksKept DEF CloseFile
  <2> QED BY <2>1, <2>2, <2>3
<1>7. ASSUME NEW w \in Writers, CloseFails(w) PROVE LocalStoreInv'
  <2>1. TypeOK'
    BY <1>7 DEF CloseFails, readerVars
  <2>2. WriterInv'
    BY <1>7 DEF CloseFails
  <2>3. LinkInv'
    BY <1>7, LinksKept DEF CloseFails
  <2> QED BY <2>1, <2>2, <2>3
<1>8. ASSUME NEW w \in Writers, Rename(w) PROVE LocalStoreInv'
  <2>1. TypeOK'
    BY <1>8 DEF Rename, readerVars
  <2>2. WriterInv'
    BY <1>8 DEF Rename
  <2>3. LinkInv'
    <3>1. /\ Whole(w)' /\ link'[path[w]] = w /\ diskLink' = diskLink
          /\ \A p \in Paths \ {path[w]} : link'[p] = link[p]
          /\ UNCHANGED <<rpc, inode, objSize, seen, size>>
      BY <1>8 DEF Rename, Whole, readerVars
    <3>2. ASSUME NEW p \in Paths
          PROVE  /\ link'[p] # Nobody => Whole(link[p])'
                 /\ diskLink'[p] # Nobody => Whole(diskLink[p])'
      <4>1. ASSUME NEW v, v \in Writers, Whole(v) PROVE Whole(v)'
        BY <4>1, WholeStays
      <4>2. diskLink[p] # Nobody => diskLink[p] \in Writers /\ Whole(diskLink[p])
        BY DEF LinkInv
      <4>3. link[p] # Nobody => link[p] \in Writers /\ Whole(link[p])
        BY DEF LinkInv
      <4> QED BY <3>1, <4>1, <4>2, <4>3 DEF Whole
    <3>3. \A r \in Readers : rpc[r] # "idle" => inode[r] \in Writers /\ Whole(inode[r])'
      BY <3>1, WholeStays DEF LinkInv, Whole
    <3> QED BY <3>1, <3>2, <3>3 DEF LinkInv
  <2> QED BY <2>1, <2>2, <2>3
<1>9. ASSUME NEW w \in Writers, RemoveTemp(w) PROVE LocalStoreInv'
  <2>1. TypeOK'
    BY <1>9 DEF RemoveTemp, readerVars
  <2>2. WriterInv'
    BY <1>9 DEF RemoveTemp
  <2>3. LinkInv'
    BY <1>9, LinksKept DEF RemoveTemp
  <2> QED BY <2>1, <2>2, <2>3
<1>10. ASSUME NEW w \in Writers, WriteBack(w) PROVE LocalStoreInv'
  <2>1. TypeOK'
    BY <1>10 DEF WriteBack, readerVars
  <2>2. WriterInv'
    BY <1>10 DEF WriteBack
  <2>3. LinkInv'
    BY <1>10, LinksKept DEF WriteBack
  <2> QED BY <2>1, <2>2, <2>3
<1>11. ASSUME NEW q \in Paths, Remove(q) PROVE LocalStoreInv'
  <2>1. TypeOK'
    BY <1>11 DEF Remove, readerVars
  <2>2. WriterInv'
    BY <1>11 DEF Remove
  <2>3. LinkInv'
    <3>1. ASSUME NEW p \in Paths
          PROVE  /\ link'[p] # Nobody => Whole(link[p])'
                 /\ diskLink'[p] # Nobody => Whole(diskLink[p])'
      BY <1>11 DEF Remove, Whole, LinkInv
    <3>2. ASSUME NEW r \in Readers
          PROVE  /\ rpc'[r] # "idle" => inode'[r] \in Writers /\ Whole(inode[r])'
                 /\ rpc'[r] = "open" => objSize'[r] = size'[inode'[r]]
                 /\ rpc'[r] = "idle" => inode'[r] = Nobody
                 /\ seen'[r] \subseteq {<<inode'[r], objSize'[r]>>}
                 /\ rpc'[r] # "open" => seen'[r] = {}
      BY <1>11 DEF Remove, Whole, LinkInv, readerVars
    <3> QED BY <3>1, <3>2 DEF LinkInv
  <2> QED BY <2>1, <2>2, <2>3
<1>12. ASSUME NEW o \in Readers, NEW q \in Paths, OpenFile(o, q) PROVE LocalStoreInv'
  <2>1. TypeOK'
    BY <1>12 DEF OpenFile, readerVars
  <2>2. WriterInv'
    BY <1>12 DEF OpenFile
  <2>3. LinkInv'
    <3>1. ASSUME NEW p \in Paths
          PROVE  /\ link'[p] # Nobody => Whole(link[p])'
                 /\ diskLink'[p] # Nobody => Whole(diskLink[p])'
      BY <1>12 DEF OpenFile, Whole, LinkInv
    <3>2. ASSUME NEW r \in Readers
          PROVE  /\ rpc'[r] # "idle" => inode'[r] \in Writers /\ Whole(inode[r])'
                 /\ rpc'[r] = "open" => objSize'[r] = size'[inode'[r]]
                 /\ rpc'[r] = "idle" => inode'[r] = Nobody
                 /\ seen'[r] \subseteq {<<inode'[r], objSize'[r]>>}
                 /\ rpc'[r] # "open" => seen'[r] = {}
      BY <1>12 DEF OpenFile, Whole, LinkInv, readerVars
    <3> QED BY <3>1, <3>2 DEF LinkInv
  <2> QED BY <2>1, <2>2, <2>3
<1>13. ASSUME NEW o \in Readers, Stat(o) PROVE LocalStoreInv'
  <2>1. TypeOK'
    <3>1. size[inode[o]] \in 0..MaxChunks
      BY <1>13 DEF Stat, LinkInv
    <3> QED BY <1>13, <3>1 DEF Stat, readerVars
  <2>2. WriterInv'
    BY <1>13 DEF Stat
  <2>3. LinkInv'
    <3>1. ASSUME NEW p \in Paths
          PROVE  /\ link'[p] # Nobody => Whole(link[p])'
                 /\ diskLink'[p] # Nobody => Whole(diskLink[p])'
      BY <1>13 DEF Stat, Whole, LinkInv
    <3>2. ASSUME NEW r \in Readers
          PROVE  /\ rpc'[r] # "idle" => inode'[r] \in Writers /\ Whole(inode[r])'
                 /\ rpc'[r] = "open" => objSize'[r] = size'[inode'[r]]
                 /\ rpc'[r] = "idle" => inode'[r] = Nobody
                 /\ seen'[r] \subseteq {<<inode'[r], objSize'[r]>>}
                 /\ rpc'[r] # "open" => seen'[r] = {}
      BY <1>13 DEF Stat, Whole, LinkInv, readerVars
    <3> QED BY <3>1, <3>2 DEF LinkInv
  <2> QED BY <2>1, <2>2, <2>3
<1>14. ASSUME NEW o \in Readers, Read(o) PROVE LocalStoreInv'
  <2>1. TypeOK'
    <3>1. inode[o] \in Writers /\ size[inode[o]] \in 0..MaxChunks
      BY <1>14 DEF Read, LinkInv
    <3> QED BY <1>14, <3>1 DEF Read, readerVars
  <2>2. WriterInv'
    BY <1>14 DEF Read
  <2>3. LinkInv'
    <3>1. ASSUME NEW p \in Paths
          PROVE  /\ link'[p] # Nobody => Whole(link[p])'
                 /\ diskLink'[p] # Nobody => Whole(diskLink[p])'
      BY <1>14 DEF Read, Whole, LinkInv
    <3>2. ASSUME NEW r \in Readers
          PROVE  /\ rpc'[r] # "idle" => inode'[r] \in Writers /\ Whole(inode[r])'
                 /\ rpc'[r] = "open" => objSize'[r] = size'[inode'[r]]
                 /\ rpc'[r] = "idle" => inode'[r] = Nobody
                 /\ seen'[r] \subseteq {<<inode'[r], objSize'[r]>>}
                 /\ rpc'[r] # "open" => seen'[r] = {}
      BY <1>14 DEF Read, Whole, LinkInv, readerVars
    <3> QED BY <3>1, <3>2 DEF LinkInv
  <2> QED BY <2>1, <2>2, <2>3
<1>15. ASSUME NEW o \in Readers, CloseHandle(o) PROVE LocalStoreInv'
  <2>1. TypeOK'
    BY <1>15 DEF CloseHandle, readerVars
  <2>2. WriterInv'
    BY <1>15 DEF CloseHandle
  <2>3. LinkInv'
    <3>1. ASSUME NEW p \in Paths
          PROVE  /\ link'[p] # Nobody => Whole(link[p])'
                 /\ diskLink'[p] # Nobody => Whole(diskLink[p])'
      BY <1>15 DEF CloseHandle, Whole, LinkInv
    <3>2. ASSUME NEW r \in Readers
          PROVE  /\ rpc'[r] # "idle" => inode'[r] \in Writers /\ Whole(inode[r])'
                 /\ rpc'[r] = "open" => objSize'[r] = size'[inode'[r]]
                 /\ rpc'[r] = "idle" => inode'[r] = Nobody
                 /\ seen'[r] \subseteq {<<inode'[r], objSize'[r]>>}
                 /\ rpc'[r] # "open" => seen'[r] = {}
      BY <1>15 DEF CloseHandle, Whole, LinkInv, readerVars
    <3> QED BY <3>1, <3>2 DEF LinkInv
  <2> QED BY <2>1, <2>2, <2>3
<1>16. ASSUME WriteDirectory PROVE LocalStoreInv'
  <2>1. TypeOK'
    BY <1>16 DEF WriteDirectory, readerVars
  <2>2. WriterInv'
    BY <1>16 DEF WriteDirectory
  <2>3. LinkInv'
    <3>1. ASSUME NEW p \in Paths
          PROVE  /\ link'[p] # Nobody => Whole(link[p])'
                 /\ diskLink'[p] # Nobody => Whole(diskLink[p])'
      BY <1>16 DEF WriteDirectory, Whole, LinkInv
    <3>2. ASSUME NEW r \in Readers
          PROVE  /\ rpc'[r] # "idle" => inode'[r] \in Writers /\ Whole(inode[r])'
                 /\ rpc'[r] = "open" => objSize'[r] = size'[inode'[r]]
                 /\ rpc'[r] = "idle" => inode'[r] = Nobody
                 /\ seen'[r] \subseteq {<<inode'[r], objSize'[r]>>}
                 /\ rpc'[r] # "open" => seen'[r] = {}
      BY <1>16 DEF WriteDirectory, Whole, LinkInv, readerVars
    <3> QED BY <3>1, <3>2 DEF LinkInv
  <2> QED BY <2>1, <2>2, <2>3
<1>17. ASSUME Kill PROVE LocalStoreInv'
  <2>1. TypeOK'
    BY <1>17 DEF Kill, Stop, readerVars
  <2>2. WriterInv'
    BY <1>17 DEF Kill, Stop
  <2>3. LinkInv'
    <3>1. ASSUME NEW p \in Paths
          PROVE  /\ link'[p] # Nobody => Whole(link[p])'
                 /\ diskLink'[p] # Nobody => Whole(diskLink[p])'
      BY <1>17 DEF Kill, Stop, Whole, LinkInv
    <3>2. ASSUME NEW r \in Readers
          PROVE  /\ rpc'[r] # "idle" => inode'[r] \in Writers /\ Whole(inode[r])'
                 /\ rpc'[r] = "open" => objSize'[r] = size'[inode'[r]]
                 /\ rpc'[r] = "idle" => inode'[r] = Nobody
                 /\ seen'[r] \subseteq {<<inode'[r], objSize'[r]>>}
                 /\ rpc'[r] # "open" => seen'[r] = {}
      BY <1>17 DEF Kill, Stop, Whole, LinkInv, readerVars
    <3> QED BY <3>1, <3>2 DEF LinkInv
  <2> QED BY <2>1, <2>2, <2>3
<1>18. ASSUME Crash PROVE LocalStoreInv'
  <2>1. TypeOK'
    BY <1>18 DEF Crash, Stop, readerVars
  <2>2. WriterInv'
    BY <1>18 DEF Crash, Stop
  <2>3. LinkInv'
    <3>1. ASSUME NEW p \in Paths
          PROVE  /\ link'[p] # Nobody => Whole(link[p])'
                 /\ diskLink'[p] # Nobody => Whole(diskLink[p])'
      BY <1>18 DEF Crash, Stop, Whole, LinkInv
    <3>2. ASSUME NEW r \in Readers
          PROVE  /\ rpc'[r] # "idle" => inode'[r] \in Writers /\ Whole(inode[r])'
                 /\ rpc'[r] = "open" => objSize'[r] = size'[inode'[r]]
                 /\ rpc'[r] = "idle" => inode'[r] = Nobody
                 /\ seen'[r] \subseteq {<<inode'[r], objSize'[r]>>}
                 /\ rpc'[r] # "open" => seen'[r] = {}
      BY <1>18 DEF Crash, Stop, Whole, LinkInv, readerVars
    <3> QED BY <3>1, <3>2 DEF LinkInv
  <2> QED BY <2>1, <2>2, <2>3
<1>19. ASSUME UNCHANGED vars PROVE LocalStoreInv'
  BY <1>19, LinksKept DEF vars, readerVars
<1> QED
  BY <1>1, <1>2, <1>3, <1>4, <1>5, <1>6, <1>7, <1>8, <1>9, <1>10, <1>11,
     <1>12, <1>13, <1>14, <1>15, <1>16, <1>17, <1>18, <1>19 DEF Next

\* Writers at work have lost nothing, and whatever is linked, on disk or open is
\* whole, for any writers, readers and crashes (local.go:60-65).
THEOREM LocalStoreInvariant == Spec => []LocalStoreInv
  BY LocalStoreInvInit, LocalStoreInvStep, PTL DEF Spec

\* No partial write is ever found at a path, whenever the process or the
\* machine went down (store.go:66-69, local.go:60-65).
THEOREM NoPartialObject == Spec => []NeverPartial
<1>1. LocalStoreInv => NeverPartial
  BY DEF LocalStoreInv, LinkInv, Whole, NeverPartial
<1> QED BY <1>1, LocalStoreInvariant, PTL
-----------------------------------------------------------------------------
(* Temp files *)

\* A failed or aborted write leaves no temp file unless the process died or the
\* removal itself failed (local.go:90-95, 111-117).
THEOREM TempsAreRemoved == Spec => []NoStrayTemps
<1>1. Init => NoStrayTemps
  BY DEF Init, NoStrayTemps
<1>2. ASSUME TypeOK, NoStrayTemps, [Next]_vars PROVE NoStrayTemps'
  <2> USE <1>2 DEF TypeOK, NoStrayTemps, dirVars, writerVars
  <2>1. ASSUME NEW w \in Writers, NEW p \in Paths, Create(w, p) PROVE NoStrayTemps'
    BY <2>1 DEF Create
  <2>2. ASSUME NEW w \in Writers,
               \/ Write(w) \/ Close(w) \/ Abort(w) \/ Sync(w) \/ CloseFile(w)
               \/ CloseFails(w) \/ WriteBack(w)
        PROVE  NoStrayTemps'
    BY <2>2 DEF Write, Close, Abort, Sync, CloseFile, CloseFails, WriteBack
  <2>3. ASSUME NEW w \in Writers, Rename(w) PROVE NoStrayTemps'
    BY <2>3 DEF Rename
  <2>4. ASSUME NEW w \in Writers, RemoveTemp(w) PROVE NoStrayTemps'
    BY <2>4 DEF RemoveTemp
  <2>5. ASSUME NEW p \in Paths, Remove(p) PROVE NoStrayTemps'
    BY <2>5 DEF Remove
  <2>6. ASSUME NEW r \in Readers, NEW p \in Paths, OpenFile(r, p) PROVE NoStrayTemps'
    BY <2>6 DEF OpenFile
  <2>7. ASSUME NEW r \in Readers, Stat(r) \/ Read(r) \/ CloseHandle(r)
        PROVE  NoStrayTemps'
    BY <2>7 DEF Stat, Read, CloseHandle
  <2>8. ASSUME WriteDirectory PROVE NoStrayTemps'
    BY <2>8 DEF WriteDirectory
  <2>9. ASSUME Kill \/ Crash PROVE NoStrayTemps'
    BY <2>9 DEF Kill, Crash, Stop
  <2>10. ASSUME UNCHANGED vars PROVE NoStrayTemps'
    BY <2>10 DEF vars
  <2> QED
    BY <1>2, <2>1, <2>2, <2>3, <2>4, <2>5, <2>6, <2>7, <2>8, <2>9, <2>10 DEF Next
<1>3. LocalStoreInv => TypeOK
  BY DEF LocalStoreInv
<1> QED BY <1>1, <1>2, <1>3, LocalStoreInvariant, PTL DEF Spec
-----------------------------------------------------------------------------
(* Refinement of ObjectStore *)

\* An empty directory is an empty store.
LEMMA StoreInitMaps == Init => Contract!StoreInit
<1> SUFFICES ASSUME Init PROVE Contract!StoreInit
  OBVIOUS
<1>1. /\ VersionAt(link, size) = [p \in Paths |-> <<>>]
      /\ VersionAt(diskLink, diskSize) = [p \in Paths |-> <<>>]
  BY DEF Init, VersionAt
<1>2. WriterState = [w \in Writers |-> "new"] /\ Opened = [r \in Readers |-> <<>>]
  BY DEF Init, WriterState, Opened
<1> QED BY <1>1, <1>2 DEF Init, Contract!StoreInit, Contract!Absent, Contract!AnyPath, AnyPath

\* The versions at the paths, on disk and in the readers' hands change only when
\* a link or a handle does.
LEMMA VersionsKept ==
  ASSUME LocalStoreInv, [Next]_vars
  PROVE  /\ link' = link => VersionAt(link, size)' = VersionAt(link, size)
         /\ diskLink' = diskLink =>
              VersionAt(diskLink, diskSize)' = VersionAt(diskLink, diskSize)
         /\ UNCHANGED <<rpc, inode>> => Opened' = Opened
<1>1. ASSUME NEW v, v \in Writers, Whole(v)
      PROVE  size'[v] = size[v] /\ diskSize'[v] = diskSize[v]
  BY <1>1, WholeStays DEF Whole
<1>2. \A p \in Paths : link[p] # Nobody => link[p] \in Writers /\ Whole(link[p])
  BY DEF LocalStoreInv, TypeOK, LinkInv
<1>3. \A p \in Paths :
        diskLink[p] # Nobody => diskLink[p] \in Writers /\ Whole(diskLink[p])
  BY DEF LocalStoreInv, TypeOK, LinkInv
<1>4. \A r \in Readers : rpc[r] # "idle" => inode[r] \in Writers /\ Whole(inode[r])
  BY DEF LocalStoreInv, LinkInv
<1>5. link' = link => VersionAt(link, size)' = VersionAt(link, size)
  BY <1>1, <1>2 DEF VersionAt
<1>6. diskLink' = diskLink =>
        VersionAt(diskLink, diskSize)' = VersionAt(diskLink, diskSize)
  BY <1>1, <1>3 DEF VersionAt
<1>7. UNCHANGED <<rpc, inode>> => Opened' = Opened
  BY <1>1, <1>4 DEF Opened
<1> QED BY <1>5, <1>6, <1>7

\* Every step of the backend is a step of the contract or none at all: Rename
\* is its Commit, RemoveTemp its Discard, WriteDirectory its Settle, Kill and
\* Crash its Stop.
LEMMA StoreStepMaps ==
  LocalStoreInv /\ [Next]_vars => [Contract!StoreNext]_(Contract!storeVars)
<1> SUFFICES ASSUME LocalStoreInv, [Next]_vars
             PROVE  [Contract!StoreNext]_(Contract!storeVars)
  OBVIOUS
<1> USE DEF dirVars, fileVars, diskVars, writerVars, readerVars
<1>0. TypeOK /\ WriterInv /\ LinkInv
  BY DEF LocalStoreInv
<1>1. ASSUME NEW w \in Writers, NEW p \in Paths, Create(w, p)
      PROVE  [Contract!StoreNext]_(Contract!storeVars)
  <2>1. /\ WriterState[w] = "new"
        /\ WriterState' = [WriterState EXCEPT ![w] = "open"]
    BY <1>0, <1>1 DEF Create, WriterState, TypeOK
  <2>2. Contract!Create(w, p)
    BY <1>1, <2>1, VersionsKept DEF Create, Contract!Create
  <2> QED BY <2>2 DEF Contract!StoreNext
<1>2. ASSUME NEW w \in Writers, Write(w)
      PROVE  [Contract!StoreNext]_(Contract!storeVars)
  <2>1. WriterState[w] = "open" /\ WriterState' = WriterState
    BY <1>0, <1>2 DEF Write, WriterState, TypeOK
  <2>2. Contract!Write(w)
    BY <1>2, <2>1, VersionsKept DEF Write, Contract!Write
  <2> QED BY <2>2 DEF Contract!StoreNext
<1>3. ASSUME NEW w \in Writers,
             \/ Close(w) \/ Abort(w) \/ Sync(w) \/ CloseFile(w) \/ CloseFails(w)
      PROVE  [Contract!StoreNext]_(Contract!storeVars)
  <2>1. WriterState' = WriterState
    BY <1>0, <1>3
    DEF Close, Abort, Sync, CloseFile, CloseFails, WriterState, TypeOK
  <2> QED
    BY <1>3, <2>1, VersionsKept
    DEF Close, Abort, Sync, CloseFile, CloseFails, Contract!storeVars
<1>4. ASSUME NEW w \in Writers, Rename(w)
      PROVE  [Contract!StoreNext]_(Contract!storeVars)
  <2>1. /\ WriterState[w] = "open"
        /\ WriterState' = [WriterState EXCEPT ![w] = "committed"]
    BY <1>0, <1>4 DEF Rename, WriterState, TypeOK
  <2>2. VersionAt(link, size)'
          = [VersionAt(link, size) EXCEPT ![path[w]] = <<w, written[w]>>]
    <3>1. size[w] = written[w] /\ size' = size /\ path[w] \in Paths /\ w # Nobody
      BY <1>0, <1>4, LocalStoreAssumption DEF Rename, WriterInv, TypeOK
    <3>2. /\ link'[path[w]] = w
          /\ \A p \in Paths \ {path[w]} : link'[p] = link[p]
      BY <1>0, <1>4, <3>1 DEF Rename, TypeOK
    <3> QED BY <3>1, <3>2 DEF VersionAt
  <2>3. Contract!Commit(w)
    BY <1>4, <2>1, <2>2, VersionsKept DEF Rename, Contract!Commit, Contract!Publish
  <2> QED BY <2>3 DEF Contract!StoreNext
<1>5. ASSUME NEW w \in Writers, RemoveTemp(w)
      PROVE  [Contract!StoreNext]_(Contract!storeVars)
  <2>1. /\ WriterState[w] = "open"
        /\ WriterState' = [WriterState EXCEPT ![w] = "discarded"]
    BY <1>0, <1>5 DEF RemoveTemp, WriterState, WriterInv, TypeOK
  <2>2. Contract!Discard(w)
    BY <1>5, <2>1, VersionsKept DEF RemoveTemp, Contract!Discard
  <2> QED BY <2>2 DEF Contract!StoreNext
<1>6. ASSUME NEW w \in Writers, WriteBack(w)
      PROVE  [Contract!StoreNext]_(Contract!storeVars)
  <2>1. WriterState' = WriterState
    BY <1>6 DEF WriteBack, WriterState
  <2> QED BY <1>6, <2>1, VersionsKept DEF WriteBack, Contract!storeVars
<1>7. ASSUME NEW p \in Paths, Remove(p)
      PROVE  [Contract!StoreNext]_(Contract!storeVars)
  <2>1. VersionAt(link, size)[p] # <<>>
    BY <1>7 DEF Remove, VersionAt
  <2>2. VersionAt(link, size)' = [VersionAt(link, size) EXCEPT ![p] = <<>>]
    BY <1>0, <1>7 DEF Remove, VersionAt, TypeOK
  <2>3. WriterState' = WriterState
    BY <1>7 DEF Remove, WriterState
  <2>4. Contract!Remove(p)
    BY <1>7, <2>1, <2>2, <2>3, VersionsKept
    DEF Remove, Contract!Remove, Contract!Publish, Contract!Absent
  <2> QED BY <2>4 DEF Contract!StoreNext
<1>8. ASSUME NEW r \in Readers, NEW p \in Paths, OpenFile(r, p)
      PROVE  [Contract!StoreNext]_(Contract!storeVars)
  <2>1. /\ Opened[r] = <<>>
        /\ Opened' = [Opened EXCEPT ![r] = VersionAt(link, size)[p]]
    BY <1>0, <1>8 DEF OpenFile, Opened, VersionAt, TypeOK
  <2>2. VersionAt(link, size)[p] # <<>>
    BY <1>8 DEF OpenFile, VersionAt
  <2>3. WriterState' = WriterState
    BY <1>8 DEF OpenFile, WriterState
  <2>4. Contract!Open(r, p)
    BY <1>8, <2>1, <2>2, <2>3, VersionsKept DEF OpenFile, Contract!Open, Contract!Absent
  <2> QED BY <2>4 DEF Contract!StoreNext
<1>9. ASSUME NEW r \in Readers, Stat(r)
      PROVE  [Contract!StoreNext]_(Contract!storeVars)
  <2>1. WriterState' = WriterState /\ Opened' = Opened
    BY <1>0, <1>9 DEF Stat, WriterState, Opened, TypeOK
  <2> QED BY <1>9, <2>1, VersionsKept DEF Stat, Contract!storeVars
<1>10. ASSUME NEW r \in Readers, Read(r)
      PROVE  [Contract!StoreNext]_(Contract!storeVars)
  <2>1. Opened[r] = <<inode[r], size[inode[r]]>> /\ Opened[r] # <<>>
    BY <1>10 DEF Read, Opened
  <2>2. WriterState' = WriterState
    BY <1>10 DEF Read, WriterState
  <2>3. Contract!Read(r)
    BY <1>10, <2>1, <2>2, VersionsKept DEF Read, Contract!Read, Contract!Absent
  <2> QED BY <2>3 DEF Contract!StoreNext
<1>11. ASSUME NEW r \in Readers, CloseHandle(r)
      PROVE  [Contract!StoreNext]_(Contract!storeVars)
  <2>1. Opened[r] # <<>> /\ Opened' = [Opened EXCEPT ![r] = <<>>]
    BY <1>0, <1>11 DEF CloseHandle, Opened, TypeOK
  <2>2. WriterState' = WriterState
    BY <1>11 DEF CloseHandle, WriterState
  <2>3. Contract!CloseHandle(r)
    BY <1>11, <2>1, <2>2, VersionsKept
    DEF CloseHandle, Contract!CloseHandle, Contract!Absent
  <2> QED BY <2>3 DEF Contract!StoreNext
<1>12. ASSUME WriteDirectory
      PROVE  [Contract!StoreNext]_(Contract!storeVars)
  <2>1. VersionAt(diskLink, diskSize)' = VersionAt(link, size)
    <3>1. \A p \in Paths : link[p] # Nobody => diskSize[link[p]] = size[link[p]]
      BY <1>0 DEF LinkInv, Whole
    <3> QED BY <1>12, <3>1 DEF WriteDirectory, VersionAt
  <2>2. WriterState' = WriterState
    BY <1>12 DEF WriteDirectory, WriterState
  <2>3. Contract!Settle
    BY <1>12, <2>1, <2>2, VersionsKept DEF WriteDirectory, Contract!Settle
  <2> QED BY <2>3 DEF Contract!StoreNext
<1>13. ASSUME Kill
      PROVE  [Contract!StoreNext]_(Contract!storeVars)
  <2>1. /\ WriterState' = [w \in Writers |-> IF WriterState[w] = "open" THEN "discarded"
                                               ELSE WriterState[w]]
        /\ Opened' = [r \in Readers |-> <<>>]
    BY <1>0, <1>13 DEF Kill, Stop, WriterState, Opened, WriterInv, TypeOK
  <2>2. Contract!Stop(VersionAt(link, size))
    BY <1>13, <2>1, VersionsKept DEF Kill, Stop, Contract!Stop, Contract!Absent
  <2> QED BY <2>2 DEF Contract!StoreNext
<1>14. ASSUME Crash
      PROVE  [Contract!StoreNext]_(Contract!storeVars)
  <2>1. /\ WriterState' = [w \in Writers |-> IF WriterState[w] = "open" THEN "discarded"
                                               ELSE WriterState[w]]
        /\ Opened' = [r \in Readers |-> <<>>]
    BY <1>0, <1>14 DEF Crash, Stop, WriterState, Opened, WriterInv, TypeOK
  <2>2. VersionAt(link, size)' = VersionAt(diskLink, diskSize)
    BY <1>14 DEF Crash, VersionAt
  <2>3. Contract!Stop(VersionAt(diskLink, diskSize))
    BY <1>14, <2>1, <2>2, VersionsKept DEF Crash, Stop, Contract!Stop, Contract!Absent
  <2> QED BY <2>3 DEF Contract!StoreNext
<1>15. ASSUME UNCHANGED vars
      PROVE  [Contract!StoreNext]_(Contract!storeVars)
  BY <1>15 DEF vars, VersionAt, WriterState, Opened, Contract!storeVars
<1> QED
  BY <1>1, <1>2, <1>3, <1>4, <1>5, <1>6, <1>7, <1>8, <1>9, <1>10, <1>11, <1>12, <1>13, <1>14, <1>15
  DEF Next

\* The local backend keeps the Store contract through every crash: an object
\* changes only by a whole Close or a Remove, and an open handle never sees
\* another version (store.go:38-42, 66-69).
THEOREM LocalImplementsStore == Spec => ImplementsStore
  BY StoreInitMaps, StoreStepMaps, LocalStoreInvariant, PTL
  DEF Spec, ImplementsStore, Contract!StoreSpec
-----------------------------------------------------------------------------
(* The in-memory backend *)

\* A writer that has passed its guard has a path, and what passed it is known.
MemInv ==
  /\ objs \in [Paths -> {<<>>} \cup (Writers \X Nat)]
  /\ wpath \in [Writers -> {<<>>} \cup {<<p>> : p \in Paths}]
  /\ buf \in [Writers -> Nat]
  /\ done \in [Writers -> BOOLEAN]
  /\ memResult \in [Writers -> {"none", "close", "abort"}]
  /\ obj \in [Readers -> {<<>>} \cup (Writers \X Nat)]
  /\ memSeen \in [Readers -> SUBSET (Writers \X Nat)]
  /\ \A w \in Writers :
       /\ done[w] <=> memResult[w] # "none"
       /\ done[w] => wpath[w] # <<>>

\* Nothing has been written at the start.
LEMMA MemInvInit == Mem!Init => MemInv
  BY DEF Mem!Init, Mem!Absent, MemInv

\* The guard lets one Close or Abort of a writer through.
LEMMA MemInvStep == MemInv /\ [Mem!Next]_(Mem!vars) => MemInv'
<1> SUFFICES ASSUME MemInv, [Mem!Next]_(Mem!vars) PROVE MemInv'
  OBVIOUS
<1> USE DEF Mem!Absent
<1>1. ASSUME NEW w \in Writers, NEW p \in Paths, Mem!Create(w, p) PROVE MemInv'
  BY <1>1 DEF MemInv, Mem!Create
<1>2. ASSUME NEW w \in Writers, Mem!Write(w) PROVE MemInv'
  BY <1>2 DEF MemInv, Mem!Write
<1>3. ASSUME NEW w \in Writers, Mem!Close(w) PROVE MemInv'
  <2>1. wpath[w][1] \in Paths /\ <<w, buf[w]>> \in Writers \X Nat
    BY <1>3 DEF MemInv, Mem!Close
  <2> QED BY <1>3, <2>1 DEF MemInv, Mem!Close
<1>4. ASSUME NEW w \in Writers, Mem!Abort(w) PROVE MemInv'
  BY <1>4 DEF MemInv, Mem!Abort
<1>5. ASSUME NEW p \in Paths, Mem!Remove(p) PROVE MemInv'
  BY <1>5 DEF MemInv, Mem!Remove
<1>6. ASSUME NEW r \in Readers, NEW p \in Paths, Mem!Open(r, p) PROVE MemInv'
  BY <1>6 DEF MemInv, Mem!Open
<1>7. ASSUME NEW r \in Readers, Mem!Read(r) PROVE MemInv'
  BY <1>7 DEF MemInv, Mem!Read
<1>8. ASSUME NEW r \in Readers, Mem!CloseHandle(r) PROVE MemInv'
  BY <1>8 DEF MemInv, Mem!CloseHandle
<1>9. CASE UNCHANGED Mem!vars
  BY <1>9 DEF MemInv, Mem!vars
<1> QED BY <1>1, <1>2, <1>3, <1>4, <1>5, <1>6, <1>7, <1>8, <1>9 DEF Mem!Next

\* The contract's view of the writers: MemStore's refinement mapping.
MemState ==
  [w \in Writers |-> IF wpath[w] = Mem!Absent THEN "new"
                     ELSE IF memResult[w] = "none" THEN "open"
                     ELSE IF memResult[w] = "close" THEN "committed"
                     ELSE "discarded"]
MemTarget ==
  [w \in Writers |-> IF wpath[w] = Mem!Absent THEN Mem!AnyPath ELSE wpath[w][1]]

\* A store nobody has written to is an empty store of the contract.
LEMMA MemInitMaps == Mem!Init => Mem!Contract!StoreInit
<1> SUFFICES ASSUME Mem!Init PROVE Mem!Contract!StoreInit
  OBVIOUS
<1> USE DEF Mem!Absent, Mem!Contract!Absent
<1>1. MemState = [w \in Writers |-> "new"]
  BY DEF Mem!Init, MemState
<1>2. MemTarget = [w \in Writers |-> Mem!Contract!AnyPath]
  <2>1. \A w \in Writers : wpath[w] = <<>>
    BY DEF Mem!Init
  <2>2. Mem!AnyPath = Mem!Contract!AnyPath
    BY DEF Mem!AnyPath, Mem!Contract!AnyPath
  <2> QED BY <2>1, <2>2 DEF MemTarget
<1> QED BY <1>1, <1>2 DEF Mem!Init, Mem!Contract!StoreInit, MemState, MemTarget

\* Every step of the in-memory backend is a step of the contract, or changes
\* nothing it speaks of: the second Close or Abort of a writer.
LEMMA MemStepMaps ==
  MemInv /\ [Mem!Next]_(Mem!vars) => [Mem!Contract!StoreNext]_(Mem!Contract!storeVars)
<1> SUFFICES ASSUME MemInv, [Mem!Next]_(Mem!vars)
             PROVE  [Mem!Contract!StoreNext]_(Mem!Contract!storeVars)
  OBVIOUS
<1> USE DEF Mem!Absent, Mem!Contract!Absent
<1>1. ASSUME NEW w \in Writers, NEW p \in Paths, Mem!Create(w, p)
      PROVE  Mem!Contract!Create(w, p)
  <2>0. /\ memResult[w] = "none" /\ memResult' = memResult /\ wpath[w] = <<>>
        /\ wpath'[w] = <<p>> /\ wpath'[w] # <<>> /\ wpath'[w][1] = p
        /\ \A v \in Writers \ {w} : wpath'[v] = wpath[v]
    BY <1>1 DEF MemInv, Mem!Create
  <2>1. MemState[w] = "new" /\ MemState' = [MemState EXCEPT ![w] = "open"]
    BY <2>0 DEF MemState
  <2>2. MemTarget' = [MemTarget EXCEPT ![w] = p]
    BY <2>0 DEF MemTarget
  <2> QED BY <1>1, <2>1, <2>2 DEF Mem!Create, Mem!Contract!Create, MemState, MemTarget
<1>2. ASSUME NEW w \in Writers, Mem!Write(w) PROVE Mem!Contract!Write(w)
  <2>1. MemState[w] = "open"
    BY <1>2 DEF MemInv, Mem!Write, MemState
  <2> QED BY <1>2, <2>1 DEF Mem!Write, Mem!Contract!Write, MemState
<1>3. ASSUME NEW w \in Writers, Mem!Close(w), ~done[w] PROVE Mem!Contract!Commit(w)
  <2>1. /\ MemState[w] = "open" /\ MemState' = [MemState EXCEPT ![w] = "committed"]
        /\ MemTarget[w] = wpath[w][1]
    BY <1>3 DEF MemInv, Mem!Close, MemState, MemTarget
  <2> QED BY <1>3, <2>1
          DEF Mem!Close, Mem!Contract!Commit, Mem!Contract!Publish, MemState, MemTarget
<1>4. ASSUME NEW w \in Writers, Mem!Abort(w), ~done[w] PROVE Mem!Contract!Discard(w)
  <2>1. MemState[w] = "open" /\ MemState' = [MemState EXCEPT ![w] = "discarded"]
    BY <1>4 DEF MemInv, Mem!Abort, MemState
  <2> QED BY <1>4, <2>1 DEF Mem!Abort, Mem!Contract!Discard, MemState
<1>5. ASSUME NEW w \in Writers, Mem!Close(w) \/ Mem!Abort(w), done[w]
      PROVE  UNCHANGED Mem!Contract!storeVars
  <2>1. memResult' = memResult
    BY <1>5 DEF MemInv, Mem!Close, Mem!Abort
  <2> QED BY <1>5, <2>1 DEF Mem!Close, Mem!Abort, Mem!Contract!storeVars
<1>6. ASSUME NEW p \in Paths, Mem!Remove(p) PROVE Mem!Contract!Remove(p)
  BY <1>6 DEF Mem!Remove, Mem!Contract!Remove, Mem!Contract!Publish
<1>7. ASSUME NEW r \in Readers, NEW p \in Paths, Mem!Open(r, p)
      PROVE  Mem!Contract!Open(r, p)
  BY <1>7 DEF Mem!Open, Mem!Contract!Open
<1>8. ASSUME NEW r \in Readers, Mem!Read(r) PROVE Mem!Contract!Read(r)
  BY <1>8 DEF Mem!Read, Mem!Contract!Read
<1>9. ASSUME NEW r \in Readers, Mem!CloseHandle(r) PROVE Mem!Contract!CloseHandle(r)
  BY <1>9 DEF Mem!CloseHandle, Mem!Contract!CloseHandle
<1>10. CASE UNCHANGED Mem!vars
  BY <1>10 DEF Mem!vars, Mem!Contract!storeVars
<1> QED BY <1>1, <1>2, <1>3, <1>4, <1>5, <1>6, <1>7, <1>8, <1>9, <1>10
        DEF Mem!Next, Mem!Contract!StoreNext
-----------------------------------------------------------------------------
(* The cloud adapter *)

\* A writer has a key from its Create on, and Close or Abort have a result when
\* it is done.
CloudInv ==
  /\ wkey \in [Writers -> {<<>>} \cup {<<k>> : k \in Paths}]
  /\ uploaded \in [Writers -> Nat]
  /\ cloudPC \in [Writers -> {"new", "open", "put", "cancelled", "done"}]
  /\ cloudResult \in [Writers -> {"none", "ok", "err", "aborted"}]
  /\ bucket \in [Paths -> {<<>>} \cup (Writers \X Nat)]
  /\ \A w \in Writers : cloudPC[w] = "new" <=> wkey[w] = <<>>

\* Nothing has been uploaded at the start.
LEMMA CloudInvInit == Cloud!Init => CloudInv
  BY DEF Cloud!Init, Cloud!Absent, CloudInv

LEMMA CloudInvStep == CloudInv /\ [Cloud!Next]_(Cloud!vars) => CloudInv'
<1> SUFFICES ASSUME CloudInv, [Cloud!Next]_(Cloud!vars) PROVE CloudInv'
  OBVIOUS
<1> USE DEF Cloud!Absent, Cloud!writerVars, Cloud!readerVars
<1>1. ASSUME NEW w \in Writers, NEW k \in Paths, Cloud!Create(w, k) PROVE CloudInv'
  BY <1>1 DEF CloudInv, Cloud!Create
<1>2. ASSUME NEW w \in Writers, Cloud!Write(w) PROVE CloudInv'
  BY <1>2 DEF CloudInv, Cloud!Write
<1>3. ASSUME NEW w \in Writers, Cloud!Put(w) PROVE CloudInv'
  <2>1. wkey[w][1] \in Paths /\ <<w, uploaded[w]>> \in Writers \X Nat
    BY <1>3 DEF CloudInv, Cloud!Put
  <2> QED BY <1>3, <2>1 DEF CloudInv, Cloud!Put
<1>4. ASSUME NEW w \in Writers,
             Cloud!Close(w) \/ Cloud!PutFails(w) \/ Cloud!Abort(w) \/ Cloud!CloseCancelled(w)
      PROVE  CloudInv'
  BY <1>4 DEF CloudInv, Cloud!Close, Cloud!PutFails, Cloud!Abort, Cloud!CloseCancelled
<1>5. ASSUME NEW k \in Paths, Cloud!Remove(k) PROVE CloudInv'
  BY <1>5 DEF CloudInv, Cloud!Remove
<1>6. ASSUME UNCHANGED <<bucket, Cloud!writerVars>> PROVE CloudInv'
  BY <1>6 DEF CloudInv
<1>7. ASSUME \/ \E r \in Readers, k \in Paths : Cloud!Open(r, k)
             \/ \E r \in Readers, i \in 1..MaxChunks : Cloud!ReadAt(r, i)
             \/ \E r \in Readers : Cloud!CloseHandle(r)
      PROVE  CloudInv'
  BY <1>6, <1>7 DEF Cloud!Open, Cloud!ReadAt, Cloud!CloseHandle
<1>8. CASE UNCHANGED Cloud!vars
  BY <1>6, <1>8 DEF Cloud!vars
<1> QED BY <1>1, <1>2, <1>3, <1>4, <1>5, <1>7, <1>8 DEF Cloud!Next

\* The contract's view of the writers: CloudStore's refinement mapping.
CloudState ==
  [w \in Writers |-> IF cloudPC[w] = "new" THEN "new"
                     ELSE IF cloudPC[w] # "done" THEN "open"
                     ELSE IF cloudResult[w] = "ok" THEN "committed"
                     ELSE "discarded"]
CloudTarget ==
  [w \in Writers |-> IF wkey[w] = Cloud!Absent THEN Cloud!AnyKey ELSE wkey[w][1]]

\* An empty bucket is an empty store of the contract.
LEMMA CloudInitMaps == Cloud!Init => Cloud!Contract!StoreInit
<1> SUFFICES ASSUME Cloud!Init PROVE Cloud!Contract!StoreInit
  OBVIOUS
<1> USE DEF Cloud!Absent, Cloud!Contract!Absent
<1>1. CloudState = [w \in Writers |-> "new"]
  BY DEF Cloud!Init, CloudState
<1>2. CloudTarget = [w \in Writers |-> Cloud!Contract!AnyPath]
  <2>1. \A w \in Writers : wkey[w] = <<>>
    BY DEF Cloud!Init
  <2>2. Cloud!AnyKey = Cloud!Contract!AnyPath
    BY DEF Cloud!AnyKey, Cloud!Contract!AnyPath
  <2> QED BY <2>1, <2>2 DEF CloudTarget
<1> QED BY <1>1, <1>2 DEF Cloud!Init, Cloud!Contract!StoreInit, CloudState, CloudTarget

\* The PUT is the contract's Commit, and its failure or the end of an aborted
\* upload its Discard.
LEMMA CloudStepMaps ==
  CloudInv /\ [Cloud!Next]_(Cloud!vars) => [Cloud!Contract!StoreNext]_(Cloud!Contract!storeVars)
<1> SUFFICES ASSUME CloudInv, [Cloud!Next]_(Cloud!vars)
             PROVE  [Cloud!Contract!StoreNext]_(Cloud!Contract!storeVars)
  OBVIOUS
<1> USE DEF Cloud!Absent, Cloud!Contract!Absent, Cloud!writerVars, Cloud!readerVars
<1>1. ASSUME NEW w \in Writers, NEW k \in Paths, Cloud!Create(w, k)
      PROVE  Cloud!Contract!Create(w, k)
  <2>0. /\ cloudPC[w] = "new" /\ cloudPC'[w] = "open" /\ wkey[w] = <<>>
        /\ wkey'[w] = <<k>> /\ wkey'[w] # <<>> /\ wkey'[w][1] = k
        /\ \A v \in Writers \ {w} : wkey'[v] = wkey[v] /\ cloudPC'[v] = cloudPC[v]
    BY <1>1 DEF CloudInv, Cloud!Create
  <2>1. CloudState[w] = "new" /\ CloudState' = [CloudState EXCEPT ![w] = "open"]
    BY <1>1, <2>0 DEF Cloud!Create, CloudState
  <2>2. CloudTarget' = [CloudTarget EXCEPT ![w] = k]
    BY <2>0 DEF CloudTarget
  <2> QED BY <1>1, <2>1, <2>2 DEF Cloud!Create, Cloud!Contract!Create, CloudState, CloudTarget
<1>2. ASSUME NEW w \in Writers, Cloud!Write(w) PROVE Cloud!Contract!Write(w)
  <2>1. CloudState[w] = "open"
    BY <1>2 DEF CloudInv, Cloud!Write, CloudState
  <2> QED BY <1>2, <2>1 DEF Cloud!Write, Cloud!Contract!Write, CloudState
<1>3. ASSUME NEW w \in Writers, Cloud!Put(w) PROVE Cloud!Contract!Commit(w)
  <2>1. /\ CloudState[w] = "open" /\ CloudState' = [CloudState EXCEPT ![w] = "committed"]
        /\ CloudTarget[w] = wkey[w][1]
    BY <1>3 DEF CloudInv, Cloud!Put, CloudState, CloudTarget
  <2>2. /\ bucket' = [bucket EXCEPT ![CloudTarget[w]] = <<w, uploaded[w]>>]
        /\ UNCHANGED <<wkey, uploaded>>
    BY <1>3, <2>1 DEF Cloud!Put
  <2> QED BY <2>1, <2>2
          DEF Cloud!Contract!Commit, Cloud!Contract!Publish, CloudState, CloudTarget
<1>4. ASSUME NEW w \in Writers, Cloud!PutFails(w) \/ Cloud!CloseCancelled(w)
      PROVE  Cloud!Contract!Discard(w)
  <2>0. /\ cloudPC[w] \in {"put", "cancelled"} /\ cloudPC'[w] = "done"
        /\ cloudResult'[w] \in {"err", "aborted"}
        /\ \A v \in Writers \ {w} :
             cloudPC'[v] = cloudPC[v] /\ cloudResult'[v] = cloudResult[v]
    BY <1>4 DEF CloudInv, Cloud!PutFails, Cloud!CloseCancelled
  <2>1. CloudState[w] = "open" /\ CloudState' = [CloudState EXCEPT ![w] = "discarded"]
    BY <2>0 DEF CloudState
  <2> QED BY <1>4, <2>1
          DEF Cloud!PutFails, Cloud!CloseCancelled, Cloud!Contract!Discard, CloudState
<1>5. ASSUME NEW w \in Writers, Cloud!Close(w) \/ Cloud!Abort(w)
      PROVE  UNCHANGED Cloud!Contract!storeVars
  <2>1. CloudState' = CloudState
    BY <1>5 DEF CloudInv, Cloud!Close, Cloud!Abort, CloudState
  <2> QED BY <1>5, <2>1 DEF Cloud!Close, Cloud!Abort, Cloud!Contract!storeVars, CloudState
<1>6. ASSUME NEW k \in Paths, Cloud!Remove(k) PROVE Cloud!Contract!Remove(k)
  BY <1>6 DEF Cloud!Remove, Cloud!Contract!Remove, Cloud!Contract!Publish
<1>7. ASSUME \/ \E r \in Readers, k \in Paths : Cloud!Open(r, k)
             \/ \E r \in Readers, i \in 1..MaxChunks : Cloud!ReadAt(r, i)
             \/ \E r \in Readers : Cloud!CloseHandle(r)
      PROVE  UNCHANGED Cloud!Contract!storeVars
  BY <1>7 DEF Cloud!Open, Cloud!ReadAt, Cloud!CloseHandle, Cloud!Contract!storeVars
<1>8. CASE UNCHANGED Cloud!vars
  BY <1>8 DEF Cloud!vars, Cloud!Contract!storeVars
<1> QED BY <1>1, <1>2, <1>3, <1>4, <1>5, <1>6, <1>7, <1>8
        DEF Cloud!Next, Cloud!Contract!StoreNext
-----------------------------------------------------------------------------
(* The backends side by side *)

storesVars == <<backend, localVars, memVars, cloudVars>>

\* A step of one backend leaves the others as they are.
LEMMA OneBackendSteps ==
  [StoresNext]_storesVars => [Mem!Next]_(Mem!vars) /\ [Cloud!Next]_(Cloud!vars)
  BY DEF StoresNext, storesVars, memVars, cloudVars, Mem!vars, Cloud!vars,
         Cloud!writerVars, Cloud!readerVars

\* The in-memory backend keeps the Store contract however often Close and Abort
\* are called: a late Close never puts an old buffer over a newer object
\* (mem.go:66-86, writeguard.go:3-19).
THEOREM MemoryImplementsStore == StoresSpec => MemImplementsStore
<1>1. StoresInit => MemInv /\ Mem!Contract!StoreInit
  BY MemInvInit, MemInitMaps DEF StoresInit
<1>2. MemInv /\ [StoresNext]_storesVars => MemInv'
  BY MemInvStep, OneBackendSteps
<1>3. MemInv /\ [StoresNext]_storesVars => [Mem!Contract!StoreNext]_(Mem!Contract!storeVars)
  BY MemStepMaps, OneBackendSteps
<1> QED BY <1>1, <1>2, <1>3, PTL
        DEF StoresSpec, storesVars, MemImplementsStore, Mem!ImplementsStore, Mem!Contract!StoreSpec

\* The cloud adapter's writes keep the Store contract: an object changes only by
\* a Remove or by the whole upload of a writer whose Close then succeeds
\* (gocloudblob.go:74-124).
THEOREM CloudWritesImplementStore == StoresSpec => CloudImplementsWrites
<1>1. StoresInit => CloudInv /\ Cloud!Contract!StoreInit
  BY CloudInvInit, CloudInitMaps DEF StoresInit
<1>2. CloudInv /\ [StoresNext]_storesVars => CloudInv'
  BY CloudInvStep, OneBackendSteps
<1>3. CloudInv /\ [StoresNext]_storesVars => [Cloud!Contract!StoreNext]_(Cloud!Contract!storeVars)
  BY CloudStepMaps, OneBackendSteps
<1> QED BY <1>1, <1>2, <1>3, PTL
        DEF StoresSpec, storesVars, CloudImplementsWrites, Cloud!ImplementsWrites,
            Cloud!Contract!StoreSpec
=============================================================================
