---------------------------- MODULE ObjectStore ----------------------------
(***************************************************************************)
(* What an objectstore.Store promises (objectstore/store.go): an object    *)
(* changes only when a writer's Close publishes everything written through *)
(* it, or when it is removed; an aborted or failed write changes nothing;  *)
(* an open handle reads the object that was there when it was opened.      *)
(*                                                                         *)
(* A version of an object is known by its writer and the number of chunks  *)
(* written.  What the machine has not made durable may be lost when it     *)
(* crashes, and only as a whole.                                           *)
(***************************************************************************)
EXTENDS Naturals

CONSTANTS Paths, Writers, Readers, MaxChunks

Absent == <<>>

VARIABLES
  objects,   \* the object at each path, or Absent
  durable,   \* what a crash of the machine would leave there
  wstate,    \* each writer: "new", "open", "committed" or "discarded"
  target,    \* the path it writes
  written,   \* the chunks its Write calls reported as written
  opened,    \* the version each reader has opened, or Absent
  seen       \* the versions its reads returned data of

storeVars == <<objects, durable, wstate, target, written, opened, seen>>

AnyPath == CHOOSE p \in Paths : TRUE

StoreInit ==
  /\ objects = [p \in Paths |-> Absent]
  /\ durable = [p \in Paths |-> Absent]
  /\ wstate = [w \in Writers |-> "new"]
  /\ target = [w \in Writers |-> AnyPath]
  /\ written = [w \in Writers |-> 0]
  /\ opened = [r \in Readers |-> Absent]
  /\ seen = [r \in Readers |-> {}]

Create(w, p) ==
  /\ wstate[w] = "new"
  /\ wstate' = [wstate EXCEPT ![w] = "open"]
  /\ target' = [target EXCEPT ![w] = p]
  /\ UNCHANGED <<objects, durable, written, opened, seen>>

Write(w) ==
  /\ wstate[w] = "open"
  /\ written[w] < MaxChunks
  /\ written' = [written EXCEPT ![w] = @ + 1]
  /\ UNCHANGED <<objects, durable, wstate, target, opened, seen>>

\* The object at p becomes v, at once or later durably.
Publish(p, v) ==
  /\ objects' = [objects EXCEPT ![p] = v]
  /\ durable' \in {durable, objects'}

\* Close succeeds.
Commit(w) ==
  /\ wstate[w] = "open"
  /\ wstate' = [wstate EXCEPT ![w] = "committed"]
  /\ Publish(target[w], <<w, written[w]>>)
  /\ UNCHANGED <<target, written, opened, seen>>

\* Abort, or a Close that fails.
Discard(w) ==
  /\ wstate[w] = "open"
  /\ wstate' = [wstate EXCEPT ![w] = "discarded"]
  /\ UNCHANGED <<objects, durable, target, written, opened, seen>>

Remove(p) ==
  /\ objects[p] # Absent
  /\ Publish(p, Absent)
  /\ UNCHANGED <<wstate, target, written, opened, seen>>

Open(r, p) ==
  /\ opened[r] = Absent
  /\ objects[p] # Absent
  /\ opened' = [opened EXCEPT ![r] = objects[p]]
  /\ UNCHANGED <<objects, durable, wstate, target, written, seen>>

Read(r) ==
  /\ opened[r] # Absent
  /\ seen' = [seen EXCEPT ![r] = @ \cup {opened[r]}]
  /\ UNCHANGED <<objects, durable, wstate, target, written, opened>>

CloseHandle(r) ==
  /\ opened[r] # Absent
  /\ opened' = [opened EXCEPT ![r] = Absent]
  /\ seen' = [seen EXCEPT ![r] = {}]
  /\ UNCHANGED <<objects, durable, wstate, target, written>>

Settle ==
  /\ durable' = objects
  /\ UNCHANGED <<objects, wstate, target, written, opened, seen>>

\* The process, or the machine, goes down with its writers and readers.
Stop(left) ==
  /\ objects' = left
  /\ wstate' = [w \in Writers |-> IF wstate[w] = "open" THEN "discarded" ELSE wstate[w]]
  /\ opened' = [r \in Readers |-> Absent]
  /\ seen' = [r \in Readers |-> {}]
  /\ UNCHANGED <<durable, target, written>>

StoreNext ==
  \/ \E w \in Writers, p \in Paths : Create(w, p)
  \/ \E w \in Writers : Write(w) \/ Commit(w) \/ Discard(w)
  \/ \E p \in Paths : Remove(p)
  \/ \E r \in Readers, p \in Paths : Open(r, p)
  \/ \E r \in Readers : Read(r) \/ CloseHandle(r)
  \/ Settle \/ Stop(objects) \/ Stop(durable)

StoreSpec == StoreInit /\ [][StoreNext]_storeVars
=============================================================================
