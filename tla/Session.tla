------------------------------ MODULE Session ------------------------------
(***************************************************************************)
(* datafusion.SessionContext (datafusion/session.go): a Go handle to an    *)
(* engine session, guarded by a sync.RWMutex and an atomic closed flag.    *)
(*                                                                         *)
(* SQL and the three Register methods have one shape: take the lock for    *)
(* reading, load closed, call the engine with the handle, release the      *)
(* lock.  Close swaps closed, takes the lock for writing (which drains the *)
(* calls in flight), frees the engine session, clears the handle and the   *)
(* finalizer.  The finalizer frees a session nobody can reach any more.    *)
(*                                                                         *)
(* While a call is in the engine, the engine calls back into Go (table     *)
(* providers, catalogs, functions).  An implementation may itself call the *)
(* session; the outer call waits for it.                                   *)
(***************************************************************************)
EXTENDS Naturals

CONSTANTS
  Callers,     \* goroutines that call SQL or a Register method
  Closers,     \* goroutines that call Close
  NoCaller     \* "not a callback"

ASSUME SessionAssumption ==
  /\ NoCaller \notin Callers
  /\ Callers \cap Closers = {}

VARIABLES
  closed,      \* s.closed
  handle,      \* s.handle: "ptr" or "nil"
  readers,     \* the callers that hold s.mu for reading
  writer,      \* s.mu's writer: "none", "waiting" (bars new readers) or "held"
  engine,      \* the engine-side session: "live" or "freed"
  frees,       \* how often df_session_free was called on it
  finalizer,   \* "set", "cleared" or "ran"
  held,        \* does the program still hold a reference to s?
  reentrant,   \* has an implementation that calls s been registered?
  pc,          \* where each caller is
  cpc,         \* where each closer is
  parent       \* the call whose callback made this call, or NoCaller

vars == <<closed, handle, readers, writer, engine, frees, finalizer, held,
          reentrant, pc, cpc, parent>>
lockVars == <<readers, writer>>
engineVars == <<engine, frees>>
refVars == <<held, reentrant>>

CallerPC == {"idle", "rlock", "load", "call", "engine", "runlock"}

\* "noop": Close lost the swap and returned; "closed": it freed the session.
CloserPC == {"idle", "lock", "drain", "free", "clear", "unlock", "closed",
             "noop"}

TypeOK ==
  /\ closed \in BOOLEAN
  /\ handle \in {"ptr", "nil"}
  /\ readers \subseteq Callers
  /\ writer \in {"none", "waiting", "held"}
  /\ engine \in {"live", "freed"}
  /\ frees \in Nat
  /\ finalizer \in {"set", "cleared", "ran"}
  /\ held \in BOOLEAN
  /\ reentrant \in BOOLEAN
  /\ pc \in [Callers -> CallerPC]
  /\ cpc \in [Closers -> CloserPC]
  /\ parent \in [Callers \cup Closers -> Callers \cup {NoCaller}]

\* NewSessionContext: the engine session is made, the finalizer installed.
Init ==
  /\ closed = FALSE
  /\ handle = "ptr"
  /\ readers = {}
  /\ writer = "none"
  /\ engine = "live"
  /\ frees = 0
  /\ finalizer = "set"
  /\ held = TRUE
  /\ reentrant = FALSE
  /\ pc = [c \in Callers |-> "idle"]
  /\ cpc = [k \in Closers |-> "idle"]
  /\ parent = [x \in Callers \cup Closers |-> NoCaller]
-----------------------------------------------------------------------------
(* Who may start a call: the program, through its reference, or a callback *)
(* that runs inside a call p which is in the engine.                       *)

Running(x) == IF x \in Callers THEN pc[x] # "idle"
                               ELSE cpc[x] \notin {"idle", "closed", "noop"}

InCallback(p) == \E x \in Callers \cup Closers : parent[x] = p /\ Running(x)

MayStart(x, p) ==
  \/ p = NoCaller /\ held
  \/ /\ reentrant
     /\ p \in Callers \ {x}
     /\ pc[p] = "engine"
     /\ ~InCallback(p)

\* SQL or Register* is called; the next thing it does is s.mu.RLock().
Start(c, p) ==
  /\ pc[c] = "idle"
  /\ MayStart(c, p)
  /\ pc' = [pc EXCEPT ![c] = "rlock"]
  /\ parent' = [parent EXCEPT ![c] = p]
  /\ UNCHANGED <<closed, handle, lockVars, engineVars, finalizer, refVars, cpc>>

\* Readers that do not queue behind a waiting writer.
BargingRLock(c) ==
  /\ pc[c] = "rlock"
  /\ writer # "held"
  /\ readers' = readers \cup {c}
  /\ pc' = [pc EXCEPT ![c] = "load"]
  /\ UNCHANGED <<closed, handle, writer, engineVars, finalizer, refVars, cpc,
                 parent>>

\* s.mu.RLock(): a writer that waits or holds the lock bars new readers.
RLock(c) ==
  /\ pc[c] = "rlock"
  /\ writer = "none"
  /\ readers' = readers \cup {c}
  /\ pc' = [pc EXCEPT ![c] = "load"]
  /\ UNCHANGED <<closed, handle, writer, engineVars, finalizer, refVars, cpc,
                 parent>>

\* The closed flag is not consulted under the lock.
UncheckedLoad(c) ==
  /\ pc[c] = "load"
  /\ pc' = [pc EXCEPT ![c] = "call"]
  /\ UNCHANGED <<closed, handle, lockVars, engineVars, finalizer, refVars, cpc,
                 parent>>

\* if s.closed.Load() { return ErrSessionClosed }
LoadClosed(c) ==
  /\ pc[c] = "load"
  /\ pc' = [pc EXCEPT ![c] = IF closed THEN "runlock" ELSE "call"]
  /\ UNCHANGED <<closed, handle, lockVars, engineVars, finalizer, refVars, cpc,
                 parent>>

\* The engine is entered with s.handle; a nil handle is refused by
\* df_session_* ("session handle is null").
EnterEngine(c) ==
  /\ pc[c] = "call"
  /\ pc' = [pc EXCEPT ![c] = IF handle = "nil" THEN "runlock" ELSE "engine"]
  /\ UNCHANGED <<closed, handle, lockVars, engineVars, finalizer, refVars, cpc,
                 parent>>

\* The engine call returns, with a result or an error: every statement is
\* run to its end (df.collect) and every callback it made has returned.
\* A Register call may leave an implementation behind that calls s.
LeaveEngine(c) ==
  /\ pc[c] = "engine"
  /\ ~InCallback(c)
  /\ pc' = [pc EXCEPT ![c] = "runlock"]
  /\ reentrant' \in {reentrant, TRUE}
  /\ UNCHANGED <<closed, handle, lockVars, engineVars, finalizer, held, cpc,
                 parent>>

\* The deferred s.mu.RUnlock(), and the return.
RUnlock(c) ==
  /\ pc[c] = "runlock"
  /\ readers' = readers \ {c}
  /\ pc' = [pc EXCEPT ![c] = "idle"]
  /\ parent' = [parent EXCEPT ![c] = NoCaller]
  /\ UNCHANGED <<closed, handle, writer, engineVars, finalizer, refVars, cpc>>
-----------------------------------------------------------------------------
(* Close *)

\* Close sets the flag instead of swapping it.
UnswappedClose(k, p) ==
  /\ cpc[k] = "idle"
  /\ MayStart(k, p)
  /\ cpc' = [cpc EXCEPT ![k] = "lock"]
  /\ parent' = [parent EXCEPT ![k] = p]
  /\ closed' = TRUE
  /\ UNCHANGED <<handle, lockVars, engineVars, finalizer, refVars, pc>>

\* if !s.closed.CompareAndSwap(false, true) { return nil }
CloseSwap(k, p) ==
  /\ cpc[k] = "idle"
  /\ MayStart(k, p)
  /\ cpc' = [cpc EXCEPT ![k] = IF closed THEN "noop" ELSE "lock"]
  /\ parent' = [parent EXCEPT ![k] = IF closed THEN NoCaller ELSE p]
  /\ closed' = TRUE
  /\ UNCHANGED <<handle, lockVars, engineVars, finalizer, refVars, pc>>

\* Close gives up when calls are in flight.
TryLockClose(k) ==
  /\ cpc[k] = "lock"
  /\ writer = "none"
  /\ IF readers = {} THEN writer' = "waiting" ELSE UNCHANGED writer
  /\ cpc' = [cpc EXCEPT ![k] = IF readers = {} THEN "drain" ELSE "noop"]
  /\ UNCHANGED <<closed, handle, readers, engineVars, finalizer, refVars, pc,
                 parent>>

\* s.mu.Lock(), first half: from now on new readers wait.
CloseLock(k) ==
  /\ cpc[k] = "lock"
  /\ writer = "none"
  /\ writer' = "waiting"
  /\ cpc' = [cpc EXCEPT ![k] = "drain"]
  /\ UNCHANGED <<closed, handle, readers, engineVars, finalizer, refVars, pc,
                 parent>>

\* The write lock is granted over the readers.
UndrainedClose(k) ==
  /\ cpc[k] = "drain"
  /\ writer' = "held"
  /\ cpc' = [cpc EXCEPT ![k] = "free"]
  /\ UNCHANGED <<closed, handle, readers, engineVars, finalizer, refVars, pc,
                 parent>>

\* s.mu.Lock(), second half: the readers that were inside have left.
CloseDrain(k) ==
  /\ cpc[k] = "drain"
  /\ readers = {}
  /\ writer' = "held"
  /\ cpc' = [cpc EXCEPT ![k] = "free"]
  /\ UNCHANGED <<closed, handle, readers, engineVars, finalizer, refVars, pc,
                 parent>>

\* sessionFree(s.handle)
CloseFree(k) ==
  /\ cpc[k] = "free"
  /\ engine' = "freed"
  /\ frees' = frees + 1
  /\ cpc' = [cpc EXCEPT ![k] = "clear"]
  /\ UNCHANGED <<closed, handle, lockVars, finalizer, refVars, pc, parent>>

\* s.handle = nil; runtime.SetFinalizer(s, nil)
CloseClear(k) ==
  /\ cpc[k] = "clear"
  /\ handle' = "nil"
  /\ finalizer' = "cleared"
  /\ cpc' = [cpc EXCEPT ![k] = "unlock"]
  /\ UNCHANGED <<closed, lockVars, engineVars, refVars, pc, parent>>

\* A return path without the deferred Unlock.
NoUnlockClose(k) ==
  /\ cpc[k] = "unlock"
  /\ cpc' = [cpc EXCEPT ![k] = "closed"]
  /\ parent' = [parent EXCEPT ![k] = NoCaller]
  /\ UNCHANGED <<closed, handle, lockVars, engineVars, finalizer, refVars, pc>>

\* The deferred s.mu.Unlock(), and the return.
CloseUnlock(k) ==
  /\ cpc[k] = "unlock"
  /\ writer' = "none"
  /\ cpc' = [cpc EXCEPT ![k] = "closed"]
  /\ parent' = [parent EXCEPT ![k] = NoCaller]
  /\ UNCHANGED <<closed, handle, readers, engineVars, finalizer, refVars, pc>>
-----------------------------------------------------------------------------
(* The garbage collector *)

\* The program drops its last reference.
Drop ==
  /\ held
  /\ held' = FALSE
  /\ UNCHANGED <<closed, handle, lockVars, engineVars, finalizer, reentrant,
                 pc, cpc, parent>>

\* A call in flight keeps s reachable (its deferred unlock uses s), and so
\* do registered implementations that call s, as long as the engine holds
\* their handles.
Unreachable ==
  /\ ~held
  /\ \A x \in Callers \cup Closers : ~Running(x)
  /\ reentrant => engine = "freed"

\* finalizeSessionContext
Finalize ==
  /\ finalizer = "set"
  /\ Unreachable
  /\ finalizer' = "ran"
  /\ closed' = TRUE
  /\ engine' = IF closed THEN engine ELSE "freed"
  /\ frees' = IF closed THEN frees ELSE frees + 1
  /\ UNCHANGED <<handle, lockVars, refVars, pc, cpc, parent>>
-----------------------------------------------------------------------------
CallerStep(c) ==
  RLock(c) \/ LoadClosed(c) \/ EnterEngine(c) \/ LeaveEngine(c) \/ RUnlock(c)

CloserStep(k) ==
  CloseLock(k) \/ CloseDrain(k) \/ CloseFree(k) \/ CloseClear(k)
    \/ CloseUnlock(k)

Next ==
  \/ \E c \in Callers, p \in Callers \cup {NoCaller} : Start(c, p)
  \/ \E c \in Callers : CallerStep(c)
  \/ \E k \in Closers, p \in Callers \cup {NoCaller} : CloseSwap(k, p)
  \/ \E k \in Closers : CloserStep(k)
  \/ Drop
  \/ Finalize

Spec == Init /\ [][Next]_vars

\* A goroutine inside a call keeps running: the Go scheduler is fair, the
\* engine runs every statement to its end.  Nobody has to start a call, drop
\* the session, or collect garbage.
FairSpec ==
  /\ Spec
  /\ \A c \in Callers : WF_vars(CallerStep(c))
  /\ \A k \in Closers : WF_vars(CloserStep(k))
-----------------------------------------------------------------------------
(* Properties *)

\* No call is inside the engine on a session that has been freed, or about
\* to enter it with a dangling handle: SQL's read lock against Close's
\* write lock and the finalizer (session.go:47-82).
NoUseAfterFree ==
  \A c \in Callers : pc[c] \in {"call", "engine"} =>
    engine = "live" /\ handle = "ptr"

\* df_session_free takes a session "not already freed" (lib.rs:350): however
\* many goroutines call Close, and whether or not the finalizer runs, the
\* engine session is freed at most once.
FreedAtMostOnce == frees <= 1

\* When the Close that won the swap has returned, every callback has ended
\* and no call is admitted any more (session.go:60-72).
WinningCloseIsFinal ==
  (\E k \in Closers : cpc[k] = "closed") =>
    /\ engine = "freed"
    /\ \A c \in Callers : pc[c] \in {"idle", "rlock", "load", "runlock"}

\* Once closed is set the finalizer no longer frees, so Close must: a session
\* that is closed and that nobody can reach has been freed (session.go:60-82).
NoLeakAfterClose == closed /\ Unreachable => frees = 1

(* The inductive invariant behind the four invariants above.             *)

Inside == {"load", "call", "engine", "runlock"}
Closing == {"lock", "drain", "free", "clear", "unlock"}

\* The lock: who holds it, and that readers and the writer exclude each other.
LockInv ==
  /\ readers = {c \in Callers : pc[c] \in Inside}
  /\ writer = "waiting" <=> \E k \in Closers : cpc[k] = "drain"
  /\ writer = "held" <=> \E k \in Closers : cpc[k] \in {"free", "clear", "unlock"}
  /\ writer = "held" => readers = {}

\* The swap: one closer at most gets past it, or else the finalizer does.
SwapInv ==
  /\ \A k, l \in Closers :
       /\ cpc[k] \in Closing \cup {"closed"}
       /\ cpc[l] \in Closing \cup {"closed"}
       => k = l
  /\ \A k \in Closers : cpc[k] # "idle" => closed
  /\ closed => \/ finalizer = "ran"
               \/ \E k \in Closers : cpc[k] \in Closing \cup {"closed"}
  /\ finalizer = "ran" =>
       /\ closed
       /\ ~held
       /\ \A c \in Callers : pc[c] = "idle"
       /\ \A k \in Closers : cpc[k] \in {"idle", "noop"}

\* The release: who has freed what.
ReleaseInv ==
  /\ frees = IF engine = "freed" THEN 1 ELSE 0
  /\ engine = "freed" <=>
       \/ finalizer = "ran"
       \/ \E k \in Closers : cpc[k] \in {"clear", "unlock", "closed"}
  /\ handle = "nil" <=> \E k \in Closers : cpc[k] \in {"unlock", "closed"}
  /\ finalizer = "cleared" <=> handle = "nil"
  /\ engine = "freed" => \A c \in Callers : pc[c] \notin {"call", "engine"}

\* Lock, swap and release in step: what keeps SQL, Close and the finalizer
\* apart (session.go:47-82).  Preserved by every step on its own.
SessionInv == TypeOK /\ LockInv /\ SwapInv /\ ReleaseInv

\* No callback calls the session it runs under.
NoReentry == \A x \in Callers \cup Closers : parent[x] = NoCaller

\* As long as no callback calls its own session, every SQL or Register call
\* returns, and a Close that won the swap drains the calls in flight and
\* returns: callers that keep coming cannot starve it (session.go:47-72).
CallsReturn ==
  []NoReentry =>
    /\ \A c \in Callers : pc[c] = "rlock" ~> pc[c] = "idle"
    /\ \A k \in Closers : cpc[k] = "lock" ~> cpc[k] = "closed"

\* The session implements its contract: a caller is running from the moment
\* closed was loaded as false until the engine returns.
Contract == INSTANCE SessionContract WITH
  phase <- IF engine = "freed" THEN "freed"
           ELSE IF closed THEN "closing" ELSE "open",
  running <- {c \in Callers : pc[c] \in {"call", "engine"}}

\* Locks and flags never show: admission, drain and release happen in the
\* contract's order (session.go).
ImplementsContract == Contract!ContractSpec
=============================================================================
