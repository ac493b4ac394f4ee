--------------------------- MODULE SessionProofs ---------------------------
(***************************************************************************)
(* Session.tla for any number of callers and closers: the inductive        *)
(* invariant, the safety properties that follow from it, and refinement of *)
(* SessionContract.                                                        *)
(***************************************************************************)
EXTENDS Session, TLAPS

\* The state NewSessionContext returns satisfies the invariant.
LEMMA SessionInvInit == Init => SessionInv
<1> SUFFICES ASSUME Init PROVE SessionInv
  OBVIOUS
<1>1. TypeOK
  BY DEF Init, TypeOK, CallerPC, CloserPC
<1>2. LockInv
  <2>1. {c \in Callers : pc[c] \in Inside} = {}
    BY DEF Init, Inside
  <2> QED BY <2>1 DEF Init, LockInv
<1>3. SwapInv
  BY DEF Init, SwapInv, Closing
<1>4. ReleaseInv
  BY DEF Init, ReleaseInv
<1> QED BY <1>1, <1>2, <1>3, <1>4 DEF SessionInv

\* Every step of SQL, Close, the program and the garbage collector keeps it.
LEMMA SessionInvStep == SessionInv /\ [Next]_vars => SessionInv'
<1> SUFFICES ASSUME SessionInv, [Next]_vars PROVE SessionInv'
  OBVIOUS
<1> USE SessionAssumption DEF SessionInv, TypeOK, CallerPC, CloserPC, Inside,
                              Closing, lockVars, engineVars, refVars
<1>1. ASSUME NEW c \in Callers, NEW p \in Callers \cup {NoCaller}, Start(c, p)
      PROVE  SessionInv'
  <2>1. TypeOK'
    BY <1>1 DEF Start
  <2>2. LockInv'
    BY <1>1 DEF Start, LockInv
  <2>3. SwapInv'
    BY <1>1 DEF Start, SwapInv, MayStart
  <2>4. ReleaseInv'
    BY <1>1 DEF Start, ReleaseInv
  <2> QED BY <2>1, <2>2, <2>3, <2>4
<1>2. ASSUME NEW c \in Callers, RLock(c) PROVE SessionInv'
  <2>1. TypeOK'
    BY <1>2 DEF RLock
  <2>2. LockInv'
    BY <1>2 DEF RLock, LockInv
  <2>3. SwapInv'
    BY <1>2 DEF RLock, SwapInv
  <2>4. ReleaseInv'
    BY <1>2 DEF RLock, LockInv, SwapInv, ReleaseInv
  <2> QED BY <2>1, <2>2, <2>3, <2>4
<1>3. ASSUME NEW c \in Callers, LoadClosed(c) PROVE SessionInv'
  <2>1. TypeOK'
    BY <1>3 DEF LoadClosed
  <2>2. LockInv'
    BY <1>3 DEF LoadClosed, LockInv
  <2>3. SwapInv'
    BY <1>3 DEF LoadClosed, SwapInv
  <2>4. ReleaseInv'
    BY <1>3 DEF LoadClosed, LockInv, SwapInv, ReleaseInv
  <2> QED BY <2>1, <2>2, <2>3, <2>4
<1>4. ASSUME NEW c \in Callers, EnterEngine(c) PROVE SessionInv'
  <2>1. TypeOK'
    BY <1>4 DEF EnterEngine
  <2>2. LockInv'
    BY <1>4 DEF EnterEngine, LockInv
  <2>3. SwapInv'
    BY <1>4 DEF EnterEngine, SwapInv
  <2>4. ReleaseInv'
    BY <1>4 DEF EnterEngine, LockInv, SwapInv, ReleaseInv
  <2> QED BY <2>1, <2>2, <2>3, <2>4
<1>5. ASSUME NEW c \in Callers, LeaveEngine(c) PROVE SessionInv'
  <2>1. TypeOK'
    BY <1>5 DEF LeaveEngine
  <2>2. LockInv'
    BY <1>5 DEF LeaveEngine, LockInv
  <2>3. SwapInv'
    BY <1>5 DEF LeaveEngine, SwapInv
  <2>4. ReleaseInv'
    BY <1>5 DEF LeaveEngine, LockInv, SwapInv, ReleaseInv
  <2> QED BY <2>1, <2>2, <2>3, <2>4
<1>6. ASSUME NEW c \in Callers, RUnlock(c) PROVE SessionInv'
  <2>1. TypeOK'
    BY <1>6 DEF RUnlock
  <2>2. LockInv'
    BY <1>6 DEF RUnlock, LockInv
  <2>3. SwapInv'
    BY <1>6 DEF RUnlock, SwapInv
  <2>4. ReleaseInv'
    BY <1>6 DEF RUnlock, LockInv, SwapInv, ReleaseInv
  <2> QED BY <2>1, <2>2, <2>3, <2>4
<1>7. ASSUME NEW k \in Closers, NEW p \in Callers \cup {NoCaller},
             CloseSwap(k, p)
      PROVE  SessionInv'
  <2>1. TypeOK'
    BY <1>7 DEF CloseSwap
  <2>2. LockInv'
    BY <1>7 DEF CloseSwap, LockInv
  <2>3. SwapInv'
    BY <1>7 DEF CloseSwap, SwapInv, MayStart
  <2>4. ReleaseInv'
    BY <1>7 DEF CloseSwap, ReleaseInv
  <2> QED BY <2>1, <2>2, <2>3, <2>4
<1>8. ASSUME NEW k \in Closers, CloseLock(k) PROVE SessionInv'
  <2>1. TypeOK'
    BY <1>8 DEF CloseLock
  <2>2. LockInv'
    BY <1>8 DEF CloseLock, LockInv
  <2>3. SwapInv'
    BY <1>8 DEF CloseLock, SwapInv
  <2>4. ReleaseInv'
    BY <1>8 DEF CloseLock, LockInv, SwapInv, ReleaseInv
  <2> QED BY <2>1, <2>2, <2>3, <2>4
<1>9. ASSUME NEW k \in Closers, CloseDrain(k) PROVE SessionInv'
  <2>1. TypeOK'
    BY <1>9 DEF CloseDrain
  <2>2. LockInv'
    BY <1>9 DEF CloseDrain, LockInv, SwapInv
  <2>3. SwapInv'
    BY <1>9 DEF CloseDrain, SwapInv
  <2>4. ReleaseInv'
    BY <1>9 DEF CloseDrain, LockInv, SwapInv, ReleaseInv
  <2> QED BY <2>1, <2>2, <2>3, <2>4
<1>10. ASSUME NEW k \in Closers, CloseFree(k) PROVE SessionInv'
  <2>1. TypeOK'
    BY <1>10 DEF CloseFree
  <2>2. LockInv'
    BY <1>10 DEF CloseFree, LockInv
  <2>3. SwapInv'
    BY <1>10 DEF CloseFree, SwapInv
  <2>4. ReleaseInv'
    BY <1>10 DEF CloseFree, LockInv, SwapInv, ReleaseInv
  <2> QED BY <2>1, <2>2, <2>3, <2>4
<1>11. ASSUME NEW k \in Closers, CloseClear(k) PROVE SessionInv'
  <2>1. TypeOK'
    BY <1>11 DEF CloseClear
  <2>2. LockInv'
    BY <1>11 DEF CloseClear, LockInv
  <2>3. SwapInv'
    BY <1>11 DEF CloseClear, SwapInv
  <2>4. ReleaseInv'
    BY <1>11 DEF CloseClear, LockInv, SwapInv, ReleaseInv
  <2> QED BY <2>1, <2>2, <2>3, <2>4
<1>12. ASSUME NEW k \in Closers, CloseUnlock(k) PROVE SessionInv'
  <2>1. TypeOK'
    BY <1>12 DEF CloseUnlock
  <2>2. LockInv'
    BY <1>12 DEF CloseUnlock, LockInv, SwapInv
  <2>3. SwapInv'
    BY <1>12 DEF CloseUnlock, SwapInv
  <2>4. ReleaseInv'
    BY <1>12 DEF CloseUnlock, LockInv, SwapInv, ReleaseInv
  <2> QED BY <2>1, <2>2, <2>3, <2>4
<1>13. CASE Drop
  <2>1. TypeOK'
    BY <1>13 DEF Drop
  <2>2. LockInv'
    BY <1>13 DEF Drop, LockInv
  <2>3. SwapInv'
    BY <1>13 DEF Drop, SwapInv
  <2>4. ReleaseInv'
    BY <1>13 DEF Drop, LockInv, SwapInv, ReleaseInv
  <2> QED BY <2>1, <2>2, <2>3, <2>4
<1>14. CASE Finalize
  <2>1. TypeOK'
    BY <1>14 DEF Finalize, Unreachable, Running
  <2>2. LockInv'
    BY <1>14 DEF Finalize, Unreachable, Running, LockInv
  <2>3. SwapInv'
    BY <1>14 DEF Finalize, Unreachable, Running, SwapInv, ReleaseInv
  <2>4. ReleaseInv'
    BY <1>14 DEF Finalize, Unreachable, Running, LockInv, SwapInv, ReleaseInv
  <2> QED BY <2>1, <2>2, <2>3, <2>4
<1>15. CASE UNCHANGED vars
  <2>1. TypeOK'
    BY <1>15 DEF vars
  <2>2. LockInv'
    BY <1>15 DEF vars, LockInv
  <2>3. SwapInv'
    BY <1>15 DEF vars, SwapInv
  <2>4. ReleaseInv'
    BY <1>15 DEF vars, LockInv, SwapInv, ReleaseInv
  <2> QED BY <2>1, <2>2, <2>3, <2>4
<1> QED
  BY <1>1, <1>2, <1>3, <1>4, <1>5, <1>6, <1>7, <1>8, <1>9, <1>10, <1>11,
     <1>12, <1>13, <1>14, <1>15 DEF Next, CallerStep, CloserStep

\* The lock, the swap and the release stay in step in every reachable state
\* of session.go, whatever callers, closers and callbacks do.
THEOREM SessionInvariant == Spec => []SessionInv
<1> QED BY SessionInvInit, SessionInvStep, PTL DEF Spec

\* No call is in the engine, or on its way there, once the engine session is
\* freed: for any number of goroutines, with re-entrant callbacks or without.
THEOREM NoUseAfterFreeTheorem == Spec => []NoUseAfterFree
<1>1. SessionInv => NoUseAfterFree
  BY DEF SessionInv, TypeOK, ReleaseInv, NoUseAfterFree
<1> QED BY <1>1, SessionInvariant, PTL

\* Close and the finalizer together free the engine session at most once.
THEOREM FreedAtMostOnceTheorem == Spec => []FreedAtMostOnce
<1>1. SessionInv => FreedAtMostOnce
  BY DEF SessionInv, ReleaseInv, FreedAtMostOnce
<1> QED BY <1>1, SessionInvariant, PTL

\* The Close that won the swap returns to a quiet, freed session.
THEOREM WinningCloseIsFinalTheorem == Spec => []WinningCloseIsFinal
<1>1. SessionInv => WinningCloseIsFinal
  BY DEF SessionInv, TypeOK, ReleaseInv, WinningCloseIsFinal, CallerPC
<1> QED BY <1>1, SessionInvariant, PTL

\* A closed session that cannot be reached any more has been freed, although
\* its finalizer no longer frees.
THEOREM NoLeakAfterCloseTheorem == Spec => []NoLeakAfterClose
<1>1. SessionInv => NoLeakAfterClose
  BY SessionAssumption
  DEF SessionInv, TypeOK, SwapInv, ReleaseInv, NoLeakAfterClose, Unreachable,
      Running, Closing, CloserPC
<1> QED BY <1>1, SessionInvariant, PTL

\* session.go implements the contract: every step is a step of the contract
\* or changes nothing of it.
THEOREM SessionRefinesContract == Spec => ImplementsContract
<1>1. Init => Contract!ContractInit
  BY DEF Init, Contract!ContractInit
<1>2. SessionInv /\ [Next]_vars => [Contract!ContractNext]_(Contract!contractVars)
  <2> SUFFICES ASSUME SessionInv, [Next]_vars
               PROVE  [Contract!ContractNext]_(Contract!contractVars)
    OBVIOUS
  <2> DEFINE Admitted == {c \in Callers : pc[c] \in {"call", "engine"}}
  <2> USE DEF SessionInv, TypeOK, lockVars, engineVars, refVars,
             Contract!contractVars
  <2>1. ASSUME NEW c \in Callers, NEW p \in Callers \cup {NoCaller}, Start(c, p)
        PROVE  UNCHANGED Contract!contractVars
    BY <2>1 DEF Start
  <2>2. ASSUME NEW c \in Callers, RLock(c)
        PROVE  UNCHANGED Contract!contractVars
    BY <2>2 DEF RLock
  <2>3. ASSUME NEW c \in Callers, LoadClosed(c)
        PROVE  Contract!Admit(c) \/ UNCHANGED Contract!contractVars
    <3>1. CASE closed
      BY <2>3, <3>1 DEF LoadClosed
    <3>2. CASE ~closed
      <4>1. engine = "live"
        BY <3>2 DEF ReleaseInv, SwapInv
      <4>2. c \notin Admitted /\ Admitted' = Admitted \cup {c}
        BY <2>3, <3>2 DEF LoadClosed
      <4> QED BY <2>3, <3>2, <4>1, <4>2 DEF LoadClosed, Contract!Admit
    <3> QED BY <3>1, <3>2
  <2>4. ASSUME NEW c \in Callers, EnterEngine(c)
        PROVE  UNCHANGED Contract!contractVars
    <3>1. handle = "ptr"
      BY <2>4 DEF EnterEngine, ReleaseInv
    <3> QED BY <2>4, <3>1 DEF EnterEngine
  <2>5. ASSUME NEW c \in Callers, LeaveEngine(c)
        PROVE  Contract!Leave(c)
    <3>1. c \in Admitted /\ Admitted' = Admitted \ {c}
      BY <2>5 DEF LeaveEngine
    <3> QED BY <2>5, <3>1 DEF LeaveEngine, Contract!Leave
  <2>6. ASSUME NEW c \in Callers, RUnlock(c)
        PROVE  UNCHANGED Contract!contractVars
    BY <2>6 DEF RUnlock
  <2>7. ASSUME NEW k \in Closers, NEW p \in Callers \cup {NoCaller},
               CloseSwap(k, p)
        PROVE  Contract!BeginClose \/ UNCHANGED Contract!contractVars
    <3>1. ~closed => engine = "live"
      BY DEF ReleaseInv, SwapInv
    <3> QED BY <2>7, <3>1 DEF CloseSwap, Contract!BeginClose
  <2>8. ASSUME NEW k \in Closers, CloseLock(k) \/ CloseDrain(k)
        PROVE  UNCHANGED Contract!contractVars
    BY <2>8 DEF CloseLock, CloseDrain
  <2>9. ASSUME NEW k \in Closers, CloseFree(k)
        PROVE  Contract!Free
    <3>1. closed /\ engine = "live"
      BY <2>9 DEF CloseFree, SwapInv, ReleaseInv, Closing
    <3>2. Admitted = {}
      BY <2>9 DEF CloseFree, LockInv, Inside
    <3> QED BY <2>9, <3>1, <3>2 DEF CloseFree, Contract!Free
  <2>10. ASSUME NEW k \in Closers, CloseClear(k) \/ CloseUnlock(k)
         PROVE  UNCHANGED Contract!contractVars
    BY <2>10 DEF CloseClear, CloseUnlock
  <2>11. CASE Drop
    BY <2>11 DEF Drop
  <2>12. ASSUME Finalize
         PROVE  Contract!Reclaim \/ UNCHANGED Contract!contractVars
    <3>1. Admitted = {}
      BY <2>12, SessionAssumption DEF Finalize, Unreachable, Running
    <3>2. ~closed => engine = "live"
      BY DEF ReleaseInv, SwapInv
    <3>3. closed => engine = "freed"
      BY <2>12, SessionAssumption
      DEF Finalize, Unreachable, Running, SwapInv, ReleaseInv, CloserPC, Closing
    <3> QED BY <2>12, <3>1, <3>2, <3>3 DEF Finalize, Contract!Reclaim
  <2>13. CASE UNCHANGED vars
    BY <2>13 DEF vars
  <2> QED
    BY <2>1, <2>2, <2>3, <2>4, <2>5, <2>6, <2>7, <2>8, <2>9, <2>10, <2>11,
       <2>12, <2>13 DEF Next, CallerStep, CloserStep, Contract!ContractNext
<1> QED
  BY <1>1, <1>2, SessionInvariant, PTL
  DEF Spec, ImplementsContract, Contract!ContractSpec
=============================================================================
