-------------------------- MODULE SessionContract --------------------------
(***************************************************************************)
(* What a SessionContext promises its users, without locks or flags: calls *)
(* are admitted to the engine while the session is open, closing stops     *)
(* admission, and the engine session is freed once, when the last admitted *)
(* call has left.  Session.tla is the code that implements this contract;  *)
(* Handles.tla is built on it.                                             *)
(***************************************************************************)
CONSTANT Callers         \* goroutines that call SQL or a Register method

VARIABLES
  phase,                 \* "open", "closing" (no admission) or "freed"
  running                \* the callers that have been admitted to the engine

contractVars == <<phase, running>>

ContractTypeOK ==
  /\ phase \in {"open", "closing", "freed"}
  /\ running \subseteq Callers

ContractInit ==
  /\ phase = "open"
  /\ running = {}

Admit(c) ==
  /\ phase = "open"
  /\ c \notin running
  /\ running' = running \cup {c}
  /\ UNCHANGED phase

Leave(c) ==
  /\ c \in running
  /\ running' = running \ {c}
  /\ UNCHANGED phase

BeginClose ==
  /\ phase = "open"
  /\ phase' = "closing"
  /\ UNCHANGED running

Free ==
  /\ phase = "closing"
  /\ running = {}
  /\ phase' = "freed"
  /\ UNCHANGED running

\* The garbage collector's backstop: nobody can reach the session any more.
Reclaim ==
  /\ phase = "open"
  /\ running = {}
  /\ phase' = "freed"
  /\ UNCHANGED running

ContractNext ==
  \/ \E c \in Callers : Admit(c) \/ Leave(c)
  \/ BeginClose
  \/ Free
  \/ Reclaim

ContractSpec == ContractInit /\ [][ContractNext]_contractVars
=============================================================================
