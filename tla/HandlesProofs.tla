--------------------------- MODULE HandlesProofs ---------------------------
(***************************************************************************)
(* Handles.tla for any number of callers, names and handles: the inductive *)
(* invariant of the ownership rules, and what it says of callbacks, of the *)
(* freed session and of registered tables.                                 *)
(*                                                                         *)
(* The argument is a ledger.  A live handle is in exactly one of three     *)
(* accounts: owned by a registration, in use (a registry, a lookup or a    *)
(* statement refers to it), or leaked.  Each action moves handles between  *)
(* the accounts, and releases exactly the handles that leave all of them.  *)
(***************************************************************************)
EXTENDS Handles, TLAPS

Live == {h \in Handle : hstate[h] = "live"}
Owned == {own[c] : c \in Callers} \ {None}
InUse == Registered(reg) \cup Held(cur, pins)

\* Every live handle is in one account, and only live handles are.
Ledger ==
  /\ Live = Owned \cup InUse \cup leaked
  /\ Owned \cap InUse = {}
  /\ Owned \cap leaked = {}
  /\ InUse \cap leaked = {}

\* What a registration under way is registering, and that its handle is its own.
Requesting ==
  \A c \in Callers :
    /\ own[c] # None <=> step[c] \in Registering
    /\ step[c] \in Registering => slot[c] \in Requests
    /\ step[c] \in {"make", "insert"} => slot[c] \in Slots
SoleOwner == \A c, d \in Callers : own[c] = own[d] /\ own[c] # None => c = d

\* What a registry, a lookup or a statement refers to is a handle.
LEMMA InUseType ==
  ASSUME TypeOK
  PROVE  /\ Registered(reg) \subseteq Handle
         /\ Held(cur, pins) \subseteq Handle
         /\ Owned \subseteq Handle
         /\ None \notin Handle
BY DEF TypeOK, Registered, Held, Owned, Handle, None

\* The ledger is LiveIffReferenced and OwnerInv in other words.
LEMMA LedgerIs ==
  TypeOK =>
    (LiveIffReferenced /\ OwnerInv <=> Ledger /\ Requesting /\ SoleOwner)
<1> SUFFICES ASSUME TypeOK
             PROVE  LiveIffReferenced /\ OwnerInv
                      <=> Ledger /\ Requesting /\ SoleOwner
  OBVIOUS
<1>1. /\ InUse \subseteq Handle
      /\ Owned \subseteq Handle
      /\ leaked \subseteq Handle
      /\ None \notin InUse
      /\ None \notin leaked
  BY InUseType DEF InUse, TypeOK
<1>2. \A h \in Handle : Referenced(h) <=> h \in Owned \cup InUse
  BY InUseType DEF Referenced, Owned, InUse
<1>3. LiveIffReferenced <=> Live = Owned \cup InUse \cup leaked
  BY <1>1, <1>2 DEF LiveIffReferenced, Live
<1>4. (\A c \in Callers : own[c] \notin InUse \cup leaked)
        <=> Owned \cap InUse = {} /\ Owned \cap leaked = {}
  BY <1>1 DEF Owned
<1>5. OwnerInv <=> /\ Requesting
                   /\ \A c \in Callers : own[c] \notin InUse \cup leaked
                   /\ SoleOwner
                   /\ InUse \cap leaked = {}
  BY DEF OwnerInv, Requesting, SoleOwner, InUse
<1> QED BY <1>3, <1>4, <1>5 DEF Ledger

\* cgo.NewHandle and the releases of one step: what is live afterwards, and
\* that every handle is still minted in order and released once.
LEMMA AccountKeeps ==
  ASSUME HandlesAssumption, TypeOK, MintInv,
         NEW h, h = None \/ (h = NextHandle /\ h \in Handle),
         NEW R, R \subseteq Live \cup ({h} \ {None}),
         Account(h, R)
  PROVE  /\ minted' \in 0..MaxHandles
         /\ hstate' \in [Handle -> {"unminted", "live", "released"}]
         /\ releases' \in [Handle -> Nat]
         /\ Live' = (Live \cup ({h} \ {None})) \ R
         /\ MintInv'
<1> USE HandlesAssumption
<1>1. minted \in Nat /\ minted \leq MaxHandles /\ MaxHandles \in Nat
  BY DEF TypeOK
<1>2. minted' \in 0..MaxHandles
  BY <1>1 DEF Account, NextHandle, Handle, None
<1>3. hstate' \in [Handle -> {"unminted", "live", "released"}]
  BY DEF Account, TypeOK
<1>4. releases' \in [Handle -> Nat]
  BY DEF Account, TypeOK
<1>5. \A x \in Handle :
        /\ hstate'[x] = IF x \in R THEN "released"
                        ELSE IF x = h THEN "live" ELSE hstate[x]
        /\ releases'[x] = IF x \in R THEN releases[x] + 1 ELSE releases[x]
  BY DEF Account
<1>6. None \notin Handle
  BY DEF None, Handle
<1>7. Live' = (Live \cup ({h} \ {None})) \ R
  BY <1>5, <1>6 DEF Live
<1>8. h # None => hstate[h] = "unminted"
  BY <1>1 DEF MintInv, NextHandle, Handle
<1>9. ASSUME NEW x \in Handle
      PROVE  /\ hstate'[x] = "unminted" <=> x > minted'
             /\ releases'[x] = IF hstate'[x] = "released" THEN 1 ELSE 0
  <2>1. /\ hstate[x] = "unminted" <=> x > minted
        /\ releases[x] = IF hstate[x] = "released" THEN 1 ELSE 0
        /\ x \in Nat
    BY DEF MintInv, Handle
  <2>2. CASE x \in R
    <3>1. hstate[x] = "live" \/ x = h
      BY <2>2 DEF Live
    <3>2. ~(x > minted') /\ hstate[x] # "released"
      BY <3>1, <2>1, <1>1, <1>8 DEF Account, NextHandle, None, Handle
    <3> QED BY <3>2, <2>1, <2>2, <1>5
  <2>3. CASE x \notin R
    <3>1. CASE x = h
      BY <3>1, <2>1, <2>3, <1>1, <1>5, <1>8 DEF Account, NextHandle, None, Handle
    <3>2. CASE x # h
      BY <3>2, <2>1, <2>3, <1>1, <1>5 DEF Account, NextHandle, None, Handle
    <3> QED BY <3>1, <3>2
  <2> QED BY <2>2, <2>3
<1> QED BY <1>2, <1>3, <1>4, <1>7, <1>9 DEF MintInv

\* A registration that returns to Go gives up its handle and nothing else.
LEMMA ReturnKeeps ==
  ASSUME HandlesAssumption, HandlesInv,
         NEW c \in Callers, step[c] \in Registering, Return(c)
  PROVE  /\ ContractTypeOK'
         /\ step' \in [Callers -> Steps]
         /\ slot' \in [Callers -> Requests \cup {NoSlot}]
         /\ own' \in [Callers -> Handle \cup {None}]
         /\ UNCHANGED <<cur, pins, raw>>
         /\ own[c] \in Owned
         /\ own[c] \in Live
         /\ Owned' = Owned \ {own[c]}
         /\ Requesting'
         /\ SoleOwner'
         /\ PinInv'
         /\ QuietInv'
<1> USE DEF HandlesInv, TypeOK
<1>0. Ledger /\ Requesting /\ SoleOwner
  BY LedgerIs
<1>1. /\ ContractTypeOK'
      /\ step' \in [Callers -> Steps]
      /\ slot' \in [Callers -> Requests \cup {NoSlot}]
      /\ own' \in [Callers -> Handle \cup {None}]
      /\ UNCHANGED <<cur, pins, raw>>
  BY DEF Return, Leave, ContractTypeOK, Steps, Handle, None
<1>2. /\ \A d \in Callers : d # c =>
           own'[d] = own[d] /\ step'[d] = step[d] /\ slot'[d] = slot[d]
      /\ own'[c] = None
      /\ step'[c] = "idle"
  BY DEF Return
<1>3. own[c] \in Owned /\ own[c] \in Live
  BY <1>0 DEF Owned, Requesting, Ledger
<1>4. Owned' = Owned \ {own[c]}
  BY <1>0, <1>2, <1>3 DEF Owned, SoleOwner
<1>5. Requesting'
  BY <1>0, <1>2 DEF Requesting, Registering
<1>6. SoleOwner'
  BY <1>0, <1>2 DEF SoleOwner
<1>7. PinInv'
  BY <1>1 DEF PinInv
<1>8. QuietInv'
  BY <1>1, <1>2 DEF QuietInv, Return, Leave, Querying, Registering
<1> QED BY <1>1, <1>3, <1>4, <1>5, <1>6, <1>7, <1>8

\* Go is called back on a live handle: nothing is misused.
LEMMA CallbackOnLive ==
  ASSUME NEW h \in Live, misused = {}, Callback(h)
  PROVE  misused' = {}
BY DEF Callback, Live

\* The same of the next state.
LEMMA LedgerIsNext ==
  TypeOK' =>
    (LiveIffReferenced' /\ OwnerInv' <=> Ledger' /\ Requesting' /\ SoleOwner')
BY LedgerIs, PTL

\* What the registrations, the handles and the statements give together.
LEMMA Assemble ==
  ASSUME ContractTypeOK',
         minted' \in 0..MaxHandles,
         hstate' \in [Handle -> {"unminted", "live", "released"}],
         releases' \in [Handle -> Nat],
         reg' \in [Slots -> Handle \cup {None}],
         step' \in [Callers -> Steps],
         slot' \in [Callers -> Requests \cup {NoSlot}],
         own' \in [Callers -> Handle \cup {None}],
         cur' \in [Callers -> Handle \cup {None}],
         pins' \in [Callers -> SUBSET Handle],
         raw' \in [Callers -> SUBSET Handle],
         leaked' \subseteq Handle,
         misused' = {},
         Ledger', MintInv', Requesting', SoleOwner', PinInv', QuietInv'
  PROVE  HandlesInv'
<1>1. TypeOK'
  BY DEF TypeOK
<1> QED BY <1>1, LedgerIsNext DEF HandlesInv

\* A registration ends without a registry entry: its handle is released or
\* leaked, and a handle h minted on the way is released again.
LEMMA GiveUp ==
  ASSUME HandlesAssumption, HandlesInv,
         NEW c \in Callers, step[c] \in Registering, Return(c),
         UNCHANGED reg, misused' = {},
         NEW h, h = None \/ (h = NextHandle /\ h \in Handle),
         \/ Account(h, ({h} \ {None}) \cup {own[c]}) /\ UNCHANGED leaked
         \/ Account(h, {h} \ {None}) /\ leaked' = leaked \cup {own[c]}
  PROVE  HandlesInv'
<1>0. TypeOK /\ MintInv /\ Ledger
  BY LedgerIs DEF HandlesInv
<1>1. /\ ContractTypeOK'
      /\ step' \in [Callers -> Steps]
      /\ slot' \in [Callers -> Requests \cup {NoSlot}]
      /\ own' \in [Callers -> Handle \cup {None}]
      /\ UNCHANGED <<cur, pins, raw>>
      /\ own[c] \in Owned
      /\ own[c] \in Live
      /\ Owned' = Owned \ {own[c]}
      /\ Requesting'
      /\ SoleOwner'
      /\ PinInv'
      /\ QuietInv'
  BY ReturnKeeps
<1>2. InUse' = InUse
  BY <1>1 DEF InUse, Registered, Held
<1>3. h # None => h \notin Live
  BY <1>0 DEF Live, MintInv, NextHandle, TypeOK, Handle
<1>4. CASE /\ Account(h, ({h} \ {None}) \cup {own[c]})
           /\ UNCHANGED leaked
  <2>1. ({h} \ {None}) \cup {own[c]} \subseteq Live \cup ({h} \ {None})
    BY <1>1
  <2>2. /\ minted' \in 0..MaxHandles
        /\ hstate' \in [Handle -> {"unminted", "live", "released"}]
        /\ releases' \in [Handle -> Nat]
        /\ Live' = (Live \cup ({h} \ {None})) \ (({h} \ {None}) \cup {own[c]})
        /\ MintInv'
    BY <1>0, <1>4, <2>1, AccountKeeps
  <2>3. Ledger'
    BY <1>0, <1>1, <1>2, <1>3, <1>4, <2>2 DEF Ledger
  <2>4. leaked' \subseteq Handle
    BY <1>0, <1>4 DEF TypeOK
  <2> QED BY <1>0, <1>1, <2>2, <2>3, <2>4, Assemble DEF TypeOK
<1>5. CASE /\ Account(h, {h} \ {None})
           /\ leaked' = leaked \cup {own[c]}
  <2>1. {h} \ {None} \subseteq Live \cup ({h} \ {None})
    OBVIOUS
  <2>2. /\ minted' \in 0..MaxHandles
        /\ hstate' \in [Handle -> {"unminted", "live", "released"}]
        /\ releases' \in [Handle -> Nat]
        /\ Live' = (Live \cup ({h} \ {None})) \ ({h} \ {None})
        /\ MintInv'
    BY <1>0, <1>5, <2>1, AccountKeeps
  <2>3. Ledger'
    BY <1>0, <1>1, <1>2, <1>3, <1>5, <2>2 DEF Ledger
  <2>4. leaked' \subseteq Handle
    BY <1>0, <1>1, <1>5 DEF TypeOK, Live
  <2> QED BY <1>0, <1>1, <2>2, <2>3, <2>4, Assemble DEF TypeOK
<1> QED BY <1>4, <1>5

\* References are dropped and taken: of the handles in S that lost one, those
\* nothing refers to any more are released; M moves from a registration to
\* the registries, and a minted handle h is in use or released again.
LEMMA Settle ==
  ASSUME HandlesAssumption, TypeOK, MintInv, Ledger,
         NEW h, h = None \/ (h = NextHandle /\ h \in Handle),
         NEW S, S \subseteq InUse,
         NEW M, M \subseteq Owned, M \subseteq InUse',
         Owned' = Owned \ M,
         InUse' \subseteq InUse \cup M \cup ({h} \ {None}),
         InUse \subseteq InUse' \cup S,
         NEW R, R = (S \cup ({h} \ {None})) \ InUse',
         Account(h, R),
         UNCHANGED leaked
  PROVE  /\ minted' \in 0..MaxHandles
         /\ hstate' \in [Handle -> {"unminted", "live", "released"}]
         /\ releases' \in [Handle -> Nat]
         /\ MintInv'
         /\ Ledger'
<1>1. R \subseteq Live \cup ({h} \ {None})
  BY DEF Ledger
<1>2. h # None => h \notin Live
  BY DEF Live, MintInv, NextHandle, TypeOK, Handle
<1>3. /\ minted' \in 0..MaxHandles
      /\ hstate' \in [Handle -> {"unminted", "live", "released"}]
      /\ releases' \in [Handle -> Nat]
      /\ Live' = (Live \cup ({h} \ {None})) \ R
      /\ MintInv'
  BY <1>1, AccountKeeps
<1>4. Ledger'
  BY <1>2, <1>3 DEF Ledger
<1> QED BY <1>3, <1>4

\* A step of caller c's statement: nothing changes for the other callers, and
\* what c looks up and holds has its type.
StatementStep(c) ==
  /\ \A d \in Callers \ {c} :
       step'[d] = step[d] /\ cur'[d] = cur[d] /\ pins'[d] = pins[d]
  /\ step' \in [Callers -> Steps]
  /\ cur' \in [Callers -> Handle \cup {None}]
  /\ pins' \in [Callers -> SUBSET Handle]

\* What caller c's lookup and statement hold.
HeldBy(c) == ({cur[c]} \ {None}) \cup pins[c]

\* What is held by all after such a step.
LEMMA HeldAfter ==
  ASSUME TypeOK, NEW c \in Callers, StatementStep(c)
  PROVE  /\ Held(cur', pins') \subseteq Held(cur, pins) \cup HeldBy(c)'
         /\ Held(cur, pins) \subseteq Held(cur', pins') \cup HeldBy(c)
         /\ HeldBy(c)' \subseteq Held(cur', pins')
         /\ HeldBy(c) \subseteq Held(cur, pins)
BY DEF StatementStep, Held, HeldBy

\* A statement goes on: registrations, and the other statements, stay as
\* they are.
LEMMA StatementKeeps ==
  ASSUME HandlesInv, NEW c \in Callers, StatementStep(c),
         step[c] \in Querying, step'[c] \in Querying,
         cur'[c] # None <=> step'[c] \in {"schema", "table"},
         pins[c] \subseteq pins'[c],
         UNCHANGED <<contractVars, reg, slot, own, raw>>
  PROVE  /\ ContractTypeOK'
         /\ Owned' = Owned
         /\ Requesting'
         /\ SoleOwner'
         /\ PinInv'
         /\ QuietInv'
<1>0. /\ TypeOK /\ Requesting /\ SoleOwner /\ PinInv /\ QuietInv
      /\ \A d \in Callers : d # c =>
           step'[d] = step[d] /\ cur'[d] = cur[d] /\ pins'[d] = pins[d]
  BY LedgerIs DEF HandlesInv, StatementStep
<1>1. ContractTypeOK'
  BY <1>0 DEF TypeOK, ContractTypeOK, contractVars
<1>2. Owned' = Owned
  BY DEF Owned
<1>3. Requesting'
  BY <1>0 DEF Requesting, Registering, Querying
<1>4. SoleOwner'
  BY <1>0 DEF SoleOwner
<1>5. PinInv'
  BY <1>0 DEF PinInv
<1>6. QuietInv'
  BY <1>0 DEF QuietInv, contractVars, Querying, Registered
<1> QED BY <1>1, <1>2, <1>3, <1>4, <1>5, <1>6
-----------------------------------------------------------------------------
(* The steps of a registration *)

\* Nothing minted and nothing released is an empty entry in the ledger.
LEMMA NoEntry == ASSUME TypeOK, UNCHANGED handleVars PROVE Account(None, {})
<1>1. None \notin Handle
  BY DEF None, Handle
<1>2. /\ hstate = [x \in Handle |-> hstate[x]]
      /\ releases = [x \in Handle |-> releases[x]]
  BY DEF TypeOK
<1>3. hstate' = [x \in Handle |-> IF x \in {} THEN "released"
                                  ELSE IF x = None THEN "live" ELSE hstate[x]]
  BY <1>1, <1>2 DEF handleVars
<1>4. releases' = [x \in Handle |-> IF x \in {} THEN releases[x] + 1
                                                 ELSE releases[x]]
  BY <1>2 DEF handleVars
<1> QED BY <1>3, <1>4 DEF Account, handleVars

\* The handle of a registration under way is live, and a handle.
LEMMA OwnIsLive ==
  ASSUME HandlesInv, NEW c \in Callers, step[c] \in Registering
  PROVE  own[c] \in Live /\ own[c] # None
BY LedgerIs DEF HandlesInv, Requesting, Ledger, Owned

\* So is a handle in a registry.
LEMMA RegisteredIsLive ==
  ASSUME HandlesInv, NEW s \in Slots, reg[s] # None
  PROVE  reg[s] \in Live /\ reg[s] \in Registered(reg)
BY LedgerIs DEF HandlesInv, Ledger, InUse, Registered

LEMMA StartRegisterKeeps ==
  ASSUME HandlesAssumption, HandlesInv,
         NEW c \in Callers, NEW s \in Requests, StartRegister(c, s)
  PROVE  HandlesInv'
<1> DEFINE h == NextHandle
<1>0. TypeOK /\ MintInv /\ Ledger /\ Requesting /\ SoleOwner /\ PinInv
      /\ QuietInv /\ misused = {}
  BY LedgerIs DEF HandlesInv
<1>1. /\ h \in Handle
      /\ h # None
      /\ h \notin Live
      /\ Account(h, {})
      /\ step[c] = "idle"
      /\ own[c] = None
  <2>1. h \in Handle /\ h # None /\ Account(h, {})
    BY DEF StartRegister, Handle, None
  <2>2. h \notin Live
    BY <1>0, <2>1 DEF Live, MintInv, TypeOK, NextHandle
  <2>3. step[c] = "idle" /\ own[c] = None
    BY <1>0 DEF StartRegister, Admit, QuietInv, Requesting, Registering
  <2> QED BY <2>1, <2>2, <2>3
<1>2. /\ \A d \in Callers : d # c =>
           own'[d] = own[d] /\ step'[d] = step[d] /\ slot'[d] = slot[d]
      /\ own'[c] = h
      /\ step'[c] = "check"
      /\ slot'[c] = s
      /\ UNCHANGED <<reg, cur, pins, raw, leaked, misused>>
  BY <1>0 DEF StartRegister, TypeOK, historyVars
<1>3. /\ minted' \in 0..MaxHandles
      /\ hstate' \in [Handle -> {"unminted", "live", "released"}]
      /\ releases' \in [Handle -> Nat]
      /\ Live' = (Live \cup ({h} \ {None})) \ {}
      /\ MintInv'
  BY <1>0, <1>1, AccountKeeps
<1>4. Owned' = Owned \cup {h}
  BY <1>1, <1>2 DEF Owned
<1>5. InUse' = InUse
  BY <1>2 DEF InUse, Registered, Held
<1>6. Ledger'
  BY <1>0, <1>1, <1>2, <1>3, <1>4, <1>5 DEF Ledger
<1>7. Requesting'
  BY <1>0, <1>1, <1>2 DEF Requesting, Registering
<1>8. SoleOwner'
  <2>1. \A d \in Callers : own[d] # h
    BY <1>0, <1>1 DEF Ledger, Owned
  <2> QED BY <1>0, <1>1, <1>2, <2>1 DEF SoleOwner
<1>9. PinInv'
  BY <1>0, <1>2 DEF PinInv
<1>10. QuietInv'
  BY <1>0, <1>1, <1>2 DEF QuietInv, StartRegister, Admit, Querying
<1>11. /\ ContractTypeOK'
       /\ step' \in [Callers -> Steps]
       /\ slot' \in [Callers -> Requests \cup {NoSlot}]
       /\ own' \in [Callers -> Handle \cup {None}]
  BY <1>0, <1>1 DEF StartRegister, Admit, TypeOK, ContractTypeOK, Steps,
                    Registering
<1> QED BY <1>0, <1>2, <1>3, <1>6, <1>7, <1>8, <1>9, <1>10, <1>11, Assemble
        DEF TypeOK

\* Of the ways the existence check ends, one keeps the handle.
LEMMA CheckFailsKeeps ==
  ASSUME HandlesAssumption, HandlesInv, NEW c \in Callers, CheckFails(c)
  PROVE  HandlesInv'
<1>0. TypeOK /\ misused = {}
  BY DEF HandlesInv
<1>1. /\ step[c] \in Registering
      /\ Return(c)
      /\ UNCHANGED reg
      /\ misused' = {}
  BY <1>0 DEF CheckFails, Registering
<1>2. CASE slot[c][1] = "udf"
  <2>1. Account(None, ({None} \ {None}) \cup {own[c]}) /\ UNCHANGED leaked
    <3>1. ({None} \ {None}) \cup {own[c]} = {own[c]}
      OBVIOUS
    <3>2. Release({own[c]}) /\ UNCHANGED leaked
      BY <1>2 DEF CheckFails
    <3> QED BY <3>1, <3>2 DEF Release
  <2> QED BY <1>1, <2>1, GiveUp
<1>3. CASE slot[c][1] # "udf"
  <2>1. Account(None, {None} \ {None}) /\ leaked' = leaked \cup {own[c]}
    <3>1. {None} \ {None} = {}
      OBVIOUS
    <3>2. UNCHANGED handleVars /\ leaked' = leaked \cup {own[c]}
      BY <1>3 DEF CheckFails
    <3> QED BY <3>1, <3>2, <1>0, NoEntry
  <2> QED BY <1>1, <2>1, GiveUp
<1> QED BY <1>2, <1>3

\* The three ways a registration has its handle released before it returns.
LEMMA ReleaseOwnKeeps ==
  ASSUME HandlesAssumption, HandlesInv, NEW c \in Callers,
         CheckTaken(c) \/ MakeFails(c) \/ InsertRefused(c)
  PROVE  HandlesInv'
<1>0. misused = {}
  BY DEF HandlesInv
<1>1. /\ step[c] \in Registering
      /\ Return(c)
      /\ UNCHANGED <<reg, leaked>>
      /\ Release({own[c]})
  BY DEF CheckTaken, MakeFails, InsertRefused, Registering, historyVars
<1>2. misused' = {}
  <2>1. CASE MakeFails(c)
    BY <2>1, <1>0, <1>1, OwnIsLive, CallbackOnLive DEF MakeFails, AskSchema
  <2>2. CASE CheckTaken(c) \/ InsertRefused(c)
    BY <2>2, <1>0 DEF CheckTaken, InsertRefused, historyVars
  <2> QED BY <2>1, <2>2
<1>3. Account(None, ({None} \ {None}) \cup {own[c]}) /\ UNCHANGED leaked
  <2>1. ({None} \ {None}) \cup {own[c]} = {own[c]}
    OBVIOUS
  <2> QED BY <1>1, <2>1 DEF Release
<1> QED BY <1>1, <1>2, <1>3, GiveUp

\* A registration goes on with the handle it has: what it has minted and
\* released on the way changes no account.
LEMMA RegistrationGoesOn ==
  ASSUME HandlesAssumption, HandlesInv,
         NEW c \in Callers, step[c] \in Registering, slot[c] \in Slots,
         NEW s \in Registering, step' = [step EXCEPT ![c] = s],
         NEW h, h = None \/ (h = NextHandle /\ h \in Handle),
         Account(h, {h} \ {None}),
         UNCHANGED <<contractVars, reg, slot, own, cur, pins, raw, leaked>>,
         misused' = {}
  PROVE  HandlesInv'
<1>0. TypeOK /\ MintInv /\ Ledger /\ Requesting /\ SoleOwner /\ PinInv
      /\ QuietInv
  BY LedgerIs DEF HandlesInv
<1>1. /\ \A d \in Callers : d # c => step'[d] = step[d]
      /\ step'[c] = s
  BY <1>0 DEF TypeOK
<1>2. Owned' = Owned /\ InUse' = InUse
  BY DEF Owned, InUse, Registered, Held
<1>3. h # None => h \notin Live
  BY <1>0 DEF Live, MintInv, NextHandle, TypeOK, Handle
<1>4. /\ minted' \in 0..MaxHandles
      /\ hstate' \in [Handle -> {"unminted", "live", "released"}]
      /\ releases' \in [Handle -> Nat]
      /\ Live' = (Live \cup ({h} \ {None})) \ ({h} \ {None})
      /\ MintInv'
  BY <1>0, AccountKeeps
<1>5. Ledger'
  BY <1>0, <1>2, <1>3, <1>4 DEF Ledger
<1>6. Requesting'
  BY <1>0, <1>1 DEF Requesting
<1>7. SoleOwner' /\ PinInv'
  BY <1>0 DEF SoleOwner, PinInv
<1>8. QuietInv'
  BY <1>0, <1>1 DEF QuietInv, contractVars, Registering, Querying, Registered
<1>9. ContractTypeOK' /\ step' \in [Callers -> Steps]
  BY <1>0 DEF TypeOK, ContractTypeOK, contractVars, Steps
<1> QED BY <1>0, <1>4, <1>5, <1>6, <1>7, <1>8, <1>9, Assemble DEF TypeOK

LEMMA CheckFreeKeeps ==
  ASSUME HandlesAssumption, HandlesInv, NEW c \in Callers, CheckFree(c)
  PROVE  HandlesInv'
<1> DEFINE s == IF slot[c][1] = "catalog" THEN "insert" ELSE "make"
<1>1. {None} \ {None} = {}
  OBVIOUS
<1>2. /\ step[c] \in Registering
      /\ slot[c] \in Slots
      /\ s \in Registering
      /\ step' = [step EXCEPT ![c] = s]
      /\ UNCHANGED <<contractVars, reg, slot, own, cur, pins, raw, leaked>>
      /\ misused' = {}
      /\ UNCHANGED handleVars
  BY DEF CheckFree, Registering, historyVars, HandlesInv
<1>3. Account(None, {None} \ {None})
  BY <1>1, <1>2, NoEntry DEF HandlesInv
<1> HIDE DEF s
<1> QED BY <1>2, <1>3, RegistrationGoesOn

LEMMA MakeProviderKeeps ==
  ASSUME HandlesAssumption, HandlesInv, NEW c \in Callers, MakeProvider(c)
  PROVE  HandlesInv'
<1>1. {None} \ {None} = {}
  OBVIOUS
<1>2. /\ step[c] \in Registering
      /\ slot[c] \in Slots
      /\ "insert" \in Registering
      /\ step' = [step EXCEPT ![c] = "insert"]
      /\ UNCHANGED <<contractVars, reg, slot, own, cur, pins, raw, leaked>>
      /\ UNCHANGED handleVars
  BY DEF MakeProvider, Registering, HandlesInv, OwnerInv
<1>3. misused' = {}
  BY <1>2, OwnIsLive, CallbackOnLive DEF MakeProvider, AskSchema, HandlesInv
<1>4. Account(None, {None} \ {None})
  BY <1>1, <1>2, NoEntry DEF HandlesInv
<1> QED BY <1>2, <1>3, <1>4, RegistrationGoesOn

\* The check against a Go catalog as default: it fails and leaks the handle,
\* finds the name taken and releases it, or goes on.
LEMMA CheckGoDefaultKeeps ==
  ASSUME HandlesAssumption, HandlesInv, NEW c \in Callers, CheckGoDefault(c)
  PROVE  HandlesInv'
<1> DEFINE h == NextHandle
           d == <<"catalog", DefaultName>>
<1>0. TypeOK /\ misused = {}
  BY DEF HandlesInv
<1>1. /\ step[c] \in Registering
      /\ slot[c] \in Slots
      /\ UNCHANGED reg
      /\ h \in Handle
      /\ h # None
      /\ d \in Slots
      /\ reg[d] # None
  BY DEF CheckGoDefault, GoDefault, DefaultReplaced, Registering, Handle, None,
         HandlesAssumption, Slots, Kinds
<1>2. misused' = {}
  BY <1>0, <1>1, RegisteredIsLive, CallbackOnLive DEF CheckGoDefault
<1>3. /\ {h} \ {None} = {h}
      /\ {None} \ {None} = {}
      /\ ({h} \ {None}) \cup {own[c]} = {h, own[c]}
  BY <1>1
<1>4. CASE Return(c) /\ leaked' = leaked \cup {own[c]}
           /\ (Account(h, {h}) \/ UNCHANGED handleVars)
  <2>1. CASE Account(h, {h})
    <3>1. Account(h, {h} \ {None})
      BY <1>3, <2>1
    <3> HIDE DEF h
    <3> QED BY <1>1, <1>2, <1>4, <3>1, GiveUp DEF h
  <2>2. CASE UNCHANGED handleVars
    <3>1. Account(None, {None} \ {None})
      BY <1>0, <1>3, <2>2, NoEntry
    <3> QED BY <1>1, <1>2, <1>4, <3>1, GiveUp
  <2> QED BY <1>4, <2>1, <2>2
<1>5. CASE Return(c) /\ Account(h, {h, own[c]}) /\ UNCHANGED leaked
  <2>1. Account(h, ({h} \ {None}) \cup {own[c]})
    BY <1>3, <1>5
  <2> HIDE DEF h
  <2> QED BY <1>1, <1>2, <1>5, <2>1, GiveUp DEF h
<1>6. CASE /\ step' = [step EXCEPT ![c] = "make"]
           /\ Account(h, {h})
           /\ UNCHANGED <<contractVars, slot, own, cur, pins, raw, leaked>>
  <2>1. Account(h, {h} \ {None})
    BY <1>3, <1>6
  <2>2. "make" \in Registering
    BY DEF Registering
  <2> HIDE DEF h
  <2> QED BY <1>1, <1>2, <1>6, <2>1, <2>2, RegistrationGoesOn DEF h
<1> QED BY <1>4, <1>5, <1>6 DEF CheckGoDefault

\* The Go catalog that is the default takes no table: a schema found on the way
\* is released with the provider.
LEMMA InsertGoDefaultKeeps ==
  ASSUME HandlesAssumption, HandlesInv, NEW c \in Callers, InsertGoDefault(c)
  PROVE  HandlesInv'
<1> DEFINE h == NextHandle
           d == <<"catalog", DefaultName>>
<1>0. TypeOK /\ misused = {}
  BY DEF HandlesInv
<1>1. /\ step[c] \in Registering
      /\ Return(c)
      /\ UNCHANGED <<reg, leaked>>
      /\ h \in Handle
      /\ h # None
      /\ d \in Slots
      /\ reg[d] # None
  BY DEF InsertGoDefault, GoDefault, DefaultReplaced, Registering, Handle, None,
         HandlesAssumption, Slots, Kinds
<1>2. misused' = {}
  BY <1>0, <1>1, RegisteredIsLive, CallbackOnLive DEF InsertGoDefault
<1>3. /\ ({h} \ {None}) \cup {own[c]} = {h, own[c]}
      /\ ({None} \ {None}) \cup {own[c]} = {own[c]}
  BY <1>1
<1>4. CASE Account(h, {h, own[c]})
  <2>1. Account(h, ({h} \ {None}) \cup {own[c]})
    BY <1>3, <1>4
  <2> HIDE DEF h
  <2> QED BY <1>1, <1>2, <2>1, GiveUp DEF h
<1>5. CASE Release({own[c]})
  <2>1. Account(None, ({None} \ {None}) \cup {own[c]})
    BY <1>3, <1>5 DEF Release
  <2> QED BY <1>1, <1>2, <2>1, GiveUp
<1> QED BY <1>4, <1>5 DEF InsertGoDefault

\* The provider goes into its registry: what it replaces, and the tables of a
\* replaced default catalog, are released unless a statement holds them.
LEMMA InsertKeeps ==
  ASSUME HandlesAssumption, HandlesInv, NEW c \in Callers, Insert(c)
  PROVE  HandlesInv'
<1> DEFINE S == Registered(reg)
           M == {own[c]}
           R == Unreferenced(S, reg', cur, pins)
<1>0. TypeOK /\ MintInv /\ Ledger /\ misused = {}
  BY LedgerIs DEF HandlesInv
<1>1. /\ step[c] \in Registering
      /\ slot[c] \in Slots
      /\ Return(c)
      /\ Account(None, R)
      /\ UNCHANGED <<leaked, misused>>
  BY DEF Insert, Registering, Release, historyVars, HandlesInv, OwnerInv
<1>2. /\ ContractTypeOK'
      /\ step' \in [Callers -> Steps]
      /\ slot' \in [Callers -> Requests \cup {NoSlot}]
      /\ own' \in [Callers -> Handle \cup {None}]
      /\ UNCHANGED <<cur, pins, raw>>
      /\ own[c] \in Owned
      /\ own[c] \in Live
      /\ Owned' = Owned \ {own[c]}
      /\ Requesting'
      /\ SoleOwner'
      /\ PinInv'
      /\ QuietInv'
  BY <1>1, ReturnKeeps
<1>3. /\ reg' \in [Slots -> Handle \cup {None}]
      /\ reg'[slot[c]] = own[c]
      /\ \A x \in Slots : reg'[x] \in {own[c], None, reg[x]}
  <2>1. reg' = Inserted(slot[c], own[c])
    BY DEF Insert
  <2>2. \A x \in Slots : reg'[x] = Inserted(slot[c], own[c])[x]
    BY <2>1
  <2>3. own[c] \in Handle
    BY <1>2 DEF Live
  <2> QED BY <1>0, <1>1, <2>1, <2>3 DEF Inserted, TypeOK
<1>4. /\ Registered(reg') \subseteq Registered(reg) \cup {own[c]}
      /\ own[c] \in Registered(reg')
  BY <1>1, <1>2, <1>3, OwnIsLive DEF Registered
<1>5. /\ S \subseteq InUse
      /\ M \subseteq Owned
      /\ M \subseteq InUse'
      /\ Owned' = Owned \ M
      /\ InUse' \subseteq InUse \cup M \cup ({None} \ {None})
      /\ InUse \subseteq InUse' \cup S
  BY <1>2, <1>4 DEF InUse
<1>6. R = (S \cup ({None} \ {None})) \ InUse'
  BY <1>2 DEF Unreferenced, InUse
<1> HIDE DEF S, M, R
<1>7. /\ minted' \in 0..MaxHandles
      /\ hstate' \in [Handle -> {"unminted", "live", "released"}]
      /\ releases' \in [Handle -> Nat]
      /\ MintInv'
      /\ Ledger'
  BY <1>0, <1>1, <1>5, <1>6, Settle
<1> QED BY <1>0, <1>1, <1>2, <1>3, <1>7, Assemble DEF TypeOK
-----------------------------------------------------------------------------
(* The steps of a statement *)

\* What is released when caller c's lookup drops its catalog or schema and h
\* has been minted.
Dropped(c, h) == (({cur[c]} \ {None}) \cup ({h} \ {None})) \ InUse'

\* A statement's step on which references change: what it holds afterwards was
\* in use before, or is the handle h minted on the way (if any).
LEMMA StatementSettles ==
  ASSUME HandlesAssumption, HandlesInv, NEW c \in Callers, StatementStep(c),
         step[c] \in Querying, step'[c] \in Querying,
         cur'[c] # None <=> step'[c] \in {"schema", "table"},
         pins[c] \subseteq pins'[c],
         UNCHANGED <<contractVars, reg, slot, own, raw, leaked>>,
         misused' = {},
         NEW h, h = None \/ (h = NextHandle /\ h \in Handle),
         HeldBy(c)' \subseteq InUse \cup ({h} \ {None}),
         Account(h, Dropped(c, h))
  PROVE  HandlesInv'
<1> DEFINE S == {cur[c]} \ {None}
           R == Dropped(c, h)
<1>0. TypeOK /\ MintInv /\ Ledger
  BY LedgerIs DEF HandlesInv
<1>1. /\ ContractTypeOK'
      /\ Owned' = Owned
      /\ Requesting'
      /\ SoleOwner'
      /\ PinInv'
      /\ QuietInv'
  BY StatementKeeps
<1>2. InUse' = Registered(reg) \cup Held(cur', pins')
  BY DEF InUse
<1>3. /\ Held(cur', pins') \subseteq Held(cur, pins) \cup HeldBy(c)'
      /\ Held(cur, pins) \subseteq Held(cur', pins') \cup HeldBy(c)
      /\ HeldBy(c)' \subseteq Held(cur', pins')
      /\ HeldBy(c) \subseteq Held(cur, pins)
  BY <1>0, HeldAfter
<1>4. HeldBy(c) \subseteq S \cup HeldBy(c)' /\ S \subseteq HeldBy(c)
  BY DEF HeldBy
<1>5. /\ S \subseteq InUse
      /\ {} \subseteq Owned
      /\ {} \subseteq InUse'
      /\ Owned' = Owned \ {}
      /\ InUse' \subseteq InUse \cup {} \cup ({h} \ {None})
      /\ InUse \subseteq InUse' \cup S
  <2> HIDE DEF S
  <2> QED BY <1>1, <1>2, <1>3, <1>4 DEF InUse
<1>6. R = (S \cup ({h} \ {None})) \ InUse' /\ Account(h, R)
  BY DEF Dropped
<1> HIDE DEF S, R
<1>7. /\ minted' \in 0..MaxHandles
      /\ hstate' \in [Handle -> {"unminted", "live", "released"}]
      /\ releases' \in [Handle -> Nat]
      /\ MintInv'
      /\ Ledger'
  BY <1>0, <1>5, <1>6, Settle
<1> QED BY <1>0, <1>1, <1>7, Assemble DEF TypeOK, StatementStep

\* A planning statement is in no lookup; one that looks up has something live
\* to call.
LEMMA PlanningIsQuiet ==
  ASSUME HandlesInv, NEW c \in Callers, step[c] \in {"plan", "exec", "failed"}
  PROVE  cur[c] = None
BY DEF HandlesInv, QuietInv

LEMMA LookupIsLive ==
  ASSUME HandlesInv, NEW c \in Callers, step[c] \in {"schema", "table"}
  PROVE  cur[c] \in Live /\ cur[c] # None
<1>1. cur[c] # None
  BY DEF HandlesInv, QuietInv
<1>2. cur[c] \in Held(cur, pins)
  BY <1>1 DEF Held
<1> QED BY <1>1, <1>2, LedgerIs DEF HandlesInv, Ledger, InUse

\* What a statement has resolved is live.
LEMMA PinsAreLive ==
  ASSUME HandlesInv, NEW c \in Callers
  PROVE  pins[c] \subseteq Live
<1>1. pins[c] \subseteq Held(cur, pins)
  BY DEF Held
<1> QED BY <1>1, LedgerIs DEF HandlesInv, Ledger, InUse

LEMMA ResolveKeeps ==
  ASSUME HandlesAssumption, HandlesInv,
         NEW c \in Callers, NEW s \in Slots, Resolve(c, s)
  PROVE  HandlesInv'
<1>0. TypeOK /\ misused = {}
  BY DEF HandlesInv
<1>1. cur[c] = None /\ step[c] = "plan"
  BY PlanningIsQuiet DEF Resolve
<1>2. reg[s] \in Registered(reg) /\ reg[s] \in Handle
  BY RegisteredIsLive DEF Resolve, Live
<1>3. /\ StatementStep(c)
      /\ step'[c] = "plan"
      /\ cur'[c] = None
      /\ pins'[c] = pins[c] \cup {reg[s]}
  BY <1>0, <1>1, <1>2 DEF Resolve, TypeOK, StatementStep
<1>4. /\ UNCHANGED <<contractVars, reg, slot, own, raw, leaked>>
      /\ misused' = {}
      /\ UNCHANGED handleVars
  BY <1>0 DEF Resolve, historyVars
<1>5. HeldBy(c)' \subseteq InUse \cup ({None} \ {None})
  BY <1>2, <1>3 DEF HeldBy, InUse, Held
<1>6. Account(None, Dropped(c, None))
  <2>1. Dropped(c, None) = {}
    BY <1>1 DEF Dropped
  <2> QED BY <1>0, <1>4, <2>1, NoEntry
<1>7. /\ step[c] \in Querying /\ step'[c] \in Querying
      /\ cur'[c] # None <=> step'[c] \in {"schema", "table"}
      /\ pins[c] \subseteq pins'[c]
  BY <1>1, <1>3 DEF Querying
<1> QED BY <1>3, <1>4, <1>5, <1>6, <1>7, StatementSettles

LEMMA ResolveCatalogKeeps ==
  ASSUME HandlesAssumption, HandlesInv,
         NEW c \in Callers, NEW n \in Names, ResolveCatalog(c, n)
  PROVE  HandlesInv'
<1> DEFINE k == reg[<<"catalog", n>>]
<1>0. TypeOK /\ misused = {}
  BY DEF HandlesInv
<1>1. cur[c] = None /\ step[c] = "plan"
  BY PlanningIsQuiet DEF ResolveCatalog
<1>2. k \in Registered(reg) /\ k \in Handle /\ k # None
  <2>1. <<"catalog", n>> \in Slots
    BY DEF Slots, Kinds
  <2> QED BY <2>1, RegisteredIsLive DEF ResolveCatalog, Live
<1>3. /\ StatementStep(c)
      /\ step'[c] = "schema"
      /\ cur'[c] = k
      /\ pins'[c] = pins[c]
  BY <1>0, <1>1, <1>2 DEF ResolveCatalog, TypeOK, StatementStep, Steps, Querying
<1>4. /\ UNCHANGED <<contractVars, reg, slot, own, raw, leaked>>
      /\ misused' = {}
      /\ UNCHANGED handleVars
  BY <1>0 DEF ResolveCatalog, historyVars
<1>5. HeldBy(c)' \subseteq InUse \cup ({None} \ {None})
  BY <1>2, <1>3 DEF HeldBy, InUse, Held
<1>6. Account(None, Dropped(c, None))
  <2>1. Dropped(c, None) = {}
    BY <1>1 DEF Dropped
  <2> QED BY <1>0, <1>4, <2>1, NoEntry
<1>7. /\ step[c] \in Querying /\ step'[c] \in Querying
      /\ cur'[c] # None <=> step'[c] \in {"schema", "table"}
      /\ pins[c] \subseteq pins'[c]
  BY <1>1, <1>2, <1>3 DEF Querying
<1> QED BY <1>3, <1>4, <1>5, <1>6, <1>7, StatementSettles

\* The catalog is called and dropped; what it gives is a schema's handle.
LEMMA LookupSchemaKeeps ==
  ASSUME HandlesAssumption, HandlesInv, NEW c \in Callers, LookupSchema(c)
  PROVE  HandlesInv'
<1> DEFINE h == NextHandle
           Gone == Unreferenced({cur[c]}, reg, cur', pins')
<1>0. TypeOK /\ misused = {}
  BY DEF HandlesInv
<1>1. step[c] = "schema" /\ cur[c] \in Live /\ cur[c] # None
  BY LookupIsLive DEF LookupSchema
<1>2. misused' = {}
  BY <1>0, <1>1, CallbackOnLive DEF LookupSchema
<1>3. UNCHANGED pins /\ h \in Handle /\ h # None
  BY DEF LookupSchema, Handle, None
<1>4. CASE Proceed(c, "table", h, h)
  <2>1. /\ UNCHANGED <<contractVars, reg, slot, own, raw, leaked>>
        /\ Account(h, Gone)
    BY <1>4 DEF Proceed
  <2>2. /\ StatementStep(c)
        /\ step'[c] = "table"
        /\ cur'[c] = h
        /\ pins'[c] = pins[c]
    BY <1>0, <1>3, <1>4 DEF Proceed, TypeOK, StatementStep, Steps, Querying
  <2> HIDE DEF h
  <2>3. HeldBy(c)' \subseteq InUse \cup ({h} \ {None})
    BY <1>3, <2>2 DEF HeldBy, InUse, Held
  <2>4. h \in Held(cur', pins')
    BY <1>3, <2>2 DEF Held
  <2>5. Account(h, Dropped(c, h))
    <3>1. Gone = Dropped(c, h)
      BY <1>1, <2>1, <2>4 DEF Unreferenced, Dropped, InUse
    <3> QED BY <2>1, <3>1
  <2>6. /\ step[c] \in Querying /\ step'[c] \in Querying
        /\ cur'[c] # None <=> step'[c] \in {"schema", "table"}
        /\ pins[c] \subseteq pins'[c]
        /\ h = None \/ (h = NextHandle /\ h \in Handle)
    BY <1>1, <1>3, <2>2 DEF Querying, h
  <2> QED BY <1>2, <2>1, <2>2, <2>3, <2>5, <2>6, StatementSettles
<1>5. CASE Proceed(c, "failed", None, None)
  <2>1. /\ UNCHANGED <<contractVars, reg, slot, own, raw, leaked>>
        /\ Account(None, Gone)
    BY <1>5 DEF Proceed
  <2>2. /\ StatementStep(c)
        /\ step'[c] = "failed"
        /\ cur'[c] = None
        /\ pins'[c] = pins[c]
    BY <1>0, <1>3, <1>5 DEF Proceed, TypeOK, StatementStep, Steps, Querying
  <2>3. HeldBy(c)' \subseteq InUse \cup ({None} \ {None})
    BY <2>2 DEF HeldBy, InUse, Held
  <2>4. Account(None, Dropped(c, None))
    <3>1. Gone = Dropped(c, None)
      BY <1>1, <2>1 DEF Unreferenced, Dropped, InUse
    <3> QED BY <2>1, <3>1
  <2>5. /\ step[c] \in Querying /\ step'[c] \in Querying
        /\ cur'[c] # None <=> step'[c] \in {"schema", "table"}
        /\ pins[c] \subseteq pins'[c]
    BY <1>1, <2>2 DEF Querying
  <2> QED BY <1>2, <2>1, <2>2, <2>3, <2>4, <2>5, StatementSettles
<1> QED BY <1>4, <1>5 DEF LookupSchema

\* The schema is called and dropped; the statement holds the table it gives.
LEMMA LookupTableKeeps ==
  ASSUME HandlesAssumption, HandlesInv, NEW c \in Callers, LookupTable(c)
  PROVE  HandlesInv'
<1> DEFINE h == NextHandle
           Gone == Unreferenced({cur[c]}, reg, cur', pins')
<1>0. TypeOK /\ misused = {}
  BY DEF HandlesInv
<1>1. step[c] = "table" /\ cur[c] \in Live /\ cur[c] # None
  BY LookupIsLive DEF LookupTable
<1>2. misused' = {}
  BY <1>0, <1>1, CallbackOnLive DEF LookupTable
<1>3. h \in Handle /\ h # None
  BY DEF LookupTable, Handle, None
<1>4. /\ UNCHANGED <<contractVars, reg, slot, own, raw, leaked>>
      /\ Account(h, Gone)
  BY DEF LookupTable, Proceed
<1>5. /\ StatementStep(c)
      /\ step'[c] = "plan"
      /\ cur'[c] = None
      /\ pins'[c] = pins[c] \cup {h}
  BY <1>0, <1>3 DEF LookupTable, Proceed, TypeOK, StatementStep, Steps, Querying
<1> HIDE DEF h
<1>6. HeldBy(c)' \subseteq InUse \cup ({h} \ {None})
  BY <1>3, <1>5 DEF HeldBy, InUse, Held
<1>7. h \in Held(cur', pins')
  BY <1>5 DEF Held
<1>8. Account(h, Dropped(c, h))
  <2>1. Gone = Dropped(c, h)
    BY <1>1, <1>4, <1>7 DEF Unreferenced, Dropped, InUse
  <2> QED BY <1>4, <2>1
<1>9. /\ step[c] \in Querying /\ step'[c] \in Querying
      /\ cur'[c] # None <=> step'[c] \in {"schema", "table"}
      /\ pins[c] \subseteq pins'[c]
      /\ h = None \/ (h = NextHandle /\ h \in Handle)
  BY <1>1, <1>3, <1>5 DEF Querying, h
<1> QED BY <1>2, <1>4, <1>5, <1>6, <1>8, <1>9, StatementSettles

LEMMA LookupTableFailsKeeps ==
  ASSUME HandlesAssumption, HandlesInv, NEW c \in Callers, LookupTableFails(c)
  PROVE  HandlesInv'
<1> DEFINE h == NextHandle
           Gone == Unreferenced({cur[c]}, reg, cur', pins)
<1>0. TypeOK /\ misused = {} /\ MintInv /\ Ledger
  BY LedgerIs DEF HandlesInv
<1>1. step[c] = "table" /\ cur[c] \in Live /\ cur[c] # None
  BY LookupIsLive DEF LookupTableFails
<1>2. misused' = {}
  BY <1>0, <1>1, CallbackOnLive DEF LookupTableFails
<1>3. h \in Handle /\ h # None /\ h \notin Live
  BY <1>0 DEF LookupTableFails, Handle, None, Live, MintInv, TypeOK, NextHandle
<1>4. UNCHANGED <<contractVars, reg, slot, own, pins, raw, leaked>>
  BY DEF LookupTableFails
<1>5. /\ StatementStep(c)
      /\ step'[c] = "failed"
      /\ cur'[c] = None
      /\ pins'[c] = pins[c]
  BY <1>0 DEF LookupTableFails, TypeOK, StatementStep, Steps, Querying
<1>6. HeldBy(c)' \subseteq InUse
  BY <1>5 DEF HeldBy, InUse, Held
<1>7. /\ step[c] \in Querying /\ step'[c] \in Querying
      /\ cur'[c] # None <=> step'[c] \in {"schema", "table"}
      /\ pins[c] \subseteq pins'[c]
  BY <1>1, <1>5 DEF Querying
<1>8. CASE Account(None, Gone)
  <2>1. HeldBy(c)' \subseteq InUse \cup ({None} \ {None})
    BY <1>6
  <2>2. Account(None, Dropped(c, None))
    <3>1. Gone = Dropped(c, None)
      BY <1>1, <1>4 DEF Unreferenced, Dropped, InUse
    <3> QED BY <1>8, <3>1
  <2> QED BY <1>2, <1>4, <1>5, <1>7, <2>1, <2>2, StatementSettles
<1>9. CASE Account(h, Gone \cup {h})
  <2> HIDE DEF h
  <2>1. h \notin InUse'
    <3>1. Held(cur', pins') \subseteq Held(cur, pins) \cup HeldBy(c)'
      BY <1>0, <1>5, HeldAfter
    <3>2. h \notin InUse
      BY <1>0, <1>3 DEF Ledger
    <3>3. InUse' \subseteq InUse
      BY <1>4, <1>6, <3>1 DEF InUse
    <3> QED BY <3>2, <3>3
  <2>2. Account(h, Dropped(c, h))
    <3>1. Gone = {cur[c]} \ InUse'
      BY <1>4 DEF Unreferenced, InUse
    <3>2. Gone \cup {h} = Dropped(c, h)
      BY <1>1, <1>3, <2>1, <3>1 DEF Dropped
    <3> QED BY <1>9, <3>2
  <2>3. /\ HeldBy(c)' \subseteq InUse \cup ({h} \ {None})
        /\ h = None \/ (h = NextHandle /\ h \in Handle)
    BY <1>3, <1>6 DEF h
  <2> QED BY <1>2, <1>4, <1>5, <1>7, <2>2, <2>3, StatementSettles
<1> QED BY <1>8, <1>9 DEF LookupTableFails
\* A callback, a plan or a close changes no reference and no handle.
LEMMA NothingMoves ==
  ASSUME HandlesInv,
         UNCHANGED <<handleVars, reg, slot, own, cur, pins, leaked>>,
         misused' = {},
         ContractTypeOK', step' \in [Callers -> Steps],
         raw' \in [Callers -> SUBSET Handle],
         Requesting', PinInv', QuietInv'
  PROVE  HandlesInv'
<1>0. TypeOK /\ MintInv /\ Ledger /\ SoleOwner
  BY LedgerIs DEF HandlesInv
<1>1. Live' = Live /\ Owned' = Owned /\ InUse' = InUse
  BY DEF Live, Owned, InUse, Registered, Held, handleVars
<1>2. Ledger'
  BY <1>0, <1>1 DEF Ledger
<1>3. MintInv' /\ SoleOwner'
  BY <1>0 DEF MintInv, SoleOwner, handleVars
<1> QED BY <1>0, <1>2, <1>3, Assemble DEF TypeOK, handleVars

LEMMA StartQueryKeeps ==
  ASSUME HandlesInv, NEW c \in Callers, StartQuery(c)
  PROVE  HandlesInv'
<1>0. TypeOK /\ Requesting /\ PinInv /\ QuietInv /\ misused = {}
  BY LedgerIs DEF HandlesInv
<1>1. /\ step[c] = "idle"
      /\ step'[c] = "plan"
      /\ \A d \in Callers : d # c => step'[d] = step[d]
      /\ UNCHANGED <<handleVars, reg, slot, own, cur, pins, raw, leaked, misused>>
  BY <1>0 DEF StartQuery, Admit, TypeOK, QuietInv, historyVars
<1>2. /\ ContractTypeOK'
      /\ step' \in [Callers -> Steps]
      /\ raw' \in [Callers -> SUBSET Handle]
  BY <1>0, <1>1 DEF StartQuery, Admit, TypeOK, ContractTypeOK, Steps, Querying
<1>3. Requesting'
  BY <1>0, <1>1 DEF Requesting, Registering
<1>4. PinInv'
  BY <1>0, <1>1 DEF PinInv
<1>5. QuietInv'
  BY <1>0, <1>1 DEF QuietInv, StartQuery, Admit, Querying
<1> QED BY <1>0, <1>1, <1>2, <1>3, <1>4, <1>5, NothingMoves

\* Go is called back by a lookup, or by the plan.
LEMMA CalledBackKeeps ==
  ASSUME HandlesInv, NEW c \in Callers, ListNames(c) \/ Execute(c)
  PROVE  HandlesInv'
<1>0. TypeOK /\ Requesting /\ PinInv /\ QuietInv /\ misused = {}
  BY LedgerIs DEF HandlesInv
<1>1. misused' = {}
  <2>1. CASE ListNames(c)
    BY <2>1, <1>0, LookupIsLive, CallbackOnLive DEF ListNames
  <2>2. CASE Execute(c)
    <3>1. PICK h \in raw[c] : Callback(h)
      BY <2>2 DEF Execute
    <3>2. h \in Live
      BY <1>0, PinsAreLive DEF PinInv
    <3> QED BY <1>0, <3>1, <3>2, CallbackOnLive
  <2> QED BY <2>1, <2>2
<1>2. UNCHANGED <<contractVars, handleVars, reg, step, slot, own, cur, pins,
                  raw, leaked>>
  BY DEF ListNames, Execute, callVars
<1>3. /\ ContractTypeOK'
      /\ step' \in [Callers -> Steps]
      /\ raw' \in [Callers -> SUBSET Handle]
  BY <1>0, <1>2 DEF TypeOK, ContractTypeOK, contractVars
<1>4. Requesting' /\ PinInv'
  BY <1>0, <1>2 DEF Requesting, PinInv
<1>5. QuietInv'
  BY <1>0, <1>2 DEF QuietInv, contractVars, Registered
<1> QED BY <1>1, <1>2, <1>3, <1>4, <1>5, NothingMoves

LEMMA PlanPhysicalKeeps ==
  ASSUME HandlesInv, NEW c \in Callers, PlanPhysical(c)
  PROVE  HandlesInv'
<1>0. TypeOK /\ Requesting /\ PinInv /\ QuietInv /\ misused = {}
  BY LedgerIs DEF HandlesInv
<1>1. /\ step[c] = "plan"
      /\ step'[c] = "exec"
      /\ raw'[c] = pins[c]
      /\ \A d \in Callers : d # c => step'[d] = step[d] /\ raw'[d] = raw[d]
      /\ UNCHANGED <<contractVars, handleVars, reg, slot, own, cur, pins,
                     leaked, misused>>
  BY <1>0 DEF PlanPhysical, TypeOK, historyVars
<1>2. /\ ContractTypeOK'
      /\ step' \in [Callers -> Steps]
      /\ raw' \in [Callers -> SUBSET Handle]
  BY <1>0 DEF PlanPhysical, TypeOK, ContractTypeOK, contractVars, Steps, Querying
<1>3. Requesting'
  BY <1>0, <1>1 DEF Requesting, Registering
<1>4. PinInv'
  BY <1>0, <1>1 DEF PinInv
<1>5. QuietInv'
  BY <1>0, <1>1 DEF QuietInv, contractVars, Querying, Registered
<1> QED BY <1>0, <1>1, <1>2, <1>3, <1>4, <1>5, NothingMoves

\* A statement that leaves the engine with nothing in its hands.
LEMMA StatementEnds ==
  ASSUME HandlesInv, NEW c \in Callers, StatementStep(c),
         step[c] \in Querying, step'[c] = "idle", Leave(c),
         cur'[c] = None, pins'[c] = {},
         raw' \in [Callers -> SUBSET Handle], raw'[c] = {},
         \A d \in Callers \ {c} : raw'[d] = raw[d],
         UNCHANGED <<slot, own>>
  PROVE  /\ ContractTypeOK'
         /\ Owned' = Owned
         /\ Requesting'
         /\ SoleOwner'
         /\ PinInv'
         /\ QuietInv'
<1>0. /\ TypeOK /\ Requesting /\ SoleOwner /\ PinInv /\ QuietInv
      /\ \A d \in Callers : d # c =>
           /\ step'[d] = step[d]
           /\ cur'[d] = cur[d]
           /\ pins'[d] = pins[d]
           /\ raw'[d] = raw[d]
  BY LedgerIs DEF HandlesInv, StatementStep
<1>1. ContractTypeOK'
  BY <1>0 DEF TypeOK, ContractTypeOK, Leave
<1>2. Owned' = Owned
  BY DEF Owned
<1>3. Requesting'
  BY <1>0 DEF Requesting, Registering, Querying
<1>4. SoleOwner'
  BY <1>0 DEF SoleOwner
<1>5. PinInv'
  BY <1>0 DEF PinInv
<1>6. QuietInv'
  BY <1>0 DEF QuietInv, Leave, Querying
<1> QED BY <1>1, <1>2, <1>3, <1>4, <1>5, <1>6

\* Its providers are released, but for the ones others refer to.
LEMMA EndQueryKeeps ==
  ASSUME HandlesAssumption, HandlesInv, NEW c \in Callers, EndQuery(c)
  PROVE  HandlesInv'
<1> DEFINE S == HeldBy(c)
           R == Unreferenced(pins[c] \cup ({cur[c]} \ {None}), reg, cur', pins')
<1>0. TypeOK /\ MintInv /\ Ledger /\ misused = {}
  BY LedgerIs DEF HandlesInv
<1>1. /\ StatementStep(c)
      /\ step[c] \in Querying
      /\ step'[c] = "idle"
      /\ Leave(c)
      /\ cur'[c] = None
      /\ pins'[c] = {}
      /\ raw' \in [Callers -> SUBSET Handle]
      /\ raw'[c] = {}
      /\ \A d \in Callers \ {c} : raw'[d] = raw[d]
  BY <1>0 DEF EndQuery, TypeOK, StatementStep, Steps
<1>2. /\ UNCHANGED <<reg, slot, own, leaked, misused>>
      /\ Account(None, R)
  BY DEF EndQuery, Release, historyVars
<1>3. /\ ContractTypeOK'
      /\ Owned' = Owned
      /\ Requesting'
      /\ SoleOwner'
      /\ PinInv'
      /\ QuietInv'
  BY <1>1, <1>2, StatementEnds
<1>4. /\ Held(cur', pins') \subseteq Held(cur, pins)
      /\ Held(cur, pins) \subseteq Held(cur', pins') \cup S
      /\ S \subseteq Held(cur, pins)
  <2>1. HeldBy(c)' = {}
    BY <1>1 DEF HeldBy
  <2> QED BY <1>0, <1>1, <2>1, HeldAfter
<1>5. R = (S \cup ({None} \ {None})) \ InUse'
  BY <1>2 DEF Unreferenced, InUse, HeldBy
<1> HIDE DEF S, R
<1>6. /\ S \subseteq InUse
      /\ {} \subseteq Owned
      /\ {} \subseteq InUse'
      /\ Owned' = Owned \ {}
      /\ InUse' \subseteq InUse \cup {} \cup ({None} \ {None})
      /\ InUse \subseteq InUse' \cup S
  BY <1>2, <1>3, <1>4 DEF InUse
<1>7. /\ minted' \in 0..MaxHandles
      /\ hstate' \in [Handle -> {"unminted", "live", "released"}]
      /\ releases' \in [Handle -> Nat]
      /\ MintInv'
      /\ Ledger'
  BY <1>0, <1>2, <1>5, <1>6, Settle
<1> QED BY <1>0, <1>1, <1>2, <1>3, <1>7, Assemble DEF TypeOK, StatementStep

\* DROP TABLE takes the table from the registry; statements may still hold it.
LEMMA DropTableKeeps ==
  ASSUME HandlesAssumption, HandlesInv,
         NEW c \in Callers, NEW n \in Names, DropTable(c, n)
  PROVE  HandlesInv'
<1> DEFINE t == <<"table", n>>
           S == {reg[t]}
           R == Unreferenced(S, reg', cur, pins)
<1>0. TypeOK /\ MintInv /\ Ledger /\ PinInv /\ misused = {}
  BY LedgerIs DEF HandlesInv
<1>1. cur[c] = None /\ step[c] = "plan" /\ pins[c] = {} /\ raw[c] = {}
  BY <1>0, PlanningIsQuiet DEF DropTable, PinInv
<1>2. /\ StatementStep(c)
      /\ step[c] \in Querying
      /\ step'[c] = "idle"
      /\ Leave(c)
      /\ cur'[c] = None
      /\ pins'[c] = {}
      /\ raw' \in [Callers -> SUBSET Handle]
      /\ raw'[c] = {}
      /\ \A d \in Callers \ {c} : raw'[d] = raw[d]
  BY <1>0, <1>1 DEF DropTable, TypeOK, StatementStep, Steps, Querying
<1>3. /\ UNCHANGED <<slot, own, cur, pins, raw, leaked, misused>>
      /\ Account(None, R)
  BY DEF DropTable, Release, historyVars
<1>4. /\ ContractTypeOK'
      /\ Owned' = Owned
      /\ Requesting'
      /\ SoleOwner'
      /\ PinInv'
      /\ QuietInv'
  BY <1>2, <1>3, StatementEnds
<1>5. t \in Slots /\ reg[t] # None
  BY DEF DropTable, Slots, Kinds
<1>6. /\ reg' \in [Slots -> Handle \cup {None}]
      /\ \A x \in Slots : x # t => reg'[x] = reg[x]
      /\ reg'[t] = None
  <2>1. reg' = [reg EXCEPT ![t] = None]
    BY DEF DropTable
  <2> HIDE DEF t
  <2> QED BY <1>0, <1>5, <2>1 DEF TypeOK
<1> HIDE DEF t
<1>7. /\ Registered(reg') \subseteq Registered(reg)
      /\ Registered(reg) \subseteq Registered(reg') \cup S
      /\ S \subseteq Registered(reg)
  BY <1>5, <1>6 DEF Registered
<1>8. R = (S \cup ({None} \ {None})) \ InUse'
  BY <1>3 DEF Unreferenced, InUse
<1> HIDE DEF S, R
<1>9. /\ S \subseteq InUse
      /\ {} \subseteq Owned
      /\ {} \subseteq InUse'
      /\ Owned' = Owned \ {}
      /\ InUse' \subseteq InUse \cup {} \cup ({None} \ {None})
      /\ InUse \subseteq InUse' \cup S
  BY <1>3, <1>4, <1>7 DEF InUse
<1>10. /\ minted' \in 0..MaxHandles
       /\ hstate' \in [Handle -> {"unminted", "live", "released"}]
       /\ releases' \in [Handle -> Nat]
       /\ MintInv'
       /\ Ledger'
  BY <1>0, <1>3, <1>8, <1>9, Settle
<1> QED BY <1>0, <1>2, <1>3, <1>4, <1>6, <1>10, Assemble DEF TypeOK, StatementStep
-----------------------------------------------------------------------------
(* The session's end *)

\* With nobody in the engine, only the registries refer to handles.
LEMMA NobodyHolds ==
  ASSUME HandlesInv, running = {}
  PROVE  Owned = {} /\ Held(cur, pins) = {}
<1>1. Requesting /\ QuietInv
  BY LedgerIs DEF HandlesInv
<1>2. \A c \in Callers : own[c] = None /\ cur[c] = None /\ pins[c] = {}
  BY <1>1 DEF Requesting, QuietInv, Registering, Querying
<1> QED BY <1>2 DEF Owned, Held

LEMMA FreeSessionKeeps ==
  ASSUME HandlesAssumption, HandlesInv, FreeSession
  PROVE  HandlesInv'
<1> DEFINE S == Registered(reg)
<1>0. /\ TypeOK /\ MintInv /\ Ledger /\ Requesting /\ SoleOwner /\ PinInv
      /\ QuietInv /\ misused = {}
  BY LedgerIs DEF HandlesInv
<1>1. /\ running = {} /\ running' = {} /\ phase' = "freed"
      /\ UNCHANGED <<step, slot, own, cur, pins, raw, leaked, misused>>
      /\ reg' = [s \in Slots |-> None]
      /\ Account(None, S)
  BY DEF FreeSession, Free, Reclaim, callVars, historyVars, Release
<1>2. Owned = {} /\ Held(cur, pins) = {} /\ Owned' = {} /\ Held(cur', pins') = {}
  <2>1. Owned = {} /\ Held(cur, pins) = {}
    BY <1>1, NobodyHolds
  <2> QED BY <1>1, <2>1 DEF Owned, Held
<1>3. Registered(reg') = {}
  BY <1>1 DEF Registered
<1>4. S = (S \cup ({None} \ {None})) \ InUse'
  BY <1>2, <1>3 DEF InUse
<1> HIDE DEF S
<1>5. /\ S \subseteq InUse
      /\ {} \subseteq Owned
      /\ {} \subseteq InUse'
      /\ Owned' = Owned \ {}
      /\ InUse' \subseteq InUse \cup {} \cup ({None} \ {None})
      /\ InUse \subseteq InUse' \cup S
  BY <1>2, <1>3 DEF InUse, S
<1>6. /\ minted' \in 0..MaxHandles
      /\ hstate' \in [Handle -> {"unminted", "live", "released"}]
      /\ releases' \in [Handle -> Nat]
      /\ MintInv'
      /\ Ledger'
  BY <1>0, <1>1, <1>4, <1>5, Settle
<1>7. ContractTypeOK' /\ reg' \in [Slots -> Handle \cup {None}]
  BY <1>1 DEF ContractTypeOK
<1>8. Requesting' /\ SoleOwner' /\ PinInv'
  BY <1>0, <1>1 DEF Requesting, SoleOwner, PinInv
<1>9. QuietInv'
  BY <1>0, <1>1, <1>3 DEF QuietInv
<1> QED BY <1>0, <1>1, <1>6, <1>7, <1>8, <1>9, Assemble DEF TypeOK

\* The state of a new session satisfies the invariant.
LEMMA HandlesInvInit == HandlesAssumption /\ Init => HandlesInv
<1> SUFFICES ASSUME HandlesAssumption, Init PROVE HandlesInv
  OBVIOUS
<1>1. TypeOK
  BY DEF HandlesAssumption, Init, ContractInit, ContractTypeOK, TypeOK, Steps,
         Handle, None
<1>2. Registered(reg) = {} /\ Held(cur, pins) = {} /\ Owned = {}
  BY DEF Init, Registered, Held, Owned
<1>3. Ledger
  BY <1>2 DEF Init, Ledger, Live, InUse
<1>4. Requesting /\ SoleOwner /\ PinInv
  BY DEF Init, Requesting, SoleOwner, PinInv, Registering
<1>5. MintInv
  BY DEF HandlesAssumption, Init, MintInv, Handle
<1>6. QuietInv
  BY <1>2 DEF Init, ContractInit, QuietInv
<1>7. misused = {}
  BY DEF Init
<1> QED BY <1>1, <1>3, <1>4, <1>5, <1>6, <1>7, LedgerIs DEF HandlesInv

\* Every step of a registration, a statement or the session keeps it.
LEMMA HandlesInvStep ==
  HandlesAssumption /\ HandlesInv /\ [Next]_vars => HandlesInv'
<1> SUFFICES ASSUME HandlesAssumption, HandlesInv, [Next]_vars
             PROVE  HandlesInv'
  OBVIOUS
<1>0. /\ TypeOK /\ Requesting /\ PinInv /\ QuietInv /\ misused = {}
      /\ ContractTypeOK
  BY LedgerIs DEF HandlesInv, TypeOK
<1>1. ASSUME NEW c \in Callers, CallerNext(c) PROVE HandlesInv'
  <2>1. CASE \E s \in Requests : StartRegister(c, s)
    BY <2>1, StartRegisterKeeps
  <2>2. CASE CheckFails(c) \/ CheckGoDefault(c) \/ CheckTaken(c) \/ CheckFree(c)
    BY <2>2, CheckFailsKeeps, CheckGoDefaultKeeps, ReleaseOwnKeeps, CheckFreeKeeps
  <2>3. CASE \/ MakeFails(c) \/ MakeProvider(c) \/ InsertRefused(c)
             \/ InsertGoDefault(c) \/ Insert(c)
    BY <2>3, ReleaseOwnKeeps, MakeProviderKeeps, InsertGoDefaultKeeps, InsertKeeps
  <2>4. CASE StartQuery(c)
    BY <2>4, StartQueryKeeps
  <2>5. CASE \E s \in Slots : Resolve(c, s)
    BY <2>5, ResolveKeeps
  <2>6. CASE \E n \in Names : ResolveCatalog(c, n) \/ DropTable(c, n)
    BY <2>6, ResolveCatalogKeeps, DropTableKeeps
  <2>7. CASE \/ ListNames(c) \/ LookupSchema(c) \/ LookupTable(c)
             \/ LookupTableFails(c)
    BY <2>7, CalledBackKeeps, LookupSchemaKeeps, LookupTableKeeps,
       LookupTableFailsKeeps
  <2>8. CASE PlanPhysical(c) \/ Execute(c) \/ EndQuery(c)
    BY <2>8, PlanPhysicalKeeps, CalledBackKeeps, EndQueryKeeps
  <2> QED BY <1>1, <2>1, <2>2, <2>3, <2>4, <2>5, <2>6, <2>7, <2>8 DEF CallerNext
<1>2. CASE StartClose \/ UNCHANGED vars
  <2>1. /\ UNCHANGED <<handleVars, reg, step, slot, own, cur, pins, raw,
                       leaked, misused, running>>
        /\ phase' = "closing" \/ phase' = phase
    BY <1>2 DEF StartClose, BeginClose, vars, contractVars, callVars, historyVars
  <2>2. /\ ContractTypeOK'
        /\ step' \in [Callers -> Steps]
        /\ raw' \in [Callers -> SUBSET Handle]
    BY <1>0, <2>1 DEF TypeOK, ContractTypeOK
  <2>3. Requesting' /\ PinInv'
    BY <1>0, <2>1 DEF Requesting, PinInv
  <2>4. QuietInv'
    BY <1>0, <2>1 DEF QuietInv, Registered
  <2> QED BY <1>0, <2>1, <2>2, <2>3, <2>4, NothingMoves
<1>3. CASE FreeSession
  BY <1>3, FreeSessionKeeps
<1> QED BY <1>1, <1>2, <1>3 DEF Next

\* The ownership rules of design D2 hold for any number of callers, names and
\* handles: every handle has one kind of owner at every moment of its life and
\* is released once, when the last is gone.
THEOREM HandlesInvariant == Spec => []HandlesInv
<1>1. Init => HandlesInv
  BY HandlesAssumption, HandlesInvInit
<1>2. HandlesInv /\ [Next]_vars => HandlesInv'
  BY HandlesAssumption, HandlesInvStep
<1> QED BY <1>1, <1>2, PTL DEF Spec

\* Go is never called back on a handle it has released, although execution
\* plans keep bare handles (table.rs, scan and insert_into).
THEOREM CallbacksReachLiveHandles == Spec => []NoCallbackAfterRelease
<1>1. HandlesInv => NoCallbackAfterRelease
  BY DEF HandlesInv, NoCallbackAfterRelease
<1> QED BY <1>1, HandlesInvariant, PTL

\* The handles that outlive df_session_free are exactly the ones whose
\* registration failed at its existence check, with an error or by a panic
\* (lib.rs, the df_session_register entries).
THEOREM FreedLeavesLeaks == Spec => []FreedLeavesOnlyLeaks
<1>1. HandlesInv => FreedLeavesOnlyLeaks
  <2> SUFFICES ASSUME HandlesInv, phase = "freed"
               PROVE  {h \in 1..minted : hstate[h] # "released"} = leaked
    BY DEF FreedLeavesOnlyLeaks
  <2>1. TypeOK /\ MintInv /\ QuietInv /\ Ledger
    BY LedgerIs DEF HandlesInv
  <2>2. Owned = {} /\ InUse = {}
    BY <2>1, NobodyHolds DEF QuietInv, InUse
  <2>3. Live = leaked
    BY <2>1, <2>2 DEF Ledger
  <2>4. \A h \in Handle : hstate[h] # "unminted" <=> h \in 1..minted
    BY <2>1, HandlesAssumption DEF TypeOK, MintInv, Handle
  <2>5. 1..minted \subseteq Handle
    BY <2>1, HandlesAssumption DEF TypeOK, Handle
  <2>6. Live = {h \in 1..minted : hstate[h] # "released"}
    BY <2>1, <2>4, <2>5 DEF Live, TypeOK
  <2> QED BY <2>3, <2>6
<1> QED BY <1>1, HandlesInvariant, PTL

\* Two registrations of one table name that both found it free cannot replace
\* each other (ctx.register_table refuses; table.go, RegisterTable).
THEOREM RegisteredTableStays == Spec => TableRegistrationSticks
<1> DEFINE Sticks == \A n \in Names :
             reg[<<"table", n>>] # None /\ reg'[<<"table", n>>] # reg[<<"table", n>>]
               => reg'[<<"table", n>>] = None
<1>1. ASSUME [Next]_vars PROVE [Sticks]_reg
  <2> SUFFICES ASSUME reg' # reg, NEW n \in Names,
                      reg[<<"table", n>>] # None,
                      reg'[<<"table", n>>] # reg[<<"table", n>>]
               PROVE  reg'[<<"table", n>>] = None
    OBVIOUS
  <2> DEFINE t == <<"table", n>>
  <2>1. t \in Slots /\ t[1] = "table"
    BY DEF Slots, Kinds
  <2>2. CASE \E c \in Callers : Insert(c)
    <3>1. PICK c \in Callers : Insert(c)
      BY <2>2
    <3>2. t # slot[c]
      BY <3>1, <2>1 DEF Insert
    <3>3. reg'[t] = Inserted(slot[c], own[c])[t]
      BY <3>1 DEF Insert
    <3> QED BY <2>1, <3>2, <3>3 DEF Inserted
  <2>3. CASE \E c \in Callers, m \in Names : DropTable(c, m)
    <3>1. PICK c \in Callers, m \in Names : DropTable(c, m)
      BY <2>3
    <3>2. reg' = [reg EXCEPT ![<<"table", m>>] = None]
      BY <3>1 DEF DropTable
    <3> QED BY <3>2
  <2>4. CASE FreeSession
    BY <2>4, <2>1 DEF FreeSession
  <2>5. \/ \E c \in Callers : Insert(c)
        \/ \E c \in Callers, m \in Names : DropTable(c, m)
        \/ FreeSession
    BY <1>1 DEF Next, vars, CallerNext, StartClose, StartRegister, CheckFails,
                CheckGoDefault, CheckTaken, CheckFree, MakeFails, MakeProvider,
                InsertRefused, InsertGoDefault, StartQuery, Resolve, ResolveCatalog, ListNames,
                LookupSchema, LookupTable, LookupTableFails, Proceed,
                PlanPhysical, Execute, EndQuery
  <2> QED BY <2>2, <2>3, <2>4, <2>5
<1>2. TableRegistrationSticks <=> [][Sticks]_reg
  BY DEF TableRegistrationSticks
<1> QED BY <1>1, <1>2, PTL DEF Spec
=============================================================================
