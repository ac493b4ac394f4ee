------------------------ MODULE IcebergInsertProofs ------------------------
(***************************************************************************)
(* IcebergInsert.tla for any set of INSERT statements and of provider      *)
(* instances, any number of batches and any retry budget.  IcebergInv is   *)
(* inductive: the readers keep the references of each batch equal to its   *)
(* holders, the data files hold what has been delivered, and a table       *)
(* handle goes stale only by a commit through another instance.            *)
(***************************************************************************)
EXTENDS IcebergInsert, TLAPS

-----------------------------------------------------------------------------
(* The readers *)

\* Two calls that differ at most in the references and holders of batches.
SameButBatches(c, d) ==
  /\ d.pc = c.pc /\ d.op = c.op /\ d.provider = c.provider
  /\ d.input = c.input /\ d.offered = c.offered /\ d.rows = c.rows
  /\ d.releases = c.releases /\ d.base = c.base /\ d.files = c.files
  /\ d.replays = c.replays /\ d.result = c.result

\* Giving up one reference to batch b, or none.
LEMMA UnrefIs ==
  ASSUME NEW c \in Call, NEW b \in 0..Len(c.refs), b # None => c.refs[b] > 0
  PROVE  /\ Unref(c, b) \in Call
         /\ Len(Unref(c, b).refs) = Len(c.refs)
         /\ \A i \in 1..Len(c.refs) : Unref(c, b).refs[i] = c.refs[i] - Holds(i, b)
         /\ SameButBatches(c, Unref(c, b))
         /\ Unref(c, b).inner = c.inner
         /\ Unref(c, b).first = c.first
         /\ Unref(c, b).cur = c.cur
<1>0. c.refs \in Seq(Nat) /\ Len(c.refs) \in Nat
  BY DEF Call
<1>1. CASE b = None
  <2>1. Unref(c, b) = c
    BY <1>1 DEF Unref
  <2>2. \A i \in 1..Len(c.refs) : c.refs[i] = c.refs[i] - Holds(i, b)
    BY <1>0, <1>1 DEF Holds, None
  <2> QED BY <2>1, <2>2 DEF SameButBatches
<1>2. CASE b # None
  <2> DEFINE r == [c.refs EXCEPT ![b] = @ - 1]
  <2>1. Unref(c, b) = [c EXCEPT !.refs = r]
    BY <1>2 DEF Unref
  <2>2. b \in 1..Len(c.refs)
    BY <1>0, <1>2 DEF None
  <2>3. /\ r \in Seq(Nat)
        /\ Len(r) = Len(c.refs)
        /\ \A i \in 1..Len(c.refs) : r[i] = c.refs[i] - Holds(i, b)
    BY <1>0, <1>2, <2>2 DEF Holds
  <2> HIDE DEF r
  <2>4. [c EXCEPT !.refs = r] \in Call /\ [c EXCEPT !.refs = r].refs = r
    BY <2>3 DEF Call
  <2>5. /\ SameButBatches(c, [c EXCEPT !.refs = r])
        /\ [c EXCEPT !.refs = r].inner = c.inner
        /\ [c EXCEPT !.refs = r].first = c.first
        /\ [c EXCEPT !.refs = r].cur = c.cur
    BY DEF SameButBatches, Call
  <2> QED BY <2>1, <2>3, <2>4, <2>5
<1> QED BY <1>1, <1>2

\* Taking one more reference to batch b.
LEMMA RetainIs ==
  ASSUME NEW c \in Call, NEW b \in 1..Len(c.refs)
  PROVE  /\ Retain(c, b) \in Call
         /\ Len(Retain(c, b).refs) = Len(c.refs)
         /\ \A i \in 1..Len(c.refs) : Retain(c, b).refs[i] = c.refs[i] + Holds(i, b)
         /\ SameButBatches(c, Retain(c, b))
         /\ Retain(c, b).inner = c.inner
         /\ Retain(c, b).first = c.first
         /\ Retain(c, b).cur = c.cur
<1> DEFINE r == [c.refs EXCEPT ![b] = @ + 1]
<1>0. c.refs \in Seq(Nat) /\ Len(c.refs) \in Nat
  BY DEF Call
<1>1. Retain(c, b) = [c EXCEPT !.refs = r]
  BY DEF Retain
<1>2. /\ r \in Seq(Nat)
      /\ Len(r) = Len(c.refs)
      /\ \A i \in 1..Len(c.refs) : r[i] = c.refs[i] + Holds(i, b)
  BY <1>0 DEF Holds
<1> HIDE DEF r
<1>3. [c EXCEPT !.refs = r] \in Call /\ [c EXCEPT !.refs = r].refs = r
  BY <1>2 DEF Call
<1>4. /\ SameButBatches(c, [c EXCEPT !.refs = r])
      /\ [c EXCEPT !.refs = r].inner = c.inner
      /\ [c EXCEPT !.refs = r].first = c.first
      /\ [c EXCEPT !.refs = r].cur = c.cur
  BY DEF SameButBatches, Call
<1> QED BY <1>1, <1>2, <1>3, <1>4

\* The stream forgets its current batch.
LEMMA ForgetInner ==
  ASSUME NEW u \in Call, NEW d, d = [u EXCEPT !.inner = None]
  PROVE  /\ d \in Call /\ d.refs = u.refs /\ SameButBatches(u, d)
         /\ d.inner = None /\ d.first = u.first /\ d.cur = u.cur
<1>1. None \in Nat
  BY DEF None
<1> QED BY <1>1 DEF Call, SameButBatches

\* The wrapper forgets the first batch.
LEMMA ForgetFirst ==
  ASSUME NEW u \in Call, NEW d, d = [u EXCEPT !.first = None]
  PROVE  /\ d \in Call /\ d.refs = u.refs /\ SameButBatches(u, d)
         /\ d.inner = u.inner /\ d.first = None /\ d.cur = u.cur
<1>1. None \in Nat
  BY DEF None
<1> QED BY <1>1 DEF Call, SameButBatches

\* The wrapper forgets its view.
LEMMA ForgetCur ==
  ASSUME NEW u \in Call, NEW d, d = [u EXCEPT !.cur = None]
  PROVE  /\ d \in Call /\ d.refs = u.refs /\ SameButBatches(u, d)
         /\ d.inner = u.inner /\ d.first = u.first /\ d.cur = None
<1>1. None \in Nat
  BY DEF None
<1> QED BY <1>1 DEF Call, SameButBatches

\* What a holder holds has a reference.
LEMMA HeldHasRef ==
  ASSUME NEW c \in Call, RefsOf(c), NEW x \in {c.inner, c.first, c.cur},
         x <= Len(c.refs)
  PROVE  x \in 0..Len(c.refs) /\ (x # None => c.refs[x] > 0)
<1>1. x \in Nat /\ Len(c.refs) \in Nat /\ c.refs \in Seq(Nat)
  BY DEF Call
<1>2. ASSUME x # None PROVE c.refs[x] > 0
  <2>1. x \in 1..Len(c.refs)
    BY <1>1, <1>2 DEF None
  <2>2. c.refs[x] = Holds(x, c.inner) + Holds(x, c.first) + Holds(x, c.cur)
    BY <2>1 DEF RefsOf
  <2> QED BY <2>2 DEF Holds
<1> QED BY <1>1, <1>2

\* The holders of a call hold batches that have been delivered.
HoldersIn(c) ==
  c.inner <= Len(c.refs) /\ c.first <= Len(c.refs) /\ c.cur <= Len(c.refs)

\* The stream gives up its current batch.
LEMMA DropInner ==
  ASSUME NEW c \in Call, RefsOf(c), HoldersIn(c),
         NEW d, d = [Unref(c, c.inner) EXCEPT !.inner = None]
  PROVE  /\ d \in Call /\ RefsOf(d) /\ HoldersIn(d) /\ SameButBatches(c, d)
         /\ Len(d.refs) = Len(c.refs)
         /\ d.inner = None /\ d.first = c.first /\ d.cur = c.cur
<1> DEFINE u == Unref(c, c.inner)
<1>1. /\ c.inner \in 0..Len(c.refs)
      /\ c.inner # None => c.refs[c.inner] > 0
  BY HeldHasRef DEF HoldersIn
<1>2. /\ u \in Call
      /\ Len(u.refs) = Len(c.refs)
      /\ \A i \in 1..Len(c.refs) : u.refs[i] = c.refs[i] - Holds(i, c.inner)
      /\ SameButBatches(c, u)
      /\ u.inner = c.inner /\ u.first = c.first /\ u.cur = c.cur
  BY <1>1, UnrefIs
<1>3. d = [u EXCEPT !.inner = None]
  OBVIOUS
<1> HIDE DEF u
<1>4. /\ d \in Call /\ d.refs = u.refs /\ SameButBatches(u, d)
      /\ d.inner = None /\ d.first = u.first /\ d.cur = u.cur
  BY <1>2, <1>3, ForgetInner
<1>5. SameButBatches(c, d)
  BY <1>2, <1>4 DEF SameButBatches
<1>6. RefsOf(d)
  <2> SUFFICES ASSUME NEW i \in 1..Len(c.refs)
               PROVE  d.refs[i] = Holds(i, d.inner) + Holds(i, d.first) + Holds(i, d.cur)
    BY <1>2, <1>4 DEF RefsOf
  <2>1. /\ d.refs[i] = c.refs[i] - Holds(i, c.inner)
        /\ c.refs[i] = Holds(i, c.inner) + Holds(i, c.first) + Holds(i, c.cur)
    BY <1>2, <1>4 DEF RefsOf
  <2>2. Holds(i, d.inner) = 0
    BY <1>4 DEF Holds, None
  <2>3. Holds(i, c.inner) \in {0, 1} /\ Holds(i, c.first) \in {0, 1}
        /\ Holds(i, c.cur) \in {0, 1}
    BY DEF Holds
  <2> QED BY <1>2, <1>4, <2>1, <2>2, <2>3
<1>7. HoldersIn(d)
  <2>1. /\ c.inner \in Nat /\ c.first \in Nat /\ c.cur \in Nat
        /\ Len(c.refs) \in Nat
    BY DEF Call
  <2> QED BY <1>2, <1>4, <2>1 DEF HoldersIn, None
<1> QED BY <1>2, <1>4, <1>5, <1>6, <1>7

\* The wrapper gives up its view.
LEMMA DropCur ==
  ASSUME NEW c \in Call, RefsOf(c), HoldersIn(c),
         NEW d, d = [Unref(c, c.cur) EXCEPT !.cur = None]
  PROVE  /\ d \in Call /\ RefsOf(d) /\ HoldersIn(d) /\ SameButBatches(c, d)
         /\ Len(d.refs) = Len(c.refs)
         /\ d.inner = c.inner /\ d.first = c.first /\ d.cur = None
<1> DEFINE u == Unref(c, c.cur)
<1>1. /\ c.cur \in 0..Len(c.refs)
      /\ c.cur # None => c.refs[c.cur] > 0
  BY HeldHasRef DEF HoldersIn
<1>2. /\ u \in Call
      /\ Len(u.refs) = Len(c.refs)
      /\ \A i \in 1..Len(c.refs) : u.refs[i] = c.refs[i] - Holds(i, c.cur)
      /\ SameButBatches(c, u)
      /\ u.inner = c.inner /\ u.first = c.first /\ u.cur = c.cur
  BY <1>1, UnrefIs
<1>3. d = [u EXCEPT !.cur = None]
  OBVIOUS
<1> HIDE DEF u
<1>4. /\ d \in Call /\ d.refs = u.refs /\ SameButBatches(u, d)
      /\ d.inner = u.inner /\ d.first = u.first /\ d.cur = None
  BY <1>2, <1>3, ForgetCur
<1>5. SameButBatches(c, d)
  BY <1>2, <1>4 DEF SameButBatches
<1>6. RefsOf(d)
  <2> SUFFICES ASSUME NEW i \in 1..Len(c.refs)
               PROVE  d.refs[i] = Holds(i, d.inner) + Holds(i, d.first) + Holds(i, d.cur)
    BY <1>2, <1>4 DEF RefsOf
  <2>1. /\ d.refs[i] = c.refs[i] - Holds(i, c.cur)
        /\ c.refs[i] = Holds(i, c.inner) + Holds(i, c.first) + Holds(i, c.cur)
    BY <1>2, <1>4 DEF RefsOf
  <2>2. Holds(i, d.cur) = 0
    BY <1>4 DEF Holds, None
  <2>3. Holds(i, c.inner) \in {0, 1} /\ Holds(i, c.first) \in {0, 1}
        /\ Holds(i, c.cur) \in {0, 1}
    BY DEF Holds
  <2> QED BY <1>2, <1>4, <2>1, <2>2, <2>3
<1>7. HoldersIn(d)
  <2>1. /\ c.inner \in Nat /\ c.first \in Nat /\ c.cur \in Nat
        /\ Len(c.refs) \in Nat
    BY DEF Call
  <2> QED BY <1>2, <1>4, <2>1 DEF HoldersIn, None
<1> QED BY <1>2, <1>4, <1>5, <1>6, <1>7

\* The wrapper gives up the first batch.
LEMMA DropFirst ==
  ASSUME NEW c \in Call, RefsOf(c), HoldersIn(c),
         NEW d, d = [Unref(c, c.first) EXCEPT !.first = None]
  PROVE  /\ d \in Call /\ RefsOf(d) /\ HoldersIn(d) /\ SameButBatches(c, d)
         /\ Len(d.refs) = Len(c.refs)
         /\ d.inner = c.inner /\ d.first = None /\ d.cur = c.cur
<1> DEFINE u == Unref(c, c.first)
<1>1. /\ c.first \in 0..Len(c.refs)
      /\ c.first # None => c.refs[c.first] > 0
  BY HeldHasRef DEF HoldersIn
<1>2. /\ u \in Call
      /\ Len(u.refs) = Len(c.refs)
      /\ \A i \in 1..Len(c.refs) : u.refs[i] = c.refs[i] - Holds(i, c.first)
      /\ SameButBatches(c, u)
      /\ u.inner = c.inner /\ u.first = c.first /\ u.cur = c.cur
  BY <1>1, UnrefIs
<1>3. d = [u EXCEPT !.first = None]
  OBVIOUS
<1> HIDE DEF u
<1>4. /\ d \in Call /\ d.refs = u.refs /\ SameButBatches(u, d)
      /\ d.inner = u.inner /\ d.first = None /\ d.cur = u.cur
  BY <1>2, <1>3, ForgetFirst
<1>5. SameButBatches(c, d)
  BY <1>2, <1>4 DEF SameButBatches
<1>6. RefsOf(d)
  <2> SUFFICES ASSUME NEW i \in 1..Len(c.refs)
               PROVE  d.refs[i] = Holds(i, d.inner) + Holds(i, d.first) + Holds(i, d.cur)
    BY <1>2, <1>4 DEF RefsOf
  <2>1. /\ d.refs[i] = c.refs[i] - Holds(i, c.first)
        /\ c.refs[i] = Holds(i, c.inner) + Holds(i, c.first) + Holds(i, c.cur)
    BY <1>2, <1>4 DEF RefsOf
  <2>2. Holds(i, d.first) = 0
    BY <1>4 DEF Holds, None
  <2>3. Holds(i, c.inner) \in {0, 1} /\ Holds(i, c.first) \in {0, 1}
        /\ Holds(i, c.cur) \in {0, 1}
    BY DEF Holds
  <2> QED BY <1>2, <1>4, <2>1, <2>2, <2>3
<1>7. HoldersIn(d)
  <2>1. /\ c.inner \in Nat /\ c.first \in Nat /\ c.cur \in Nat
        /\ Len(c.refs) \in Nat
    BY DEF Call
  <2> QED BY <1>2, <1>4, <2>1 DEF HoldersIn, None
<1> QED BY <1>2, <1>4, <1>5, <1>6, <1>7

\* Two calls that differ at most in the state of the input and in batches.
SameButInput(c, d) ==
  /\ d.pc = c.pc /\ d.op = c.op /\ d.provider = c.provider
  /\ d.offered = c.offered /\ d.rows = c.rows
  /\ d.releases = c.releases /\ d.base = c.base /\ d.files = c.files
  /\ d.replays = c.replays /\ d.result = c.result

\* rows.Next: a batch with one reference, the end after the last one, or an
\* error.
LEMMA InnerNextIs ==
  ASSUME NEW c \in Call, RefsOf(c), HoldersIn(c),
         Len(c.refs) <= Len(c.offered), c.input = "open",
         NEW e \in InnerNext(c)
  PROVE  /\ e \in Call /\ RefsOf(e) /\ HoldersIn(e) /\ SameButInput(c, e)
         /\ e.first = c.first /\ e.cur = c.cur
         /\ \/ /\ e.input = "open" /\ Len(e.refs) = Len(c.refs) + 1
               /\ Len(e.refs) <= Len(e.offered)
               /\ e.inner = Len(e.refs)
            \/ /\ e.input = "ended" /\ Len(e.refs) = Len(c.refs)
               /\ Len(e.refs) = Len(e.offered)
               /\ e.inner = None
            \/ /\ e.input = "failed" /\ Len(e.refs) = Len(c.refs)
               /\ e.inner = None
<1> DEFINE d == [Unref(c, c.inner) EXCEPT !.inner = None]
<1>1. /\ d \in Call /\ RefsOf(d) /\ HoldersIn(d) /\ SameButBatches(c, d)
      /\ Len(d.refs) = Len(c.refs)
      /\ d.inner = None /\ d.first = c.first /\ d.cur = c.cur
  BY DropInner
<1>2. \/ /\ Len(c.refs) < Len(c.offered)
         /\ e = [d EXCEPT !.inner = Len(c.refs) + 1, !.refs = Append(@, 1)]
      \/ /\ ~(Len(c.refs) < Len(c.offered))
         /\ e = [d EXCEPT !.input = "ended"]
      \/ e = [d EXCEPT !.input = "failed"]
  BY DEF InnerNext
<1> HIDE DEF d
<1>0. d.refs \in Seq(Nat) /\ Len(c.refs) \in Nat /\ Len(c.offered) \in Nat
  BY <1>1 DEF Call
<1>3. CASE /\ Len(c.refs) < Len(c.offered)
           /\ e = [d EXCEPT !.inner = Len(c.refs) + 1, !.refs = Append(@, 1)]
  <2> DEFINE r == Append(d.refs, 1)
  <2>1. /\ r \in Seq(Nat) /\ Len(r) = Len(c.refs) + 1
        /\ r[Len(c.refs) + 1] = 1
        /\ \A i \in 1..Len(c.refs) : r[i] = d.refs[i]
    BY <1>0, <1>1
  <2>2. e = [d EXCEPT !.inner = Len(c.refs) + 1, !.refs = r]
    BY <1>3
  <2> HIDE DEF r
  <2>3. /\ e \in Call /\ e.refs = r /\ SameButBatches(d, e)
        /\ e.inner = Len(c.refs) + 1 /\ e.first = d.first /\ e.cur = d.cur
    <3>1. d \in Call /\ Len(c.refs) + 1 \in Nat /\ r \in Seq(Nat)
      BY <1>0, <1>1, <2>1
    <3> QED BY <2>2, <3>1 DEF Call, SameButBatches
  <2>4. RefsOf(e)
    <3> SUFFICES ASSUME NEW i \in 1..(Len(c.refs) + 1)
                 PROVE  e.refs[i] = Holds(i, e.inner) + Holds(i, e.first) + Holds(i, e.cur)
      BY <2>1, <2>3 DEF RefsOf
    <3>0. d.first \in Nat /\ d.cur \in Nat
      BY <1>1 DEF Call
    <3>1. CASE i = Len(c.refs) + 1
      BY <1>0, <1>1, <2>1, <2>3, <3>0, <3>1 DEF Holds, HoldersIn
    <3>2. CASE i # Len(c.refs) + 1
      <4>1. i \in 1..Len(c.refs) /\ i # None
        BY <1>0, <3>2 DEF None
      <4>2. /\ e.refs[i] = d.refs[i]
            /\ d.refs[i] = Holds(i, d.inner) + Holds(i, d.first) + Holds(i, d.cur)
        BY <1>1, <2>1, <2>3, <4>1 DEF RefsOf
      <4>3. Holds(i, d.inner) = 0 /\ Holds(i, e.inner) = 0
        BY <1>1, <2>3, <3>2, <4>1 DEF Holds
      <4> QED BY <2>3, <4>2, <4>3
    <3> QED BY <3>1, <3>2
  <2>5. HoldersIn(e)
    <3>1. d.first \in Nat /\ d.cur \in Nat
      BY <1>1 DEF Call
    <3> QED BY <1>0, <1>1, <2>1, <2>3, <3>1 DEF HoldersIn
  <2>6. SameButInput(c, e) /\ e.input = "open" /\ e.offered = c.offered
    BY <1>1, <2>3 DEF SameButBatches, SameButInput
  <2> QED BY <1>0, <1>1, <1>3, <2>1, <2>3, <2>4, <2>5, <2>6
<1>4. ASSUME NEW how \in {"ended", "failed"}, e = [d EXCEPT !.input = how]
      PROVE  /\ e \in Call /\ RefsOf(e) /\ HoldersIn(e) /\ SameButInput(c, e)
             /\ e.first = c.first /\ e.cur = c.cur
             /\ e.input = how /\ Len(e.refs) = Len(c.refs) /\ e.inner = None
  <2>1. /\ e \in Call /\ e.refs = d.refs /\ SameButInput(d, e) /\ e.input = how
        /\ e.inner = d.inner /\ e.first = d.first /\ e.cur = d.cur
    BY <1>1, <1>4 DEF Call, SameButInput
  <2>2. RefsOf(e) /\ HoldersIn(e)
    BY <1>1, <2>1 DEF RefsOf, HoldersIn
  <2>3. SameButInput(c, e)
    BY <1>1, <2>1 DEF SameButBatches, SameButInput
  <2> QED BY <1>1, <2>1, <2>2, <2>3
<1>5. CASE ~(Len(c.refs) < Len(c.offered)) /\ e = [d EXCEPT !.input = "ended"]
  <2>1. Len(c.refs) = Len(c.offered)
    BY <1>0, <1>5
  <2> QED BY <1>4, <1>5, <2>1 DEF SameButInput
<1>6. CASE e = [d EXCEPT !.input = "failed"]
  BY <1>4, <1>6
<1> QED BY <1>2, <1>3, <1>5, <1>6

\* rows.Release
LEMMA InnerReleaseIs ==
  ASSUME NEW c \in Call, RefsOf(c), HoldersIn(c)
  PROVE  LET d == InnerRelease(c) IN
         /\ d \in Call /\ RefsOf(d) /\ HoldersIn(d)
         /\ d.inner = None /\ d.first = c.first /\ d.cur = c.cur
         /\ Len(d.refs) = Len(c.refs) /\ d.releases = c.releases + 1
         /\ d.pc = c.pc /\ d.op = c.op /\ d.provider = c.provider
         /\ d.input = c.input /\ d.offered = c.offered /\ d.rows = c.rows
         /\ d.base = c.base /\ d.files = c.files
         /\ d.replays = c.replays /\ d.result = c.result
<1> DEFINE u == [Unref(c, c.inner) EXCEPT !.inner = None]
           d == InnerRelease(c)
<1>1. /\ u \in Call /\ RefsOf(u) /\ HoldersIn(u) /\ SameButBatches(c, u)
      /\ Len(u.refs) = Len(c.refs)
      /\ u.inner = None /\ u.first = c.first /\ u.cur = c.cur
  BY DropInner
<1>2. d = [u EXCEPT !.releases = c.releases + 1]
  BY <1>1, DropInner DEF InnerRelease, SameButBatches, Call
<1> HIDE DEF u, d
<1>3. /\ d \in Call /\ d.refs = u.refs /\ d.releases = c.releases + 1
      /\ d.inner = u.inner /\ d.first = u.first /\ d.cur = u.cur
      /\ d.pc = u.pc /\ d.op = u.op /\ d.provider = u.provider
      /\ d.input = u.input /\ d.offered = u.offered /\ d.rows = u.rows
      /\ d.base = u.base /\ d.files = u.files
      /\ d.replays = u.replays /\ d.result = u.result
  <2>1. u \in Call /\ c.releases + 1 \in Nat
    BY <1>1 DEF Call
  <2> QED BY <1>2, <2>1 DEF Call
<1>4. RefsOf(d) /\ HoldersIn(d)
  BY <1>1, <1>3 DEF RefsOf, HoldersIn
<1> QED BY <1>1, <1>3, <1>4 DEF d, SameButBatches

\* The view of a batch is one more holder of it.
LEMMA ViewIs ==
  ASSUME NEW c \in Call, RefsOf(c), HoldersIn(c), c.cur = None,
         NEW b \in 1..Len(c.refs), NEW d, d = View(c, b)
  PROVE  /\ d \in Call /\ RefsOf(d) /\ HoldersIn(d) /\ Len(d.refs) = Len(c.refs)
         /\ d.inner = c.inner /\ d.first = c.first /\ d.cur = b
         /\ d.rows = c.rows + 1 /\ d.input = c.input
         /\ d.pc = c.pc /\ d.op = c.op /\ d.provider = c.provider
         /\ d.offered = c.offered /\ d.releases = c.releases
         /\ d.base = c.base /\ d.files = c.files
         /\ d.replays = c.replays /\ d.result = c.result
<1> DEFINE u == Retain(c, b)
<1>1. /\ u \in Call
      /\ Len(u.refs) = Len(c.refs)
      /\ \A i \in 1..Len(c.refs) : u.refs[i] = c.refs[i] + Holds(i, b)
      /\ SameButBatches(c, u)
      /\ u.inner = c.inner /\ u.first = c.first /\ u.cur = c.cur
  BY RetainIs
<1>2. d = [u EXCEPT !.cur = b, !.rows = u.rows + 1]
  BY DEF View
<1> HIDE DEF u
<1>3. /\ d \in Call /\ d.refs = u.refs
      /\ d.inner = u.inner /\ d.first = u.first /\ d.cur = b
      /\ d.rows = u.rows + 1 /\ d.input = u.input
      /\ d.pc = u.pc /\ d.op = u.op /\ d.provider = u.provider
      /\ d.offered = u.offered /\ d.releases = u.releases
      /\ d.base = u.base /\ d.files = u.files
      /\ d.replays = u.replays /\ d.result = u.result
  <2>1. Len(c.refs) \in Nat /\ u.rows \in Nat
    BY <1>1 DEF Call
  <2>2. b \in Nat /\ u.rows + 1 \in Nat
    BY <2>1
  <2> QED BY <1>1, <1>2, <2>2 DEF Call
<1>4. RefsOf(d)
  <2> SUFFICES ASSUME NEW i \in 1..Len(c.refs)
               PROVE  d.refs[i] = Holds(i, d.inner) + Holds(i, d.first) + Holds(i, d.cur)
    BY <1>1, <1>3 DEF RefsOf
  <2>1. /\ d.refs[i] = c.refs[i] + Holds(i, b)
        /\ c.refs[i] = Holds(i, c.inner) + Holds(i, c.first) + Holds(i, c.cur)
    BY <1>1, <1>3 DEF RefsOf
  <2>2. Holds(i, c.cur) = 0
    BY DEF Holds, None
  <2>3. Holds(i, c.inner) \in {0, 1} /\ Holds(i, c.first) \in {0, 1}
        /\ Holds(i, b) \in {0, 1}
    BY DEF Holds
  <2> QED BY <1>1, <1>3, <2>1, <2>2, <2>3
<1>5. HoldersIn(d)
  <2>1. Len(c.refs) \in Nat
    BY DEF Call
  <2> QED BY <1>1, <1>3, <2>1 DEF HoldersIn
<1> QED BY <1>1, <1>3, <1>4, <1>5 DEF SameButBatches

\* Giving up a batch and forgetting a holder may be done in either order.
LEMMA UnrefForget ==
  ASSUME NEW c \in Call, NEW b
  PROVE  /\ Unref([c EXCEPT !.first = None], b) = [Unref(c, b) EXCEPT !.first = None]
         /\ Unref([c EXCEPT !.cur = None], b) = [Unref(c, b) EXCEPT !.cur = None]
  BY DEF Unref, Call

\* fieldIDStrippingReader's Release: nothing is held any more.
LEMMA WrappedReleaseIs ==
  ASSUME NEW c \in Call, RefsOf(c), HoldersIn(c), NEW d, d = WrappedRelease(c)
  PROVE  /\ d \in Call /\ RefsOf(d) /\ HoldersIn(d)
         /\ d.inner = None /\ d.first = None /\ d.cur = None
         /\ Len(d.refs) = Len(c.refs) /\ d.releases = c.releases + 1
         /\ d.pc = c.pc /\ d.op = c.op /\ d.provider = c.provider
         /\ d.input = c.input /\ d.offered = c.offered /\ d.rows = c.rows
         /\ d.base = c.base /\ d.files = c.files
         /\ d.replays = c.replays /\ d.result = c.result
<1> DEFINE u == Unref(c, c.cur)
           v == [u EXCEPT !.cur = None]
           w == [Unref(v, v.first) EXCEPT !.first = None]
<1>1. /\ v \in Call /\ RefsOf(v) /\ HoldersIn(v) /\ SameButBatches(c, v)
      /\ Len(v.refs) = Len(c.refs)
      /\ v.inner = c.inner /\ v.first = c.first /\ v.cur = None
  BY DropCur
<1>2. /\ w \in Call /\ RefsOf(w) /\ HoldersIn(w) /\ SameButBatches(v, w)
      /\ Len(w.refs) = Len(v.refs)
      /\ w.inner = v.inner /\ w.first = None /\ w.cur = v.cur
  <2> HIDE DEF v
  <2> QED BY <1>1, DropFirst
<1>3. u \in Call
  <2>1. /\ c.cur \in 0..Len(c.refs)
        /\ c.cur # None => c.refs[c.cur] > 0
    BY HeldHasRef DEF HoldersIn
  <2> QED BY <2>1, UnrefIs
<1>4. d = InnerRelease(w)
  <2>1. d = InnerRelease([Unref(u, c.first) EXCEPT !.cur = None, !.first = None])
    BY DEF WrappedRelease
  <2>2. Unref(v, c.first) = [Unref(u, c.first) EXCEPT !.cur = None]
    <3> HIDE DEF u
    <3> QED BY <1>3, UnrefForget
  <2>3. w = [[Unref(u, c.first) EXCEPT !.cur = None] EXCEPT !.first = None]
    BY <1>1, <2>2
  <2> QED BY <2>1, <2>3
<1>5. /\ d \in Call /\ RefsOf(d) /\ HoldersIn(d)
      /\ d.inner = None /\ d.first = w.first /\ d.cur = w.cur
      /\ Len(d.refs) = Len(w.refs) /\ d.releases = w.releases + 1
      /\ d.pc = w.pc /\ d.op = w.op /\ d.provider = w.provider
      /\ d.input = w.input /\ d.offered = w.offered /\ d.rows = w.rows
      /\ d.base = w.base /\ d.files = w.files
      /\ d.replays = w.replays /\ d.result = w.result
  <2> HIDE DEF w
  <2> QED BY <1>2, <1>4, InnerReleaseIs
<1> HIDE DEF v, w
<1> QED BY <1>1, <1>2, <1>5 DEF SameButBatches

\* fieldIDStrippingReader.Next: a view of the batch that follows the ones in
\* the data files, the end of the input once all of them are, or its error.
LEMMA WrappedNextIs ==
  ASSUME NEW c \in Call, RefsOf(c), BatchesOf(c), c.pc = "write",
         NEW e \in WrappedNext(c)
  PROVE  /\ e \in Call /\ RefsOf(e) /\ HoldersIn(e)
         /\ e.pc = c.pc /\ e.op = c.op /\ e.provider = c.provider
         /\ e.offered = c.offered /\ e.releases = c.releases
         /\ e.base = c.base /\ e.files = c.files
         /\ e.replays = c.replays /\ e.result = c.result
         /\ e.first = None /\ Len(e.refs) <= Len(c.offered)
         /\ e.input = "ended" => Len(e.refs) = Len(c.offered)
         /\ \/ /\ e.cur # None /\ e.cur = Len(e.refs) /\ e.rows = Len(e.refs)
               /\ e.input \in {"open", "ended"}
               /\ c.files = SubSeq(c.offered, 1, Len(e.refs) - 1)
            \/ /\ e.cur = None /\ e.rows = Len(e.refs) /\ e.input = "ended"
               /\ c.files = SubSeq(c.offered, 1, Len(e.refs))
            \/ e.cur = None /\ e.input = "failed"
<1> DEFINE d == [Unref(c, c.cur) EXCEPT !.cur = None]
<1>1. /\ d \in Call /\ RefsOf(d) /\ HoldersIn(d) /\ SameButBatches(c, d)
      /\ Len(d.refs) = Len(c.refs)
      /\ d.inner = c.inner /\ d.first = c.first /\ d.cur = None
  BY DropCur DEF BatchesOf, HoldersIn
<1>2. /\ c.first # None => e = Unref([View(d, d.first) EXCEPT !.first = None], d.first)
      /\ c.first = None =>
           \E f \in InnerNext(d) : e = IF f.input = "open" THEN View(f, f.inner) ELSE f
  BY <1>1 DEF WrappedNext
<1> HIDE DEF d
<1>3. /\ Len(c.refs) \in Nat /\ Len(c.offered) \in Nat /\ c.rows \in Nat
      /\ c.first \in Nat /\ c.offered \in Seq(Batch)
  BY DEF Call
<1>4. /\ d.pc = c.pc /\ d.op = c.op /\ d.provider = c.provider
      /\ d.offered = c.offered /\ d.releases = c.releases /\ d.input = c.input
      /\ d.base = c.base /\ d.files = c.files /\ d.rows = c.rows
      /\ d.replays = c.replays /\ d.result = c.result
  BY <1>1 DEF SameButBatches
<1>5. /\ Len(c.refs) <= Len(c.offered)
      /\ c.input \in {"open", "ended"}
      /\ c.input = "ended" => Len(c.refs) = Len(c.offered)
  BY DEF BatchesOf
<1>6. CASE c.first # None
  <2> DEFINE v == View(d, d.first)
  <2>1. c.first = 1 /\ Len(c.refs) = 1 /\ c.rows = 0 /\ c.files = <<>>
    <3>1. /\ Len(c.refs) = 1 /\ c.rows = 0 /\ c.files = <<>>
          /\ c.first <= Len(c.refs)
      BY <1>6 DEF BatchesOf
    <3> QED BY <1>3, <1>6, <3>1 DEF None
  <2>2. d.first \in 1..Len(d.refs)
    BY <1>1, <2>1
  <2>3. /\ v \in Call /\ RefsOf(v) /\ HoldersIn(v) /\ Len(v.refs) = Len(d.refs)
        /\ v.inner = d.inner /\ v.first = d.first /\ v.cur = d.first
        /\ v.rows = d.rows + 1 /\ v.input = d.input
        /\ v.pc = d.pc /\ v.op = d.op /\ v.provider = d.provider
        /\ v.offered = d.offered /\ v.releases = d.releases
        /\ v.base = d.base /\ v.files = d.files
        /\ v.replays = d.replays /\ v.result = d.result
    BY <1>1, <2>2, ViewIs
  <2>4. e = Unref([v EXCEPT !.first = None], d.first)
    BY <1>2, <1>6
  <2> HIDE DEF v
  <2>5. e = [Unref(v, v.first) EXCEPT !.first = None]
    <3>1. v \in Call /\ v.first = d.first
      BY <2>3
    <3>2. Unref([v EXCEPT !.first = None], d.first) = [Unref(v, d.first) EXCEPT !.first = None]
      BY <3>1, UnrefForget
    <3> QED BY <2>4, <3>1, <3>2
  <2>6. /\ e \in Call /\ RefsOf(e) /\ HoldersIn(e) /\ SameButBatches(v, e)
        /\ Len(e.refs) = Len(v.refs)
        /\ e.inner = v.inner /\ e.first = None /\ e.cur = v.cur
    BY <2>3, <2>5, DropFirst
  <2>7. c.files = SubSeq(c.offered, 1, Len(e.refs) - 1)
    <3>1. SubSeq(c.offered, 1, 0) = <<>>
      BY <1>3
    <3>2. Len(e.refs) - 1 = 0
      BY <1>1, <2>1, <2>3, <2>6
    <3> QED BY <2>1, <3>1, <3>2
  <2>8. e.cur = Len(e.refs) /\ e.cur # None /\ e.rows = Len(e.refs)
    <3>1. e.rows = v.rows /\ e.cur = v.cur /\ Len(e.refs) = Len(v.refs)
      BY <2>6 DEF SameButBatches
    <3>2. e.rows = 1 /\ e.cur = 1 /\ Len(e.refs) = 1
      BY <1>1, <1>4, <2>1, <2>3, <3>1
    <3> QED BY <3>2 DEF None
  <2> QED BY <1>1, <1>4, <1>5, <2>3, <2>6, <2>7, <2>8 DEF SameButBatches
<1>7. CASE c.first = None
  <2>0. PICK f \in InnerNext(d) : e = IF f.input = "open" THEN View(f, f.inner) ELSE f
    BY <1>2, <1>7
  <2>1. c.rows = Len(c.refs) /\ c.files = SubSeq(c.offered, 1, Len(c.refs))
    BY <1>7 DEF BatchesOf
  <2>2. CASE d.input # "open"
    <3>1. e = d
      BY <2>0, <2>2 DEF InnerNext
    <3> QED BY <1>1, <1>4, <1>5, <1>7, <2>1, <2>2, <3>1
  <2>3. CASE d.input = "open"
    <3>1. /\ f \in Call /\ RefsOf(f) /\ HoldersIn(f) /\ SameButInput(d, f)
          /\ f.first = d.first /\ f.cur = d.cur
          /\ \/ /\ f.input = "open" /\ Len(f.refs) = Len(d.refs) + 1
                /\ Len(f.refs) <= Len(f.offered)
                /\ f.inner = Len(f.refs)
             \/ /\ f.input = "ended" /\ Len(f.refs) = Len(d.refs)
                /\ Len(f.refs) = Len(f.offered)
                /\ f.inner = None
             \/ /\ f.input = "failed" /\ Len(f.refs) = Len(d.refs)
                /\ f.inner = None
      BY <1>1, <1>4, <1>5, <2>3, InnerNextIs
    <3>2. /\ f.pc = c.pc /\ f.op = c.op /\ f.provider = c.provider
          /\ f.offered = c.offered /\ f.rows = c.rows
          /\ f.releases = c.releases /\ f.base = c.base /\ f.files = c.files
          /\ f.replays = c.replays /\ f.result = c.result
      BY <1>4, <3>1 DEF SameButInput
    <3>3. CASE f.input # "open"
      <4>1. e = f
        BY <2>0, <3>3
      <4> QED BY <1>1, <1>5, <1>7, <2>1, <3>1, <3>2, <3>3, <4>1
    <3>4. CASE f.input = "open"
      <4>1. e = View(f, f.inner)
        BY <2>0, <3>4
      <4>2. Len(f.refs) = Len(c.refs) + 1 /\ f.inner = Len(f.refs) /\ f.cur = None
        BY <1>1, <3>1, <3>4
      <4>3. f.inner \in 1..Len(f.refs)
        BY <1>3, <4>2
      <4>4. /\ e \in Call /\ RefsOf(e) /\ HoldersIn(e) /\ Len(e.refs) = Len(f.refs)
            /\ e.inner = f.inner /\ e.first = f.first /\ e.cur = f.inner
            /\ e.rows = f.rows + 1 /\ e.input = f.input
            /\ e.pc = f.pc /\ e.op = f.op /\ e.provider = f.provider
            /\ e.offered = f.offered /\ e.releases = f.releases
            /\ e.base = f.base /\ e.files = f.files
            /\ e.replays = f.replays /\ e.result = f.result
        BY <3>1, <4>1, <4>2, <4>3, ViewIs
      <4>5. Len(e.refs) - 1 = Len(c.refs) /\ e.cur = Len(e.refs) /\ e.cur # None
            /\ e.rows = Len(e.refs)
        BY <1>3, <2>1, <3>2, <4>2, <4>4 DEF None
      <4>6. Len(e.refs) <= Len(c.offered) /\ e.input = "open" /\ e.first = None
        BY <1>1, <1>7, <3>1, <3>2, <3>4, <4>4
      <4>7. c.files = SubSeq(c.offered, 1, Len(e.refs) - 1)
        BY <2>1, <4>5
      <4> QED BY <3>2, <4>4, <4>5, <4>6, <4>7
    <3> QED BY <3>3, <3>4
  <2> QED BY <2>2, <2>3
<1> QED BY <1>6, <1>7

-----------------------------------------------------------------------------
(* Calls *)

\* A call that returns with nothing in its hands.
LEMMA DoneIs ==
  ASSUME NEW d \in Call, RefsOf(d), HoldersIn(d),
         d.inner = None, d.first = None, d.cur = None, d.releases = 1,
         Len(d.refs) <= Len(d.offered), d.input = "ended" => Len(d.refs) = Len(d.offered),
         NEW r \in {"none", "ok", "err"}, r = "ok" => d.input = "ended" /\ d.rows = Len(d.offered),
         NEW e, e = [d EXCEPT !.pc = "done", !.result = r]
  PROVE  /\ e \in Call /\ CallInv(e) /\ e.pc = "done"
         /\ e.provider = d.provider /\ e.replays = d.replays
<1>1. /\ e \in Call /\ e.pc = "done" /\ e.result = r
      /\ e.input = d.input /\ e.offered = d.offered /\ e.refs = d.refs
      /\ e.inner = d.inner /\ e.first = d.first /\ e.cur = d.cur
      /\ e.rows = d.rows /\ e.releases = d.releases
      /\ e.provider = d.provider /\ e.replays = d.replays
  BY DEF Call
<1>2. RefsOf(e)
  BY <1>1 DEF RefsOf
<1>3. BatchesOf(e)
  BY <1>1 DEF BatchesOf, HoldersIn
<1>4. EndOf(e)
  BY <1>1 DEF EndOf
<1> QED BY <1>1, <1>2, <1>3, <1>4 DEF CallInv

\* What call s may become without a commit.
MayBecome(s, d) ==
  /\ d \in Call /\ CallInv(d) /\ d.pc # "idle" /\ d.provider = calls[s].provider
  /\ d.pc \in {"write", "commit"} => d.base = table \/ Rival(s)
  /\ d.replays > 0 => Rival(s)

\* A rival stays one: no call becomes idle again or changes its instance.
LEMMA RivalStays ==
  ASSUME TypeOK, NEW s \in Inserts, NEW d \in Call, Become(s, d),
         d.pc # "idle", d.provider = calls[s].provider,
         NEW r \in Inserts, Rival(r)
  PROVE  Rival(r)'
<1>1. PICK t \in Inserts : calls[t].pc # "idle" /\ calls[t].provider # calls[r].provider
  BY DEF Rival
<1>2. /\ calls'[t].pc # "idle" /\ calls'[t].provider = calls[t].provider
      /\ calls'[r].provider = calls[r].provider
  BY <1>1 DEF Become, TypeOK
<1> QED BY <1>1, <1>2 DEF Rival

LEMMA BecomeKeeps ==
  ASSUME IcebergInv, NEW s \in Inserts, NEW d, MayBecome(s, d), Become(s, d),
         UNCHANGED <<table, serial>>,
         mutex' \in [Providers -> Inserts \cup {NoInsert}], MutexInv'
  PROVE  IcebergInv'
<1>0. /\ TypeOK /\ HandleInv /\ table = serial
      /\ \A t \in Inserts : CallInv(calls[t])
      /\ d \in Call /\ CallInv(d)
  BY DEF IcebergInv, MayBecome
<1>1. TypeOK'
  BY <1>0 DEF TypeOK, Become
<1>2. \A t \in Inserts : calls'[t] = IF t = s THEN d ELSE calls[t]
  BY <1>0 DEF TypeOK, Become
<1>3. \A t \in Inserts : CallInv(calls'[t])
  BY <1>0, <1>2
<1>4. \A r \in Inserts : Rival(r) => Rival(r)'
  BY <1>0, RivalStays DEF MayBecome
<1>5. HandleInv'
  <2> SUFFICES ASSUME NEW r \in Inserts
               PROVE  /\ calls'[r].pc \in {"write", "commit"} => calls'[r].base = table \/ Rival(r)'
                      /\ calls'[r].replays > 0 => Rival(r)'
    BY DEF HandleInv
  <2>1. CASE r = s
    BY <1>2, <1>4, <2>1 DEF MayBecome
  <2>2. CASE r # s
    <3>1. calls'[r] = calls[r]
      BY <1>2, <2>2
    <3> QED BY <1>0, <1>4, <3>1 DEF HandleInv
  <2> QED BY <2>1, <2>2
<1>6. (table = serial)'
  BY <1>0
<1> QED BY <1>1, <1>3, <1>5, <1>6 DEF IcebergInv

\* A step that leaves the mutex alone.
LEMMA StepKeeps ==
  ASSUME IcebergInv, NEW s \in Inserts, NEW d, MayBecome(s, d), Become(s, d),
         UNCHANGED <<table, mutex, serial>>,
         d.pc \in Critical => calls[s].pc \in Critical
  PROVE  IcebergInv'
<1>0. TypeOK /\ MutexInv /\ d \in Call /\ d.provider = calls[s].provider
  BY DEF IcebergInv, MayBecome
<1>1. \A t \in Inserts : calls'[t] = IF t = s THEN d ELSE calls[t]
  BY <1>0 DEF TypeOK, Become
<1>2. MutexInv'
  BY <1>0, <1>1 DEF MutexInv
<1>3. mutex' \in [Providers -> Inserts \cup {NoInsert}]
  BY <1>0 DEF TypeOK
<1> QED BY <1>2, <1>3, BecomeKeeps

\* A return gives up the mutex, if it is held.
LEMMA ReturnKeeps ==
  ASSUME IcebergInv, NEW s \in Inserts, NEW c, NEW r, Return(s, c, r),
         MayBecome(s, [c EXCEPT !.pc = "done", !.result = r]),
         [c EXCEPT !.pc = "done", !.result = r].pc = "done",
         UNCHANGED <<table, serial>>
  PROVE  IcebergInv'
<1> DEFINE d == [c EXCEPT !.pc = "done", !.result = r]
<1>0. TypeOK /\ MutexInv /\ d \in Call /\ d.provider = calls[s].provider /\ d.pc = "done"
  BY DEF IcebergInv, MayBecome
<1>1. Become(s, d) /\ MayBecome(s, d)
  BY DEF Return
<1>2. mutex' = [p \in Providers |-> IF mutex[p] = s THEN NoInsert ELSE mutex[p]]
  BY DEF Return
<1> HIDE DEF d
<1>3. \A t \in Inserts : calls'[t] = IF t = s THEN d ELSE calls[t]
  BY <1>0, <1>1 DEF TypeOK, Become
<1>4. mutex' \in [Providers -> Inserts \cup {NoInsert}]
  BY <1>0, <1>2 DEF TypeOK
<1>5. MutexInv'
  <2> SUFFICES ASSUME NEW t \in Inserts, calls'[t].pc \in Critical
               PROVE  mutex'[calls'[t].provider] = t
    BY DEF MutexInv
  <2>1. t # s /\ calls'[t] = calls[t]
    BY <1>0, <1>3 DEF Critical
  <2>2. calls[t].provider \in Providers /\ mutex[calls[t].provider] = t
    BY <1>0, <2>1 DEF MutexInv, TypeOK, Call
  <2> QED BY <1>2, <2>1, <2>2
<1> QED BY <1>1, <1>4, <1>5, BecomeKeeps

-----------------------------------------------------------------------------
(* The inductive invariant *)

\* A table nobody has inserted into satisfies the invariant.
LEMMA IcebergInvInit == ASSUME InsertAssumption, Init PROVE IcebergInv
<1>1. \A p \in Providers : Idle(p) \in Call
  BY DEF Idle, Call, Ops, None
<1>2. \A s \in Inserts : \E p \in Providers : calls[s] = Idle(p)
  BY DEF Init
<1>3. TypeOK
  <2>1. calls \in [Inserts -> Call]
    BY <1>1 DEF Init
  <2>2. <<NoInsert, 0>> \in Batch /\ <<NoInsert, 1>> \in Batch
    BY DEF Batch
  <2>3. table \in Seq(Batch) /\ serial \in Seq(Batch)
    BY <2>2 DEF Init
  <2>4. mutex \in [Providers -> Inserts \cup {NoInsert}]
    BY DEF Init
  <2> QED BY <2>1, <2>3, <2>4 DEF TypeOK
<1>4. \A p \in Providers : CallInv(Idle(p)) /\ Idle(p).pc = "idle" /\ Idle(p).replays = 0
  <2> SUFFICES ASSUME NEW p \in Providers
               PROVE  CallInv(Idle(p)) /\ Idle(p).pc = "idle" /\ Idle(p).replays = 0
    OBVIOUS
  <2> DEFINE c == Idle(p)
  <2>1. /\ c.pc = "idle" /\ c.input = "unopened" /\ c.offered = <<>> /\ c.refs = <<>>
        /\ c.inner = 0 /\ c.first = 0 /\ c.cur = 0 /\ c.rows = 0 /\ c.releases = 0
        /\ c.files = <<>> /\ c.replays = 0
    BY DEF Idle, None
  <2> HIDE DEF c
  <2>2. RefsOf(c)
    BY <2>1 DEF RefsOf
  <2>3. BatchesOf(c)
    BY <2>1 DEF BatchesOf
  <2>4. EndOf(c)
    BY <2>1 DEF EndOf
  <2> QED BY <2>1, <2>2, <2>3, <2>4 DEF CallInv, c
<1>5. \A s \in Inserts : CallInv(calls[s]) /\ calls[s].pc = "idle" /\ calls[s].replays = 0
  BY <1>2, <1>4
<1>6. MutexInv
  BY <1>5 DEF MutexInv, Critical
<1>7. HandleInv
  <2>1. \A n : n = 0 => ~(n > 0)
    OBVIOUS
  <2>2. \A s \in Inserts : calls[s].pc = "idle" /\ calls[s].replays = 0
    BY <1>5
  <2> QED BY <2>1, <2>2 DEF HandleInv
<1>8. table = serial
  BY DEF Init
<1> QED BY <1>3, <1>5, <1>6, <1>7, <1>8 DEF IcebergInv

\* Opening an input gives a call its batches, none of them delivered.
LEMMA OpenInputKeeps ==
  ASSUME InsertAssumption, IcebergInv, NEW s \in Inserts, OpenInput(s)
  PROVE  IcebergInv'
<1> DEFINE c == calls[s]
<1>0. TypeOK /\ c \in Call /\ CallInv(c) /\ HandleInv
  BY DEF IcebergInv, TypeOK
<1>1. PICK rows \in {table} \cup {[i \in 1..n |-> <<s, i>>] : n \in 0..MaxBatches} :
        Become(s, [c EXCEPT !.input = "open", !.offered = rows])
  BY DEF OpenInput
<1>2. rows \in Seq(Batch)
  <2>1. CASE rows = table
    BY <1>0, <2>1 DEF TypeOK
  <2>2. ASSUME NEW n \in 0..MaxBatches, rows = [i \in 1..n |-> <<s, i>>]
        PROVE  rows \in Seq(Batch)
    <3>1. n \in Nat
      BY DEF InsertAssumption
    <3>2. \A i \in 1..n : <<s, i>> \in Batch
      BY <3>1 DEF Batch
    <3> QED BY <2>2, <3>1, <3>2
  <2> QED BY <1>1, <2>1, <2>2
<1> DEFINE d == [c EXCEPT !.input = "open", !.offered = rows]
<1>3. /\ d \in Call /\ d.input = "open" /\ d.offered = rows
      /\ d.pc = c.pc /\ d.provider = c.provider /\ d.refs = c.refs
      /\ d.inner = c.inner /\ d.first = c.first /\ d.cur = c.cur /\ d.rows = c.rows
      /\ d.releases = c.releases /\ d.files = c.files /\ d.replays = c.replays
  BY <1>0, <1>2 DEF Call
<1>4. c.pc \in {"lock", "first"} /\ UNCHANGED <<table, mutex, serial>>
  BY DEF OpenInput
<1>5. c.refs = <<>> /\ c.rows = 0 /\ c.files = <<>> /\ HoldersIn(c)
  BY <1>0, <1>4 DEF CallInv, BatchesOf, HoldersIn
<1> HIDE DEF d
<1>6. CallInv(d)
  <2>1. RefsOf(d)
    BY <1>3, <1>5 DEF RefsOf
  <2>2. BatchesOf(d)
    <3>1. Len(d.refs) = 0 /\ Len(d.offered) \in Nat
      BY <1>2, <1>3, <1>5
    <3>2. Len(d.refs) <= Len(d.offered)
      BY <3>1
    <3> QED BY <1>3, <1>4, <1>5, <3>2 DEF BatchesOf, HoldersIn
  <2>3. EndOf(d)
    BY <1>0, <1>3, <1>4 DEF EndOf, CallInv
  <2> QED BY <2>1, <2>2, <2>3 DEF CallInv
<1>7. MayBecome(s, d)
  BY <1>0, <1>3, <1>4, <1>6 DEF MayBecome, HandleInv
<1> QED BY <1>1, <1>3, <1>4, <1>7, StepKeeps DEF d

\* A refused mode returns the input, the others wait for the mutex.
LEMMA StartKeeps ==
  ASSUME IcebergInv, NEW s \in Inserts, NEW o \in Ops, Start(s, o)
  PROVE  IcebergInv'
<1> DEFINE c == calls[s]
           u == [c EXCEPT !.op = o]
<1>0. TypeOK /\ c \in Call /\ CallInv(c) /\ HandleInv
  BY DEF IcebergInv, TypeOK
<1>1. /\ u \in Call /\ u.op = o
      /\ u.pc = c.pc /\ u.provider = c.provider /\ u.refs = c.refs
      /\ u.input = c.input /\ u.offered = c.offered
      /\ u.inner = c.inner /\ u.first = c.first /\ u.cur = c.cur /\ u.rows = c.rows
      /\ u.releases = c.releases /\ u.files = c.files /\ u.replays = c.replays
  BY <1>0 DEF Call
<1>2. /\ c.pc = "idle" /\ UNCHANGED <<table, serial>>
      /\ o = "replace" => Return(s, InnerRelease(u), "err")
      /\ o # "replace" => Become(s, Goto(u, "lock")) /\ UNCHANGED mutex
  BY DEF Start, At
<1> HIDE DEF u
<1>3. RefsOf(u) /\ BatchesOf(u) /\ EndOf(u)
  <2>1. RefsOf(u)
    BY <1>0, <1>1 DEF CallInv, RefsOf
  <2>2. BatchesOf(u)
    BY <1>0, <1>1 DEF CallInv, BatchesOf
  <2>3. EndOf(u)
    BY <1>0, <1>1, <1>2 DEF CallInv, EndOf
  <2> QED BY <2>1, <2>2, <2>3
<1>4. /\ u.releases = 0 /\ u.refs = <<>> /\ Len(u.refs) = 0 /\ HoldersIn(u)
      /\ Len(u.refs) <= Len(u.offered)
      /\ u.input = "ended" => Len(u.refs) = Len(u.offered)
      /\ u.inner <= Len(u.refs) /\ u.first <= Len(u.refs) /\ u.cur <= Len(u.refs)
      /\ u.rows = 0 /\ u.files = <<>> /\ u.input \in {"unopened", "open"}
  BY <1>1, <1>2, <1>3 DEF BatchesOf, EndOf, HoldersIn
<1>5. CASE o = "replace"
  <2> DEFINE v == InnerRelease(u)
             d == [v EXCEPT !.pc = "done", !.result = "err"]
  <2>1. /\ v \in Call /\ RefsOf(v) /\ HoldersIn(v)
        /\ v.inner = None /\ v.first = u.first /\ v.cur = u.cur
        /\ Len(v.refs) = Len(u.refs) /\ v.releases = u.releases + 1
        /\ v.provider = u.provider
        /\ v.input = u.input /\ v.offered = u.offered
        /\ v.replays = u.replays
    BY <1>1, <1>3, <1>4, InnerReleaseIs
  <2>2. u.first \in Nat /\ u.cur \in Nat
    BY <1>1 DEF Call
  <2>3. v.first = None /\ v.cur = None /\ v.releases = 1
    BY <1>4, <2>1, <2>2 DEF None
  <2> HIDE DEF v
  <2>4. /\ d \in Call /\ CallInv(d) /\ d.pc = "done"
        /\ d.provider = v.provider /\ d.replays = v.replays
    BY <1>4, <2>1, <2>3, DoneIs
  <2>5. MayBecome(s, d)
    <3> HIDE DEF d
    <3> QED BY <1>0, <1>1, <2>1, <2>4 DEF MayBecome, HandleInv
  <2>6. Return(s, v, "err")
    BY <1>2, <1>5 DEF v
  <2> QED BY <1>2, <2>4, <2>5, <2>6, ReturnKeeps
<1>6. CASE o # "replace"
  <2> DEFINE d == Goto(u, "lock")
  <2>1. /\ d \in Call /\ d.pc = "lock" /\ d.provider = u.provider /\ d.refs = u.refs
        /\ d.input = u.input /\ d.offered = u.offered
        /\ d.inner = u.inner /\ d.first = u.first /\ d.cur = u.cur /\ d.rows = u.rows
        /\ d.releases = u.releases /\ d.files = u.files /\ d.replays = u.replays
    BY <1>1 DEF Goto, Call
  <2>2. Become(s, d) /\ UNCHANGED <<table, mutex, serial>>
    BY <1>2, <1>6
  <2> HIDE DEF d
  <2>3. CallInv(d)
    <3>1. RefsOf(d)
      BY <1>3, <2>1 DEF RefsOf
    <3>2. BatchesOf(d)
      BY <1>4, <2>1 DEF BatchesOf
    <3>3. EndOf(d)
      BY <1>4, <2>1 DEF EndOf
    <3> QED BY <3>1, <3>2, <3>3 DEF CallInv
  <2>4. MayBecome(s, d)
    BY <1>0, <1>1, <2>1, <2>3 DEF MayBecome, HandleInv
  <2>5. d.pc \notin Critical
    BY <2>1 DEF Critical
  <2> QED BY <2>2, <2>4, <2>5, StepKeeps
<1> QED BY <1>5, <1>6

\* The mutex is taken when nobody holds it.
LEMMA LockKeeps ==
  ASSUME InsertAssumption, IcebergInv, NEW s \in Inserts, Lock(s)
  PROVE  IcebergInv'
<1> DEFINE c == calls[s]
           d == Goto(c, "first")
<1>0. TypeOK /\ MutexInv /\ c \in Call /\ CallInv(c) /\ HandleInv
  BY DEF IcebergInv, TypeOK
<1>1. /\ d \in Call /\ d.pc = "first" /\ d.provider = c.provider /\ d.refs = c.refs
      /\ d.input = c.input /\ d.offered = c.offered
      /\ d.inner = c.inner /\ d.first = c.first /\ d.cur = c.cur /\ d.rows = c.rows
      /\ d.releases = c.releases /\ d.files = c.files /\ d.replays = c.replays
  BY <1>0 DEF Goto, Call
<1>2. /\ c.pc = "lock" /\ UNCHANGED <<table, serial>> /\ Become(s, d)
      /\ mutex[c.provider] = NoInsert
      /\ mutex' = [mutex EXCEPT ![c.provider] = s]
  BY DEF Lock, At
<1> HIDE DEF d
<1>3. CallInv(d)
  <2>1. RefsOf(d)
    BY <1>0, <1>1 DEF CallInv, RefsOf
  <2>2. BatchesOf(d)
    BY <1>0, <1>1, <1>2 DEF CallInv, BatchesOf
  <2>3. EndOf(d)
    BY <1>0, <1>1, <1>2 DEF CallInv, EndOf
  <2> QED BY <2>1, <2>2, <2>3 DEF CallInv
<1>4. MayBecome(s, d)
  BY <1>0, <1>1, <1>3 DEF MayBecome, HandleInv
<1>5. c.provider \in Providers
  BY <1>0 DEF Call
<1>6. mutex' \in [Providers -> Inserts \cup {NoInsert}]
  BY <1>0, <1>2 DEF TypeOK
<1>7. MutexInv'
  <2> SUFFICES ASSUME NEW t \in Inserts, calls'[t].pc \in Critical
               PROVE  mutex'[calls'[t].provider] = t
    BY DEF MutexInv
  <2>1. calls'[t] = IF t = s THEN d ELSE calls[t]
    BY <1>0, <1>2 DEF TypeOK, Become
  <2>2. CASE t = s
    BY <1>0, <1>1, <1>2, <1>5, <2>1, <2>2 DEF TypeOK
  <2>3. CASE t # s
    <3>1. mutex[calls[t].provider] = t
      BY <2>1, <2>3, <1>0 DEF MutexInv
    <3>2. calls[t].provider # c.provider
      BY <1>2, <3>1 DEF InsertAssumption
    <3> QED BY <1>0, <1>2, <2>1, <2>3, <3>1, <3>2 DEF TypeOK
  <2> QED BY <2>2, <2>3
<1> QED BY <1>2, <1>4, <1>6, <1>7, BecomeKeeps

\* The first batch is kept for the wrapper, which is one more holder of it.
LEMMA KeepFirst ==
  ASSUME NEW c \in Call, RefsOf(c), HoldersIn(c), c.first = None,
         NEW b \in 1..Len(c.refs), NEW d, d = Goto([Retain(c, b) EXCEPT !.first = b], "load")
  PROVE  /\ d \in Call /\ RefsOf(d) /\ HoldersIn(d) /\ Len(d.refs) = Len(c.refs)
         /\ d.inner = c.inner /\ d.first = b /\ d.cur = c.cur
         /\ d.rows = c.rows /\ d.input = c.input
         /\ d.pc = "load" /\ d.provider = c.provider
         /\ d.offered = c.offered /\ d.releases = c.releases
         /\ d.files = c.files /\ d.replays = c.replays
<1> DEFINE u == Retain(c, b)
<1>1. /\ u \in Call
      /\ Len(u.refs) = Len(c.refs)
      /\ \A i \in 1..Len(c.refs) : u.refs[i] = c.refs[i] + Holds(i, b)
      /\ SameButBatches(c, u)
      /\ u.inner = c.inner /\ u.first = c.first /\ u.cur = c.cur
  BY RetainIs
<1>2. d = [u EXCEPT !.first = b, !.pc = "load"]
  BY DEF Goto
<1> HIDE DEF u
<1>3. /\ d \in Call /\ d.refs = u.refs
      /\ d.inner = u.inner /\ d.first = b /\ d.cur = u.cur
      /\ d.rows = u.rows /\ d.input = u.input
      /\ d.pc = "load" /\ d.provider = u.provider
      /\ d.offered = u.offered /\ d.releases = u.releases
      /\ d.files = u.files /\ d.replays = u.replays
  <2>1. Len(c.refs) \in Nat
    BY DEF Call
  <2>2. b \in Nat
    BY <2>1
  <2> QED BY <1>1, <1>2, <2>2 DEF Call
<1>4. RefsOf(d)
  <2> SUFFICES ASSUME NEW i \in 1..Len(c.refs)
               PROVE  d.refs[i] = Holds(i, d.inner) + Holds(i, d.first) + Holds(i, d.cur)
    BY <1>1, <1>3 DEF RefsOf
  <2>1. /\ d.refs[i] = c.refs[i] + Holds(i, b)
        /\ c.refs[i] = Holds(i, c.inner) + Holds(i, c.first) + Holds(i, c.cur)
    BY <1>1, <1>3 DEF RefsOf
  <2>2. Holds(i, c.first) = 0
    BY DEF Holds, None
  <2>3. Holds(i, c.inner) \in {0, 1} /\ Holds(i, c.cur) \in {0, 1}
        /\ Holds(i, b) \in {0, 1}
    BY DEF Holds
  <2> QED BY <1>1, <1>3, <2>1, <2>2, <2>3
<1>5. HoldersIn(d)
  <2>1. Len(c.refs) \in Nat
    BY DEF Call
  <2> QED BY <1>1, <1>3, <2>1 DEF HoldersIn
<1> QED BY <1>1, <1>3, <1>4, <1>5 DEF SameButBatches

\* The first batch, the end of an empty input, or its error.
LEMMA FirstNextKeeps ==
  ASSUME IcebergInv, NEW s \in Inserts, FirstNext(s)
  PROVE  IcebergInv'
<1> DEFINE c == calls[s]
<1>0. TypeOK /\ c \in Call /\ CallInv(c) /\ HandleInv
  BY DEF IcebergInv, TypeOK
<1>1. c.pc = "first" /\ c.input = "open" /\ UNCHANGED <<table, serial>>
  BY DEF FirstNext, At
<1>2. PICK e \in InnerNext(c) :
        \/ /\ e.input = "open"
           /\ Become(s, Goto([Retain(e, e.inner) EXCEPT !.first = e.inner], "load"))
           /\ UNCHANGED mutex
        \/ /\ e.input = "ended" /\ e.op = "overwrite"
           /\ Become(s, Goto(e, "load"))
           /\ UNCHANGED mutex
        \/ e.input = "ended" /\ e.op = "append" /\ Return(s, InnerRelease(e), "ok")
        \/ e.input = "failed" /\ Return(s, InnerRelease(e), "err")
  BY DEF FirstNext
<1>3. /\ RefsOf(c) /\ HoldersIn(c) /\ Len(c.refs) <= Len(c.offered)
      /\ c.refs = <<>> /\ Len(c.refs) = 0 /\ c.rows = 0 /\ c.files = <<>>
      /\ c.releases = 0
      /\ c.first <= Len(c.refs) /\ c.cur <= Len(c.refs)
  BY <1>0, <1>1 DEF CallInv, BatchesOf, HoldersIn, EndOf
<1>4. c.first = None /\ c.cur = None
  <2>1. c.first \in Nat /\ c.cur \in Nat
    BY <1>0 DEF Call
  <2> QED BY <1>3, <2>1 DEF None
<1>5. c.replays > 0 => Rival(s)
  BY <1>0 DEF HandleInv
<1> HIDE DEF c
<1>6. /\ e \in Call /\ RefsOf(e) /\ HoldersIn(e) /\ SameButInput(c, e)
      /\ e.first = c.first /\ e.cur = c.cur
      /\ \/ /\ e.input = "open" /\ Len(e.refs) = Len(c.refs) + 1
            /\ Len(e.refs) <= Len(e.offered)
            /\ e.inner = Len(e.refs)
         \/ /\ e.input = "ended" /\ Len(e.refs) = Len(c.refs)
            /\ Len(e.refs) = Len(e.offered)
            /\ e.inner = None
         \/ /\ e.input = "failed" /\ Len(e.refs) = Len(c.refs)
            /\ e.inner = None
  BY <1>0, <1>1, <1>3, InnerNextIs
<1>7. /\ e.pc = "first" /\ e.provider = c.provider /\ e.offered = c.offered
      /\ e.rows = 0 /\ e.files = <<>> /\ e.releases = 0 /\ e.replays = c.replays
      /\ e.first = None /\ e.cur = None
      /\ Len(e.refs) <= Len(e.offered)
      /\ e.input = "ended" => Len(e.refs) = Len(e.offered)
      /\ e.input = "open" => Len(e.refs) = 1 /\ e.inner = 1
      /\ e.input # "open" => Len(e.refs) = 0
      /\ e.offered \in Seq(Batch)
  <2>1. e.offered \in Seq(Batch)
    BY <1>6 DEF Call
  <2>2. /\ e.pc = "first" /\ e.provider = c.provider /\ e.offered = c.offered
        /\ e.rows = 0 /\ e.files = <<>> /\ e.releases = 0 /\ e.replays = c.replays
    BY <1>1, <1>3, <1>6 DEF SameButInput
  <2>3. Len(e.offered) \in Nat
    BY <2>1
  <2>4. \/ e.input = "open" /\ Len(e.refs) = 1 /\ Len(e.refs) <= Len(e.offered) /\ e.inner = 1
        \/ e.input = "ended" /\ Len(e.refs) = 0 /\ Len(e.refs) = Len(e.offered)
        \/ e.input = "failed" /\ Len(e.refs) = 0
    <3>1. \A n : n = 0 => n + 1 = 1
      OBVIOUS
    <3>2. Len(c.refs) = 0 /\ Len(c.refs) + 1 = 1
      BY <1>3, <3>1
    <3> QED BY <1>6, <3>2
  <2>5. /\ Len(e.refs) <= Len(e.offered)
        /\ e.input = "ended" => Len(e.refs) = Len(e.offered)
        /\ e.input = "open" => Len(e.refs) = 1 /\ e.inner = 1
        /\ e.input # "open" => Len(e.refs) = 0
    BY <2>3, <2>4
  <2> QED BY <1>4, <1>6, <2>1, <2>2, <2>5
<1>8. CASE /\ e.input = "open"
           /\ Become(s, Goto([Retain(e, e.inner) EXCEPT !.first = e.inner], "load"))
           /\ UNCHANGED mutex
  <2> DEFINE d == Goto([Retain(e, e.inner) EXCEPT !.first = e.inner], "load")
  <2>0. e.inner = 1 /\ Len(e.refs) = 1
    BY <1>7, <1>8
  <2>1. e.inner \in 1..Len(e.refs)
    BY <2>0
  <2>2. /\ d \in Call /\ RefsOf(d) /\ HoldersIn(d) /\ Len(d.refs) = Len(e.refs)
        /\ d.inner = e.inner /\ d.first = e.inner /\ d.cur = e.cur
        /\ d.rows = e.rows /\ d.input = e.input
        /\ d.pc = "load" /\ d.provider = e.provider
        /\ d.offered = e.offered /\ d.releases = e.releases
        /\ d.files = e.files /\ d.replays = e.replays
    <3>1. e \in Call /\ RefsOf(e) /\ HoldersIn(e) /\ e.first = None
      BY <1>6, <1>7
    <3> QED BY <2>1, <3>1, KeepFirst
  <2>3. Become(s, d)
    BY <1>8
  <2> HIDE DEF d
  <2>4. BatchesOf(d)
    <3>1. d.first # None
      BY <2>0, <2>2 DEF None
    <3> QED BY <1>7, <1>8, <2>0, <2>2, <3>1 DEF BatchesOf, HoldersIn
  <2>5. EndOf(d)
    BY <1>7, <2>2 DEF EndOf
  <2>6. MayBecome(s, d)
    BY <1>5, <1>7, <2>2, <2>4, <2>5 DEF MayBecome, CallInv, c
  <2>7. calls[s].pc \in Critical
    BY <1>1 DEF Critical, c
  <2> QED BY <1>1, <1>8, <2>3, <2>6, <2>7, StepKeeps
<1>9. CASE e.input = "ended" /\ Become(s, Goto(e, "load")) /\ UNCHANGED mutex
  <2> DEFINE d == Goto(e, "load")
  <2>1. /\ d \in Call /\ d.refs = e.refs
        /\ d.inner = e.inner /\ d.first = e.first /\ d.cur = e.cur
        /\ d.rows = e.rows /\ d.input = e.input
        /\ d.pc = "load" /\ d.provider = e.provider
        /\ d.offered = e.offered /\ d.releases = e.releases
        /\ d.files = e.files /\ d.replays = e.replays
    BY <1>6 DEF Goto, Call
  <2>2. Become(s, d)
    BY <1>9
  <2> HIDE DEF d
  <2>3. RefsOf(d) /\ HoldersIn(d)
    BY <1>6, <2>1 DEF RefsOf, HoldersIn
  <2>4. BatchesOf(d)
    <3>1. SubSeq(d.offered, 1, Len(d.refs)) = <<>> /\ Len(d.refs) = 0
      BY <1>7, <1>9, <2>1
    <3> QED BY <1>7, <1>9, <2>1, <2>3, <3>1 DEF BatchesOf, HoldersIn
  <2>5. EndOf(d)
    BY <1>7, <2>1 DEF EndOf
  <2>6. MayBecome(s, d)
    BY <1>5, <1>7, <2>1, <2>3, <2>4, <2>5 DEF MayBecome, CallInv, c
  <2>7. calls[s].pc \in Critical
    BY <1>1 DEF Critical, c
  <2> QED BY <1>1, <1>9, <2>2, <2>6, <2>7, StepKeeps
<1>10. ASSUME NEW r \in {"ok", "err"}, r = "ok" => e.input = "ended",
              e.input # "open", Return(s, InnerRelease(e), r)
       PROVE  IcebergInv'
  <2> DEFINE v == InnerRelease(e)
             d == [v EXCEPT !.pc = "done", !.result = r]
  <2>1. /\ v \in Call /\ RefsOf(v) /\ HoldersIn(v)
        /\ v.inner = None /\ v.first = e.first /\ v.cur = e.cur
        /\ Len(v.refs) = Len(e.refs) /\ v.releases = e.releases + 1
        /\ v.provider = e.provider /\ v.rows = e.rows
        /\ v.input = e.input /\ v.offered = e.offered
        /\ v.replays = e.replays
    BY <1>6, InnerReleaseIs
  <2> HIDE DEF v
  <2>2. v.releases = 1
    BY <1>7, <2>1
  <2>3. r = "ok" => v.input = "ended" /\ v.rows = Len(v.offered)
    BY <1>7, <1>10, <2>1
  <2>4. /\ d \in Call /\ CallInv(d) /\ d.pc = "done"
        /\ d.provider = v.provider /\ d.replays = v.replays
    BY <1>7, <2>1, <2>2, <2>3, DoneIs
  <2>5. MayBecome(s, d)
    <3> HIDE DEF d
    <3> QED BY <1>5, <1>7, <2>1, <2>4 DEF MayBecome, c
  <2>6. Return(s, v, r)
    BY <1>10 DEF v
  <2> QED BY <1>1, <2>4, <2>5, <2>6, ReturnKeeps
<1>11. CASE e.input = "ended" /\ Return(s, InnerRelease(e), "ok")
  BY <1>10, <1>11
<1>12. CASE e.input = "failed" /\ Return(s, InnerRelease(e), "err")
  BY <1>10, <1>12
<1> QED BY <1>2, <1>8, <1>9, <1>11, <1>12

\* The handle is loaded from the current snapshot.
LEMMA LoadKeeps ==
  ASSUME IcebergInv, NEW s \in Inserts, Load(s)
  PROVE  IcebergInv'
<1> DEFINE c == calls[s]
           d == [Goto(c, "write") EXCEPT !.base = table]
<1>0. TypeOK /\ c \in Call /\ CallInv(c) /\ HandleInv /\ table \in Seq(Batch)
  BY DEF IcebergInv, TypeOK
<1>1. /\ d \in Call /\ d.pc = "write" /\ d.provider = c.provider /\ d.refs = c.refs
      /\ d.input = c.input /\ d.offered = c.offered /\ d.base = table
      /\ d.inner = c.inner /\ d.first = c.first /\ d.cur = c.cur /\ d.rows = c.rows
      /\ d.releases = c.releases /\ d.files = c.files /\ d.replays = c.replays
  BY <1>0 DEF Goto, Call
<1>2. c.pc = "load" /\ UNCHANGED <<table, mutex, serial>> /\ Become(s, d)
  BY DEF Load, At
<1> HIDE DEF d
<1>3. RefsOf(d)
  BY <1>0, <1>1 DEF CallInv, RefsOf
<1>4. BatchesOf(d)
  BY <1>0, <1>1, <1>2 DEF CallInv, BatchesOf
<1>5. EndOf(d)
  BY <1>0, <1>1, <1>2 DEF CallInv, EndOf
<1>6. MayBecome(s, d)
  BY <1>0, <1>1, <1>3, <1>4, <1>5 DEF MayBecome, HandleInv, CallInv
<1>7. c.pc \in Critical
  BY <1>2 DEF Critical
<1> QED BY <1>2, <1>6, <1>7, StepKeeps

\* A call that returns through the wrapper's Release.
LEMMA WrappedReturnKeeps ==
  ASSUME IcebergInv, NEW s \in Inserts, calls[s].pc \in {"load", "finish"},
         NEW r \in {"none", "ok", "err"},
         r = "ok" => calls[s].input = "ended" /\ calls[s].rows = Len(calls[s].offered),
         Return(s, WrappedRelease(calls[s]), r), UNCHANGED <<table, serial>>
  PROVE  IcebergInv'
<1> DEFINE c == calls[s]
           v == WrappedRelease(c)
           d == [v EXCEPT !.pc = "done", !.result = r]
<1>0. TypeOK /\ c \in Call /\ CallInv(c) /\ HandleInv
  BY DEF IcebergInv, TypeOK
<1>1. /\ RefsOf(c) /\ HoldersIn(c) /\ Len(c.refs) <= Len(c.offered)
      /\ c.input = "ended" => Len(c.refs) = Len(c.offered)
      /\ c.releases = 0
  BY <1>0 DEF CallInv, BatchesOf, HoldersIn, EndOf
<1>2. /\ v \in Call /\ RefsOf(v) /\ HoldersIn(v)
      /\ v.inner = None /\ v.first = None /\ v.cur = None
      /\ Len(v.refs) = Len(c.refs) /\ v.releases = c.releases + 1
      /\ v.provider = c.provider /\ v.replays = c.replays
      /\ v.input = c.input /\ v.offered = c.offered /\ v.rows = c.rows
  BY <1>0, <1>1, WrappedReleaseIs
<1> HIDE DEF v
<1>3. v.releases = 1
  BY <1>1, <1>2
<1>4. /\ d \in Call /\ CallInv(d) /\ d.pc = "done"
      /\ d.provider = v.provider /\ d.replays = v.replays
  <2>1. r = "ok" => v.input = "ended" /\ v.rows = Len(v.offered)
    BY <1>2
  <2>2. /\ Len(v.refs) <= Len(v.offered)
        /\ v.input = "ended" => Len(v.refs) = Len(v.offered)
    BY <1>1, <1>2
  <2> QED BY <1>2, <1>3, <2>1, <2>2, DoneIs
<1>5. MayBecome(s, d)
  <2> HIDE DEF d
  <2> QED BY <1>0, <1>2, <1>4 DEF MayBecome, HandleInv
<1>6. Return(s, v, r)
  BY DEF v
<1> QED BY <1>4, <1>5, <1>6, ReturnKeeps

LEMMA LoadFailsKeeps ==
  ASSUME IcebergInv, NEW s \in Inserts, LoadFails(s)
  PROVE  IcebergInv'
  BY WrappedReturnKeeps DEF LoadFails, At

\* A call that is about to return.
LEMMA FinishIs ==
  ASSUME NEW c \in Call, RefsOf(c), HoldersIn(c), c.releases = 0,
         Len(c.refs) <= Len(c.offered), c.input = "ended" => Len(c.refs) = Len(c.offered),
         NEW r \in {"ok", "err"}, r = "ok" => c.input = "ended" /\ c.rows = Len(c.offered),
         NEW d, d = Finish(c, r)
  PROVE  /\ d \in Call /\ CallInv(d) /\ d.pc = "finish"
         /\ d.provider = c.provider /\ d.replays = c.replays
<1>1. /\ d \in Call /\ d.pc = "finish" /\ d.result = r
      /\ d.input = c.input /\ d.offered = c.offered /\ d.refs = c.refs
      /\ d.inner = c.inner /\ d.first = c.first /\ d.cur = c.cur
      /\ d.rows = c.rows /\ d.releases = c.releases
      /\ d.provider = c.provider /\ d.replays = c.replays
  BY DEF Finish, Call
<1>2. RefsOf(d)
  BY <1>1 DEF RefsOf
<1>3. BatchesOf(d)
  BY <1>1 DEF BatchesOf, HoldersIn
<1>4. EndOf(d)
  BY <1>1 DEF EndOf
<1> QED BY <1>1, <1>2, <1>3, <1>4 DEF CallInv

\* A call that gives up its write or its commit.
LEMMA GiveUpKeeps ==
  ASSUME IcebergInv, NEW s \in Inserts, calls[s].pc \in {"write", "commit"},
         Become(s, Finish(calls[s], "err")), UNCHANGED <<table, mutex, serial>>
  PROVE  IcebergInv'
<1> DEFINE c == calls[s]
           d == Finish(c, "err")
<1>0. TypeOK /\ c \in Call /\ CallInv(c) /\ HandleInv
  BY DEF IcebergInv, TypeOK
<1>1. /\ RefsOf(c) /\ HoldersIn(c) /\ Len(c.refs) <= Len(c.offered)
      /\ c.input = "ended" => Len(c.refs) = Len(c.offered)
      /\ c.releases = 0
  BY <1>0 DEF CallInv, BatchesOf, HoldersIn, EndOf
<1>2. /\ d \in Call /\ CallInv(d) /\ d.pc = "finish"
      /\ d.provider = c.provider /\ d.replays = c.replays
  BY <1>0, <1>1, FinishIs
<1>3. Become(s, d)
  OBVIOUS
<1> HIDE DEF d
<1>4. MayBecome(s, d)
  BY <1>0, <1>2 DEF MayBecome, HandleInv
<1>5. c.pc \in Critical
  BY DEF Critical
<1> QED BY <1>3, <1>4, <1>5, StepKeeps

\* A batch is written, the input has ended, or its error ends the call.
LEMMA WriteKeeps ==
  ASSUME IcebergInv, NEW s \in Inserts, Write(s)
  PROVE  IcebergInv'
<1> DEFINE c == calls[s]
<1>0. TypeOK /\ c \in Call /\ CallInv(c) /\ HandleInv
  BY DEF IcebergInv, TypeOK
<1>1. c.pc = "write" /\ UNCHANGED <<table, mutex, serial>>
  BY DEF Write, At
<1>2. PICK e \in WrappedNext(c) :
        Become(s, IF e.cur # None THEN [e EXCEPT !.files = Append(@, e.offered[e.cur])]
                  ELSE IF Err(e) THEN Finish(e, "err")
                  ELSE Goto(e, "commit"))
  BY DEF Write
<1>3. /\ c.replays > 0 => Rival(s)
      /\ c.base = table \/ Rival(s)
      /\ c.releases = 0
      /\ RefsOf(c) /\ BatchesOf(c)
  BY <1>0, <1>1 DEF HandleInv, CallInv, EndOf
<1>4. calls[s].pc \in Critical
  BY <1>1 DEF Critical
<1> HIDE DEF c
<1>5. /\ e \in Call /\ RefsOf(e) /\ HoldersIn(e)
      /\ e.pc = c.pc /\ e.provider = c.provider
      /\ e.offered = c.offered /\ e.releases = c.releases
      /\ e.base = c.base /\ e.files = c.files /\ e.replays = c.replays
      /\ e.first = None /\ Len(e.refs) <= Len(c.offered)
      /\ e.input = "ended" => Len(e.refs) = Len(c.offered)
      /\ \/ /\ e.cur # None /\ e.cur = Len(e.refs) /\ e.rows = Len(e.refs)
            /\ e.input \in {"open", "ended"}
            /\ c.files = SubSeq(c.offered, 1, Len(e.refs) - 1)
         \/ /\ e.cur = None /\ e.rows = Len(e.refs) /\ e.input = "ended"
            /\ c.files = SubSeq(c.offered, 1, Len(e.refs))
         \/ e.cur = None /\ e.input = "failed"
  BY <1>0, <1>1, <1>3, WrappedNextIs
<1>6. /\ Len(e.refs) \in Nat /\ e.offered \in Seq(Batch) /\ e.cur \in Nat
      /\ e.files \in Seq(Batch)
  BY <1>5 DEF Call
<1>7. CASE e.cur # None
  <2> DEFINE n == Len(e.refs)
             f == Append(e.files, e.offered[e.cur])
             d == [e EXCEPT !.files = f]
  <2>1. /\ e.cur = n /\ e.rows = n /\ e.input \in {"open", "ended"}
        /\ e.files = SubSeq(e.offered, 1, n - 1)
    BY <1>5, <1>7
  <2>2. n \in 1..Len(e.offered)
    BY <1>5, <1>6, <1>7, <2>1 DEF None
  <2>3. f = SubSeq(e.offered, 1, n)
    <3> HIDE DEF n
    <3> QED BY <1>6, <2>1, <2>2
  <2>4. f \in Seq(Batch)
    <3>1. e.offered[e.cur] \in Batch
      BY <1>6, <2>1, <2>2
    <3> QED BY <1>6, <3>1
  <2>5. Become(s, d)
    BY <1>2, <1>7
  <2> HIDE DEF f
  <2>6. /\ d \in Call /\ d.files = f /\ d.refs = e.refs /\ d.pc = e.pc
        /\ d.provider = e.provider /\ d.input = e.input /\ d.offered = e.offered
        /\ d.inner = e.inner /\ d.first = e.first /\ d.cur = e.cur /\ d.rows = e.rows
        /\ d.releases = e.releases /\ d.base = e.base /\ d.replays = e.replays
    BY <1>5, <2>4 DEF Call
  <2> HIDE DEF d
  <2>7. RefsOf(d) /\ HoldersIn(d)
    BY <1>5, <2>6 DEF RefsOf, HoldersIn
  <2>8. BatchesOf(d)
    BY <1>1, <1>5, <2>1, <2>3, <2>6, <2>7 DEF BatchesOf, HoldersIn
  <2>9. EndOf(d)
    BY <1>1, <1>3, <1>5, <2>6 DEF EndOf
  <2>10. MayBecome(s, d)
    BY <1>1, <1>3, <1>5, <2>6, <2>7, <2>8, <2>9 DEF MayBecome, CallInv, c
  <2> QED BY <1>1, <1>4, <2>5, <2>10, StepKeeps
<1>8. CASE e.cur = None /\ e.input = "failed"
  <2> DEFINE d == Finish(e, "err")
  <2>1. Become(s, d)
    BY <1>2, <1>8 DEF Err
  <2>2. /\ d \in Call /\ CallInv(d) /\ d.pc = "finish"
        /\ d.provider = e.provider /\ d.replays = e.replays
    BY <1>3, <1>5, FinishIs
  <2> HIDE DEF d
  <2>3. MayBecome(s, d)
    BY <1>3, <1>5, <2>2 DEF MayBecome, c
  <2> QED BY <1>1, <1>4, <2>1, <2>3, StepKeeps
<1>9. CASE e.cur = None /\ e.input # "failed"
  <2> DEFINE d == Goto(e, "commit")
  <2>1. Become(s, d)
    BY <1>2, <1>9 DEF Err
  <2>2. /\ e.rows = Len(e.refs) /\ e.input = "ended"
        /\ e.files = SubSeq(e.offered, 1, Len(e.refs))
    BY <1>5, <1>9
  <2>3. /\ d \in Call /\ d.pc = "commit" /\ d.files = e.files /\ d.refs = e.refs
        /\ d.provider = e.provider /\ d.input = e.input /\ d.offered = e.offered
        /\ d.inner = e.inner /\ d.first = e.first /\ d.cur = e.cur /\ d.rows = e.rows
        /\ d.releases = e.releases /\ d.base = e.base /\ d.replays = e.replays
    BY <1>5 DEF Goto, Call
  <2> HIDE DEF d
  <2>4. RefsOf(d) /\ HoldersIn(d)
    BY <1>5, <2>3 DEF RefsOf, HoldersIn
  <2>5. BatchesOf(d)
    BY <1>5, <2>2, <2>3, <2>4 DEF BatchesOf, HoldersIn
  <2>6. EndOf(d)
    BY <1>3, <1>5, <2>3 DEF EndOf
  <2>7. MayBecome(s, d)
    BY <1>3, <1>5, <2>3, <2>4, <2>5, <2>6 DEF MayBecome, CallInv, c
  <2> QED BY <1>1, <1>4, <2>1, <2>7, StepKeeps
<1> QED BY <1>7, <1>8, <1>9

\* The swap makes the table what the serial one becomes, and leaves no stale
\* handle but with calls through other instances.
LEMMA CommitKeeps ==
  ASSUME IcebergInv, NEW s \in Inserts, Commit(s)
  PROVE  IcebergInv'
<1> DEFINE c == calls[s]
<1>0. /\ TypeOK /\ MutexInv /\ HandleInv /\ table = serial
      /\ c \in Call /\ CallInv(c) /\ \A t \in Inserts : CallInv(calls[t])
  BY DEF IcebergInv, TypeOK
<1>1. /\ c.pc = "commit"
      /\ table' = Onto(c, table, c.files) /\ serial' = Onto(c, serial, c.offered)
      /\ UNCHANGED mutex
  BY DEF Commit, At
<1>2. PICK r \in {"ok", "err"} : Become(s, Finish(c, r))
  BY DEF Commit
<1> DEFINE d == Finish(c, r)
<1>3. /\ RefsOf(c) /\ HoldersIn(c) /\ Len(c.refs) = Len(c.offered)
      /\ c.releases = 0 /\ c.input = "ended" /\ c.rows = Len(c.refs)
      /\ c.files = SubSeq(c.offered, 1, Len(c.refs))
  BY <1>0, <1>1 DEF CallInv, BatchesOf, HoldersIn, EndOf
<1>4. c.offered \in Seq(Batch) /\ Len(c.refs) \in Nat
  BY <1>0 DEF Call
<1>5. c.files = c.offered
  BY <1>3, <1>4
<1>6. /\ d \in Call /\ CallInv(d) /\ d.pc = "finish"
      /\ d.provider = c.provider /\ d.replays = c.replays
  <2>1. Len(c.refs) <= Len(c.offered) /\ c.rows = Len(c.offered)
    BY <1>3, <1>4
  <2> QED BY <1>0, <1>3, <2>1, FinishIs
<1>7. Become(s, d)
  BY <1>2
<1> HIDE DEF d
<1>8. \A t \in Inserts : calls'[t] = IF t = s THEN d ELSE calls[t]
  BY <1>0, <1>7 DEF TypeOK, Become
<1>9. TypeOK'
  <2>1. table \in Seq(Batch)
    BY <1>0 DEF TypeOK
  <2>2. table' \in Seq(Batch) /\ serial' \in Seq(Batch)
    BY <1>0, <1>1, <1>4, <1>5, <2>1 DEF Onto
  <2>3. calls' \in [Inserts -> Call] /\ mutex' \in [Providers -> Inserts \cup {NoInsert}]
    BY <1>0, <1>1, <1>6, <1>7 DEF TypeOK, Become
  <2> QED BY <2>2, <2>3 DEF TypeOK
<1>10. MutexInv'
  <2>1. c.pc \in Critical
    BY <1>1 DEF Critical
  <2> QED BY <1>0, <1>1, <1>6, <1>8, <2>1 DEF MutexInv
<1>11. \A t \in Inserts : CallInv(calls'[t])
  BY <1>0, <1>6, <1>8
<1>12. \A t \in Inserts : Rival(t) => Rival(t)'
  BY <1>0, <1>6, <1>7, RivalStays
<1>13. HandleInv'
  <2> SUFFICES ASSUME NEW t \in Inserts
               PROVE  /\ calls'[t].pc \in {"write", "commit"} => calls'[t].base = table' \/ Rival(t)'
                      /\ calls'[t].replays > 0 => Rival(t)'
    BY DEF HandleInv
  <2>1. CASE t = s
    BY <1>0, <1>6, <1>8, <1>12, <2>1 DEF HandleInv
  <2>2. CASE t # s
    <3>1. calls'[t] = calls[t]
      BY <1>8, <2>2
    <3>2. calls'[t].replays > 0 => Rival(t)'
      BY <1>0, <1>12, <3>1 DEF HandleInv
    <3>3. ASSUME calls'[t].pc \in {"write", "commit"} PROVE Rival(t)'
      <4>1. calls[t].provider # c.provider
        <5>1. calls[t].pc \in Critical /\ c.pc \in Critical
          BY <1>1, <3>1, <3>3 DEF Critical
        <5>2. mutex[calls[t].provider] = t /\ mutex[c.provider] = s
          BY <1>0, <5>1 DEF MutexInv
        <5> QED BY <2>2, <5>2
      <4>2. /\ calls'[s].pc # "idle" /\ calls'[s].provider = c.provider
            /\ calls'[t].provider = calls[t].provider
        BY <1>6, <1>8, <3>1
      <4> QED BY <4>1, <4>2 DEF Rival
    <3> QED BY <3>2, <3>3
  <2> QED BY <2>1, <2>2
<1>14. (table = serial)'
  BY <1>0, <1>1, <1>5 DEF Onto
<1> QED BY <1>9, <1>10, <1>11, <1>13, <1>14 DEF IcebergInv

\* A conflict is with a rival, as the handle was stale.
LEMMA ConflictKeeps ==
  ASSUME IcebergInv, NEW s \in Inserts, Conflict(s)
  PROVE  IcebergInv'
<1> DEFINE c == calls[s]
           d == [c EXCEPT !.base = table, !.replays = @ + 1]
<1>0. TypeOK /\ c \in Call /\ CallInv(c) /\ HandleInv /\ table \in Seq(Batch)
  BY DEF IcebergInv, TypeOK
<1>1. c.pc = "commit" /\ c.base # table /\ UNCHANGED <<table, mutex, serial>> /\ Become(s, d)
  BY DEF Conflict, At
<1>2. /\ d \in Call /\ d.pc = c.pc /\ d.provider = c.provider /\ d.refs = c.refs
      /\ d.input = c.input /\ d.offered = c.offered /\ d.base = table
      /\ d.inner = c.inner /\ d.first = c.first /\ d.cur = c.cur /\ d.rows = c.rows
      /\ d.releases = c.releases /\ d.files = c.files
  <2>1. c.replays + 1 \in Nat
    BY <1>0 DEF Call
  <2> QED BY <1>0, <2>1 DEF Call
<1> HIDE DEF d
<1>3. RefsOf(d)
  BY <1>0, <1>2 DEF CallInv, RefsOf
<1>4. BatchesOf(d)
  BY <1>0, <1>2 DEF CallInv, BatchesOf
<1>5. EndOf(d)
  BY <1>0, <1>1, <1>2 DEF CallInv, EndOf
<1>6. Rival(s)
  BY <1>0, <1>1 DEF HandleInv
<1>7. MayBecome(s, d)
  BY <1>1, <1>2, <1>3, <1>4, <1>5, <1>6 DEF MayBecome, CallInv
<1>8. c.pc \in Critical
  BY <1>1 DEF Critical
<1> QED BY <1>1, <1>7, <1>8, StepKeeps

\* A result is reported as it was found.
LEMMA ReturnsKeeps ==
  ASSUME IcebergInv, NEW s \in Inserts, Returns(s)
  PROVE  IcebergInv'
<1> DEFINE c == calls[s]
<1>1. /\ c.pc = "finish" /\ UNCHANGED <<table, serial>>
      /\ Return(s, WrappedRelease(c), c.result)
  BY DEF Returns, At
<1>2. c \in Call /\ EndOf(c)
  BY DEF IcebergInv, TypeOK, CallInv
<1>3. c.result = "ok" => c.input = "ended" /\ c.rows = Len(c.offered)
  BY <1>1, <1>2 DEF EndOf
<1>4. c.result \in {"none", "ok", "err"}
  BY <1>2 DEF Call
<1> QED BY <1>1, <1>3, <1>4, WrappedReturnKeeps

\* Every step keeps the invariant.
LEMMA IcebergInvStep ==
  ASSUME InsertAssumption, IcebergInv, [Next]_vars PROVE IcebergInv'
<1>1. ASSUME NEW s \in Inserts, NEW o \in Ops, Start(s, o) PROVE IcebergInv'
  BY <1>1, StartKeeps
<1>2. ASSUME NEW s \in Inserts, OpenInput(s) PROVE IcebergInv'
  BY <1>2, OpenInputKeeps
<1>3. ASSUME NEW s \in Inserts, Step(s) PROVE IcebergInv'
  <2>1. CASE WriteFails(s)
    BY <2>1, GiveUpKeeps DEF WriteFails, At
  <2>2. CASE CommitFails(s)
    BY <2>2, GiveUpKeeps DEF CommitFails, At
  <2> QED BY <1>3, <2>1, <2>2, LockKeeps, FirstNextKeeps, LoadKeeps, LoadFailsKeeps,
             WriteKeeps, CommitKeeps, ConflictKeeps, ReturnsKeeps DEF Step
<1>4. CASE UNCHANGED vars
  BY <1>4 DEF vars, IcebergInv, TypeOK, MutexInv, HandleInv, Rival
<1> QED BY <1>1, <1>2, <1>3, <1>4 DEF Next, Finished

\* The inductive invariant of InsertInto holds for any number of concurrent
\* inserts through any number of instances (insert.go:44-95, 150-192).
THEOREM IcebergInvariant == ASSUME InsertAssumption PROVE Spec => []IcebergInv
  BY IcebergInvInit, IcebergInvStep, PTL DEF Spec
-----------------------------------------------------------------------------
(* What the invariant says *)

\* The four properties of InsertInto follow from the invariant: what its
\* returned calls hold and report, what the table is, and whom it conflicts
\* with (insert.go:25-43, 45-76, 150-192).
LEMMA IcebergInvSays ==
  ASSUME IcebergInv
  PROVE  AsIfAlone /\ RefsExact /\ SuccessIsComplete /\ NoSelfConflict
<1>1. AsIfAlone
  BY DEF IcebergInv, AsIfAlone
<1>2. RefsExact
  BY DEF IcebergInv, CallInv, EndOf, RefsExact
<1>3. SuccessIsComplete
  BY DEF IcebergInv, CallInv, EndOf, SuccessIsComplete
<1>4. NoSelfConflict
  BY DEF IcebergInv, HandleInv, NoSelfConflict
<1> QED BY <1>1, <1>2, <1>3, <1>4
=============================================================================
