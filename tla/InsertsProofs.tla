--------------------------- MODULE InsertsProofs ---------------------------
(***************************************************************************)
(* The layers of an INSERT, for any set of statements.  The bridge, first: *)
(* any pool, any capacity of the channel and any number of batches (the    *)
(* pool matters to progress only: nothing here depends on FreeThread).     *)
(* Then the two providers, whose inductive invariants are taken from       *)
(* ParquetInsertProofs and IcebergInsertProofs and hold beside each other. *)
(***************************************************************************)
EXTENDS MCInserts, TLAPS

ParquetProofs == INSTANCE ParquetInsertProofs WITH Inserts <- Statements
IcebergProofs == INSTANCE IcebergInsertProofs WITH
  Inserts <- Statements, MaxBatches <- MaxInput, table <- icebergTable, mutex <- icebergMutex,
  serial <- icebergSerial


-----------------------------------------------------------------------------
(* Facts about sequences *)

\* Moving the head of one sequence to the end of another keeps the
\* concatenation with whatever follows: Receive.
LEMMA MoveHead ==
  ASSUME NEW S, NEW a \in Seq(S), NEW b \in Seq(S), NEW c \in Seq(S), b # <<>>
  PROVE  Append(a, Head(b)) \o Tail(b) \o c = a \o b \o c
<1>1. Append(a, Head(b)) \o Tail(b) = a \o b
  OBVIOUS
<1> QED BY <1>1

\* Moving the item in hand to the end of the channel keeps it too: Send.
LEMMA MoveInHand ==
  ASSUME NEW S, NEW a \in Seq(S), NEW b \in Seq(S), NEW x \in S
  PROVE  a \o Append(b, x) \o <<>> = a \o b \o <<x>>
  OBVIOUS

\* A new item in hand extends the whole by one: ScanYields and ScanFails.
LEMMA TakeInHand ==
  ASSUME NEW S, NEW a \in Seq(S), NEW b \in Seq(S), NEW x \in S
  PROVE  a \o b \o <<x>> = Append(a \o b \o <<>>, x)
  OBVIOUS

\* The batches of the stream, as a sequence of items, and the next one.
LEMMA BatchesAreItems ==
  ASSUME NEW n \in 0..MaxBatches
  PROVE  /\ [i \in 1..n |-> i] \in Seq(Item)
         /\ n < MaxBatches =>
              [i \in 1..(n + 1) |-> i] = Append([i \in 1..n |-> i], n + 1)
<1>1. [i \in 1..n |-> i] \in Seq(Item)
  BY BridgeAssumption DEF Item
<1>2. ASSUME n < MaxBatches
      PROVE  [i \in 1..(n + 1) |-> i] = Append([i \in 1..n |-> i], n + 1)
  BY BridgeAssumption
<1> QED BY <1>1, <1>2

-----------------------------------------------------------------------------
(* The inductive invariant *)

\* Before write_all the invariant holds.
LEMMA BridgeInvInit == Init => BridgeInv
<1> SUFFICES ASSUME Init PROVE BridgeInv
  OBVIOUS
<1>1. TypeOK
  BY BridgeAssumption DEF Init, TypeOK, Item, Error
<1>2. NothingLost
  BY BridgeAssumption DEF Init, NothingLost, WholeOf, InHand, Yielded
<1>3. \A s \in Statements : EndOf(s)
  BY DEF Init, EndOf
<1> QED BY <1>1, <1>2, <1>3 DEF BridgeInv

\* A step of one statement leaves the others' parts alone.
LEMMA OthersKeep ==
  ASSUME NEW r \in Statements, WholeOf(r), EndOf(r),
         source'[r] = source[r], pulled'[r] = pulled[r], pump'[r] = pump[r],
         inhand'[r] = inhand[r], channel'[r] = channel[r], rx'[r] = rx[r],
         sink'[r] = sink[r], got'[r] = got[r], eos'[r] = eos[r],
         outcome'[r] = outcome[r]
  PROVE  WholeOf(r)' /\ EndOf(r)'
  BY DEF WholeOf, EndOf, InHand, Yielded

\* What TypeOK says of one statement's items.
LEMMA ItemTypes ==
  ASSUME TypeOK, NEW s \in Statements
  PROVE  /\ got[s] \in Seq(Item) /\ channel[s] \in Seq(Item)
         /\ inhand[s] \in Item /\ pulled[s] \in 0..MaxBatches
  BY DEF TypeOK

\* Every step of write_all, the pump, the scan and the insert keeps the
\* invariant.
LEMMA BridgeInvStep == BridgeInv /\ [Next]_vars => BridgeInv'
<1> SUFFICES ASSUME BridgeInv, [Next]_vars PROVE BridgeInv'
  OBVIOUS
<1>0. TypeOK /\ \A s \in Statements : WholeOf(s) /\ EndOf(s)
  BY DEF BridgeInv, NothingLost
<1>1. ASSUME NEW s \in Statements, WriteAll(s) PROVE BridgeInv'
  <2>1. TypeOK'
    BY <1>0, <1>1, BridgeAssumption DEF WriteAll, TypeOK, Item, Error
  <2>2. WholeOf(s)'
    BY <1>0, <1>1 DEF WriteAll, TypeOK, WholeOf, EndOf, InHand, Yielded
  <2>3. EndOf(s)'
    BY <1>0, <1>1 DEF WriteAll, TypeOK, EndOf
  <2>4. ASSUME NEW r \in Statements, r # s PROVE WholeOf(r)' /\ EndOf(r)'
    BY <1>0, <1>1, <2>4, OthersKeep DEF WriteAll, TypeOK
  <2> QED BY <2>1, <2>2, <2>3, <2>4 DEF BridgeInv, NothingLost
<1>2. ASSUME NEW s \in Statements, PullStart(s) PROVE BridgeInv'
  <2>1. TypeOK'
    BY <1>0, <1>2, BridgeAssumption DEF PullStart, TypeOK, Item, Error
  <2>2. WholeOf(s)'
    BY <1>0, <1>2 DEF PullStart, TypeOK, WholeOf, EndOf, InHand, Yielded
  <2>3. EndOf(s)'
    BY <1>0, <1>2 DEF PullStart, TypeOK, EndOf
  <2>4. ASSUME NEW r \in Statements, r # s PROVE WholeOf(r)' /\ EndOf(r)'
    BY <1>0, <1>2, <2>4, OthersKeep DEF PullStart, TypeOK
  <2> QED BY <2>1, <2>2, <2>3, <2>4 DEF BridgeInv, NothingLost
<1>3. ASSUME NEW s \in Statements, ScanOpens(s) PROVE BridgeInv'
  <2>1. TypeOK'
    BY <1>0, <1>3, BridgeAssumption DEF ScanOpens, TypeOK, Item, Error
  <2>2. WholeOf(s)'
    BY <1>0, <1>3 DEF ScanOpens, TypeOK, WholeOf, EndOf, InHand, Yielded
  <2>3. EndOf(s)'
    BY <1>0, <1>3 DEF ScanOpens, TypeOK, EndOf
  <2>4. ASSUME NEW r \in Statements, r # s PROVE WholeOf(r)' /\ EndOf(r)'
    BY <1>0, <1>3, <2>4, OthersKeep DEF ScanOpens, TypeOK
  <2> QED BY <2>1, <2>2, <2>3, <2>4 DEF BridgeInv, NothingLost
<1>4. ASSUME NEW s \in Statements, ScanYields(s) PROVE BridgeInv'
  <2>1. TypeOK'
    <3>1. pulled[s] + 1 \in 0..MaxBatches
      BY <1>0, <1>4, ItemTypes, BridgeAssumption DEF ScanYields
    <3> QED BY <1>0, <1>4, <3>1 DEF ScanYields, TypeOK, Item
  <2>2. WholeOf(s)'
    <3>1. /\ pump[s] = "scan" /\ source[s] = "open" /\ pulled[s] < MaxBatches
          /\ pump'[s] = "send" /\ inhand'[s] = pulled[s] + 1
          /\ pulled'[s] = pulled[s] + 1 /\ source' = source
          /\ got' = got /\ channel' = channel /\ rx' = rx
      BY <1>0, <1>4 DEF ScanYields, TypeOK
    <3>2. inhand'[s] \in Item
      BY <2>1 DEF TypeOK
    <3>3. got[s] \o channel[s] \o <<inhand'[s]>>
            = Append(got[s] \o channel[s] \o <<>>, inhand'[s])
      BY <1>0, <3>2, ItemTypes, TakeInHand
    <3>4. Yielded(s)' = Append(Yielded(s), inhand'[s])
      BY <1>0, <3>1, ItemTypes, BatchesAreItems DEF Yielded
    <3>5. InHand(s) = <<>> /\ InHand(s)' = <<inhand'[s]>>
      BY <3>1 DEF InHand
    <3> QED BY <1>0, <3>1, <3>3, <3>4, <3>5 DEF WholeOf
  <2>3. EndOf(s)'
    BY <1>0, <1>4 DEF ScanYields, TypeOK, EndOf
  <2>4. ASSUME NEW r \in Statements, r # s PROVE WholeOf(r)' /\ EndOf(r)'
    BY <1>0, <1>4, <2>4, OthersKeep DEF ScanYields, TypeOK
  <2> QED BY <2>1, <2>2, <2>3, <2>4 DEF BridgeInv, NothingLost
<1>5. ASSUME NEW s \in Statements, ScanFails(s) PROVE BridgeInv'
  <2>1. TypeOK'
    BY <1>0, <1>5, BridgeAssumption DEF ScanFails, TypeOK, Item, Error
  <2>2. WholeOf(s)'
    <3>1. /\ pump[s] = "scan" /\ source[s] \in {"unopened", "open"}
          /\ pump'[s] = "send" /\ inhand'[s] = Error /\ source'[s] = "failed"
          /\ pulled' = pulled /\ got' = got /\ channel' = channel /\ rx' = rx
      BY <1>0, <1>5 DEF ScanFails, TypeOK, EndOf
    <3>2. inhand'[s] \in Item
      BY <2>1 DEF TypeOK
    <3>3. got[s] \o channel[s] \o <<inhand'[s]>>
            = Append(got[s] \o channel[s] \o <<>>, inhand'[s])
      BY <1>0, <3>2, ItemTypes, TakeInHand
    <3>4. Yielded(s)' = Append(Yielded(s), inhand'[s])
      BY <3>1 DEF Yielded
    <3>5. InHand(s) = <<>> /\ InHand(s)' = <<inhand'[s]>>
      BY <3>1 DEF InHand
    <3> QED BY <1>0, <3>1, <3>3, <3>4, <3>5 DEF WholeOf
  <2>3. EndOf(s)'
    BY <1>0, <1>5 DEF ScanFails, TypeOK, EndOf
  <2>4. ASSUME NEW r \in Statements, r # s PROVE WholeOf(r)' /\ EndOf(r)'
    BY <1>0, <1>5, <2>4, OthersKeep DEF ScanFails, TypeOK
  <2> QED BY <2>1, <2>2, <2>3, <2>4 DEF BridgeInv, NothingLost
<1>6. ASSUME NEW s \in Statements, ScanEnds(s) PROVE BridgeInv'
  <2>1. TypeOK'
    BY <1>0, <1>6, BridgeAssumption DEF ScanEnds, TypeOK, Item, Error
  <2>2. WholeOf(s)'
    BY <1>0, <1>6 DEF ScanEnds, TypeOK, WholeOf, EndOf, InHand, Yielded
  <2>3. EndOf(s)'
    BY <1>0, <1>6 DEF ScanEnds, TypeOK, EndOf
  <2>4. ASSUME NEW r \in Statements, r # s PROVE WholeOf(r)' /\ EndOf(r)'
    BY <1>0, <1>6, <2>4, OthersKeep DEF ScanEnds, TypeOK
  <2> QED BY <2>1, <2>2, <2>3, <2>4 DEF BridgeInv, NothingLost
<1>7. ASSUME NEW s \in Statements, PullAfterError(s) PROVE BridgeInv'
  <2>1. TypeOK'
    BY <1>0, <1>7, BridgeAssumption DEF PullAfterError, TypeOK, Item, Error
  <2>2. WholeOf(s)'
    BY <1>0, <1>7 DEF PullAfterError, TypeOK, WholeOf, EndOf, InHand, Yielded
  <2>3. EndOf(s)'
    BY <1>0, <1>7 DEF PullAfterError, TypeOK, EndOf
  <2>4. ASSUME NEW r \in Statements, r # s PROVE WholeOf(r)' /\ EndOf(r)'
    BY <1>0, <1>7, <2>4, OthersKeep DEF PullAfterError, TypeOK
  <2> QED BY <2>1, <2>2, <2>3, <2>4 DEF BridgeInv, NothingLost
<1>8. ASSUME NEW s \in Statements, PumpPanics(s) PROVE BridgeInv'
  <2>1. TypeOK'
    BY <1>0, <1>8, BridgeAssumption DEF PumpPanics, TypeOK, Item, Error
  <2>2. WholeOf(s)'
    BY <1>0, <1>8 DEF PumpPanics, TypeOK, WholeOf, EndOf, InHand, Yielded
  <2>3. EndOf(s)'
    BY <1>0, <1>8 DEF PumpPanics, TypeOK, EndOf
  <2>4. ASSUME NEW r \in Statements, r # s PROVE WholeOf(r)' /\ EndOf(r)'
    BY <1>0, <1>8, <2>4, OthersKeep DEF PumpPanics, TypeOK
  <2> QED BY <2>1, <2>2, <2>3, <2>4 DEF BridgeInv, NothingLost
<1>9. ASSUME NEW s \in Statements, Send(s) PROVE BridgeInv'
  <2>1. TypeOK'
    <3>1. Append(channel[s], inhand[s]) \in Seq(Item)
      BY <1>0, ItemTypes
    <3>2. Len(Append(channel[s], inhand[s])) <= Capacity
      BY <1>0, <1>9, ItemTypes, BridgeAssumption DEF Send
    <3>3. /\ channel' \in [Statements -> Seq(Item)]
          /\ channel'[s] = Append(channel[s], inhand[s])
          /\ \A r \in Statements \ {s} : channel'[r] = channel[r]
      BY <1>0, <1>9, <3>1 DEF Send, TypeOK
    <3> QED BY <1>0, <1>9, <3>2, <3>3 DEF Send, TypeOK
  <2>2. WholeOf(s)'
    <3>1. /\ pump[s] = "send" /\ pump'[s] = "pull" /\ inhand' = inhand
          /\ channel'[s] = Append(channel[s], inhand[s]) /\ got' = got /\ rx' = rx
          /\ source' = source /\ pulled' = pulled
      BY <1>0, <1>9 DEF Send, TypeOK
    <3>2. got[s] \o Append(channel[s], inhand[s]) \o <<>>
            = got[s] \o channel[s] \o <<inhand[s]>>
      <4> DEFINE a == got[s]  b == channel[s]  x == inhand[s]
      <4>1. a \in Seq(Item) /\ b \in Seq(Item) /\ x \in Item
        BY <1>0, ItemTypes
      <4> HIDE DEF a, b, x
      <4>2. a \o Append(b, x) \o <<>> = a \o b \o <<x>>
        BY <4>1, MoveInHand
      <4> QED BY <4>2 DEF a, b, x
    <3>3. InHand(s) = <<inhand[s]>> /\ InHand(s)' = <<>> /\ Yielded(s)' = Yielded(s)
      BY <3>1 DEF InHand, Yielded
    <3> QED BY <1>0, <3>1, <3>2, <3>3 DEF WholeOf
  <2>3. EndOf(s)'
    BY <1>0, <1>9 DEF Send, TypeOK, EndOf
  <2>4. ASSUME NEW r \in Statements, r # s PROVE WholeOf(r)' /\ EndOf(r)'
    BY <1>0, <1>9, <2>4, OthersKeep DEF Send, TypeOK
  <2> QED BY <2>1, <2>2, <2>3, <2>4 DEF BridgeInv, NothingLost
<1>10. ASSUME NEW s \in Statements, SendRefused(s) PROVE BridgeInv'
  <2>1. TypeOK'
    BY <1>0, <1>10, BridgeAssumption DEF SendRefused, TypeOK, Item, Error
  <2>2. WholeOf(s)'
    BY <1>0, <1>10 DEF SendRefused, TypeOK, WholeOf, EndOf, InHand, Yielded
  <2>3. EndOf(s)'
    BY <1>0, <1>10 DEF SendRefused, TypeOK, EndOf
  <2>4. ASSUME NEW r \in Statements, r # s PROVE WholeOf(r)' /\ EndOf(r)'
    BY <1>0, <1>10, <2>4, OthersKeep DEF SendRefused, TypeOK
  <2> QED BY <2>1, <2>2, <2>3, <2>4 DEF BridgeInv, NothingLost
<1>11. ASSUME NEW s \in Statements, SinkStart(s) PROVE BridgeInv'
  <2>1. TypeOK'
    BY <1>0, <1>11, BridgeAssumption DEF SinkStart, TypeOK, Item, Error
  <2>2. WholeOf(s)'
    BY <1>0, <1>11 DEF SinkStart, TypeOK, WholeOf, EndOf, InHand, Yielded
  <2>3. EndOf(s)'
    BY <1>0, <1>11 DEF SinkStart, TypeOK, EndOf
  <2>4. ASSUME NEW r \in Statements, r # s PROVE WholeOf(r)' /\ EndOf(r)'
    BY <1>0, <1>11, <2>4, OthersKeep DEF SinkStart, TypeOK
  <2> QED BY <2>1, <2>2, <2>3, <2>4 DEF BridgeInv, NothingLost
<1>12. ASSUME NEW s \in Statements, Receive(s) PROVE BridgeInv'
  <2>1. TypeOK'
    <3>1. /\ Append(got[s], Head(channel[s])) \in Seq(Item)
          /\ Tail(channel[s]) \in Seq(Item)
          /\ Len(Tail(channel[s])) = Len(channel[s]) - 1
      BY <1>0, <1>12, ItemTypes DEF Receive
    <3>2. /\ channel' \in [Statements -> Seq(Item)] /\ got' \in [Statements -> Seq(Item)]
          /\ channel'[s] = Tail(channel[s])
          /\ \A r \in Statements \ {s} : channel'[r] = channel[r]
      BY <1>0, <1>12, <3>1 DEF Receive, TypeOK
    <3>3. Len(Tail(channel[s])) <= Capacity
      <4>1. Len(channel[s]) \in Nat /\ Len(channel[s]) <= Capacity
        BY <1>0 DEF TypeOK
      <4> QED BY <3>1, <4>1, BridgeAssumption
    <3> QED BY <1>0, <1>12, <3>2, <3>3 DEF Receive, TypeOK
  <2>2. WholeOf(s)'
    <3>1. /\ channel[s] # <<>>
          /\ got'[s] = Append(got[s], Head(channel[s]))
          /\ channel'[s] = Tail(channel[s]) /\ pump' = pump /\ inhand' = inhand
          /\ rx' = rx /\ source' = source /\ pulled' = pulled
      BY <1>0, <1>12 DEF Receive, TypeOK
    <3>2. InHand(s) \in Seq(Item)
      BY <1>0, ItemTypes DEF InHand
    <3>3. Append(got[s], Head(channel[s])) \o Tail(channel[s]) \o InHand(s)
            = got[s] \o channel[s] \o InHand(s)
      <4> DEFINE a == got[s]  b == channel[s]  c == InHand(s)
      <4>1. a \in Seq(Item) /\ b \in Seq(Item) /\ b # <<>> /\ c \in Seq(Item)
        BY <1>0, <3>1, <3>2, ItemTypes
      <4> HIDE DEF a, b, c
      <4>2. Append(a, Head(b)) \o Tail(b) \o c = a \o b \o c
        BY <4>1, MoveHead
      <4> QED BY <4>2 DEF a, b, c
    <3>4. InHand(s)' = InHand(s) /\ Yielded(s)' = Yielded(s)
      BY <3>1 DEF InHand, Yielded
    <3> QED BY <1>0, <3>1, <3>3, <3>4 DEF WholeOf
  <2>3. EndOf(s)'
    BY <1>0, <1>12 DEF Receive, MayReceive, TypeOK, EndOf
  <2>4. ASSUME NEW r \in Statements, r # s PROVE WholeOf(r)' /\ EndOf(r)'
    BY <1>0, <1>12, <2>4, OthersKeep DEF Receive, TypeOK
  <2> QED BY <2>1, <2>2, <2>3, <2>4 DEF BridgeInv, NothingLost
<1>13. ASSUME NEW s \in Statements, ReceiveEnd(s) PROVE BridgeInv'
  <2>1. TypeOK'
    BY <1>0, <1>13, BridgeAssumption DEF ReceiveEnd, MayReceive, TypeOK, Item, Error
  <2>2. WholeOf(s)'
    BY <1>0, <1>13 DEF ReceiveEnd, MayReceive, TypeOK, WholeOf, EndOf, InHand, Yielded
  <2>3. EndOf(s)'
    <3>1. /\ sink[s] = "running" /\ ~SawError(s) /\ channel[s] = <<>>
          /\ pump[s] \in {"done", "panicked"} /\ eos'[s] = TRUE
          /\ UNCHANGED <<source, pulled, pump, rx, sink, got, outcome>>
      BY <1>0, <1>13 DEF ReceiveEnd, MayReceive, TypeOK
    <3>2. rx[s]
      BY <1>0, <3>1 DEF EndOf, TypeOK
    <3>3. got[s] = Yielded(s)
      <4>1. got[s] \o <<>> \o <<>> = got[s]
        BY <1>0, ItemTypes
      <4> QED BY <1>0, <3>1, <3>2, <4>1 DEF WholeOf, InHand
    <3>4. source[s] # "failed"
      <4> SUFFICES ASSUME source[s] = "failed" PROVE FALSE
        OBVIOUS
      <4> DEFINE batches == [i \in 1..pulled[s] |-> i]
      <4>1. batches \in Seq(Item)
        BY <1>0, ItemTypes, BatchesAreItems
      <4>2. got[s] = Append(batches, Error)
        BY <3>3 DEF Yielded
      <4> HIDE DEF batches
      <4>3. /\ Len(batches) + 1 \in DOMAIN Append(batches, Error)
            /\ Append(batches, Error)[Len(batches) + 1] = Error
        BY <4>1
      <4> QED BY <3>1, <4>2, <4>3 DEF SawError
    <3>5. pump[s] = "done" => source[s] = "ended"
      BY <1>0, <3>1, <3>2, <3>4 DEF EndOf
    <3>6. pump[s] = "done" => got[s] = [i \in 1..pulled[s] |-> i]
      BY <3>3, <3>5 DEF Yielded
    <3> QED BY <1>0, <3>1, <3>5, <3>6 DEF EndOf
  <2>4. ASSUME NEW r \in Statements, r # s PROVE WholeOf(r)' /\ EndOf(r)'
    BY <1>0, <1>13, <2>4, OthersKeep DEF ReceiveEnd, TypeOK
  <2> QED BY <2>1, <2>2, <2>3, <2>4 DEF BridgeInv, NothingLost
<1>14. ASSUME NEW s \in Statements, SinkReturns(s) PROVE BridgeInv'
  <2>1. TypeOK'
    BY <1>0, <1>14, BridgeAssumption DEF SinkReturns, TypeOK, Item, Error
  <2>2. WholeOf(s)'
    BY <1>0, <1>14 DEF SinkReturns, TypeOK, WholeOf, EndOf, InHand, Yielded
  <2>3. EndOf(s)'
    BY <1>0, <1>14 DEF SinkReturns, TypeOK, EndOf
  <2>4. ASSUME NEW r \in Statements, r # s PROVE WholeOf(r)' /\ EndOf(r)'
    BY <1>0, <1>14, <2>4, OthersKeep DEF SinkReturns, TypeOK
  <2> QED BY <2>1, <2>2, <2>3, <2>4 DEF BridgeInv, NothingLost
<1>15. ASSUME NEW s \in Statements, WriteAllReturns(s) PROVE BridgeInv'
  <2>1. TypeOK'
    BY <1>0, <1>15, BridgeAssumption DEF WriteAllReturns, TypeOK, Item, Error
  <2>2. WholeOf(s)'
    BY <1>0, <1>15 DEF WriteAllReturns, TypeOK, WholeOf, EndOf, InHand, Yielded
  <2>3. EndOf(s)'
    BY <1>0, <1>15 DEF WriteAllReturns, TypeOK, EndOf
  <2>4. ASSUME NEW r \in Statements, r # s PROVE WholeOf(r)' /\ EndOf(r)'
    BY <1>0, <1>15, <2>4, OthersKeep DEF WriteAllReturns, TypeOK
  <2> QED BY <2>1, <2>2, <2>3, <2>4 DEF BridgeInv, NothingLost
<1>16. ASSUME UNCHANGED vars PROVE BridgeInv'
  <2>1. TypeOK'
    BY <1>0, <1>16 DEF vars, TypeOK
  <2>2. ASSUME NEW r \in Statements PROVE WholeOf(r)' /\ EndOf(r)'
    BY <1>0, <1>16, OthersKeep DEF vars
  <2> QED BY <2>1, <2>2 DEF BridgeInv, NothingLost
<1> QED
  BY <1>1, <1>2, <1>3, <1>4, <1>5, <1>6, <1>7, <1>8, <1>9, <1>10, <1>11, <1>12,
     <1>13, <1>14, <1>15, <1>16
  DEF Next, PumpStep, SinkStep

\* While Go reads, what it has received, what the channel holds and what the
\* pump is sending are exactly what the input yielded, in order, and the
\* channel stays within its capacity, for any number of statements, pool and
\* capacity (table.rs:241-295).
THEOREM BridgeInvariant == Spec => []BridgeInv
  BY BridgeInvInit, BridgeInvStep, PTL DEF Spec

\* An INSERT that Go drained and that is reported as a success has delivered
\* the whole input: neither an error nor a dead pump passes for the end of the
\* stream (table.rs:281-295).
THEOREM SuccessDeliversAll == Spec => []SuccessIsComplete
<1>1. BridgeInv => SuccessIsComplete
  BY DEF BridgeInv, EndOf, SuccessIsComplete
<1> QED BY <1>1, BridgeInvariant, PTL
-----------------------------------------------------------------------------
(* How far the input is read ahead *)

\* A pump that may pull again has read at most a full channel ahead; once Go
\* has returned, its next item is refused and is its last.
AheadOf(s) ==
  /\ pulled[s] <= Len(got[s]) + Capacity + 1
  /\ pump[s] \in {"unstarted", "pull", "scan"} =>
       pulled[s] <= Len(got[s]) + Capacity

\* While Go reads, what it has not got yet is in the channel.
RestInChannel ==
  \A s \in Statements : rx[s] /\ pump[s] # "send" =>
    pulled[s] <= Len(got[s]) + Capacity

LEMMA ChannelHoldsRest == BridgeInv => RestInChannel
<1> SUFFICES ASSUME BridgeInv, NEW s \in Statements, rx[s], pump[s] # "send"
             PROVE  pulled[s] <= Len(got[s]) + Capacity
  BY DEF RestInChannel
<1> DEFINE batches == [i \in 1..pulled[s] |-> i]
<1>1. /\ got[s] \in Seq(Item) /\ channel[s] \in Seq(Item)
      /\ pulled[s] \in 0..MaxBatches
      /\ Len(channel[s]) <= Capacity
  BY ItemTypes DEF BridgeInv, TypeOK
<1>2. /\ pulled[s] \in Nat /\ Capacity \in Nat
      /\ Len(got[s]) \in Nat /\ Len(channel[s]) \in Nat
  BY <1>1, BridgeAssumption
<1>3. got[s] \o channel[s] = Yielded(s)
  <2>1. got[s] \o channel[s] \o <<>> = Yielded(s)
    BY DEF BridgeInv, NothingLost, WholeOf, InHand
  <2>2. got[s] \o channel[s] \o <<>> = got[s] \o channel[s]
    BY <1>1
  <2> QED BY <2>1, <2>2
<1>4. batches \in Seq(Item) /\ Len(batches) = pulled[s]
  <2>1. \A n \in Nat : Len([i \in 1..n |-> i]) = n
    OBVIOUS
  <2> QED BY <1>1, <1>2, <2>1, BatchesAreItems
<1>5. Yielded(s) = batches \/ Yielded(s) = Append(batches, Error)
  BY DEF Yielded
<1> HIDE DEF batches
<1>6. Len(Append(batches, Error)) = pulled[s] + 1
  BY <1>4, BridgeAssumption DEF Item, Error
<1>7. Len(got[s] \o channel[s]) = Len(got[s]) + Len(channel[s])
  BY <1>1
<1>8. \/ Len(got[s]) + Len(channel[s]) = pulled[s]
      \/ Len(got[s]) + Len(channel[s]) = pulled[s] + 1
  BY <1>3, <1>4, <1>5, <1>6, <1>7
<1>9. Len(channel[s]) <= Capacity
  BY <1>1
<1> DEFINE p == pulled[s]  g == Len(got[s])  k == Len(channel[s])
<1>10. /\ p \in Nat /\ g \in Nat /\ k \in Nat /\ Capacity \in Nat
       /\ g + k = p \/ g + k = p + 1
       /\ k <= Capacity
  BY <1>2, <1>8, <1>9
<1> HIDE DEF p, g, k
<1>11. p <= g + Capacity
  BY <1>10
<1> QED BY <1>11 DEF p, g

\* The same of the next state.
LEMMA ChannelHoldsRestNext == BridgeInv' => RestInChannel'
  BY ChannelHoldsRest, PTL

\* The channel's capacity bounds how far an INSERT reads its input ahead of Go,
\* also when Go returns without draining it (table.rs:180-184, 253-259).
THEOREM ReadAheadIsBounded == Spec => []ReadAheadBounded
<1> DEFINE AheadInv == \A s \in Statements : AheadOf(s)
<1>1. Init => AheadInv
  BY BridgeAssumption DEF Init, AheadOf
<1>2. ASSUME BridgeInv, BridgeInv', AheadInv, [Next]_vars
      PROVE  AheadInv'
  <2> SUFFICES ASSUME NEW r \in Statements PROVE AheadOf(r)'
    OBVIOUS
  <2>0. /\ TypeOK /\ TypeOK'
        /\ pulled[r] \in Nat /\ Capacity \in Nat
        /\ Len(got[r]) \in Nat /\ Len(got'[r]) \in Nat
    BY <1>2, BridgeAssumption DEF BridgeInv, TypeOK
  <2>1. CASE ScanYields(r)
    <3>1. /\ pump[r] = "scan" /\ pump'[r] = "send"
          /\ pulled'[r] = pulled[r] + 1 /\ got' = got
      BY <2>0, <2>1 DEF ScanYields, TypeOK
    <3>2. pulled[r] <= Len(got[r]) + Capacity
      BY <1>2, <3>1 DEF AheadOf
    <3> QED BY <2>0, <3>1, <3>2 DEF AheadOf
  <2>2. CASE Send(r)
    <3>1. rx'[r] /\ pump'[r] = "pull" /\ got'[r] = got[r] /\ pulled'[r] = pulled[r]
      BY <2>0, <2>2 DEF Send, TypeOK
    <3>2. pulled'[r] <= Len(got'[r]) + Capacity
      BY <1>2, <3>1, ChannelHoldsRestNext DEF RestInChannel
    <3> QED BY <2>0, <3>1, <3>2 DEF AheadOf
  <2>3. CASE ~ScanYields(r) /\ ~Send(r)
    <3> DEFINE NoFurther ==
                 /\ pulled'[r] = pulled[r]
                 /\ Len(got'[r]) >= Len(got[r])
                 /\ pump'[r] \in {"unstarted", "pull", "scan"} =>
                      pump[r] \in {"unstarted", "pull", "scan"}
    <3>1. NoFurther
      <4>1. ASSUME NEW s \in Statements,
                   WriteAll(s) \/ PullStart(s) \/ SinkStart(s) \/ WriteAllReturns(s)
            PROVE  NoFurther
        BY <1>2, <2>0, <4>1
        DEF WriteAll, PullStart, SinkStart, WriteAllReturns, TypeOK, BridgeInv, EndOf
      <4>2. ASSUME NEW s \in Statements, PumpStep(s)
            PROVE  NoFurther
        BY <2>0, <2>3, <4>2
        DEF PumpStep, ScanOpens, ScanYields, ScanFails, ScanEnds, PullAfterError,
            PumpPanics, Send, SendRefused, TypeOK
      <4>3. ASSUME NEW s \in Statements, Receive(s)
            PROVE  NoFurther
        <5>1. /\ got'[r] = got[r] \/ got'[r] = Append(got[r], Head(channel[r]))
              /\ channel[s] # <<>> /\ (got'[r] # got[r] => r = s)
              /\ UNCHANGED <<pulled, pump>>
          BY <2>0, <4>3 DEF Receive, TypeOK
        <5>2. got[r] \in Seq(Item) /\ channel[r] \in Seq(Item)
          BY <2>0, ItemTypes
        <5>3. CASE got'[r] # got[r]
          <6>1. Head(channel[r]) \in Item
            BY <5>1, <5>2, <5>3
          <6>2. Len(got'[r]) = Len(got[r]) + 1
            BY <5>1, <5>2, <5>3, <6>1
          <6> QED BY <2>0, <5>1, <6>2
        <5>4. CASE got'[r] = got[r]
          BY <2>0, <5>1, <5>4
        <5> QED BY <5>3, <5>4
      <4>4. ASSUME NEW s \in Statements, ReceiveEnd(s) \/ SinkReturns(s)
            PROVE  NoFurther
        BY <2>0, <4>4 DEF ReceiveEnd, SinkReturns
      <4>5. ASSUME UNCHANGED vars PROVE NoFurther
        BY <2>0, <4>5 DEF vars
      <4> QED BY <1>2, <4>1, <4>2, <4>3, <4>4, <4>5 DEF Next, SinkStep
    <3> QED BY <1>2, <2>0, <3>1 DEF AheadOf
  <2> QED BY <2>1, <2>2, <2>3
<1>3. AheadInv => ReadAheadBounded
  BY DEF AheadOf, ReadAheadBounded
<1> QED BY <1>1, <1>2, <1>3, BridgeInvariant, PTL DEF Spec
-----------------------------------------------------------------------------
(* The providers *)

\* What ParquetInsertProofs proves, of the Parquet layer.
LEMMA ParquetLayer ==
  /\ Parquet!InsertAssumption /\ Parquet!Init =>
       Parquet!ParquetInv /\ Parquet!SuccessIsComplete
  /\ Parquet!InsertAssumption /\ Parquet!ParquetInv /\ [Parquet!Next]_(Parquet!vars) =>
       Parquet!ParquetInv'
  /\ Parquet!ParquetInv /\ Parquet!SuccessIsComplete /\ [Parquet!Next]_(Parquet!vars) =>
       Parquet!SuccessIsComplete'
<1>1. Parquet!Init => Parquet!SuccessIsComplete
  BY DEF Parquet!Init, Parquet!SuccessIsComplete
<1> USE DEF Parquet!InsertAssumption, ParquetProofs!InsertAssumption, Parquet!Batch,
        ParquetProofs!Batch, Parquet!Ops, ParquetProofs!Ops, Parquet!insertVars,
        ParquetProofs!insertVars, Parquet!inputVars, ParquetProofs!inputVars,
        Parquet!vars, ParquetProofs!vars, Parquet!Init, ParquetProofs!Init,
        Parquet!OpenInput, ParquetProofs!OpenInput, Parquet!Delivers,
        ParquetProofs!Delivers, Parquet!Ends, ParquetProofs!Ends, Parquet!Goto,
        ParquetProofs!Goto, Parquet!Return, ParquetProofs!Return, Parquet!Start,
        ParquetProofs!Start, Parquet!Lock, ParquetProofs!Lock, Parquet!First,
        ParquetProofs!First, Parquet!CreateWriter, ParquetProofs!CreateWriter,
        Parquet!OpenExisting, ParquetProofs!OpenExisting, Parquet!CopyExisting,
        ParquetProofs!CopyExisting, Parquet!WriteBatch, ParquetProofs!WriteBatch,
        Parquet!NextBatch, ParquetProofs!NextBatch, Parquet!Finalize,
        ParquetProofs!Finalize, Parquet!Fails, ParquetProofs!Fails,
        Parquet!Commit, ParquetProofs!Commit, Parquet!CommitFails,
        ParquetProofs!CommitFails, Parquet!Abort, ParquetProofs!Abort,
        Parquet!Step, ParquetProofs!Step, Parquet!Finished,
        ParquetProofs!Finished, Parquet!Next, ParquetProofs!Next, Parquet!TypeOK,
        ParquetProofs!TypeOK, Parquet!Critical, ParquetProofs!Critical,
        Parquet!MutexInv, ParquetProofs!MutexInv, Parquet!RewriteOf,
        ParquetProofs!RewriteOf, Parquet!RewriteInv, ParquetProofs!RewriteInv,
        Parquet!ParquetInv, ParquetProofs!ParquetInv, Parquet!AsIfAlone,
        ParquetProofs!AsIfAlone, Parquet!SuccessIsComplete,
        ParquetProofs!SuccessIsComplete
<1>2. Parquet!InsertAssumption /\ Parquet!Init => Parquet!ParquetInv
  BY ParquetProofs!ParquetInvInit
<1>3. Parquet!InsertAssumption /\ Parquet!ParquetInv /\ [Parquet!Next]_(Parquet!vars) =>
        Parquet!ParquetInv'
  BY ParquetProofs!ParquetInvStep
<1>4. Parquet!ParquetInv /\ Parquet!SuccessIsComplete /\ [Parquet!Next]_(Parquet!vars) =>
        Parquet!SuccessIsComplete'
  BY ParquetProofs!SuccessStep
<1> QED BY <1>1, <1>2, <1>3, <1>4

\* What IcebergInsertProofs proves, of the Iceberg layer.
LEMMA IcebergLayer ==
  /\ Iceberg!InsertAssumption /\ Iceberg!Init => Iceberg!IcebergInv
  /\ Iceberg!InsertAssumption /\ Iceberg!IcebergInv /\ [Iceberg!Next]_(Iceberg!vars) =>
       Iceberg!IcebergInv'
  /\ Iceberg!IcebergInv =>
       /\ Iceberg!AsIfAlone /\ Iceberg!RefsExact
       /\ Iceberg!SuccessIsComplete /\ Iceberg!NoSelfConflict
  BY IcebergProofs!IcebergInvInit, IcebergProofs!IcebergInvStep, IcebergProofs!IcebergInvSays
  DEF Iceberg!InsertAssumption, IcebergProofs!InsertAssumption, Iceberg!Ops,
      IcebergProofs!Ops, Iceberg!None, IcebergProofs!None, Iceberg!vars,
      IcebergProofs!vars, Iceberg!Idle, IcebergProofs!Idle, Iceberg!Init,
      IcebergProofs!Init, Iceberg!Retain, IcebergProofs!Retain, Iceberg!Unref,
      IcebergProofs!Unref, Iceberg!InnerNext, IcebergProofs!InnerNext,
      Iceberg!InnerRelease, IcebergProofs!InnerRelease, Iceberg!View,
      IcebergProofs!View, Iceberg!WrappedNext, IcebergProofs!WrappedNext,
      Iceberg!Err, IcebergProofs!Err, Iceberg!WrappedRelease,
      IcebergProofs!WrappedRelease, Iceberg!At, IcebergProofs!At,
      Iceberg!Become, IcebergProofs!Become, Iceberg!Goto, IcebergProofs!Goto,
      Iceberg!Finish, IcebergProofs!Finish, Iceberg!Return,
      IcebergProofs!Return, Iceberg!Start, IcebergProofs!Start,
      Iceberg!OpenInput, IcebergProofs!OpenInput, Iceberg!Lock,
      IcebergProofs!Lock, Iceberg!FirstNext, IcebergProofs!FirstNext,
      Iceberg!Load, IcebergProofs!Load, Iceberg!LoadFails,
      IcebergProofs!LoadFails, Iceberg!Write, IcebergProofs!Write,
      Iceberg!WriteFails, IcebergProofs!WriteFails, Iceberg!Onto,
      IcebergProofs!Onto, Iceberg!Commit, IcebergProofs!Commit,
      Iceberg!Conflict, IcebergProofs!Conflict, Iceberg!CommitFails,
      IcebergProofs!CommitFails, Iceberg!Returns, IcebergProofs!Returns,
      Iceberg!Step, IcebergProofs!Step, Iceberg!Finished,
      IcebergProofs!Finished, Iceberg!Next, IcebergProofs!Next, Iceberg!Batch,
      IcebergProofs!Batch, Iceberg!Call, IcebergProofs!Call, Iceberg!TypeOK,
      IcebergProofs!TypeOK, Iceberg!Holds, IcebergProofs!Holds, Iceberg!RefsOf,
      IcebergProofs!RefsOf, Iceberg!BatchesOf, IcebergProofs!BatchesOf,
      Iceberg!EndOf, IcebergProofs!EndOf, Iceberg!CallInv,
      IcebergProofs!CallInv, Iceberg!Critical, IcebergProofs!Critical,
      Iceberg!MutexInv, IcebergProofs!MutexInv, Iceberg!Rival,
      IcebergProofs!Rival, Iceberg!HandleInv, IcebergProofs!HandleInv,
      Iceberg!IcebergInv, IcebergProofs!IcebergInv, Iceberg!RefsExact,
      IcebergProofs!RefsExact, Iceberg!AsIfAlone, IcebergProofs!AsIfAlone,
      Iceberg!SuccessIsComplete, IcebergProofs!SuccessIsComplete,
      Iceberg!NoSelfConflict, IcebergProofs!NoSelfConflict

\* A step of one layer leaves the others as they are.
LEMMA OneLayerSteps ==
  [InsertsNext]_layerVars =>
    [Parquet!Next]_(Parquet!vars) /\ [Iceberg!Next]_(Iceberg!vars)
  BY DEF InsertsNext, InBridge, InParquet, InIceberg, layerVars, parquetVars, icebergVars,
         Parquet!vars, Parquet!insertVars, Parquet!inputVars, Iceberg!vars

\* The inductive invariants of both providers hold for any number of
\* statements, instances and batches (providers/parquet/insert.go:43-59,
\* 87-145, providers/iceberg/insert.go:44-95, 150-192).
THEOREM ProvidersInvariant == InsertsSpec => []ProvidersInv
<1>1. InsertsInit => ProvidersInv
  BY InsertsAssumption, ParquetLayer, IcebergLayer DEF InsertsInit, ProvidersInv
<1>2. ProvidersInv /\ [InsertsNext]_layerVars => ProvidersInv'
  BY InsertsAssumption, ParquetLayer, IcebergLayer, OneLayerSteps DEF ProvidersInv
<1> QED BY <1>1, <1>2, PTL DEF InsertsSpec

\* No insert's rows are lost to another's rewrite or commit, also if the commit
\* was tried again, and one that fails leaves no trace: at every moment a table
\* is what its committed inserts make one by one
\* (providers/parquet/insert.go:43-145, providers/iceberg/insert.go:33-95).
THEOREM InsertsAsIfAlone == InsertsSpec => []AsIfAlone
<1>1. ProvidersInv => AsIfAlone
  BY IcebergLayer DEF ProvidersInv, AsIfAlone, Parquet!ParquetInv, Parquet!AsIfAlone
<1> QED BY <1>1, ProvidersInvariant, PTL

\* A reported success has consumed the whole input and reports just that many
\* rows, whatever the other inserts, the store and the catalog do
\* (providers/parquet/insert.go:127-144, providers/iceberg/insert.go:40-43,
\* 166-192).
THEOREM CountsAreComplete == InsertsSpec => []CountIsComplete
<1>1. InsertsInit => Parquet!SuccessIsComplete
  BY InsertsAssumption, ParquetLayer DEF InsertsInit
<1>2. ProvidersInv /\ Parquet!SuccessIsComplete /\ [InsertsNext]_layerVars =>
        Parquet!SuccessIsComplete'
  BY ParquetLayer, OneLayerSteps DEF ProvidersInv
<1>3. ProvidersInv /\ Parquet!SuccessIsComplete => CountIsComplete
  BY IcebergLayer DEF ProvidersInv, CountIsComplete
<1> QED BY <1>1, <1>2, <1>3, ProvidersInvariant, PTL DEF InsertsSpec

\* Every batch of an Iceberg insert has as many references as holders, on every
\* path, and none when the insert returns (providers/iceberg/insert.go:45-76,
\* 150-188).
THEOREM ReferencesAreExact == InsertsSpec => []RefsExact
<1>1. ProvidersInv => RefsExact
  BY IcebergLayer DEF ProvidersInv, RefsExact
<1> QED BY <1>1, ProvidersInvariant, PTL

\* Iceberg's commit-retry budget is never spent on a conflict between inserts
\* through the same instance (providers/iceberg/insert.go:25-28).
THEOREM ConflictsAreWithRivals == InsertsSpec => []NoSelfConflict
<1>1. ProvidersInv => NoSelfConflict
  BY IcebergLayer DEF ProvidersInv, NoSelfConflict
<1> QED BY <1>1, ProvidersInvariant, PTL
=============================================================================
