---------------------------- MODULE InsertBridge ----------------------------
(***************************************************************************)
(* INSERT ... SELECT into a Go table (table.rs, GoDataSink::write_all): a  *)
(* pump task pulls the statement's input stream and sends each item into a *)
(* bounded channel; go_table_insert runs on the runtime's blocking pool    *)
(* and pulls the channel through ChannelReader; write_all joins both.      *)
(*                                                                         *)
(* Each statement's input is a scan of a Go table (table.rs,               *)
(* GoTableExec::execute), so opening it and every pull from it run on the  *)
(* blocking pool too, while the insert occupies its pool thread from start *)
(* to end.                                                                 *)
(***************************************************************************)
EXTENDS Naturals, Sequences, FiniteSets

CONSTANTS
  Statements,   \* INSERT statements running concurrently
  PoolSize,     \* threads of the runtime's blocking pool
  Capacity,     \* INSERT_CHANNEL_CAPACITY
  MaxBatches    \* bound on the batches an input stream yields

ASSUME BridgeAssumption ==
  /\ PoolSize \in Nat \ {0}
  /\ Capacity \in Nat \ {0}
  /\ MaxBatches \in Nat

\* An item of the stream: the i-th batch, or the stream's error.
Error == 0
Item == 0..MaxBatches

VARIABLES
  source,       \* the input stream: "unopened", "open", "ended" or "failed"
  pulled,       \* number of batches it has yielded
  pump,         \* the pump task
  inhand,       \* the item the pump is sending
  channel,      \* the bridge channel
  rx,           \* is the channel's receiver alive?
  sink,         \* the go_table_insert call
  got,          \* the items Go has received
  eos,          \* has Go seen the end of the stream?
  outcome       \* what write_all returned: "none" so far, "ok" or "err"

vars == <<source, pulled, pump, inhand, channel, rx, sink, got, eos, outcome>>

\* The channel never holds more than its capacity, which is what bounds an
\* INSERT's memory (table.rs:180-184).
TypeOK ==
  /\ source \in [Statements -> {"unopened", "open", "ended", "failed"}]
  /\ pulled \in [Statements -> 0..MaxBatches]
  /\ pump \in [Statements -> {"unstarted", "pull", "scan", "send", "done", "panicked"}]
  /\ inhand \in [Statements -> Item]
  /\ channel \in [Statements -> Seq(Item)]
  /\ \A s \in Statements : Len(channel[s]) <= Capacity
  /\ rx \in [Statements -> BOOLEAN]
  /\ sink \in [Statements -> {"unstarted", "queued", "running", "ok", "err"}]
  /\ got \in [Statements -> Seq(Item)]
  /\ eos \in [Statements -> BOOLEAN]
  /\ outcome \in [Statements -> {"none", "ok", "err"}]

Init ==
  /\ source = [s \in Statements |-> "unopened"]
  /\ pulled = [s \in Statements |-> 0]
  /\ pump = [s \in Statements |-> "unstarted"]
  /\ inhand = [s \in Statements |-> Error]
  /\ channel = [s \in Statements |-> <<>>]
  /\ rx = [s \in Statements |-> TRUE]
  /\ sink = [s \in Statements |-> "unstarted"]
  /\ got = [s \in Statements |-> <<>>]
  /\ eos = [s \in Statements |-> FALSE]
  /\ outcome = [s \in Statements |-> "none"]

\* write_all makes the channel, spawns the pump and queues the insert.
WriteAll(s) ==
  /\ sink[s] = "unstarted"
  /\ pump' = [pump EXCEPT ![s] = "pull"]
  /\ sink' = [sink EXCEPT ![s] = "queued"]
  /\ UNCHANGED <<source, pulled, inhand, channel, rx, got, eos, outcome>>

\* spawn_go_blocking: a task occupies one thread of the pool until it returns.
BusyThreads ==
  Cardinality({s \in Statements : pump[s] = "scan"})
    + Cardinality({s \in Statements : sink[s] = "running"})
FreeThread == BusyThreads < PoolSize
-----------------------------------------------------------------------------
(* The pump and the input scan *)

\* data.next().await on a live scan: the pull waits for a pool thread.
PullStart(s) ==
  /\ pump[s] = "pull"
  /\ source[s] \in {"unopened", "open"}
  /\ FreeThread
  /\ pump' = [pump EXCEPT ![s] = "scan"]
  /\ UNCHANGED <<source, pulled, inhand, channel, rx, sink, got, eos, outcome>>

\* open_go_scan succeeded; the first pull is a second task for the pool.
ScanOpens(s) ==
  /\ pump[s] = "scan"
  /\ source[s] = "unopened"
  /\ source' = [source EXCEPT ![s] = "open"]
  /\ pump' = [pump EXCEPT ![s] = "pull"]
  /\ UNCHANGED <<pulled, inhand, channel, rx, sink, got, eos, outcome>>

\* The scan yields a batch.
ScanYields(s) ==
  /\ pump[s] = "scan"
  /\ source[s] = "open"
  /\ pulled[s] < MaxBatches
  /\ pulled' = [pulled EXCEPT ![s] = @ + 1]
  /\ inhand' = [inhand EXCEPT ![s] = pulled[s] + 1]
  /\ pump' = [pump EXCEPT ![s] = "send"]
  /\ UNCHANGED <<source, channel, rx, sink, got, eos, outcome>>

\* Opening or pulling fails: try_unfold yields the error and is over.
ScanFails(s) ==
  /\ pump[s] = "scan"
  /\ source' = [source EXCEPT ![s] = "failed"]
  /\ inhand' = [inhand EXCEPT ![s] = Error]
  /\ pump' = [pump EXCEPT ![s] = "send"]
  /\ UNCHANGED <<pulled, channel, rx, sink, got, eos, outcome>>

\* The scan is exhausted: the pump's loop ends and drops its sender.
ScanEnds(s) ==
  /\ pump[s] = "scan"
  /\ source[s] = "open"
  /\ source' = [source EXCEPT ![s] = "ended"]
  /\ pump' = [pump EXCEPT ![s] = "done"]
  /\ UNCHANGED <<pulled, inhand, channel, rx, sink, got, eos, outcome>>

\* After its error the stream yields nothing more.
PullAfterError(s) ==
  /\ pump[s] = "pull"
  /\ source[s] = "failed"
  /\ pump' = [pump EXCEPT ![s] = "done"]
  /\ UNCHANGED <<source, pulled, inhand, channel, rx, sink, got, eos, outcome>>

\* The input plan panics while it is polled: the task dies, its sender drops.
PumpPanics(s) ==
  /\ pump[s] = "scan"
  /\ pump' = [pump EXCEPT ![s] = "panicked"]
  /\ UNCHANGED <<source, pulled, inhand, channel, rx, sink, got, eos, outcome>>

\* try_send: an item that finds the channel full is lost.
LossySend(s) ==
  /\ pump[s] = "send"
  /\ rx[s]
  /\ channel' = [channel EXCEPT ![s] = IF Len(@) < Capacity
                                       THEN Append(@, inhand[s]) ELSE @]
  /\ pump' = [pump EXCEPT ![s] = "pull"]
  /\ UNCHANGED <<source, pulled, inhand, rx, sink, got, eos, outcome>>

\* tx.send(item).await waits for room.
Send(s) ==
  /\ pump[s] = "send"
  /\ rx[s]
  /\ Len(channel[s]) < Capacity
  /\ channel' = [channel EXCEPT ![s] = Append(@, inhand[s])]
  /\ pump' = [pump EXCEPT ![s] = "pull"]
  /\ UNCHANGED <<source, pulled, inhand, rx, sink, got, eos, outcome>>

\* The pump does not heed that the receiver is gone.
DeafSendRefused(s) ==
  /\ pump[s] = "send"
  /\ ~rx[s]
  /\ pump' = [pump EXCEPT ![s] = "pull"]
  /\ UNCHANGED <<source, pulled, inhand, channel, rx, sink, got, eos, outcome>>

\* The receiver is gone: stop pulling.
SendRefused(s) ==
  /\ pump[s] = "send"
  /\ ~rx[s]
  /\ pump' = [pump EXCEPT ![s] = "done"]
  /\ UNCHANGED <<source, pulled, inhand, channel, rx, sink, got, eos, outcome>>
-----------------------------------------------------------------------------
(* go_table_insert *)

SinkStart(s) ==
  /\ sink[s] = "queued"
  /\ FreeThread
  /\ sink' = [sink EXCEPT ![s] = "running"]
  /\ UNCHANGED <<source, pulled, pump, inhand, channel, rx, got, eos, outcome>>

SawError(s) == \E i \in DOMAIN got[s] : got[s][i] = Error

MayReceive(s) == sink[s] = "running" /\ ~eos[s] /\ ~SawError(s)

\* ChannelReader::next: blocking_recv returns the next item.
Receive(s) ==
  /\ MayReceive(s)
  /\ channel[s] # <<>>
  /\ got' = [got EXCEPT ![s] = Append(@, Head(channel[s]))]
  /\ channel' = [channel EXCEPT ![s] = Tail(@)]
  /\ UNCHANGED <<source, pulled, pump, inhand, rx, sink, eos, outcome>>

\* The channel is empty and the sender dropped: end of stream.
ReceiveEnd(s) ==
  /\ MayReceive(s)
  /\ channel[s] = <<>>
  /\ pump[s] \in {"done", "panicked"}
  /\ eos' = [eos EXCEPT ![s] = TRUE]
  /\ UNCHANGED <<source, pulled, pump, inhand, channel, rx, sink, got, outcome>>

\* The insert returns and the stream keeps its receiver.
SinkKeepsStream(s) ==
  /\ sink[s] = "running"
  /\ \E r \in {"ok", "err"} :
       /\ SawError(s) => r = "err"
       /\ sink' = [sink EXCEPT ![s] = r]
  /\ UNCHANGED <<source, pulled, pump, inhand, channel, rx, got, eos, outcome>>

\* InsertInto returns, at the end of the stream, on its error or earlier, as
\* the implementation likes; one that has seen the stream's error reports it.
\* The deferred rows.Release() drops the receiver on every path.
SinkReturns(s) ==
  /\ sink[s] = "running"
  /\ \E r \in {"ok", "err"} :
       /\ SawError(s) => r = "err"
       /\ sink' = [sink EXCEPT ![s] = r]
  /\ rx' = [rx EXCEPT ![s] = FALSE]
  /\ channel' = [channel EXCEPT ![s] = <<>>]
  /\ UNCHANGED <<source, pulled, pump, inhand, got, eos, outcome>>
-----------------------------------------------------------------------------
(* write_all's end *)

\* A pump that panicked counts as one that finished.
TrustingReturn(s) ==
  /\ outcome[s] = "none"
  /\ sink[s] \in {"ok", "err"}
  /\ pump[s] \in {"done", "panicked"}
  /\ outcome' = [outcome EXCEPT ![s] = sink[s]]
  /\ UNCHANGED <<source, pulled, pump, inhand, channel, rx, sink, got, eos>>

\* match (result, pump.await)
WriteAllReturns(s) ==
  /\ outcome[s] = "none"
  /\ sink[s] \in {"ok", "err"}
  /\ pump[s] \in {"done", "panicked"}
  /\ outcome' = [outcome EXCEPT ![s] =
                   IF sink[s] = "ok" /\ pump[s] = "done" THEN "ok" ELSE "err"]
  /\ UNCHANGED <<source, pulled, pump, inhand, channel, rx, sink, got, eos>>
-----------------------------------------------------------------------------
PumpStep(s) ==
  \/ ScanOpens(s) \/ ScanYields(s) \/ ScanFails(s) \/ ScanEnds(s)
  \/ PullAfterError(s) \/ PumpPanics(s) \/ Send(s) \/ SendRefused(s)

SinkStep(s) == Receive(s) \/ ReceiveEnd(s) \/ SinkReturns(s)

\* What an insert cannot put off: it goes on reading, or it is through with
\* the stream and returns.  Returning early is its own choice.
SinkProgress(s) ==
  \/ Receive(s) \/ ReceiveEnd(s)
  \/ (eos[s] \/ SawError(s)) /\ SinkReturns(s)

Finished == \A s \in Statements : outcome[s] # "none"

Next ==
  \/ \E s \in Statements :
       WriteAll(s) \/ PullStart(s) \/ PumpStep(s) \/ SinkStart(s) \/ SinkStep(s)
         \/ WriteAllReturns(s)
  \/ Finished /\ UNCHANGED vars

Spec == Init /\ [][Next]_vars

\* Tasks that run make progress; the pool's queue is first come first served,
\* so a task that waits for a thread gets one if threads keep coming free.
Fairness ==
  \A s \in Statements :
    /\ SF_vars(PullStart(s)) /\ SF_vars(SinkStart(s))
    /\ WF_vars(PumpStep(s)) /\ WF_vars(SinkProgress(s))
    /\ WF_vars(WriteAllReturns(s))
-----------------------------------------------------------------------------
(* Properties *)

\* The batches of the stream, in order, as far as the scan has yielded them,
\* with the error at the end if there was one.
Yielded(s) ==
  LET batches == [i \in 1..pulled[s] |-> i]
  IN IF source[s] = "failed" THEN Append(batches, Error) ELSE batches

InHand(s) == IF pump[s] = "send" THEN <<inhand[s]>> ELSE <<>>

\* While Go reads, what it has received, what the channel holds and what the
\* pump is sending are together exactly what the input yielded, in order:
\* nothing is lost, repeated or reordered (table.rs:241-261).
WholeOf(s) == rx[s] => got[s] \o channel[s] \o InHand(s) = Yielded(s)

NothingLost == \A s \in Statements : WholeOf(s)

\* What the end of one side tells the other: the receiver lives until the
\* insert has returned; a pump that stopped by itself has seen the end of the
\* input or sent its error; and Go's end of stream is the input's end, unless
\* the pump died.
EndOf(s) ==
  /\ sink[s] = "unstarted" => pump[s] = "unstarted"
  /\ pump[s] = "scan" => source[s] \in {"unopened", "open"}
  /\ ~rx[s] => sink[s] \in {"ok", "err"}
  /\ pump[s] = "done" /\ rx[s] => source[s] \in {"ended", "failed"}
  /\ eos[s] => pump[s] \in {"done", "panicked"}
  /\ eos[s] /\ pump[s] = "done" =>
       source[s] = "ended" /\ got[s] = [i \in 1..pulled[s] |-> i]
  /\ outcome[s] = "ok" => pump[s] = "done"

\* The inductive invariant of the bridge (table.rs:241-295).
BridgeInv == TypeOK /\ NothingLost /\ \A s \in Statements : EndOf(s)

\* An INSERT that Go drained and that is reported as a success has delivered
\* the whole input: a pump that died must not pass for an end of stream
\* (table.rs:281-295).
SuccessIsComplete ==
  \A s \in Statements :
    outcome[s] = "ok" /\ eos[s] =>
      /\ source[s] = "ended"
      /\ got[s] = [i \in 1..pulled[s] |-> i]

\* The input is never read further ahead of Go than a full channel and one
\* batch in the pump's hand, also when Go has returned without draining it:
\* the pull under way ends and is the last one, however much input is left
\* (table.rs:180-184: "this bounds memory", 253-259).
ReadAheadBounded ==
  \A s \in Statements : pulled[s] <= Len(got[s]) + Capacity + 1
=============================================================================
