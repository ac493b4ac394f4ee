----------------------------- MODULE SeqReader -----------------------------
(***************************************************************************)
(* The reader over an Iceberg scan (providers/iceberg/reader.go): a        *)
(* goroutine pulls the record iterator and hands each batch over an        *)
(* unbuffered channel, or gives up when the reader is released.            *)
(*                                                                         *)
(* The iterator is external.  Next and Release are called one at a time;   *)
(* Retain lets several owners share the reader.                            *)
(***************************************************************************)
EXTENDS Naturals

CONSTANTS
  MaxBatches,  \* bound on the batches the iterator yields
  MaxRefs      \* bound on the reader's references

ASSUME SeqReaderAssumption == MaxBatches \in Nat /\ MaxRefs \in Nat \ {0}

Batch == 1..MaxBatches
None == 0

VARIABLES
  producer,  \* the goroutine: "pull", "send" or "exited" (the channel closed)
  rec, err,  \* the item it is sending: a batch or None, and is it an error?
  yielded,   \* batches the iterator has yielded
  reader,    \* "idle", "receive" (in Next), "drain" (in Release) or "released"
  cur,       \* the reader's current batch, or None
  failed,    \* r.err # nil
  refCount,
  cancel,    \* is the cancel channel closed?
  frees      \* how often each batch was released

vars == <<producer, rec, err, yielded, reader, cur, failed, refCount, cancel, frees>>

Init ==
  /\ producer = "pull"
  /\ rec = None /\ err = FALSE
  /\ yielded = 0
  /\ reader = "idle"
  /\ cur = None
  /\ failed = FALSE
  /\ refCount = 1
  /\ cancel = FALSE
  /\ frees = [b \in Batch |-> 0]

Free(S) == frees' = [b \in Batch |-> IF b \in S THEN frees[b] + 1 ELSE frees[b]]
-----------------------------------------------------------------------------
(* The producer *)

\* The iterator yields a batch, an error, or an error along with a batch.
Pull(b, e) ==
  /\ producer = "pull"
  /\ b # None => b = yielded + 1
  /\ b = None => e
  /\ yielded' = IF b = None THEN yielded ELSE b
  /\ rec' = b /\ err' = e
  /\ producer' = "send"
  /\ UNCHANGED <<reader, cur, failed, refCount, cancel, frees>>

PullEnds ==
  /\ producer = "pull"
  /\ producer' = "exited"
  /\ UNCHANGED <<rec, err, yielded, reader, cur, failed, refCount, cancel, frees>>

\* Whoever receives the item, an error is the last one sent.
Sent ==
  /\ producer = "send"
  /\ producer' = IF err THEN "exited" ELSE "pull"
  /\ rec' = None /\ err' = FALSE

\* <-cancel
Cancelled ==
  /\ producer = "send"
  /\ cancel
  /\ producer' = "exited"
  /\ Free({rec} \ {None})
  /\ rec' = None /\ err' = FALSE
  /\ UNCHANGED <<yielded, reader, cur, failed, refCount, cancel>>
-----------------------------------------------------------------------------
(* The reader *)

\* Next, up to the receive.
StartNext ==
  /\ reader = "idle"
  /\ Free({cur} \ {None})
  /\ cur' = None
  /\ reader' = IF failed THEN "idle" ELSE "receive"
  /\ UNCHANGED <<producer, rec, err, yielded, failed, refCount, cancel>>

\* An error item is kept, and its batch not released.
LeakyReceive ==
  /\ reader = "receive"
  /\ Sent
  /\ cur' = IF err THEN None ELSE rec
  /\ failed' = err
  /\ reader' = "idle"
  /\ UNCHANGED <<yielded, refCount, cancel, frees>>

\* <-r.ch in Next yields an item.
Receive ==
  /\ reader = "receive"
  /\ Sent
  /\ IF err THEN Free({rec} \ {None}) /\ cur' = None
            ELSE UNCHANGED frees /\ cur' = rec
  /\ failed' = err
  /\ reader' = "idle"
  /\ UNCHANGED <<yielded, refCount, cancel>>

\* A Next that asks a closed channel again.
SpinningReceiveClosed ==
  /\ reader = "receive"
  /\ producer = "exited"
  /\ UNCHANGED vars

\* <-r.ch finds the channel closed: the iterator is at its end.
ReceiveClosed ==
  /\ reader = "receive"
  /\ producer = "exited"
  /\ reader' = "idle"
  /\ UNCHANGED <<producer, rec, err, yielded, cur, failed, refCount, cancel, frees>>

Retain ==
  /\ reader = "idle"
  /\ refCount < MaxRefs
  /\ refCount' = refCount + 1
  /\ UNCHANGED <<producer, rec, err, yielded, reader, cur, failed, cancel, frees>>

\* A Release that does not wait for the producer.
DetachedRelease ==
  /\ reader = "idle"
  /\ refCount' = refCount - 1
  /\ IF refCount = 1 THEN cancel' = TRUE /\ reader' = "released" /\ cur' = None
                          /\ Free({cur} \ {None})
                     ELSE UNCHANGED <<cancel, reader, cur, frees>>
  /\ UNCHANGED <<producer, rec, err, yielded, failed>>

\* Release: only the last one cancels.
Release ==
  /\ reader = "idle"
  /\ refCount' = refCount - 1
  /\ IF refCount = 1 THEN cancel' = TRUE /\ reader' = "drain"
                     ELSE UNCHANGED <<cancel, reader>>
  /\ UNCHANGED <<producer, rec, err, yielded, cur, failed, frees>>

\* for item := range r.ch
Drain ==
  /\ reader = "drain"
  /\ Sent
  /\ Free({rec} \ {None})
  /\ UNCHANGED <<yielded, reader, cur, failed, refCount, cancel>>

Drained ==
  /\ reader = "drain"
  /\ producer = "exited"
  /\ Free({cur} \ {None})
  /\ cur' = None
  /\ reader' = "released"
  /\ UNCHANGED <<producer, rec, err, yielded, failed, refCount, cancel>>
-----------------------------------------------------------------------------
\* The reader's owner may stop reading, and releases it in the end.
Next ==
  \/ \E b \in Batch \cup {None}, e \in BOOLEAN : Pull(b, e)
  \/ PullEnds \/ Cancelled
  \/ StartNext \/ Receive \/ ReceiveClosed \/ Retain \/ Release \/ Drain \/ Drained
  \/ reader = "released" /\ UNCHANGED vars

Spec == Init /\ [][Next]_vars

Pulls == PullEnds \/ \E b \in Batch \cup {None}, e \in BOOLEAN : Pull(b, e)

FairSpec ==
  /\ Spec
  /\ WF_vars(Pulls) /\ WF_vars(Cancelled)
  /\ WF_vars(Receive \/ ReceiveClosed) /\ WF_vars(Drain \/ Drained)
-----------------------------------------------------------------------------
(* Properties *)

TypeOK ==
  /\ producer \in {"pull", "send", "exited"}
  /\ rec \in Batch \cup {None} /\ err \in BOOLEAN
  /\ yielded \in 0..MaxBatches
  /\ reader \in {"idle", "receive", "drain", "released"}
  /\ cur \in Batch \cup {None}
  /\ failed \in BOOLEAN
  /\ refCount \in 0..MaxRefs
  /\ cancel \in BOOLEAN
  /\ frees \in [Batch -> 0..1]

\* Every batch the iterator yielded is in the producer's hand, current, or
\* released, exactly once, and so never leaked and never released twice
\* (reader.go:44-59, 67-88, 99-115).
BatchOwned ==
  \A b \in Batch :
    LET places == (IF rec = b THEN 1 ELSE 0) + (IF cur = b THEN 1 ELSE 0) + frees[b]
    IN places = IF b <= yielded THEN 1 ELSE 0

\* The inductive invariant of the reader.
SeqReaderInv ==
  /\ TypeOK
  /\ BatchOwned
  /\ producer # "send" => rec = None /\ ~err
  /\ producer = "send" /\ rec = None => err
  /\ cancel <=> reader \in {"drain", "released"}
  /\ refCount = 0 <=> cancel
  /\ reader = "receive" => cur = None /\ ~failed
  /\ failed => producer = "exited" /\ cur = None
  /\ reader = "released" => producer = "exited" /\ cur = None

\* Once Release has returned, the goroutine is gone and holds nothing: no
\* pull of the iterator outlives the scan (reader.go:99-115).
NothingOutlivesRelease ==
  reader = "released" => producer = "exited" /\ \A b \in 1..yielded : frees[b] = 1

\* Next and Release always return (reader.go:67-88, 99-115).
ReaderReturns ==
  /\ reader = "receive" ~> reader = "idle"
  /\ reader = "drain" ~> reader = "released"
=============================================================================
