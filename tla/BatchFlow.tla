------------------------------ MODULE BatchFlow ------------------------------
(***************************************************************************)
(* One batcher fed by one caller, with the clock that decides when a       *)
(* waiting batch is due: Add, DueForFlush and Flush of                     *)
(* internal/pipeline/batcher.go over time.                                 *)
(***************************************************************************)
EXTENDS Batcher

CONSTANTS Sizes,          \* the document sizes offered
          FlushInterval,  \* Limits.FlushInterval, in clock ticks
          MaxDocs,        \* bound: documents offered in one behaviour
          MaxTime         \* bound: last clock tick

ASSUME FlowAssumption ==
  /\ Sizes \subseteq Nat
  /\ FlushInterval \in Nat \ {0}
  /\ MaxDocs \in Nat /\ MaxTime \in Nat

VARIABLES now,        \* the clock
          pending,    \* Batcher.pending and Batcher.bytes
          startedAt,  \* Batcher.startedAt
          given,      \* every document offered so far, in order
          returned,   \* every document handed to the caller so far, in order
          last        \* the batch of the latest hand-over

flowVars == <<now, pending, startedAt, given, returned, last>>

Doc == [n : Nat, size : Nat, at : Nat]

FlowInit ==
  /\ now = 0
  /\ pending = EmptyBatch
  /\ startedAt = 0
  /\ given = <<>> /\ returned = <<>> /\ last = <<>>

HandOver(batch) == returned' = returned \o batch /\ last' = batch

\* A mutant: a batch keeps the start time of the batch before it.
StartedAtKept(keep) == IF Len(given) = 0 THEN now ELSE startedAt

\* A mutant: the deadline is kept where the start is expected.
DeadlineFor(keep) == IF Len(keep.docs) = 0 THEN 0 ELSE now + FlushInterval

\* append records the time of the first document of a batch, Flush forgets it.
StartedAtFor(keep) ==
  CASE Len(keep.docs) = 0 -> 0
    [] Len(keep.docs) = 1 -> now
    [] OTHER              -> startedAt

\* Add(d).
Offer(size) ==
  /\ Len(given) < MaxDocs
  /\ LET d == [n |-> Len(given) + 1, size |-> size, at |-> now]
         r == Add(pending, d)
     IN  /\ given' = Append(given, d)
         /\ pending' = r.keep
         /\ startedAt' = StartedAtFor(r.keep)
         /\ HandOver(r.out)
  /\ UNCHANGED now

\* DueForFlush.
DueForFlush == pending.docs # <<>> /\ now >= startedAt + FlushInterval

\* Flush, by the caller's timer or at the end of the stream.
Flush ==
  /\ pending.docs # <<>>
  /\ HandOver(pending.docs)
  /\ pending' = EmptyBatch
  /\ startedAt' = 0
  /\ UNCHANGED <<now, given>>

Pass ==
  /\ now < MaxTime
  /\ now' = now + 1
  /\ UNCHANGED <<pending, startedAt, given, returned, last>>

FlowNext == (\E size \in Sizes : Offer(size)) \/ Flush \/ Pass

FlowSpec == FlowInit /\ [][FlowNext]_flowVars

-----------------------------------------------------------------------------
FlowTypeOK ==
  /\ now \in Nat
  /\ pending \in [docs : Seq(Doc), bytes : Nat]
  /\ startedAt \in 0..now
  /\ given \in Seq(Doc) /\ returned \in Seq(Doc) /\ last \in Seq(Doc)

\* Every document offered is handed over or still pending, once, in arrival
\* order, whichever branch of Add takes it: what Batcher promises when it
\* says arrival order is kept.
OrderKept == given = returned \o pending.docs

\* The bytes of a sequence of documents.
BytesOf(s) ==
  LET sum[i \in 0..Len(s)] == IF i = 0 THEN 0 ELSE sum[i - 1] + s[i].size
  IN  sum[Len(s)]

\* Both limits of the Batcher hold.  What is pending is below both and its
\* bytes are counted exactly, so no batch waits for its deadline although it
\* is already full; a batch handed over has at most MaxRows documents, and
\* exceeds MaxBytes only by a final document that fills a batch by itself.
WithinLimits ==
  /\ Len(pending.docs) < MaxRows /\ pending.bytes < MaxBytes
  /\ pending.bytes = BytesOf(pending.docs)
  /\ Len(last) <= MaxRows
  /\ BytesOf(last) > MaxBytes => last[Len(last)].size >= MaxBytes

\* A batch is due exactly when its oldest document has waited the interval:
\* the deadline never belongs to a batch that has already left.
DeadlineIsOldest ==
  pending.docs # <<>> =>
    (DueForFlush <=> now - pending.docs[1].at >= FlushInterval)
==============================================================================
