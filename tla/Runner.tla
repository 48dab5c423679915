-------------------------------- MODULE Runner --------------------------------
(***************************************************************************)
(* One stream's pipeline, internal/pipeline/runner.go: take an event from  *)
(* the channel, transform it, batch its documents, write a batch to the    *)
(* destination, record what the destination refused, and only then record  *)
(* the position.  The module holds the runner's own state and the durable  *)
(* state it changes (destination, dead letter queue, checkpoint row); what *)
(* feeds the channel and what restarts the process are BinlogPipeline and  *)
(* ScanPipeline.                                                           *)
(*                                                                         *)
(* A destination is abstract: for every key it keeps the highest version   *)
(* it was sent and the source row that version came from.  A write is not  *)
(* atomic: its documents settle one by one, in any order, and a request    *)
(* the client gave up on may still settle later, even after a restart.     *)
(***************************************************************************)
EXTENDS Batcher, FiniteSets

CONSTANTS Keys,       \* document keys of the destination
          Refusable,  \* the source rows the destination may refuse for good
          NoKey,      \* the key of a dead letter that identifies no document
          MaxFaults   \* bound: failures and crashes in one behaviour

ASSUME FaultAssumption == MaxFaults \in Nat

VARIABLES
  events,         \* the channel of change events, oldest first
  chan,           \* "closed" once the channel is closed: what it holds can still be read
  ctx,            \* "done" once the context of the group is cancelled
  pc,             \* where Run is
  leaving,        \* "yes" when the write in progress is the last before Run returns
  pendingGTID,    \* Runner.pendingGTID, {} for ""
  pendingCursor,  \* Runner.pendingCursor, 0 for none
  pendingRows,    \* Runner.pendingRows
  todo,           \* documents of the current event not yet given to the batcher
  batch,          \* Runner.batcher
  inflight,       \* documents of the current write that have not settled
  rejected,       \* dead letters of the current write or event
  stray,          \* documents of abandoned writes that may still settle
  dest,           \* destination: key -> [ver, row]
  dlq,            \* the dead letter queue, durable
  gtidSet,        \* checkpoint row: GTIDSet
  cursor,         \* checkpoint row: SnapshotCursor
  rowsDone,       \* checkpoint row: SnapshotRowsDone
  faults          \* failures so far

channelVars == <<events, chan, ctx>>
pendingVars == <<pendingGTID, pendingCursor, pendingRows>>
workVars    == <<todo, batch, inflight, rejected>>
destVars    == <<dest, stray>>
rowVars     == <<gtidSet, cursor, rowsDone>>

runnerVars == <<channelVars, pc, leaving, pendingVars, workVars, destVars,
                dlq, rowVars, faults>>

Stages == {"select", "add", "write", "record", "transform", "advance", "done"}

\* The documents in a sequence.
Elems(s) == {s[i] : i \in DOMAIN s}

Letter(row, key) == [row |-> row, key |-> key]

\* Something outside the program goes wrong, at most MaxFaults times.
Fault == faults < MaxFaults /\ faults' = faults + 1

\* A call fails because of a fault, or because its context was cancelled.
CallFails == Fault \/ (ctx = "done" /\ UNCHANGED faults)

RunnerInit ==
  /\ events = <<>> /\ chan = "open" /\ ctx = "live"
  /\ pc = "select" /\ leaving = "no"
  /\ pendingGTID = {} /\ pendingCursor = 0 /\ pendingRows = 0
  /\ todo = <<>> /\ batch = EmptyBatch /\ inflight = {} /\ rejected = {}
  /\ stray = {}
  /\ dest = [k \in Keys |-> [ver |-> 0, row |-> 0]]
  /\ dlq = {}
  /\ faults = 0

\* Run returns with an error: the group cancels everything else.
Stop ==
  /\ pc' = "done"
  /\ ctx' = "done"
  /\ stray' = stray \cup inflight
  /\ todo' = <<>> /\ inflight' = {} /\ rejected' = {}

-----------------------------------------------------------------------------
(* handle                                                                    *)

\* handle notes how far an event brings the position.
Note(ev) ==
  /\ pendingGTID' = IF ev.gtid # {} THEN ev.gtid ELSE pendingGTID
  /\ pendingCursor' = IF ev.cursor # 0 THEN ev.cursor ELSE pendingCursor
  /\ pendingRows' = IF ev.cursor # 0 THEN ev.rows ELSE pendingRows

\* handle: an event the plan can transform.
Receive ==
  /\ pc = "select" /\ events # <<>> /\ Head(events).plan = "ok"
  /\ events' = Tail(events)
  /\ Note(Head(events))
  /\ todo' = Head(events).docs
  /\ pc' = "add"
  /\ UNCHANGED <<chan, ctx, leaving, batch, inflight, rejected,
                 destVars, dlq, rowVars, faults>>

\* handle: the plan refuses the event, which goes to the dead letter queue
\* under the event's position and leaves the pending position alone.
ReceiveBad ==
  /\ pc = "select" /\ events # <<>> /\ Head(events).plan = "error"
  /\ events' = Tail(events)
  /\ rejected' = {Letter(Head(events).row, NoKey)}
  /\ pc' = "transform"
  /\ UNCHANGED <<chan, ctx, leaving, pendingVars, todo, batch,
                 inflight, destVars, dlq, rowVars, faults>>

\* The next stage once a document or a batch has been dealt with.
Resume(rest) ==
  CASE leaving = "yes"                   -> "done"
    [] leaving = "no" /\ rest = <<>>     -> "select"
    [] leaving = "no" /\ rest # <<>>     -> "add"

\* handle: give the batcher one document, and write the batch it returns.
AddDoc ==
  /\ pc = "add" /\ todo # <<>>
  /\ LET r == Add(batch, Head(todo))
     IN  /\ batch' = r.keep
         /\ inflight' = Elems(r.out)
         /\ pc' = IF r.out = <<>> THEN Resume(Tail(todo)) ELSE "write"
  /\ todo' = Tail(todo)
  /\ UNCHANGED <<channelVars, leaving, pendingVars, rejected, destVars,
                 dlq, rowVars, faults>>

-----------------------------------------------------------------------------
(* flush and drain                                                           *)

\* flush: hand the pending batch to the sink.
Flush ==
  /\ batch.docs # <<>>
  /\ inflight' = Elems(batch.docs)
  /\ batch' = EmptyBatch
  /\ pc' = "write"

\* The deadline of the pending batch has passed.
Tick ==
  /\ pc = "select" /\ Flush
  /\ UNCHANGED <<channelVars, leaving, pendingVars, todo, rejected,
                 destVars, dlq, rowVars, faults>>

\* The context is done (drain, which has until ShutdownGrace), or the channel is
\* closed and empty: write what is pending and return.
Finish ==
  /\ pc = "select"
  /\ ctx = "done" \/ (chan = "closed" /\ events = <<>>)
  /\ \/ batch.docs = <<>> /\ pc' = "done" /\ UNCHANGED <<inflight, batch>>
     \/ Flush
  /\ leaving' = "yes"
  /\ UNCHANGED <<channelVars, pendingVars, todo, rejected, destVars, dlq,
                 rowVars, faults>>

-----------------------------------------------------------------------------
(* write                                                                     *)

\* The destination keeps the highest version it is sent for a key.
Apply(d) ==
  dest' = IF d.ver > dest[d.key].ver
            THEN [dest EXCEPT ![d.key] = [ver |-> d.ver, row |-> d.row]]
            ELSE dest

\* The destination answers for one document of the write: applied or stale.
Settle ==
  /\ pc = "write"
  /\ \E d \in inflight : Apply(d) /\ inflight' = inflight \ {d}
  /\ UNCHANGED <<channelVars, pc, leaving, pendingVars, todo, batch, rejected,
                 stray, dlq, rowVars, faults>>

\* The destination refuses one document of the write for good.
Refuse ==
  /\ pc = "write"
  /\ \E d \in inflight :
       /\ d.row \in Refusable
       /\ rejected' = rejected \cup {Letter(d.row, d.key)}
       /\ inflight' = inflight \ {d}
  /\ UNCHANGED <<channelVars, pc, leaving, pendingVars, todo, batch, destVars,
                 dlq, rowVars, faults>>

\* A document of an abandoned write reaches the destination late.
SettleStray ==
  /\ \E d \in stray : Apply(d) /\ stray' = stray \ {d}
  /\ UNCHANGED <<channelVars, pc, leaving, pendingVars, workVars, dlq, rowVars,
                 faults>>

\* sink.Write accounts for every document.
WriteReturns ==
  /\ pc = "write" /\ inflight = {}
  /\ pc' = IF rejected = {} THEN "advance" ELSE "record"
  /\ UNCHANGED <<channelVars, leaving, pendingVars, workVars, destVars, dlq,
                 rowVars, faults>>

\* A mutant: a failed write is taken for a success.
WriteFailureIgnored ==
  /\ pc = "write" /\ CallFails
  /\ stray' = stray \cup inflight
  /\ inflight' = {}
  /\ pc' = "advance"
  /\ UNCHANGED <<channelVars, leaving, pendingVars, todo, batch, rejected,
                 dest, dlq, rowVars>>

\* sink.Write fails, or does not account for every document.
WriteFails ==
  /\ pc = "write"
  /\ CallFails
  /\ Stop
  /\ UNCHANGED <<events, chan, leaving, pendingVars, batch, dest, dlq,
                 rowVars>>

\* deadLetter: the refused documents are durable before Run goes on.  After a
\* write comes the position, after a failed transform the next event.
Record ==
  /\ pc \in {"record", "transform"}
  /\ dlq' = dlq \cup rejected
  /\ rejected' = {}
  /\ pc' = IF pc = "record" THEN "advance" ELSE "select"
  /\ UNCHANGED <<channelVars, leaving, pendingVars, todo, batch, inflight,
                 destVars, rowVars, faults>>

\* deadLetter: the record cannot be written, or only partly.
RecordFails ==
  /\ pc \in {"record", "transform"}
  /\ CallFails
  /\ \E some \in SUBSET rejected : dlq' = dlq \cup some
  /\ Stop
  /\ UNCHANGED <<events, chan, leaving, pendingVars, batch, dest, rowVars>>

-----------------------------------------------------------------------------
(* advance                                                                   *)

\* The checkpoint row advance saves.
SavePosition ==
  /\ gtidSet' = IF pendingGTID # {} THEN pendingGTID ELSE gtidSet
  /\ cursor' = IF pendingCursor # 0 THEN pendingCursor ELSE cursor
  /\ rowsDone' = IF pendingCursor # 0 THEN pendingRows ELSE rowsDone

\* advance: record the position, then go on with the current event.
Advance ==
  /\ pc = "advance"
  /\ SavePosition
  /\ pc' = Resume(todo)
  /\ UNCHANGED <<channelVars, leaving, pendingVars, workVars, destVars, dlq,
                 faults>>

\* advance: the row cannot be loaded or saved; the save may have landed.
AdvanceFails ==
  /\ pc = "advance"
  /\ CallFails
  /\ SavePosition \/ UNCHANGED rowVars
  /\ Stop
  /\ UNCHANGED <<events, chan, leaving, pendingVars, batch, dest, dlq>>

-----------------------------------------------------------------------------
\* The process ends: what it held in memory is gone, and documents it had
\* sent may still settle.
Lose ==
  /\ events' = <<>> /\ chan' = "open" /\ ctx' = "live"
  /\ pc' = "select" /\ leaving' = "no"
  /\ pendingGTID' = {} /\ pendingCursor' = 0 /\ pendingRows' = 0
  /\ todo' = <<>> /\ batch' = EmptyBatch /\ inflight' = {} /\ rejected' = {}
  /\ stray' = stray \cup inflight
  /\ UNCHANGED <<dest, dlq>>

\* What Run does when nothing outside goes wrong.
RunnerStep ==
  \/ Receive \/ ReceiveBad \/ AddDoc \/ Tick \/ Finish
  \/ Settle \/ Refuse \/ WriteReturns \/ Record \/ Advance

RunnerFault == WriteFails \/ RecordFails \/ AdvanceFails

\* A row is accounted for at a key: the key holds it or a later one, or a dead
\* letter stands for it.
Accounted(row, key) ==
  \/ dest[key].row >= row
  \/ Letter(row, key) \in dlq
  \/ Letter(row, NoKey) \in dlq
==============================================================================
