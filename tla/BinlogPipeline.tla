---------------------------- MODULE BinlogPipeline ----------------------------
(***************************************************************************)
(* A stream that follows the binlog: the reader of                         *)
(* internal/source/binlog/streamer.go feeding the runner of Runner.tla,    *)
(* started and stopped by internal/supervisor/stream.go.                   *)
(*                                                                         *)
(* The source's binlog is a constant sequence of events.  The identity of  *)
(* a row change is its index there, so "later" is a comparison of indices. *)
(* A position is a set of transactions, as a GTID set is; BaseTx is the    *)
(* part of it that lies before this binlog, so a position is never empty.  *)
(*                                                                         *)
(* The reader's buffer and the stream's queue behind the router are one    *)
(* channel here: both are first in first out and both block when full.     *)
(* The version numbers come from an allocator that never repeats one,      *)
(* which is what Allocator.tla is about; here only its reservations show,  *)
(* because they save the whole checkpoint row, position included.          *)
(***************************************************************************)
EXTENDS Runner, Integers

CONSTANTS Binlog,    \* Seq([kind, tx, docs, plan])
          Buffer,    \* runtime.buffer_size
          Block      \* versions reserved at a time

BaseTx == 0
NoTx == -1
Rows == {i \in DOMAIN Binlog : Binlog[i].kind = "rows"}
Txs == {Binlog[i].tx : i \in DOMAIN Binlog}

ASSUME BinlogAssumption ==
  /\ Buffer \in Nat \ {0} /\ Block \in Nat \ {0}
  /\ Binlog \in Seq([kind : {"gtid", "rows", "xid", "query"},
                     tx   : Nat \ {BaseTx},
                     docs : Seq([key : Keys, size : Nat]),
                     plan : {"ok", "error"}])

VARIABLES
  proc,       \* "up" while the process runs
  reader,     \* "reading" until the reader's goroutine returns
  start,      \* the position replication was started from
  rpos,       \* the next binlog event the source sends
  executed,   \* Streamer.executed
  currentTx,  \* Streamer.currentTx, NoTx for ""
  seq,        \* the last version number issued
  left,       \* numbers left in the reserved block
  loaded      \* the position in the row reserve has loaded, {} outside reserve

readerVars == <<reader, start, rpos, executed, currentTx, seq, left, loaded>>
vars == <<runnerVars, proc, readerVars>>

Position == SUBSET (Txs \cup {BaseTx})

Init ==
  /\ RunnerInit
  /\ gtidSet = {BaseTx} /\ cursor = 0 /\ rowsDone = 0
  /\ proc = "up" /\ reader = "reading"
  /\ start = {BaseTx} /\ rpos = 1
  /\ executed = {BaseTx} /\ currentTx = NoTx
  /\ seq = 0 /\ left = 0 /\ loaded = {}

-----------------------------------------------------------------------------
(* The reader                                                                *)

Reading(kind) ==
  /\ proc = "up" /\ reader = "reading"
  /\ rpos \in DOMAIN Binlog
  /\ Binlog[rpos].tx \notin start
  /\ Binlog[rpos].kind = kind

\* The source does not send the transactions of the start position.
SourceSkips ==
  /\ proc = "up" /\ reader = "reading"
  /\ rpos \in DOMAIN Binlog
  /\ Binlog[rpos].tx \in start
  /\ rpos' = rpos + 1
  /\ UNCHANGED <<runnerVars, proc, reader, start, executed, currentTx, seq,
                 left, loaded>>

\* handle: GTIDEvent.
ReadGTID ==
  /\ Reading("gtid")
  /\ rpos' = rpos + 1
  /\ currentTx' = Binlog[rpos].tx
  /\ UNCHANGED <<runnerVars, proc, reader, start, executed, seq, left, loaded>>

\* handle: XIDEvent folds the transaction into the position.
ReadXID ==
  /\ Reading("xid")
  /\ rpos' = rpos + 1
  /\ executed' = IF currentTx # NoTx THEN executed \cup {currentTx} ELSE executed
  /\ currentTx' = NoTx
  /\ UNCHANGED <<runnerVars, proc, reader, start, seq, left, loaded>>

\* handle: QueryEvent reloads table definitions and leaves the position alone.
ReadQuery ==
  /\ Reading("query")
  /\ rpos' = rpos + 1
  /\ UNCHANGED <<runnerVars, proc, reader, start, executed, currentTx, seq,
                 left, loaded>>

\* reserve, first half: the checkpoint row is loaded.
ReserveLoad ==
  /\ Reading("rows")
  /\ left = 0 /\ loaded = {}
  /\ loaded' = gtidSet
  /\ UNCHANGED <<runnerVars, proc, reader, start, rpos, executed, currentTx,
                 seq, left>>

\* reserve, second half: the row is saved as it was loaded, with the new
\* watermark, whatever position the runner saved in between.
ReserveSave ==
  /\ Reading("rows")
  /\ loaded # {}
  /\ gtidSet' = loaded
  /\ loaded' = {}
  /\ left' = Block
  /\ UNCHANGED <<channelVars, pc, leaving, pendingVars, workVars, destVars,
                 dlq, cursor, rowsDone, faults, proc, reader, start, rpos,
                 executed, currentTx, seq>>

\* What Plan.Apply makes of row change i at version v.
DocsOf(i, v) ==
  [n \in DOMAIN Binlog[i].docs |->
     [row |-> i, key |-> Binlog[i].docs[n].key, ver |-> v,
      size |-> Binlog[i].docs[n].size]]

\* A mutant: a row carries the position that includes its own transaction.
EventOfWithOwnTx(i, v) ==
  [row |-> i, docs |-> IF Binlog[i].plan = "error" THEN <<>> ELSE DocsOf(i, v),
   gtid |-> executed \cup {currentTx}, cursor |-> 0, rows |-> 0,
   plan |-> Binlog[i].plan]

\* build: the event of row change i, at the position before its transaction.
EventOf(i, v) ==
  [row |-> i, docs |-> IF Binlog[i].plan = "error" THEN <<>> ELSE DocsOf(i, v),
   gtid |-> executed, cursor |-> 0, rows |-> 0, plan |-> Binlog[i].plan]

\* A mutant: the channel takes one event more than it has room for.
RoomForOneMore == Len(events) <= Buffer

\* send blocks while the channel is full.
Room == Len(events) < Buffer

\* emitRows: one row, with the next version, sent unless the channel is full.
ReadRow ==
  /\ Reading("rows")
  /\ left > 0 /\ Room
  /\ seq' = seq + 1
  /\ left' = left - 1
  /\ events' = Append(events, EventOf(rpos, seq + 1))
  /\ rpos' = rpos + 1
  /\ UNCHANGED <<chan, ctx, pc, leaving, pendingVars, workVars,
                 destVars, dlq, rowVars, faults, proc, reader, start,
                 executed, currentTx, loaded>>

\* The reader returns and the router closes the queue: the context is done.
ReaderStops ==
  /\ proc = "up" /\ reader = "reading" /\ ctx = "done"
  /\ reader' = "stopped" /\ chan' = "closed"
  /\ UNCHANGED <<events, ctx, pc, leaving, pendingVars, workVars,
                 destVars, dlq, rowVars, faults, proc, start, rpos, executed,
                 currentTx, seq, left, loaded>>

\* The reader fails, and the group cancels the pipeline.
ReaderFails ==
  /\ proc = "up" /\ reader = "reading"
  /\ Fault
  /\ reader' = "stopped" /\ chan' = "closed" /\ ctx' = "done"
  /\ UNCHANGED <<events, pc, leaving, pendingVars, workVars, destVars, dlq,
                 rowVars, proc, start, rpos, executed, currentTx, seq, left,
                 loaded>>

-----------------------------------------------------------------------------
(* The process                                                               *)

\* The process is asked to stop.
Sigterm ==
  /\ proc = "up" /\ ctx = "live"
  /\ Fault
  /\ ctx' = "done"
  /\ UNCHANGED <<events, chan, pc, leaving, pendingVars, workVars, destVars,
                 dlq, rowVars, proc, readerVars>>

Down ==
  /\ Lose
  /\ proc' = "down"
  /\ reader' = "stopped" /\ currentTx' = NoTx /\ left' = 0 /\ loaded' = {}
  /\ UNCHANGED <<rowVars, start, rpos, executed, seq>>

\* The process dies.
Crash == proc = "up" /\ Fault /\ Down

\* Every goroutine of the group has returned.
Exit ==
  /\ proc = "up" /\ pc = "done" /\ reader = "stopped"
  /\ Down
  /\ UNCHANGED faults

\* The process is started again and streams from the recorded position.
Restart ==
  /\ proc = "down"
  /\ proc' = "up" /\ reader' = "reading"
  /\ start' = gtidSet /\ executed' = gtidSet /\ rpos' = 1
  /\ UNCHANGED <<runnerVars, currentTx, seq, left, loaded>>

\* Everything is read and written, and the reader waits for the source.
Idle ==
  /\ proc = "up" /\ reader = "reading" /\ ctx = "live"
  /\ rpos \notin DOMAIN Binlog
  /\ events = <<>> /\ pc = "select" /\ batch.docs = <<>>
  /\ UNCHANGED vars

-----------------------------------------------------------------------------
ReaderStep ==
  \/ SourceSkips \/ ReadGTID \/ ReadXID \/ ReadQuery
  \/ ReserveLoad \/ ReserveSave \/ ReadRow \/ ReaderStops

RunnerActs == proc = "up" /\ RunnerStep /\ UNCHANGED <<proc, readerVars>>

RunnerBreaks == proc = "up" /\ RunnerFault /\ UNCHANGED <<proc, readerVars>>

LateWrite == SettleStray /\ UNCHANGED <<proc, readerVars>>

\* The steps the program and its host owe.
Progress == ReaderStep \/ RunnerActs \/ Exit \/ Restart

Next ==
  \/ Progress \/ RunnerBreaks \/ LateWrite
  \/ ReaderFails \/ Sigterm \/ Crash \/ Idle

Spec == Init /\ [][Next]_vars

\* Goroutines are scheduled, calls return, and a stopped process is restarted.
FairSpec == Spec /\ WF_vars(Progress)

-----------------------------------------------------------------------------
Doc == [row : Nat, key : Keys, ver : Nat, size : Nat]

Event == [row : Nat, docs : Seq(Doc), gtid : Position, cursor : {0},
          rows : {0}, plan : {"ok", "error"}]

TypeOK ==
  /\ events \in Seq(Event) /\ Len(events) <= Buffer
  /\ chan \in {"open", "closed"} /\ ctx \in {"live", "done"} /\ leaving \in {"yes", "no"}
  /\ pc \in Stages
  /\ pendingGTID \in Position /\ pendingCursor = 0 /\ pendingRows = 0
  /\ todo \in Seq(Doc)
  /\ batch \in [docs : Seq(Doc), bytes : Nat]
  /\ inflight \subseteq Doc /\ stray \subseteq Doc
  /\ rejected \subseteq [row : Nat, key : Keys \cup {NoKey}]
  /\ dlq \subseteq [row : Nat, key : Keys \cup {NoKey}]
  /\ dest \in [Keys -> [ver : Nat, row : Nat]]
  /\ gtidSet \in Position \ {{}} /\ cursor = 0 /\ rowsDone = 0
  /\ faults \in 0..MaxFaults
  /\ proc \in {"up", "down"} /\ reader \in {"reading", "stopped"}
  /\ start \in Position /\ executed \in Position /\ loaded \in Position
  /\ rpos \in 1..(Len(Binlog) + 1)
  /\ currentTx \in Txs \cup {NoTx}
  /\ seq \in Nat /\ left \in 0..Block

\* The keys row change i writes.
KeysOf(i) == {Binlog[i].docs[n].key : n \in DOMAIN Binlog[i].docs}

\* Every row change of a transaction the recorded position covers is at the
\* destination, or a later change of the same key is, or a dead letter stands
\* for it: a restart from that position cannot skip a change.
NothingLost ==
  \A r \in Rows : Binlog[r].tx \in gtidSet =>
    \A k \in KeysOf(r) : Accounted(r, k)

\* While a batch is being written or its position recorded, that position
\* does not cover a single document that is not yet with the destination or
\* in the dead letter queue: neither in the channel nor in the batcher.
PositionBehindPipe ==
  \A d \in Elems(todo) \cup Elems(batch.docs) \cup inflight \cup
           UNION {Elems(e.docs) : e \in Elems(events)} :
    Binlog[d.row].tx \notin gtidSet

\* Once failures stop, every change ends up at the destination or in the
\* dead letter queue and stays there.
Converges == <>[](\A r \in Rows : \A k \in KeysOf(r) : Accounted(r, k))

\* The recorded position never moves back while the process runs.
PositionNeverMovesBack == [][gtidSet \subseteq gtidSet']_vars

\* What the destination holds for a key never goes back to an earlier change.
NoRegress == [][\A k \in Keys : dest'[k].row >= dest[k].row]_vars
==============================================================================
