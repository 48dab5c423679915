----------------------------- MODULE ScanPipeline -----------------------------
(***************************************************************************)
(* A stream's table scan: the scanner of internal/source/snapshot feeding  *)
(* the runner of Runner.tla, started, resumed and completed by             *)
(* internal/supervisor/snapshot.go.                                        *)
(*                                                                         *)
(* The table's rows are numbered in key order, so a row is its own key and *)
(* a cursor is the number of the last row of a chunk.  Every row carries   *)
(* the version reserved when the scan began.                               *)
(***************************************************************************)
EXTENDS Runner

CONSTANTS Table,      \* Seq(size): the scanned rows in key order
          BadRows,    \* rows the plan cannot transform
          ChunkSize   \* snapshot.chunk_size

TableRows == DOMAIN Table
BaseSeq == 1

ASSUME TableAssumption ==
  /\ Table \in Seq(Nat)
  /\ Keys = TableRows
  /\ BadRows \subseteq TableRows
  /\ ChunkSize \in Nat \ {0}

VARIABLES
  proc,          \* "up" while the process runs
  scanner,       \* "reading", then "done" or "stopped"
  from,          \* the cursor the current chunk was read after
  next,          \* the next row of the current chunk to send
  upto,          \* the last row of the current chunk, the scanner's cursor
  rowsRead,      \* Snapshotter.rowsRead
  snapshotDone   \* checkpoint row: SnapshotDone

scanVars == <<scanner, from, next, upto, rowsRead>>
vars == <<runnerVars, proc, scanVars, snapshotDone>>

Init ==
  /\ RunnerInit
  /\ gtidSet = {} /\ cursor = 0 /\ rowsDone = 0
  /\ proc = "up" /\ scanner = "reading"
  /\ from = 0 /\ next = 1 /\ upto = 0 /\ rowsRead = 0
  /\ snapshotDone = FALSE

-----------------------------------------------------------------------------
(* The scanner                                                               *)

\* readChunk: at most ChunkSize rows after the cursor, in key order.
ChunkAfter(c) == {r \in TableRows : c < r /\ r <= c + ChunkSize}

\* run: read the next chunk, or find the table exhausted.
ReadChunk ==
  /\ proc = "up" /\ scanner = "reading" /\ next > upto
  /\ \/ /\ ChunkAfter(upto) # {}
        /\ from' = upto
        /\ upto' = upto + Cardinality(ChunkAfter(upto))
        /\ UNCHANGED <<scanner, chan>>
     \/ /\ ChunkAfter(upto) = {}
        /\ scanner' = "done" /\ chan' = "closed"
        /\ UNCHANGED <<from, upto>>
  /\ UNCHANGED <<events, ctx, pc, leaving, pendingVars, workVars,
                 destVars, dlq, rowVars, faults, proc, next, rowsRead,
                 snapshotDone>>

\* A mutant: every row of a chunk carries the chunk's cursor.
RowEventWithCursor(r) ==
  [row |-> r,
   docs |-> IF r \in BadRows THEN <<>>
            ELSE <<[row |-> r, key |-> r, ver |-> BaseSeq, size |-> Table[r]]>>,
   gtid |-> {}, cursor |-> upto, rows |-> rowsRead + upto - from, plan |-> IF r \in BadRows THEN "error" ELSE "ok"]

\* emitChunk: the last row of a chunk carries the cursor and the row count.
RowEvent(r) ==
  [row |-> r,
   docs |-> IF r \in BadRows THEN <<>>
            ELSE <<[row |-> r, key |-> r, ver |-> BaseSeq, size |-> Table[r]]>>,
   gtid |-> {},
   cursor |-> IF r = upto THEN upto ELSE 0,
   rows |-> IF r = upto THEN rowsRead + upto - from ELSE 0,
   plan |-> IF r \in BadRows THEN "error" ELSE "ok"]

\* A mutant: the channel takes one event more than it has room for.
RoomForOneMore == Len(events) <= ChunkSize

\* The channel holds one chunk.
Room == Len(events) < ChunkSize

\* run: a chunk that is not full is the last one.
LastChunk == upto - from < ChunkSize

\* emitChunk: send one row, unless the channel is full; after the last row of
\* the last chunk the scan is done and the channel closes.
SendRow ==
  /\ proc = "up" /\ scanner = "reading" /\ next <= upto
  /\ Room
  /\ events' = Append(events, RowEvent(next))
  /\ next' = next + 1
  /\ rowsRead' = IF next = upto THEN rowsRead + upto - from ELSE rowsRead
  /\ scanner' = IF next = upto /\ LastChunk THEN "done" ELSE "reading"
  /\ chan' = IF next = upto /\ LastChunk THEN "closed" ELSE "open"
  /\ UNCHANGED <<ctx, pc, leaving, pendingVars, workVars, destVars, dlq,
                 rowVars, faults, proc, from, upto, snapshotDone>>

\* The scanner's query fails, or its context is done: the channel closes
\* before the end of the table.
ScannerStops ==
  /\ proc = "up" /\ scanner = "reading"
  /\ CallFails
  /\ scanner' = "stopped" /\ chan' = "closed"
  /\ UNCHANGED <<events, ctx, pc, leaving, pendingVars, workVars,
                 destVars, dlq, rowVars, proc, from, next, upto, rowsRead,
                 snapshotDone>>

-----------------------------------------------------------------------------
(* The supervisor                                                            *)

\* finishScan: the runner returned without an error and the scanner reached
\* the end of the table.
FinishScan ==
  /\ proc = "up" /\ pc = "done" /\ ctx = "live" /\ ~snapshotDone
  /\ scanner = "done"
  /\ snapshotDone' = TRUE
  /\ UNCHANGED <<runnerVars, proc, scanVars>>

\* The process is asked to stop.
Sigterm ==
  /\ proc = "up" /\ ctx = "live" /\ ~snapshotDone
  /\ Fault
  /\ ctx' = "done"
  /\ UNCHANGED <<events, chan, pc, leaving, pendingVars, workVars, destVars,
                 dlq, rowVars, proc, scanVars, snapshotDone>>

Down ==
  /\ Lose
  /\ proc' = "down" /\ scanner' = "stopped"
  /\ from' = 0 /\ next' = 1 /\ upto' = 0 /\ rowsRead' = 0
  /\ UNCHANGED <<rowVars, snapshotDone>>

\* The process dies.
Crash == proc = "up" /\ Fault /\ Down

\* A mutant: the end of the events is always taken for an interruption.
ExitAlways ==
  /\ proc = "up" /\ pc = "done" /\ ~snapshotDone
  /\ Down
  /\ UNCHANGED faults

\* scan or runScan returns an error, and with it the process.
Exit ==
  /\ proc = "up" /\ pc = "done"
  /\ ctx = "done" \/ scanner = "stopped"
  /\ Down
  /\ UNCHANGED faults

\* A mutant: a resumed scan starts one chunk late.
RestartLate ==
  /\ proc = "down" /\ ~snapshotDone
  /\ proc' = "up" /\ scanner' = "reading"
  /\ from' = cursor /\ upto' = cursor + 1 /\ next' = cursor + 2
  /\ UNCHANGED <<runnerVars, rowsRead, snapshotDone>>

\* snapshotIfNeeded on the next start: the scan resumes after the recorded
\* cursor, and counts the rows it reads from nothing.
Restart ==
  /\ proc = "down" /\ ~snapshotDone
  /\ proc' = "up" /\ scanner' = "reading"
  /\ from' = cursor /\ upto' = cursor /\ next' = cursor + 1
  /\ UNCHANGED <<runnerVars, rowsRead, snapshotDone>>

\* The scan is recorded as complete: the stream goes on with the binlog.
Idle == snapshotDone /\ UNCHANGED vars

-----------------------------------------------------------------------------
ScannerStep == ReadChunk \/ SendRow

RunnerActs ==
  /\ proc = "up" /\ RunnerStep
  /\ UNCHANGED <<proc, scanVars, snapshotDone>>

RunnerBreaks ==
  /\ proc = "up" /\ RunnerFault
  /\ UNCHANGED <<proc, scanVars, snapshotDone>>

LateWrite == SettleStray /\ UNCHANGED <<proc, scanVars, snapshotDone>>

Progress == ScannerStep \/ RunnerActs \/ FinishScan \/ Exit \/ Restart

Next ==
  \/ Progress \/ RunnerBreaks \/ LateWrite
  \/ ScannerStops \/ Sigterm \/ Crash \/ Idle

Spec == Init /\ [][Next]_vars

\* Goroutines are scheduled, calls return, and a stopped process is restarted.
FairSpec == Spec /\ WF_vars(Progress)

-----------------------------------------------------------------------------
Doc == [row : TableRows, key : TableRows, ver : {BaseSeq}, size : Nat]

Event == [row : TableRows, docs : Seq(Doc), gtid : {{}},
          cursor : 0..Len(Table), rows : 0..Len(Table), plan : {"ok", "error"}]

TypeOK ==
  /\ events \in Seq(Event) /\ Len(events) <= ChunkSize
  /\ chan \in {"open", "closed"} /\ ctx \in {"live", "done"} /\ leaving \in {"yes", "no"}
  /\ pc \in Stages
  /\ pendingGTID = {} /\ pendingCursor \in 0..Len(Table)
  /\ pendingRows \in 0..Len(Table)
  /\ todo \in Seq(Doc)
  /\ batch \in [docs : Seq(Doc), bytes : Nat]
  /\ inflight \subseteq Doc /\ stray \subseteq Doc
  /\ rejected \subseteq [row : TableRows, key : Keys \cup {NoKey}]
  /\ dlq \subseteq [row : TableRows, key : Keys \cup {NoKey}]
  /\ dest \in [Keys -> [ver : {0, BaseSeq}, row : 0..Len(Table)]]
  /\ gtidSet = {} /\ cursor \in 0..Len(Table) /\ rowsDone \in 0..Len(Table)
  /\ faults \in 0..MaxFaults
  /\ proc \in {"up", "down"} /\ scanner \in {"reading", "done", "stopped"}
  /\ from \in 0..Len(Table) /\ upto \in 0..Len(Table)
  /\ next \in 1..(Len(Table) + 1)
  /\ rowsRead \in 0..Len(Table) /\ snapshotDone \in BOOLEAN

\* Every row up to the recorded cursor is at the destination or in the dead
\* letter queue: a scan resumed from the cursor leaves no hole behind it.
CursorSafe == \A r \in TableRows : r <= cursor => Accounted(r, r)

\* A scan recorded as complete has delivered every row of the table, however
\* often it was interrupted: finishScan sets SnapshotDone for good.
DoneMeansComplete == snapshotDone => \A r \in TableRows : Accounted(r, r)

\* The row count recorded with a completed scan is the number of its rows.
RowsDoneCounts == snapshotDone => rowsDone = Len(Table)

\* Once failures stop the scan completes, however often it was interrupted.
ScanCompletes == <>snapshotDone

==============================================================================
