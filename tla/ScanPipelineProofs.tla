------------------------- MODULE ScanPipelineProofs -------------------------
(***************************************************************************)
(* A table scan leaves no hole, for every table, chunk size and order of   *)
(* failures and restarts, as long as a full batch of the largest rows      *)
(* stays within the byte limit.                                            *)
(***************************************************************************)
EXTENDS ScanPipeline, RunnerProofs, FiniteSetTheorems

\* MaxRows rows of size at most S fit into a batch.
RowsFit(S) == (\A r \in TableRows : Table[r] <= S) /\ MaxRows * S <= MaxBytes

\* A batch is always completed by its number of rows and never has to leave
\* because the next row does not fit.
BatchesFit == \E S \in Nat : RowsFit(S)

-----------------------------------------------------------------------------
(* The inductive invariant                                                   *)

\* The scanner's counters, and the end of the table.
ScannerInv ==
  /\ from <= upto /\ from < next /\ next <= upto + 1
  /\ rowsRead <= IF next > upto THEN upto ELSE from
  /\ from < upto /\ upto - from < ChunkSize => upto = Len(Table)
  /\ scanner = "done" => next > Len(Table)
  /\ chan = "closed" => scanner # "reading"
  /\ leaving = "yes" /\ ctx = "live" => chan = "closed" /\ events = <<>>
  /\ proc = "down" => /\ chan = "open" /\ leaving = "no" /\ rowsRead = 0
                      /\ events = <<>> /\ pendingCursor = 0

\* A position is the row it was sent with, and what comes after it in the
\* channel are later rows.
CursorInv ==
  /\ pendingCursor < next
  /\ \A i \in DOMAIN events :
       /\ events[i].row < next /\ events[i].row > pendingCursor
       /\ events[i].cursor # 0 => events[i].cursor = events[i].row
  /\ \A i, j \in DOMAIN events : i < j => events[i].row < events[j].row

\* A row is its own key.
OwnRow(d) == d.row = d.key /\ d.size = Table[d.row]

AtMostOne(s) == s # <<>> => Tail(s) = <<>>

RowsInv ==
  /\ \A e \in Elems(events) :
       AtMostOne(e.docs) /\ \A d \in Elems(e.docs) : d.row = e.row
  /\ AtMostOne(todo)
  /\ \A d \in Pipe \cup stray : OwnRow(d)
  /\ \A k \in Keys : dest[k].ver > 0 => dest[k].row = k

\* A write takes along everything the runner has.
BatchInv(S) ==
  /\ Len(batch.docs) < MaxRows /\ batch.bytes <= Len(batch.docs) * S
  /\ Writing => todo = <<>> /\ batch.docs = <<>>

\* What the recorded cursor covers is delivered, and what the scanner has sent
\* is delivered or still in the pipe.
DeliveryInv ==
  /\ \A r \in TableRows : r <= cursor => Delivered(r, r)
  /\ proc = "up" /\ Healthy =>
       \A r \in TableRows : r < next => Held(r, r) \/ Delivered(r, r)
  /\ snapshotDone => \A r \in TableRows : Delivered(r, r)

-----------------------------------------------------------------------------
(* Types and the scanner                                                     *)

LEMMA TableFacts ==
  /\ Len(Table) \in Nat /\ TableRows = 1..Len(Table) /\ Keys = 1..Len(Table)
  /\ TableRows \cup {0} = 0..Len(Table) /\ TableRows \subseteq Nat
  /\ \A r \in TableRows : Table[r] \in Nat
  /\ ChunkSize \in Nat /\ ChunkSize > 0
  <1>1. Len(Table) \in Nat /\ TableRows = 1..Len(Table)
    BY TableAssumption, LenProperties DEF TableRows
  <1>2. \A r \in TableRows : Table[r] \in Nat
    BY <1>1, TableAssumption, ElementOfSeq
  <1>3. TableRows \cup {0} = 0..Len(Table)
    BY <1>1
  <1> QED
    BY <1>1, <1>2, <1>3, TableAssumption

LEMMA DocIs == Doc = Documents(TableRows, {BaseSeq})
  BY TableAssumption DEF Doc, Documents

LEMMA EventsFeed == Feeds(Event, TableRows, {BaseSeq})
  BY DocIs, TableFacts DEF Feeds, Event, BaseSeq

\* The part of TypeOK that is not the runner's.
Others ==
  /\ Len(events) <= ChunkSize
  /\ pendingGTID = {} /\ pendingCursor \in 0..Len(Table)
  /\ pendingRows \in 0..Len(Table)
  /\ gtidSet = {} /\ cursor \in 0..Len(Table) /\ rowsDone \in 0..Len(Table)
  /\ proc \in {"up", "down"} /\ scanner \in {"reading", "done", "stopped"}
  /\ from \in 0..Len(Table) /\ upto \in 0..Len(Table)
  /\ next \in 1..(Len(Table) + 1)
  /\ rowsRead \in 0..Len(Table) /\ snapshotDone \in BOOLEAN

LEMMA DestIs ==
  [Keys -> [ver : {BaseSeq} \cup {0}, row : TableRows \cup {0}]]
    = [Keys -> [ver : {0, BaseSeq}, row : 0..Len(Table)]]
  <1>1. {BaseSeq} \cup {0} = {0, BaseSeq}
    OBVIOUS
  <1> QED
    BY <1>1, TableFacts, Zenon

LEMMA TypesSplit == TypeOK <=> Shape(Event, TableRows, {BaseSeq}) /\ Others
  BY DestIs, DocIs, Zenon DEF TypeOK, Others, Shape, Batches, Letters

LEMMA TypesJoin ==
  ASSUME Shape(Event, TableRows, {BaseSeq})', Others'
  PROVE  TypeOK'
  BY DestIs, DocIs, Zenon DEF TypeOK, Others, Shape, Batches, Letters

LEMMA TypesSound ==
  ASSUME TypeOK, Hands
  PROVE  Sound(Event, TableRows, {BaseSeq})
  BY TypesSplit, EventsFeed DEF Sound

\* A chunk is full unless it reaches the end of the table.
LEMMA ChunkSizes ==
  ASSUME NEW c \in 0..Len(Table)
  PROVE  /\ ChunkAfter(c) = {} => c = Len(Table)
         /\ ChunkAfter(c) # {} =>
              /\ Cardinality(ChunkAfter(c)) \in 1..ChunkSize
              /\ c + Cardinality(ChunkAfter(c)) <= Len(Table)
              /\ Cardinality(ChunkAfter(c)) < ChunkSize => c + Cardinality(ChunkAfter(c)) = Len(Table)
  <1>1. Len(Table) \in Nat /\ ChunkSize \in Nat /\ ChunkSize > 0 /\ TableRows = 1..Len(Table)
    BY TableFacts
  <1>2. CASE c + ChunkSize <= Len(Table)
    <2>1. ChunkAfter(c) = (c + 1)..(c + ChunkSize)
      BY <1>1, <1>2 DEF ChunkAfter
    <2>2. Cardinality((c + 1)..(c + ChunkSize)) = ChunkSize
      BY <1>1, FS_Interval
    <2>3. c + 1 \in (c + 1)..(c + ChunkSize)
      BY <1>1
    <2> QED
      BY <1>1, <1>2, <2>1, <2>2, <2>3
  <1>3. CASE c + ChunkSize > Len(Table) /\ c < Len(Table)
    <2>1. ChunkAfter(c) = (c + 1)..Len(Table)
      BY <1>1, <1>3 DEF ChunkAfter
    <2>2. Cardinality((c + 1)..Len(Table)) = Len(Table) - c
      BY <1>1, <1>3, FS_Interval
    <2>3. c + 1 \in (c + 1)..Len(Table)
      BY <1>1, <1>3
    <2> QED
      BY <1>1, <1>3, <2>1, <2>2, <2>3
  <1>4. CASE c = Len(Table)
    <2>1. ChunkAfter(c) = {}
      BY <1>1, <1>4 DEF ChunkAfter
    <2> QED
      BY <1>4, <2>1
  <1> QED
    BY <1>1, <1>2, <1>3, <1>4

LEMMA InitTypes ==
  ASSUME Init
  PROVE  TypeOK /\ Hands /\ ScannerInv /\ Pipe = {}
  <1>1. /\ events = <<>> /\ chan = "open" /\ ctx = "live" /\ pc = "select" /\ leaving = "no"
        /\ todo = <<>> /\ batch = EmptyBatch /\ inflight = {} /\ rejected = {} /\ stray = {}
        /\ dest = [k \in Keys |-> [ver |-> 0, row |-> 0]] /\ dlq = {} /\ faults = 0
        /\ pendingGTID = {} /\ pendingCursor = 0 /\ pendingRows = 0
    BY DEF Init, RunnerInit
  <1>2. batch \in Batches(Documents(TableRows, {BaseSeq})) /\ batch.docs = <<>>
    BY <1>1, EmptyBatchType
  <1>3. dest \in [Keys -> [ver : {BaseSeq} \cup {0}, row : TableRows \cup {0}]]
    BY <1>1
  <1>4. Shape(Event, TableRows, {BaseSeq})
    BY <1>1, <1>2, <1>3, FaultAssumption DEF Shape, Stages
  <1>5. Len(events) = 0 /\ Len(Table) \in Nat /\ ChunkSize \in Nat
    BY <1>1, TableFacts
  <1>6. Others
    <2>1. 0 \in 0..Len(Table) /\ 1 \in 1..(Len(Table) + 1) /\ Len(events) <= ChunkSize
      BY <1>5
    <2> QED
      BY <1>1, <2>1 DEF Init, Others
  <1>7. Elems(events) = {} /\ Elems(todo) = {} /\ Elems(batch.docs) = {} /\ QueuedIn(events) = {}
    BY <1>1, <1>2, ElemsEmpty, QueuedEmpty
  <1>8. Hands
    BY <1>1, <1>7 DEF Hands
  <1>9. ScannerInv
    BY <1>1, <1>5 DEF Init, ScannerInv
  <1>10. Pipe = {}
    BY <1>1, <1>7 DEF Pipe
  <1> QED
    BY <1>4, <1>6, <1>8, <1>9, <1>10, TypesSplit

\* A step of the runner.
RunnerMoves ==
  /\ (proc = "up" /\ (RunnerStep \/ RunnerFault)) \/ SettleStray
  /\ UNCHANGED <<proc, scanVars, snapshotDone>>

LEMMA RunnerTypes ==
  ASSUME TypeOK, Hands, ScannerInv, RunnerMoves
  PROVE  TypeOK' /\ Hands' /\ ScannerInv'
  <1>1. Sound(Event, TableRows, {BaseSeq}) /\ Kept(Event, TableRows, {BaseSeq})
    BY TypesSound, RunnerKeeps DEF RunnerMoves
  <1>2. events \in Seq(Event)
    BY DEF TypeOK
  <1>3. events' = events \/ (events # <<>> /\ events' = Tail(events))
    BY EventsMove DEF RunnerMoves
  <1>4. Len(events') <= ChunkSize
    <2>1. Len(events) \in Nat /\ Len(events) <= ChunkSize /\ ChunkSize \in Nat
      BY <1>2, LenProperties, TableFacts DEF TypeOK
    <2>2. events # <<>> /\ events' = Tail(events) => Len(events') = Len(events) - 1
      BY <1>2, ElemsTail
    <2> QED
      BY <1>3, <2>1, <2>2
  <1>5. /\ pendingGTID' = {} /\ pendingCursor' \in 0..Len(Table) /\ pendingRows' \in 0..Len(Table)
        /\ events = <<>> => pendingCursor' = pendingCursor
    <2>1. CASE Receive
      <3>1. events # <<>> /\ Note(Head(events))
        BY <2>1 DEF Receive
      <3>2. Head(events) \in Event
        BY <1>2, <3>1, ElemsTail
      <3>3. /\ Head(events).gtid = {} /\ Head(events).cursor \in 0..Len(Table)
            /\ Head(events).rows \in 0..Len(Table)
        BY <3>2 DEF Event
      <3> QED
        BY <3>1, <3>3 DEF Note, TypeOK
    <2>2. CASE UNCHANGED pendingVars
      BY <2>2 DEF pendingVars, TypeOK
    <2> QED
      BY <2>1, <2>2, PositionsMove DEF RunnerMoves
  <1>6. gtidSet' = {} /\ cursor' \in 0..Len(Table) /\ rowsDone' \in 0..Len(Table)
    <2>1. UNCHANGED rowVars \/ SavePosition
      BY PositionsMove DEF RunnerMoves
    <2> QED
      BY <2>1 DEF rowVars, SavePosition, TypeOK
  <1>7. Others'
    BY <1>4, <1>5, <1>6 DEF Others, TypeOK, RunnerMoves, scanVars
  <1>8. ScannerInv'
    <2>1. UNCHANGED <<chan, proc, scanner, from, next, upto, rowsRead>>
      BY DEF RunnerMoves, scanVars, RunnerStep, RunnerFault, Receive, ReceiveBad, AddDoc, Tick,
             Finish, Settle, Refuse, WriteReturns, Record, Advance, WriteFails, RecordFails,
             AdvanceFails, SettleStray, channelVars
    <2>2. events = <<>> => events' = <<>>
      BY <1>3
    <2>3. \/ leaving' = leaving /\ (ctx' = ctx \/ ctx' = "done")
          \/ leaving' = "yes" /\ ctx' = ctx /\ (ctx = "live" => chan = "closed" /\ events = <<>>) /\ pc = "select"
      BY DEF RunnerMoves, RunnerStep, RunnerFault, Receive, ReceiveBad, AddDoc, Tick,
             Finish, Settle, Refuse, WriteReturns, Record, Advance, WriteFails, RecordFails,
             AdvanceFails, SettleStray, channelVars, Stop
    <2>4. leaving' = "yes" /\ ctx' = "live" => chan' = "closed" /\ events' = <<>>
      BY <2>1, <2>2, <2>3 DEF ScannerInv
    <2>5. proc' = "down" => /\ chan' = "open" /\ leaving' = "no" /\ rowsRead' = 0
                            /\ events' = <<>> /\ pendingCursor' = 0
      <3>1. leaving' = leaving \/ proc = "up"
        BY DEF RunnerMoves, SettleStray
      <3> QED
        BY <1>5, <2>1, <2>2, <3>1 DEF ScannerInv
    <2> QED
      BY <2>1, <2>4, <2>5 DEF ScannerInv
  <1> QED
    BY <1>1, <1>7, <1>8, TypesJoin DEF Kept

\* emitChunk: the event of one row.
LEMMA RowEventType ==
  ASSUME TypeOK, ScannerInv, next <= upto
  PROVE  /\ RowEvent(next) \in Event /\ next \in TableRows
         /\ RowEvent(next).row = next
         /\ RowEvent(next).cursor # 0 => RowEvent(next).cursor = next
         /\ RowEvent(next).plan = "error" => RowEvent(next).docs = <<>>
         /\ RowEvent(next).plan = "ok" => \E d \in Elems(RowEvent(next).docs) : d.row = next /\ d.key = next
         /\ \A d \in Elems(RowEvent(next).docs) : d.row = next /\ OwnRow(d)
         /\ AtMostOne(RowEvent(next).docs)
  <1>1. /\ next \in 1..Len(Table) /\ upto \in 0..Len(Table) /\ from \in 0..Len(Table)
        /\ rowsRead \in 0..Len(Table) /\ from <= upto /\ rowsRead <= from
    BY TableFacts DEF TypeOK, ScannerInv
  <1>2. next \in TableRows /\ Table[next] \in Nat /\ Len(Table) \in Nat /\ TableRows = 1..Len(Table)
    BY <1>1, TableFacts
  <1> DEFINE x == [row |-> next, key |-> next, ver |-> BaseSeq, size |-> Table[next]]
             ds == IF next \in BadRows THEN <<>> ELSE <<x>>
  <1>3. x \in Doc /\ OwnRow(x) /\ x.row = next /\ x.key = next
    BY <1>2 DEF Doc, OwnRow
  <1> HIDE DEF x
  <1>4. ds \in Seq(Doc) /\ AtMostOne(ds)
    <2>1. CASE next \in BadRows
      BY <2>1 DEF AtMostOne
    <2>2. CASE next \notin BadRows
      <3>1. ds = <<x>> /\ <<x>> \in Seq(Doc) /\ Tail(<<x>>) = <<>>
        BY <1>3, <2>2
      <3> QED
        BY <3>1 DEF AtMostOne
    <2> QED
      BY <2>1, <2>2
  <1>5. /\ next \in BadRows => ds = <<>>
        /\ next \notin BadRows => Elems(ds) = {x}
    BY DEF Elems
  <1>6. RowEvent(next) = [row |-> next, docs |-> ds, gtid |-> {},
                          cursor |-> IF next = upto THEN upto ELSE 0,
                          rows |-> IF next = upto THEN rowsRead + upto - from ELSE 0,
                          plan |-> IF next \in BadRows THEN "error" ELSE "ok"]
    BY DEF RowEvent, x
  <1>7. Elems(<<>>) = {}
    BY ElemsEmpty
  <1>8. (IF next = upto THEN upto ELSE 0) \in 0..Len(Table)
    BY <1>1
  <1>9. (IF next = upto THEN rowsRead + upto - from ELSE 0) \in 0..Len(Table)
    BY <1>1, <1>2
  <1> HIDE DEF ds
  <1>10. RowEvent(next) \in Event
    BY <1>2, <1>4, <1>6, <1>8, <1>9 DEF Event
  <1> QED
    BY <1>2, <1>3, <1>4, <1>5, <1>6, <1>7, <1>10

LEMMA ReadChunkTypes ==
  ASSUME TypeOK, Hands, ScannerInv, ReadChunk
  PROVE  TypeOK' /\ Hands' /\ ScannerInv'
  <1>1. /\ UNCHANGED <<events, ctx, pc, leaving, todo, batch, inflight, rejected, stray, dest, dlq, faults>>
        /\ UNCHANGED <<pendingGTID, pendingCursor, pendingRows, gtidSet, cursor, rowsDone, proc, next,
                       rowsRead, snapshotDone>>
        /\ proc = "up" /\ scanner = "reading" /\ next > upto
    BY DEF ReadChunk, pendingVars, workVars, destVars, rowVars
  <1>2. /\ upto \in 0..Len(Table) /\ from \in 0..Len(Table) /\ next \in 1..(Len(Table) + 1)
        /\ rowsRead \in 0..Len(Table) /\ Len(Table) \in Nat /\ ChunkSize \in Nat
    BY TableFacts DEF TypeOK
  <1>3. next = upto + 1 /\ rowsRead <= upto
    BY <1>1, <1>2 DEF ScannerInv
  <1>4. Hands'
    BY <1>1 DEF Hands
  <1>5. CASE ChunkAfter(upto) # {} /\ from' = upto /\ UNCHANGED <<scanner, chan>>
             /\ upto' = upto + Cardinality(ChunkAfter(upto))
    <2>1. PICK n \in 1..ChunkSize : n = Cardinality(ChunkAfter(upto))
      BY <1>2, <1>5, ChunkSizes
    <2>2. upto' = upto + n /\ upto + n <= Len(Table) /\ (n < ChunkSize => upto + n = Len(Table))
      BY <1>2, <1>5, <2>1, ChunkSizes
    <2>3. Shape(Event, TableRows, {BaseSeq})'
      BY <1>1, <1>5, TypesSplit DEF Shape
    <2>4. Others'
      BY <1>1, <1>2, <1>5, <2>2 DEF Others, TypeOK
    <2>5. ScannerInv'
      <3>1. from' <= upto' /\ from' < next' /\ next' <= upto' + 1 /\ ~(next' > upto') /\ rowsRead' <= from'
        BY <1>1, <1>2, <1>3, <1>5, <2>2
      <3>2. upto' - from' < ChunkSize => upto' = Len(Table)
        BY <1>2, <1>5, <2>2
      <3> QED
        BY <1>1, <1>5, <3>1, <3>2 DEF ScannerInv
    <2> QED
      BY <1>4, <2>3, <2>4, <2>5, TypesJoin
  <1>6. CASE ChunkAfter(upto) = {} /\ scanner' = "done" /\ chan' = "closed" /\ UNCHANGED <<from, upto>>
    <2>1. upto = Len(Table)
      BY <1>2, <1>6, ChunkSizes
    <2>2. Shape(Event, TableRows, {BaseSeq})'
      BY <1>1, <1>6, TypesSplit DEF Shape
    <2>3. Others'
      BY <1>1, <1>6 DEF Others, TypeOK
    <2>4. next' > Len(Table)
      BY <1>1, <1>2, <1>3, <2>1
    <2>5. ScannerInv'
      BY <1>1, <1>6, <2>4 DEF ScannerInv
    <2> QED
      BY <1>4, <2>2, <2>3, <2>5, TypesJoin
  <1> QED
    BY <1>5, <1>6 DEF ReadChunk

LEMMA SendRowTypes ==
  ASSUME TypeOK, Hands, ScannerInv, SendRow
  PROVE  TypeOK' /\ Hands' /\ ScannerInv'
  <1>1. /\ UNCHANGED <<ctx, pc, leaving, todo, batch, inflight, rejected, stray, dest, dlq, faults>>
        /\ UNCHANGED <<pendingGTID, pendingCursor, pendingRows, gtidSet, cursor, rowsDone, proc,
                       from, upto, snapshotDone>>
        /\ proc = "up" /\ scanner = "reading" /\ next <= upto
        /\ events' = Append(events, RowEvent(next)) /\ Len(events) < ChunkSize
        /\ next' = next + 1
        /\ rowsRead' = IF next = upto THEN rowsRead + upto - from ELSE rowsRead
        /\ scanner' = IF next = upto /\ LastChunk THEN "done" ELSE "reading"
        /\ chan' = IF next = upto /\ LastChunk THEN "closed" ELSE "open"
    BY DEF SendRow, Room, pendingVars, workVars, destVars, rowVars
  <1>2. /\ upto \in 0..Len(Table) /\ from \in 0..Len(Table) /\ next \in 1..(Len(Table) + 1)
        /\ rowsRead \in 0..Len(Table) /\ Len(Table) \in Nat /\ ChunkSize \in Nat
    BY TableFacts DEF TypeOK
  <1>3. from <= upto /\ from < next /\ rowsRead <= from
    BY <1>1, <1>2 DEF ScannerInv
  <1> DEFINE e == RowEvent(next)
  <1>4. e \in Event /\ (e.plan = "error" => e.docs = <<>>)
    BY <1>1, RowEventType
  <1>5. events' = Append(events, e)
    BY <1>1
  <1> HIDE DEF e
  <1>6. /\ events' \in Seq(Event) /\ Elems(events') = Elems(events) \cup {e}
        /\ Len(events') = Len(events) + 1 /\ Len(events) \in Nat
    BY <1>4, <1>5, ElemsAppend, AppendProperties, LenProperties DEF TypeOK
  <1>7. chan' \in {"open", "closed"} /\ scanner' \in {"reading", "done"}
    BY <1>1
  <1>8. Shape(Event, TableRows, {BaseSeq})'
    BY <1>1, <1>6, <1>7, TypesSplit DEF Shape
  <1>9. next' \in 1..(Len(Table) + 1) /\ rowsRead' \in 0..Len(Table) /\ Len(events') <= ChunkSize
    BY <1>1, <1>2, <1>3, <1>6
  <1>10. Others'
    BY <1>1, <1>7, <1>9 DEF Others, TypeOK
  <1>11. Hands'
    BY <1>1, <1>4, <1>6 DEF Hands
  <1>12. ScannerInv'
    <2>1. /\ from' <= upto' /\ from' < next' /\ next' <= upto' + 1
          /\ rowsRead' <= IF next' > upto' THEN upto' ELSE from'
      BY <1>1, <1>2, <1>3
    <2>2. from' < upto' /\ upto' - from' < ChunkSize => upto' = Len(Table)
      BY <1>1 DEF ScannerInv
    <2>3. scanner' = "done" => next' > Len(Table)
      <3> SUFFICES ASSUME next = upto, upto - from < ChunkSize PROVE next + 1 > Len(Table)
        BY <1>1 DEF LastChunk
      <3>1. upto = Len(Table)
        BY <1>3 DEF ScannerInv
      <3> QED
        BY <1>2, <3>1
    <2>4. chan' = "closed" => scanner' # "reading"
      BY <1>1
    <2>5. ~(leaving' = "yes" /\ ctx' = "live")
      BY <1>1 DEF ScannerInv
    <2> QED
      BY <1>1, <2>1, <2>2, <2>3, <2>4, <2>5 DEF ScannerInv
  <1> QED
    BY <1>8, <1>10, <1>11, <1>12, TypesJoin

\* The steps that stop the scanner, cancel the context or end the scan.
Ends == ScannerStops \/ Sigterm \/ FinishScan

LEMMA EndsTypes ==
  ASSUME TypeOK, Hands, ScannerInv, Ends
  PROVE  /\ TypeOK' /\ Hands' /\ ScannerInv'
         /\ UNCHANGED <<events, pc, leaving, todo, batch, inflight, rejected, stray, dest, dlq>>
         /\ UNCHANGED <<pendingCursor, cursor, proc, next>>
         /\ ctx' = ctx \/ ctx' = "done"
  <1>1. /\ UNCHANGED <<events, pc, leaving, todo, batch, inflight, rejected, stray, dest, dlq>>
        /\ UNCHANGED <<pendingGTID, pendingCursor, pendingRows, gtidSet, cursor, rowsDone, proc,
                       from, next, upto, rowsRead>>
        /\ ctx' = ctx \/ ctx' = "done"
        /\ \/ scanner' = "stopped" /\ chan' = "closed"
           \/ UNCHANGED <<scanner, chan>>
        /\ proc = "up" /\ snapshotDone' \in BOOLEAN
    BY DEF Ends, ScannerStops, Sigterm, FinishScan, runnerVars, channelVars, pendingVars, workVars,
           destVars, rowVars, scanVars, TypeOK
  <1>2. faults' \in 0..MaxFaults
    <2>1. CASE ScannerStops
      BY <2>1, CallFailsType DEF ScannerStops, TypeOK
    <2>2. CASE Sigterm \/ FinishScan
      BY <2>2, FaultAssumption DEF Sigterm, FinishScan, Fault, runnerVars, TypeOK
    <2> QED
      BY <2>1, <2>2 DEF Ends
  <1>3. Shape(Event, TableRows, {BaseSeq})'
    BY <1>1, <1>2, TypesSplit DEF Shape
  <1>4. Others'
    BY <1>1 DEF Others, TypeOK
  <1>5. Hands'
    BY <1>1 DEF Hands
  <1>6. ScannerInv'
    BY <1>1 DEF ScannerInv
  <1> QED
    BY <1>1, <1>3, <1>4, <1>5, <1>6, TypesJoin

LEMMA DownTypes ==
  ASSUME TypeOK, Hands, Crash \/ Exit
  PROVE  /\ TypeOK' /\ Hands' /\ ScannerInv' /\ Drains /\ Pipe' = {} /\ events' = <<>>
         /\ pendingCursor' = 0 /\ proc' = "down" /\ next' = 1
         /\ todo' = <<>> /\ batch' = EmptyBatch /\ pc' = "select"
         /\ UNCHANGED <<dest, dlq, cursor, snapshotDone>>
  <1>1. /\ Lose /\ proc' = "down" /\ scanner' = "stopped" /\ from' = 0 /\ next' = 1 /\ upto' = 0
        /\ rowsRead' = 0 /\ UNCHANGED <<gtidSet, cursor, rowsDone, snapshotDone>>
    BY DEF Crash, Exit, Down, rowVars
  <1>2. faults' \in 0..MaxFaults
    BY FaultAssumption DEF Crash, Exit, Fault, TypeOK
  <1>3. Shape(Event, TableRows, {BaseSeq})' /\ Hands' /\ Drains /\ Pipe' = {}
    BY <1>1, <1>2, TypesSound, LoseKeeps
  <1>4. /\ events' = <<>> /\ pendingGTID' = {} /\ pendingCursor' = 0 /\ pendingRows' = 0
        /\ chan' = "open" /\ leaving' = "no" /\ UNCHANGED <<dest, dlq>> /\ Len(events') = 0
        /\ todo' = <<>> /\ batch' = EmptyBatch /\ pc' = "select"
    BY <1>1 DEF Lose
  <1>5. Others'
    <2>1. /\ 0 \in 0..Len(Table) /\ 1 \in 1..(Len(Table) + 1) /\ Len(events') <= ChunkSize
      BY <1>4, TableFacts
    <2> QED
      BY <1>1, <1>4, <2>1 DEF Others, TypeOK
  <1>6. ScannerInv'
    BY <1>1, <1>4 DEF ScannerInv
  <1> QED
    BY <1>1, <1>3, <1>4, <1>5, <1>6, TypesJoin

LEMMA RestartTypes ==
  ASSUME TypeOK, Hands, ScannerInv, Restart
  PROVE  TypeOK' /\ Hands' /\ ScannerInv' /\ UNCHANGED runnerVars
  <1>1. /\ UNCHANGED <<runnerVars, rowsRead, snapshotDone>> /\ proc = "down"
        /\ proc' = "up" /\ scanner' = "reading" /\ from' = cursor /\ upto' = cursor
        /\ next' = cursor + 1
    BY DEF Restart
  <1>2. cursor \in 0..Len(Table) /\ Len(Table) \in Nat
    BY TableFacts DEF TypeOK
  <1>3. Shape(Event, TableRows, {BaseSeq})'
    BY <1>1, TypesSplit DEF Shape, runnerVars, channelVars, workVars, destVars
  <1>4. Others'
    BY <1>1, <1>2 DEF Others, TypeOK, runnerVars, channelVars, pendingVars, rowVars
  <1>5. Hands'
    BY <1>1 DEF Hands, runnerVars, channelVars, workVars
  <1>6. ScannerInv'
    <2>1. chan' = "open" /\ leaving' = "no" /\ rowsRead' = 0 /\ events' = <<>>
      BY <1>1 DEF ScannerInv, runnerVars, channelVars
    <2>2. from' <= upto' /\ from' < next' /\ next' <= upto' + 1 /\ ~(from' < upto') /\ 0 <= upto' /\ 0 <= from'
      BY <1>1, <1>2
    <2> QED
      BY <1>1, <2>1, <2>2 DEF ScannerInv
  <1> QED
    BY <1>1, <1>3, <1>4, <1>5, <1>6, TypesJoin

\* Every step is one of these.
LEMMA Steps ==
  ASSUME [Next]_vars
  PROVE  \/ RunnerMoves \/ ReadChunk \/ SendRow \/ Ends \/ Crash \/ Exit \/ Restart
         \/ UNCHANGED vars
  BY DEF Next, Progress, ScannerStep, RunnerActs, RunnerBreaks, LateWrite, RunnerMoves, Ends, Idle

LEMMA StutterTypes ==
  ASSUME TypeOK, Hands, ScannerInv, UNCHANGED vars
  PROVE  TypeOK' /\ Hands' /\ ScannerInv'
  <1>1. TypeOK'
    BY DEF TypeOK, vars, runnerVars, channelVars, pendingVars, workVars, destVars, rowVars, scanVars
  <1>2. Hands' /\ ScannerInv'
    BY DEF Hands, ScannerInv, vars, runnerVars, channelVars, pendingVars, workVars, scanVars
  <1> QED
    BY <1>1, <1>2

LEMMA NextTypes ==
  ASSUME TypeOK, Hands, ScannerInv, [Next]_vars
  PROVE  TypeOK' /\ Hands' /\ ScannerInv'
  BY Steps, RunnerTypes, ReadChunkTypes, SendRowTypes, EndsTypes, DownTypes, RestartTypes,
     StutterTypes

\* Every variable of a scan keeps its type: in particular no cursor and no row
\* count ever exceeds the table, and the channel holds at most one chunk.
THEOREM TypeCorrect == Spec => []TypeOK
  <1>1. Init => TypeOK /\ Hands /\ ScannerInv
    BY InitTypes
  <1>2. (TypeOK /\ Hands /\ ScannerInv) /\ [Next]_vars => (TypeOK /\ Hands /\ ScannerInv)'
    BY NextTypes
  <1> QED
    BY <1>1, <1>2, PTL DEF Spec

-----------------------------------------------------------------------------
(* Cursors                                                                   *)

\* What the scanner adds to the pipe.
LEMMA SendRowAdds ==
  ASSUME TypeOK, ScannerInv, SendRow
  PROVE  \E e \in Event :
           /\ events' = Append(events, e)
           /\ Elems(events') = Elems(events) \cup {e} /\ Pipe' = Pipe \cup Elems(e.docs)
           /\ e.row = next /\ (e.cursor # 0 => e.cursor = next) /\ e.plan \in {"ok", "error"}
           /\ \A d \in Elems(e.docs) : d.row = next /\ OwnRow(d)
           /\ e.plan = "ok" => \E d \in Elems(e.docs) : d.row = next /\ d.key = next
           /\ AtMostOne(e.docs)
  <1>1. /\ next <= upto /\ events' = Append(events, RowEvent(next))
        /\ UNCHANGED <<todo, batch, inflight>> /\ events \in Seq(Event)
    BY DEF SendRow, workVars, TypeOK
  <1> DEFINE e == RowEvent(next)
  <1>2. /\ e \in Event /\ e.row = next /\ (e.cursor # 0 => e.cursor = next)
        /\ \A d \in Elems(e.docs) : d.row = next /\ OwnRow(d)
        /\ e.plan = "ok" => \E d \in Elems(e.docs) : d.row = next /\ d.key = next
        /\ AtMostOne(e.docs)
    BY <1>1, RowEventType
  <1>3. events' = Append(events, e)
    BY <1>1
  <1> HIDE DEF e
  <1>4. Elems(events') = Elems(events) \cup {e} /\ QueuedIn(events') = QueuedIn(events) \cup Elems(e.docs)
    BY <1>1, <1>2, <1>3, ElemsAppend, QueuedAppend
  <1>5. Pipe' = Pipe \cup Elems(e.docs)
    BY <1>1, <1>4 DEF Pipe
  <1>6. e.plan \in {"ok", "error"}
    BY <1>2 DEF Event
  <1> QED
    BY <1>2, <1>3, <1>4, <1>5, <1>6

LEMMA RunnerCursors ==
  ASSUME TypeOK, CursorInv, RunnerMoves
  PROVE  CursorInv'
  <1>1. next' = next /\ events \in Seq(Event)
    BY DEF RunnerMoves, scanVars, TypeOK
  <1>2. events' = events \/ (events # <<>> /\ events' = Tail(events))
    BY EventsMove DEF RunnerMoves
  <1>3. /\ \A i \in DOMAIN events :
             /\ events[i].row < next /\ events[i].row > pendingCursor
             /\ events[i].cursor # 0 => events[i].cursor = events[i].row
        /\ \A i, j \in DOMAIN events : i < j => events[i].row < events[j].row
        /\ pendingCursor < next
    BY DEF CursorInv
  <1>4. /\ \A i \in DOMAIN events' :
             /\ events'[i].row < next /\ events'[i].row > pendingCursor
             /\ events'[i].cursor # 0 => events'[i].cursor = events'[i].row
        /\ \A i, j \in DOMAIN events' : i < j => events'[i].row < events'[j].row
    <2>1. CASE events' = events
      BY <1>3, <2>1
    <2>2. CASE events # <<>> /\ events' = Tail(events)
      <3>1. \A i \in DOMAIN events' : i \in Nat /\ i + 1 \in DOMAIN events /\ events'[i] = events[i + 1]
        BY <1>1, <2>2, TailShifts
      <3>2. \A i, j \in DOMAIN events' : i < j => i + 1 < j + 1
        BY <3>1
      <3> QED
        BY <1>3, <3>1, <3>2
    <2> QED
      BY <1>2, <2>1, <2>2
  <1>5. CASE Receive
    <2>1. events # <<>> /\ events' = Tail(events) /\ Note(Head(events))
      BY <1>5 DEF Receive
    <2>2. 1 \in DOMAIN events /\ Head(events) = events[1]
      BY <1>1, <2>1, TailShifts
    <2>3. \A i \in DOMAIN events' : i + 1 \in DOMAIN events /\ events'[i] = events[i + 1] /\ 1 < i + 1
      BY <1>1, <2>1, TailShifts
    <2>4. \A i \in DOMAIN events' : events[1].row < events'[i].row
      BY <1>3, <2>2, <2>3
    <2>5. pendingCursor' = pendingCursor \/ pendingCursor' = events[1].row
      BY <1>3, <2>1, <2>2 DEF Note
    <2>6. events[1].row \in Nat /\ \A i \in DOMAIN events' : events'[i].row \in Nat
      <3>1. \A i \in DOMAIN events : events[i] \in Event
        BY <1>1, LenProperties, ElementOfSeq
      <3>2. \A i \in DOMAIN events : events[i].row \in Nat
        BY <3>1, TableFacts DEF Event
      <3> QED
        BY <2>2, <2>3, <3>2
    <2>7. pendingCursor' < next /\ \A i \in DOMAIN events' : events'[i].row > pendingCursor'
      BY <1>3, <1>4, <2>2, <2>4, <2>5, <2>6
    <2> QED
      BY <1>1, <1>4, <2>7 DEF CursorInv
  <1>6. CASE UNCHANGED pendingVars
    <2>1. pendingCursor' = pendingCursor
      BY <1>6 DEF pendingVars
    <2> QED
      BY <1>1, <1>3, <1>4, <2>1 DEF CursorInv
  <1> QED
    BY <1>5, <1>6, PositionsMove DEF RunnerMoves

LEMMA NextCursors ==
  ASSUME TypeOK, Hands, ScannerInv, CursorInv, [Next]_vars
  PROVE  CursorInv'
  <1>1. CASE RunnerMoves
    BY <1>1, RunnerCursors
  <1>2. CASE ReadChunk \/ Ends \/ UNCHANGED vars
    <2>1. UNCHANGED <<events, pendingCursor, next>>
      BY <1>2, EndsTypes DEF ReadChunk, vars, runnerVars, channelVars, pendingVars, scanVars
    <2> QED
      BY <2>1 DEF CursorInv
  <1>3. CASE SendRow
    <2>1. PICK e \in Event : /\ events' = Append(events, e)
                            /\ e.row = next /\ (e.cursor # 0 => e.cursor = next)
      BY <1>3, SendRowAdds
    <2>2. next' = next + 1 /\ pendingCursor' = pendingCursor
      BY <1>3 DEF SendRow, pendingVars
    <2>3. events \in Seq(Event) /\ next \in Nat /\ pendingCursor \in Nat
      BY TableFacts DEF TypeOK
    <2>4. PICK n \in Nat : /\ n = Len(events) /\ DOMAIN events = 1..n /\ DOMAIN events' = 1..(n + 1)
                           /\ \A i \in 1..n : events'[i] = events[i]
                           /\ events'[n + 1] = e
      <3>1. /\ events' \in Seq(Event) /\ Len(events') = Len(events) + 1
            /\ \A i \in 1..Len(events) : events'[i] = events[i]
            /\ events'[Len(events) + 1] = e
        BY <2>1, <2>3, AppendProperties
      <3>2. /\ DOMAIN events = 1..Len(events) /\ Len(events) \in Nat
            /\ DOMAIN events' = 1..(Len(events) + 1)
        BY <2>3, <3>1, LenProperties
      <3> QED
        BY <3>1, <3>2
    <2>5. \A i \in DOMAIN events' : i = n + 1 \/ (i \in DOMAIN events /\ events'[i] = events[i])
      BY <2>4
    <2>6. \A i \in DOMAIN events : events[i].row \in Nat
      <3>1. \A i \in DOMAIN events : events[i] \in Event
        BY <2>3, LenProperties, ElementOfSeq
      <3> QED
        BY <3>1, TableFacts DEF Event
    <2>7. \A i \in DOMAIN events' :
            /\ events'[i].row < next' /\ events'[i].row > pendingCursor'
            /\ events'[i].cursor # 0 => events'[i].cursor = events'[i].row
      BY <2>1, <2>2, <2>3, <2>4, <2>5, <2>6 DEF CursorInv
    <2>8. \A i, j \in DOMAIN events' : i < j => events'[i].row < events'[j].row
      <3> SUFFICES ASSUME NEW i \in DOMAIN events', NEW j \in DOMAIN events', i < j
                   PROVE  events'[i].row < events'[j].row
        OBVIOUS
      <3>1. i \in DOMAIN events /\ events'[i] = events[i]
        BY <2>4
      <3>2. CASE j = n + 1
        BY <2>1, <2>4, <3>1, <3>2 DEF CursorInv
      <3>3. CASE j # n + 1
        BY <2>5, <3>1, <3>3 DEF CursorInv
      <3> QED
        BY <3>2, <3>3
    <2>9. pendingCursor' < next'
      BY <2>2, <2>3 DEF CursorInv
    <2> QED
      BY <2>7, <2>8, <2>9 DEF CursorInv
  <1>4. CASE Crash \/ Exit
    <2>1. events' = <<>> /\ pendingCursor' = 0 /\ next' = 1
      BY <1>4, DownTypes
    <2>2. DOMAIN events' = {}
      BY <2>1
    <2> QED
      BY <2>1, <2>2 DEF CursorInv
  <1>5. CASE Restart
    <2>1. /\ proc = "down" /\ next' = cursor + 1 /\ UNCHANGED <<events, pendingCursor>>
      BY <1>5 DEF Restart, runnerVars, channelVars, pendingVars
    <2>2. events' = <<>> /\ pendingCursor' = 0 /\ cursor \in Nat
      BY <2>1, TableFacts DEF ScannerInv, TypeOK
    <2>3. DOMAIN events' = {}
      BY <2>2
    <2> QED
      BY <2>1, <2>2, <2>3 DEF CursorInv
  <1> QED
    BY <1>1, <1>2, <1>3, <1>4, <1>5, Steps

-----------------------------------------------------------------------------
(* Rows and batches                                                          *)

\* The steps that leave everything between the source and the destination alone.
LEMMA QuietSteps ==
  ASSUME TypeOK, Hands, ScannerInv, ReadChunk \/ Ends \/ Restart \/ UNCHANGED vars
  PROVE  /\ UNCHANGED <<events, todo, batch, inflight, rejected, stray, dest, dlq, pc, cursor>>
         /\ Pipe' = Pipe /\ (Healthy' => Healthy)
  <1>1. UNCHANGED <<events, todo, batch, inflight, rejected, stray, dest, dlq, pc, cursor>>
    BY EndsTypes DEF ReadChunk, Restart, vars, runnerVars, channelVars, workVars, destVars, rowVars
  <1>2. ctx' = ctx \/ ctx' = "done"
    BY EndsTypes DEF ReadChunk, Restart, vars, runnerVars, channelVars
  <1> QED
    BY <1>1, <1>2 DEF Pipe, Healthy

LEMMA NextRows ==
  ASSUME TypeOK, Hands, ScannerInv, RowsInv, [Next]_vars
  PROVE  RowsInv'
  <1>1. CASE RunnerMoves
    <2>1. Sound(Event, TableRows, {BaseSeq}) /\ Drains
      BY <1>1, TypesSound, RunnerKeeps DEF RunnerMoves, Kept
    <2>2. Feeds(Event, TableRows, {BaseSeq}) /\ Shape(Event, TableRows, {BaseSeq})
      BY <2>1 DEF Sound
    <2>3. /\ \A e \in Elems(events') : AtMostOne(e.docs) /\ \A d \in Elems(e.docs) : d.row = e.row
          /\ \A d \in Pipe' \cup stray' : OwnRow(d)
      BY <2>1 DEF Drains, RowsInv
    <2>4. \A k \in Keys : dest'[k].ver > 0 => dest'[k].row = k
      <3>1. CASE dest' = dest
        BY <3>1 DEF RowsInv
      <3>2. ASSUME NEW d \in Pipe \cup stray, Apply(d)
            PROVE  \A k \in Keys : dest'[k].ver > 0 => dest'[k].row = k
        <4>1. d \in Documents(TableRows, {BaseSeq}) /\ d.row = d.key
          BY <2>2, PipeType DEF Shape, RowsInv, OwnRow
        <4>2. \A k \in Keys : dest'[k] = dest[k] \/ (k = d.key /\ dest'[k].row = d.row)
          BY <2>2, <3>2, <4>1, ApplyType
        <4> QED
          BY <4>1, <4>2 DEF RowsInv
      <3> QED
        BY <2>1, <3>1, <3>2 DEF Drains
    <2>5. AtMostOne(todo')
      <3>1. CASE Receive
        <4>1. events # <<>> /\ todo' = Head(events).docs
          BY <3>1 DEF Receive
        <4>2. Head(events) \in Elems(events)
          BY <4>1, ElemsTail DEF TypeOK
        <4> QED
          BY <4>1, <4>2 DEF RowsInv
      <3>2. CASE AddDoc
        <4>1. todo # <<>> /\ todo' = Tail(todo)
          BY <3>2 DEF AddDoc
        <4> QED
          BY <4>1 DEF RowsInv, AtMostOne
      <3>3. CASE ~Receive /\ ~AddDoc
        <4>1. todo' = todo \/ todo' = <<>>
          BY <1>1, <3>3 DEF RunnerMoves, RunnerStep, RunnerFault, ReceiveBad, Tick, Finish, Settle,
             Refuse, WriteReturns, Record, Advance, WriteFails, RecordFails, AdvanceFails, SettleStray,
             workVars, Stop
        <4> QED
          BY <4>1 DEF RowsInv, AtMostOne
      <3> QED
        BY <3>1, <3>2, <3>3
    <2> QED
      BY <2>3, <2>4, <2>5 DEF RowsInv
  <1>2. CASE ReadChunk \/ Ends \/ Restart \/ UNCHANGED vars
    <2>1. UNCHANGED <<events, todo, stray, dest>> /\ Pipe' = Pipe
      BY <1>2, QuietSteps
    <2> QED
      BY <2>1 DEF RowsInv
  <1>3. CASE SendRow
    <2>1. PICK e \in Event :
            /\ Elems(events') = Elems(events) \cup {e} /\ Pipe' = Pipe \cup Elems(e.docs)
            /\ e.row = next /\ AtMostOne(e.docs)
            /\ \A d \in Elems(e.docs) : d.row = next /\ OwnRow(d)
      BY <1>3, SendRowAdds
    <2>2. UNCHANGED <<todo, stray, dest>>
      BY <1>3 DEF SendRow, workVars, destVars
    <2> QED
      BY <2>1, <2>2 DEF RowsInv
  <1>4. CASE Crash \/ Exit
    <2>1. Drains /\ dest' = dest /\ todo' = <<>>
      BY <1>4, DownTypes
    <2> QED
      BY <2>1 DEF RowsInv, Drains, AtMostOne
  <1> QED
    BY <1>1, <1>2, <1>3, <1>4, Steps

LEMMA TimesMonotone ==
  ASSUME NEW m \in Nat, NEW n \in Nat, m <= n, NEW S \in Nat
  PROVE  m * S <= n * S /\ (m + 1) * S = m * S + S
  OBVIOUS

\* When a full batch of rows fits, no row makes the batch before it leave.
LEMMA AddFits ==
  ASSUME NEW D, NEW S \in Nat, MaxRows * S <= MaxBytes,
         NEW b \in Batches(D), Len(b.docs) < MaxRows, b.bytes <= Len(b.docs) * S,
         NEW d \in D, d.size \in Nat, d.size <= S
  PROVE  \/ Add(b, d).keep = EmptyBatch
         \/ /\ Add(b, d).out = <<>>
            /\ Len(Add(b, d).keep.docs) < MaxRows
            /\ Add(b, d).keep.bytes <= Len(Add(b, d).keep.docs) * S
  <1>1. b.docs \in Seq(D) /\ b.bytes \in Nat /\ MaxRows \in Nat /\ MaxBytes \in Nat
    BY LimitsAssumption DEF Batches
  <1>2. PICK n \in Nat : n = Len(b.docs)
    BY <1>1, LenProperties
  <1>3. n + 1 <= MaxRows
    BY <1>1, <1>2
  <1>4. (n + 1) * S <= MaxRows * S /\ (n + 1) * S = n * S + S
    BY <1>1, <1>3, TimesMonotone
  <1>5. PICK p, q, m \in Nat : p = n * S /\ q = (n + 1) * S /\ m = MaxRows * S
    BY <1>1
  <1>6. b.bytes + d.size <= q /\ b.bytes + d.size <= MaxBytes
    BY <1>1, <1>2, <1>4, <1>5
  <1>7. ~Overflows(b, d)
    BY <1>1, <1>6 DEF Overflows
  <1>8. /\ Appended(b, d).docs = Append(b.docs, d) /\ Len(Appended(b, d).docs) = n + 1
        /\ Appended(b, d).bytes = b.bytes + d.size
    BY <1>1, <1>2, AppendProperties DEF Appended
  <1>9. \/ Add(b, d) = [keep |-> EmptyBatch, out |-> Appended(b, d).docs]
        \/ Add(b, d) = [keep |-> Appended(b, d), out |-> <<>>] /\ ~Completes(b, d)
    BY <1>7 DEF Add, Completes, Oversized, Overflows
  <1>10. ~Completes(b, d) => n + 1 < MaxRows
    BY <1>1, <1>8 DEF Completes
  <1>11. Appended(b, d).bytes <= Len(Appended(b, d).docs) * S
    <2>1. Len(Appended(b, d).docs) * S = q
      BY <1>5, <1>8, Zenon
    <2> QED
      BY <1>6, <1>8, <2>1
  <1>12. CASE Add(b, d) = [keep |-> Appended(b, d), out |-> <<>>] /\ ~Completes(b, d)
    <2>1. Add(b, d).keep = Appended(b, d) /\ Add(b, d).out = <<>>
      BY <1>12
    <2>2. Len(Add(b, d).keep.docs) < MaxRows
      BY <1>8, <1>10, <1>12, <2>1
    <2>3. Add(b, d).keep.bytes <= Len(Add(b, d).keep.docs) * S
      BY <1>11, <2>1, Zenon
    <2> QED
      BY <2>1, <2>2, <2>3
  <1>13. CASE Add(b, d) = [keep |-> EmptyBatch, out |-> Appended(b, d).docs]
    BY <1>13
  <1> QED
    BY <1>9, <1>12, <1>13

LEMMA RunnerBatches ==
  ASSUME NEW S \in Nat, RowsFit(S), TypeOK, Hands, RowsInv, BatchInv(S), RunnerMoves
  PROVE  BatchInv(S)'
  <1>1. Sound(Event, TableRows, {BaseSeq})
    BY TypesSound
  <1>2. Feeds(Event, TableRows, {BaseSeq}) /\ Shape(Event, TableRows, {BaseSeq})
    BY <1>1 DEF Sound
  <1>3. EmptyBatch.docs = <<>> /\ EmptyBatch.bytes = 0 /\ Len(<<>>) = 0 /\ 0 * S = 0
    BY DEF EmptyBatch
  <1>4. Len(EmptyBatch.docs) < MaxRows /\ EmptyBatch.bytes <= Len(EmptyBatch.docs) * S
    <2>1. 0 < MaxRows
      BY LimitsAssumption
    <2>2. Len(EmptyBatch.docs) = 0 /\ Len(EmptyBatch.docs) * S = 0
      BY <1>3, Zenon
    <2> QED
      BY <1>3, <2>1, <2>2
  <1>5. CASE AddDoc
    <2>1. todo # <<>> /\ todo' = Tail(todo)
      BY <1>5 DEF AddDoc
    <2>2. PICK d \in Documents(TableRows, {BaseSeq}) : d = Head(todo) /\ d \in Elems(todo)
      BY <1>2, <2>1, ElemsTail DEF Shape
    <2>3. todo' = <<>>
      BY <2>1 DEF RowsInv, AtMostOne
    <2>4. PICK out, keep : out = Add(batch, d).out /\ keep = Add(batch, d).keep
      OBVIOUS
    <2>5. batch' = keep /\ pc' = IF out = <<>> THEN Resume(todo') ELSE "write"
      BY <1>5, <2>1, <2>2, <2>4 DEF AddDoc
    <2>6. d.size \in Nat /\ d.size <= S
      <3>1. d \in Pipe /\ d.row \in TableRows /\ d.size \in Nat
        BY <2>2 DEF Pipe, Documents
      <3> QED
        BY <3>1 DEF RowsInv, OwnRow, RowsFit
    <2>7. \/ keep = EmptyBatch
          \/ out = <<>> /\ Len(keep.docs) < MaxRows /\ keep.bytes <= Len(keep.docs) * S
      <3>1. /\ batch \in Batches(Documents(TableRows, {BaseSeq})) /\ MaxRows * S <= MaxBytes
            /\ Len(batch.docs) < MaxRows /\ batch.bytes <= Len(batch.docs) * S
        BY <1>2 DEF Shape, RowsFit, BatchInv
      <3> QED
        BY <2>4, <2>6, <3>1, AddFits
    <2>8. Resume(todo') \in {"done", "select", "add"}
      BY <1>2 DEF Resume, Shape
    <2>9. CASE keep = EmptyBatch
      BY <1>3, <1>4, <2>3, <2>5, <2>9 DEF BatchInv
    <2>10. CASE out = <<>> /\ Len(keep.docs) < MaxRows /\ keep.bytes <= Len(keep.docs) * S
      BY <2>5, <2>8, <2>10 DEF BatchInv, Writing
    <2> QED
      BY <2>7, <2>9, <2>10
  <1>6. CASE Tick \/ Finish
    <2>1. pc = "select" /\ todo' = todo /\ (Flush \/ (batch' = batch /\ pc' = "done"))
      BY <1>6 DEF Tick, Finish
    <2>2. todo = <<>>
      BY <2>1 DEF Hands
    <2>3. CASE Flush
      BY <1>3, <1>4, <2>1, <2>2, <2>3 DEF Flush, BatchInv
    <2>4. CASE batch' = batch /\ pc' = "done"
      BY <2>4 DEF BatchInv, Writing
    <2> QED
      BY <2>1, <2>3, <2>4
  <1>7. CASE ~AddDoc /\ ~Tick /\ ~Finish
    <2>1. batch' = batch
      BY <1>7 DEF RunnerMoves, RunnerStep, RunnerFault, Receive, ReceiveBad, Settle, Refuse,
         WriteReturns, Record, Advance, WriteFails, RecordFails, AdvanceFails, SettleStray, workVars
    <2>2. Writing' => Writing /\ todo' = todo
      <3>1. CASE Receive \/ ReceiveBad \/ RunnerFault
        BY <3>1 DEF Receive, ReceiveBad, RunnerFault, WriteFails, RecordFails, AdvanceFails, Stop, Writing
      <3>2. CASE Settle \/ Refuse \/ WriteReturns \/ Record \/ SettleStray
        BY <3>2 DEF Settle, Refuse, WriteReturns, Record, SettleStray, workVars, Writing
      <3>3. CASE Advance
        BY <3>3 DEF Advance, workVars, Writing
      <3> QED
        BY <1>7, <3>1, <3>2, <3>3 DEF RunnerMoves, RunnerStep
    <2> QED
      BY <2>1, <2>2 DEF BatchInv
  <1> QED
    BY <1>5, <1>6, <1>7

LEMMA EmptyFits ==
  ASSUME NEW S \in Nat, batch = EmptyBatch, pc = "select"
  PROVE  BatchInv(S)
  <1>1. EmptyBatch.docs = <<>> /\ EmptyBatch.bytes = 0 /\ Len(<<>>) = 0 /\ 0 * S = 0
    BY DEF EmptyBatch
  <1>2. 0 < MaxRows
    BY LimitsAssumption
  <1>3. Len(EmptyBatch.docs) = 0 /\ Len(EmptyBatch.docs) * S = 0
    BY <1>1, Zenon
  <1> QED
    BY <1>1, <1>2, <1>3 DEF BatchInv, Writing

LEMMA NextBatches ==
  ASSUME NEW S \in Nat, RowsFit(S), TypeOK, Hands, ScannerInv, RowsInv, BatchInv(S), [Next]_vars
  PROVE  BatchInv(S)'
  <1>1. CASE RunnerMoves
    BY <1>1, RunnerBatches
  <1>2. CASE ReadChunk \/ Ends \/ Restart \/ UNCHANGED vars
    <2>1. UNCHANGED <<todo, batch, pc>>
      BY <1>2, QuietSteps
    <2> QED
      BY <2>1 DEF BatchInv, Writing
  <1>3. CASE SendRow
    <2>1. UNCHANGED <<todo, batch, pc>>
      BY <1>3 DEF SendRow, workVars
    <2> QED
      BY <2>1 DEF BatchInv, Writing
  <1>4. CASE Crash \/ Exit
    <2>1. batch' = EmptyBatch /\ pc' = "select"
      BY <1>4, DownTypes
    <2>2. EmptyBatch.docs = <<>> /\ EmptyBatch.bytes = 0 /\ Len(<<>>) = 0 /\ 0 * S = 0
      BY DEF EmptyBatch
    <2>3. 0 < MaxRows
      BY LimitsAssumption
    <2>4. Len(EmptyBatch.docs) = 0 /\ Len(EmptyBatch.docs) * S = 0
      BY <2>2, Zenon
    <2> QED
      BY <2>1, <2>2, <2>3, <2>4 DEF BatchInv, Writing
  <1> QED
    BY <1>1, <1>2, <1>3, <1>4, Steps

-----------------------------------------------------------------------------
(* Delivery                                                                  *)

\* Two documents of one key are the same row.
LEMMA RowsOrdered ==
  ASSUME TypeOK, Hands, RowsInv
  PROVE  Ordered
  <1>1. Feeds(Event, TableRows, {BaseSeq}) /\ Shape(Event, TableRows, {BaseSeq})
    BY TypesSound DEF Sound
  <1> SUFFICES ASSUME NEW d \in Pipe
               PROVE  /\ dest[d.key].ver >= d.ver => dest[d.key].row >= d.row
                      /\ \A c \in Pipe \cup stray : c.key = d.key /\ c.ver >= d.ver => c.row >= d.row
    BY DEF Ordered
  <1>2. d \in Documents(TableRows, {BaseSeq})
    BY <1>1, PipeType
  <1>3. d.key \in Keys /\ d.ver = 1 /\ d.row \in Nat
    BY <1>1, <1>2, DocNat DEF Documents, BaseSeq
  <1>4. dest[d.key].ver \in Nat
    BY <1>1, <1>3, DestNat
  <1>5. d.row = d.key /\ \A c \in Pipe \cup stray : c.row = c.key
    BY DEF RowsInv, OwnRow
  <1>6. dest[d.key].ver >= d.ver => dest[d.key].row = d.row
    BY <1>3, <1>4, <1>5 DEF RowsInv
  <1> QED
    BY <1>3, <1>5, <1>6

\* When a cursor is recorded, no row up to it is held any more.
LEMMA CoveredNotHeld ==
  ASSUME NEW S \in Nat, TypeOK, Hands, CursorInv, RowsInv, BatchInv(S), pc = "advance",
         NEW r \in TableRows, r <= pendingCursor
  PROVE  ~Held(r, r)
  <1>1. inflight = {} /\ rejected = {} /\ todo = <<>> /\ batch.docs = <<>>
    BY DEF Hands, BatchInv, Writing
  <1>2. Elems(todo) = {} /\ Elems(batch.docs) = {}
    BY <1>1, ElemsEmpty
  <1>3. \A e \in Elems(events) : e.row > pendingCursor /\ e.row \in Nat
    <2>1. \A e \in Elems(events) : e \in Event
      BY ElemsType DEF TypeOK
    <2> QED
      BY <2>1, TableFacts DEF CursorInv, Elems, Event
  <1>4. r \in Nat /\ pendingCursor \in Nat
    BY TableFacts DEF TypeOK
  <1>5. \A e \in Elems(events) : e.row # r
    BY <1>3, <1>4
  <1>6. ~\E d \in Pipe : d.row = r
    BY <1>1, <1>2, <1>5 DEF Pipe, QueuedIn, RowsInv
  <1> QED
    BY <1>1, <1>5, <1>6 DEF Held

\* A runner that has returned without an error holds nothing.
LEMMA FinishedHoldsNothing ==
  ASSUME Hands, ScannerInv, pc = "done", ctx = "live", NEW r
  PROVE  ~Held(r, r)
  <1>1. /\ leaving = "yes" /\ todo = <<>> /\ batch.docs = <<>> /\ inflight = {} /\ rejected = {}
    BY DEF Hands
  <1>2. events = <<>>
    BY <1>1 DEF ScannerInv
  <1>3. Elems(events) = {} /\ Pipe = {}
    BY <1>1, <1>2, ElemsEmpty, QueuedEmpty DEF Pipe
  <1> QED
    BY <1>1, <1>3 DEF Held

LEMMA RunnerDelivery ==
  ASSUME NEW S \in Nat, TypeOK, Hands, ScannerInv, CursorInv, RowsInv, BatchInv(S), DeliveryInv,
         RunnerMoves
  PROVE  DeliveryInv'
  <1>1. /\ Sound(Event, TableRows, {BaseSeq}) /\ Kept(Event, TableRows, {BaseSeq})
        /\ Drains /\ Delivers
    BY TypesSound, RunnerKeeps DEF RunnerMoves, Kept
  <1>2. UNCHANGED <<proc, next, snapshotDone>>
    BY DEF RunnerMoves, scanVars
  <1>3. \A r \in TableRows : r \in Nat /\ r \in Keys
    BY TableFacts
  <1>4. \A r \in TableRows : Delivered(r, r) => Delivered(r, r)'
    BY <1>1, <1>3, DeliveredKept
  <1>5. ASSUME NEW r \in TableRows, r <= cursor'
        PROVE  Delivered(r, r)'
    <2>1. CASE r <= cursor
      BY <1>4, <2>1 DEF DeliveryInv
    <2>2. CASE ~(r <= cursor)
      <3>1. pc = "advance" /\ r <= pendingCursor
        BY <1>5, <2>2, PositionsMove DEF RunnerMoves, rowVars, SavePosition
      <3>2. Healthy
        BY <3>1 DEF Healthy
      <3>3. proc = "up"
        <4>1. ~SettleStray \/ cursor' = cursor
          BY DEF SettleStray, rowVars
        <4> QED
          BY <1>5, <2>2, <4>1 DEF RunnerMoves
      <3>4. r < next
        <4>1. r \in Nat /\ pendingCursor \in Nat /\ next \in Nat /\ pendingCursor < next
          BY <1>3, TableFacts DEF CursorInv, TypeOK
        <4> QED
          BY <3>1, <4>1
      <3>5. Held(r, r) \/ Delivered(r, r)
        BY <3>2, <3>3, <3>4 DEF DeliveryInv
      <3> QED
        BY <1>4, <3>1, <3>5, CoveredNotHeld
    <2> QED
      BY <2>1, <2>2
  <1>6. ASSUME proc' = "up", Healthy', NEW r \in TableRows, r < next'
        PROVE  Held(r, r)' \/ Delivered(r, r)'
    <2>1. Healthy
      BY <1>1, <1>6 DEF Delivers
    <2>2. Held(r, r) \/ Delivered(r, r)
      BY <1>2, <1>6, <2>1 DEF DeliveryInv
    <2>3. CASE Held(r, r)
      <3>1. r \in Nat /\ r \in Keys /\ Ordered
        BY <1>3, RowsOrdered
      <3> QED
        BY <1>1, <1>6, <2>3, <3>1, HeldKept
    <2> QED
      BY <1>4, <2>2, <2>3
  <1>7. snapshotDone' => \A r \in TableRows : Delivered(r, r)'
    BY <1>2, <1>4 DEF DeliveryInv
  <1> QED
    BY <1>5, <1>6, <1>7 DEF DeliveryInv

LEMMA NextDelivery ==
  ASSUME NEW S \in Nat, TypeOK, Hands, ScannerInv, CursorInv, RowsInv, BatchInv(S), DeliveryInv,
         [Next]_vars
  PROVE  DeliveryInv'
  <1>1. CASE RunnerMoves
    BY <1>1, RunnerDelivery
  <1>2. CASE ReadChunk \/ Ends \/ Restart \/ UNCHANGED vars
    <2>1. /\ UNCHANGED <<events, rejected, stray, dest, dlq, cursor>> /\ Pipe' = Pipe
          /\ Healthy' => Healthy
      BY <1>2, QuietSteps
    <2>2. \A r : (Delivered(r, r) => Delivered(r, r)') /\ (Held(r, r) => Held(r, r)')
      BY <2>1 DEF Delivered, Held
    <2>3. \A r \in TableRows : r <= cursor' => Delivered(r, r)'
      BY <2>1, <2>2 DEF DeliveryInv
    <2>4. proc' = "up" /\ Healthy' =>
            \A r \in TableRows : r < next' => Held(r, r)' \/ Delivered(r, r)'
      <3>1. CASE Restart
        <4>1. next' = cursor + 1 /\ cursor' = cursor
          BY <2>1, <3>1 DEF Restart
        <4>2. \A r \in TableRows : r < cursor + 1 => r <= cursor
          BY TableFacts DEF TypeOK
        <4> QED
          BY <2>3, <4>1, <4>2
      <3>2. CASE ReadChunk \/ Ends \/ UNCHANGED vars
        <4>1. UNCHANGED <<proc, next>>
          BY <3>2, EndsTypes DEF ReadChunk, vars, scanVars
        <4> QED
          BY <2>1, <2>2, <4>1 DEF DeliveryInv
      <3> QED
        BY <1>2, <3>1, <3>2
    <2>5. snapshotDone' => \A r \in TableRows : Delivered(r, r)'
      <3>1. CASE snapshotDone
        BY <2>2, <3>1 DEF DeliveryInv
      <3>2. CASE FinishScan
        <4>1. proc = "up" /\ pc = "done" /\ ctx = "live" /\ scanner = "done"
          BY <3>2 DEF FinishScan
        <4>2. next > Len(Table) /\ Healthy
          BY <4>1 DEF ScannerInv, Healthy
        <4>3. \A r \in TableRows : r < next
          BY <4>2, TableFacts DEF TypeOK
        <4>4. \A r \in TableRows : Held(r, r) \/ Delivered(r, r)
          BY <4>1, <4>2, <4>3 DEF DeliveryInv
        <4>5. \A r \in TableRows : ~Held(r, r)
          BY <4>1, FinishedHoldsNothing
        <4> QED
          BY <2>2, <4>4, <4>5
      <3>3. CASE ~FinishScan
        <4>1. snapshotDone' = snapshotDone
          BY <1>2, <3>3 DEF ReadChunk, Ends, ScannerStops, Sigterm, Restart, vars
        <4> QED
          BY <3>1, <4>1
      <3> QED
        BY <3>2, <3>3
    <2> QED
      BY <2>3, <2>4, <2>5 DEF DeliveryInv
  <1>3. CASE SendRow
    <2>1. PICK e \in Event :
            /\ Elems(events') = Elems(events) \cup {e} /\ Pipe' = Pipe \cup Elems(e.docs)
            /\ e.row = next /\ e.plan \in {"ok", "error"}
            /\ \A d \in Elems(e.docs) : d.row = next /\ OwnRow(d)
            /\ e.plan = "ok" => \E d \in Elems(e.docs) : d.row = next /\ d.key = next
      BY <1>3, SendRowAdds
    <2>2. /\ UNCHANGED <<rejected, stray, dest, dlq, pc, ctx, cursor, proc, snapshotDone>>
          /\ next' = next + 1 /\ proc = "up"
      BY <1>3 DEF SendRow, workVars, destVars, rowVars
    <2>3. next \in Nat /\ \A r \in TableRows : r \in Nat
      BY TableFacts DEF TypeOK
    <2>4. ASSUME NEW r \in TableRows, Delivered(r, r)
          PROVE  Delivered(r, r)'
      <3>1. CASE Letter(r, r) \in dlq \/ Letter(r, NoKey) \in dlq
        BY <2>2, <3>1 DEF Delivered
      <3>2. CASE /\ dest[r].row >= r
                 /\ \A d \in Pipe \cup stray : d.key = r /\ d.ver > dest[r].ver => d.row >= r
        <4>1. \A d \in Elems(e.docs) : d.key = r => d.row >= r
          BY <2>1, <2>3 DEF OwnRow
        <4>2. \A d \in Pipe' \cup stray' : d.key = r /\ d.ver > dest'[r].ver => d.row >= r
          BY <2>1, <2>2, <3>2, <4>1
        <4>3. dest'[r].row >= r
          BY <2>2, <3>2
        <4> QED
          BY <4>2, <4>3 DEF Delivered
      <3> QED
        BY <2>4, <3>1, <3>2 DEF Delivered
    <2>5. \A r : Held(r, r) => Held(r, r)'
      BY <2>1, <2>2 DEF Held
    <2>6. ASSUME Healthy', NEW r \in TableRows, r < next'
          PROVE  Held(r, r)' \/ Delivered(r, r)'
      <3>1. Healthy
        BY <2>2, <2>6 DEF Healthy
      <3>2. CASE r < next
        BY <2>2, <2>4, <2>5, <3>1, <3>2 DEF DeliveryInv
      <3>3. CASE r = next
        <4>1. CASE e.plan = "ok"
          BY <2>1, <3>3, <4>1 DEF Held
        <4>2. CASE e.plan = "error"
          BY <2>1, <3>3, <4>2 DEF Held
        <4> QED
          BY <2>1, <4>1, <4>2
      <3> QED
        BY <2>2, <2>3, <2>6, <3>2, <3>3
    <2>7. \A r \in TableRows : r <= cursor' => Delivered(r, r)'
      BY <2>2, <2>4 DEF DeliveryInv
    <2>8. snapshotDone' => \A r \in TableRows : Delivered(r, r)'
      BY <2>2, <2>4 DEF DeliveryInv
    <2> QED
      BY <2>6, <2>7, <2>8 DEF DeliveryInv
  <1>4. CASE Crash \/ Exit
    <2>1. /\ Drains /\ proc' = "down" /\ UNCHANGED <<cursor, snapshotDone>>
          /\ Sound(Event, TableRows, {BaseSeq})
      BY <1>4, DownTypes, TypesSound
    <2>2. \A r \in TableRows : r \in Nat /\ r \in Keys
      BY TableFacts
    <2>3. \A r \in TableRows : Delivered(r, r) => Delivered(r, r)'
      BY <2>1, <2>2, DeliveredKept
    <2> QED
      BY <2>1, <2>3 DEF DeliveryInv
  <1> QED
    BY <1>1, <1>2, <1>3, <1>4, Steps

-----------------------------------------------------------------------------
(* The theorems                                                              *)

ScanInv(S) ==
  /\ TypeOK /\ Hands /\ ScannerInv /\ CursorInv /\ RowsInv /\ BatchInv(S) /\ DeliveryInv

LEMMA InitScan ==
  ASSUME NEW S \in Nat, Init
  PROVE  ScanInv(S)
  <1>1. TypeOK /\ Hands /\ ScannerInv /\ Pipe = {}
    BY InitTypes
  <1>2. /\ events = <<>> /\ todo = <<>> /\ batch = EmptyBatch /\ pc = "select" /\ stray = {}
        /\ pendingCursor = 0 /\ next = 1 /\ cursor = 0 /\ snapshotDone = FALSE
        /\ dest = [k \in Keys |-> [ver |-> 0, row |-> 0]]
    BY DEF Init, RunnerInit
  <1>3. DOMAIN events = {} /\ Elems(events) = {}
    BY <1>2, ElemsEmpty
  <1>4. CursorInv
    BY <1>2, <1>3 DEF CursorInv
  <1>5. RowsInv
    BY <1>1, <1>2, <1>3 DEF RowsInv, AtMostOne
  <1>6. BatchInv(S)
    BY <1>2, EmptyFits
  <1>7. \A r \in TableRows : ~(r <= 0) /\ ~(r < 1)
    BY TableFacts
  <1>8. DeliveryInv
    BY <1>2, <1>7 DEF DeliveryInv
  <1> QED
    BY <1>1, <1>4, <1>5, <1>6, <1>8 DEF ScanInv

LEMMA NextScan ==
  ASSUME NEW S \in Nat, RowsFit(S), ScanInv(S), [Next]_vars
  PROVE  ScanInv(S)'
  <1>1. TypeOK' /\ Hands' /\ ScannerInv'
    BY NextTypes DEF ScanInv
  <1>2. CursorInv' /\ RowsInv'
    BY NextCursors, NextRows DEF ScanInv
  <1>3. BatchInv(S)' /\ DeliveryInv'
    BY NextBatches, NextDelivery DEF ScanInv
  <1> QED
    BY <1>1, <1>2, <1>3 DEF ScanInv

LEMMA ScanAlways ==
  ASSUME NEW S \in Nat, RowsFit(S)
  PROVE  Spec => []ScanInv(S)
  <1>1. Init => ScanInv(S)
    BY InitScan
  <1>2. ScanInv(S) /\ [Next]_vars => ScanInv(S)'
    BY NextScan
  <1> QED
    BY <1>1, <1>2, PTL DEF Spec

\* A scan resumed from the recorded cursor leaves no hole behind it: every row
\* up to the cursor is at the destination or has a dead letter, for every table
\* in which a full batch of rows stays within the byte limit.
THEOREM CursorAlwaysSafe == BatchesFit => (Spec => []CursorSafe)
  <1> SUFFICES ASSUME BatchesFit PROVE Spec => []CursorSafe
    OBVIOUS
  <1>1. PICK S \in Nat : RowsFit(S)
    BY DEF BatchesFit
  <1>2. ScanInv(S) => CursorSafe
    BY DeliveredAccounted DEF ScanInv, DeliveryInv, CursorSafe
  <1>3. Spec => []ScanInv(S)
    BY <1>1, ScanAlways
  <1> QED
    BY <1>2, <1>3, PTL

\* A scan that finishScan records as complete has delivered every row of the
\* table, however often it was interrupted, under the same hypothesis.
THEOREM CompleteScansDelivered == BatchesFit => (Spec => []DoneMeansComplete)
  <1> SUFFICES ASSUME BatchesFit PROVE Spec => []DoneMeansComplete
    OBVIOUS
  <1>1. PICK S \in Nat : RowsFit(S)
    BY DEF BatchesFit
  <1>2. ScanInv(S) => DoneMeansComplete
    BY DeliveredAccounted DEF ScanInv, DeliveryInv, DoneMeansComplete
  <1>3. Spec => []ScanInv(S)
    BY <1>1, ScanAlways
  <1> QED
    BY <1>2, <1>3, PTL
=============================================================================
