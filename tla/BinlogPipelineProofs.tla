------------------------ MODULE BinlogPipelineProofs ------------------------
(***************************************************************************)
(* A stream that follows the binlog loses no change, for every binlog      *)
(* whose transactions end in an XID event, and every interleaving of the   *)
(* reader, the runner, the allocator's reservations, failures and          *)
(* restarts.                                                               *)
(***************************************************************************)
EXTENDS BinlogPipeline, RunnerProofs

Tx(i) == Binlog[i].tx

\* The source writes transactions one after the other, each beginning with its
\* GTID event, and ends every transaction with rows in it with an XID event.
WellFormed ==
  /\ \A i \in DOMAIN Binlog : Binlog[i].kind # "gtid" => i > 1 /\ Tx(i - 1) = Tx(i)
  /\ \A i, j, k \in DOMAIN Binlog : i < j /\ j < k /\ Tx(i) = Tx(k) => Tx(j) = Tx(i)
  /\ \A i, j \in DOMAIN Binlog : Binlog[i].kind = "xid" /\ i < j => Tx(j) # Tx(i)
  /\ \A r \in Rows, j \in DOMAIN Binlog : r < j /\ Tx(j) # Tx(r) =>
       \E x \in DOMAIN Binlog : Binlog[x].kind = "xid" /\ Tx(x) = Tx(r)

-----------------------------------------------------------------------------
(* The inductive invariant                                                   *)

\* What the reader has passed is what it has folded into its position.
ReaderInv ==
  proc = "up" =>
    /\ start \subseteq executed
    /\ \A x \in DOMAIN Binlog : Binlog[x].kind = "xid" /\ x < rpos => Tx(x) \in executed
    /\ \A t \in executed \ start :
         \E x \in DOMAIN Binlog : Binlog[x].kind = "xid" /\ x < rpos /\ Tx(x) = t
    /\ rpos > 1 /\ Tx(rpos - 1) \notin start =>
         currentTx = IF Binlog[rpos - 1].kind = "xid" THEN NoTx ELSE Tx(rpos - 1)

\* A position that covers a row change covers every earlier one.
Closed(P) == \A q, r \in Rows : q < r /\ Tx(r) \in P => Tx(q) \in P

\* The positions under way lie between the recorded one and the reader's.
PositionInv ==
  /\ Closed(start) /\ Closed(gtidSet)
  /\ proc = "up" => start \subseteq gtidSet /\ gtidSet \subseteq executed
  /\ pendingGTID # {} => gtidSet \subseteq pendingGTID /\ pendingGTID \subseteq executed
  /\ Closed(pendingGTID)
  /\ loaded # {} => start \subseteq loaded /\ loaded \subseteq gtidSet
  /\ Closed(loaded)
  /\ \A i \in DOMAIN events :
       /\ Closed(events[i].gtid) /\ events[i].gtid # {}
       /\ gtidSet \subseteq events[i].gtid /\ pendingGTID \subseteq events[i].gtid
       /\ events[i].gtid \subseteq executed
  /\ \A i, j \in DOMAIN events : i < j => events[i].gtid \subseteq events[j].gtid

\* No position under way covers what is behind it in the pipe.
BehindInv ==
  /\ \A e \in Elems(events) :
       /\ e.row \in Rows /\ e.row < rpos /\ Tx(e.row) \notin e.gtid
       /\ \A d \in Elems(e.docs) : d.row = e.row
  /\ \A d \in Elems(todo) : Tx(d.row) \notin pendingGTID
  /\ Writing => \A d \in Elems(batch.docs) : Tx(d.row) \notin pendingGTID
  /\ \A d \in Pipe : d.row \in Rows /\ d.row < rpos /\ Tx(d.row) \notin gtidSet

\* No version in use is beyond the last one issued.
IssuedInv ==
  /\ \A d \in Pipe \cup stray : d.ver <= seq
  /\ \A k \in Keys : dest[k].ver <= seq
  /\ Healthy => Ordered

\* What the recorded position covers is delivered, and what the reader has
\* passed is delivered or still in the pipe.
DeliveryInv ==
  /\ \A r \in Rows : Tx(r) \in gtidSet => \A k \in KeysOf(r) : Delivered(r, k)
  /\ proc = "up" /\ Healthy =>
       \A r \in Rows : r < rpos /\ Tx(r) \notin start =>
         \A k \in KeysOf(r) : Held(r, k) \/ Delivered(r, k)

\* While the process is down nothing is in its hands.
DownInv == proc = "down" => Pipe = {} /\ events = <<>> /\ pendingGTID = {} /\ loaded = {}

-----------------------------------------------------------------------------
(* Types                                                                     *)

LEMMA BinlogFacts ==
  /\ DOMAIN Binlog = 1..Len(Binlog) /\ Len(Binlog) \in Nat
  /\ \A i \in DOMAIN Binlog :
       /\ Binlog[i].kind \in {"gtid", "rows", "xid", "query"}
       /\ Tx(i) \in Txs /\ Tx(i) \in Nat \ {BaseTx}
       /\ Binlog[i].docs \in Seq([key : Keys, size : Nat])
       /\ Binlog[i].plan \in {"ok", "error"}
  /\ Rows \subseteq 1..Len(Binlog)
  <1> DEFINE S == [kind : {"gtid", "rows", "xid", "query"}, tx : Nat \ {BaseTx},
                   docs : Seq([key : Keys, size : Nat]), plan : {"ok", "error"}]
  <1>1. Binlog \in Seq(S)
    BY BinlogAssumption
  <1>2. DOMAIN Binlog = 1..Len(Binlog) /\ Len(Binlog) \in Nat
    BY <1>1, LenProperties
  <1>3. \A i \in DOMAIN Binlog : Binlog[i] \in S
    BY <1>1, <1>2, ElementOfSeq
  <1> QED
    BY <1>2, <1>3 DEF Txs, Rows, Tx

LEMMA EventsFeed == Feeds(Event, Nat, Nat)
  BY DEF Feeds, Event, Doc, Documents

LEMMA TypesShape ==
  ASSUME TypeOK, Hands
  PROVE  Sound(Event, Nat, Nat)
  <1>1. Nat \cup {0} = Nat
    OBVIOUS
  <1>2. Shape(Event, Nat, Nat)
    BY <1>1 DEF TypeOK, Shape, Doc, Documents, Batches, Letters
  <1> QED
    BY <1>2, EventsFeed DEF Sound

\* The part of TypeOK that is the reader's, and the rows of the checkpoint.
Others ==
  /\ Len(events) <= Buffer
  /\ pendingGTID \in Position /\ pendingCursor = 0 /\ pendingRows = 0
  /\ gtidSet \in Position \ {{}} /\ cursor = 0 /\ rowsDone = 0
  /\ proc \in {"up", "down"} /\ reader \in {"reading", "stopped"}
  /\ start \in Position /\ executed \in Position /\ loaded \in Position
  /\ rpos \in 1..(Len(Binlog) + 1)
  /\ currentTx \in Txs \cup {NoTx}
  /\ seq \in Nat /\ left \in 0..Block

LEMMA TypesSplit == TypeOK <=> Shape(Event, Nat, Nat) /\ Others
  <1>1. Nat \cup {0} = Nat
    OBVIOUS
  <1> QED
    BY <1>1 DEF TypeOK, Others, Shape, Doc, Documents, Batches, Letters

LEMMA TypesJoin ==
  ASSUME Shape(Event, Nat, Nat)', Others'
  PROVE  TypeOK'
  <1>1. Nat \cup {0} = Nat
    OBVIOUS
  <1> QED
    BY <1>1 DEF TypeOK, Others, Shape, Doc, Documents, Batches, Letters

LEMMA InitTypes == Init => TypeOK /\ Hands
  <1> SUFFICES ASSUME Init PROVE TypeOK /\ Hands
    OBVIOUS
  <1>1. /\ events = <<>> /\ chan = "open" /\ ctx = "live" /\ pc = "select" /\ leaving = "no"
        /\ todo = <<>> /\ batch = EmptyBatch /\ inflight = {} /\ rejected = {} /\ stray = {}
        /\ dest = [k \in Keys |-> [ver |-> 0, row |-> 0]] /\ dlq = {} /\ faults = 0
        /\ pendingGTID = {} /\ pendingCursor = 0 /\ pendingRows = 0
    BY DEF Init, RunnerInit
  <1>2. batch \in Batches(Documents(Nat, Nat)) /\ batch.docs = <<>>
    BY <1>1, EmptyBatchType
  <1>3. dest \in [Keys -> [ver : Nat \cup {0}, row : Nat \cup {0}]]
    BY <1>1
  <1>4. Shape(Event, Nat, Nat)
    BY <1>1, <1>2, <1>3, FaultAssumption DEF Shape, Stages
  <1>5. Others
    <2>1. Len(events) = 0
      BY <1>1
    <2> QED
      BY <1>1, <2>1, BinlogAssumption, BinlogFacts DEF Init, Others, Position
  <1>6. Hands
    BY <1>1, ElemsEmpty DEF Hands
  <1> QED
    BY <1>4, <1>5, <1>6, TypesSplit

\* A step of the runner.
RunnerMoves ==
  /\ RunnerStep \/ RunnerFault \/ SettleStray
  /\ UNCHANGED <<proc, readerVars>>

LEMMA RunnerTypes ==
  ASSUME TypeOK, Hands, RunnerMoves
  PROVE  TypeOK' /\ Hands'
  <1>1. Sound(Event, Nat, Nat) /\ Kept(Event, Nat, Nat)
    BY TypesShape, RunnerKeeps DEF RunnerMoves
  <1>2. events \in Seq(Event) /\ events' \in Seq(Event) /\ Len(events) <= Buffer
    BY <1>1 DEF Kept, Shape, TypeOK
  <1>3. Len(events') <= Buffer
    <2>1. events' = events \/ (events # <<>> /\ events' = Tail(events)) \/ events' = <<>>
      BY DEF RunnerMoves, RunnerStep, RunnerFault, Receive, ReceiveBad, AddDoc, Tick, Finish,
             Settle, Refuse, WriteReturns, Record, Advance, WriteFails, RecordFails,
             AdvanceFails, SettleStray, channelVars
    <2>2. Buffer \in Nat /\ Len(events) \in Nat
      BY <1>2, BinlogAssumption, LenProperties
    <2>3. events # <<>> /\ events' = Tail(events) => Len(events') = Len(events) - 1
      BY <1>2, ElemsTail
    <2>4. events' = <<>> => Len(events') = 0
      OBVIOUS
    <2> QED
      BY <1>2, <2>1, <2>2, <2>3, <2>4
  <1>4. pendingGTID' \in Position /\ pendingCursor' = 0 /\ pendingRows' = 0
    <2>1. CASE Receive
      <3>1. events # <<>> /\ Note(Head(events))
        BY <2>1 DEF Receive
      <3>2. Head(events) \in Event
        BY <1>2, <3>1, ElemsTail
      <3>3. Head(events).gtid \in Position /\ Head(events).cursor = 0
        BY <3>2 DEF Event
      <3> QED
        BY <3>1, <3>3 DEF Note, TypeOK
    <2>2. CASE UNCHANGED pendingVars
      BY <2>2 DEF pendingVars, TypeOK
    <2> QED
      BY <2>1, <2>2, PositionsMove DEF RunnerMoves
  <1>5. gtidSet' \in Position \ {{}} /\ cursor' = 0 /\ rowsDone' = 0
    <2>1. UNCHANGED rowVars \/ SavePosition
      BY PositionsMove DEF RunnerMoves
    <2> QED
      BY <2>1 DEF rowVars, SavePosition, TypeOK
  <1>6. Others'
    BY <1>3, <1>4, <1>5 DEF Others, TypeOK, RunnerMoves, readerVars
  <1> QED
    BY <1>1, <1>6, TypesJoin DEF Kept

\* build: the event of row change i, at the position executed.
LEMMA EventType ==
  ASSUME TypeOK, NEW i \in DOMAIN Binlog, NEW v \in Nat
  PROVE  /\ EventOf(i, v) \in Event
         /\ EventOf(i, v).row = i /\ EventOf(i, v).gtid = executed
         /\ EventOf(i, v).plan = Binlog[i].plan
         /\ EventOf(i, v).plan = "error" => EventOf(i, v).docs = <<>>
         /\ EventOf(i, v).plan = "ok" => EventOf(i, v).docs = DocsOf(i, v)
         /\ \A d \in Elems(EventOf(i, v).docs) : d.row = i /\ d.ver = v
         /\ EventOf(i, v).plan = "ok" =>
              \A k \in KeysOf(i) : \E d \in Elems(EventOf(i, v).docs) : d.row = i /\ d.key = k
  <1>0. \A n \in 1..Len(Binlog) : n \in Nat
    OBVIOUS
  <1>1. i \in Nat /\ Binlog[i].plan \in {"ok", "error"} /\ Binlog[i].docs \in Seq([key : Keys, size : Nat])
    BY <1>0, BinlogFacts, Zenon
  <1>2. PICK ds \in Seq([key : Keys, size : Nat]) : ds = Binlog[i].docs
    BY <1>1
  <1>3. DOMAIN ds = 1..Len(ds) /\ Len(ds) \in Nat /\ \A n \in DOMAIN ds : ds[n] \in [key : Keys, size : Nat]
    BY LenProperties, ElementOfSeq
  <1>4. /\ DocsOf(i, v) \in Seq(Doc) /\ DOMAIN DocsOf(i, v) = DOMAIN ds
        /\ \A n \in DOMAIN ds : DocsOf(i, v)[n] = [row |-> i, key |-> ds[n].key, ver |-> v, size |-> ds[n].size]
    <2>1. DocsOf(i, v) = [n \in 1..Len(ds) |-> [row |-> i, key |-> ds[n].key, ver |-> v, size |-> ds[n].size]]
      BY <1>2, <1>3 DEF DocsOf
    <2>2. \A n \in 1..Len(ds) : [row |-> i, key |-> ds[n].key, ver |-> v, size |-> ds[n].size] \in Doc
      BY <1>1, <1>3 DEF Doc
    <2>3. [n \in 1..Len(ds) |-> [row |-> i, key |-> ds[n].key, ver |-> v, size |-> ds[n].size]] \in Seq(Doc)
      BY <1>3, <2>2, IsASeq
    <2> QED
      BY <1>3, <2>1, <2>3
  <1>5. KeysOf(i) = {ds[n].key : n \in DOMAIN ds}
    BY <1>2 DEF KeysOf
  <1>6. PICK docs \in Seq(Doc) : docs = IF Binlog[i].plan = "error" THEN <<>> ELSE DocsOf(i, v)
    <2>1. <<>> \in Seq(Doc)
      OBVIOUS
    <2> QED
      BY <1>4, <2>1, Zenon
  <1>7. EventOf(i, v) = [row |-> i, docs |-> docs, gtid |-> executed, cursor |-> 0, rows |-> 0,
                         plan |-> Binlog[i].plan]
    BY <1>6 DEF EventOf
  <1>8. EventOf(i, v) \in Event
    BY <1>1, <1>7 DEF Event, TypeOK
  <1>9. \A d \in Elems(docs) : d.row = i /\ d.ver = v
    BY <1>4, <1>6, ElemsEmpty DEF Elems
  <1>10. Binlog[i].plan = "ok" => \A k \in KeysOf(i) : \E d \in Elems(docs) : d.row = i /\ d.key = k
    BY <1>4, <1>5, <1>6 DEF Elems
  <1> QED
    BY <1>1, <1>6, <1>7, <1>8, <1>9, <1>10

\* The steps of the reader that leave the runner and the checkpoint row alone.
Reads == SourceSkips \/ ReadGTID \/ ReadXID \/ ReadQuery \/ ReserveLoad

LEMMA ReadsTypes ==
  ASSUME TypeOK, Hands, Reads
  PROVE  TypeOK' /\ Hands' /\ UNCHANGED <<runnerVars, proc, start>>
  <1>1. UNCHANGED <<runnerVars, proc, reader, start, seq, left>>
    BY DEF Reads, SourceSkips, ReadGTID, ReadXID, ReadQuery, ReserveLoad
  <1>2. /\ executed' \in Position /\ loaded' \in Position /\ rpos' \in 1..(Len(Binlog) + 1)
        /\ currentTx' \in Txs \cup {NoTx}
    <2>1. rpos \in DOMAIN Binlog /\ Tx(rpos) \in Txs /\ rpos + 1 \in 1..(Len(Binlog) + 1)
      BY BinlogFacts DEF Reads, SourceSkips, ReadGTID, ReadXID, ReadQuery, ReserveLoad, Reading
    <2>2. CASE SourceSkips \/ ReadQuery
      BY <2>1, <2>2 DEF SourceSkips, ReadQuery, TypeOK
    <2>3. CASE ReadGTID
      BY <2>1, <2>3 DEF ReadGTID, TypeOK, Tx
    <2>4. CASE ReadXID
      BY <2>1, <2>4 DEF ReadXID, TypeOK, Position
    <2>5. CASE ReserveLoad
      BY <2>5 DEF ReserveLoad, TypeOK
    <2> QED
      BY <2>2, <2>3, <2>4, <2>5 DEF Reads
  <1>3. Shape(Event, Nat, Nat)'
    BY <1>1, TypesSplit DEF Shape, runnerVars, channelVars, workVars, destVars
  <1>4. Others'
    BY <1>1, <1>2 DEF Others, TypeOK, runnerVars, channelVars, pendingVars, rowVars
  <1>5. Hands'
    BY <1>1 DEF Hands, runnerVars, channelVars, workVars
  <1> QED
    BY <1>1, <1>3, <1>4, <1>5, TypesJoin

LEMMA ReserveTypes ==
  ASSUME TypeOK, Hands, ReserveSave
  PROVE  TypeOK' /\ Hands'
  <1>1. /\ UNCHANGED <<events, chan, ctx, pc, leaving, todo, batch, inflight, rejected, stray,
                       dest, dlq, faults>>
        /\ UNCHANGED <<pendingGTID, pendingCursor, pendingRows, cursor, rowsDone, proc, reader,
                       start, rpos, executed, currentTx, seq>>
        /\ gtidSet' = loaded /\ loaded # {} /\ loaded' = {} /\ left' = Block
    BY DEF ReserveSave, channelVars, workVars, destVars, pendingVars
  <1>2. Shape(Event, Nat, Nat)'
    BY <1>1, TypesSplit DEF Shape
  <1>3. Others'
    BY <1>1, BinlogAssumption DEF Others, TypeOK, Position
  <1>4. Hands'
    BY <1>1 DEF Hands
  <1> QED
    BY <1>2, <1>3, <1>4, TypesJoin

LEMMA ReadRowTypes ==
  ASSUME TypeOK, Hands, ReadRow
  PROVE  TypeOK' /\ Hands'
  <1>1. /\ UNCHANGED <<chan, ctx, pc, leaving, todo, batch, inflight, rejected, stray,
                       dest, dlq, faults>>
        /\ UNCHANGED <<pendingGTID, pendingCursor, pendingRows, gtidSet, cursor, rowsDone, proc,
                       reader, start, executed, currentTx, loaded>>
        /\ rpos \in DOMAIN Binlog /\ rpos' = rpos + 1 /\ seq' = seq + 1
        /\ left > 0 /\ left' = left - 1
        /\ events' = Append(events, EventOf(rpos, seq + 1)) /\ Len(events) < Buffer
    BY DEF ReadRow, Reading, Room, workVars, destVars, pendingVars, rowVars
  <1>2. PICK e \in Event : e = EventOf(rpos, seq + 1) /\ (e.plan = "error" => e.docs = <<>>)
    BY <1>1, EventType DEF TypeOK
  <1>3. /\ events' \in Seq(Event) /\ Elems(events') = Elems(events) \cup {e}
        /\ Len(events') = Len(events) + 1 /\ Len(events) \in Nat
    BY <1>1, <1>2, ElemsAppend, AppendProperties, LenProperties DEF TypeOK
  <1>4. Shape(Event, Nat, Nat)'
    BY <1>1, <1>3, TypesSplit DEF Shape
  <1>5. rpos' \in 1..(Len(Binlog) + 1) /\ left' \in 0..Block /\ seq' \in Nat /\ Len(events') <= Buffer
    <2>1. Buffer \in Nat /\ Block \in Nat
      BY BinlogAssumption
    <2>2. left \in 0..Block /\ seq \in Nat
      BY DEF TypeOK
    <2>3. rpos \in 1..Len(Binlog) /\ Len(Binlog) \in Nat
      BY <1>1, BinlogFacts
    <2> QED
      BY <1>1, <1>3, <2>1, <2>2, <2>3
  <1>6. Others'
    BY <1>1, <1>5 DEF Others, TypeOK
  <1>7. Hands'
    BY <1>1, <1>2, <1>3 DEF Hands
  <1> QED
    BY <1>4, <1>6, <1>7, TypesJoin

\* The steps that cancel the context or close the channel.
Halts == ReaderStops \/ ReaderFails \/ Sigterm

LEMMA HaltsTypes ==
  ASSUME TypeOK, Hands, Halts
  PROVE  /\ TypeOK' /\ Hands'
         /\ UNCHANGED <<events, pc, leaving, todo, batch, inflight, rejected, stray, dest, dlq>>
         /\ UNCHANGED <<pendingGTID, gtidSet, proc, start, rpos, executed, currentTx, seq, loaded>>
         /\ ctx' = "done"
  <1>1. /\ UNCHANGED <<events, pc, leaving, todo, batch, inflight, rejected, stray, dest, dlq>>
        /\ UNCHANGED <<pendingGTID, pendingCursor, pendingRows, gtidSet, cursor, rowsDone, proc,
                       start, rpos, executed, currentTx, seq, left, loaded>>
        /\ ctx' = "done" /\ chan' \in {"open", "closed"} /\ reader' \in {"reading", "stopped"}
    BY DEF Halts, ReaderStops, ReaderFails, Sigterm, workVars, destVars, pendingVars, rowVars,
           readerVars, TypeOK
  <1>2. faults' \in 0..MaxFaults
    BY FaultAssumption DEF Halts, ReaderStops, ReaderFails, Sigterm, Fault, TypeOK
  <1>3. Shape(Event, Nat, Nat)'
    BY <1>1, <1>2, TypesSplit DEF Shape
  <1>4. Others'
    BY <1>1 DEF Others, TypeOK
  <1>5. Hands'
    BY <1>1 DEF Hands
  <1> QED
    BY <1>1, <1>3, <1>4, <1>5, TypesJoin

LEMMA DownTypes ==
  ASSUME TypeOK, Hands, Crash \/ Exit
  PROVE  /\ TypeOK' /\ Hands' /\ Drains /\ Pipe' = {} /\ events' = <<>>
         /\ pendingGTID' = {} /\ loaded' = {} /\ proc' = "down"
         /\ UNCHANGED <<dest, dlq, gtidSet, start, rpos, executed, seq>>
  <1>1. /\ Lose /\ proc' = "down" /\ reader' = "stopped" /\ currentTx' = NoTx /\ left' = 0
        /\ loaded' = {} /\ UNCHANGED <<gtidSet, cursor, rowsDone, start, rpos, executed, seq>>
    BY DEF Crash, Exit, Down, rowVars
  <1>2. faults' \in 0..MaxFaults
    BY FaultAssumption DEF Crash, Exit, Fault, TypeOK
  <1>3. Shape(Event, Nat, Nat)' /\ Hands' /\ Drains /\ Pipe' = {}
    BY <1>1, <1>2, TypesShape, LoseKeeps
  <1>4. /\ events' = <<>> /\ pendingGTID' = {} /\ pendingCursor' = 0 /\ pendingRows' = 0
        /\ UNCHANGED <<dest, dlq>> /\ Len(events') = 0
    BY <1>1 DEF Lose
  <1>5. Others'
    BY <1>1, <1>4, BinlogAssumption DEF Others, TypeOK, Position
  <1> QED
    BY <1>1, <1>3, <1>4, <1>5, TypesJoin

LEMMA RestartTypes ==
  ASSUME TypeOK, Hands, Restart
  PROVE  TypeOK' /\ Hands' /\ UNCHANGED runnerVars
  <1>1. /\ UNCHANGED <<runnerVars, currentTx, seq, left, loaded>>
        /\ proc' = "up" /\ reader' = "reading" /\ start' = gtidSet /\ executed' = gtidSet
        /\ rpos' = 1
    BY DEF Restart
  <1>2. Shape(Event, Nat, Nat)'
    BY <1>1, TypesSplit DEF Shape, runnerVars, channelVars, workVars, destVars
  <1>3. Others'
    BY <1>1, BinlogFacts DEF Others, TypeOK, runnerVars, channelVars, pendingVars, rowVars
  <1>4. Hands'
    BY <1>1 DEF Hands, runnerVars, channelVars, workVars
  <1> QED
    BY <1>1, <1>2, <1>3, <1>4, TypesJoin

\* Every step is one of these.
LEMMA Steps ==
  ASSUME [Next]_vars
  PROVE  \/ RunnerMoves \/ Reads \/ ReserveSave \/ ReadRow \/ Halts \/ Crash \/ Exit \/ Restart
         \/ UNCHANGED vars
  BY DEF Next, Progress, ReaderStep, RunnerActs, RunnerBreaks, LateWrite, RunnerMoves, Reads,
         Halts, Idle

LEMMA StutterTypes ==
  ASSUME TypeOK, Hands, UNCHANGED vars
  PROVE  TypeOK' /\ Hands'
  BY DEF TypeOK, Hands, vars, runnerVars, channelVars, pendingVars, workVars, destVars, rowVars,
         readerVars

LEMMA NextTypes ==
  ASSUME TypeOK, Hands, [Next]_vars
  PROVE  TypeOK' /\ Hands'
  BY Steps, RunnerTypes, ReadsTypes, ReserveTypes, ReadRowTypes, HaltsTypes, DownTypes,
     RestartTypes, StutterTypes

\* Every variable of a streaming pipeline keeps its type; the channel never
\* holds more than its buffer, and the recorded position is never empty.
THEOREM TypeCorrect == Spec => []TypeOK
  <1>1. Init => TypeOK /\ Hands
    BY InitTypes
  <1>2. (TypeOK /\ Hands) /\ [Next]_vars => (TypeOK /\ Hands)'
    BY NextTypes
  <1> QED
    BY <1>1, <1>2, PTL DEF Spec

-----------------------------------------------------------------------------
(* The reader's position                                                     *)

\* Inside a transaction the reader knows which one it is in.
LEMMA InsideTx ==
  ASSUME WellFormed, TypeOK, ReaderInv, proc = "up", rpos \in DOMAIN Binlog,
         Tx(rpos) \notin start, Binlog[rpos].kind # "gtid"
  PROVE  currentTx = Tx(rpos)
  <1>1. rpos > 1 /\ Tx(rpos - 1) = Tx(rpos)
    BY DEF WellFormed
  <1>2. rpos \in 1..Len(Binlog) /\ Len(Binlog) \in Nat
    BY BinlogFacts
  <1>3. rpos - 1 \in 1..Len(Binlog) /\ rpos - 1 < rpos
    BY <1>1, <1>2
  <1>4. rpos - 1 \in DOMAIN Binlog
    BY <1>3, BinlogFacts
  <1>5. Binlog[rpos - 1].kind # "xid"
    BY <1>1, <1>3, <1>4 DEF WellFormed
  <1> QED
    BY <1>1, <1>5 DEF ReaderInv

\* The reader passes one event of the binlog.
LEMMA PassKeepsReader ==
  ASSUME WellFormed, TypeOK, ReaderInv, proc = "up", proc' = "up", rpos \in DOMAIN Binlog,
         rpos' = rpos + 1, start' = start,
         \/ Tx(rpos) \in start /\ UNCHANGED <<executed, currentTx>>
         \/ Tx(rpos) \notin start /\ Binlog[rpos].kind = "gtid" /\ executed' = executed /\ currentTx' = Tx(rpos)
         \/ /\ Tx(rpos) \notin start /\ Binlog[rpos].kind = "xid" /\ currentTx' = NoTx
            /\ executed' = IF currentTx # NoTx THEN executed \cup {currentTx} ELSE executed
         \/ /\ Tx(rpos) \notin start /\ Binlog[rpos].kind \in {"rows", "query"}
            /\ UNCHANGED <<executed, currentTx>>
  PROVE  ReaderInv'
  <1>1. rpos \in 1..Len(Binlog) /\ Len(Binlog) \in Nat /\ \A x \in DOMAIN Binlog : x \in Nat
    BY BinlogFacts
  <1>2. Tx(rpos) \in Nat
    BY BinlogFacts
  <1>3. /\ start \subseteq executed
        /\ \A x \in DOMAIN Binlog : Binlog[x].kind = "xid" /\ x < rpos => Tx(x) \in executed
        /\ \A t \in executed \ start :
             \E x \in DOMAIN Binlog : Binlog[x].kind = "xid" /\ x < rpos /\ Tx(x) = t
    BY DEF ReaderInv
  <1>4. ASSUME Tx(rpos) \notin start, Binlog[rpos].kind = "xid"
        PROVE  currentTx = Tx(rpos) /\ currentTx # NoTx
    BY <1>2, <1>4, InsideTx DEF NoTx
  <1>5. executed \subseteq executed'
    OBVIOUS
  <1>6. \A x \in DOMAIN Binlog : x < rpos' <=> x < rpos \/ x = rpos
    BY <1>1
  <1>7. Binlog[rpos].kind = "xid" => Tx(rpos) \in executed'
    BY <1>3, <1>4
  <1>8. \A x \in DOMAIN Binlog : Binlog[x].kind = "xid" /\ x < rpos' => Tx(x) \in executed'
    BY <1>3, <1>5, <1>6, <1>7
  <1>9. \A t \in executed' : t \in executed \/ (t = Tx(rpos) /\ Binlog[rpos].kind = "xid")
    BY <1>4
  <1>10. \A t \in executed' \ start' :
           \E x \in DOMAIN Binlog : Binlog[x].kind = "xid" /\ x < rpos' /\ Tx(x) = t
    BY <1>3, <1>6, <1>9
  <1>11. rpos' - 1 = rpos
    BY <1>1
  <1>12. Tx(rpos) \notin start => currentTx' = IF Binlog[rpos].kind = "xid" THEN NoTx ELSE Tx(rpos)
    BY InsideTx
  <1>13. start' \subseteq executed'
    BY <1>3, <1>5
  <1>14. rpos' > 1 /\ Tx(rpos' - 1) \notin start' =>
           currentTx' = IF Binlog[rpos' - 1].kind = "xid" THEN NoTx ELSE Tx(rpos' - 1)
    BY <1>11, <1>12
  <1> QED
    BY <1>8, <1>10, <1>13, <1>14 DEF ReaderInv

LEMMA NextReader ==
  ASSUME WellFormed, TypeOK, ReaderInv, [Next]_vars
  PROVE  ReaderInv'
  <1>1. CASE UNCHANGED <<proc, start, rpos, executed, currentTx>>
    BY <1>1 DEF ReaderInv
  <1>2. CASE RunnerMoves \/ ReserveSave \/ Halts \/ ReserveLoad \/ UNCHANGED vars
    <2>1. UNCHANGED <<proc, start, rpos, executed, currentTx>>
      BY <1>2 DEF RunnerMoves, ReserveSave, Halts, ReaderStops, ReaderFails, Sigterm, ReserveLoad,
                  readerVars, vars
    <2> QED
      BY <1>1, <2>1
  <1>3. CASE SourceSkips
    <2>1. /\ proc = "up" /\ proc' = "up" /\ rpos \in DOMAIN Binlog /\ rpos' = rpos + 1
          /\ start' = start /\ Tx(rpos) \in start /\ UNCHANGED <<executed, currentTx>>
      BY <1>3 DEF SourceSkips, Tx
    <2> QED
      BY <2>1, PassKeepsReader
  <1>4. CASE ReadGTID
    <2>1. /\ proc = "up" /\ proc' = "up" /\ rpos \in DOMAIN Binlog /\ rpos' = rpos + 1
          /\ start' = start /\ Tx(rpos) \notin start /\ Binlog[rpos].kind = "gtid"
          /\ executed' = executed /\ currentTx' = Tx(rpos)
      BY <1>4 DEF ReadGTID, Reading, Tx
    <2> QED
      BY <2>1, PassKeepsReader
  <1>5. CASE ReadXID
    <2>1. /\ proc = "up" /\ proc' = "up" /\ rpos \in DOMAIN Binlog /\ rpos' = rpos + 1
          /\ start' = start /\ Tx(rpos) \notin start /\ Binlog[rpos].kind = "xid"
          /\ currentTx' = NoTx
          /\ executed' = IF currentTx # NoTx THEN executed \cup {currentTx} ELSE executed
      BY <1>5 DEF ReadXID, Reading, Tx
    <2> QED
      BY <2>1, PassKeepsReader
  <1>6. CASE ReadQuery \/ ReadRow
    <2>1. /\ proc = "up" /\ proc' = "up" /\ rpos \in DOMAIN Binlog /\ rpos' = rpos + 1
          /\ start' = start /\ Tx(rpos) \notin start /\ Binlog[rpos].kind \in {"rows", "query"}
          /\ UNCHANGED <<executed, currentTx>>
      BY <1>6 DEF ReadQuery, ReadRow, Reading, Tx
    <2> QED
      BY <2>1, PassKeepsReader
  <1>7. CASE Crash \/ Exit
    BY <1>7 DEF Crash, Exit, Down, ReaderInv
  <1>8. CASE Restart
    <2>1. start' = executed' /\ rpos' = 1
      BY <1>8 DEF Restart
    <2>2. \A x \in DOMAIN Binlog : ~(x < 1)
      BY BinlogFacts
    <2> QED
      BY <2>1, <2>2 DEF ReaderInv
  <1> QED
    BY <1>2, <1>3, <1>4, <1>5, <1>6, <1>7, <1>8, Steps DEF Reads

\* A row change the reader's position covers, beyond the start position, lies
\* behind the reader.
LEMMA CoveredIsPassed ==
  ASSUME WellFormed, TypeOK, ReaderInv, proc = "up",
         NEW r \in Rows, Tx(r) \in executed, Tx(r) \notin start
  PROVE  r < rpos
  <1>1. PICK x \in DOMAIN Binlog : Binlog[x].kind = "xid" /\ x < rpos /\ Tx(x) = Tx(r)
    BY DEF ReaderInv
  <1>2. r \in DOMAIN Binlog /\ Binlog[r].kind = "rows" /\ r # x
    BY <1>1 DEF Rows
  <1>3. ~(x < r)
    BY <1>1, <1>2 DEF WellFormed
  <1>4. x \in Nat /\ r \in Nat /\ rpos \in Nat
    BY <1>2, BinlogFacts DEF TypeOK
  <1> QED
    BY <1>1, <1>2, <1>3, <1>4

\* The transaction of the row the reader is at is not in its position.
LEMMA ReadIsNotCovered ==
  ASSUME WellFormed, TypeOK, ReaderInv, proc = "up", rpos \in Rows, Tx(rpos) \notin start
  PROVE  Tx(rpos) \notin executed
  <1>1. rpos \in Nat
    BY DEF TypeOK
  <1> QED
    BY <1>1, CoveredIsPassed

\* The reader's position covers every change before one that it covers.
LEMMA ExecutedClosed ==
  ASSUME WellFormed, TypeOK, ReaderInv, proc = "up", Closed(start)
  PROVE  Closed(executed)
  <1> SUFFICES ASSUME NEW q \in Rows, NEW r \in Rows, q < r, Tx(r) \in executed
               PROVE  Tx(q) \in executed
    BY DEF Closed
  <1>1. start \subseteq executed
    BY DEF ReaderInv
  <1>2. CASE Tx(r) \in start \/ Tx(q) = Tx(r)
    BY <1>1, <1>2 DEF Closed
  <1>3. CASE Tx(r) \notin start /\ Tx(q) # Tx(r)
    <2>1. r < rpos
      BY <1>3, CoveredIsPassed
    <2>2. q \in DOMAIN Binlog /\ r \in DOMAIN Binlog /\ Binlog[r].kind = "rows"
      BY DEF Rows
    <2>3. PICK x \in DOMAIN Binlog : Binlog[x].kind = "xid" /\ Tx(x) = Tx(q)
      BY <1>3, <2>2 DEF WellFormed
    <2>4. x \in Nat /\ r \in Nat /\ q \in Nat /\ rpos \in Nat
      BY <2>2, BinlogFacts DEF TypeOK
    <2>5. ~(r < x)
      BY <1>3, <2>2, <2>3 DEF WellFormed
    <2>6. x < rpos
      BY <2>1, <2>4, <2>5
    <2> QED
      BY <2>3, <2>6 DEF ReaderInv
  <1> QED
    BY <1>2, <1>3

-----------------------------------------------------------------------------
(* The positions under way                                                   *)

LEMMA InitPositions ==
  ASSUME Init
  PROVE  ReaderInv /\ PositionInv /\ DownInv
  <1>1. /\ events = <<>> /\ pendingGTID = {} /\ gtidSet = {BaseTx} /\ proc = "up"
        /\ start = {BaseTx} /\ executed = {BaseTx} /\ rpos = 1 /\ loaded = {}
    BY DEF Init, RunnerInit
  <1>2. \A i \in DOMAIN Binlog : Tx(i) # BaseTx /\ ~(i < 1)
    BY BinlogFacts
  <1>3. Closed({BaseTx}) /\ Closed({})
    BY <1>2 DEF Closed, Rows
  <1>4. DOMAIN events = {}
    BY <1>1
  <1>5. ReaderInv
    BY <1>1, <1>2 DEF ReaderInv
  <1>6. PositionInv
    BY <1>1, <1>3, <1>4 DEF PositionInv
  <1> QED
    BY <1>1, <1>5, <1>6 DEF DownInv

LEMMA RunnerPositions ==
  ASSUME TypeOK, PositionInv, RunnerMoves
  PROVE  PositionInv' /\ gtidSet \subseteq gtidSet'
  <1>1. UNCHANGED <<proc, start, executed, loaded>>
    BY DEF RunnerMoves, readerVars
  <1>2. events \in Seq(Event)
    BY DEF TypeOK
  <1>3. events' = events \/ (events # <<>> /\ events' = Tail(events))
    BY EventsMove DEF RunnerMoves
  <1>4. /\ \A i \in DOMAIN events :
             /\ Closed(events[i].gtid) /\ events[i].gtid # {}
             /\ gtidSet \subseteq events[i].gtid /\ pendingGTID \subseteq events[i].gtid
             /\ events[i].gtid \subseteq executed
        /\ \A i, j \in DOMAIN events : i < j => events[i].gtid \subseteq events[j].gtid
    BY DEF PositionInv
  <1>5. /\ \A i \in DOMAIN events' :
             /\ Closed(events'[i].gtid) /\ events'[i].gtid # {}
             /\ gtidSet \subseteq events'[i].gtid /\ pendingGTID \subseteq events'[i].gtid
             /\ events'[i].gtid \subseteq executed
        /\ \A i, j \in DOMAIN events' : i < j => events'[i].gtid \subseteq events'[j].gtid
    <2>1. CASE events' = events
      BY <1>4, <2>1
    <2>2. CASE events # <<>> /\ events' = Tail(events)
      <3>1. \A i \in DOMAIN events' : i \in Nat /\ i + 1 \in DOMAIN events /\ events'[i] = events[i + 1]
        BY <1>2, <2>2, TailShifts
      <3>2. \A i, j \in DOMAIN events' : i < j => i + 1 < j + 1
        BY <3>1
      <3> QED
        BY <1>4, <3>1, <3>2
    <2> QED
      BY <1>3, <2>1, <2>2
  <1>6. CASE Receive
    <2>1. events # <<>> /\ events' = Tail(events) /\ Note(Head(events)) /\ UNCHANGED rowVars
      BY <1>6 DEF Receive
    <2>2. 1 \in DOMAIN events /\ Head(events) = events[1]
      BY <1>2, <2>1, TailShifts
    <2>3. pendingGTID' = events[1].gtid /\ gtidSet' = gtidSet
      BY <1>4, <2>1, <2>2 DEF Note, rowVars
    <2>4. \A i \in DOMAIN events' : events[1].gtid \subseteq events'[i].gtid
      <3>1. \A i \in DOMAIN events' : i + 1 \in DOMAIN events /\ events'[i] = events[i + 1] /\ 1 < i + 1
        BY <1>2, <2>1, TailShifts
      <3> QED
        BY <1>4, <2>2, <3>1
    <2> QED
      BY <1>1, <1>4, <1>5, <2>2, <2>3, <2>4 DEF PositionInv
  <1>7. CASE ~Receive
    <2>1. pendingGTID' = pendingGTID
      BY <1>7, PositionsMove DEF RunnerMoves, pendingVars
    <2>2. gtidSet' = gtidSet \/ (pendingGTID # {} /\ gtidSet' = pendingGTID)
      BY PositionsMove DEF RunnerMoves, rowVars, SavePosition
    <2>3. /\ gtidSet \subseteq gtidSet' /\ Closed(gtidSet')
          /\ (proc = "up" => gtidSet' \subseteq executed)
          /\ (pendingGTID # {} => gtidSet' \subseteq pendingGTID)
          /\ \A i \in DOMAIN events' : gtidSet' \subseteq events'[i].gtid
      BY <1>5, <2>2 DEF PositionInv
    <2> QED
      BY <1>1, <1>5, <2>1, <2>3 DEF PositionInv
  <1> QED
    BY <1>6, <1>7

LEMMA NextPositions ==
  ASSUME WellFormed, TypeOK, Hands, ReaderInv, PositionInv, DownInv, [Next]_vars
  PROVE  PositionInv' /\ DownInv'
  <1>1. CASE RunnerMoves
    <2>1. DownInv'
      <3> SUFFICES ASSUME proc' = "down" PROVE Pipe' = {} /\ events' = <<>> /\ pendingGTID' = {} /\ loaded' = {}
        BY DEF DownInv
      <3>1. proc = "down" /\ loaded' = loaded
        BY <1>1 DEF RunnerMoves, readerVars
      <3>2. Pipe = {} /\ events = <<>> /\ pendingGTID = {} /\ loaded = {}
        BY <3>1 DEF DownInv
      <3>3. Pipe' \subseteq Pipe
        BY <1>1, TypesShape, RunnerKeeps DEF RunnerMoves, Kept, Drains
      <3>4. events' = <<>>
        BY <1>1, <3>2, EventsMove DEF RunnerMoves
      <3>5. pendingGTID' = {}
        <4>1. ~Receive
          BY <3>2 DEF Receive
        <4> QED
          BY <1>1, <3>2, <4>1, PositionsMove DEF RunnerMoves, pendingVars
      <3> QED
        BY <3>1, <3>2, <3>3, <3>4, <3>5
    <2> QED
      BY <1>1, <2>1, RunnerPositions
  <1>2. CASE Reads
    <2>1. /\ UNCHANGED <<events, pendingGTID, gtidSet, proc, start>> /\ proc = "up"
      BY <1>2 DEF Reads, SourceSkips, ReadGTID, ReadXID, ReadQuery, ReserveLoad, Reading,
                  runnerVars, channelVars, pendingVars, rowVars
    <2>2. executed \subseteq executed' /\ loaded' \in {loaded, gtidSet}
      BY <1>2 DEF Reads, SourceSkips, ReadGTID, ReadXID, ReadQuery, ReserveLoad
    <2>3. PositionInv'
      <3>1. /\ \A i \in DOMAIN events' :
                 /\ Closed(events'[i].gtid) /\ events'[i].gtid # {}
                 /\ gtidSet' \subseteq events'[i].gtid /\ pendingGTID' \subseteq events'[i].gtid
                 /\ events'[i].gtid \subseteq executed'
            /\ \A i, j \in DOMAIN events' : i < j => events'[i].gtid \subseteq events'[j].gtid
        BY <2>1, <2>2 DEF PositionInv
      <3>2. /\ Closed(start') /\ Closed(gtidSet') /\ Closed(pendingGTID')
            /\ start' \subseteq gtidSet' /\ gtidSet' \subseteq executed'
            /\ pendingGTID' # {} => gtidSet' \subseteq pendingGTID' /\ pendingGTID' \subseteq executed'
        BY <2>1, <2>2 DEF PositionInv
      <3>3. Closed(loaded') /\ (loaded' # {} => start' \subseteq loaded' /\ loaded' \subseteq gtidSet')
        BY <2>1, <2>2 DEF PositionInv
      <3> QED
        BY <3>1, <3>2, <3>3 DEF PositionInv
    <2> QED
      BY <2>1, <2>3 DEF DownInv
  <1>3. CASE ReserveSave
    <2>1. /\ UNCHANGED <<events, pendingGTID, proc, start, executed>> /\ proc = "up"
          /\ gtidSet' = loaded /\ loaded # {} /\ loaded' = {}
      BY <1>3 DEF ReserveSave, Reading, channelVars, pendingVars
    <2>2. loaded \subseteq gtidSet /\ start \subseteq loaded /\ Closed(loaded) /\ Closed({})
      BY <2>1 DEF PositionInv, Closed
    <2>3. PositionInv'
      <3>1. /\ \A i \in DOMAIN events' :
                 /\ Closed(events'[i].gtid) /\ events'[i].gtid # {}
                 /\ gtidSet' \subseteq events'[i].gtid /\ pendingGTID' \subseteq events'[i].gtid
                 /\ events'[i].gtid \subseteq executed'
            /\ \A i, j \in DOMAIN events' : i < j => events'[i].gtid \subseteq events'[j].gtid
        BY <2>1, <2>2 DEF PositionInv
      <3>2. /\ Closed(start') /\ Closed(gtidSet') /\ Closed(pendingGTID')
            /\ start' \subseteq gtidSet' /\ gtidSet' \subseteq executed'
            /\ pendingGTID' # {} => gtidSet' \subseteq pendingGTID' /\ pendingGTID' \subseteq executed'
        BY <2>1, <2>2 DEF PositionInv
      <3> QED
        BY <2>1, <2>2, <3>1, <3>2 DEF PositionInv
    <2> QED
      BY <2>1, <2>3 DEF DownInv
  <1>4. CASE ReadRow
    <2>1. /\ UNCHANGED <<pendingGTID, gtidSet, proc, start, executed, loaded>> /\ proc = "up"
          /\ rpos \in DOMAIN Binlog /\ events' = Append(events, EventOf(rpos, seq + 1))
      BY <1>4 DEF ReadRow, Reading, pendingVars, rowVars
    <2> DEFINE e == EventOf(rpos, seq + 1)
    <2>2. e \in Event /\ e.gtid = executed
      <3>1. seq + 1 \in Nat
        BY DEF TypeOK
      <3> QED
        BY <2>1, <3>1, EventType
    <2> HIDE DEF e
    <2>3. Closed(executed)
      BY <2>1, ExecutedClosed DEF PositionInv
    <2>4. /\ gtidSet \subseteq executed /\ executed # {} /\ pendingGTID \subseteq executed
      BY <2>1 DEF PositionInv, TypeOK
    <2>5. PICK n \in Nat : /\ n = Len(events) /\ DOMAIN events = 1..n /\ DOMAIN events' = 1..(n + 1)
                           /\ \A i \in 1..n : events'[i] = events[i]
                           /\ events'[n + 1] = e
      <3>1. events \in Seq(Event) /\ events' = Append(events, e)
        BY <2>1 DEF TypeOK, e
      <3>2. /\ events' \in Seq(Event) /\ Len(events') = Len(events) + 1
            /\ \A i \in 1..Len(events) : events'[i] = events[i]
            /\ events'[Len(events) + 1] = e
        BY <2>2, <3>1, AppendProperties
      <3>3. /\ DOMAIN events = 1..Len(events) /\ Len(events) \in Nat
            /\ DOMAIN events' = 1..(Len(events) + 1)
        BY <3>1, <3>2, LenProperties
      <3> QED
        BY <3>2, <3>3
    <2>6. \A i \in DOMAIN events' : i = n + 1 \/ (i \in DOMAIN events /\ events'[i] = events[i])
      BY <2>5
    <2>7. \A i \in DOMAIN events' :
            /\ Closed(events'[i].gtid) /\ events'[i].gtid # {}
            /\ gtidSet' \subseteq events'[i].gtid /\ pendingGTID' \subseteq events'[i].gtid
            /\ events'[i].gtid \subseteq executed'
      BY <2>1, <2>2, <2>3, <2>4, <2>5, <2>6 DEF PositionInv
    <2>8. \A i, j \in DOMAIN events' : i < j => events'[i].gtid \subseteq events'[j].gtid
      <3> SUFFICES ASSUME NEW i \in DOMAIN events', NEW j \in DOMAIN events', i < j
                   PROVE  events'[i].gtid \subseteq events'[j].gtid
        OBVIOUS
      <3>1. i \in DOMAIN events /\ events'[i] = events[i]
        BY <2>5
      <3>2. CASE j = n + 1
        BY <2>1, <2>2, <2>5, <2>7, <3>2
      <3>3. CASE j # n + 1
        BY <2>6, <3>1, <3>3 DEF PositionInv
      <3> QED
        BY <3>2, <3>3
    <2>9. PositionInv'
      BY <2>1, <2>7, <2>8 DEF PositionInv
    <2> QED
      BY <2>1, <2>9 DEF DownInv
  <1>5. CASE Halts
    <2>1. UNCHANGED <<events, todo, batch, inflight, pendingGTID, gtidSet, proc, start, executed, loaded>>
      BY <1>5, HaltsTypes
    <2> QED
      BY <2>1 DEF PositionInv, DownInv, Pipe
  <1>6. CASE Crash \/ Exit
    <2>1. /\ events' = <<>> /\ pendingGTID' = {} /\ loaded' = {} /\ proc' = "down" /\ Pipe' = {}
          /\ UNCHANGED <<gtidSet, start, executed>>
      BY <1>6, DownTypes
    <2>2. DOMAIN events' = {} /\ Closed({})
      BY <2>1 DEF Closed
    <2> QED
      BY <2>1, <2>2 DEF PositionInv, DownInv
  <1>7. CASE Restart
    <2>1. /\ proc = "down" /\ proc' = "up" /\ start' = gtidSet /\ executed' = gtidSet
          /\ UNCHANGED <<events, pendingGTID, gtidSet, loaded>>
      BY <1>7 DEF Restart, runnerVars, channelVars, pendingVars, rowVars
    <2>2. events = <<>> /\ pendingGTID = {} /\ loaded = {}
      BY <2>1 DEF DownInv
    <2>3. DOMAIN events' = {}
      BY <2>1, <2>2
    <2> QED
      BY <2>1, <2>2, <2>3 DEF PositionInv, DownInv
  <1>8. CASE UNCHANGED vars
    <2>1. UNCHANGED <<events, todo, batch, inflight, pendingGTID, gtidSet, proc, start, executed, loaded>>
      BY <1>8 DEF vars, runnerVars, channelVars, workVars, pendingVars, rowVars, readerVars
    <2> QED
      BY <2>1 DEF PositionInv, DownInv, Pipe
  <1> QED
    BY <1>1, <1>2, <1>3, <1>4, <1>5, <1>6, <1>7, <1>8, Steps

-----------------------------------------------------------------------------
(* What is behind the positions                                              *)

LEMMA EventsAhead ==
  ASSUME PositionInv, NEW e \in Elems(events)
  PROVE  pendingGTID \subseteq e.gtid /\ gtidSet \subseteq e.gtid /\ e.gtid # {}
  BY DEF PositionInv, Elems

\* Where a document of the pipe is.
LEMMA PipeParts ==
  ASSUME NEW d \in Pipe
  PROVE  \/ \E e \in Elems(events) : d \in Elems(e.docs)
         \/ d \in Elems(todo) \/ d \in Elems(batch.docs) \/ d \in inflight
  BY DEF Pipe, QueuedIn

\* When a position is recorded, all it covers has left the pipe.
LEMMA PendingBehindPipe ==
  ASSUME Hands, PositionInv, BehindInv, pc = "advance", NEW d \in Pipe
  PROVE  Tx(d.row) \notin pendingGTID
  <1>1. ASSUME NEW e \in Elems(events), d \in Elems(e.docs)
        PROVE  Tx(d.row) \notin pendingGTID
    BY <1>1, EventsAhead DEF BehindInv
  <1>2. CASE d \in Elems(todo)
    BY <1>2 DEF BehindInv
  <1>3. CASE d \in Elems(batch.docs)
    BY <1>3 DEF BehindInv, Writing
  <1>4. inflight = {}
    BY DEF Hands
  <1> QED
    BY <1>1, <1>2, <1>3, <1>4, PipeParts

LEMMA InitBehind ==
  ASSUME Init
  PROVE  BehindInv /\ Pipe = {}
  <1>1. events = <<>> /\ todo = <<>> /\ batch.docs = <<>> /\ inflight = {} /\ pc = "select"
    BY EmptyBatchType DEF Init, RunnerInit
  <1>2. Elems(events) = {} /\ Elems(todo) = {} /\ Elems(batch.docs) = {} /\ QueuedIn(events) = {}
    BY <1>1, ElemsEmpty, QueuedEmpty
  <1>3. Pipe = {}
    BY <1>1, <1>2 DEF Pipe
  <1> QED
    BY <1>1, <1>2, <1>3 DEF BehindInv

LEMMA RunnerBehind ==
  ASSUME TypeOK, Hands, PositionInv, BehindInv, RunnerMoves
  PROVE  BehindInv'
  <1>1. Sound(Event, Nat, Nat) /\ Drains
    BY TypesShape, RunnerKeeps DEF RunnerMoves, Kept
  <1>2. rpos' = rpos
    BY DEF RunnerMoves, readerVars
  <1>3. \A e \in Elems(events') :
          /\ e.row \in Rows /\ e.row < rpos' /\ Tx(e.row) \notin e.gtid
          /\ \A d \in Elems(e.docs) : d.row = e.row
    BY <1>1, <1>2 DEF Drains, BehindInv
  <1>4. \A d \in Pipe' : d.row \in Rows /\ d.row < rpos' /\ Tx(d.row) \notin gtidSet'
    <2> SUFFICES ASSUME NEW d \in Pipe'
                 PROVE  d.row \in Rows /\ d.row < rpos' /\ Tx(d.row) \notin gtidSet'
      OBVIOUS
    <2>1. d \in Pipe
      BY <1>1 DEF Drains
    <2>2. d.row \in Rows /\ d.row < rpos /\ Tx(d.row) \notin gtidSet
      BY <2>1 DEF BehindInv
    <2>3. \/ gtidSet' = gtidSet
          \/ pc = "advance" /\ pendingGTID # {} /\ gtidSet' = pendingGTID
      BY PositionsMove DEF RunnerMoves, rowVars, SavePosition
    <2> QED
      BY <1>2, <2>1, <2>2, <2>3, PendingBehindPipe
  <1>5. CASE Receive
    <2>1. /\ events # <<>> /\ Note(Head(events)) /\ todo' = Head(events).docs /\ pc' = "add"
      BY <1>5 DEF Receive
    <2>2. PICK e \in Elems(events) : e = Head(events)
      BY <2>1, ElemsTail DEF TypeOK
    <2>3. pendingGTID' = e.gtid
      BY <2>1, <2>2, EventsAhead DEF Note
    <2>4. \A d \in Elems(todo') : Tx(d.row) \notin pendingGTID'
      BY <2>1, <2>2, <2>3 DEF BehindInv
    <2> QED
      BY <1>3, <1>4, <2>1, <2>4 DEF BehindInv, Writing
  <1>6. CASE ~Receive
    <2>1. pendingGTID' = pendingGTID
      BY <1>6, PositionsMove DEF RunnerMoves, pendingVars
    <2>2. /\ Elems(todo') \subseteq Elems(todo)
          /\ Writing' => \/ Elems(batch'.docs) \subseteq Elems(todo)
                         \/ Writing /\ batch' = batch
      BY <1>1, <1>6, WritingMoves DEF RunnerMoves
    <2>3. \A d \in Elems(todo') : Tx(d.row) \notin pendingGTID'
      BY <2>1, <2>2 DEF BehindInv
    <2>4. Writing' => \A d \in Elems(batch'.docs) : Tx(d.row) \notin pendingGTID'
      BY <2>1, <2>2 DEF BehindInv
    <2> QED
      BY <1>3, <1>4, <2>3, <2>4 DEF BehindInv
  <1> QED
    BY <1>5, <1>6

\* What the reader adds to the pipe.
LEMMA ReadRowAdds ==
  ASSUME TypeOK, ReadRow
  PROVE  \E e \in Event :
           /\ e = EventOf(rpos, seq + 1)
           /\ Elems(events') = Elems(events) \cup {e} /\ Pipe' = Pipe \cup Elems(e.docs)
           /\ e.row = rpos /\ e.gtid = executed /\ e.plan = Binlog[rpos].plan
           /\ e.plan \in {"ok", "error"}
           /\ \A d \in Elems(e.docs) : d.row = rpos /\ d.ver = seq + 1
           /\ e.plan = "ok" =>
                \A k \in KeysOf(rpos) : \E d \in Elems(e.docs) : d.row = rpos /\ d.key = k
  <1>1. /\ rpos \in DOMAIN Binlog /\ events' = Append(events, EventOf(rpos, seq + 1))
        /\ UNCHANGED <<todo, batch, inflight>>
    BY DEF ReadRow, Reading, workVars
  <1>2. seq + 1 \in Nat /\ events \in Seq(Event)
    BY DEF TypeOK
  <1> DEFINE e == EventOf(rpos, seq + 1)
  <1>3. /\ e \in Event
        /\ e.row = rpos /\ e.gtid = executed /\ e.plan = Binlog[rpos].plan
        /\ \A d \in Elems(e.docs) : d.row = rpos /\ d.ver = seq + 1
        /\ e.plan = "ok" =>
             \A k \in KeysOf(rpos) : \E d \in Elems(e.docs) : d.row = rpos /\ d.key = k
    BY <1>1, <1>2, EventType
  <1>4. events' = Append(events, e)
    BY <1>1
  <1>5. e = EventOf(rpos, seq + 1)
    OBVIOUS
  <1> HIDE DEF e
  <1>6. Elems(events') = Elems(events) \cup {e} /\ QueuedIn(events') = QueuedIn(events) \cup Elems(e.docs)
    BY <1>2, <1>3, <1>4, ElemsAppend, QueuedAppend
  <1>7. Pipe' = Pipe \cup Elems(e.docs)
    BY <1>1, <1>6 DEF Pipe
  <1>8. e.plan \in {"ok", "error"}
    BY <1>3 DEF Event
  <1> QED
    BY <1>3, <1>5, <1>6, <1>7, <1>8

LEMMA NextBehind ==
  ASSUME WellFormed, TypeOK, Hands, ReaderInv, PositionInv, DownInv, BehindInv, [Next]_vars
  PROVE  BehindInv'
  <1>1. CASE RunnerMoves
    BY <1>1, RunnerBehind
  <1>2. CASE Reads \/ ReserveSave \/ Halts \/ UNCHANGED vars
    <2>1. UNCHANGED <<events, todo, batch, inflight, pc, pendingGTID>>
      <3>1. CASE Reads \/ UNCHANGED vars
        BY <3>1, ReadsTypes DEF vars, runnerVars, channelVars, workVars, pendingVars
      <3>2. CASE ReserveSave
        BY <3>2 DEF ReserveSave, channelVars, workVars, pendingVars
      <3>3. CASE Halts
        BY <3>3, HaltsTypes
      <3> QED
        BY <1>2, <3>1, <3>2, <3>3
    <2>2. gtidSet' \subseteq gtidSet
      <3>1. CASE Reads \/ UNCHANGED vars
        BY <3>1, ReadsTypes DEF vars, runnerVars, rowVars
      <3>2. CASE ReserveSave
        BY <3>2 DEF ReserveSave, PositionInv
      <3>3. CASE Halts
        BY <3>3, HaltsTypes
      <3> QED
        BY <1>2, <3>1, <3>2, <3>3
    <2>3. rpos' = rpos \/ rpos' = rpos + 1
      BY <1>2 DEF Reads, SourceSkips, ReadGTID, ReadXID, ReadQuery, ReserveLoad, ReserveSave,
                  Halts, ReaderStops, ReaderFails, Sigterm, readerVars, vars
    <2>4. \A r \in Rows : r < rpos => r < rpos'
      BY <2>3, BinlogFacts DEF TypeOK
    <2>5. Pipe' = Pipe /\ Writing' = Writing
      BY <2>1 DEF Pipe, Writing
    <2>6. \A d \in Pipe' : d.row \in Rows /\ d.row < rpos' /\ Tx(d.row) \notin gtidSet'
      BY <2>2, <2>4, <2>5 DEF BehindInv
    <2>7. \A e \in Elems(events') :
            /\ e.row \in Rows /\ e.row < rpos' /\ Tx(e.row) \notin e.gtid
            /\ \A d \in Elems(e.docs) : d.row = e.row
      BY <2>1, <2>4 DEF BehindInv
    <2> QED
      BY <2>1, <2>5, <2>6, <2>7 DEF BehindInv
  <1>3. CASE ReadRow
    <2>1. PICK e \in Event :
            /\ Elems(events') = Elems(events) \cup {e} /\ Pipe' = Pipe \cup Elems(e.docs)
            /\ e.row = rpos /\ e.gtid = executed /\ e.plan = Binlog[rpos].plan
            /\ \A d \in Elems(e.docs) : d.row = rpos /\ d.ver = seq + 1
      BY <1>3, ReadRowAdds
    <2>2. /\ UNCHANGED <<todo, batch, pc, pendingGTID, gtidSet>> /\ rpos' = rpos + 1 /\ proc = "up"
          /\ rpos \in Rows /\ Tx(rpos) \notin start
      BY <1>3 DEF ReadRow, Reading, workVars, pendingVars, rowVars, Rows, Tx
    <2>3. Tx(rpos) \notin executed /\ gtidSet \subseteq executed
      BY <2>2, ReadIsNotCovered DEF PositionInv
    <2>4. rpos < rpos' /\ \A r \in Rows : r < rpos => r < rpos'
      BY <2>2, BinlogFacts DEF TypeOK
    <2>5. \A d \in Pipe' : d.row \in Rows /\ d.row < rpos' /\ Tx(d.row) \notin gtidSet'
      BY <2>1, <2>2, <2>3, <2>4 DEF BehindInv
    <2>6. \A x \in Elems(events') :
            /\ x.row \in Rows /\ x.row < rpos' /\ Tx(x.row) \notin x.gtid
            /\ \A d \in Elems(x.docs) : d.row = x.row
      BY <2>1, <2>2, <2>3, <2>4 DEF BehindInv
    <2> QED
      BY <2>2, <2>5, <2>6 DEF BehindInv, Writing
  <1>4. CASE Crash \/ Exit
    <2>1. Pipe' = {} /\ events' = <<>>
      BY <1>4, DownTypes
    <2>2. Elems(events') = {} /\ Elems(todo') = {} /\ Elems(batch'.docs) = {}
      BY <2>1, ElemsEmpty DEF Pipe
    <2> QED
      BY <2>1, <2>2 DEF BehindInv
  <1>5. CASE Restart
    <2>1. UNCHANGED <<events, todo, batch, inflight>> /\ proc = "down"
      BY <1>5 DEF Restart, runnerVars, channelVars, workVars
    <2>2. Pipe' = {} /\ events' = <<>>
      BY <2>1 DEF DownInv, Pipe
    <2>3. Elems(events') = {} /\ Elems(todo') = {} /\ Elems(batch'.docs) = {}
      BY <2>2, ElemsEmpty DEF Pipe
    <2> QED
      BY <2>2, <2>3 DEF BehindInv
  <1> QED
    BY <1>1, <1>2, <1>3, <1>4, <1>5, Steps

-----------------------------------------------------------------------------
(* Versions and delivery                                                     *)

\* The steps that leave everything between the source and the destination alone.
LEMMA QuietSteps ==
  ASSUME TypeOK, Hands, Reads \/ ReserveSave \/ Halts \/ Restart \/ UNCHANGED vars
  PROVE  /\ UNCHANGED <<events, todo, batch, inflight, rejected, stray, dest, dlq, pc, seq>>
         /\ Pipe' = Pipe /\ (Healthy' => Healthy)
  <1>1. UNCHANGED <<events, todo, batch, inflight, rejected, stray, dest, dlq, pc, seq>>
    <2>1. CASE Reads \/ Restart \/ UNCHANGED vars
      <3>1. UNCHANGED <<runnerVars, seq>>
        BY <2>1 DEF Reads, SourceSkips, ReadGTID, ReadXID, ReadQuery, ReserveLoad, Restart, vars,
                    readerVars
      <3> QED
        BY <3>1 DEF runnerVars, channelVars, workVars, destVars
    <2>2. CASE ReserveSave
      BY <2>2 DEF ReserveSave, channelVars, workVars, destVars
    <2>3. CASE Halts
      BY <2>3, HaltsTypes
    <2> QED
      BY <2>1, <2>2, <2>3
  <1>2. ctx' = ctx \/ ctx' = "done"
    <2>1. CASE Reads \/ Restart \/ UNCHANGED vars
      BY <2>1, ReadsTypes, RestartTypes DEF vars, runnerVars, channelVars
    <2>2. CASE ReserveSave
      BY <2>2 DEF ReserveSave, channelVars
    <2>3. CASE Halts
      BY <2>3, HaltsTypes
    <2> QED
      BY <2>1, <2>2, <2>3
  <1>3. Healthy' => Healthy
    BY <1>1, <1>2 DEF Healthy
  <1> QED
    BY <1>1, <1>3 DEF Pipe

LEMMA InitIssued ==
  ASSUME Init
  PROVE  IssuedInv
  <1>1. stray = {} /\ seq = 0 /\ Pipe = {} /\ \A k \in Keys : dest[k].ver = 0
    BY InitBehind DEF Init, RunnerInit
  <1> QED
    BY <1>1 DEF IssuedInv, Ordered

LEMMA RunnerIssued ==
  ASSUME TypeOK, Hands, IssuedInv, RunnerMoves
  PROVE  IssuedInv'
  <1>1. Sound(Event, Nat, Nat) /\ Drains /\ Delivers
    BY TypesShape, RunnerKeeps DEF RunnerMoves, Kept
  <1>2. Feeds(Event, Nat, Nat) /\ Shape(Event, Nat, Nat)
    BY <1>1 DEF Sound
  <1>3. seq' = seq
    BY DEF RunnerMoves, readerVars
  <1>4. \A d \in Pipe' \cup stray' : d.ver <= seq'
    BY <1>1, <1>3 DEF Drains, IssuedInv
  <1>5. \A k \in Keys : dest'[k].ver <= seq'
    <2>1. CASE dest' = dest
      BY <1>3, <2>1 DEF IssuedInv
    <2>2. ASSUME NEW d \in Pipe \cup stray, Apply(d)
          PROVE  \A k \in Keys : dest'[k].ver <= seq'
      <3>1. d \in Documents(Nat, Nat)
        BY <1>2, PipeType DEF Shape
      <3>2. \A k \in Keys : dest'[k] = dest[k] \/ dest'[k].ver = d.ver
        BY <1>2, <2>2, <3>1, ApplyType
      <3> QED
        BY <1>3, <3>2 DEF IssuedInv
    <2> QED
      BY <1>1, <2>1, <2>2 DEF Drains
  <1>6. Healthy' => Ordered'
    BY <1>1, OrderedKept DEF Delivers, IssuedInv
  <1> QED
    BY <1>4, <1>5, <1>6 DEF IssuedInv

LEMMA NextIssued ==
  ASSUME TypeOK, Hands, BehindInv, IssuedInv, [Next]_vars
  PROVE  IssuedInv'
  <1>1. CASE RunnerMoves
    BY <1>1, RunnerIssued
  <1>2. CASE Reads \/ ReserveSave \/ Halts \/ Restart \/ UNCHANGED vars
    <2>1. UNCHANGED <<stray, dest, seq>> /\ Pipe' = Pipe /\ (Healthy' => Healthy)
      BY <1>2, QuietSteps
    <2> QED
      BY <2>1 DEF IssuedInv, Ordered
  <1>3. CASE ReadRow
    <2>1. PICK e \in Event :
            /\ Pipe' = Pipe \cup Elems(e.docs)
            /\ \A d \in Elems(e.docs) : d.row = rpos /\ d.ver = seq + 1
      BY <1>3, ReadRowAdds
    <2>2. UNCHANGED <<stray, dest, pc, ctx>> /\ seq' = seq + 1
      BY <1>3 DEF ReadRow, destVars
    <2>3. Sound(Event, Nat, Nat)
      BY TypesShape
    <2>4. Feeds(Event, Nat, Nat) /\ Shape(Event, Nat, Nat)
      BY <2>3 DEF Sound
    <2>5. \A d \in Pipe \cup stray : d.ver \in Nat /\ d.ver <= seq
      BY <2>4, PipeType, DocNat DEF Shape, IssuedInv
    <2>6. \A k \in Keys : dest[k].ver \in Nat /\ dest[k].ver <= seq
      BY <2>4, DestNat DEF IssuedInv
    <2>7. seq \in Nat /\ rpos \in Nat
      BY DEF TypeOK
    <2>8. \A d \in Pipe' \cup stray' : d.ver <= seq'
      BY <2>1, <2>2, <2>5, <2>7
    <2>9. \A k \in Keys : dest'[k].ver <= seq'
      BY <2>2, <2>6, <2>7
    <2>10. Healthy => Ordered'
      <3> SUFFICES ASSUME Healthy, NEW d \in Pipe'
                   PROVE  /\ dest'[d.key].ver >= d.ver => dest'[d.key].row >= d.row
                          /\ \A c \in Pipe' \cup stray' : c.key = d.key /\ c.ver >= d.ver => c.row >= d.row
        BY DEF Ordered
      <3>1. \A r \in Rows : r \in Nat
        BY BinlogFacts
      <3>2. CASE d \in Pipe
        <4>1. /\ dest[d.key].ver >= d.ver => dest[d.key].row >= d.row
              /\ \A c \in Pipe \cup stray : c.key = d.key /\ c.ver >= d.ver => c.row >= d.row
          BY <3>2 DEF IssuedInv, Ordered
        <4>2. d.row < rpos /\ d.row \in Nat
          BY <3>1, <3>2 DEF BehindInv
        <4>3. \A c \in Elems(e.docs) : c.row >= d.row
          BY <2>1, <2>7, <4>2
        <4> QED
          BY <2>1, <2>2, <4>1, <4>3
      <3>3. CASE d \in Elems(e.docs) /\ d \notin Pipe
        <4>1. d.row = rpos /\ d.ver = seq + 1
          BY <2>1, <3>3
        <4>2. d.key \in Keys
          <5>1. Elems(e.docs) \subseteq Doc
            BY ElemsType DEF Event
          <5> QED
            BY <3>3, <5>1 DEF Doc
        <4>3. ~(dest'[d.key].ver >= d.ver)
          BY <2>2, <2>6, <2>7, <4>1, <4>2
        <4>4. \A c \in Pipe \cup stray : ~(c.ver >= d.ver)
          BY <2>5, <2>7, <4>1
        <4>5. \A c \in Elems(e.docs) : c.row >= d.row
          BY <2>1, <2>7, <4>1
        <4> QED
          BY <2>1, <2>2, <4>3, <4>4, <4>5
      <3> QED
        BY <2>1, <3>2, <3>3
    <2>11. Healthy' => Healthy
      BY <2>2 DEF Healthy
    <2> QED
      BY <2>8, <2>9, <2>10, <2>11 DEF IssuedInv
  <1>4. CASE Crash \/ Exit
    <2>1. Pipe' = {} /\ Drains /\ UNCHANGED <<dest, seq>>
      BY <1>4, DownTypes
    <2> QED
      BY <2>1 DEF IssuedInv, Drains, Ordered
  <1> QED
    BY <1>1, <1>2, <1>3, <1>4, Steps

\* When a position is recorded, nothing it covers is held any more.
LEMMA CoveredNotHeld ==
  ASSUME Hands, PositionInv, BehindInv, pc = "advance",
         NEW r \in Rows, Tx(r) \in pendingGTID, NEW k
  PROVE  ~Held(r, k)
  <1>1. ~\E d \in Pipe : d.row = r /\ d.key = k
    BY PendingBehindPipe
  <1>2. ~\E e \in Elems(events) : e.plan = "error" /\ e.row = r
    BY EventsAhead DEF BehindInv
  <1>3. rejected = {}
    BY DEF Hands
  <1> QED
    BY <1>1, <1>2, <1>3 DEF Held

LEMMA RowKeys ==
  ASSUME NEW r \in Rows
  PROVE  r \in Nat /\ KeysOf(r) \subseteq Keys
  <1>1. r \in DOMAIN Binlog /\ Binlog[r].docs \in Seq([key : Keys, size : Nat])
    BY BinlogFacts DEF Rows
  <1>2. \A n \in DOMAIN Binlog[r].docs : Binlog[r].docs[n] \in [key : Keys, size : Nat]
    BY <1>1, LenProperties, ElementOfSeq
  <1>3. r \in Nat
    BY <1>1, BinlogFacts
  <1> QED
    BY <1>2, <1>3 DEF KeysOf

LEMMA InitDelivery ==
  ASSUME Init
  PROVE  DeliveryInv
  <1>1. gtidSet = {BaseTx} /\ rpos = 1
    BY DEF Init
  <1>2. \A r \in Rows : Tx(r) # BaseTx /\ ~(r < 1)
    BY BinlogFacts DEF Rows
  <1> QED
    BY <1>1, <1>2 DEF DeliveryInv

LEMMA RunnerDelivery ==
  ASSUME WellFormed, TypeOK, Hands, ReaderInv, PositionInv, DownInv, BehindInv, IssuedInv,
         DeliveryInv, RunnerMoves
  PROVE  DeliveryInv'
  <1>1. Sound(Event, Nat, Nat) /\ Kept(Event, Nat, Nat) /\ Drains /\ Delivers
    BY TypesShape, RunnerKeeps DEF RunnerMoves, Kept
  <1>2. UNCHANGED <<proc, start, rpos>>
    BY DEF RunnerMoves, readerVars
  <1>3. \A r \in Rows : \A k \in KeysOf(r) : Delivered(r, k) => Delivered(r, k)'
    BY <1>1, RowKeys, DeliveredKept
  <1>4. ASSUME NEW r \in Rows, Tx(r) \in gtidSet', NEW k \in KeysOf(r)
        PROVE  Delivered(r, k)'
    <2>1. CASE Tx(r) \in gtidSet
      BY <1>3, <2>1 DEF DeliveryInv
    <2>2. CASE Tx(r) \notin gtidSet
      <3>1. pc = "advance" /\ pendingGTID # {} /\ Tx(r) \in pendingGTID
        BY <1>4, <2>2, PositionsMove DEF RunnerMoves, rowVars, SavePosition
      <3>2. proc = "up" /\ Healthy
        BY <3>1 DEF DownInv, TypeOK, Healthy
      <3>3. Tx(r) \in executed /\ Tx(r) \notin start
        BY <2>2, <3>1, <3>2 DEF PositionInv
      <3>4. r < rpos
        BY <3>2, <3>3, CoveredIsPassed
      <3>5. Held(r, k) \/ Delivered(r, k)
        BY <3>2, <3>3, <3>4 DEF DeliveryInv
      <3>6. ~Held(r, k)
        BY <3>1, CoveredNotHeld
      <3> QED
        BY <1>3, <3>5, <3>6
    <2> QED
      BY <2>1, <2>2
  <1>5. ASSUME proc' = "up", Healthy', NEW r \in Rows, r < rpos', Tx(r) \notin start',
               NEW k \in KeysOf(r)
        PROVE  Held(r, k)' \/ Delivered(r, k)'
    <2>1. Healthy
      BY <1>1, <1>5 DEF Delivers
    <2>2. Held(r, k) \/ Delivered(r, k)
      BY <1>2, <1>5, <2>1 DEF DeliveryInv
    <2>3. r \in Nat /\ k \in Keys
      BY RowKeys
    <2>4. Ordered
      BY <2>1 DEF IssuedInv
    <2>5. CASE Held(r, k)
      BY <1>1, <1>5, <2>3, <2>4, <2>5, HeldKept
    <2> QED
      BY <1>3, <2>2, <2>5
  <1> QED
    BY <1>4, <1>5 DEF DeliveryInv

LEMMA NextDelivery ==
  ASSUME WellFormed, TypeOK, Hands, ReaderInv, PositionInv, DownInv, BehindInv, IssuedInv,
         DeliveryInv, [Next]_vars
  PROVE  DeliveryInv'
  <1>1. CASE RunnerMoves
    BY <1>1, RunnerDelivery
  <1>2. CASE Reads \/ ReserveSave \/ Halts \/ Restart \/ UNCHANGED vars
    <2>1. /\ UNCHANGED <<events, rejected, stray, dest, dlq>> /\ Pipe' = Pipe
          /\ Healthy' => Healthy
      BY <1>2, QuietSteps
    <2>2. \A r, k : (Delivered(r, k) => Delivered(r, k)') /\ (Held(r, k) => Held(r, k)')
      BY <2>1 DEF Delivered, Held
    <2>3. gtidSet' \subseteq gtidSet
      <3>1. CASE Reads \/ Restart \/ UNCHANGED vars
        BY <3>1, ReadsTypes, RestartTypes DEF vars, runnerVars, rowVars
      <3>2. CASE ReserveSave
        BY <3>2 DEF ReserveSave, PositionInv
      <3>3. CASE Halts
        BY <3>3, HaltsTypes
      <3> QED
        BY <1>2, <3>1, <3>2, <3>3
    <2>4. \A r \in Rows : Tx(r) \in gtidSet' => \A k \in KeysOf(r) : Delivered(r, k)'
      BY <2>2, <2>3 DEF DeliveryInv
    <2>5. CASE Restart
      <3>1. rpos' = 1 /\ \A r \in Rows : ~(r < 1)
        BY <2>5, BinlogFacts DEF Restart
      <3> QED
        BY <2>4, <3>1 DEF DeliveryInv
    <2>6. CASE ~Restart
      <3>1. UNCHANGED <<proc, start>>
        BY <1>2, <2>6, ReadsTypes, HaltsTypes DEF ReserveSave, vars, readerVars
      <3>2. rpos' = rpos \/ (rpos' = rpos + 1 /\ ~(rpos \in Rows /\ Tx(rpos) \notin start))
        BY <1>2, <2>6 DEF Reads, SourceSkips, ReadGTID, ReadXID, ReadQuery, ReserveLoad, Reading,
             ReserveSave, Halts, ReaderStops, ReaderFails, Sigterm, readerVars, vars, Rows, Tx
      <3>3. \A r \in Rows : r < rpos' /\ Tx(r) \notin start => r < rpos
        BY <3>2, BinlogFacts DEF TypeOK
      <3>4. proc' = "up" /\ Healthy' =>
              \A r \in Rows : r < rpos' /\ Tx(r) \notin start' =>
                \A k \in KeysOf(r) : Held(r, k)' \/ Delivered(r, k)'
        BY <2>1, <2>2, <3>1, <3>3 DEF DeliveryInv
      <3> QED
        BY <2>4, <3>4 DEF DeliveryInv
    <2> QED
      BY <2>5, <2>6
  <1>3. CASE ReadRow
    <2>1. PICK e \in Event :
            /\ Elems(events') = Elems(events) \cup {e} /\ Pipe' = Pipe \cup Elems(e.docs)
            /\ e.row = rpos /\ e.plan \in {"ok", "error"}
            /\ \A d \in Elems(e.docs) : d.row = rpos /\ d.ver = seq + 1
            /\ e.plan = "ok" =>
                 \A k \in KeysOf(rpos) : \E d \in Elems(e.docs) : d.row = rpos /\ d.key = k
      BY <1>3, ReadRowAdds
    <2>2. /\ UNCHANGED <<rejected, stray, dest, dlq, pc, ctx, gtidSet, proc, start>>
          /\ rpos' = rpos + 1 /\ proc = "up" /\ rpos \in Rows /\ Tx(rpos) \notin start
      BY <1>3 DEF ReadRow, Reading, workVars, destVars, rowVars, Rows, Tx
    <2>3. rpos \in Nat /\ \A r \in Rows : r \in Nat
      BY BinlogFacts DEF TypeOK
    <2>4. ASSUME NEW r \in Rows, r <= rpos, NEW k, Delivered(r, k)
          PROVE  Delivered(r, k)'
      <3>1. CASE Letter(r, k) \in dlq \/ Letter(r, NoKey) \in dlq
        BY <2>2, <3>1 DEF Delivered
      <3>2. CASE /\ dest[k].row >= r
                 /\ \A d \in Pipe \cup stray : d.key = k /\ d.ver > dest[k].ver => d.row >= r
        <4>1. \A d \in Elems(e.docs) : d.row >= r
          BY <2>1, <2>3, <2>4
        <4>2. \A d \in Pipe' \cup stray' : d.key = k /\ d.ver > dest'[k].ver => d.row >= r
          BY <2>1, <2>2, <3>2, <4>1
        <4>3. dest'[k].row >= r
          BY <2>2, <3>2
        <4> QED
          BY <4>2, <4>3 DEF Delivered
      <3> QED
        BY <2>4, <3>1, <3>2 DEF Delivered
    <2>5. \A r, k : Held(r, k) => Held(r, k)'
      BY <2>1, <2>2 DEF Held
    <2>6. ASSUME NEW r \in Rows, Tx(r) \in gtidSet', NEW k \in KeysOf(r)
          PROVE  Delivered(r, k)'
      <3>1. gtidSet \subseteq executed /\ Closed(gtidSet) /\ Tx(rpos) \notin executed
        BY <2>2, ReadIsNotCovered DEF PositionInv
      <3>2. ~(rpos < r)
        BY <2>2, <2>6, <3>1 DEF Closed
      <3> QED
        BY <2>2, <2>3, <2>4, <2>6, <3>2 DEF DeliveryInv
    <2>7. ASSUME Healthy', NEW r \in Rows, r < rpos', Tx(r) \notin start', NEW k \in KeysOf(r)
          PROVE  Held(r, k)' \/ Delivered(r, k)'
      <3>1. Healthy
        BY <2>2, <2>7 DEF Healthy
      <3>2. CASE r < rpos
        <4>1. Held(r, k) \/ Delivered(r, k)
          BY <2>2, <2>7, <3>1, <3>2 DEF DeliveryInv
        <4> QED
          BY <2>3, <2>4, <2>5, <3>2, <4>1
      <3>3. CASE r = rpos
        <4>1. CASE e.plan = "ok"
          BY <2>1, <3>3, <4>1 DEF Held
        <4>2. CASE e.plan = "error"
          BY <2>1, <3>3, <4>2 DEF Held
        <4> QED
          BY <2>1, <4>1, <4>2
      <3> QED
        BY <2>2, <2>3, <2>7, <3>2, <3>3
    <2> QED
      BY <2>6, <2>7 DEF DeliveryInv
  <1>4. CASE Crash \/ Exit
    <2>1. Drains /\ proc' = "down" /\ gtidSet' = gtidSet /\ Sound(Event, Nat, Nat)
      BY <1>4, DownTypes, TypesShape
    <2>2. \A r \in Rows : \A k \in KeysOf(r) : Delivered(r, k) => Delivered(r, k)'
      BY <2>1, RowKeys, DeliveredKept
    <2> QED
      BY <2>1, <2>2 DEF DeliveryInv
  <1> QED
    BY <1>1, <1>2, <1>3, <1>4, Steps

-----------------------------------------------------------------------------
(* The theorems                                                              *)

StreamInv ==
  /\ TypeOK /\ Hands /\ ReaderInv /\ PositionInv /\ DownInv
  /\ BehindInv /\ IssuedInv /\ DeliveryInv

LEMMA InitStream == Init => StreamInv
  BY InitTypes, InitPositions, InitBehind, InitIssued, InitDelivery DEF StreamInv

LEMMA NextStream ==
  ASSUME WellFormed, StreamInv, [Next]_vars
  PROVE  StreamInv'
  <1> USE DEF StreamInv
  <1>1. TypeOK' /\ Hands'
    BY NextTypes
  <1>2. ReaderInv' /\ PositionInv' /\ DownInv'
    BY NextReader, NextPositions
  <1>3. BehindInv' /\ IssuedInv' /\ DeliveryInv'
    BY NextBehind, NextIssued, NextDelivery
  <1> QED
    BY <1>1, <1>2, <1>3

LEMMA StreamAlways ==
  ASSUME WellFormed
  PROVE  Spec => []StreamInv
  <1>1. StreamInv /\ [Next]_vars => StreamInv'
    BY NextStream
  <1> QED
    BY <1>1, InitStream, PTL DEF Spec

\* A restart from the recorded position never skips a change: whatever a
\* recorded position covers has reached the destination, was overtaken there
\* by a later change of the same key, or has a dead letter; for every binlog
\* whose transactions with rows end in an XID event.
THEOREM NothingEverLost == WellFormed => (Spec => []NothingLost)
  <1> SUFFICES ASSUME WellFormed PROVE Spec => []NothingLost
    OBVIOUS
  <1>1. StreamInv => NothingLost
    <2> SUFFICES ASSUME StreamInv, NEW r \in Rows, Binlog[r].tx \in gtidSet, NEW k \in KeysOf(r)
                 PROVE  Accounted(r, k)
      BY DEF NothingLost
    <2>1. Delivered(r, k)
      BY DEF StreamInv, DeliveryInv, Tx
    <2> QED
      BY <2>1, DeliveredAccounted
  <1> QED
    BY <1>1, StreamAlways, PTL

\* At no moment does the recorded position cover a document that is still in
\* the channel, in the batcher or in a write.
THEOREM PositionAlwaysBehind == WellFormed => (Spec => []PositionBehindPipe)
  <1> SUFFICES ASSUME WellFormed PROVE Spec => []PositionBehindPipe
    OBVIOUS
  <1>1. StreamInv => PositionBehindPipe
    <2> SUFFICES ASSUME StreamInv PROVE PositionBehindPipe
      OBVIOUS
    <2>1. \A d \in Pipe : Tx(d.row) \notin gtidSet
      BY DEF StreamInv, BehindInv
    <2> QED
      BY <2>1 DEF PositionBehindPipe, Pipe, QueuedIn, Tx
  <1> QED
    BY <1>1, StreamAlways, PTL
=============================================================================
