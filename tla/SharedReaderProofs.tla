-------------------------- MODULE SharedReaderProofs --------------------------
(***************************************************************************)
(* Proofs about SharedReader.tla, for every list of streams, every source, *)
(* every buffer size and any number of failures: streams are given their   *)
(* changes in order, a failure is reported whatever it cancels, and the    *)
(* checkpoint rows say which streams failed.                               *)
(***************************************************************************)
EXTENDS SharedReader, SequenceTheorems, TLAPS

\* What the queues, the channel and the positions in the source are.
FlowTypes ==
  /\ next \in Nat \ {0} /\ next <= Len(Source) + 1
  /\ buffer \in Seq(Nat)
  /\ queue \in [Names -> Seq(Nat)] /\ got \in [Names -> Seq(Nat)]
  /\ targets \subseteq DOMAIN Streams

\* The last event the router took from the channel, 0 before the first.
Routed == next - Len(buffer) - 1

\* The channel holds the events after the last routed one, without a gap, and
\* an event is being delivered only to streams of its table.
ChannelInv ==
  /\ Len(buffer) < next
  /\ \A k \in DOMAIN buffer : buffer[k] = Routed + k
  /\ targets # {} => held = Routed /\ held \in Nat \ {0}
  /\ \A i \in targets : Source[held] = Streams[i].table

\* A stream was handed every event of its table up to the last routed one, but
\* for that one if it is still to be sent.
UpTo(events, all, last, waiting) ==
  /\ \A k \in DOMAIN events : events[k] <= last /\ (waiting => events[k] < last)
  /\ \A e \in all : e <= last => Holds(events, e) \/ (waiting /\ e = last)

\* That is so until the router returns.
HandedAll ==
  router # "returned" =>
    \A i \in DOMAIN Streams :
      UpTo(Handed(Streams[i].name), Watched(i), Routed, i \in targets)

FlowInv == FlowTypes /\ ChannelInv /\ HandedAll /\ InOrder

-----------------------------------------------------------------------------
\* Putting an event at the end of the queue puts it at the end of what the
\* stream was handed.
LEMMA HandedAppend ==
  ASSUME NEW g \in Seq(Nat), NEW q \in Seq(Nat), NEW e \in Nat
  PROVE  g \o Append(q, e) = Append(g \o q, e)
  <1>1. Append(q, e) = q \o <<e>> /\ Append(g \o q, e) = (g \o q) \o <<e>>
    BY AppendIsConcat, ConcatProperties
  <1>2. (g \o q) \o <<e>> = g \o (q \o <<e>>)
    BY ConcatAssociative
  <1> QED
    BY <1>1, <1>2

\* Taking the head of the queue changes nothing in what the stream was handed.
LEMMA HandedTake ==
  ASSUME NEW g \in Seq(Nat), NEW q \in Seq(Nat), q # <<>>
  PROVE  Append(g, Head(q)) \o Tail(q) = g \o q
  <1>1. Head(q) \in Nat /\ Tail(q) \in Seq(Nat) /\ q = <<Head(q)>> \o Tail(q)
    BY HeadTailProperties
  <1>2. Append(g, Head(q)) = g \o <<Head(q)>>
    BY <1>1, AppendIsConcat
  <1>3. (g \o <<Head(q)>>) \o Tail(q) = g \o (<<Head(q)>> \o Tail(q))
    BY <1>1, ConcatAssociative
  <1> QED
    BY <1>1, <1>2, <1>3

\* What a stream was handed is a sequence of events.
LEMMA HandedType ==
  ASSUME FlowTypes, NEW s \in Names
  PROVE  /\ got[s] \in Seq(Nat) /\ queue[s] \in Seq(Nat) /\ Handed(s) \in Seq(Nat)
         /\ \A k \in DOMAIN Handed(s) : Handed(s)[k] \in Nat
  <1>1. got[s] \in Seq(Nat) /\ queue[s] \in Seq(Nat)
    BY DEF FlowTypes
  <1>2. Handed(s) \in Seq(Nat)
    BY <1>1, ConcatProperties DEF Handed
  <1> QED
    BY <1>1, <1>2

\* Sending an event hands a stream the next one of its table.
LEMMA SendHands ==
  ASSUME NEW events \in Seq(Nat), NEW all \in SUBSET Nat, NEW e \in all,
         FirstOf(events, all), UpTo(events, all, e, TRUE)
  PROVE  /\ FirstOf(Append(events, e), all)
         /\ UpTo(Append(events, e), all, e, FALSE)
  <1> DEFINE more == Append(events, e)
             n == Len(events)
  <1>1. /\ n \in Nat /\ DOMAIN events = 1..n /\ DOMAIN more = 1..(n + 1)
        /\ more[n + 1] = e /\ e \in Nat
        /\ \A k \in 1..n : more[k] = events[k] /\ events[k] \in Nat
    BY AppendProperties, LenProperties, ElementOfSeq
  <1>2. \A k \in 1..n : events[k] < e
    BY <1>1 DEF UpTo
  <1>3. \A w \in all : w < e => \E k \in 1..n : events[k] = w
    BY <1>1 DEF UpTo, Holds
  <1>4. \A w : (\E k \in 1..n : events[k] = w) => \E k \in 1..(n + 1) : more[k] = w
    BY <1>1
  <1>5. \A k \in 1..n : /\ events[k] \in all
                        /\ \A j \in 1..n : j < k => events[j] < events[k]
                        /\ \A w \in all : w < events[k] => \E j \in 1..n : events[j] = w
    BY <1>1 DEF FirstOf, Holds
  <1> HIDE DEF more, n
  <1>6. ASSUME NEW k \in 1..(n + 1)
        PROVE  /\ more[k] \in all /\ more[k] <= e
               /\ \A j \in 1..(n + 1) : j < k => more[j] < more[k]
               /\ \A w \in all : w < more[k] => \E j \in 1..(n + 1) : more[j] = w
    <2>1. CASE k = n + 1
      BY <2>1, <1>1, <1>2, <1>3, <1>4
    <2>2. CASE k \in 1..n
      BY <2>2, <1>1, <1>2, <1>4, <1>5
    <2> QED
      BY <2>1, <2>2, <1>1
  <1>7. FirstOf(more, all)
    BY <1>1, <1>6 DEF FirstOf, Holds
  <1>8. UpTo(more, all, e, FALSE)
    <2>1. ASSUME NEW w \in all, w <= e PROVE \E k \in 1..(n + 1) : more[k] = w
      <3>1. w < e \/ w = e
        BY <2>1, <1>1
      <3> QED
        BY <3>1, <1>1, <1>3, <1>4
    <2> QED
      BY <1>1, <1>6, <2>1 DEF UpTo, Holds
  <1> QED
    BY <1>7, <1>8 DEF more

\* What no step of the router, the reader or a queue touches stays in order.
LEMMA FlowUnchanged ==
  ASSUME FlowInv, UNCHANGED flowVars, router = "returned" => router' = "returned"
  PROVE  FlowInv'
  BY DEF FlowInv, FlowTypes, ChannelInv, Routed, HandedAll, InOrder, Handed, flowVars

LEMMA ReadStep ==
  ASSUME FlowInv, Read
  PROVE  FlowInv'
  <1> USE ReaderAssumption DEF ReaderAssumption
  <1>1. /\ next \in Nat /\ buffer \in Seq(Nat) /\ next' = next + 1
        /\ buffer' = Append(buffer, next) /\ next <= Len(Source)
    BY DEF FlowInv, FlowTypes, Read
  <1>2. /\ buffer' \in Seq(Nat) /\ Len(buffer') = Len(buffer) + 1 /\ Len(buffer) \in Nat
        /\ DOMAIN buffer = 1..Len(buffer) /\ DOMAIN buffer' = 1..(Len(buffer) + 1)
        /\ \A k \in 1..Len(buffer) : buffer'[k] = buffer[k]
        /\ buffer'[Len(buffer) + 1] = next
    BY <1>1, AppendProperties, LenProperties
  <1>3. Routed' = Routed
    BY <1>1, <1>2 DEF Routed
  <1>4. UNCHANGED <<queue, got, targets, held, router>>
    BY DEF Read
  <1>5. FlowTypes'
    BY <1>1, <1>2, <1>4 DEF FlowInv, FlowTypes
  <1>6. \A k \in DOMAIN buffer' : buffer'[k] = Routed' + k
    <2>1. \A k \in 1..Len(buffer) : buffer'[k] = Routed + k
      BY <1>2 DEF FlowInv, ChannelInv
    <2>2. next = Routed + (Len(buffer) + 1)
      BY <1>1, <1>2 DEF Routed
    <2> QED
      BY <1>2, <1>3, <2>1, <2>2
  <1>7. ChannelInv'
    BY <1>1, <1>2, <1>3, <1>4, <1>6 DEF FlowInv, ChannelInv
  <1> QED
    BY <1>3, <1>4, <1>5, <1>7 DEF FlowInv, HandedAll, InOrder, Handed

LEMMA RouteStep ==
  ASSUME FlowInv, Route
  PROVE  FlowInv'
  <1> USE ReaderAssumption DEF ReaderAssumption
  <1>1. /\ next \in Nat /\ buffer \in Seq(Nat) /\ buffer # <<>> /\ next' = next
        /\ held' = Head(buffer) /\ buffer' = Tail(buffer) /\ targets = {}
        /\ router = "routing" /\ router' = "routing"
        /\ targets' = Watchers(Source[held']) /\ UNCHANGED <<queue, got>>
    BY DEF FlowInv, FlowTypes, Route
  <1>2. /\ Len(buffer) \in Nat \ {0} /\ DOMAIN buffer = 1..Len(buffer)
        /\ buffer' \in Seq(Nat) /\ Len(buffer') = Len(buffer) - 1
        /\ DOMAIN buffer' = 1..(Len(buffer) - 1)
        /\ \A k \in 1..(Len(buffer) - 1) : buffer'[k] = buffer[k + 1]
        /\ held' = buffer[1]
    BY <1>1, HeadTailProperties, LenProperties, EmptySeq
  <1>3. Routed' = Routed + 1 /\ Routed \in Nat
    BY <1>1, <1>2 DEF Routed, FlowInv, ChannelInv
  <1>4. held' = Routed' /\ held' \in Nat \ {0}
    BY <1>2, <1>3 DEF FlowInv, ChannelInv
  <1>5. FlowTypes'
    BY <1>1, <1>2 DEF FlowInv, FlowTypes, Watchers
  <1>6. ASSUME NEW k \in DOMAIN buffer' PROVE buffer'[k] = Routed' + k
    <2>1. k \in Nat /\ k + 1 \in DOMAIN buffer /\ buffer'[k] = buffer[k + 1]
      BY <1>2
    <2>2. buffer[k + 1] = Routed + (k + 1)
      BY <2>1 DEF FlowInv, ChannelInv
    <2> QED
      BY <1>3, <2>1, <2>2
  <1>7. ChannelInv'
    BY <1>1, <1>2, <1>4, <1>6 DEF FlowInv, ChannelInv, Watchers
  <1>8. ASSUME NEW i \in DOMAIN Streams
        PROVE  UpTo(Handed(Streams[i].name), Watched(i), Routed + 1, i \in targets')
    <2> DEFINE events == Handed(Streams[i].name)
    <2>1. UpTo(events, Watched(i), Routed, FALSE)
      BY <1>1 DEF FlowInv, HandedAll, UpTo
    <2>2. Streams[i].name \in Names
      BY DEF Names
    <2>3. events \in Seq(Nat) /\ \A k \in DOMAIN events : events[k] \in Nat
      BY <2>2, HandedType DEF FlowInv
    <2>4. \A e \in Watched(i) : e \in Nat /\ (e = Routed + 1 => i \in targets')
      BY <1>1, <1>3, <1>4 DEF Watched, Watchers
    <2> HIDE DEF events
    <2>5. \A k \in DOMAIN events : events[k] <= Routed
      BY <2>1 DEF UpTo
    <2>6. \A e \in Watched(i) : e <= Routed => Holds(events, e)
      BY <2>1 DEF UpTo
    <2>7. \A k \in DOMAIN events : events[k] < Routed + 1 /\ events[k] <= Routed + 1
      BY <1>3, <2>3, <2>5
    <2>8. \A e \in Watched(i) : e <= Routed + 1 => e <= Routed \/ e = Routed + 1
      BY <1>3, <2>4
    <2> QED
      BY <2>4, <2>6, <2>7, <2>8 DEF UpTo, events
  <1>9. HandedAll' /\ InOrder'
    BY <1>1, <1>3, <1>8 DEF FlowInv, HandedAll, InOrder, Handed
  <1> QED
    BY <1>5, <1>7, <1>9 DEF FlowInv

LEMMA SendStep ==
  ASSUME FlowInv, Send
  PROVE  FlowInv'
  <1> USE ReaderAssumption DEF ReaderAssumption
  <1>1. PICK i \in DOMAIN Streams :
          /\ router = "routing" /\ i \in targets
          /\ queue' = [queue EXCEPT ![Streams[i].name] = Append(@, held)]
          /\ targets' = targets \ {i}
          /\ UNCHANGED <<next, buffer, held, router, got>>
    BY DEF Send, IsNext
  <1> DEFINE s == Streams[i].name
  <1>2. s \in Names
    BY DEF Names
  <1>3. held = Routed /\ held \in Watched(i) /\ Watched(i) \in SUBSET Nat
    <2>1. held = next - Len(buffer) - 1 /\ held \in Nat \ {0} /\ Source[held] = Streams[i].table
      BY <1>1 DEF FlowInv, ChannelInv, Routed
    <2>2. next <= Len(Source) + 1 /\ next \in Nat /\ Len(buffer) \in Nat
      BY LenProperties DEF FlowInv, FlowTypes
    <2>3. held \in DOMAIN Source
      BY <2>1, <2>2
    <2> QED
      BY <1>1, <2>1, <2>3 DEF FlowInv, ChannelInv, Watched
  <1>4. got[s] \in Seq(Nat) /\ queue[s] \in Seq(Nat) /\ Handed(s) \in Seq(Nat)
    BY <1>2, HandedType DEF FlowInv
  <1>5. queue'[s] = Append(queue[s], held) /\ \A t \in Names : t # s => queue'[t] = queue[t]
    BY <1>1, <1>2 DEF FlowInv, FlowTypes
  <1>6. Handed(s)' = Append(Handed(s), held)
    <2>1. held \in Nat
      BY <1>3
    <2> HIDE DEF s
    <2>2. got[s] \o Append(queue[s], held) = Append(got[s] \o queue[s], held)
      BY <1>4, <2>1, HandedAppend, Zenon
    <2>3. got'[s] = got[s]
      BY <1>1
    <2> QED
      BY <1>5, <2>2, <2>3, Zenon DEF Handed
  <1>7. FlowTypes'
    <2>1. Append(queue[s], held) \in Seq(Nat)
      BY <1>3, <1>4, AppendProperties
    <2> QED
      BY <1>1, <1>2, <2>1 DEF FlowInv, FlowTypes
  <1>8. Routed' = Routed
    BY <1>1 DEF Routed
  <1>9. ChannelInv'
    BY <1>1, <1>8 DEF FlowInv, ChannelInv
  <1>10. /\ FirstOf(Handed(s)', Watched(i))
         /\ UpTo(Handed(s)', Watched(i), Routed, FALSE)
    <2>1. FirstOf(Handed(s), Watched(i))
      BY DEF FlowInv, InOrder
    <2>2. UpTo(Handed(s), Watched(i), held, TRUE)
      <3>1. UpTo(Handed(s), Watched(i), Routed, i \in targets)
        BY <1>1 DEF FlowInv, HandedAll
      <3> QED
        BY <1>1, <1>3, <3>1 DEF UpTo
    <2> HIDE DEF s
    <2>3. /\ FirstOf(Append(Handed(s), held), Watched(i))
          /\ UpTo(Append(Handed(s), held), Watched(i), held, FALSE)
      BY <1>3, <1>4, <2>1, <2>2, SendHands, Zenon
    <2> QED
      BY <1>3, <1>6, <2>3, Zenon
  <1>11. ASSUME NEW j \in DOMAIN Streams
         PROVE  /\ FirstOf(Handed(Streams[j].name)', Watched(j))
                /\ UpTo(Handed(Streams[j].name)', Watched(j), Routed, j \in targets')
    <2>1. CASE j = i
      BY <1>1, <1>10, <2>1 DEF UpTo
    <2>2. CASE j # i
      <3>1. Streams[j].name \in Names /\ Streams[j].name # s
        BY <2>2 DEF Names
      <3>2. Handed(Streams[j].name)' = Handed(Streams[j].name)
        BY <1>1, <1>5, <3>1 DEF Handed
      <3>3. j \in targets' <=> j \in targets
        BY <1>1, <2>2
      <3>4. FirstOf(Handed(Streams[j].name), Watched(j))
        BY DEF FlowInv, InOrder
      <3>5. UpTo(Handed(Streams[j].name), Watched(j), Routed, j \in targets)
        BY <1>1 DEF FlowInv, HandedAll
      <3> QED
        BY <3>2, <3>3, <3>4, <3>5 DEF UpTo
    <2> QED
      BY <2>1, <2>2
  <1> QED
    BY <1>7, <1>8, <1>9, <1>11 DEF FlowInv, HandedAll, InOrder

LEMMA TakeStep ==
  ASSUME FlowInv, NEW s \in Names, Take(s)
  PROVE  FlowInv'
  <1>1. /\ got' = [got EXCEPT ![s] = Append(@, Head(queue[s]))]
        /\ queue' = [queue EXCEPT ![s] = Tail(@)] /\ queue[s] # <<>>
        /\ UNCHANGED <<next, buffer, held, targets, router>>
    BY DEF Take
  <1>2. got[s] \in Seq(Nat) /\ queue[s] \in Seq(Nat)
    BY HandedType DEF FlowInv
  <1>3. /\ got'[s] = Append(got[s], Head(queue[s])) /\ queue'[s] = Tail(queue[s])
        /\ \A t \in Names : t # s => got'[t] = got[t] /\ queue'[t] = queue[t]
    BY <1>1 DEF FlowInv, FlowTypes
  <1>4. ASSUME NEW t \in Names PROVE Handed(t)' = Handed(t)
    <2>1. Append(got[s], Head(queue[s])) \o Tail(queue[s]) = got[s] \o queue[s]
      BY <1>1, <1>2, HandedTake, Zenon
    <2>2. CASE t = s
      BY <1>3, <2>1, <2>2, Zenon DEF Handed
    <2>3. CASE t # s
      BY <1>3, <2>3, Zenon DEF Handed
    <2> QED
      BY <2>2, <2>3
  <1>5. FlowTypes'
    <2>1. Append(got[s], Head(queue[s])) \in Seq(Nat) /\ Tail(queue[s]) \in Seq(Nat)
      BY <1>1, <1>2, HeadTailProperties, AppendProperties
    <2> QED
      BY <1>1, <2>1 DEF FlowInv, FlowTypes
  <1>6. \A i \in DOMAIN Streams : Handed(Streams[i].name)' = Handed(Streams[i].name)
    BY <1>4 DEF Names
  <1>7. Routed' = Routed
    BY <1>1 DEF Routed
  <1> QED
    BY <1>1, <1>5, <1>6, <1>7 DEF FlowInv, ChannelInv, HandedAll, InOrder

LEMMA ReturnStep ==
  ASSUME FlowInv, RouterReturns
  PROVE  FlowInv'
  BY DEF RouterReturns, FlowInv, FlowTypes, ChannelInv, Routed, HandedAll, InOrder, Handed

LEMMA FlowInit == Init => FlowInv
  <1> SUFFICES ASSUME Init PROVE FlowInv
    OBVIOUS
  <1> USE ReaderAssumption DEF ReaderAssumption
  <1>1. /\ <<>> \in Seq(Nat) /\ Len(<<>>) = 0 /\ DOMAIN <<>> = {}
        /\ <<>> \o <<>> = <<>>
    BY EmptySeq, ConcatEmptySeq
  <1>2. Routed = 0 /\ targets = {} /\ buffer = <<>>
    <2>1. targets = {} /\ buffer = <<>>
      BY DEF Init
    <2>2. Len(buffer) = 0
      BY <1>1, <2>1, Zenon
    <2>3. next = 1
      BY DEF Init
    <2>4. Routed = 0
      BY <2>2, <2>3 DEF Routed
    <2> QED
      BY <2>1, <2>4
  <1>3. \A i \in DOMAIN Streams : Handed(Streams[i].name) = <<>>
    BY <1>1 DEF Init, Handed, Names
  <1>4. FlowTypes /\ ChannelInv
    BY <1>1, <1>2 DEF Init, FlowTypes, ChannelInv
  <1>5. \A i \in DOMAIN Streams : \A e \in Watched(i) : ~(e <= 0)
    BY DEF Watched
  <1>6. ASSUME NEW i \in DOMAIN Streams
        PROVE  /\ FirstOf(Handed(Streams[i].name), Watched(i))
               /\ UpTo(Handed(Streams[i].name), Watched(i), Routed, i \in targets)
    <2>1. FirstOf(<<>>, Watched(i)) /\ UpTo(<<>>, Watched(i), 0, i \in targets)
      BY <1>1, <1>5, Zenon DEF FirstOf, UpTo
    <2> QED
      BY <1>2, <1>3, <2>1
  <1> QED
    BY <1>4, <1>6 DEF FlowInv, HandedAll, InOrder

LEMMA FlowStep == FlowInv /\ [Next]_vars => FlowInv'
  <1> SUFFICES ASSUME FlowInv, [Next]_vars PROVE FlowInv'
    OBVIOUS
  <1>1. CASE StartReader \/ ReaderStops \/ RecordSource \/ Sigterm \/ Idle \/ UNCHANGED vars
    BY <1>1, FlowUnchanged DEF StartReader, ReaderStops, RecordSource, Sigterm, Idle, vars
  <1>2. CASE Read
    BY <1>2, ReadStep
  <1>3. CASE Route
    BY <1>3, RouteStep
  <1>4. CASE Send
    BY <1>4, SendStep
  <1>5. CASE RouteCancelled \/ ReaderEnded \/ ReaderFailed
    BY <1>5, ReturnStep DEF RouteCancelled, ReaderEnded, ReaderFailed
  <1>6. ASSUME NEW s \in Names, Take(s) PROVE FlowInv'
    BY <1>6, TakeStep
  <1>7. ASSUME NEW s \in Names, StartPipeline(s) \/ PipeStops(s) \/ PipeFails(s) PROVE FlowInv'
    BY <1>7, FlowUnchanged DEF StartPipeline, PipeStops, PipeFails, PipeReturns
  <1>8. ASSUME NEW w \in Writers, LoadRow(w) \/ SaveRow(w) PROVE FlowInv'
    BY <1>8, FlowUnchanged DEF LoadRow, SaveRow
  <1> QED
    BY <1>1, <1>2, <1>3, <1>4, <1>5, <1>6, <1>7, <1>8 DEF Next, Tasks

\* Every stream is given the changes of its table in order, without a gap:
\* Router.Route blocks on a full queue and gives up only when it returns.
THEOREM StreamsInOrder == Spec => []InOrder
  <1>1. FlowInv => InOrder
    BY DEF FlowInv
  <1> QED
    BY FlowInit, FlowStep, <1>1, PTL DEF Spec

-----------------------------------------------------------------------------
\* group.run keeps the first error, and only a failure cancels: while the
\* context lives there is none, and one that failed has its failure.
FirstInv == (ctx = "live" => first = "none") /\ (ctx = "failed" => first = "failed")

\* Whatever tasks were cancelled meanwhile, a process that a failure ended
\* reports a failure (group.run, Route's ctx.Err()).
THEOREM FailuresReported == Spec => []FailureReported
  <1>1. Init => FirstInv
    BY DEF Init, FirstInv
  <1>2. FirstInv /\ [Next]_vars => FirstInv'
    <2> SUFFICES ASSUME FirstInv, [Next]_vars PROVE FirstInv'
      OBVIOUS
    <2>1. CASE RouteCancelled \/ ReaderFailed
      BY <2>1 DEF RouteCancelled, ReaderFailed, Report, FirstInv
    <2>2. ASSUME NEW s \in Names, PipeFails(s) PROVE FirstInv'
      BY <2>2 DEF PipeFails, Report, FirstInv
    <2>3. CASE Sigterm
      BY <2>3 DEF Sigterm, FirstInv
    <2>4. CASE UNCHANGED <<ctx, first>>
      BY <2>4 DEF FirstInv
    <2>5. CASE \/ StartReader \/ Read \/ Route \/ Send \/ ReaderEnded \/ RecordSource
               \/ ReaderStops \/ Idle \/ UNCHANGED vars
      BY <2>4, <2>5 DEF StartReader, Read, Route, Send, ReaderEnded, RecordSource,
         ReaderStops, Idle, vars
    <2>6. ASSUME NEW s \in Names, StartPipeline(s) \/ Take(s) \/ PipeStops(s) PROVE FirstInv'
      BY <2>4, <2>6 DEF StartPipeline, Take, PipeStops
    <2>7. ASSUME NEW w \in Writers, LoadRow(w) \/ SaveRow(w) PROVE FirstInv'
      BY <2>4, <2>7 DEF LoadRow, SaveRow
    <2> QED
      BY <2>1, <2>2, <2>3, <2>5, <2>6, <2>7 DEF Next, Tasks
  <1>3. FirstInv => FailureReported
    BY DEF FirstInv, FailureReported
  <1> QED
    BY <1>1, <1>2, <1>3, PTL DEF Spec

-----------------------------------------------------------------------------
\* A pipeline that was not started is idle, only one that returned has failed,
\* and the reader starts after the last of them.
PipeInv ==
  /\ pipe \in [Names -> {"waiting", "running", "returned"}]
  /\ state \in [Names -> {"idle", "streaming", "stopped", "failed"}]
  /\ \A s \in Names : /\ pipe[s] = "waiting" => state[s] = "idle"
                      /\ state[s] = "failed" => pipe[s] = "returned"
  /\ router # "waiting" \/ reader # "waiting" \/ blamed # {}
       => \A s \in Names : pipe[s] # "waiting"

\* What the row of a started stream says of it.
RowTells(s) ==
  /\ lastError[s] # "old"
  /\ lastError[s] # "" <=> state[s] = "failed" \/ s \in blamed

RowInv ==
  /\ PipeInv
  /\ DOMAIN lastError = Names
  /\ \A s \in Names \ trouble : pipe[s] # "waiting" => RowTells(s)

LEMMA RowStep == RowInv /\ [Next]_vars => RowInv'
  <1> SUFFICES ASSUME RowInv, [Next]_vars PROVE RowInv'
    OBVIOUS
  <1> USE DEF RowInv, PipeInv, RowTells
  <1>1. CASE StartReader
    BY <1>1 DEF StartReader, rowVars
  <1>2. CASE Read \/ Route \/ Send \/ ReaderStops
    BY <1>2 DEF Read, Route, Send, ReaderStops, rowVars
  <1>3. CASE RouteCancelled \/ ReaderEnded \/ ReaderFailed
    BY <1>3 DEF RouteCancelled, ReaderEnded, ReaderFailed, RouterReturns, rowVars
  <1>4. CASE RecordSource
    <2>1. PICK s : /\ \/ RecordError(s, "source")
                      \/ NotRecorded(s)
                   /\ blamed' = blamed \cup {s}
      BY <1>4, Zenon DEF RecordSource
    <2>2. UNCHANGED <<pipe, state, reader>> /\ \A t \in Names : pipe[t] # "waiting"
      BY <1>4 DEF RecordSource
    <2> QED
      BY <2>1, <2>2 DEF RecordError, NotRecorded
  <1>5. ASSUME NEW s \in Names, StartPipeline(s) PROVE RowInv'
    <2>1. router = "waiting" /\ reader = "waiting" /\ blamed = {}
      BY <1>5 DEF StartPipeline
    <2> QED
      BY <1>5, <2>1 DEF StartPipeline, RecordError, NotRecorded
  <1>6. ASSUME NEW s \in Names, Take(s) PROVE RowInv'
    BY <1>6 DEF Take, rowVars
  <1>7. ASSUME NEW s \in Names, PipeStops(s) PROVE RowInv'
    BY <1>7 DEF PipeStops, PipeReturns
  <1>8. ASSUME NEW s \in Names, PipeFails(s) PROVE RowInv'
    BY <1>8 DEF PipeFails, PipeReturns, RecordError, NotRecorded
  <1>9. ASSUME NEW w \in Writers, LoadRow(w) PROVE RowInv'
    BY <1>9 DEF LoadRow
  <1>10. ASSUME NEW w \in Writers, SaveRow(w) PROVE RowInv'
    BY <1>10 DEF SaveRow
  <1>11. CASE Sigterm \/ Idle \/ UNCHANGED vars
    BY <1>11 DEF Sigterm, Idle, vars, rowVars
  <1> QED
    BY <1>1, <1>2, <1>3, <1>4, <1>5, <1>6, <1>7, <1>8, <1>9, <1>10, <1>11 DEF Next, Tasks

\* The rows name exactly the streams that failed, all of them when the source
\* did, unless a reason could not be written or a save of the whole row
\* overwrote it (recordError, advance, reserve).
THEOREM RowsTellWhatHappened == Spec => []RowsTell
  <1>1. Init => RowInv
    BY DEF Init, RowInv, PipeInv
  <1>2. RowInv => RowsTell
    <2> SUFFICES ASSUME RowInv PROVE RowsTell
      OBVIOUS
    <2>1. Returned => \A s \in Names : pipe[s] # "waiting"
      BY DEF Returned
    <2> QED
      BY <2>1 DEF RowInv, RowTells, RowsTell
  <1> QED
    BY <1>1, RowStep, <1>2, PTL DEF Spec
===============================================================================
