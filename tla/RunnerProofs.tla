---------------------------- MODULE RunnerProofs ----------------------------
(***************************************************************************)
(* What a step of the runner of Runner.tla does to the documents in its    *)
(* hands, for every source that feeds it: the lemmas that the proofs about *)
(* BinlogPipeline.tla and ScanPipeline.tla share.                          *)
(***************************************************************************)
EXTENDS Runner, SequenceTheorems, TLAPS

-----------------------------------------------------------------------------
(* Sequences as sets                                                         *)

LEMMA ElemsEmpty == Elems(<<>>) = {}
  BY DEF Elems

LEMMA ElemsAppend ==
  ASSUME NEW S, NEW s \in Seq(S), NEW e \in S
  PROVE  Append(s, e) \in Seq(S) /\ Elems(Append(s, e)) = Elems(s) \cup {e}
  <1>1. /\ Append(s, e) \in Seq(S) /\ Len(Append(s, e)) = Len(s) + 1 /\ Len(s) \in Nat
        /\ \A i \in 1..Len(s) : Append(s, e)[i] = s[i]
        /\ Append(s, e)[Len(s) + 1] = e
    BY AppendProperties, LenProperties
  <1>2. DOMAIN s = 1..Len(s) /\ DOMAIN Append(s, e) = 1..(Len(s) + 1)
    BY <1>1, LenProperties
  <1> DEFINE t == Append(s, e)
  <1> HIDE DEF t
  <1>3. /\ \A i \in 1..Len(s) : t[i] = s[i]
        /\ t[Len(s) + 1] = e /\ DOMAIN t = 1..(Len(s) + 1)
    BY <1>1, <1>2 DEF t
  <1>4. Elems(t) = Elems(s) \cup {e}
    <2>1. \A x \in Elems(t) : x \in Elems(s) \cup {e}
      BY <1>1, <1>2, <1>3 DEF Elems
    <2>2. \A x \in Elems(s) \cup {e} : x \in Elems(t)
      BY <1>1, <1>2, <1>3 DEF Elems
    <2> QED
      BY <2>1, <2>2
  <1> QED
    BY <1>1, <1>4 DEF t

LEMMA ElemsType ==
  ASSUME NEW S, NEW s \in Seq(S)
  PROVE  Elems(s) \subseteq S
  BY LenProperties, ElementOfSeq DEF Elems

LEMMA ElemsTail ==
  ASSUME NEW S, NEW s \in Seq(S), s # <<>>
  PROVE  /\ Head(s) \in S /\ Tail(s) \in Seq(S) /\ Len(Tail(s)) = Len(s) - 1
         /\ Elems(s) = {Head(s)} \cup Elems(Tail(s))
  <1>1. /\ Head(s) \in S /\ Tail(s) \in Seq(S) /\ Len(Tail(s)) = Len(s) - 1
        /\ \A i \in 1..Len(Tail(s)) : Tail(s)[i] = s[i + 1]
    BY HeadTailProperties
  <1>2. Len(s) \in Nat /\ Len(s) # 0 /\ DOMAIN s = 1..Len(s) /\ DOMAIN Tail(s) = 1..(Len(s) - 1)
    BY <1>1, LenProperties, EmptySeq
  <1>3. Head(s) = s[1]
    OBVIOUS
  <1> DEFINE t == Tail(s)
             h == Head(s)
  <1> HIDE DEF t, h
  <1>4. h = s[1] /\ DOMAIN t = 1..(Len(s) - 1) /\ \A i \in 1..(Len(s) - 1) : t[i] = s[i + 1]
    BY <1>1, <1>2, <1>3 DEF t, h
  <1>5. \A x \in Elems(s) : x \in {h} \cup Elems(t)
    <2> SUFFICES ASSUME NEW i \in 1..Len(s) PROVE s[i] \in {h} \cup Elems(t)
      BY <1>2 DEF Elems
    <2>1. CASE i = 1
      BY <1>4, <2>1
    <2>2. CASE i # 1
      <3>1. i - 1 \in 1..(Len(s) - 1) /\ t[i - 1] = s[i]
        BY <1>2, <1>4, <2>2
      <3> QED
        BY <1>4, <3>1 DEF Elems
    <2> QED
      BY <2>1, <2>2
  <1>6. \A x \in {h} \cup Elems(t) : x \in Elems(s)
    BY <1>2, <1>4 DEF Elems
  <1>7. Elems(s) = {h} \cup Elems(t)
    BY <1>5, <1>6
  <1> QED
    BY <1>1, <1>7 DEF t, h

-----------------------------------------------------------------------------
(* The batcher                                                               *)

Batches(D) == [docs : Seq(D), bytes : Nat]

LEMMA EmptyBatchType ==
  ASSUME NEW D
  PROVE  EmptyBatch \in Batches(D) /\ EmptyBatch.docs = <<>>
  BY DEF EmptyBatch, Batches

\* What Add hands over and what it keeps are the documents it had and the new
\* one; it keeps at most the new one when it hands something over.
LEMMA AddSplits ==
  ASSUME NEW D, NEW b \in Batches(D), NEW d \in D, d.size \in Nat
  PROVE  /\ Add(b, d).keep \in Batches(D) /\ Add(b, d).out \in Seq(D)
         /\ Elems(Add(b, d).out) \cup Elems(Add(b, d).keep.docs) = Elems(b.docs) \cup {d}
         /\ Add(b, d).out # <<>> => Elems(Add(b, d).keep.docs) \subseteq {d}
  <1>1. b.docs \in Seq(D) /\ b.bytes \in Nat
    BY DEF Batches
  <1>2. Append(b.docs, d) \in Seq(D) /\ Elems(Append(b.docs, d)) = Elems(b.docs) \cup {d}
    BY <1>1, ElemsAppend
  <1>3. Appended(b, d) \in Batches(D) /\ Appended(b, d).docs = Append(b.docs, d)
    BY <1>1, <1>2 DEF Appended, Batches
  <1>4. <<>> \in Seq(D)
    OBVIOUS
  <1>5. Append(<<>>, d) \in Seq(D) /\ Elems(Append(<<>>, d)) = {d}
    <2>1. PICK s \in Seq(D) : s = <<>>
      BY <1>4
    <2>2. Append(s, d) \in Seq(D) /\ Elems(Append(s, d)) = Elems(s) \cup {d}
      BY ElemsAppend
    <2> QED
      BY <2>1, <2>2, ElemsEmpty
  <1>6. /\ Appended(EmptyBatch, d) \in Batches(D)
        /\ Appended(EmptyBatch, d).docs = Append(<<>>, d)
    BY <1>5, EmptyBatchType DEF Appended, EmptyBatch, Batches
  <1>7. \/ Add(b, d) = [keep |-> EmptyBatch, out |-> Appended(b, d).docs]
        \/ Add(b, d) = [keep |-> Appended(EmptyBatch, d), out |-> b.docs]
        \/ Add(b, d) = [keep |-> Appended(b, d), out |-> <<>>]
    BY DEF Add
  <1>8. CASE Add(b, d) = [keep |-> EmptyBatch, out |-> Appended(b, d).docs]
    <2>1. Add(b, d).keep = EmptyBatch /\ Add(b, d).out = Append(b.docs, d)
      BY <1>3, <1>8
    <2> QED
      BY <1>2, <2>1, EmptyBatchType, ElemsEmpty
  <1>9. CASE Add(b, d) = [keep |-> Appended(EmptyBatch, d), out |-> b.docs]
    <2>1. Add(b, d).keep = Appended(EmptyBatch, d) /\ Add(b, d).out = b.docs
      BY <1>9
    <2> QED
      BY <1>1, <1>5, <1>6, <2>1
  <1>10. CASE Add(b, d) = [keep |-> Appended(b, d), out |-> <<>>]
    <2>1. Add(b, d).keep = Appended(b, d) /\ Add(b, d).out = <<>>
      BY <1>10
    <2> QED
      BY <1>2, <1>3, <1>4, <2>1, ElemsEmpty
  <1> QED
    BY <1>7, <1>8, <1>9, <1>10

-----------------------------------------------------------------------------
(* What the runner holds                                                     *)

Documents(R, V) == [row : R, key : Keys, ver : V, size : Nat]

Letters(R) == [row : R, key : Keys \cup {NoKey}]

\* The events E bring documents of the source rows R at the versions V.
Feeds(E, R, V) ==
  /\ R \subseteq Nat /\ V \subseteq Nat
  /\ \A e \in E : /\ e.row \in R /\ e.docs \in Seq(Documents(R, V))
                  /\ e.plan \in {"ok", "error"}

Shape(E, R, V) ==
  /\ events \in Seq(E)
  /\ chan \in {"open", "closed"} /\ ctx \in {"live", "done"} /\ leaving \in {"yes", "no"}
  /\ pc \in Stages
  /\ todo \in Seq(Documents(R, V)) /\ batch \in Batches(Documents(R, V))
  /\ inflight \subseteq Documents(R, V) /\ stray \subseteq Documents(R, V)
  /\ rejected \subseteq Letters(R) /\ dlq \subseteq Letters(R)
  /\ dest \in [Keys -> [ver : V \cup {0}, row : R \cup {0}]]
  /\ faults \in 0..MaxFaults

\* Where Run is tells what it has in its hands.
Hands ==
  /\ inflight # {} => pc = "write"
  /\ rejected # {} => pc \in {"write", "record", "transform"}
  /\ todo # <<>> => pc \in {"add", "write", "record", "advance"}
  /\ leaving = "yes" => /\ pc \in {"write", "record", "advance", "done"}
                        /\ todo = <<>> /\ batch.docs = <<>>
  /\ pc = "done" => ctx = "done" \/ leaving = "yes"
  /\ \A e \in Elems(events) : e.plan = "error" => e.docs = <<>>

QueuedIn(s) == UNION {Elems(e.docs) : e \in Elems(s)}

\* Every document between the source and the destination.
Pipe == QueuedIn(events) \cup Elems(todo) \cup Elems(batch.docs) \cup inflight

\* Run has not returned with an error, nor after its context was cancelled.
Healthy == ~(pc = "done" /\ ctx = "done")

\* A step of the runner only takes from the pipe, and only what was in it
\* reaches the destination.
Drains ==
  /\ Elems(events') \subseteq Elems(events)
  /\ Pipe' \subseteq Pipe /\ stray' \subseteq stray \cup Pipe
  /\ dlq \subseteq dlq'
  /\ dest' = dest \/ \E d \in Pipe \cup stray : Apply(d)

\* What a step takes from the pipe of a healthy runner reaches the
\* destination or becomes a dead letter.
Delivers ==
  Healthy' =>
    /\ Healthy /\ stray' \subseteq stray
    /\ \A d \in Pipe : d \in Pipe' \/ Apply(d) \/ Letter(d.row, d.key) \in rejected'
    /\ \A e \in Elems(events) :
         e \in Elems(events') \/ e.plan = "ok" \/ Letter(e.row, NoKey) \in rejected'
    /\ rejected \subseteq rejected' \cup dlq'

LEMMA QueuedTail ==
  ASSUME NEW E, NEW s \in Seq(E), s # <<>>
  PROVE  QueuedIn(s) = Elems(Head(s).docs) \cup QueuedIn(Tail(s))
  <1>1. Elems(s) = {Head(s)} \cup Elems(Tail(s))
    BY ElemsTail
  <1> DEFINE A == Elems(s)
             B == Elems(Tail(s))
             h == Head(s)
  <1> HIDE DEF A, B, h
  <1>2. A = {h} \cup B
    BY <1>1 DEF A, B, h
  <1>3. UNION {Elems(e.docs) : e \in A} = Elems(h.docs) \cup UNION {Elems(e.docs) : e \in B}
    BY <1>2
  <1> QED
    BY <1>3 DEF A, B, h, QueuedIn

LEMMA QueuedAppend ==
  ASSUME NEW E, NEW s \in Seq(E), NEW x \in E
  PROVE  QueuedIn(Append(s, x)) = QueuedIn(s) \cup Elems(x.docs)
  <1>1. Elems(Append(s, x)) = Elems(s) \cup {x}
    BY ElemsAppend
  <1> DEFINE A == Elems(s)
             B == Elems(Append(s, x))
  <1> HIDE DEF A, B
  <1>2. B = A \cup {x}
    BY <1>1 DEF A, B
  <1>3. UNION {Elems(e.docs) : e \in B} = Elems(x.docs) \cup UNION {Elems(e.docs) : e \in A}
    BY <1>2
  <1> QED
    BY <1>3 DEF A, B, QueuedIn

LEMMA QueuedEmpty == QueuedIn(<<>>) = {}
  BY ElemsEmpty DEF QueuedIn

\* The pipe holds documents.
LEMMA PipeType ==
  ASSUME NEW E, NEW R, NEW V, Feeds(E, R, V), Shape(E, R, V)
  PROVE  Pipe \subseteq Documents(R, V)
  <1>1. \A e \in Elems(events) : e \in E
    BY ElemsType DEF Shape
  <1>2. \A e \in Elems(events) : Elems(e.docs) \subseteq Documents(R, V)
    BY <1>1, ElemsType DEF Feeds
  <1>3. QueuedIn(events) \subseteq Documents(R, V)
    BY <1>2 DEF QueuedIn
  <1>4. Elems(todo) \subseteq Documents(R, V) /\ Elems(batch.docs) \subseteq Documents(R, V)
    BY ElemsType DEF Shape, Batches
  <1> QED
    BY <1>3, <1>4 DEF Pipe, Shape

-----------------------------------------------------------------------------
(* One lemma per group of steps                                              *)

Sound(E, R, V) == Feeds(E, R, V) /\ Shape(E, R, V) /\ Hands

Kept(E, R, V) == Shape(E, R, V)' /\ Hands' /\ Drains /\ Delivers

\* handle takes an event from the channel.
LEMMA TakesKeep ==
  ASSUME NEW E, NEW R, NEW V, Sound(E, R, V), Receive \/ ReceiveBad
  PROVE  Kept(E, R, V)
  <1> USE DEF Sound
  <1>1. /\ pc = "select" /\ events \in Seq(E) /\ events # <<>> /\ events' = Tail(events)
        /\ inflight = {} /\ rejected = {} /\ todo = <<>>
    BY DEF Receive, ReceiveBad, Shape, Hands
  <1>2. PICK h \in E : h = Head(events)
    BY <1>1, ElemsTail
  <1>3. /\ events' \in Seq(E) /\ Elems(events) = {h} \cup Elems(events')
        /\ QueuedIn(events) = Elems(h.docs) \cup QueuedIn(events')
    BY <1>1, <1>2, ElemsTail, QueuedTail
  <1>4. /\ UNCHANGED <<chan, ctx, leaving, batch, inflight, stray, dest, dlq, faults>>
        /\ pc' \in {"add", "transform"}
    BY DEF Receive, ReceiveBad, destVars
  <1>5. CASE Receive
    <2>1. h.plan = "ok" /\ todo' = h.docs /\ pc' = "add" /\ rejected' = {}
      BY <1>1, <1>2, <1>5 DEF Receive
    <2>2. h.docs \in Seq(Documents(R, V))
      BY DEF Feeds
    <2>3. Shape(E, R, V)'
      BY <1>3, <1>4, <2>1, <2>2 DEF Shape, Stages
    <2>4. Hands'
      BY <1>1, <1>3, <1>4, <2>1 DEF Hands
    <2>5. Pipe' = Pipe
      BY <1>1, <1>3, <1>4, <2>1, ElemsEmpty DEF Pipe
    <2>6. Drains
      BY <1>1, <1>3, <1>4, <2>1, <2>5 DEF Drains
    <2>7. Delivers
      BY <1>1, <1>3, <2>1, <2>5, <1>4 DEF Delivers, Healthy
    <2> QED
      BY <2>3, <2>4, <2>6, <2>7 DEF Kept
  <1>6. CASE ReceiveBad
    <2>1. /\ h.plan = "error" /\ todo' = <<>> /\ pc' = "transform"
          /\ rejected' = {Letter(h.row, NoKey)}
      BY <1>1, <1>2, <1>6 DEF ReceiveBad
    <2>2. h.row \in R /\ h.docs = <<>>
      BY <1>3, <2>1 DEF Feeds, Hands
    <2>3. rejected' \subseteq Letters(R)
      BY <2>1, <2>2 DEF Letter, Letters
    <2>4. Shape(E, R, V)'
      BY <1>1, <1>3, <1>4, <2>1, <2>3 DEF Shape, Stages
    <2>5. Hands'
      BY <1>1, <1>3, <1>4, <2>1 DEF Hands
    <2>6. Pipe' = Pipe
      BY <1>1, <1>3, <1>4, <2>1, <2>2, ElemsEmpty DEF Pipe
    <2>7. Drains
      BY <1>1, <1>3, <1>4, <2>1, <2>6 DEF Drains
    <2>8. Delivers
      BY <1>1, <1>3, <2>1, <2>6, <1>4 DEF Delivers, Healthy
    <2> QED
      BY <2>4, <2>5, <2>7, <2>8 DEF Kept
  <1> QED
    BY <1>5, <1>6

\* The batcher takes a document, or gives up its batch.
LEMMA BatchesKeep ==
  ASSUME NEW E, NEW R, NEW V, Sound(E, R, V), AddDoc \/ Tick \/ Finish
  PROVE  Kept(E, R, V)
  <1> USE DEF Sound
  <1>1. /\ inflight = {} /\ rejected = {}
        /\ UNCHANGED <<events, chan, ctx, rejected, stray, dest, dlq, faults>>
    BY DEF AddDoc, Tick, Finish, Hands, channelVars, destVars
  <1>2. batch.docs \in Seq(Documents(R, V))
    BY DEF Shape, Batches
  <1>3. CASE AddDoc
    <2>1. pc = "add" /\ todo # <<>> /\ todo' = Tail(todo) /\ leaving' = leaving
      BY <1>3 DEF AddDoc
    <2>2. PICK d \in Documents(R, V) : d = Head(todo)
      BY <2>1, ElemsTail DEF Shape
    <2>3. todo' \in Seq(Documents(R, V)) /\ Elems(todo) = {d} \cup Elems(todo')
      BY <2>1, <2>2, ElemsTail DEF Shape
    <2>4. PICK out, keep : out = Add(batch, d).out /\ keep = Add(batch, d).keep
      OBVIOUS
    <2>5. /\ batch' = keep /\ inflight' = Elems(out)
          /\ pc' = IF out = <<>> THEN Resume(todo') ELSE "write"
      BY <1>3, <2>1, <2>2, <2>4 DEF AddDoc
    <2>6. d.size \in Nat
      BY DEF Documents
    <2>7. /\ keep \in Batches(Documents(R, V)) /\ out \in Seq(Documents(R, V))
          /\ Elems(out) \cup Elems(keep.docs) = Elems(batch.docs) \cup {d}
      BY <2>4, <2>6, AddSplits DEF Shape
    <2>8. Elems(out) \subseteq Documents(R, V)
      BY <2>7, ElemsType
    <2>9. /\ Resume(todo') \in {"done", "select", "add"}
          /\ todo' # <<>> => Resume(todo') \in {"done", "add"}
          /\ Resume(todo') = "done" => leaving = "yes"
      BY DEF Resume, Shape
    <2>10. Shape(E, R, V)'
      BY <1>1, <2>1, <2>3, <2>5, <2>7, <2>8, <2>9 DEF Shape, Stages
    <2>11. Pipe' = Pipe
      <3>1. Elems(todo') \cup Elems(batch'.docs) \cup inflight' = Elems(todo) \cup Elems(batch.docs) \cup inflight
        BY <1>1, <2>3, <2>5, <2>7
      <3> QED
        BY <1>1, <3>1 DEF Pipe
    <2>12. leaving = "no"
      BY <2>1 DEF Hands, Shape
    <2>13. Resume(todo') \in {"select", "add"} /\ (todo' # <<>> => Resume(todo') = "add")
      BY <2>12 DEF Resume
    <2>14. out = <<>> => inflight' = {}
      BY <2>5, ElemsEmpty
    <2>15. Hands'
      BY <1>1, <2>1, <2>5, <2>12, <2>13, <2>14 DEF Hands
    <2>16. Drains
      BY <1>1, <2>1, <2>5, <2>11, <2>13 DEF Drains
    <2>17. Delivers
      BY <1>1, <2>11, <2>1, <2>5, <2>13 DEF Delivers, Healthy
    <2> QED
      BY <2>10, <2>15, <2>16, <2>17 DEF Kept
  <1>4. ASSUME Flush, pc = "select", todo' = todo
        PROVE  /\ Pipe' = Pipe /\ pc' = "write" /\ batch' = EmptyBatch
               /\ inflight' \subseteq Documents(R, V)
    <2>1. inflight' = Elems(batch.docs) /\ batch' = EmptyBatch /\ pc' = "write"
      BY <1>4 DEF Flush
    <2>2. Elems(batch'.docs) = {} /\ inflight' \subseteq Documents(R, V)
      BY <1>2, <2>1, EmptyBatchType, ElemsEmpty, ElemsType
    <2> QED
      BY <1>1, <1>4, <2>1, <2>2 DEF Pipe
  <1>5. EmptyBatch \in Batches(Documents(R, V)) /\ EmptyBatch.docs = <<>>
    BY EmptyBatchType
  <1>6. CASE Tick
    <2>1. Flush /\ pc = "select" /\ todo' = todo /\ leaving' = leaving
      BY <1>6 DEF Tick
    <2>2. todo = <<>> /\ leaving = "no"
      BY <2>1 DEF Hands, Shape
    <2>3. Shape(E, R, V)'
      BY <1>1, <1>4, <1>5, <2>1 DEF Shape, Stages
    <2>4. Hands'
      BY <1>1, <1>4, <2>1, <2>2 DEF Hands
    <2>5. Drains
      BY <1>1, <1>4, <2>1 DEF Drains
    <2>6. Delivers
      BY <1>1, <1>4, <2>1 DEF Delivers, Healthy
    <2> QED
      BY <2>3, <2>4, <2>5, <2>6 DEF Kept
  <1>7. CASE Finish
    <2>1. /\ pc = "select" /\ todo' = todo /\ leaving' = "yes"
          /\ Flush \/ (batch.docs = <<>> /\ pc' = "done" /\ inflight' = inflight /\ batch' = batch)
      BY <1>7 DEF Finish
    <2>2. todo = <<>> /\ leaving = "no"
      BY <2>1 DEF Hands, Shape
    <2>3. CASE Flush
      <3>1. Shape(E, R, V)'
        BY <1>1, <1>4, <1>5, <2>1, <2>3 DEF Shape, Stages
      <3>2. Hands'
        BY <1>1, <1>4, <1>5, <2>1, <2>2, <2>3 DEF Hands
      <3>3. Drains
        BY <1>1, <1>4, <2>1, <2>3 DEF Drains
      <3>4. Delivers
        BY <1>1, <1>4, <2>1, <2>3 DEF Delivers, Healthy
      <3> QED
        BY <3>1, <3>2, <3>3, <3>4 DEF Kept
    <2>4. CASE batch.docs = <<>> /\ pc' = "done" /\ inflight' = inflight /\ batch' = batch
      <3>1. Shape(E, R, V)'
        BY <1>1, <2>1, <2>4 DEF Shape, Stages
      <3>2. Hands'
        BY <1>1, <2>1, <2>2, <2>4 DEF Hands
      <3>3. Pipe' = Pipe
        BY <1>1, <2>1, <2>4 DEF Pipe
      <3>4. Drains
        BY <1>1, <2>1, <3>3 DEF Drains
      <3>5. Delivers
        BY <1>1, <3>3, <2>1 DEF Delivers, Healthy
      <3> QED
        BY <3>1, <3>2, <3>4, <3>5 DEF Kept
    <2> QED
      BY <2>1, <2>3, <2>4
  <1> QED
    BY <1>3, <1>6, <1>7

\* Only what is newer than the destination's own changes it.
LEMMA ApplyType ==
  ASSUME NEW E, NEW R, NEW V, Feeds(E, R, V), Shape(E, R, V),
         NEW d \in Documents(R, V), Apply(d)
  PROVE  /\ dest' \in [Keys -> [ver : V \cup {0}, row : R \cup {0}]]
         /\ \A k \in Keys :
              \/ dest'[k] = dest[k]
              \/ k = d.key /\ d.ver > dest[k].ver /\ dest'[k].ver = d.ver /\ dest'[k].row = d.row
         /\ dest'[d.key].ver >= d.ver
         /\ d.ver > dest[d.key].ver => dest'[d.key].row = d.row
  <1>1. d.key \in Keys /\ d.ver \in V /\ d.row \in R /\ d.ver \in Nat
    BY DEF Documents, Feeds
  <1>2. [ver |-> d.ver, row |-> d.row] \in [ver : V \cup {0}, row : R \cup {0}]
    BY <1>1
  <1>3. dest[d.key].ver \in Nat /\ dest \in [Keys -> [ver : V \cup {0}, row : R \cup {0}]]
    <2>1. dest \in [Keys -> [ver : V \cup {0}, row : R \cup {0}]]
      BY DEF Shape
    <2>2. dest[d.key].ver \in V \cup {0} /\ V \subseteq Nat
      BY <1>1, <2>1 DEF Feeds
    <2>3. \A v \in V \cup {0} : v \in Nat
      BY <2>2
    <2> QED
      BY <2>1, <2>2, <2>3
  <1>4. CASE d.ver > dest[d.key].ver
    <2>1. dest' = [dest EXCEPT ![d.key] = [ver |-> d.ver, row |-> d.row]]
      BY <1>4 DEF Apply
    <2> QED
      BY <1>1, <1>2, <1>3, <1>4, <2>1
  <1>5. CASE ~(d.ver > dest[d.key].ver)
    BY <1>1, <1>3, <1>5 DEF Apply
  <1> QED
    BY <1>4, <1>5

\* The destination answers for one document, or for all of them.
LEMMA WritesKeep ==
  ASSUME NEW E, NEW R, NEW V, Sound(E, R, V), Settle \/ Refuse \/ WriteReturns
  PROVE  Kept(E, R, V)
  <1> USE DEF Sound
  <1>1. /\ pc = "write" /\ todo' = todo /\ batch' = batch
        /\ UNCHANGED <<events, chan, ctx, leaving, stray, dlq, faults>>
    BY DEF Settle, Refuse, WriteReturns, channelVars, destVars, workVars
  <1>2. CASE Settle
    <2>1. PICK d \in inflight : Apply(d) /\ inflight' = inflight \ {d}
      BY <1>2 DEF Settle
    <2>2. pc' = pc /\ rejected' = rejected
      BY <1>2 DEF Settle
    <2>3. d \in Documents(R, V)
      BY DEF Shape
    <2>4. dest' \in [Keys -> [ver : V \cup {0}, row : R \cup {0}]]
      BY <2>1, <2>3, ApplyType
    <2>5. Shape(E, R, V)'
      BY <1>1, <2>1, <2>2, <2>4 DEF Shape
    <2>6. Hands'
      BY <1>1, <2>1, <2>2 DEF Hands
    <2>7. Pipe' \subseteq Pipe /\ \A x \in Pipe : x \in Pipe' \/ x = d
      BY <1>1, <2>1 DEF Pipe
    <2>8. d \in Pipe
      BY DEF Pipe
    <2>9. Drains
      BY <1>1, <2>1, <2>2, <2>7, <2>8 DEF Drains
    <2>10. Delivers
      BY <1>1, <2>1, <2>2, <2>7, <2>8 DEF Delivers, Healthy
    <2> QED
      BY <2>5, <2>6, <2>9, <2>10 DEF Kept
  <1>3. CASE Refuse
    <2>1. PICK d \in inflight : /\ rejected' = rejected \cup {Letter(d.row, d.key)}
                               /\ inflight' = inflight \ {d}
      BY <1>3 DEF Refuse
    <2>2. pc' = pc /\ dest' = dest
      BY <1>3 DEF Refuse, destVars
    <2>3. d.row \in R /\ d.key \in Keys
      BY DEF Shape, Documents
    <2>4. rejected' \subseteq Letters(R)
      BY <2>1, <2>3 DEF Shape, Letters, Letter
    <2>5. Shape(E, R, V)'
      BY <1>1, <2>1, <2>2, <2>4 DEF Shape
    <2>6. Hands'
      BY <1>1, <2>1, <2>2 DEF Hands
    <2>7. Pipe' \subseteq Pipe /\ \A x \in Pipe : x \in Pipe' \/ x = d
      BY <1>1, <2>1 DEF Pipe
    <2>8. Drains
      BY <1>1, <2>1, <2>2, <2>7 DEF Drains
    <2>9. Delivers
      BY <1>1, <2>1, <2>2, <2>7 DEF Delivers, Healthy
    <2> QED
      BY <2>5, <2>6, <2>8, <2>9 DEF Kept
  <1>4. CASE WriteReturns
    <2>1. /\ inflight = {} /\ inflight' = inflight /\ rejected' = rejected /\ dest' = dest
          /\ pc' \in {"advance", "record"} /\ (rejected # {} => pc' = "record")
      BY <1>4 DEF WriteReturns, workVars, destVars
    <2>2. Shape(E, R, V)'
      BY <1>1, <2>1 DEF Shape, Stages
    <2>3. Hands'
      BY <1>1, <2>1 DEF Hands
    <2>4. Pipe' = Pipe
      BY <1>1, <2>1 DEF Pipe
    <2>5. Drains
      BY <1>1, <2>1, <2>4 DEF Drains
    <2>6. Delivers
      BY <1>1, <2>1, <2>4 DEF Delivers, Healthy
    <2> QED
      BY <2>2, <2>3, <2>5, <2>6 DEF Kept
  <1> QED
    BY <1>2, <1>3, <1>4

\* Dead letters and positions are recorded once the write is over.
LEMMA RecordsKeep ==
  ASSUME NEW E, NEW R, NEW V, Sound(E, R, V), Record \/ Advance
  PROVE  Kept(E, R, V)
  <1> USE DEF Sound
  <1>1. /\ todo' = todo /\ batch' = batch /\ inflight' = inflight
        /\ UNCHANGED <<events, chan, ctx, leaving, stray, dest, faults>>
    BY DEF Record, Advance, channelVars, destVars, workVars
  <1>2. Pipe' = Pipe
    BY <1>1 DEF Pipe
  <1>3. CASE Record
    <2>1. /\ pc \in {"record", "transform"} /\ dlq' = dlq \cup rejected /\ rejected' = {}
          /\ pc' = IF pc = "record" THEN "advance" ELSE "select"
      BY <1>3 DEF Record
    <2>2. Shape(E, R, V)'
      BY <1>1, <2>1 DEF Shape, Stages
    <2>3. Hands'
      BY <1>1, <2>1 DEF Hands
    <2>4. Drains
      BY <1>1, <1>2, <2>1 DEF Drains
    <2>5. Delivers
      BY <1>1, <1>2, <2>1 DEF Delivers, Healthy
    <2> QED
      BY <2>2, <2>3, <2>4, <2>5 DEF Kept
  <1>4. CASE Advance
    <2>1. pc = "advance" /\ pc' = Resume(todo) /\ dlq' = dlq /\ rejected' = rejected
      BY <1>4 DEF Advance, workVars
    <2>2. /\ Resume(todo) \in {"done", "select", "add"}
          /\ todo # <<>> => Resume(todo) \in {"done", "add"}
          /\ Resume(todo) = "done" <=> leaving = "yes"
      BY DEF Resume, Shape
    <2>3. Shape(E, R, V)'
      BY <1>1, <2>1, <2>2 DEF Shape, Stages
    <2>4. Hands'
      BY <1>1, <2>1, <2>2 DEF Hands
    <2>5. Drains
      BY <1>1, <1>2, <2>1 DEF Drains
    <2>6. Delivers
      BY <1>1, <1>2, <2>1 DEF Delivers, Healthy
    <2> QED
      BY <2>3, <2>4, <2>5, <2>6 DEF Kept
  <1> QED
    BY <1>3, <1>4

LEMMA CallFailsType ==
  ASSUME faults \in 0..MaxFaults, CallFails
  PROVE  faults' \in 0..MaxFaults
  BY FaultAssumption DEF CallFails, Fault

\* Run returns with an error.
LEMMA FailuresKeep ==
  ASSUME NEW E, NEW R, NEW V, Sound(E, R, V), RunnerFault
  PROVE  Kept(E, R, V)
  <1> USE DEF Sound
  <1>1. /\ Stop /\ CallFails /\ UNCHANGED <<events, chan, leaving, batch, dest>>
    BY DEF RunnerFault, WriteFails, RecordFails, AdvanceFails
  <1>2. dlq \subseteq dlq' /\ dlq' \subseteq dlq \cup rejected
    BY DEF RunnerFault, WriteFails, RecordFails, AdvanceFails
  <1>3. pc \in {"write", "record", "transform", "advance"}
    BY DEF RunnerFault, WriteFails, RecordFails, AdvanceFails
  <1>4. /\ pc' = "done" /\ ctx' = "done" /\ stray' = stray \cup inflight
        /\ todo' = <<>> /\ inflight' = {} /\ rejected' = {}
    BY <1>1 DEF Stop
  <1>5. faults' \in 0..MaxFaults
    BY <1>1, CallFailsType DEF Shape
  <1>6. Shape(E, R, V)'
    BY <1>1, <1>2, <1>4, <1>5 DEF Shape, Stages
  <1>7. Hands'
    BY <1>1, <1>4 DEF Hands
  <1>8. Pipe' \subseteq Pipe /\ inflight \subseteq Pipe
    BY <1>1, <1>4, ElemsEmpty DEF Pipe
  <1>9. Drains
    BY <1>1, <1>2, <1>4, <1>8 DEF Drains
  <1>10. Delivers
    BY <1>4 DEF Delivers, Healthy
  <1> QED
    BY <1>6, <1>7, <1>9, <1>10 DEF Kept

LEMMA StraysKeep ==
  ASSUME NEW E, NEW R, NEW V, Sound(E, R, V), SettleStray
  PROVE  Kept(E, R, V)
  <1> USE DEF Sound
  <1>1. PICK d \in stray : Apply(d) /\ stray' = stray \ {d}
    BY DEF SettleStray
  <1>2. UNCHANGED <<events, chan, ctx, pc, leaving, todo, batch, inflight, rejected, dlq, faults>>
    BY DEF SettleStray, channelVars, workVars
  <1>3. dest' \in [Keys -> [ver : V \cup {0}, row : R \cup {0}]]
    BY <1>1, ApplyType DEF Shape
  <1>4. Shape(E, R, V)'
    BY <1>1, <1>2, <1>3 DEF Shape
  <1>5. Hands'
    BY <1>2 DEF Hands
  <1>6. Pipe' = Pipe
    BY <1>2 DEF Pipe
  <1>7. Drains
    BY <1>1, <1>2, <1>6 DEF Drains
  <1>8. Delivers
    BY <1>2, <1>6, <1>1 DEF Delivers, Healthy
  <1> QED
    BY <1>4, <1>5, <1>7, <1>8 DEF Kept

\* Every step of the runner.
LEMMA RunnerKeeps ==
  ASSUME NEW E, NEW R, NEW V, Sound(E, R, V), RunnerStep \/ RunnerFault \/ SettleStray
  PROVE  Kept(E, R, V)
  BY TakesKeep, BatchesKeep, WritesKeep, RecordsKeep, FailuresKeep, StraysKeep DEF RunnerStep

\* The process ends, and what it had in its hands with it.
LEMMA LoseKeeps ==
  ASSUME NEW E, NEW R, NEW V, Sound(E, R, V), Lose, faults' \in 0..MaxFaults
  PROVE  Shape(E, R, V)' /\ Hands' /\ Drains /\ Pipe' = {}
  <1> USE DEF Sound
  <1>1. /\ events' = <<>> /\ chan' = "open" /\ ctx' = "live" /\ pc' = "select"
        /\ leaving' = "no" /\ todo' = <<>> /\ batch' = EmptyBatch /\ inflight' = {}
        /\ rejected' = {} /\ stray' = stray \cup inflight /\ UNCHANGED <<dest, dlq>>
    BY DEF Lose
  <1>2. batch' \in Batches(Documents(R, V)) /\ batch'.docs = <<>>
    BY <1>1, EmptyBatchType
  <1>3. Elems(events') = {} /\ Elems(todo') = {} /\ Elems(batch'.docs) = {} /\ QueuedIn(events') = {}
    BY <1>1, <1>2, ElemsEmpty, QueuedEmpty
  <1>4. Shape(E, R, V)'
    BY <1>1, <1>2 DEF Shape, Stages
  <1>5. Hands'
    BY <1>1, <1>3 DEF Hands
  <1>6. Pipe' = {}
    BY <1>1, <1>3 DEF Pipe
  <1>7. inflight \subseteq Pipe
    BY DEF Pipe
  <1>8. Drains
    BY <1>1, <1>3, <1>6, <1>7 DEF Drains
  <1> QED
    BY <1>4, <1>5, <1>6, <1>8

-----------------------------------------------------------------------------
(* Delivery                                                                  *)

\* A row is delivered to a key for good: a dead letter stands for it, or the
\* key holds it or a later row and nothing still under way can undo that.
Delivered(row, key) ==
  \/ Letter(row, key) \in dlq
  \/ Letter(row, NoKey) \in dlq
  \/ /\ dest[key].row >= row
     /\ \A d \in Pipe \cup stray : d.key = key /\ d.ver > dest[key].ver => d.row >= row

\* The runner still holds a row for a key, or the dead letter for it.
Held(row, key) ==
  \/ \E d \in Pipe : d.row = row /\ d.key = key
  \/ \E e \in Elems(events) : e.plan = "error" /\ e.row = row
  \/ Letter(row, key) \in rejected
  \/ Letter(row, NoKey) \in rejected

\* For every document in the pipe, a newer version of its key is a later row.
Ordered ==
  \A d \in Pipe :
    /\ dest[d.key].ver >= d.ver => dest[d.key].row >= d.row
    /\ \A c \in Pipe \cup stray : c.key = d.key /\ c.ver >= d.ver => c.row >= d.row

LEMMA DeliveredAccounted ==
  ASSUME NEW row, NEW key, Delivered(row, key)
  PROVE  Accounted(row, key)
  BY DEF Delivered, Accounted

LEMMA DestNat ==
  ASSUME NEW E, NEW R, NEW V, Feeds(E, R, V), Shape(E, R, V), NEW k \in Keys
  PROVE  dest[k].ver \in Nat /\ dest[k].row \in Nat
  <1>1. dest \in [Keys -> [ver : V \cup {0}, row : R \cup {0}]]
    BY DEF Shape
  <1>2. dest[k].ver \in V \cup {0} /\ dest[k].row \in R \cup {0}
    BY <1>1
  <1>3. (\A v \in V \cup {0} : v \in Nat) /\ (\A v \in R \cup {0} : v \in Nat)
    BY DEF Feeds
  <1> QED
    BY <1>2, <1>3

LEMMA DocNat ==
  ASSUME NEW E, NEW R, NEW V, Feeds(E, R, V), NEW d \in Documents(R, V)
  PROVE  d.key \in Keys /\ d.ver \in Nat /\ d.row \in Nat /\ d.size \in Nat
  BY DEF Documents, Feeds

\* Nothing the runner does, nor its end, undoes a delivery.
LEMMA DeliveredKept ==
  ASSUME NEW E, NEW R, NEW V, Sound(E, R, V), Drains,
         NEW row \in Nat, NEW key \in Keys, Delivered(row, key)
  PROVE  Delivered(row, key)'
  <1> USE DEF Sound
  <1>1. CASE Letter(row, key) \in dlq \/ Letter(row, NoKey) \in dlq
    BY <1>1 DEF Delivered, Drains
  <1>2. CASE /\ dest[key].row >= row
             /\ \A d \in Pipe \cup stray : d.key = key /\ d.ver > dest[key].ver => d.row >= row
    <2>1. Pipe' \cup stray' \subseteq Pipe \cup stray
      BY DEF Drains
    <2>2. CASE dest' = dest
      <3>1. /\ dest'[key].row >= row
            /\ \A d \in Pipe' \cup stray' : d.key = key /\ d.ver > dest'[key].ver => d.row >= row
        BY <1>2, <2>1, <2>2
      <3> QED
        BY <3>1 DEF Delivered
    <2>3. ASSUME NEW d \in Pipe \cup stray, Apply(d)
          PROVE  Delivered(row, key)'
      <3>1. d \in Documents(R, V)
        BY PipeType DEF Shape
      <3>2. dest[key].ver \in Nat /\ dest[key].row \in Nat /\ d.ver \in Nat /\ d.row \in Nat
        BY <3>1, DestNat, DocNat
      <3>3. \/ dest'[key] = dest[key]
            \/ key = d.key /\ d.ver > dest[key].ver /\ dest'[key].ver = d.ver /\ dest'[key].row = d.row
        BY <2>3, <3>1, ApplyType
      <3>4. \A c \in Pipe \cup stray : c.ver \in Nat /\ c.row \in Nat
        BY PipeType, DocNat DEF Shape
      <3>5. CASE dest'[key] = dest[key]
        <4>1. /\ dest'[key].row >= row
              /\ \A c \in Pipe' \cup stray' : c.key = key /\ c.ver > dest'[key].ver => c.row >= row
          BY <1>2, <2>1, <3>5
        <4> QED
          BY <4>1 DEF Delivered
      <3>6. CASE key = d.key /\ d.ver > dest[key].ver /\ dest'[key].ver = d.ver /\ dest'[key].row = d.row
        <4>1. dest'[key].row >= row
          BY <1>2, <3>6
        <4>2. \A c \in Pipe' \cup stray' : c.key = key /\ c.ver > dest'[key].ver => c.row >= row
          BY <1>2, <2>1, <3>2, <3>4, <3>6
        <4> QED
          BY <4>1, <4>2 DEF Delivered
      <3> QED
        BY <3>3, <3>5, <3>6
    <2> QED
      BY <2>2, <2>3 DEF Drains
  <1> QED
    BY <1>1, <1>2 DEF Delivered

\* The order survives every step of a healthy runner.
LEMMA OrderedKept ==
  ASSUME NEW E, NEW R, NEW V, Sound(E, R, V), Drains, Ordered
  PROVE  stray' \subseteq stray => Ordered'
  <1> USE DEF Sound
  <1> SUFFICES ASSUME stray' \subseteq stray, NEW d \in Pipe'
               PROVE  /\ dest'[d.key].ver >= d.ver => dest'[d.key].row >= d.row
                      /\ \A c \in Pipe' \cup stray' : c.key = d.key /\ c.ver >= d.ver => c.row >= d.row
    BY DEF Ordered
  <1>1. d \in Pipe /\ Pipe' \subseteq Pipe
    BY DEF Drains
  <1>2. \A c \in Pipe \cup stray : c.key = d.key /\ c.ver >= d.ver => c.row >= d.row
    BY <1>1 DEF Ordered
  <1>3. dest[d.key].ver >= d.ver => dest[d.key].row >= d.row
    BY <1>1 DEF Ordered
  <1>4. d.key \in Keys /\ d \in Documents(R, V)
    BY <1>1, PipeType, DocNat
  <1>5. dest'[d.key].ver >= d.ver => dest'[d.key].row >= d.row
    <2>1. CASE dest' = dest
      BY <1>3, <2>1
    <2>2. ASSUME NEW c \in Pipe \cup stray, Apply(c)
          PROVE  dest'[d.key].ver >= d.ver => dest'[d.key].row >= d.row
      <3>1. c \in Documents(R, V)
        BY PipeType DEF Shape
      <3>2. \/ dest'[d.key] = dest[d.key]
            \/ d.key = c.key /\ dest'[d.key].ver = c.ver /\ dest'[d.key].row = c.row
        BY <1>4, <2>2, <3>1, ApplyType
      <3> QED
        BY <1>2, <1>3, <3>2
    <2> QED
      BY <2>1, <2>2 DEF Drains
  <1> QED
    BY <1>1, <1>2, <1>5

\* A row that a healthy runner holds is still held after a step, or delivered.
LEMMA HeldKept ==
  ASSUME NEW E, NEW R, NEW V, Sound(E, R, V), Kept(E, R, V), Ordered, Healthy',
         NEW row \in Nat, NEW key \in Keys, Held(row, key)
  PROVE  Held(row, key)' \/ Delivered(row, key)'
  <1> USE DEF Sound
  <1>1. /\ Shape(E, R, V)' /\ Drains
        /\ \A d \in Pipe : d \in Pipe' \/ Apply(d) \/ Letter(d.row, d.key) \in rejected'
        /\ \A e \in Elems(events) :
             e \in Elems(events') \/ e.plan = "ok" \/ Letter(e.row, NoKey) \in rejected'
        /\ rejected \subseteq rejected' \cup dlq'
    BY DEF Kept, Delivers
  <1>2. ASSUME NEW d \in Pipe, d.row = row, d.key = key
        PROVE  Held(row, key)' \/ Delivered(row, key)'
    <2>1. CASE d \in Pipe'
      BY <1>2, <2>1 DEF Held
    <2>2. CASE Letter(d.row, d.key) \in rejected'
      BY <1>2, <2>2 DEF Held
    <2>3. CASE Apply(d)
      <3>1. d \in Documents(R, V) /\ d.ver \in Nat
        BY PipeType, DocNat
      <3>2. dest[key].ver \in Nat /\ dest[key].row \in Nat
        BY DestNat
      <3>3. /\ \/ dest'[key] = dest[key]
               \/ d.ver > dest[key].ver /\ dest'[key].ver = d.ver /\ dest'[key].row = row
            /\ dest'[key].ver >= d.ver
            /\ d.ver > dest[key].ver => dest'[key].row = row
        BY <1>2, <2>3, <3>1, ApplyType
      <3>4. /\ dest[key].ver >= d.ver => dest[key].row >= row
            /\ \A c \in Pipe \cup stray : c.key = key /\ c.ver >= d.ver => c.row >= row
        BY <1>2 DEF Ordered
      <3>5. dest'[key].row >= row
        BY <3>1, <3>2, <3>3, <3>4
      <3>6. \A c \in Pipe \cup stray : c.ver \in Nat
        BY PipeType, DocNat DEF Shape
      <3>7. dest'[key].ver \in Nat
        BY <3>1, <3>2, <3>3
      <3>8. \A c \in Pipe \cup stray : c.key = key /\ c.ver > dest'[key].ver => c.row >= row
        BY <3>1, <3>3, <3>4, <3>6, <3>7
      <3>9. Pipe' \cup stray' \subseteq Pipe \cup stray
        BY <1>1 DEF Drains
      <3>10. /\ dest'[key].row >= row
             /\ \A c \in Pipe' \cup stray' : c.key = key /\ c.ver > dest'[key].ver => c.row >= row
        BY <3>5, <3>8, <3>9
      <3> QED
        BY <3>10 DEF Delivered
    <2> QED
      BY <1>1, <2>1, <2>2, <2>3
  <1>3. ASSUME NEW e \in Elems(events), e.plan = "error", e.row = row
        PROVE  Held(row, key)'
    BY <1>1, <1>3 DEF Held
  <1>4. CASE Letter(row, key) \in rejected \/ Letter(row, NoKey) \in rejected
    BY <1>1, <1>4 DEF Held, Delivered
  <1> QED
    BY <1>2, <1>3, <1>4 DEF Held

-----------------------------------------------------------------------------
(* Positions                                                                 *)

Writing == pc \in {"write", "record", "advance"}

\* Only handle notes a position, and only advance records one.
LEMMA PositionsMove ==
  ASSUME RunnerStep \/ RunnerFault \/ SettleStray
  PROVE  /\ Receive \/ UNCHANGED pendingVars
         /\ \/ UNCHANGED rowVars
            \/ pc = "advance" /\ SavePosition /\ UNCHANGED <<events, pendingVars, batch>>
  <1>1. CASE Receive \/ ReceiveBad \/ AddDoc \/ Tick \/ Finish
    BY <1>1 DEF ReceiveBad, AddDoc, Tick, Finish, Receive
  <1>2. CASE Settle \/ Refuse \/ WriteReturns \/ Record
    BY <1>2 DEF Settle, Refuse, WriteReturns, Record
  <1>3. CASE Advance
    BY <1>3 DEF Advance, channelVars, workVars
  <1>4. CASE WriteFails \/ RecordFails \/ AdvanceFails
    BY <1>4 DEF WriteFails, RecordFails, AdvanceFails
  <1>5. CASE SettleStray
    BY <1>5 DEF SettleStray
  <1> QED
    BY <1>1, <1>2, <1>3, <1>4, <1>5 DEF RunnerStep, RunnerFault

\* During a write the batcher holds nothing but the rest of the event that
\* made the batch leave.
LEMMA WritingMoves ==
  ASSUME NEW E, NEW R, NEW V, Sound(E, R, V),
         RunnerStep \/ RunnerFault \/ SettleStray, ~Receive
  PROVE  /\ Elems(todo') \subseteq Elems(todo)
         /\ Writing' => \/ Elems(batch'.docs) \subseteq Elems(todo)
                        \/ Writing /\ batch' = batch
  <1> USE DEF Sound
  <1>1. CASE ReceiveBad
    BY <1>1 DEF ReceiveBad, Writing
  <1>2. CASE AddDoc
    <2>1. todo # <<>> /\ todo' = Tail(todo)
      BY <1>2 DEF AddDoc
    <2>2. PICK d \in Documents(R, V) : d = Head(todo)
      BY <2>1, ElemsTail DEF Shape
    <2>3. Elems(todo) = {d} \cup Elems(todo')
      BY <2>1, <2>2, ElemsTail DEF Shape
    <2>4. /\ batch' = Add(batch, d).keep
          /\ pc' = IF Add(batch, d).out = <<>> THEN Resume(Tail(todo)) ELSE "write"
      BY <1>2, <2>2 DEF AddDoc
    <2>5. Add(batch, d).out # <<>> => Elems(Add(batch, d).keep.docs) \subseteq {d}
      BY AddSplits, DocNat DEF Shape
    <2>6. Resume(Tail(todo)) \in {"done", "select", "add"}
      BY DEF Resume, Shape
    <2> QED
      BY <2>3, <2>4, <2>5, <2>6 DEF Writing
  <1>3. CASE Tick \/ Finish
    <2>1. todo' = todo /\ (Flush \/ pc' = "done")
      BY <1>3 DEF Tick, Finish
    <2>2. Flush => Elems(batch'.docs) = {}
      BY EmptyBatchType, ElemsEmpty DEF Flush
    <2> QED
      BY <2>1, <2>2 DEF Writing
  <1>4. CASE Settle \/ Refuse \/ WriteReturns \/ Record \/ Advance
    <2>1. batch' = batch /\ todo' = todo
      BY <1>4 DEF Settle, Refuse, WriteReturns, Record, Advance, workVars
    <2>2. Writing' => Writing
      <3>1. CASE Settle \/ Refuse \/ WriteReturns
        BY <3>1 DEF Settle, Refuse, WriteReturns, Writing
      <3>2. CASE Record
        BY <3>2 DEF Record, Writing
      <3>3. CASE Advance
        <4>1. pc = "advance"
          BY <3>3 DEF Advance
        <4> QED
          BY <4>1 DEF Writing
      <3> QED
        BY <1>4, <3>1, <3>2, <3>3
    <2> QED
      BY <2>1, <2>2
  <1>5. CASE RunnerFault
    <2>1. Stop
      BY <1>5 DEF RunnerFault, WriteFails, RecordFails, AdvanceFails
    <2> QED
      BY <2>1, ElemsEmpty DEF Stop, Writing
  <1>6. CASE SettleStray
    BY <1>6 DEF SettleStray, workVars, Writing
  <1> QED
    BY <1>1, <1>2, <1>3, <1>4, <1>5, <1>6 DEF RunnerStep

\* The runner takes events from the head of the channel only.
LEMMA EventsMove ==
  ASSUME RunnerStep \/ RunnerFault \/ SettleStray
  PROVE  events' = events \/ (events # <<>> /\ events' = Tail(events))
  BY DEF RunnerStep, RunnerFault, Receive, ReceiveBad, AddDoc, Tick, Finish, Settle, Refuse,
         WriteReturns, Record, Advance, WriteFails, RecordFails, AdvanceFails, SettleStray,
         channelVars

LEMMA TailShifts ==
  ASSUME NEW S, NEW s \in Seq(S), s # <<>>
  PROVE  /\ 1 \in DOMAIN s /\ Head(s) = s[1]
         /\ \A i \in DOMAIN Tail(s) : i \in Nat /\ i + 1 \in DOMAIN s /\ Tail(s)[i] = s[i + 1] /\ 1 < i + 1
  <1>1. /\ Tail(s) \in Seq(S) /\ Len(Tail(s)) = Len(s) - 1
        /\ \A i \in 1..Len(Tail(s)) : Tail(s)[i] = s[i + 1]
    BY HeadTailProperties
  <1>2. Len(s) \in Nat /\ Len(s) # 0 /\ DOMAIN s = 1..Len(s) /\ DOMAIN Tail(s) = 1..(Len(s) - 1)
    BY <1>1, LenProperties, EmptySeq
  <1>3. Head(s) = s[1]
    OBVIOUS
  <1> QED
    BY <1>1, <1>2, <1>3
=============================================================================
