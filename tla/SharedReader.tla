----------------------------- MODULE SharedReader -----------------------------
(***************************************************************************)
(* One binlog reader feeding every stream of a process: the streamer's     *)
(* goroutine, the router (internal/supervisor/router.go), the pipelines    *)
(* and the group that stops them together (group.go, stream.go), with what *)
(* they leave for an operator to see: the state behind /readyz (health.go) *)
(* and last_error in the checkpoint rows, which the pipelines and the      *)
(* version allocator load and save as a whole.  Otherwise a pipeline only  *)
(* takes events here; what it does with them is Runner.tla.                *)
(***************************************************************************)
EXTENDS Naturals, Sequences, FiniteSets

CONSTANTS Streams,    \* the configured streams, in order: Seq([name, table])
          Source,     \* the tables of the row changes the reader is sent
          BufferSize, \* runtime.buffer_size, of the reader's channel and the queues
          MaxSaves,   \* bound: saves of a row in one behaviour
          MaxFaults   \* bound: failures in one behaviour

Names == {Streams[i].name : i \in DOMAIN Streams}
Reader == "reader"
Writers == Names \cup {Reader}   \* of checkpoint rows

ASSUME ReaderAssumption ==
  /\ Len(Source) \in Nat /\ DOMAIN Source = 1..Len(Source)
  /\ BufferSize \in Nat \ {0} /\ MaxSaves \in Nat /\ MaxFaults \in Nat
  /\ \A i, j \in DOMAIN Streams : Streams[i].name = Streams[j].name => i = j
  /\ Reader \notin Names

VARIABLES
  next,     \* the next row change of Source
  buffer,   \* the channel between the streamer and the router
  reader,   \* the streamer: "waiting", "reading", "stopped" or "failed"
  held,     \* the event Route is delivering, 0 for none
  targets,  \* the streams, by their index, it has still to be sent to
  router,   \* "waiting", "routing", "recording" a failure or "returned"
  queue,    \* the queue of each stream
  queues,   \* "open" or "closed", all at once
  pipe,     \* a stream's pipeline: "waiting", "running" or "returned"
  got,      \* the events a pipeline has taken
  ctx,      \* "live", or what ended it: "stopped" by the operator, "failed"
  first,    \* group.first: "none", "canceled" or "failed"
  state,    \* streamState of each stream: "idle", "streaming", "stopped" or "failed"
  lastError,\* last_error in a stream's row: "" , "old", "pipeline" or "source"
  loaded,   \* last_error in the row a writer is about to save, or "none"
  saves,    \* the rows that were loaded to be saved
  blamed,   \* the streams the router's task has recorded the reader's failure for
  trouble,  \* history: the streams whose reason was not recorded, or overwritten
  faults

rowVars == <<lastError, loaded, saves, trouble>>
flowVars == <<next, buffer, held, targets, queue, got>>
vars == <<flowVars, reader, router, queues, pipe, ctx, first, state, blamed,
          rowVars, faults>>

Init ==
  /\ next = 1 /\ buffer = <<>> /\ reader = "waiting"
  /\ held = 0 /\ targets = {} /\ router = "waiting"
  /\ queue = [s \in Names |-> <<>>] /\ queues = "open"
  /\ pipe = [s \in Names |-> "waiting"] /\ got = [s \in Names |-> <<>>]
  /\ ctx = "live" /\ first = "none" /\ faults = 0
  /\ state = [s \in Names |-> "idle"]
  /\ lastError = [s \in Names |-> "old"]
  /\ loaded = [w \in Writers |-> "none"] /\ saves = 0
  /\ blamed = {} /\ trouble = {}

Faults(n) == faults + n <= MaxFaults /\ faults' = faults + n
Fault == Faults(1)

\* A mutant: the last error is kept.
ReportLast(err) ==
  /\ first' = err
  /\ ctx' = IF ctx = "live" THEN "failed" ELSE ctx

\* group.run: a task returned an error; the first one is kept, and everything
\* is cancelled.
Report(err) ==
  /\ first' = IF first = "none" THEN err ELSE first
  /\ ctx' = IF ctx = "live" THEN "failed" ELSE ctx

-----------------------------------------------------------------------------
(* The checkpoint rows                                                       *)

\* A mutant: the write is given up when the context is done.
RecordErrorUnlessDone(s, why) ==
  /\ lastError' = IF ctx = "live" THEN [lastError EXCEPT ![s] = why] ELSE lastError
  /\ UNCHANGED <<loaded, saves, trouble>>

\* recordError, RecordError: why a stream stopped, in a context of its own.
RecordError(s, why) ==
  /\ lastError' = [lastError EXCEPT ![s] = why]
  /\ UNCHANGED <<loaded, saves, trouble>>

\* recordError, when that cannot be written: only the log says so.
NotRecorded(s) ==
  /\ trouble' = trouble \cup {s}
  /\ UNCHANGED <<lastError, loaded, saves>>

\* The row a writer saves: the versions of the reader are the first stream's.
RowOf(w) == IF w = Reader THEN Streams[1].name ELSE w

\* advance, when something was written, and reserve load a row
LoadRow(w) ==
  /\ loaded[w] = "none" /\ saves < MaxSaves
  /\ IF w = Reader THEN reader = "reading" ELSE pipe[w] = "running" /\ got[w] # <<>>
  /\ saves' = saves + 1
  /\ loaded' = [loaded EXCEPT ![w] = lastError[RowOf(w)]]
  /\ UNCHANGED <<flowVars, reader, router, queues, pipe, ctx, first, state, blamed,
                 lastError, trouble, faults>>

\* and save all of it, last_error included.
SaveRow(w) ==
  LET s == RowOf(w)
  IN  /\ loaded[w] # "none"
      /\ lastError' = [lastError EXCEPT ![s] = loaded[w]]
      /\ trouble' = IF lastError[s] = loaded[w] THEN trouble ELSE trouble \cup {s}
      /\ loaded' = [loaded EXCEPT ![w] = "none"]
      /\ UNCHANGED <<flowVars, reader, router, queues, pipe, ctx, first, state, blamed, saves,
                     faults>>

-----------------------------------------------------------------------------
(* The streamer                                                              *)

\* startReader, after every pipeline was started.
StartReader ==
  /\ router = "waiting" /\ \A s \in Names : pipe[s] # "waiting"
  /\ router' = "routing" /\ reader' = "reading"
  /\ UNCHANGED <<flowVars, queues, pipe, ctx, first, state, blamed, rowVars, faults>>

Read ==
  /\ reader = "reading" /\ next <= Len(Source) /\ Len(buffer) < BufferSize
  /\ loaded[Reader] = "none"
  /\ buffer' = Append(buffer, next)
  /\ next' = next + 1
  /\ UNCHANGED <<reader, held, targets, router, queue, queues, pipe, got, ctx,
                 first, state, blamed, rowVars, faults>>

\* The context is done, a row that is still to be saved included, or reading fails.
ReaderStops ==
  /\ reader = "reading"
  /\ \/ ctx # "live" /\ reader' = "stopped" /\ UNCHANGED faults
     \/ Fault /\ reader' = "failed"
  /\ loaded' = [loaded EXCEPT ![Reader] = "none"]
  /\ UNCHANGED <<flowVars, router, queues, pipe, ctx, first, state, blamed,
                 lastError, saves, trouble>>

-----------------------------------------------------------------------------
(* The router                                                                *)

\* A mutant: one queue per table.
FirstWatcher(table) ==
  {i \in DOMAIN Streams : /\ Streams[i].table = table
                          /\ \A j \in DOMAIN Streams : Streams[j].table = table => i <= j}

\* Add: the queues of a table, in the order they were added.
Watchers(table) == {i \in DOMAIN Streams : Streams[i].table = table}

\* Route, for the next event of the reader's channel.
Route ==
  /\ router = "routing" /\ targets = {} /\ buffer # <<>>
  /\ held' = Head(buffer) /\ buffer' = Tail(buffer)
  /\ targets' = Watchers(Source[Head(buffer)])
  /\ UNCHANGED <<next, reader, router, queue, queues, pipe, got, ctx, first,
                 state, blamed, rowVars, faults>>

\* The queue Route sends to next is the one that was added first.
IsNext(i) == i \in targets /\ \A j \in targets : i <= j

\* A mutant: a full queue drops its oldest event.
SendOrDrop ==
  \E i \in DOMAIN Streams :
    /\ IsNext(i)
    /\ queue' = [queue EXCEPT ![Streams[i].name] =
                   Append(IF Len(@) < BufferSize THEN @ ELSE Tail(@), held)]
    /\ targets' = targets \ {i}
    /\ UNCHANGED <<next, buffer, reader, held, router, queues, pipe, got, ctx,
                   first, state, blamed, rowVars, faults>>

\* A queue that is full blocks the router.
Room(s) == Len(queue[s]) < BufferSize

\* Route: the send goes through when the queue has room.
Send ==
  \E i \in DOMAIN Streams :
    /\ router = "routing" /\ IsNext(i) /\ Room(Streams[i].name)
    /\ queue' = [queue EXCEPT ![Streams[i].name] = Append(@, held)]
    /\ targets' = targets \ {i}
    /\ UNCHANGED <<next, buffer, reader, held, router, queues, pipe, got, ctx,
                   first, state, blamed, rowVars, faults>>

\* The router's task returns: the deferred Close closes every queue.
RouterReturns ==
  /\ router' = "returned" /\ queues' = "closed"
  /\ held' = 0 /\ targets' = {}
  /\ UNCHANGED <<next, buffer, reader, queue, pipe, got, state, faults>>

\* A mutant: a full queue is tried again and again, whatever becomes of the
\* context.
RoutePolls == router = "routing" /\ targets # {} /\ ctx # "live" /\ UNCHANGED vars

\* Route: the context is done before there is room.
RouteCancelled ==
  /\ router = "routing" /\ targets # {} /\ ctx # "live"
  /\ Report("canceled")
  /\ RouterReturns /\ UNCHANGED <<blamed, rowVars>>

\* startReader: the streamer's channel is closed and read to its end,
ReaderEnded ==
  /\ router = "routing" /\ targets = {} /\ buffer = <<>>
  /\ reader = "stopped"
  /\ RouterReturns
  /\ UNCHANGED <<ctx, first, blamed, rowVars>>

\* and Err is asked why; a failure is recorded for one stream after the other
RecordSource ==
  /\ router \in {"routing", "recording"} /\ targets = {} /\ buffer = <<>>
  /\ reader = "failed" /\ blamed # Names
  /\ LET s == Streams[Cardinality(blamed) + 1].name
     IN  /\ \/ RecordError(s, "source") /\ UNCHANGED faults
            \/ NotRecorded(s) /\ Fault
         /\ blamed' = blamed \cup {s}
  /\ router' = "recording"
  /\ UNCHANGED <<flowVars, reader, queues, pipe, ctx, first, state>>

\* and reported.
ReaderFailed ==
  /\ router = "recording" /\ blamed = Names
  /\ Report("failed")
  /\ RouterReturns /\ UNCHANGED <<blamed, rowVars>>

-----------------------------------------------------------------------------
(* The pipelines                                                             *)

\* startPipeline, for one stream after the other.
StartPipeline(s) ==
  /\ pipe[s] = "waiting"
  /\ \A i, j \in DOMAIN Streams : i < j /\ Streams[j].name = s => pipe[Streams[i].name] # "waiting"
  /\ state' = [state EXCEPT ![s] = "streaming"]
  /\ \/ RecordError(s, "") /\ UNCHANGED faults
     \/ NotRecorded(s) /\ Fault
  /\ pipe' = [pipe EXCEPT ![s] = "running"]
  /\ UNCHANGED <<flowVars, reader, router, queues, ctx, first, blamed>>

Take(s) ==
  /\ pipe[s] = "running" /\ queue[s] # <<>> /\ loaded[s] = "none"
  /\ got' = [got EXCEPT ![s] = Append(@, Head(queue[s]))]
  /\ queue' = [queue EXCEPT ![s] = Tail(@)]
  /\ UNCHANGED <<next, buffer, reader, held, targets, router, queues, pipe, ctx,
                 first, state, blamed, rowVars, faults>>

PipeReturns(s, how) ==
  /\ pipe' = [pipe EXCEPT ![s] = "returned"]
  /\ state' = [state EXCEPT ![s] = how]
  /\ UNCHANGED <<flowVars, reader, router, queues, blamed>>

\* Run returns: the context is done, or the queue is closed and read.  An
\* error that is only the cancellation is neither recorded nor reported.
PipeStops(s) ==
  /\ pipe[s] = "running"
  /\ ctx # "live" \/ (queues = "closed" /\ queue[s] = <<>> /\ loaded[s] = "none")
  /\ PipeReturns(s, "stopped")
  /\ loaded' = [loaded EXCEPT ![s] = "none"]
  /\ UNCHANGED <<ctx, first, lastError, saves, trouble, faults>>

\* Run fails.
PipeFails(s) ==
  /\ pipe[s] = "running" /\ loaded[s] = "none"
  /\ PipeReturns(s, "failed")
  /\ \/ RecordError(s, "pipeline") /\ Fault
     \/ NotRecorded(s) /\ Faults(2)
  /\ Report("failed")

-----------------------------------------------------------------------------
\* The operator stops the process.
Sigterm ==
  /\ ctx = "live" /\ Fault
  /\ ctx' = "stopped"
  /\ UNCHANGED <<flowVars, reader, router, queues, pipe, first, state, blamed, rowVars>>

Returned ==
  /\ router = "returned" /\ reader # "reading"
  /\ \A s \in Names : pipe[s] = "returned"

\* Everything has returned, or everything is read and the reader waits.
Idle ==
  /\ \/ Returned
     \/ /\ ctx = "live" /\ next > Len(Source) /\ buffer = <<>> /\ targets = {}
        /\ reader = "reading" /\ \A s \in Names : queue[s] = <<>>
        /\ \A w \in Writers : loaded[w] = "none"
  /\ UNCHANGED vars

Tasks ==
  \/ StartReader \/ Read \/ Route \/ Send \/ RouteCancelled \/ ReaderEnded
  \/ RecordSource \/ ReaderFailed \/ ReaderStops
  \/ \E s \in Names : StartPipeline(s) \/ Take(s) \/ PipeStops(s)
  \/ \E w \in Writers : LoadRow(w) \/ SaveRow(w)

Next == Tasks \/ (\E s \in Names : PipeFails(s)) \/ Sigterm \/ Idle

\* Every goroutine is scheduled.  A goroutine whose context is done leaves its
\* select in the end, although each time it may choose a channel first.
Fairness ==
  /\ WF_vars(StartReader) /\ WF_vars(Read) /\ WF_vars(Route) /\ WF_vars(Send)
  /\ WF_vars(ReaderEnded) /\ WF_vars(RecordSource) /\ WF_vars(ReaderFailed)
  /\ SF_vars(RouteCancelled) /\ WF_vars(ReaderStops /\ ctx # "live")
  /\ \A s \in Names : WF_vars(StartPipeline(s)) /\ WF_vars(Take(s)) /\ SF_vars(PipeStops(s))
  /\ \A w \in Writers : WF_vars(SaveRow(w))

Spec == Init /\ [][Next]_vars
FairSpec == Spec /\ Fairness

-----------------------------------------------------------------------------
\* The changes of a stream's table.
Watched(i) == {e \in DOMAIN Source : Source[e] = Streams[i].table}

\* What was put in a stream's queue, taken or not.
Handed(s) == got[s] \o queue[s]

\* The event is in the sequence.
Holds(events, e) == \E k \in DOMAIN events : events[k] = e

\* The events are the first ones of a set, in order.
FirstOf(events, all) ==
  \A k \in DOMAIN events :
    /\ events[k] \in all
    /\ \A j \in DOMAIN events : j < k => events[j] < events[k]
    /\ \A e \in all : e < events[k] => Holds(events, e)

\* Every stream is given the changes of its table in the order of the source,
\* none skipped and none twice, although two streams share a table, queues
\* fill up and the router stops in the middle of an event.
InOrder == \A i \in DOMAIN Streams : FirstOf(Handed(Streams[i].name), Watched(i))

\* Unless something ends the process, every change reaches every stream that
\* watches its table: a full queue delays the others, it never stops them.
Delivers ==
  <>(ctx # "live" \/ \A i \in DOMAIN Streams : \A e \in Watched(i) : Holds(got[Streams[i].name], e))

\* ready: what /readyz answers.
Ready == \A s \in Names : state[s] = "streaming"

\* Once the context is done every task returns, a router blocked on a full
\* queue whose pipeline is gone too, and the process is no longer ready.
AllReturn == (ctx # "live") ~> (Returned /\ ~Ready)

\* A process that ended because something failed says so: the cancellation it
\* causes elsewhere never hides the failure.
FailureReported == Returned /\ ctx = "failed" => first = "failed"

\* The rows tell an operator what happened: no reason of an earlier run is left
\* once a stream was started, and when everything has returned the streams with
\* a reason are those whose pipeline failed or, if the source did, all of them,
\* whatever was cancelled meanwhile; but for a reason that could not be written
\* or that a writer of the whole row overwrote.
RowsTell ==
  \A s \in Names \ trouble :
    /\ pipe[s] # "waiting" => lastError[s] # "old"
    /\ Returned => (lastError[s] # "" <=> state[s] = "failed" \/ s \in blamed)

\* README.md:210: "A stream that is not streaming at all reports why in
\* `status`, and its last error is kept in the checkpoint row".  With a single
\* failure, that is unless a writer of the whole row overwrites it.
LastErrorKept ==
  Returned => \A s \in Names : state[s] = "failed" \/ s \in blamed => lastError[s] # ""
==============================================================================
