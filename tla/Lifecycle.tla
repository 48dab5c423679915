------------------------------ MODULE Lifecycle ------------------------------
(***************************************************************************)
(* The life of the streams of one process: Supervisor.Run scans every      *)
(* table that needs it, one stream after the other (internal/supervisor,   *)
(* snapshot.go), then follows the binlog with one reader for all of them   *)
(* (stream.go), through restarts and rebuilds into a new index             *)
(* (cmd/changeflow/resnapshot.go).                                         *)
(*                                                                         *)
(* The source's log is a sequence of changes and a position is a length of *)
(* it.  The value of a row is the index of its last change, 0 when it is   *)
(* absent.  A scanned row or a change reaches the destination in one step, *)
(* and its position is recorded in that step or a later one: what happens  *)
(* in between is BinlogPipeline.tla and ScanPipeline.tla.  A version block *)
(* lies above every block reserved before it, as the clock's floor puts it *)
(* there (Allocator.tla).                                                  *)
(***************************************************************************)
EXTENDS Integers, Sequences

CONSTANTS
  N,            \* streams, each of a table of its own, in the order of runtimes
  K,            \* keys of a table, in key order
  Initial,      \* the log before the first start
  Changes,      \* the changes the source may make later
  Scanned,      \* the streams with snapshot.enabled
  ScanServers,  \* the servers source.snapshot_dsn may name: "source", "replica"
  Block,        \* versions reserved at a time
  MaxLog,       \* bound: length of the log
  MaxRebuilds,  \* bound: rebuilds in one behaviour
  MaxFaults     \* bound: crashes and failed calls in one behaviour

Streams == 1..N
Keys == 1..K
Indices == 1..(MaxRebuilds + 1)
Entries == [stream : Streams, key : Keys, op : {"put", "delete"}]
None == -1

ASSUME LifecycleAssumption ==
  /\ N \in Nat \ {0} /\ K \in Nat \ {0} /\ Block \in Nat \ {0}
  /\ MaxLog \in Nat /\ MaxRebuilds \in Nat /\ MaxFaults \in Nat
  /\ Initial \in Seq(Entries) /\ Changes \subseteq Entries
  /\ Initial # <<>> /\ ScanServers \subseteq {"source", "replica"} /\ Scanned \subseteq Streams

VARIABLES
  log,       \* the source's changes
  server,    \* the server that is scanned
  replica,   \* how much of the log the replica has applied
  row,       \* checkpoint row of a stream
  index,     \* sink.index of a stream
  alias,     \* the index the read alias resolves to, 0 for none
  refresh,   \* "off" for an index that does not refresh
  dest,      \* the documents of an index: key -> [ver, val]
  phase,     \* where Run is
  at,        \* the stream backfill is working on
  scanned,   \* the last key the scan has read
  loading,   \* the refresh setting the scan in progress will put back, "no" for none
  pos,       \* the position of each stream, as backfill returns them
  rpos,      \* changes the reader has read
  clock,     \* the highest version reserved
  alloc,     \* the block in hand of each stream's allocator
  since,     \* where the copy of a stream that is not scanned begins
  rewound,   \* the streams a replay has taken behind the position in their row
  trouble,   \* what may have gone wrong unnoticed: "lag", "replay", "settings"
  rebuilds, faults

sourceVars == <<log, server, replica>>
indexVars == <<index, alias, refresh, dest>>
procVars == <<phase, at, scanned, loading, pos, rpos>>
versionVars == <<clock, alloc>>
countVars == <<rebuilds, faults>>
histVars == <<since, rewound, trouble>>
vars == <<sourceVars, row, indexVars, procVars, versionVars, countVars, histVars>>

\* A checkpoint row that does not exist yet, or a scan that was asked for again.
NewRow == [gtid |-> None, done |-> FALSE, start |-> None, cursor |-> 0, base |-> 0]

\* The replica may be behind by any amount; nothing waits for it.
Init ==
  /\ log = Initial /\ server \in ScanServers
  /\ replica \in 0..Len(Initial) /\ (server = "source" => replica = 0)
  /\ row = [s \in Streams |-> NewRow]
  /\ index = [s \in Streams |-> 1] /\ alias = [s \in Streams |-> 0]
  /\ refresh = [s \in Streams |-> [i \in Indices |-> "on"]]
  /\ dest = [s \in Streams |-> [i \in Indices |->
               [k \in Keys |-> [ver |-> 0, val |-> 0]]]]
  /\ phase = "down" /\ at = 1 /\ scanned = 0 /\ loading = "no"
  /\ pos = [s \in Streams |-> 0] /\ rpos = 0
  /\ clock = 0 /\ alloc = [s \in Streams |-> [next |-> 1, end |-> 0]]
  /\ since = [s \in Streams |-> 0] /\ rewound = {}
  /\ trouble = {} /\ rebuilds = 0 /\ faults = 0

-----------------------------------------------------------------------------
(* The source                                                                *)

\* The value of a row after the first p changes.
Content(s, k, p) ==
  LET mine == {i \in 1..p : log[i].stream = s /\ log[i].key = k}
      last == CHOOSE i \in mine : \A j \in mine : j <= i
  IN  IF mine = {} \/ (mine # {} /\ log[last].op = "delete") THEN 0 ELSE last

\* A row is put, or one that is there is deleted.
Change ==
  /\ Len(log) < MaxLog
  /\ \E c \in Changes :
       /\ c.op = "delete" => Content(c.stream, c.key, Len(log)) # 0
       /\ log' = Append(log, c)
  /\ UNCHANGED <<server, replica, row, indexVars, procVars, versionVars, countVars, histVars>>

ReplicaCatchesUp ==
  /\ server = "replica" /\ replica < Len(log)
  /\ replica' = replica + 1
  /\ UNCHANGED <<log, server, row, indexVars, procVars, versionVars, countVars, histVars>>

-----------------------------------------------------------------------------
(* backfill                                                                  *)

\* Run: connect, lock and build every stream; the allocators hold no block.
Start ==
  /\ phase = "down"
  /\ phase' = "load" /\ at' = 1
  /\ alloc' = [s \in Streams |-> [next |-> 1, end |-> 0]]
  /\ UNCHANGED <<sourceVars, row, indexVars, scanned, loading, pos, rpos,
                 clock, countVars, histVars>>

Loading == phase = "load" /\ at <= N

\* The next version of stream s's allocator.
Version(s) == IF alloc[s].next <= alloc[s].end THEN alloc[s].next ELSE clock + 1

\* Next, and reserve when the block is spent.
TakeVersion(s) ==
  /\ alloc' = [alloc EXCEPT ![s] =
                 [next |-> Version(s) + 1,
                  end  |-> IF @.next <= @.end THEN @.end ELSE clock + Block]]
  /\ clock' = IF alloc[s].next <= alloc[s].end THEN clock ELSE clock + Block

\* snapshotIfNeeded: the scan is done and a position is recorded.
UseRecorded ==
  /\ Loading /\ row[at].done /\ row[at].gtid # None
  /\ pos' = [pos EXCEPT ![at] = row[at].gtid]
  /\ at' = at + 1
  /\ UNCHANGED <<sourceVars, row, indexVars, phase, scanned, loading, rpos,
                 versionVars, countVars, histVars>>

\* startWithoutSnapshot: the recorded position, or else where the source is now,
\* which is recorded first.
StartWithoutSnapshot ==
  /\ Loading /\ ~(row[at].done /\ row[at].gtid # None) /\ at \notin Scanned
  /\ LET from == IF row[at].gtid # None THEN row[at].gtid ELSE Len(log)
     IN  /\ pos' = [pos EXCEPT ![at] = from]
         /\ IF row[at].gtid # None
              THEN UNCHANGED <<row, since>>
              ELSE /\ row' = [row EXCEPT ![at].done = TRUE, ![at].gtid = from]
                   /\ since' = [since EXCEPT ![at] = from]
  /\ at' = at + 1
  /\ UNCHANGED <<sourceVars, indexVars, phase, scanned, loading, rpos,
                 versionVars, countVars, rewound, trouble>>

\* markScanStarted: the position first, then the version every scanned row
\* carries, both recorded before the scan.
MarkScanStarted ==
  /\ Loading /\ ~(row[at].done /\ row[at].gtid # None)
  /\ row[at].start = None /\ at \in Scanned
  /\ row' = [row EXCEPT ![at].start = Len(log), ![at].base = Version(at)]
  /\ TakeVersion(at)
  /\ phase' = "begin"
  /\ UNCHANGED <<sourceVars, indexVars, at, scanned, loading, pos, rpos,
                 countVars, histVars>>

\* markScanStarted: an interrupted scan goes on.
ResumeScan ==
  /\ Loading /\ ~(row[at].done /\ row[at].gtid # None)
  /\ row[at].start # None /\ at \in Scanned
  /\ phase' = "begin"
  /\ UNCHANGED <<sourceVars, row, indexVars, at, scanned, loading, pos, rpos,
                 versionVars, countVars, histVars>>

Fault == faults < MaxFaults /\ faults' = faults + 1 /\ UNCHANGED rebuilds

Refreshing(s, value) == refresh' = [refresh EXCEPT ![s][index[s]] = value]

Troubled(what) == trouble' = trouble \cup {what}

\* A mutant: what the scan finds is what it puts back.
PutBackAsFound(value) == value

\* BeginBulkLoad: an index that is found without refreshing is one an earlier
\* scan left so, and the default is what to put back.
PutBack(value) == IF value = "off" THEN "on" ELSE value

\* beginBulkLoad: an index no reader uses stops refreshing.  When that fails
\* the scan goes on all the same, and the change may have landed.
BeginBulkLoad ==
  /\ phase = "begin"
  /\ \/ /\ alias[at] = index[at]
        /\ loading' = "no" /\ UNCHANGED <<refresh, countVars, trouble>>
     \/ /\ alias[at] # index[at]
        /\ Refreshing(at, "off") /\ loading' = PutBack(refresh[at][index[at]])
        /\ UNCHANGED <<countVars, trouble>>
     \/ /\ alias[at] # index[at]
        /\ Fault
        /\ Refreshing(at, "off") \/ UNCHANGED refresh
        /\ loading' = "no" /\ Troubled("settings")
  /\ phase' = "scan" /\ scanned' = row[at].cursor
  /\ UNCHANGED <<sourceVars, row, index, alias, dest, at, pos, rpos, versionVars, since, rewound>>

\* The destination keeps the higher version; a tie goes to what it holds.
Put(s, k, ver, val) ==
  dest' = IF ver > dest[s][index[s]][k].ver
            THEN [dest EXCEPT ![s][index[s]][k] = [ver |-> ver, val |-> val]]
            ELSE dest

KeysLeft == scanned < K

\* The scan reads the next key, where the scanned server is by then.
ScanRow ==
  /\ phase = "scan" /\ KeysLeft
  /\ LET k   == scanned + 1
         val == Content(at, k, IF server = "replica" THEN replica ELSE Len(log))
     IN  /\ IF val = 0 THEN UNCHANGED dest ELSE Put(at, k, row[at].base, val)
         /\ scanned' = k
         /\ IF server = "replica" /\ replica < row[at].start
              THEN Troubled("lag") ELSE UNCHANGED trouble
         /\ row' = [row EXCEPT ![at].cursor = k] \/ UNCHANGED row
  /\ UNCHANGED <<sourceVars, index, alias, refresh, phase, at, loading, pos,
                 rpos, versionVars, countVars, since, rewound>>

\* scan's deferred EndBulkLoad, whose failure is only logged.
Restore ==
  \/ loading = "no" /\ UNCHANGED <<refresh, countVars, trouble>>
  \/ loading # "no" /\ Refreshing(at, loading) /\ UNCHANGED <<countVars, trouble>>
  \/ loading # "no" /\ UNCHANGED refresh /\ Fault /\ Troubled("settings")

\* scan returns after the last row.
EndScan ==
  /\ phase = "scan" /\ ~KeysLeft
  /\ Restore
  /\ phase' = "finish" /\ loading' = "no"
  /\ UNCHANGED <<sourceVars, row, index, alias, dest, at, scanned, pos, rpos,
                 versionVars, since, rewound>>

\* A mutant: the completed scan is recorded together with its position.
FinishScanWithPosition ==
  /\ phase = "finish"
  /\ row' = [row EXCEPT ![at].done = TRUE, ![at].gtid = row[at].start]
  /\ phase' = "promote"
  /\ UNCHANGED <<sourceVars, indexVars, at, scanned, loading, pos, rpos,
                 versionVars, countVars, histVars>>

\* finishScan: the completed scan is recorded, before the alias moves.
FinishScan ==
  /\ phase = "finish"
  /\ row' = [row EXCEPT ![at].done = TRUE]
  /\ phase' = "promote"
  /\ UNCHANGED <<sourceVars, indexVars, at, scanned, loading, pos, rpos,
                 versionVars, countVars, histVars>>

\* A mutant: readers move as soon as the scan has begun.
PromoteEarly ==
  /\ phase \in {"promote", "scan"}
  /\ alias' = [alias EXCEPT ![at] = index[at]]
  /\ pos' = [pos EXCEPT ![at] = row[at].start]
  /\ phase' = IF phase = "scan" THEN "scan" ELSE "load"
  /\ at' = IF phase = "scan" THEN at ELSE at + 1
  /\ UNCHANGED <<sourceVars, row, index, refresh, dest, scanned, loading, rpos,
                 versionVars, countVars, histVars>>

\* promoteAlias: one request moves the readers.
Promote ==
  /\ phase = "promote"
  /\ alias' = [alias EXCEPT ![at] = index[at]]
  /\ pos' = [pos EXCEPT ![at] = row[at].start]
  /\ phase' = "load" /\ at' = at + 1
  /\ UNCHANGED <<sourceVars, row, index, refresh, dest, scanned, loading, rpos,
                 versionVars, countVars, histVars>>

-----------------------------------------------------------------------------
(* stream                                                                    *)

\* A mutant: the reader starts where the stream that is furthest ahead is.
FurthestPosition == CHOOSE p \in {pos[s] : s \in Streams} : \A s \in Streams : p >= pos[s]

\* sharedStartPosition: the position every stream's position contains.  There
\* is one, since positions are lengths here: sets of transactions none of which
\* contains the others, which the process refuses to start from, do not occur.
SharedStartPosition ==
  CHOOSE p \in {pos[s] : s \in Streams} : \A s \in Streams : p <= pos[s]

StartReader ==
  /\ phase = "load" /\ at > N
  /\ phase' = "stream" /\ rpos' = SharedStartPosition
  /\ UNCHANGED <<sourceVars, row, indexVars, at, scanned, loading, pos,
                 versionVars, countVars, histVars>>

\* Where a stream that is streaming goes on after a stop.
ResumesAt(s) == IF row[s].gtid # None THEN row[s].gtid ELSE row[s].start

\* The reader reads a change, which carries the position before it and the
\* next version of the first stream's allocator; its stream writes it and
\* records that position, at once or with a later change.
ReadChange ==
  /\ phase = "stream" /\ rpos < Len(log)
  /\ LET c == log[rpos + 1]
     IN  /\ Put(c.stream, c.key, Version(1), IF c.op = "delete" THEN 0 ELSE rpos + 1)
         /\ row' = [row EXCEPT ![c.stream].gtid = rpos] \/ UNCHANGED row
         /\ rewound' = {s \in rewound \cup {c.stream} : ResumesAt(s)' > rpos + 1}
  /\ TakeVersion(1)
  /\ rpos' = rpos + 1
  /\ UNCHANGED <<sourceVars, index, alias, refresh, phase, at, scanned, loading,
                 pos, countVars, since, trouble>>

-----------------------------------------------------------------------------
(* The process and the operator                                              *)

Stopped ==
  /\ phase' = "down" /\ at' = 1 /\ scanned' = 0 /\ loading' = "no"
  /\ pos' = [s \in Streams |-> 0] /\ rpos' = 0
  /\ UNCHANGED <<sourceVars, row, index, dest, versionVars, histVars>>

\* The process dies.
Crash == phase # "down" /\ Fault /\ Stopped /\ UNCHANGED <<alias, refresh>>

\* The process is stopped during a scan, and puts the refresh setting back.
StopScan ==
  /\ phase = "scan"
  /\ Fault /\ Stopped
  /\ IF loading # "no" THEN Refreshing(at, loading) ELSE UNCHANGED refresh
  /\ UNCHANGED alias

\* promoteAlias fails and Run with it; the move may have landed.
PromoteFails ==
  /\ phase = "promote"
  /\ Fault /\ Stopped
  /\ alias' = [alias EXCEPT ![at] = index[at]] \/ UNCHANGED alias
  /\ UNCHANGED refresh

\* resnapshot of a stream that has run, and a new sink.index: ClearSnapshot
\* forgets the scan and keeps the position.  The next scan begins at a position
\* of its own, so that others that relied on this one's are not replayed again.
Rebuild ==
  /\ phase = "down" /\ rebuilds < MaxRebuilds
  /\ \E s \in Streams :
       /\ row[s] # NewRow
       /\ row' = [row EXCEPT ![s] = [NewRow EXCEPT !.gtid = row[s].gtid]]
       /\ index' = [index EXCEPT ![s] = @ + 1]
       /\ since' = [since EXCEPT ![s] = row[s].gtid]
       /\ rewound' = rewound \ {s}
       /\ trouble' = IF s \in Scanned /\ rewound' # {} THEN trouble \cup {"replay"} ELSE trouble
  /\ rebuilds' = rebuilds + 1
  /\ UNCHANGED <<sourceVars, alias, refresh, dest, procVars, versionVars, faults>>

\* Every change is read, and the reader waits.
Idle == phase = "stream" /\ rpos = Len(log) /\ UNCHANGED vars

Progress ==
  \/ Start \/ UseRecorded \/ StartWithoutSnapshot \/ MarkScanStarted \/ ResumeScan \/ BeginBulkLoad
  \/ ScanRow \/ EndScan \/ FinishScan \/ Promote \/ StartReader \/ ReadChange

Next ==
  \/ Progress \/ Change \/ ReplicaCatchesUp \/ Crash \/ StopScan
  \/ PromoteFails \/ Rebuild \/ Idle

Spec == Init /\ [][Next]_vars

\* Calls return, and a stopped process is started again.
FairSpec == Spec /\ WF_vars(Progress)

-----------------------------------------------------------------------------
\* A row the stream is to copy: any row if its table is scanned, else one that
\* changed after the stream began.
Copied(s, k) ==
  s \in Scanned \/ \E i \in (since[s] + 1)..Len(log) : log[i].stream = s /\ log[i].key = k

\* Once the reader has read the whole log, every index holds exactly the rows
\* of its table at their last value, whichever server was scanned.
AnyCopyIsExact ==
  phase = "stream" /\ rpos = Len(log) =>
    \A s \in Streams, k \in Keys :
      Copied(s, k) => dest[s][index[s]][k].val = Content(s, k, Len(log))

\* Whatever changed while a table was scanned and wherever the process was
\* interrupted, the copy is exact: a scanned row never hides a later change, no
\* change falls between the scan and the reader, and a replay catches up.  But
\* for a scan of a replica that was behind the position it had recorded, and
\* for a replay that was cut short and whose reason, a stream that was behind,
\* was then taken away by a rebuild.
CopyIsExact == trouble \cap {"lag", "replay"} = {} => AnyCopyIsExact

\* A row that was there before the first start and was never deleted.
Lasting(s, k) ==
  /\ \E i \in 1..Len(Initial) : log[i].stream = s /\ log[i].key = k /\ log[i].op = "put"
  /\ \A i \in 1..Len(log) : log[i].stream = s /\ log[i].key = k => log[i].op = "put"

\* Readers find every row that was there all along, whichever server was scanned.
ReadersNeverMissARow ==
  \A s \in Streams, k \in Keys :
    alias[s] # 0 /\ Lasting(s, k) => dest[s][alias[s]][k].val # 0

\* Readers never see a half-built index: a row that was there all along is in
\* the index the alias resolves to, in the middle of a rebuild too.  But for a
\* scan of a replica that was behind the position it had recorded: a row the
\* replica had yet to receive is neither scanned nor read from the binlog.
ReadersMissNothing == "lag" \notin trouble => ReadersNeverMissARow

\* Readers are never left on an index that does not refresh, whatever fails.
ReadersAlwaysSeeWrites ==
  \A s \in Streams : alias[s] # 0 => refresh[s][alias[s]] = "on"

\* Readers are never left on an index that does not refresh, unless a change of
\* its settings failed, which scan only logs: a process that dies in the middle
\* of a scan leaves its index so, and the scan that replaces it mends that.
ReadersSeeWrites == "settings" \notin trouble => ReadersAlwaysSeeWrites

\* A scan moves the readers to its index, in the end, a rebuild's too.
RebuildsMoveReaders == <>[](\A s \in Scanned : alias[s] = index[s])

\* The first scan of a table ends with readers on its index, whatever fails on
\* the way: a scan that is recorded but whose alias was not moved is done again.
ReadersMove == <>[](rebuilds = 0 => \A s \in Scanned : alias[s] = index[s])
==============================================================================
