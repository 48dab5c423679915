# TLA+ models of changeflow

changeflow copies MySQL tables to Elasticsearch or ClickHouse and keeps the copies current. It scans a table once, then follows the binlog, and survives crashes by recording how far it got. These modules model the parts of it that carry state, TLC checks them on small instances, and TLAPS proves the invariants that matter most for every instance.

## The system

| Component | State | Operations | Hard because |
|---|---|---|---|
| Batcher (`pipeline/batcher.go`) | pending documents, bytes, start time | Add, Flush, DueForFlush | four branches at two limits and a deadline |
| Runner (`pipeline/runner.go`) | pending position, batch | take an event, transform, batch, write, dead-letter, record the position | the order of durable steps, failures and cancellation between any two |
| Transform plan (`pipeline/transform.go`) | the definition it was compiled from | event to documents, value to field | an update that changes the key is two documents; the table changes under the plan |
| Binlog reader (`source/binlog`) | executed transactions, current transaction | GTID, XID, query and row events, alignment of rows | the position of a row is that of the transactions before it; rows may be older than the definition at hand |
| Table definitions (`schema/`) | cache of definitions | Table, Invalidate | DDL reaches the cache late, or not at all |
| Preflight (`preflight/`) | none | check the source's settings | settings change after they were checked |
| Table scanner (`source/snapshot`) | cursor, rows read | read a chunk, convert and send its rows | interruption anywhere, last chunk short or empty; its values must be those of the binlog |
| Version allocator (`checkpoint/seq.go`) | block in hand, durable watermark | reserve, issue | crash between reserve and issue; a row others write too; the clock |
| Checkpoint store (`checkpoint/mysql.go`) | one row per stream, advisory locks, a pool of connections | Load, Save, RecordError, Lock, Release | whole-row saves; locks end with their connection, keep it out of the pool, and outlive a killed client until the server reaps its session |
| Elasticsearch writer | parts still to be written, attempts | one bulk Write | retries, splitting, lost answers |
| ClickHouse writer | the same, and deduplication tokens | one Write | all-or-nothing inserts, narrowing |
| Dead letter queue (`sink/dlq`) | lines of files, size | Record, rotate, Count, Read | torn lines, restarts |
| Supervisor (`supervisor/`) | phases and states of every stream | check, backfill, stream, stop, `/readyz` | order of scan, position, alias; one reader for all streams; stop on first failure |
| resnapshot (`cmd/changeflow`) | the checkpoint row | forget the scan | runs beside a process that may hold the stream |

How they interact: the supervisor claims a lock per stream, scans each table in turn through a runner, then starts one binlog reader whose events a router sends to the queue of every stream that watches the table; one runner per stream empties its queue. The reader takes its versions from the allocator of the first stream. Runner, allocator, supervisor and resnapshot all load and save the same checkpoint rows. Everything runs in one group: the first error cancels the rest.

## Modules

Each module names the file it models in its heading comment; `PROJECT.json` maps every definition to lines.

| Module | Models | Uses |
|---|---|---|
| `Batcher` | `Add` and its conditions as operators | |
| `BatchFlow` | a batcher over time: offers, flushes, the clock | `Batcher` |
| `Runner` | the runner, its destination, dead letter queue and checkpoint row | `Batcher` |
| `BinlogPipeline` | reader, runner, allocator's saves, process | `Runner` |
| `ScanPipeline` | scanner, runner, completion and resumption, process | `Runner` |
| `Allocator`, `Sequence` | the allocator, and what it promises | `Sequence` |
| `Plan` | which documents an event becomes | |
| `SinkContract` | what `sink.Sink` promises about one Write | |
| `ElasticSink`, `ClickHouseSink` | one Write of each sink | `Plan` |
| `Sinks` | a stream's sink, whichever of the two it is, shown to implement `SinkContract` | both sinks, `SinkContract` |
| `Values` | one column value: how each source delivers it, what the scanner and the plan make of it, and what it should be | |
| `RowImages` | one row while its table's definition, the destination's index and the source's settings change: preflight, comparison with the index, cache, alignment, scan, plan | `Values` |
| `Lifecycle` | all streams of a process: scan, alias, shared reader, restart, rebuild | |
| `SharedReader` | reader, router, queues, pipelines, group, readiness, `last_error` of the rows | |
| `StreamLock` | locks, their connections, processes, resnapshot | |
| `DeadLetters` | the files of the dead letter queue | |
| `AllocatorProofs`, `StreamLockProofs`, `LifecycleProofs`, `SharedReaderProofs` | proofs | the module they are named after |
| `DeliveryProofs` | proofs about the batcher, one Write of a sink and the dead letter files | `BatchFlow`, `Sinks`, `DeadLetters` |
| `RunnerProofs` | lemmas about the runner, whichever source feeds it | `Runner` |
| `BinlogPipelineProofs`, `ScanPipelineProofs` | proofs | their module, `RunnerProofs` |

Abstractions that matter:

- **Documents** are a row number, a key, a version and a size. The *row* is the index of the change in the source, so "older" and "later" are comparisons of numbers, while the *version* is what changeflow gave it.
- **The destination** keeps the highest version of a key. In `Runner` a write settles document by document, in any order; one the client gave up on may settle at any later time, even after a restart. That is what `Sinks` is shown to implement one Write at a time.
- **A position** is a set of transactions in `BinlogPipeline` (as a GTID set is), and the length of a log in `Lifecycle`. Lengths can always be compared; two GTID sets may each lack what the other has, and `sharedStartPosition` then refuses to start (`supervisor/router.go:102-108`). That refusal is not modelled; it only takes behaviours away.
- **Load and Save** of a checkpoint row are two steps wherever another writer can come between them: in `Allocator`, in the reservations of `BinlogPipeline`, in `StreamLock`, and in `SharedReader` for `last_error`. In `Runner` the load and the save of `advance` are one step: it overwrites the position whatever it loaded, and the other column at stake, the watermark, is the subject of `Allocator`.
- **The reader's channel and a stream's queue** are one channel in `BinlogPipeline`; both are there, with the router between them, in `SharedReader`.
- **A value** is a pair of a tag and a content: what a table stores, what Go holds with its dynamic type, what a document holds. A text is one with or without an accent, with the charset of its bytes; a time is a number of hours; an integer keeps its width (`Wide` bits for a BIGINT, half of it for the others) and its sign.
- **A definition** of a table is a sequence of columns in `RowImages`. A *case* (`Cases`) is what one behaviour happens in: the definitions the table goes through, the settings the source goes through, the mapping and the destination. The row has one key; only its other columns change. The index of an Elasticsearch stream is the set of its fields with their types (`mapping`): it begins as the case says, and the operator may add the fields that `generate-schema` would write and the index lacks, at any time or never. A start compares it with what the stream will write.
- The refresh setting in `Lifecycle` is on or off; what a scan puts back is what `BeginBulkLoad` decided when it read it.
- `trouble` in `Lifecycle` and `SharedReader` remembers what the code can only log (a settings change that failed, an error that could not be recorded or was overwritten) or cannot notice (a replica that is behind, a replay cut short). The properties that except it are stated without the exception too, and TLC refutes those, see below.
- **Replays of the shared reader.** The reader starts at the earliest position of all streams, so a stream that is ahead is replayed from behind its own position, with new versions. `rewound` in `Lifecycle` is the set of streams in that state: what they hold may be older than what their rows record. It is history, no action depends on it. A restart repeats the replay, because the stream that was behind still is; only the rebuild of that stream takes the reason away, and then `trouble` gets `"replay"`.
- `Lifecycle` leaves batching out: a row or a change reaches the destination in one step, and its position is recorded then or with a later one.
- **Locks** in `StreamLock` belong to the server (`holder`); what a process knows is the list of those it was told it has (`claims`), and the end of a process gives back the ones in that list and no others, in one step. A lock whose answer was lost is in no list, and a killed process gives nothing back: those are `Dead` until the server reaps their session (`Reap`). `Conns` is the size of the connection pool, 16 in the code; each claim keeps one, and whoever needs another waits (`ConnectionLeft`). `prepare` claims streams in the order of their names.

A definition introduced by the words "A mutant" is the code with a plausible mistake. No specification uses it: it shows that a property can fail.

## Runs

Passing runs (`tlc -config X.cfg M`):

| Run | Module / cfg | Properties, besides a type invariant where there is one |
|---|---|---|
| `batch_flow` | `MCBatchFlow` | `OrderKept`, `WithinLimits`, `DeadlineIsOldest` |
| `binlog` | `MCBinlogPipeline` | `NothingLost`, `PositionBehindPipe`, `Converges`, under two failures |
| `scan` | `MCScanPipeline` | `CursorSafe`, `DoneMeansComplete`, `ScanCompletes`, under two failures |
| `allocator` | `MCAllocator` | `ReservedBeforeIssued`; `NeverReissued` (refinement of `Sequence`), for an allocator alone on any clock, and for one with other writers of its row on a clock that only moves forward |
| `sinks` | `MCSinks` | `MeetsContract` (refinement of `SinkContract`), `Accounts`, `OnlyTheRefused`, `FailsOnlyOnFault`, `WriteReturns`, for both destinations |
| `rows` | `MCRowImages` | `FieldsHoldTheirColumns`, `SameDocumentEitherWay`, `DeadLettersAreDue`, `KeepsReading`, in 26 cases, with a crash and an index that is or is not brought up to date |
| `lifecycle` | `MCLifecycle` | `CopyIsExact`, `ReadersMissNothing`, `ReadersSeeWrites`, `ReadersMove`, through one rebuild and two failures, scanning the source or a replica that was anywhere behind it at the first start; the first two except a scan of a replica that had not reached the position of the scan |
| `shared_reader` | `MCSharedReader` | `InOrder`, `Delivers`, `AllReturn`, `FailureReported`, `RowsTell` |
| `stream_lock` | `MCStreamLock` | `OneOwner`, `RescanKept` while connections live; `SomeoneRuns` once nothing disturbs the processes, with a connection to spare |
| `dead_letters` | `MCDeadLetters` | `OnDisk`, `SizeMatches` |

Runs that TLC refutes. Each states what a comment, a test or the README of the repository says; `PROJECT.json` quotes it under `findings`.

| Run | Module / cfg | Property | What the code does |
|---|---|---|---|
| `scan_overflow` | `MCScanPipeline` / `MCScanOverflow` | `DoneMeansComplete` | the row that carries a chunk's cursor overflows the batch; the cursor is recorded without it, and a crash skips the row |
| `two_streams` | `MCLifecycle` / `MCTwoStreams` | `CopyIsExact` | changes of the second stream are versioned by the first one's allocator, possibly below the second one's scan |

### Further configurations that TLC refutes

These show the limits of the passing runs: each lifts one of their restrictions, and the trace says why the restriction is there. Where one file serves several properties its comment says what to change. Lines are those of the repository.

| Module / cfg | Property | What the code does, and what the repository says |
|---|---|---|
| `MCScanPipeline` / `MCScanRows` | `RowsDoneCounts` | a resumed scan counts its rows from zero (`source/snapshot/scanner.go:180`), and `finishScan` records that as the total; `telemetry/metrics.go:175` "records how far the initial scan has read" |
| `MCLifecycle` / `MCScanLimits` | `AnyCopyIsExact` | the position is the source's (`supervisor/snapshot.go:78`), the rows are those of a replica that may be behind it (`:106`), and nothing waits for it |
| the same | `ReadersNeverMissARow` | a row from before the first start that the replica does not have yet lies before the recorded position, so neither the scan nor the reader delivers it: readers miss it for good |
| the same, one rebuild | `RebuildsMoveReaders` | after a rebuild the row keeps its position, so when the alias move fails after `SnapshotDone` was recorded (`snapshot.go:157-163`) no start repeats it; `sink/elasticsearch/alias.go:15` "can run after every completed scan" |
| `MCLifecycle` / `MCScanLimits` | `ReadersAlwaysSeeWrites` | failures to change or restore the refresh setting only warn (`snapshot.go:171`, `:181`), and the alias moves all the same |
| `MCLifecycle` / `MCInterruptedReplay` | `AnyCopyIsExact` | the reader starts at the position of the stream that is behind (`supervisor/stream.go:18`) and replays another stream from behind the position in its row; when the process stops in the middle, that stream holds older values, and its row says it is past them. If the stream that was behind is rebuilt before the next start, nothing replays the rest; README.md:20 "A replay is harmless" |
| `MCStreamLock` / `MCLockLost` | `NeverFight` | a lock ends with its idle connection and nothing calls `Held` (`checkpoint/mysql.go:347`); README.md:26 "Two processes cannot fight" |
| the same, two connections | `SomeoneRuns` | each lock keeps a connection of the pool (`mysql.go:305`), which has 16 (`supervisor/build.go:200`): with as many streams as connections the process has none left to load a row with, and waits for ever without an error |
| `MCSinks` / `MCClickHouseMove` | `EveryBatchIsWritable` | the delete of an update that changes the key has no body (`pipeline/transform.go:209`), and `encodeRows` refuses it (`sink/clickhouse/insert.go:164`); README.md:23 "Deletes propagate, including the delete implied by a row's key changing" |
| the same, other batches | `FailsOnlyOnFault` | narrowing gives up at a depth (`insert.go:142`): with depth 12, in a batch of more than 2048 rows with a bad one |
| the same, other batches | `OnlyTheRefusedEver` | an answer that blames no row, such as 401 or 404, is narrowed like one that does (`insert.go:124`), and the whole batch is dead-lettered |
| the same, a second scan | `MeetsContract` | two different inserts of a scan share a deduplication token (`insert.go:192`), and the second is dropped |
| `MCRowImages` / `MCUnhandled`: `MCAddedColumn` | `MatchedByName` | rows as wide as the reloaded definition are taken as they are (`source/binlog/streamer.go:354`), and the plan, compiled at the start (`supervisor/build.go:57`), reads them by position: after a column is added before another one, the field holds the new column's value; README.md:291 "columns are matched by name, so a width change does not stall anything". With `Cases <- MCAddedLabel`: members added to a SET are left out (`transform.go:423`) |
| the same: `MCLatin1` | `FieldsHoldTheirColumns` | the driver has converted text the plan converts again (`transform.go:481`); `transform_test.go:203` "they are converted using the column's charset", which is right for the binlog |
| the same: `MCDays` | `FieldsHoldTheirColumns` | a DATE is moved by the source's zone like a DATETIME (`transform.go:496`), to the day before in a zone ahead of UTC |
| the same: `MCLatin1Key`, `MCParsedZero`, `MCDateKey` | `SameDocumentEitherWay` | `scanner_test.go:144` "The two sources must produce the same value shapes"; keys are the bytes as delivered, latin1 or UTF-8; a date that is none is year 1 when the DSN says `parseTime=true`, as `Makefile:2` does, and then a key that is a DATE gets a time of day and one with a fraction of a second loses its trailing zeros (`scanner.go:395`) |
| the same: `MCTimes` | `DeadLettersAreDue` | a TIME arrives as text from both sources and is encoded as a number (`transform.go`, `encodeValue`), so every row with one is refused |
| the same: `MCBits`, `MCExcluded` | `KeepsReading` | the bytes of a BIT are parsed as digits (`scanner.go:413`); the scan reads the columns that are left out, too (`scanner.go:73`): either fails the scan at every start |
| the same: `MCSettings` | `FieldsHoldUnchecked` | settings are checked at the start only (`supervisor.go:147`); a row logged under others may lack values |
| `MCSharedReader` / `MCLastError` | `LastErrorKept` | `reserve` and `advance` save the row they loaded, `last_error` included (`checkpoint/mysql.go:209`), over an error recorded in between; README.md:210 "its last error is kept in the checkpoint row" |
| `MCAllocator` / `MCAllocatorShared` | `NeverReissued` | `advance` saves a row it loaded before a reservation (`pipeline/runner.go:281`); a clock step and a restart then repeat versions; `checkpoint/seq.go:24` "Reserved before issued" |
| `MCBinlogPipeline` / `MCBinlogReplay`, plain binlog | `NothingLost` | only an XID event folds a transaction into the position (`source/binlog/streamer.go:202-213`); one that ends with a COMMIT query is replayed alone, with a new version, over a later change |
| `MCBinlogPipeline` / `MCBinlogReplay` | `NoRegress` | a replay takes new versions (`streamer.go:391`), so the destination shows older values until it has caught up; README.md:20 "A replay is harmless" |
| `MCBinlogPipeline` / `MCBinlogReplay` | `PositionNeverMovesBack` | `reserve` saves the row it loaded, position included (`seq.go:92`); `mysql.go:225` avoids this for errors |
| `MCDeadLetters` / `MCTornLine` | `ReadsBack` | the file is appended to whatever it ends with (`sink/dlq/dlq.go:139`), so the record after a torn line cannot be read |

### Bounds

Faults (`MaxFaults`, `MaxCrashes`), rebuilds, log lengths, clock ticks and records are bounded in guards; each bound is a constant whose comment begins with "bound". They are chosen so that the interesting cases occur:

- Batches hold three documents and three or four bytes, and the binlog has documents of several sizes, so a batch is completed by rows, by bytes, by an overflow and by the timer.
- Queues hold one event and blocks of versions two or three, so queues fill and reservations fall between a write and its position.
- Two failures let a failure strike the recovery from another. The binlog has a refused document, a row that cannot be transformed, and an update that moves a row and overflows the batch.
- The scan's last chunk is short; resumed after its last row, it ends with an empty one.
- Two tables, one scanned and one only followed, whose streams start at different positions; the scan reads the source, or a replica that is behind it, by any amount at the first start, or has caught up.
- The cases of `rows` have one or two values per column: one for each branch of a conversion. Integers lie on both sides of the sign bit of their width, a SET has the member the plan knows and one it does not, dates are valid or zero under each policy, or partial. Two or three definitions put a row under a definition older and newer than the cache's and the plan's, with equal and different widths; a log of three events holds a row, a DDL and a row. A type grows in an index that can hold it and in one that cannot. Seven settings that preflight refuses, one by one, are there at the first start or come after it.
- One save of a whole row is enough for it to fall on either side of an error.
- Batches for the sinks have up to five rows and a narrowing depth of four, so that narrowing reaches single rows before it gives up; a request is tried three times.
- Three processes, two with both streams and one with the second alone, so that one can hold a stream that another needs while it waits for one a third has. `Conns` is three, one more than the streams: with two, see above.
- Two streams and two keys are the least with which sharing matters; three streams on two tables give one table two watchers.

No symmetry is used: keys and streams have an order in the code.

### Fairness

Weak fairness of `Progress` in the pipelines, in `RowImages` and in `Lifecycle`: goroutines are scheduled, calls return or time out (every request has a timeout), and a stopped process is started again by its host. Faults are never fair, and their number is bounded, so a liveness property says what happens once failures stop. Weak fairness of `Next` in `Sinks`: requests time out and timers fire. In `SharedReader` each goroutine is fair by itself; a goroutine that waits in a `select` for its context and a channel has strong fairness for the context: each time it may choose the channel, but it does not do so for ever, because Go chooses among ready cases at random. A loaded row is saved in the end, as every call has a timeout. In `StreamLock` a process that ended is started again, each attempt goes on (a lock is granted or its wait times out, `Advance`) unless it waits for a connection, for which the code has no timeout; the server reaps dead sessions and resnapshot ends. Kills, stops, lost answers, connections that die and a new resnapshot are not fair, and may happen without end: `SomeoneRuns` says what follows when they do not.

## Proofs

`AllocatorProofs`. From `AllocatorAssumption` (positive block size, natural bounds):

- `AllocatorTypeOK`: the state stays well typed, whoever shares the row.
- `AllocatorReserves`: when nobody else writes the row (`setting = "alone"`), everything issued or in hand is below the watermark. `ReservedBeforeIssued` alone is not inductive: a block is new only because the watermark loaded is still the watermark when the block is saved, and the next version is above the last one only while the block in hand is. `AllocInv` adds both facts. The lemma `BlockStartIsNew` says that a block starts above all three of its candidates.
- `AllocatorNeverReissues`: the allocator implements `Sequence`, alone with its row on any clock, and beside `advance` and the supervisor, whose saves put an old watermark back, on a clock that moves forward faster than versions are used (`setting # "shared"`). In the second setting the watermark protects nothing, and `PacedInv` says what does: the floor a block starts from. All that is issued, stored or loaded lies within the block in hand or below the floor of the clock (`Covered`), no block reaches further than one that starts at the present floor (`Reach`), and what a stopped process leaves lies within the reach of the moment it stopped, which a restart comes after. In the third setting, shared on any clock, TLC refutes it (`MCAllocatorShared`).

`StreamLockProofs`. From `LockAssumption` (every process wants a nonempty set of streams; processes, `Free`, `Operator` and `Dead` are distinct), for any number of processes, streams and connections:

- `StreamLockOneOwner` and `StreamLockRescanKept`: while no connection has died, no two running processes claim one stream, and a confirmed rescan stays in the row. Neither is inductive. `LockInv` adds that what a process claims it holds at the server (`Owned`), that resnapshot holds its stream between load and save (`OperatorHolds`), that a row loaded and not yet saved belongs to a running process that claims the stream (`SavesItsOwn`), and that no running process claims a stream whose rescan is pending (`AskedIsIdle`). The server grants only a free lock, so a new claim is nobody else's, and a lock left behind by a process that was killed or was not told of it is nobody's claim; starting to run takes all claims out of `asked`.
- `StreamLockTypeOK`, which needs `Unfinished`: a process claims its own streams only, and one that is still locking has a stream left to lock. The lemma `WantedIsLeft` says that the stream it asks for next is one of those: a nonempty set of numbers has a least one (`WFMin` of the library).

`DeliveryProofs`: the batcher. From `LimitsAssumption` (positive limits, as `NewBatcher` demands) and `FlowAssumption`:

- `BatchFlowOrderKept`, by the lemma `AddKeepsOrder`: whichever branch `Add` takes, what it returns followed by what it keeps is what was pending followed by the new document. `BatchFlowTypeOK` comes with it.
- `DeadlineAlwaysOldest`: `DeadlineInv` says that `startedAt` is the arrival of the oldest pending document.
- `BatchFlowWithinLimits`, with the bytes: what the batcher counted is the sum of the sizes it holds, and a batch handed over exceeds `MaxBytes` only if its last document fills a batch by itself. `LimitsInv` adds `DeadlineInv` and the types.

Sums over sequences are recursive functions. What they compute is proved without an induction theorem, by a least counterexample: the set of the lengths at which a statement fails is a set of numbers, so if it is not empty it has a least member (`LeastExists`, from `WFMin` of the library), and at that one the statement holds because it holds one below. The other proofs cite `TotalFacts`.

`DeliveryProofs`: the dead letter files. From `DeadLetterAssumption`, for every file size, number of records and failures:

- `DeadLettersTypeOK`, `DeadLettersOnDisk` and `DeadLettersSizeMatches`. `OnDisk` compares the lines with the acknowledged records and is not inductive: a file that ends in a torn line takes the next record into that line, which gives the record no line of its own. `LettersInv` adds that such a file has one line more than its acknowledged records need.

`DeliveryProofs`: one Write of a sink. From `SinksAssumption`, for both destinations, all batches and any number of attempts, faults and levels of narrowing. The proofs share one abstraction: every step of either sink counts nothing (`CountsNothing`), replaces the call in progress by calls for its halves (`Splits`), or counts some of its documents, some of those as refused, and leaves a call for the rest (`Counts`). `ElasticSteps`, `ClickHouseSteps` and `WriteSteps` show it.

- `SinksOnlyTheRefused`: with no further hypothesis.
- `SinksAccount`, for batches that hold no document twice (`DistinctBatches`; two changes differ in version, the rows of a scan and the two documents of a change in key). `Accounts` counts a set of refused documents, and is kept only because no two waiting calls share a document and none that waits has been reported (`Unshared`).
- `SinksFailOnlyOnFault`, for batches of at most 2^(`MaxDepth` - 1) rows (`DepthSuffices`): 2048 with the code's depth of 12, and `max_rows` is 1000 by default. `PartsFit` says that a part has at most the rows that the levels left to it can narrow to one. With larger batches TLC refutes it (`MCClickHouseMove`).
- `SinksMeetContract`, the refinement of `SinkContract`. `Covered` says that each document of the batch is in a waiting call, reported, or stored at its version or above; `TokensInv` that each part is a contiguous section of the batch, and that the documents of a section whose token ClickHouse knows are stored. Hypotheses: no two documents of a batch share key and version (`UniqueVersions`), so a token tells the sections of a batch apart; and an insert taken before this Write that has the token of a section held its documents (`EarlierTold`), as when a batch is written again. A scan that runs again with the same version, after rows between the first and the last of an insert have gone and others came, breaks that hypothesis, and TLC refutes the property there (`MCClickHouseMove`).

`RunnerProofs` has the lemmas both pipelines need, about the actions of `Runner` alone. A document is somewhere *in the pipe* (`Pipe`: in the channel, being transformed, pending, or in a write) until it is *delivered* (`Delivered`: the destination holds it or a later row of its key, with nothing older under way that could still replace it, or there is a dead letter). `RunnerKeeps` says what every action of the runner preserves while it is healthy: nothing leaves the pipe unless it is delivered. `DeliveredKept` says that a delivered document stays so, which depends on `Ordered`: of two documents of a key in the pipe, the one with the later version is of the later row. `PositionsMove` says that only `handle` notes a position and only `advance`, after the write and its dead letters, records one.

`BinlogPipelineProofs`. From `BinlogAssumption` and the limits:

- `TypeCorrect`, for every binlog.
- `NothingEverLost` and `PositionAlwaysBehind`, for every binlog that is `WellFormed`: the events of a transaction are contiguous, begin with its GTID event, and an XID event, if there is one, is the last; every transaction with rows that another follows has one. The hypothesis is necessary: with a transaction that ends in a COMMIT query `NothingLost` is refuted (`MCBinlogReplay`, plain binlog).

  `StreamInv` is the inductive invariant. The reader's set `executed` is exactly the start position and the transactions whose XID it has passed (`ReaderInv`). Every position under way, recorded, pending, loaded by a reservation or carried by an event, is `Closed`: if it covers a row change it covers every earlier one; they lie between the position of the last start and the reader's, and grow along the channel (`PositionInv`). No position covers a document that is in the pipe behind it (`BehindInv`), versions in use are at most the last one issued and rise with the rows (`IssuedInv`), and what the reader has passed is delivered or in the pipe (`DeliveryInv`). `PositionBehindPipe` alone says nothing of the position that is pending, and `NothingLost` alone nothing of the changes that are not yet covered; and as `reserve` may put an older position back, the position recorded is not the greatest there was, only one that is not below the start.

`ScanPipelineProofs`. From `TableAssumption` and the limits:

- `TypeCorrect`, for every table and chunk size.
- `CursorAlwaysSafe` and `CompleteScansDelivered`, for tables that satisfy `BatchesFit`: a batch of `MaxRows` rows of the largest size fits into `MaxBytes`. The hypothesis is what the finding `scan_overflow` is about: without it a row that carries a cursor can overflow the batch, and TLC refutes both.

  `ScanInv` says that a position in the channel is that of the row it was sent with, and all that follow it are later rows (`CursorInv`), that a batch never has to leave because of its bytes, so a write always takes along everything the runner has (`BatchInv`), that what the scanner has sent is delivered or in the pipe (`DeliveryInv`), and that a chunk shorter than the chunk size ends the table (`ScannerInv`).

`LifecycleProofs`. From `LifecycleAssumption`, for any number of streams, keys, changes, failures and rebuilds:

- `ReadersAlwaysRefreshed`. `RefreshInv` adds that the index of the stream being scanned refreshes before its alias moves.
- `ReadersNeverMiss`, wherever the replica is at the first start. `MissInv` says that, unless a replica that had not reached the position of the scan was scanned (`"lag"`), a row that lasts is in every index a scan has passed its key for, in this run of the process or an earlier one, and is never stored as deleted (`MissRows`). `ScanInv` adds that a scan finishes only after the last key, and that its position is not before the rows of the first start, so a replica that has reached it holds them. Without the exception TLC refutes it (`ReadersNeverMissARow`).
- `CopyAlwaysExact`, where `OnlyFirstScanned`: no stream but the first is scanned. The finding `two_streams` is that it fails otherwise, because versions of changes come from the first stream's allocator. `AllInv` is inductive: the next version is above every version in use (`VersionInv`); positions lie within the log, one in use is not behind the one a stop would fall back to, and while the reader reads, the recorded position of some stream is not beyond it (`PosInv`); an index that is not yet in use is empty (`EmptyInv`); and a document holds a value its row had at a certain position or later (`CopyInv`): while the reader reads, at the reader's; otherwise at the position of some stream, which the reader of the next start is not beyond (`ExactFromOne`); and unless a replay has taken its stream back, at the position its own stream goes on from (`ExactFromOwn`). `ExactFromOne` is false after the rebuild of the stream a cut-off replay started for, which is how that limit was found; TLC then produced the trace (`MCInterruptedReplay`).

`SharedReaderProofs`. From `ReaderAssumption`, for any number of streams, tables and queue sizes:

- `StreamsInOrder`. `FlowInv` adds that the reader's buffer holds consecutive events that end where the reader is (`ChannelInv`), and that a stream was handed every event of its table up to the last one routed, but for that one if it is still to be sent (`HandedAll`). `InOrder` by itself does not say where a queue is in the source, so a send could leave a gap.
- `FailuresReported`. `FirstInv`: while the context lives there is no first error, and one that a failure cancelled has it.
- `RowsTellWhatHappened`. `RowInv`: a stream is blamed only after all were started, and every row of a started stream says whether it failed, except those in `trouble`.

Only model-checked:

- liveness (`Converges`, `ScanCompletes`, `ReadersMove`, `Delivers`, `AllReturn`, `KeepsReading`, `WriteReturns`, `SomeoneRuns`): fairness is out of the prover's reach;
- the invariants of `RowImages` (`FieldsHoldTheirColumns`, `SameDocumentEitherWay`, `DeadLettersAreDue`): the rows of a table are a fold over the columns of its definition, so what they hold is induction over data, and which values survive depends on the cases: those of `MCUnhandled` violate the same properties.

## Refinement

- `Sinks` implements `SinkContract` (`MeetsContract`): every step of a Write, with its requests, splits, retries and tokens, is a step of the contract or leaves it unchanged; `Runner` relies on the contract alone. Proved (`SinksMeetContract`) under the two hypotheses above, and model-checked.
- `Allocator` implements `Sequence` (`NeverReissued`): proved, and model-checked, alone with its row on any clock and with other writers of the row on a clock that only moves forward.

## Not modelled

- The configuration file, but for the order of its streams, and the text of generated schemas: pure functions of a file and a definition, without state.
- The queries that collect settings and definitions, `diagnose`, `validate`, `status` and `tail`: they read and print.
- Metrics, which are only counted, and the limit `/readyz` puts on the age of the last change, a comparison with the clock.
- The bytes of JSON, of requests and of the scan cursor; the rate limiter of the scan.
- `ForceMerge`, which changes no document.
- The refusal to start from positions none of which contains the others (`supervisor/router.go:102-108`), see above.
- Purging of the binlog, and the reconnection inside the replication library. A stream whose table does not change records no position (`pipeline/runner.go:145`), so a purge can overtake it; that needs a model of retention.

## Plan

1. Done: batcher, runner, both pipelines, allocator, sinks, lifecycle, shared reader with readiness and errors, locks, dead letters, values, definitions and preflight.
2. Done: proofs of the safety invariants of the batcher, both pipelines, the allocator, the sinks, the lifecycle, the shared reader, the locks and the dead letter files, and of both refinements.
3. Whole-row saves of all four writers of a checkpoint row in one module, with the columns each owns.
4. Proofs about `RowImages`: first what `Rows` returns for one column, by a least counterexample as for the sums of `DeliveryProofs`.
