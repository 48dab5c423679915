------------------------------ MODULE RowImages ------------------------------
(***************************************************************************)
(* One row of one table on its way into a document, while the table's      *)
(* definition changes: the source's settings and what they leave out of    *)
(* the binlog (internal/preflight), the cache of definitions               *)
(* (internal/schema, store.go), the alignment of row events with it        *)
(* (internal/source/binlog, streamer.go), the scanner's rows               *)
(* (internal/source/snapshot, scanner.go) and the plan, compiled once at   *)
(* the start (internal/supervisor, build.go; internal/pipeline,            *)
(* transform.go), when the index is compared with what the stream will     *)
(* write (internal/sink/elasticsearch, validate.go).                       *)
(*                                                                         *)
(* A definition is a sequence of columns, the key first.  The table goes   *)
(* through the definitions of its case, and a definition is known by its   *)
(* number there.  A row is read and becomes a document in one step, and    *)
(* Outcome is that document: batches, positions and versions are other     *)
(* modules' business.                                                      *)
(***************************************************************************)
EXTENDS Values, FiniteSets

CONSTANTS
  Cases,      \* a sequence of what surrounds the row: [shapes, excluded, index,
              \*   statements, globals, serverID, parseTime, zeroDate, zone, dialect]
  MaxLog,     \* bound: length of the log
  MaxCrashes  \* bound: crashes in one behaviour

ASSUME RowImagesAssumption ==
  /\ MaxLog \in Nat /\ MaxCrashes \in Nat
  /\ \A x \in Range(Cases) : \A i \in DOMAIN x.shapes : x.shapes[i] # <<>>

VARIABLES
  case,     \* the number in Cases of what surrounds the row
  setting,  \* the number in Case.globals of the source's global variables now
  shape,    \* the table's definition now
  row,      \* its row: stored values, or Absent
  log,      \* the binlog: row events and statements
  mapping,  \* the fields of the index, with their types
  proc,     \* "down", "scan" or "stream"
  plan,     \* the definition the plan was compiled from
  cache,    \* the cached definition, 0 for none
  rpos,     \* events read
  saved,    \* the position that is recorded
  scanned,  \* the scan is recorded as done
  last,     \* the last row event, the definition it was aligned with and the plan
  crashes

sourceVars == <<case, setting, shape, row, log, mapping>>
vars == <<sourceVars, proc, plan, cache, rpos, saved, scanned, last, crashes>>

Absent == <<>>
Nothing == [event |-> [op |-> "none"], shape |-> 0, plan |-> 0]

Case == Cases[case]
Def(n) == Case.shapes[n]
Settings == Case.globals[setting]
ColumnAt(def, name) == SelectInSeq(def, LAMBDA c : c.name = name)

\* The rows a definition allows; no server stores what it does not hold.
Rows(def) ==
  FoldLeft(LAMBDA rs, c : {Append(r, v) : r \in rs, v \in c.holds}, {Absent}, def)

Init ==
  /\ case \in DOMAIN Cases /\ setting \in DOMAIN Case.globals
  /\ shape = 1 /\ row \in {Absent} \cup Rows(Def(1)) /\ log = <<>>
  /\ mapping = Case.index
  /\ proc = "down" /\ plan = 0 /\ cache = 0 /\ rpos = 0 /\ saved = 0
  /\ scanned = FALSE /\ last = Nothing /\ crashes = 0

-----------------------------------------------------------------------------
(* preflight                                                                 *)

\* atLeastVersion: two versions, compared number by number.
AtLeastVersion(got, min) ==
  LET differ == {i \in DOMAIN min : i \notin DOMAIN got \/ got[i] # min[i]}
  IN  differ # {} => LET i == Min(differ) IN i \in DOMAIN got /\ got[i] > min[i]

\* serverCheck, partialJSONCheck, serverIDCheck, grantCheck.  A server that does
\* not know binlog_row_value_options has nothing to refuse.
ServerFit(s) ==
  /\ s.flavor # "mariadb" /\ AtLeastVersion(s.version, <<8, 0, 1>>)
  /\ s.binlog_row_value_options \in {"", "unsupported"}
  /\ s.server_id # 0
  /\ {"REPLICATION SLAVE", "REPLICATION CLIENT", "SELECT"} \subseteq s.grants
       \/ "ALL PRIVILEGES" \in s.grants

\* A mutant: the row metadata is not asked for.
EvaluateWithoutMetadata(s) ==
  /\ s.log_bin = "ON" /\ s.binlog_format = "ROW" /\ s.binlog_row_image = "FULL"
  /\ s.gtid_mode = "ON" /\ ServerFit(s)

\* Evaluate, Report.OK: every required check; those that are advisory (the
\* consistency of GTIDs, retention, the updates of a replica) never refuse.
Evaluate(s) ==
  /\ s.log_bin = "ON" /\ s.binlog_format = "ROW" /\ s.binlog_row_image = "FULL"
  /\ s.binlog_row_metadata = "FULL" /\ s.gtid_mode = "ON" /\ ServerFit(s)

-----------------------------------------------------------------------------
(* The source                                                                *)

Room == Len(log) < MaxLog

\* What the log keeps of a row: only full images have the columns that did not
\* change, and only documents that are logged in full can be told from changes.
\* Generated columns are in none.
Image(new, old) ==
  [i \in DOMAIN new |->
     CASE Def(shape)[i].generated -> Null
       [] i > 1 /\ old # Absent /\ Settings.binlog_row_image # "FULL"
            /\ new[i] = old[i] -> Null
       [] old # Absent /\ new[i][1] = "json" /\ new[i] # old[i]
            /\ Settings.binlog_row_value_options = "PARTIAL_JSON" -> <<"diff", new[i][2]>>
       [] OTHER -> new[i]]

\* A logged change, or the statement that made it.
Logged(op, before, after) ==
  log' = Append(log,
    IF Settings.binlog_format = "ROW"
      THEN [kind |-> "row", op |-> op, before |-> before, after |-> after,
            values |-> IF op = "delete" THEN row ELSE row', shape |-> shape,
            names |-> Settings.binlog_row_metadata = "FULL", sound |-> Evaluate(Settings)]
      ELSE [kind |-> "statement", ddl |-> FALSE, mentions |-> {}, any |-> FALSE])

ReaderUnchanged == UNCHANGED <<mapping, proc, plan, cache, rpos, saved, scanned, last, crashes>>

Insert ==
  /\ Room /\ row = Absent
  /\ row' \in Rows(Def(shape))
  /\ Logged("insert", Absent, Image(row', Absent))
  /\ UNCHANGED <<case, setting, shape>> /\ ReaderUnchanged

Update ==
  /\ Room /\ row # Absent
  /\ row' \in {r \in Rows(Def(shape)) : r # row /\ r[1] = row[1]}
  /\ Logged("update", Image(row, Absent), Image(row', row))
  /\ UNCHANGED <<case, setting, shape>> /\ ReaderUnchanged

Delete ==
  /\ Room /\ row # Absent
  /\ row' = Absent
  /\ Logged("delete", Image(row, Absent), Absent)
  /\ UNCHANGED <<case, setting, shape>> /\ ReaderUnchanged

\* DDL on the table: its row keeps the columns that stay.  The statement names
\* the table, and perhaps another watched table whose name is part of it.
Alter ==
  /\ Room /\ shape < Len(Case.shapes)
  /\ shape' = shape + 1
  /\ row' = IF row = Absent THEN Absent
            ELSE [i \in 1..Len(Def(shape + 1)) |->
                    LET at == ColumnAt(Def(shape), Def(shape + 1)[i].name)
                    IN  IF at = 0 THEN Null ELSE row[at]]
  /\ \E others \in SUBSET {"other"} :
       log' = Append(log, [kind |-> "statement", ddl |-> TRUE,
                           mentions |-> {"this"} \cup others, any |-> FALSE])
  /\ UNCHANGED <<case, setting>> /\ ReaderUnchanged

\* The source is configured anew, after the process checked it or before.
SetGlobal ==
  /\ setting < Len(Case.globals)
  /\ setting' = setting + 1
  /\ UNCHANGED <<case, shape, row, log>> /\ ReaderUnchanged

\* Any other statement that reaches the log.
Statement ==
  /\ Room
  /\ \E s \in Case.statements : log' = Append(log, s)
  /\ UNCHANGED <<case, setting, shape, row>> /\ ReaderUnchanged

-----------------------------------------------------------------------------
(* The start                                                                 *)

\* checkSource: the reader needs an id of its own.
CheckSource == Evaluate(Settings) /\ Settings.server_id # Case.serverID

\* SelectColumns: the columns that are mapped, by their place.
Selected(def) ==
  {i \in DOMAIN def : def[i].name \notin Case.excluded /\ ~def[i].generated}

\* Compile: a key, columns that are there to be left out, and columns that can
\* be represented.
Compiles(def) ==
  /\ 1 \in Selected(def) /\ \A name \in Case.excluded : ColumnAt(def, name) # 0
  /\ \A i \in Selected(def) :
       MapKind(def[i]) # "none" /\ CharsetNeedsConversion(def[i]) # "none"

\* ExpectedElasticsearchFields: what the stream will write.
ExpectedFields(def) == {<<def[i].name, ElasticType(def[i])>> : i \in Selected(def)}

\* validateDestination, ValidateMapping: every field is in the index, with a
\* type that can hold it.  A table of ClickHouse is not looked at.
ValidateMapping(def) ==
  Case.dialect = "elasticsearch" =>
    \A want \in ExpectedFields(def) :
      \E field \in mapping : field[1] = want[1] /\ TypesCompatible(want[2], field[2])

Starts == CheckSource /\ Compiles(Def(shape)) /\ ValidateMapping(Def(shape))

\* The operator applies the mapping that generate-schema writes for the table:
\* fields can be added to an index, and none of them changed.
ApplyMapping ==
  LET missing == {f \in ExpectedFields(Def(shape)) : \A g \in mapping : f[1] # g[1]}
  IN  /\ Case.dialect = "elasticsearch" /\ Compiles(Def(shape)) /\ missing # {}
      /\ mapping' = mapping \cup missing
      /\ UNCHANGED <<case, setting, shape, row, log, proc, plan, cache, rpos, saved,
                     scanned, last, crashes>>

\* Run: check the source, load the definition through the empty cache, compile
\* the plan and look at the index; scan if that is not recorded as done.
Start ==
  /\ proc = "down" /\ Starts
  /\ plan' = shape /\ cache' = shape
  /\ proc' = IF scanned THEN "stream" ELSE "scan"
  /\ rpos' = saved
  /\ UNCHANGED <<sourceVars, saved, scanned, last, crashes>>

Stopped == proc' = "down" /\ plan' = 0 /\ cache' = 0 /\ rpos' = saved

Crash ==
  /\ proc # "down" /\ crashes < MaxCrashes
  /\ crashes' = crashes + 1
  /\ Stopped
  /\ UNCHANGED <<sourceVars, saved, scanned, last>>

-----------------------------------------------------------------------------
(* Plan.Apply                                                                *)

\* A mutant: a row must have exactly the columns of the plan.
CheckWidthExactly(values, def) == Len(values) = Len(def)

\* checkWidth.
CheckWidth(values, def) == Len(values) >= Len(def)

\* encodeFields: the document's fields, by the names of their columns.
EncodeFields(def, places, values) ==
  [name \in {def[i].name : i \in places} |->
     LET i == ColumnAt(def, name) IN EncodeValue(def[i], values[i], Case)]

Written(key, fields) ==
  IF key = Err \/ \E name \in DOMAIN fields : fields[name] = Err
    THEN <<"dead", 0>>
    ELSE <<"doc", [key |-> key, fields |-> fields]>>

\* Apply: what an event becomes, <<"dead", 0>> when it cannot become a document.
\* A delete has the key's field for ClickHouse and none for Elasticsearch.
Apply(op, before, after, def) ==
  LET values == IF op = "delete" THEN before ELSE after
      places == CASE op # "delete" -> Selected(def)
                  [] op = "delete" /\ Case.dialect = "clickhouse" -> {1}
                  [] OTHER -> {}
  IN  IF ~CheckWidth(values, def) \/ (op = "update" /\ ~CheckWidth(before, def))
        THEN <<"dead", 0>>
        ELSE Written(KeyString(values[1]), EncodeFields(def, places, values))

-----------------------------------------------------------------------------
(* The scanner                                                               *)

\* chunkQuery, scanRow: the values of a row, in the places of the plan's
\* definition; Err in the place of one that cannot be read and of a column that
\* is gone, which fails the SELECT of an empty table too.
ScannedRow(values, now, def) ==
  [i \in DOMAIN def |->
     LET at == ColumnAt(now, def[i].name)
     IN  CASE def[i].generated -> Null
           [] ~def[i].generated /\ at = 0 -> Err
           [] ~def[i].generated /\ at # 0 /\ values = Absent -> Null
           [] OTHER -> ToEventValue(def[i], FromDriver(now[at], values[at], Case.parseTime))]

ScanError(values, now, def) ==
  \E i \in DOMAIN def : ScannedRow(values, now, def)[i] = Err

Scanned(values, now, def) ==
  IF ScanError(values, now, def) THEN <<"failed", 0>>
  ELSE Apply("snapshot", Absent, ScannedRow(values, now, def), def)

\* The scan reads the row, if it is there, and is done.
ScanRow ==
  /\ proc = "scan"
  /\ ~ScanError(row, Def(shape), Def(plan))
  /\ last' = IF row = Absent THEN last
             ELSE [event |-> [op |-> "snapshot", values |-> row, shape |-> shape, sound |-> TRUE],
                   shape |-> shape, plan |-> plan]
  /\ proc' = "stream" /\ scanned' = TRUE
  /\ UNCHANGED <<sourceVars, plan, cache, rpos, saved, crashes>>

\* The scan fails and Run with it.
ScanFails ==
  /\ proc = "scan"
  /\ ScanError(row, Def(shape), Def(plan))
  /\ Stopped
  /\ UNCHANGED <<sourceVars, saved, scanned, last, crashes>>

-----------------------------------------------------------------------------
(* The binlog reader                                                         *)

Reading(kind) == proc = "stream" /\ rpos < Len(log) /\ log[rpos + 1].kind = kind

\* invalidate: of the watched tables the statement mentions, the first one in
\* the order of a map.
ReadStatement ==
  /\ Reading("statement")
  /\ LET s == log[rpos + 1]
     IN  CASE ~s.ddl -> UNCHANGED cache
           [] s.ddl /\ s.mentions # {} ->
                \E t \in s.mentions : cache' = IF t = "this" THEN 0 ELSE cache
           [] OTHER -> cache' = IF s.any THEN 0 ELSE cache
  /\ rpos' = rpos + 1
  /\ UNCHANGED <<sourceVars, proc, plan, saved, scanned, last, crashes>>

\* A row event as the binlog client decodes it.
Decoded(values, e) ==
  [i \in DOMAIN values |-> FromBinlog(Def(e.shape)[i], values[i], e.names)]

\* Store.Table: the cached definition, else the one the table has now.
Cached == IF cache = 0 THEN shape ELSE cache

\* alignment: rows of the cached width, or else of the reloaded one, are taken
\* as they are.
Direct(def) == Len(def) \in {Len(Def(Cached)), Len(Def(shape))}

\* A mutant: rows are aligned by place.
AlignedByPlace(values, from, to) ==
  [i \in DOMAIN to |-> IF i \in DOMAIN values THEN values[i] ELSE Null]

\* alignment.row: the values by the names of their columns, in the places of
\* the reloaded definition.
AlignedByName(values, from, to) ==
  [i \in DOMAIN to |->
     LET at == ColumnAt(from, to[i].name) IN IF at = 0 THEN Null ELSE values[at]]

Aligned(values, from, to) ==
  IF values = Absent \/ from = to THEN values ELSE AlignedByName(values, Def(from), Def(to))

\* alignment fails when the row's width is neither and its columns are not named.
Unaligned(e) == ~Direct(Def(e.shape)) /\ ~e.names

\* A row event is aligned, becomes a document and is recorded, or not yet.
ReadRow ==
  /\ Reading("row") /\ ~Unaligned(log[rpos + 1])
  /\ LET e == log[rpos + 1]
     IN  /\ cache' = IF Len(Def(e.shape)) = Len(Def(Cached)) THEN Cached ELSE shape
         /\ last' = [event |-> e, shape |-> IF Direct(Def(e.shape)) THEN e.shape ELSE shape,
                     plan |-> plan]
  /\ rpos' = rpos + 1
  /\ saved' \in {saved, rpos}
  /\ UNCHANGED <<sourceVars, proc, plan, scanned, crashes>>

\* What became of the last row.
Outcome ==
  LET e == last.event
      AlignedRow(values) == Aligned(Decoded(values, e), e.shape, last.shape)
  IN  CASE e.op = "none" -> <<"none", 0>>
        [] e.op = "snapshot" -> Scanned(e.values, Def(e.shape), Def(last.plan))
        [] OTHER -> Apply(e.op, AlignedRow(e.before), AlignedRow(e.after), Def(last.plan))

\* The reader cannot align a row and fails, and Run with it.
ReadFails ==
  /\ Reading("row") /\ Unaligned(log[rpos + 1])
  /\ Stopped
  /\ UNCHANGED <<sourceVars, saved, scanned, last, crashes>>

\* Everything is read, or the process refuses to start.
Waiting ==
  /\ (proc = "stream" /\ rpos = Len(log)) \/ (proc = "down" /\ ~Starts)
  /\ UNCHANGED vars

Progress == Start \/ ScanRow \/ ScanFails \/ ReadStatement \/ ReadRow \/ ReadFails

Next ==
  \/ Insert \/ Update \/ Delete \/ Alter \/ Statement \/ SetGlobal \/ ApplyMapping
  \/ Progress \/ Crash \/ Waiting

Spec == Init /\ [][Next]_vars

\* Calls return, and a process that stopped is started again.
FairSpec == Spec /\ WF_vars(Progress)

-----------------------------------------------------------------------------
\* The plan's columns are those of the row, as far as both go: nothing was put
\* before them, renamed or changed since it was compiled, but for labels added
\* to an ENUM, whose members the plan does not take for others.
PlanFits ==
  \A i \in DOMAIN Def(last.plan) \cap DOMAIN Def(last.shape) :
    LET p == Def(last.plan)[i]
        c == Def(last.shape)[i]
    IN  /\ p.name = c.name /\ p.type = c.type
        /\ IF c.type = "enum" THEN IsPrefix(p.labels, c.labels) ELSE p.labels = c.labels

\* The document has in every field what the row holds in the field's column.
FieldsRight ==
  LET def    == Def(last.event.shape)
      fields == Outcome[2].fields
  IN  \A name \in DOMAIN fields :
        LET at == ColumnAt(def, name)
        IN  fields[name] =
              IF at = 0 THEN Null ELSE Meaning(def[at], last.event.values[at], Case)

WroteDocument == Outcome[1] = "doc"

\* Every field of a document holds what its own column held in the row, by the
\* types' rules: for rows read by the scan and from the binlog, written before
\* and after changes of the table's definition, and read again after a crash,
\* as long as the plan fits the definition the row has and the row was logged
\* under the settings that preflight requires.
FieldsHoldTheirColumns ==
  WroteDocument /\ last.event.sound /\ PlanFits => FieldsRight

\* The same however the definition changed under the plan, which is what
\* README.md:291 says of adding a column: "columns are matched by name".
MatchedByName == WroteDocument /\ last.event.sound => FieldsRight

\* The same, however the row was logged: with settings that changed after
\* preflight had looked at them.
FieldsHoldUnchecked == WroteDocument /\ PlanFits => FieldsRight

\* What Apply makes of the row from the binlog.
Streamed(values, n) ==
  LET e == [names |-> TRUE, shape |-> n]
  IN  Apply("insert", Absent,
            Decoded([i \in DOMAIN values |->
                       IF Def(n)[i].generated THEN Null ELSE values[i]], e), Def(n))

\* The scan and the binlog agree on every row: they make the same document of
\* it, under the same key, and what one cannot represent the other refuses too.
SameDocumentEitherWay ==
  row # Absent /\ Starts =>
    Scanned(row, Def(shape), Def(shape)) = Streamed(row, shape)

\* A row goes to the dead letters only for a reason: it holds a date that the
\* configuration says to refuse, or the table changed under the plan: in the
\* definition the row was aligned with, a column of the plan is gone, or is not
\* what it was.
DeadLettersAreDue ==
  Outcome[1] = "dead" /\ last.event.sound =>
    LET logged == Def(last.event.shape)
        now    == Def(last.shape)
        old    == Def(last.plan)
    IN  \/ \E i \in DOMAIN logged : Meaning(logged[i], last.event.values[i], Case) = Err
        \/ \E i \in DOMAIN old : i \notin DOMAIN now \/ now[i] # old[i]

\* Whatever happens to the table, the reader gets to the end of the log, unless
\* the process stopped and refuses to start again, as it does when the index
\* lacks a column that was added, or rows were logged under other settings.
KeepsReading ==
  <>[](\/ proc = "stream" /\ rpos = Len(log)
       \/ proc = "down" /\ ~Starts
       \/ \E i \in DOMAIN log : log[i].kind = "row" /\ ~log[i].sound)
==============================================================================
