-------------------------------- MODULE MCSinks --------------------------------
(* Batches built by the plan from events of four keys.                     *)
EXTENDS Sinks, Plan

Ev(op, before, after, seq) ==
  [op |-> op, before |-> before, after |-> after, seq |-> seq]

\* Elasticsearch: two changes of one key and a delete of another, one change
\* older than what the index may hold, one refused.
ToElastic(ev) == ApplyPlan(ev, "elasticsearch")

MCElasticBatches == {
  ToElastic(Ev("insert", "-", "a", 1)) \o ToElastic(Ev("delete", "b", "-", 3)) \o
  ToElastic(Ev("update", "a", "a", 4)),
  ToElastic(Ev("insert", "-", "a", 3)) \o ToElastic(Ev("insert", "-", "b", 3)),
  ToElastic(Ev("update", "b", "a", 5)) }

\* ClickHouse: inserts, an update in place and a delete, two rows refused; a
\* delete alone; a change of key.
ToClickHouse(ev) == ApplyPlan(ev, "clickhouse")

MCMove == ToClickHouse(Ev("update", "a", "b", 1))
MCClickHouseBatches == {
  ToClickHouse(Ev("insert", "-", "a", 1)) \o ToClickHouse(Ev("insert", "-", "b", 2)) \o
  ToClickHouse(Ev("update", "a", "a", 3)) \o ToClickHouse(Ev("delete", "b", "-", 4)) \o
  ToClickHouse(Ev("insert", "-", "c", 5)),
  ToClickHouse(Ev("delete", "a", "-", 6)),
  MCMove }

MCRefused ==
  {PlanDoc("a", 4, FALSE, "row"), PlanDoc("b", 3, FALSE, "row"),
   PlanDoc("b", 2, FALSE, "row"), PlanDoc("c", 5, FALSE, "row")}
MCNoInsert == <<>>
MCNone == {}

\* An update that moves a row to another key, alone.
MCMoveOnly == {MCMove}

\* A scan that was interrupted after an insert and before its cursor was
\* recorded.  Row b was deleted in between, so the scan now reads a, c and d;
\* every row of a scan carries the same version.
MCScanned ==
  ToClickHouse(Ev("snapshot", "-", "a", 1)) \o ToClickHouse(Ev("snapshot", "-", "b", 1)) \o
  ToClickHouse(Ev("snapshot", "-", "c", 1))
MCRescan == {
  ToClickHouse(Ev("snapshot", "-", "a", 1)) \o ToClickHouse(Ev("snapshot", "-", "c", 1)) \o
  ToClickHouse(Ev("snapshot", "-", "d", 1)) }
================================================================================
