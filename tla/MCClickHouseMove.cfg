\* Violated too, with ClickHouseBatches <- MCClickHouseBatches:
\*   OnlyTheRefusedEver, and with Refused <- MCRefused and MaxDepth = 2 FailsOnlyOnFault;
\* with ClickHouseBatches <- MCRescan and Earlier <- MCScanned: PROPERTY MeetsContract.
SPECIFICATION FairSpec
CONSTANTS
  Kinds = {"clickhouse"}
  ElasticBatches <- MCElasticBatches
  ClickHouseBatches <- MCMoveOnly
  Earlier <- MCNoInsert
  Refused <- MCNone
  Keys = {"a", "b", "c", "d"}
  MaxAttempts = 2
  MaxDepth = 4
  MaxFaults = 3
INVARIANT EveryBatchIsWritable
