SPECIFICATION FairSpec
CONSTANTS
  Kinds = {"elasticsearch", "clickhouse"}
  ElasticBatches <- MCElasticBatches
  ClickHouseBatches <- MCClickHouseBatches
  Earlier <- MCNoInsert
  Refused <- MCRefused
  Keys = {"a", "b", "c", "d"}
  MaxAttempts = 3
  MaxDepth = 4
  MaxFaults = 3
INVARIANTS Accounts OnlyTheRefused FailsOnlyOnFault
PROPERTIES MeetsContract WriteReturns
