SPECIFICATION Spec
CONSTANTS
  Keys = {1, 2, 3, 4, 5, 6, 7, 8, 9, 10, 11, 12}
  Workloads <- Mixed
  MaxOps = 3
INVARIANTS
  SearchFindsStored
  ScansAreExact
  FixUpsSucceed
  HighKeysSeparate
  SplitsReachTheRoot
  FileHoldsTheTree
\* the workload runs out
CHECK_DEADLOCK FALSE
