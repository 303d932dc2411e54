SPECIFICATION Spec
CONSTANTS
  Keys = {1, 2, 3, 4, 5, 6, 7, 8, 9, 10, 11, 12}
  Workloads <- Splitting
  MaxOps = 2
INVARIANTS
  FileHoldsTheTree
CHECK_DEADLOCK FALSE
