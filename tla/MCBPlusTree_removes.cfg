SPECIFICATION Spec
CONSTANTS
  Keys = {1, 2, 3, 4, 5, 6}
  Workloads <- Racing
  MaxOps = 2
INVARIANTS
  SearchFindsStored
CHECK_DEADLOCK FALSE
