SPECIFICATION Spec
CONSTANTS
  Sessions = {s1, s2}
  Keys = {"k"}
  Clients <- AllClients
  FirstTxn = 2
  LastTxn = 4
  MaxVersions = 4
INVARIANTS
  SnapshotsAccountForActive
  WritersExclude
  
  ScansAreConsistent
PROPERTIES
  ImplementsSnapshotStore
  UsesLockTable
  TombstonesAreFinal
  VisibilityIsStable
SYMMETRY SessionSymmetry
\* the ids run out, and clients may stop
CHECK_DEADLOCK FALSE
