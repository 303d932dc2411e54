SPECIFICATION Spec
CONSTANTS
  Tables = {0}
  HeapIds = {0, 1}
  NodeIds = {0}
  LastTxn = 2
  MaxLog = 5
  NumFrames = 1
  Exclusive = TRUE
  MaxRestarts = 2
CONSTRAINT Explored
INVARIANTS
  LogIsThreaded
  WALRule
  CommitsAreDurable
  PoolMatchesLog
  BeforeImagesAreCurrent
  RedoRepeatsHistory
  CompensatedOnce
PROPERTIES
  RecoveryIsExact
\* the log and the restarts are bounded
CHECK_DEADLOCK FALSE
