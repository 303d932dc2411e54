SPECIFICATION Spec
CONSTANTS
  Tables = {0}
  HeapIds = {0}
  NodeIds = {}
  LastTxn = 2
  MaxLog = 6
  NumFrames = 1
  Exclusive = FALSE
  MaxRestarts = 1
PROPERTIES
  CommittedChangesSurvive
\* the log and the restarts are bounded
CHECK_DEADLOCK FALSE
