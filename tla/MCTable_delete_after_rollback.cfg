SPECIFICATION Spec
CONSTANTS
  Sessions = {s1}
  Keys = {"k"}
  Clients <- Deleters
  FirstTxn = 2
  LastTxn = 3
  MaxVersions = 3
INVARIANTS
  DeletesTakeEffect
\* the ids run out, and clients may stop
CHECK_DEADLOCK FALSE
