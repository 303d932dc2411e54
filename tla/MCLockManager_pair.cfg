SPECIFICATION PatientSpec
CONSTANTS
  Txns = {1, 2}
  Rids = {r1, r2}
INVARIANTS
  NoUndetectedDeadlock
PROPERTIES
  CallsReturn
CHECK_DEADLOCK FALSE
