SPECIFICATION Spec
CONSTANTS
  Txns = {1, 2, 3}
  Rids = {r1, r2}
INVARIANTS
  NoUndetectedDeadlock
CHECK_DEADLOCK FALSE
