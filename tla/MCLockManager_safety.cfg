SPECIFICATION Spec
CONSTANTS
  Txns = {1, 2, 3}
  Rids = {r1, r2, r3}
INVARIANTS
  LocksAgree
  VictimsAreAsleep
  NoMissedWakeup
  LiveEdgesAreCurrent
  RecordedCyclesAreBroken
  WalkIsReachability
PROPERTIES
  DetectionIsSound
  LockTableSpec
\* every transaction may have ended
CHECK_DEADLOCK FALSE
