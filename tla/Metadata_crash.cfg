SPECIFICATION Spec
CONSTANTS
  Threads = {t1}
  Size = 3
  Requested <- Overlapping
  AutoCheckpoint = TRUE
  MaxLsn = 5
  MaxGeneration = 3
  MaxRestarts = 1
  NoLoc = NoLoc
  NoCheckpoint = NoCheckpoint
CHECK_DEADLOCK FALSE
INVARIANTS  RecoveryFindsLast
PROPERTIES  ImplementsStore
