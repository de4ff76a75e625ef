SPECIFICATION DestageSpec
CONSTANTS
  v1 = v1
  v2 = v2
  Host = h
  Threads = {h, d1, d2}
  Volumes = {v1, v2}
  Requests <- Mixed
  Requested <- MixedRanges
  Size = 4
  StripeSize = 2
  DataShards = 2
  ParityShards = 1
  MaxConcurrent = 1
  Modes <- AnyMode
  ChannelCap = 1
  MaxWrites = 3
  AutoCheckpoint = FALSE
  MaxLsn = 8
  MaxGeneration = 8
  MaxRestarts = 1
  NoLoc = NoLoc
  NoCheckpoint = NoCheckpoint
CHECK_DEADLOCK FALSE
INVARIANTS  DestagesAreSound
