SPECIFICATION Spec
CONSTANTS
  Readers = {r1, r2}
  Stripes = {"s1"}
  DataShards = 2
  ParityShards = 2
  RepairCap = 1
  MaxReads = 2
  MaxLosses = 1
  Base = 8
  Inputs <- MCInputs
  MinSize = 12
  MinRatio = 30
  Bits = 3
  Poly = 3
  Align = 2
  Configs <- MCConfigs
  Contents = {0, 5}
  MaxData = 5
  DmaBytes = {0, 1}
  SizeWidth = 16
  Sizes = {0, 1, 2, 3, 13, 15}
  Blocks = {1, 2, 3, 4}
  BufferSize = 2
  InitialCount = 2
  MaxCapacity = 1
  MaxHeld = 1
CHECK_DEADLOCK FALSE
INVARIANTS  ChunksAreRestored StripesAreRestored BuffersAreSound
