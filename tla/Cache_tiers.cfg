SPECIFICATION Spec
CONSTANTS
  k1 = k1
  k2 = k2
  c1 = c1
  c2 = c2
  Callers = {c1, c2}
  Keys = {k1, k2}
  Hash <- OwnHash
  Sizes = {10000, 20000, 26000}
  Ttls = {TRUE}
  L1Capacity = 20000
  HighPercent = 75
  LowPercent = 50
  BatchSize = 1
  L2Capacity = 40000
  MinEntrySize = 15000
  MaxFileSize = 35000
  Configs <- ThreeConfigs
  InL3 <- OneStored
  MaxPuts = 2
  MaxOps = 2
  Word = 1000000
  NoEntry = NoEntry
SYMMETRY Interchangeable
CHECK_DEADLOCK FALSE
INVARIANTS   ExtentsAreDisjoint
