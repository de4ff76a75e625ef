SPECIFICATION Spec
CONSTANTS
  Callers = {c1, c2}
  Known = {"a", "b", "c"}
  Unknown = {"x"}
  Slots = {1, 2}
  Offsets = {1, 2, 3, 4}
  Zeros = zeros
  NoHandle = none
  Names = {v1, v2}
  DeviceLists <- MCLists
  K = 2
  M = 1
  MaxConcurrent = 2
  PoolSize = 2
  MockCodec = FALSE
  MaxCalls = 4
  MaxChanges = 1
SYMMETRY MCSymmetry
CHECK_DEADLOCK FALSE
INVARIANTS WritesAreSafe ToleratesFaults ResourcesAreTracked
