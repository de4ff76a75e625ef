SPECIFICATION Spec
CONSTANTS
  d1 = d1
  d2 = d2
  Devices = {d1, d2}
  ZonesOf <- TwoDevices
  Writers = {w1}
  Collectors = {g1}
  ZoneSize = 8
  WriteAlignment = 2
  MaxOpenZones = 2
  DataSizes = {3, 5}
  Strategies <- AllStrategies
  GarbagePercent = 100
INVARIANTS LiveStripesAreSafe ValidStripesAreLive OpenZonesAreListed
