SPECIFICATION FairControllerSpec
CONSTANTS
  c1 = c1
  c2 = c2
  c3 = c3
  p1 = p1
  p2 = p2
  Callers = {c1, c2}
  Volumes = {v1}
  Pools = {p1, p2}
  MaySelect <- EveryVolume
  Kinds = {"replicate", "to_ec"}
  Configs <- DefaultConfig
  FaultyVolumes = {}
  NoPool = NoPool
  NoVolume = NoVolume
  MaxConcurrent = 1
  DryRunPolicies = {c1}
  EcVolumes = {v1}
  TierPools <- HotWarmCold
  High = 3
  Warm = 3
  Low = 1
  IopsValues = {0, 2, 3}
  MaxTotal = 2
INVARIANTS AtMostOneMigrationPerVolume PermitsAreConserved
PROPERTY ReconcileEnds
