SPECIFICATION Spec
CONSTANTS
  Callers = {c1, c2}
  Volumes = {v1}
  Pools = {p1, p2, p3}
  MaySelect <- EveryVolume
  Kinds = {"replicate"}
  Configs <- DefaultConfig
  FaultyVolumes = {}
  NoPool = NoPool
  NoVolume = NoVolume
SYMMETRY Interchangeable
INVARIANT KeepsSyncedReplica
