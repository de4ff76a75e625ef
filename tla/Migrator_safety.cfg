SPECIFICATION Spec
CONSTANTS
  Callers = {c1}
  Volumes = {v1}
  Pools = {p1, p2, p3}
  MaySelect <- EveryVolume
  Kinds = {"replicate", "to_ec", "from_ec"}
  Configs <- AnyConfig
  FaultyVolumes = {v1}
  NoPool = NoPool
  NoVolume = NoVolume
INVARIANTS KeepsSyncedReplica NeverBelowOriginal 
PROPERTIES RegistrationIsExact ModesAreRespected
