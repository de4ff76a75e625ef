SPECIFICATION Spec
CONSTANTS
  Askers = {a1, a2}
  Watched = {"v1"}
  Metrics = 2
  CacheTtl = 1
  QueryTimeout = 1
  MaxTime = 4
  MaxAsks = 3
  EcPolicies = {"e1"}
  Referrers = {"p1", "p2"}
  EcStripes = {"s1", "s2"}
  Specs <- MCSpecs
  NoPolicy = "-"
  MaxWatched = 2
  MaxEdits = 2
  MaxErrors = 1
  Recorders = {r1, r2}
  Kinds = {"io", "volume", "processor", "reader", "compression", "destage", "zns", "cache", "histogram"}
  MaxRecords = 2
  Threads = {t1, t2}
  Series = {"a", "b"}
  MaxIncs = 4
  Numbers = {0, 1, 2, 30, 100000}
  Characters = {"h", "m", "s", "d", "x"}
  MaxTokens = 4
  Width = 100000
  LabelValues = {"hot", "cold"}
  Expressions <- MCExpressions
  MaxPools = 2
  MapTasks = {m1, m2}
  MapKeys = {0, 1, 2}
  ShardCount = 2
  MaxSize = 2
  MapWidth = 16
  MaxMapCalls = 4
CHECK_DEADLOCK FALSE
INVARIANTS  CountsAreSound RulesAreKept
PROPERTIES ScoresAreRecent PoliciesSettle
