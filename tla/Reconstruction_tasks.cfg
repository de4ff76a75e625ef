SPECIFICATION FairSpec
CONSTANTS
  Volumes = {"v1", "v2"}
  Policies = {"p"}
  Callers = {c1, c2}
  Specs <- MCSpecs
  InitialSpec <- TwoPlusOne
  Ranges <- MCRanges
  Starts <- MCStarts
  Healths <- MCHealths
  Wants <- MCWants
  Registered <- MCRegistered
  InitialObjects <- MCObjects
  MaxConcurrent = 1
  ChannelCap = 1
  MaxTasks = 2
  MaxCalls = 2
  MaxChanges = 1
  NoTask = none
  NoSpec = unknown
SYMMETRY MCSymmetry
CHECK_DEADLOCK FALSE
INVARIANTS TasksAreTracked DegradedReadsAreRepaired DecodedAsEncoded
PROPERTY QueuedTasksEnd
