SPECIFICATION FairSpec
CONSTANTS
  v1 = v1
  v2 = v2
  Volumes = {v1, v2}
  Requests <- Mixed
  StripeSize = 2
  BatchSize = 2
  ChannelCap = 1
  DryRuns = {TRUE, FALSE}
  NoLba = NoLba
  NoRequest = NoRequest
  ListedBefore <- ByNumber
  MaxRequests = 3
  MaxRestarts = 1
CHECK_DEADLOCK FALSE
INVARIANTS RequestsAreKept DestagedIsPersisted 
PROPERTY RequestsAreServed
