SPECIFICATION FairSpec
CONSTANTS
  NumWorkers = 2
  MaxJobs = 3
  MaxRequests = 1
  ClientTimeout = TRUE
INVARIANTS
  QuietAfterReturn
  ContextsFollowConnections
PROPERTIES
  EveryConnectionServed
  StopReturns
