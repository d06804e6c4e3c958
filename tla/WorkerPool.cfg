SPECIFICATION FairSpec
CONSTANTS
  NumWorkers = 2
  MaxJobs = 4
  MaxSpurious = 2
INVARIANTS
  OneOwner
  NoIdleWhileBacklog
PROPERTIES
  ImplementsDispatch
  EveryJobServed
  StopCompletes
