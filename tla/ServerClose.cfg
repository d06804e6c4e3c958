SPECIFICATION FairSpec
CONSTANTS
  NumWorkers = 2
  MaxJobs = 2
  MaxRequests = 1
  ClientTimeout = TRUE
PROPERTY
  ConnectionsEndAlone
