SPECIFICATION FairProtocolSpec
CONSTANTS
  MaxRequests = 3
  MaxAhead = 2
  Requests <- MCRequests
  Lookup <- MCLookup
INVARIANTS
  ErrorsOnlyOfMishaps
PROPERTIES
  ImplementsDialogue
  EveryRequestAnswered
CHECK_DEADLOCK FALSE
