SPECIFICATION FairSpec
CONSTANTS
  InitialSize = 4
  IntMax = 2147483647
  MaxIndex = 8
  Bases = {1}
  Parents = {1}
INVARIANTS
  FreeRing
  FoundIsFirst
PROPERTIES
  UsedCellsKept
  WalksEnd
