SPECIFICATION Spec
CONSTANTS
  IntMax = 1000
  InitialSizes = {1, 2, 3}
  Values = {1, 2, 3, 4, 5, 6}
  QueueValues = {1, 2}
  Uses = {TRUE, FALSE}
  DeleteWhenFull = FALSE
  MaxItems = 5
INVARIANTS TypeOK NoCellLost SortedArray
PROPERTIES ImplementsCollection
