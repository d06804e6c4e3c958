SPECIFICATION Spec
CONSTANTS
  Alphabet = {97, 98}
  NeedleLength = 4
  Total = 6
  TextLength = 4
  Dictionaries <- MCDictionaries
  Texts <- MCTexts
  UseTail = {TRUE, FALSE}
  BreadthFirst = {TRUE, FALSE}
INVARIANTS
  FailsShorten
  FailsAndOutputsNearest
  OnlyOccurrencesInArray
  NeedleFindsItself
  ReportsLongest
