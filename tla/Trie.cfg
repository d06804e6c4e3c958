SPECIFICATION Spec
CONSTANTS
  Alphabet = {4, 5, 6}
  ShortLength = 2
  Part = {4, 5}
  LongLength = 3
  Needles <- MCNeedles
  Empty = Empty
  Data = {Empty, d1}
  Options <- BothWithData
  MaxAdds = 3
INVARIANTS TypeOK DoubleArray TailLinks ShapeOfWords
PROPERTIES ImplementsDictionary
CHECK_DEADLOCK FALSE
