SPECIFICATION Spec
CONSTANTS
  Alphabet = {97, 98}
  NeedleLength = 3
  Total = 4
  TextLength = 5
  Dictionaries <- OneInside
  Texts <- ThreeAndOneInside
  UseTail = {FALSE}
  BreadthFirst = {TRUE}
INVARIANT ReturnsEveryNeedle
