SPECIFICATION MCSpec
CONSTANTS
  ByteLength = 3
  Strings <- MCStrings
  Bytes <- MCBytes
  Behind <- MCBehind
  Words <- MCWords
  UseTail = TRUE
INVARIANTS
  DecodesUtf8
  MadeOfWholeCharacters
  StaysInAllocation
  ReturnsCharactersOfCell
PROPERTIES
  SearchReadsNeedle
CHECK_DEADLOCK FALSE
