SPECIFICATION FileSpec
CONSTANTS
  MaxStores = 2
  Dictionaries <- MCDictionaries
INVARIANT FileTypeOK
PROPERTIES
  LoadsLatestOrRefuses
CHECK_DEADLOCK FALSE
