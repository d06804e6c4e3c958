SPECIFICATION Spec
CONSTANTS
  IntMax = 2147483647
  Strings = {s1, s2}
  NULL = NULL
  InitialSize = 2
  MaxSize = 4
INVARIANTS FreeChain
PROPERTIES StringsKept FirstFit
