-------------------------------- MODULE Memory --------------------------------
(***************************************************************************)
(* How the pools of the library grow (src/memory.c).                       *)
(***************************************************************************)
EXTENDS Integers

CONSTANT IntMax    \* INT32_MAX

\* calculateAllocation: half as much again and one, capped.
CalculateAllocation(n) ==
  LET newSize == n + (n + 1) \div 2 + 1
  IN  IF newSize > IntMax THEN IntMax ELSE newSize

===============================================================================
