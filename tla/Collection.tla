------------------------------ MODULE Collection ------------------------------
(***************************************************************************)
(* What the list promises: a sequence of items that serves as a stack, as  *)
(* a queue, or as an array in ascending order without duplicates.          *)
(***************************************************************************)
EXTENDS Integers, SequencesExt

CONSTANT Values

VARIABLES
  items,    \* what is in the list
  result    \* the value that the last call returned, 0 if none

Init == items = << >> /\ result = 0

Push(v) == items' = Append(items, v) /\ result' = 0

Shift == items # << >> /\ items' = Tail(items) /\ result' = Head(items)

Pop == items # << >> /\ items' = Front(items) /\ result' = Last(items)

RemoveItem(i) == items' = RemoveAt(items, i) /\ result' = 0

Insert(v) ==
  /\ ToSet(items') = ToSet(items) \union {v}
  /\ \A k \in 2..Len(items') : items'[k - 1] < items'[k]
  /\ result' = 0

Reset == items' = << >> /\ result' = 0

Look == result' = 0 /\ UNCHANGED items

Next ==
  \/ \E v \in Values : Push(v) \/ Insert(v)
  \/ \E i \in DOMAIN items : RemoveItem(i)
  \/ Shift \/ Pop \/ Reset \/ Look

Spec == Init /\ [][Next]_<<items, result>>

===============================================================================
