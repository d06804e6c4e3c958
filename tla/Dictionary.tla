------------------------------ MODULE Dictionary ------------------------------
(***************************************************************************)
(* What trie construction promises: a set of words with data.  A word that *)
(* is added is found afterwards, with its data and with every other word   *)
(* and its data as before.  Adding a word that is there already changes at *)
(* most its data: the header does not say whether it does.                 *)
(***************************************************************************)

CONSTANTS Needles, Data

VARIABLES
  words,     \* the dictionary: pairs of a word and its data
  request    \* the call in progress: {} or {<<needle, data>>}

dvars == <<words, request>>

Init == words = {} /\ request = {}

AddNeedle(needle, data) ==
  /\ request = {}
  /\ request' = {<<needle, data>>}
  /\ UNCHANGED words

Return ==
  \E r \in request :
    LET old == {pair \in words : pair[1] = r[1]}
    IN  /\ \/ words' = (words \ old) \union {r}
           \/ old # {} /\ UNCHANGED words
        /\ request' = {}

Next == Return \/ \E n \in Needles, d \in Data : AddNeedle(n, d)

Spec == Init /\ [][Next]_dvars

===============================================================================
