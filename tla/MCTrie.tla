-------------------------------- MODULE MCTrie --------------------------------
(***************************************************************************)
(* Needles and options for Trie: all short words over an alphabet, and     *)
(* longer ones that begin alike.                                           *)
(***************************************************************************)
EXTENDS Trie

CONSTANTS Alphabet, ShortLength, Part, LongLength

WordsOver(chars, length) == UNION {[1..n -> chars] : n \in 0..length}

MCNeedles ==
  WordsOver(Alphabet, ShortLength)
  \union {<<Min(Alphabet)>> \o w : w \in WordsOver(Part, LongLength - 1)}

BothWithData == [useTail : BOOLEAN, useUserData : {TRUE}]

===============================================================================
