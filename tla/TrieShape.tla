------------------------------- MODULE TrieShape -------------------------------
(***************************************************************************)
(* Which cells the trie of a set of words may consist of, each cell named  *)
(* by the characters that lead to it.  A word that lies in the array has a *)
(* cell for every character and one for its end.  With a tail a word may   *)
(* end in a leaf, anywhere behind the characters that it shares with other *)
(* words; where depends on the collisions it met (trie_storeNeedle stores  *)
(* a character that collides in the array, and goes on).                   *)
(*                                                                         *)
(* Module Trie checks that construction yields such cells in whatever      *)
(* order the words come; module Automaton starts from them.                *)
(***************************************************************************)
EXTENDS Integers, SequencesExt

END_OF_TEXT == 3

\* How many characters word shares with the nearest of the other words.
Shared(words, word) ==
  Max({0} \union {Len(LongestCommonPrefix({word, other})) :
                    other \in words \ {word}})

\* Where word may end: at its end of text or, with a tail, in a leaf, with
\* at least one character left for the tail.
EndCells(words, useTail, word) ==
  {Append(word, END_OF_TEXT)}
  \union {SubSeq(word, 1, k) : k \in IF useTail
            THEN Shared(words, word) + 1 .. Len(word) - 1 ELSE {}}

\* The cells of a trie whose words end at ends; the root is << >>.
Nodes(ends) == {<< >>} \union UNION {Prefixes(e) : e \in ends}

===============================================================================
