------------------------------ MODULE MCNeedle ------------------------------
(***************************************************************************)
(* A string becomes a needle, is searched in itself, and is returned: the  *)
(* modules Needle and FoundNeedle one after the other.  Which cell the     *)
(* needle will have is chosen at the start.                                *)
(*                                                                         *)
(* The strings are the first and last characters of each length, alone, in *)
(* pairs, and the last ones in threes, and short strings of bytes around   *)
(* every border of the masks.                                              *)
(***************************************************************************)
EXTENDS Needle, FoundNeedle

CONSTANT ByteLength    \* of the longest string of bytes

BorderCharacters ==
  {1, 127, 128, 2047, 2048, 8364, 65535, 65536, 128578, LastCharacter}

LastCharacters == {127, 2047, 65535, LastCharacter}

BorderBytes ==
  {1, 127, 128, 191, 192, 194, 223, 224, 239, 240, 244, 247, 248, 255}

MCWords ==
  UNION {[1..n -> BorderCharacters] : n \in 1..2} \union [1..3 -> LastCharacters]

MCStrings == {<<>>} \union MCWords
MCBytes == UNION {[1..n -> BorderBytes] : n \in 1..ByteLength}

\* Nothing, bytes that continue a character, and one that starts one.
MCBehind == {<<>>, <<128, 128, 128>>, <<0, 127, 240>>}

-----------------------------------------------------------------------------
\* The needle that a text will be returned as; any, if it is none.
WordOf(bytes) ==
  LET same == {w \in Words : Utf8(w) = bytes}
  IN  CHOOSE w \in (IF same = {} THEN Words ELSE same) : TRUE

MCInit == Init /\ word = WordOf(text) /\ FoundInit

\* automaton_returnNeedle is called for what a search has found.
ReturnNeedle == needle = "made" /\ pc = "end" /\ found = word

MCNext ==
  \/ Next /\ UNCHANGED returnVars
  \/ ReturnNeedle /\ FoundNext /\ UNCHANGED vars

MCSpec == MCInit /\ [][MCNext]_<<vars, returnVars>> /\ WF_vars(Next)

=============================================================================
