------------------------------ MODULE FoundNeedle ------------------------------
(***************************************************************************)
(* The string of an occurrence in mode NEEDLE: automaton_returnNeedle of   *)
(* src/ac.c.  It climbs from the cell that automaton_createOccurrence was  *)
(* given to the root to measure the characters on the way, adds up the     *)
(* tail, allocates, and goes both ways again to fill in what it measured.  *)
(*                                                                         *)
(* The cell is the leaf of a needle that ends in a tail, and the cell of   *)
(* END_OF_TEXT, one below the last character, of any other (endState in    *)
(* both searches).  A cell is named by the characters that lead to it, as  *)
(* in Automaton; climbing leaves the last of them out.                     *)
(***************************************************************************)
EXTENDS Utf8, TrieShape

CONSTANTS
  Words,     \* needles that are found, as characters
  UseTail    \* whether the automaton has a tail

ASSUME FoundNeedleAssumption ==
  /\ Words \subseteq Seq(1..LastCharacter) \ {<<>>}
  /\ UseTail \in BOOLEAN

VARIABLES
  word,                     \* the needle found
  way,                      \* the characters that lead to its cell
  suffix,                   \* of its TailCell; <<>> where there is none
  doing,                    \* the loop that runs, or "returned"
  depth,                    \* of the cell the climb has reached; the root has 0
  tailCharIndex,            \* i in the loops over the tail
  trieLength, tailLength,   \* bytes counted
  start,                    \* where the next character is filled in
  string                    \* the bytes of the FoundNeedle, from 1 on

counters == <<depth, tailCharIndex, trieLength, tailLength>>
returnVars == <<word, way, suffix, doing, counters, start, string>>

Unwritten == -1    \* a byte as malloc left it

FoundInit ==
  /\ word \in Words
  /\ way \in EndCells({word}, UseTail, word)
  /\ suffix = SubSeq(word, Len(way) + 1, Len(word))
  /\ doing = "trieLength" /\ depth = Len(way) /\ tailCharIndex = 0
  /\ trieLength = 0 /\ tailLength = 0 /\ start = 0 /\ string = <<>>

LengthAt(chars, i) == UnicodeLength(chars[i])

\* unicodeToUtf8 of a character, behind the first n bytes.  What is written
\* behind the allocated bytes is written all the same.
Put(char, n) ==
  LET bytes == UnicodeToUtf8(char, UnicodeLength(char))
      places == n + 1 .. n + UnicodeLength(char)
  IN  string' = [p \in DOMAIN string \union places |->
                   IF p \in places THEN bytes[p - n] ELSE string[p]]

-----------------------------------------------------------------------------
(* The two loops that measure *)

\* A round of automaton_returnNeedle_trieLength, and its end.
MeasureTrie ==
  /\ doing = "trieLength"
  /\ \/ /\ depth > 0
        /\ trieLength' = trieLength + LengthAt(way, depth)
        /\ depth' = depth - 1
        /\ UNCHANGED doing
     \/ /\ depth = 0
        /\ doing' = "tailLength"
        /\ UNCHANGED <<depth, trieLength>>
  /\ UNCHANGED <<word, way, suffix, tailCharIndex, tailLength, start, string>>

\* A round of automaton_returnNeedle_tailLength; a cell without a tail has no
\* characters to go round for.
MeasureTail ==
  /\ doing = "tailLength" /\ tailCharIndex < Len(suffix)
  /\ tailLength' = tailLength + LengthAt(suffix, tailCharIndex + 1)
  /\ tailCharIndex' = tailCharIndex + 1
  /\ UNCHANGED <<word, way, suffix, doing, depth, trieLength, start, string>>

\* safeAlloc, and the beginning of automaton_returnNeedle_tailFill.
Allocate ==
  /\ doing = "tailLength" /\ tailCharIndex = Len(suffix)
  /\ string' = [p \in 1..trieLength + tailLength |-> Unwritten]
  /\ doing' = "tailFill" /\ tailCharIndex' = 0 /\ start' = trieLength
  /\ UNCHANGED <<word, way, suffix, depth, trieLength, tailLength>>

-----------------------------------------------------------------------------
(* The two loops that fill in *)

\* A round of automaton_returnNeedle_tailFill, and its end.
FillTail ==
  /\ doing = "tailFill"
  /\ \/ /\ tailCharIndex < Len(suffix)
        /\ Put(suffix[tailCharIndex + 1], start)
        /\ start' = start + LengthAt(suffix, tailCharIndex + 1)
        /\ tailCharIndex' = tailCharIndex + 1
        /\ UNCHANGED <<doing, depth>>
     \/ /\ tailCharIndex = Len(suffix)
        /\ doing' = "trieFill" /\ depth' = Len(way) /\ start' = trieLength
        /\ UNCHANGED <<tailCharIndex, string>>
  /\ UNCHANGED <<word, way, suffix, trieLength, tailLength>>

\* Faulty variant: a character is written where start is, not before it.
FillTrieAbove ==
  /\ doing = "trieFill"
  /\ \/ /\ depth > 0
        /\ Put(way[depth], start)
        /\ start' = start - LengthAt(way, depth)
        /\ depth' = depth - 1
        /\ UNCHANGED doing
     \/ /\ depth = 0
        /\ doing' = "returned"
        /\ UNCHANGED <<depth, start, string>>
  /\ UNCHANGED <<word, way, suffix, tailCharIndex, trieLength, tailLength>>

\* A round of automaton_returnNeedle_trieFill, and the return.
FillTrie ==
  /\ doing = "trieFill"
  /\ \/ /\ depth > 0
        /\ Put(way[depth], start - LengthAt(way, depth))
        /\ start' = start - LengthAt(way, depth)
        /\ depth' = depth - 1
        /\ UNCHANGED doing
     \/ /\ depth = 0
        /\ doing' = "returned"
        /\ UNCHANGED <<depth, start, string>>
  /\ UNCHANGED <<word, way, suffix, tailCharIndex, trieLength, tailLength>>

FoundNext == MeasureTrie \/ MeasureTail \/ Allocate \/ FillTail \/ FillTrie

FoundSpec == FoundInit /\ [][FoundNext]_returnVars

-----------------------------------------------------------------------------
(* Properties *)

\* The variables have their types.
FoundTypeOK ==
  /\ way \in Seq(1..LastCharacter) /\ suffix \in Seq(1..LastCharacter)
  /\ doing \in {"trieLength", "tailLength", "tailFill", "trieFill", "returned"}
  /\ depth \in 0..Len(way)
  /\ tailCharIndex \in 0..Len(suffix)
  /\ trieLength \in Nat /\ tailLength \in Nat /\ start \in Nat

\* Both fills stay in what was allocated, although each character is measured
\* again, in another order, by loops that end on another condition.
StaysInAllocation ==
  doing \in {"tailFill", "trieFill", "returned"} =>
    DOMAIN string = 1..trieLength + tailLength

\* The string is the UTF-8 of the characters of the cell, in their order: the
\* needle and, without a tail to end it, END_OF_TEXT behind it.  The needle
\* alone is what readme.md:41 promises (ReturnsEveryNeedle of Automaton).
ReturnsCharactersOfCell ==
  doing = "returned" =>
    string = Utf8(IF suffix = <<>> THEN Append(word, END_OF_TEXT) ELSE word)

=============================================================================
