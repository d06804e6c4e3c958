-------------------------------- MODULE Needle --------------------------------
(***************************************************************************)
(* The needle that createTrieNeedle of src/needle.c makes of a C string,   *)
(* and the characters that a search in src/ac.c reads from the same one.   *)
(*                                                                         *)
(* A C string lies in memory that goes on behind its NUL.  What lies there *)
(* is anything, and is read where the string ends inside a character.      *)
(***************************************************************************)
EXTENDS Utf8

CONSTANTS
  Strings,   \* of characters: each becomes a C string in UTF-8
  Bytes,     \* any other C strings, without their NUL
  Behind     \* what may lie behind the NUL; zeros follow

VARIABLES
  text, behind,    \* the memory: text, NUL, behind, zeros
  pc,              \* "count", "decode", "returned", "search", "end"
  needle,          \* what createTrieNeedle returned, or "none"
  index,           \* of createTrieNeedle and of the search
  length,          \* characters counted
  characters,      \* of the TrieNeedle
  found            \* the characters the search has read

memory == <<text, behind>>
vars == <<memory, pc, needle, index, length, characters, found>>

ASSUME NeedleAssumption ==
  /\ Strings \subseteq Seq(1..LastCharacter)
  /\ \A chars \in Strings : Utf8(chars) \in Seq(1..255)
  /\ Bytes \subseteq Seq(1..255)
  /\ Behind \subseteq Seq(0..255)

Byte(i) ==
  IF i < Len(text) THEN text[i + 1]
  ELSE IF i > Len(text) /\ i <= Len(text) + Len(behind)
       THEN behind[i - Len(text)] ELSE 0

CharacterAt(i, n) == Utf8ToUnicode([c \in 1..n |-> Byte(i + c - 1)], n)

Init ==
  /\ text \in Bytes \union {Utf8(chars) : chars \in Strings}
  /\ behind \in Behind
  /\ pc = "count" /\ needle = "none" /\ index = 0 /\ length = 0
  /\ characters = <<>> /\ found = <<>>

ReturnValue(value) == pc' = "returned" /\ needle' = value

\* A round of the first loop of createTrieNeedle, and its end.
CountCharacter ==
  /\ pc = "count" /\ Byte(index) # 0
  /\ LET n == Utf8Length(Byte(index))
     IN  \/ n = 0 /\ ReturnValue("NULL") /\ UNCHANGED <<index, length>>
         \/ /\ n > 0
            /\ index' = index + n
            /\ length' = length + 1
            /\ UNCHANGED <<pc, needle>>
  /\ UNCHANGED <<memory, characters, found>>

Counted ==
  /\ pc = "count" /\ Byte(index) = 0
  /\ pc' = "decode" /\ index' = 0
  /\ UNCHANGED <<memory, needle, length, characters, found>>

\* A round of the second loop, and its end.
DecodeCharacter ==
  /\ pc = "decode" /\ Len(characters) < length
  /\ LET n == Utf8Length(Byte(index))
         unicode == CharacterAt(index, n)
     IN  \/ /\ unicode = 0
            /\ ReturnValue("NULL")
            /\ UNCHANGED <<index, characters>>
         \/ /\ unicode # 0
            /\ characters' = Append(characters, unicode)
            /\ index' = index + n
            /\ UNCHANGED <<pc, needle>>
  /\ UNCHANGED <<memory, length, found>>

Decoded ==
  /\ pc = "decode" /\ Len(characters) = length
  /\ ReturnValue("made")
  /\ UNCHANGED <<memory, index, length, characters, found>>

\* The same string is searched.
StartSearch ==
  /\ pc = "returned"
  /\ pc' = "search" /\ index' = 0
  /\ UNCHANGED <<memory, needle, length, characters, found>>

\* Faulty variant: a search reads bytes for characters.
ReadByte ==
  /\ pc = "search" /\ Byte(index) # 0
  /\ found' = Append(found, Byte(index))
  /\ index' = index + 1
  /\ UNCHANGED <<memory, pc, needle, length, characters>>

\* A round of the loop of automaton_search_ac that reads the text.  Where no
\* character starts, utf8ToUnicode shifts by -6: what comes of it, index does
\* not move, and the search returns (a negative character) or goes round.
ReadCharacter ==
  /\ pc = "search" /\ Byte(index) # 0
  /\ LET n == Utf8Length(Byte(index))
     IN  \/ /\ n = 0
            /\ pc' \in {"search", "end"}
            /\ UNCHANGED <<index, found>>
         \/ /\ n > 0
            /\ found' = Append(found, CharacterAt(index, n))
            /\ index' = index + n
            /\ UNCHANGED pc
  /\ UNCHANGED <<memory, needle, length, characters>>

EndOfText ==
  /\ pc = "search" /\ Byte(index) = 0
  /\ pc' = "end"
  /\ UNCHANGED <<memory, needle, index, length, characters, found>>

CreateTrieNeedle == CountCharacter \/ Counted \/ DecodeCharacter \/ Decoded

SearchText == StartSearch \/ ReadCharacter \/ EndOfText

Next == CreateTrieNeedle \/ SearchText

Spec == Init /\ [][Next]_vars

\* The loops run, and what is made of the string is searched for.
FairSpec == Spec /\ WF_vars(Next)

-----------------------------------------------------------------------------
(* Properties *)

\* The variables have their types.
TypeOK ==
  /\ pc \in {"count", "decode", "returned", "search", "end"}
  /\ needle \in {"none", "made", "NULL"}
  /\ index \in Nat
  /\ length \in Nat
  /\ characters \in Seq(Int) /\ Len(characters) <= length
  /\ found \in Seq(Int)

\* A string that ends inside a character is refused, whatever lies behind it
\* (the first loop jumps over the NUL and goes on there, the second loop finds
\* the NUL in the character): a needle that is made ends where its string does.
MadeOfWholeCharacters ==
  pc = "returned" /\ needle = "made" => index = Len(text)

\* The places p[0], p[1], ... where the first loop finds characters.
Starts(p) ==
  /\ p \in [0..length -> Nat]
  /\ p[0] = 0
  /\ \A k \in 0..length - 1 : /\ Utf8Length(Byte(p[k])) > 0
                             /\ p[k + 1] = p[k] + Utf8Length(Byte(p[k]))

\* The second loop goes the way of the first, and no further than the NUL.
LoopsAgree ==
  \E p \in [0..length -> Nat] :
    /\ Starts(p)
    /\ pc = "count" => index = p[length]
    /\ pc = "decode" => /\ Byte(p[length]) = 0
                        /\ index = p[Len(characters)]
                        /\ index <= Len(text)

\* The inductive invariant on which StreamProofs rests.
IInv ==
  /\ TypeOK
  /\ text \in Seq(1..255) /\ behind \in Seq(0..255)
  /\ pc \in {"count", "decode"} => needle = "none"
  /\ pc = "count" => characters = <<>>
  /\ LoopsAgree
  /\ MadeOfWholeCharacters

\* createTrieNeedle makes of a string in UTF-8 the needle of its characters,
\* and neither it nor a search reads behind the NUL.
DecodesUtf8 ==
  \A chars \in Strings :
    text = Utf8(chars) => /\ needle # "NULL"
                          /\ needle = "made" => characters = chars
                          /\ index <= Len(text)

\* A search of any string that createTrieNeedle accepts ends, and has read
\* the characters that createTrieNeedle stored.
SearchReadsNeedle ==
  needle = "made" ~> pc = "end" /\ found = characters

=============================================================================
