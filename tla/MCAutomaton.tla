------------------------------ MODULE MCAutomaton ------------------------------
(***************************************************************************)
(* Dictionaries and texts for Automaton, over two letters (97 and 98 are   *)
(* those of ASCII).                                                        *)
(***************************************************************************)
EXTENDS Automaton

CONSTANTS
  Alphabet,
  NeedleLength, Total,    \* longest needle, all needles of a pair together
  TextLength              \* longest text

WordsOver(lengths) == UNION {[1..n -> Alphabet] : n \in lengths}

MCTexts == WordsOver(1..TextLength)

\* Dictionaries of one or two needles, and of three that end alike.
MCDictionaries ==
  LET words == WordsOver(1..NeedleLength)
      nested == {w \in words : Len(w) <= 3 /\ Last(w) = Min(Alphabet)}
  IN  {{p[1], p[2]} : p \in {p \in words \X words :
                               Len(p[1]) + Len(p[2]) <= Total}}
      \union {{u, v, w} : u, v, w \in nested}

\* Two needles, of which one ends inside the other: a and baa.
OneInside ==
  LET a == Min(Alphabet)  b == Max(Alphabet)
  IN  {{<<a>>, <<b, a, a>>}}

\* The first of them three times, and then inside the beginning of the other.
ThreeAndOneInside ==
  LET a == Min(Alphabet)  b == Max(Alphabet)
  IN  {<<a, a, a, b, a>>}

===============================================================================
