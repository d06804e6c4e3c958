------------------------------- MODULE Automaton -------------------------------
(***************************************************************************)
(* The Aho-Corasick automaton (src/ac.c): construction from a trie, with   *)
(* the list as a queue or as a stack, and the two searches.                *)
(*                                                                         *)
(* A state is named by the characters that lead to it in the trie; module  *)
(* Trie checks that the cells are those of TrieShape.  A leaf is a state   *)
(* with a negative base: the rest of its needle lies in the tail.          *)
(*                                                                         *)
(* Texts are valid UTF-8 without control characters, and the number of a   *)
(* tail cell is below every character: automaton_step takes base plus      *)
(* character for a cell index also when the base is that of a leaf.        *)
(***************************************************************************)
EXTENDS TrieShape

CONSTANTS
  Dictionaries,    \* the sets of needles to build an automaton from
  UseTail,         \* with a tail, without, or both
  BreadthFirst,    \* createAutomaton_BFS, createAutomaton_DFS, or both
  Texts            \* what is searched

ASSUME AutomatonAssumption ==
  /\ \A words \in Dictionaries :
       IsFiniteSet(words) /\ \A w \in words : w # << >>
  /\ (UNION Dictionaries) \union Texts \subseteq Seq(Nat)
  /\ UseTail \subseteq BOOLEAN /\ BreadthFirst \subseteq BOOLEAN
  /\ \A w \in (UNION Dictionaries) \union Texts :
       \A k \in DOMAIN w : w[k] > END_OF_TEXT

Root == << >>

VARIABLES
  useTail, breadthFirst,
  end,             \* the trie: needle |-> its end cell
  cells,           \* the cells of the trie, and of the automaton
  list,            \* the states to visit
  fail, output,    \* the functions of the automaton, where they are set
  pc,              \* "create", "build", "ready", "search", "done"
  mode,            \* "all", "first" or "exact", of the search in progress
  text, index,     \* the text searched, and how far it is read
  state,           \* the state it led to
  found            \* the occurrences: end cells, as returned

trie == <<useTail, breadthFirst, end, cells>>
automaton == <<list, fail, output>>
search == <<mode, text, index, state, found>>
vars == <<trie, automaton, pc, search>>

-----------------------------------------------------------------------------
HasChild(s, c) == Append(s, c) \in cells

\* base > 0 && check(base + END_OF_TEXT) == state
IsEnd(s) == HasChild(s, END_OF_TEXT)

\* base < 0
IsLeaf(s) == \E w \in DOMAIN end : end[w] = s /\ s # Append(w, END_OF_TEXT)

\* The needle that ends at cell s.
NeedleOf(s) == CHOOSE w \in DOMAIN end : end[w] = s

RestLength(leaf) == Len(NeedleOf(leaf)) - Len(leaf)

\* automaton_getFail
Fail(s) == IF s \in DOMAIN fail THEN fail[s] ELSE Root

\* automaton_step.  A leaf is never left.
Step(s, c) ==
  LET settled[t \in cells] ==
        IF t = Root \/ HasChild(t, c) THEN t ELSE settled[Fail(t)]
      t == IF IsLeaf(s) THEN s ELSE settled[s]
  IN  IF HasChild(t, c) THEN Append(t, c) ELSE t

\* The children of a state, in the order of their characters.
ChildrenOf(s) ==
  LET chars == {Last(t) : t \in {t \in cells : t # Root /\ Front(t) = s}}
      inOrder == CHOOSE q \in SetToSeqs(chars \ {END_OF_TEXT}) :
                   \A k \in 2..Len(q) : q[k - 1] < q[k]
  IN  [k \in DOMAIN inOrder |-> Append(s, inOrder[k])]

-----------------------------------------------------------------------------
Init ==
  /\ useTail \in UseTail /\ breadthFirst \in BreadthFirst
  /\ \E words \in Dictionaries :
       /\ end \in [words -> UNION {EndCells(words, useTail, w) : w \in words}]
       /\ \A w \in words : end[w] \in EndCells(words, useTail, w)
  /\ cells = Nodes({end[w] : w \in DOMAIN end})
  /\ list = << >> /\ fail = << >> /\ output = << >>
  /\ pc = "create"
  /\ mode = "all" /\ text = << >> /\ index = 0 /\ state = Root
  /\ found = << >>

\* createAutomatonFromTrie: base and check are copied, the children of the
\* root fail to the root and are the first to be visited.
CreateAutomatonFromTrie ==
  /\ pc = "create"
  /\ list' = ChildrenOf(Root)
  /\ fail' = [s \in ToSet(list') |-> Root]
  /\ pc' = "build"
  /\ UNCHANGED <<trie, output, search>>

\* Faulty variant: the output of the fail is not passed on.
OutputDirect(next) == IF IsEnd(next) THEN {next} ELSE {}

\* What the output of a state is that fails to next: next itself if it is
\* an end, else its output, if any.
OutputThrough(next) ==
  IF IsEnd(next) THEN {next}
  ELSE IF next \in DOMAIN output THEN {output[next]} ELSE {}

\* Faulty variant: the step is taken from the state visited.
FailFromItself(check, c) == Step(check, c)

\* The fail of the child of check through c.
ChildFail(check, c) == Step(Fail(check), c)

\* obtainNode is list_shift or list_pop.
Obtained == IF breadthFirst THEN Head(list) ELSE Last(list)
Others == IF breadthFirst THEN Tail(list) ELSE Front(list)

\* One round of the loop of buildAutomaton.  The children of a state do not
\* depend on each other: their fails are shorter than they are.
Visit ==
  /\ pc = "build" /\ list # << >>
  /\ LET children == ChildrenOf(Obtained)
         next == [s \in ToSet(children) |-> ChildFail(Obtained, Last(s))]
         ending == {s \in DOMAIN next : OutputThrough(next[s]) # {}}
     IN  /\ fail' = [s \in DOMAIN fail \union DOMAIN next |->
                       IF s \in DOMAIN next THEN next[s] ELSE fail[s]]
         /\ output' = [s \in DOMAIN output \union ending |->
                         IF s \in ending
                         THEN CHOOSE o \in OutputThrough(next[s]) : TRUE
                         ELSE output[s]]
         /\ list' = Others \o children
  /\ UNCHANGED <<trie, pc, search>>

Built ==
  /\ pc = "build" /\ list = << >>
  /\ pc' = "ready"
  /\ UNCHANGED <<trie, automaton, search>>

-----------------------------------------------------------------------------
StartSearch ==
  /\ pc = "ready"
  /\ pc' = "search"
  /\ mode' \in {"all", "first", "exact"} /\ text' \in Texts
  /\ UNCHANGED <<trie, automaton, index, state, found>>

\* Faulty variant: the text has to go on behind the needle.
IsTailWithin(leaf, exact, at) == Len(text) - at > RestLength(leaf)

\* isTail: of the characters in the tail only their number matters.  The
\* test that should compare them also asks for the character to be invalid.
IsTail(leaf, exact, at) ==
  IF exact THEN Len(text) - at = RestLength(leaf)
  ELSE Len(text) - at >= RestLength(leaf)

\* Faulty variant: an exact search stops at the first needle.
IsMatchOfPrefix(s, exact, at) ==
  IsEnd(s) \/ (IsLeaf(s) /\ IsTail(s, exact, at))

\* Whether a search that has read at characters to state s reports one.
IsMatch(s, exact, at) ==
  \/ IsEnd(s) /\ (exact => at = Len(text))
  \/ IsLeaf(s) /\ IsTail(s, exact, at)

\* automaton_createOccurrence names the end cell.
Occurrence(s) == IF IsLeaf(s) THEN s ELSE Append(s, END_OF_TEXT)

\* automaton_search_exact
SearchExact ==
  /\ pc = "search" /\ mode = "exact"
  /\ LET matches == {k \in 1..Len(text) :
                       /\ SubSeq(text, 1, k) \in cells
                       /\ IsMatch(SubSeq(text, 1, k), TRUE, k)}
     IN  found' = IF matches = {} THEN << >>
                  ELSE <<Occurrence(SubSeq(text, 1, Min(matches)))>>
  /\ pc' = "done"
  /\ UNCHANGED <<trie, automaton, mode, text, index, state>>

\* Faulty variant: the first occurrence is lost.
LinkedLast(occurrence, rounds) == <<occurrence>>

\* The list of occurrences after occurrence was created rounds times:
\* lastOccurrence stays at the first one, so that all others are linked
\* behind that one, each in place of the one before.
Linked(occurrence, rounds) ==
  IF found = << >> /\ rounds = 1 THEN <<occurrence>>
  ELSE <<Head(Append(found, occurrence)), occurrence>>

\* A round of the loop of automaton_search_ac.  The inner loop runs through
\* the outputs of the new state, but looks at that state in every round.
ReadCharacter ==
  /\ pc = "search" /\ mode # "exact"
  /\ index < Len(text)
  /\ index' = index + 1
  /\ state' = Step(state, text[index'])
  /\ LET moreRounds == IF state' \in DOMAIN output THEN 1 ELSE 0
         match == IsMatch(state', FALSE, index')
     IN  /\ found' = IF ~match THEN found
                     ELSE IF mode = "first" THEN <<Occurrence(state')>>
                     ELSE Linked(Occurrence(state'), 1 + moreRounds)
         /\ pc' = IF match /\ mode = "first" THEN "done" ELSE pc
  /\ UNCHANGED <<trie, automaton, mode, text>>

EndOfText ==
  /\ pc = "search" /\ mode # "exact"
  /\ index = Len(text)
  /\ pc' = "done"
  /\ UNCHANGED <<trie, automaton, search>>

\* The caller takes the occurrences; the automaton is as it was.
Return ==
  /\ pc = "done"
  /\ pc' = "ready"
  /\ mode' = "all" /\ text' = << >> /\ index' = 0 /\ state' = Root
  /\ found' = << >>
  /\ UNCHANGED <<trie, automaton>>

Next ==
  \/ CreateAutomatonFromTrie
  \/ Visit
  \/ Built
  \/ StartSearch
  \/ SearchExact
  \/ ReadCharacter
  \/ EndOfText
  \/ Return

Spec == Init /\ [][Next]_vars

-----------------------------------------------------------------------------
(* Properties *)

\* The variables have their types; a fail and an output lead to a state, and
\* what a search has found are end cells.
TypeOK ==
  /\ useTail \in BOOLEAN /\ breadthFirst \in BOOLEAN
  /\ ToSet(list) \subseteq cells
  /\ DOMAIN fail \subseteq cells
  /\ {fail[s] : s \in DOMAIN fail} \subseteq cells
  /\ DOMAIN output \subseteq DOMAIN fail
  /\ {output[s] : s \in DOMAIN output} \subseteq cells
  /\ pc \in {"create", "build", "ready", "search", "done"}
  /\ mode \in {"all", "first", "exact"} /\ text \in Texts \union {<< >>}
  /\ index \in 0..Len(text) /\ state \in cells
  /\ Len(found) <= 2
  /\ ToSet(found) \subseteq {end[w] : w \in DOMAIN end}

\* Fails and outputs lead to shorter words, whatever the order of the visits
\* and also where fails lead to leaves: the loops of automaton_step and of
\* automaton_search_ac end.
FailsShorten ==
  /\ \A s \in DOMAIN fail : Len(fail[s]) < Len(s)
  /\ \A s \in DOMAIN output : Len(output[s]) < Len(s)

\* The longest of the words in S that ends word.
LongestSuffix(word, S) ==
  CHOOSE s \in Suffixes(word) \intersect S :
    \A t \in Suffixes(word) \intersect S : Len(t) <= Len(s)

Shorter(s) == cells \ {s}

\* buildAutomaton visits no state before the fails that it follows from there
\* are set, if it takes them from the front of the list: every fail that is
\* set is the longest proper suffix of its state that is a state, and "output
\* function points to the nearest end state where we can get through fail
\* functions" (readme.md).
FailsAndOutputsNearest ==
  breadthFirst /\ ~useTail =>
    \A s \in DOMAIN fail :
      /\ fail[s] = LongestSuffix(s, Shorter(s))
      /\ LET ends == {t \in Suffixes(s) \ {s} : IsEnd(t)}
         IN  IF ends = {} THEN s \notin DOMAIN output
             ELSE s \in DOMAIN output /\ output[s] = LongestSuffix(s, ends)

Occurs(word, string) ==
  \E k \in 0..Len(string) - Len(word) :
    SubSeq(string, k + 1, k + Len(word)) = word

\* Whatever is reported is in the text, and is the text in an exact search.
OnlyOccurrences ==
  \A o \in ToSet(found) :
    IF mode = "exact" THEN NeedleOf(o) = text ELSE Occurs(NeedleOf(o), text)

\* Without a tail nothing is reported that is not there, although the fails
\* of the depth-first construction are not the right ones.
OnlyOccurrencesInArray == ~useTail => OnlyOccurrences

\* A needle that is searched in itself is found, with every option, as
\* example/main.c and bench/main.c test: no fail is followed on its way.
NeedleFindsItself ==
  pc = "done" /\ text \in DOMAIN end =>
    IF mode = "exact" THEN found = <<end[text]>> ELSE found # << >>

\* What a search without a tail reports, told without the automaton: of the
\* places in the text where the longest suffix that begins a needle is a
\* needle, the first and the last.
ReportsLongest ==
  pc = "done" /\ mode # "exact" /\ breadthFirst /\ ~useTail =>
    LET reached == [k \in 0..Len(text) |->
                      LongestSuffix(SubSeq(text, 1, k), cells)]
        places == {k \in 1..Len(text) : IsEnd(reached[k])}
    IN  IF places = {} THEN found = << >>
        ELSE /\ Head(found) = Occurrence(reached[Min(places)])
             /\ mode = "all" => Last(found) = Occurrence(reached[Max(places)])

\* The characters of the string returned for an occurrence (FoundNeedle):
\* those that lead to its cell, and those of its tail.
ReturnedNeedle(o) == IF IsLeaf(o) THEN NeedleOf(o) ELSE o

\* "Without this mode same message is sent for the next occurrence.  The
\* whole process is then repeated" (readme.md:73, of FIRST), and mode NEEDLE
\* is to "construct and return found needle in the dictionary" (readme.md:41):
\* each needle is returned as often as it occurs.  Those that end inside
\* others are what the output function is for, which "points to the nearest
\* end state where we can get through fail functions" (readme.md:101).
ReturnsEveryNeedle ==
  pc = "done" /\ mode = "all" =>
    \A w \in DOMAIN end :
      Cardinality({i \in DOMAIN found : ReturnedNeedle(found[i]) = w})
        = Cardinality({k \in 1..Len(text) : IsSuffix(w, SubSeq(text, 1, k))})

===============================================================================
